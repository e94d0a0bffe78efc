----------------------------- MODULE Conference -----------------------------
(***************************************************************************)
(* The conference of "assignment 8": server.c, and client.c, of which each *)
(* client runs two processes, the sender (which Ctrl-C makes read a        *)
(* message) and its child, the receiver.  They share                       *)
(*   members  the pids in shared memory, under semaphore sem1              *)
(*   ptrmsg   one message in shared memory                                 *)
(*   sem2     0: ptrmsg is free, 1: being written, 2: to be read; it is    *)
(*            polled with GETVAL and set with SETVAL, never downed         *)
(*   inbox    the message queue, whose type is the receiver's pid          *)
(* Every semaphore operation and every access to shared memory outside a   *)
(* semaphore is a step.  The unfinished start-up of a client (stat, then   *)
(* the IPC calls) is one step, and so is a strcpy from or to ptrmsg: the   *)
(* server copies it without sem1, so that a client that writes at the same *)
(* time could also leave it half a message of each.                        *)
(***************************************************************************)
EXTENDS Integers, FiniteSets, Sequences, SequencesExt

CONSTANTS
  Clients,
  MaxTexts        \* bound: messages typed by each client before bye

ASSUME ConferenceAssumption == IsFiniteSet(Clients) /\ MaxTexts \in Nat

VARIABLES
  sem1, sem2, members, ptrmsg, inbox,
  alive,              \* FALSE once the server has removed the IPC objects
  spc, ptrmsg_copy, recipients,      \* the server
  cpc, name, typed,   \* each sender: its line, what was typed, how often
  rpc, got,           \* each receiver: its line, what it printed
  sig,                \* receivers sent SIGUSR1
  together,           \* history: two senders have seen sem2 = 0 for one turn
  hasty               \* history: a user's bye came before the receiver registered

server   == <<spc, ptrmsg_copy, recipients>>
sender   == <<cpc, name, typed>>
receiver == <<rpc, got>>
past     == <<together, hasty>>
vars == <<sem1, sem2, members, ptrmsg, inbox, alive, server, sender, receiver, sig, past>>

\* A message is its kind, who wrote it and how many that client typed before.
Message == {"text", "bye", ".", "*"} \X Clients \X (0..MaxTexts)

Kind(m) == m[1]
From(m) == m[2]

Init ==
  /\ sem1 = 1 /\ sem2 = 0 /\ members = <<>> /\ ptrmsg = <<>>
  /\ inbox = [c \in Clients |-> <<>>]
  /\ alive = TRUE
  /\ spc = "wait" /\ ptrmsg_copy = <<>> /\ recipients = <<>>
  /\ cpc = [c \in Clients |-> "off"] /\ name = [c \in Clients |-> "."]
  /\ typed = [c \in Clients |-> 0]
  /\ rpc = [c \in Clients |-> "off"] /\ got = [c \in Clients |-> <<>>]
  /\ sig = {} /\ together = FALSE /\ hasty = FALSE

\* Once the semaphores are removed semop fails, and nobody looks at its result.
Down1 == IF alive THEN sem1 > 0 /\ sem1' = sem1 - 1 ELSE UNCHANGED sem1
Up1   == sem1' = IF alive THEN sem1 + 1 ELSE sem1

-----------------------------------------------------------------------------
(* The server's loop.                                                      *)

ServerGoto(l) == spc' = l

ServerSees ==
  /\ spc = "wait" /\ sem2 = 2
  /\ ServerGoto("copy")
  /\ UNCHANGED <<sem1, sem2, members, ptrmsg, inbox, alive, ptrmsg_copy, recipients,
                 sender, receiver, sig, past>>

CopyMessage ==
  /\ spc = "copy"
  /\ ptrmsg_copy' = ptrmsg
  /\ ServerGoto("reset")
  /\ UNCHANGED <<sem1, sem2, members, ptrmsg, inbox, alive, recipients, sender,
                 receiver, sig, past>>

Reset_Forgotten ==
  /\ spc = "reset"
  /\ ServerGoto("handle")
  /\ UNCHANGED <<sem1, sem2, members, ptrmsg, inbox, alive, ptrmsg_copy, recipients,
                 sender, receiver, sig, past>>

Reset ==
  /\ spc = "reset"
  /\ sem2' = 0
  /\ ServerGoto("handle")
  /\ UNCHANGED <<sem1, members, ptrmsg, inbox, alive, ptrmsg_copy, recipients,
                 sender, receiver, sig, past>>

IgnoreDot ==
  /\ spc = "handle" /\ Kind(ptrmsg_copy) = "."
  /\ ServerGoto("wait")
  /\ UNCHANGED <<sem1, sem2, members, ptrmsg, inbox, alive, ptrmsg_copy, recipients,
                 sender, receiver, sig, past>>

Terminate_Ignored ==
  /\ spc = "handle" /\ Kind(ptrmsg_copy) = "*"
  /\ ServerGoto("wait")
  /\ UNCHANGED <<sem1, sem2, members, ptrmsg, inbox, alive, ptrmsg_copy, recipients,
                 sender, receiver, sig, past>>

Terminate ==
  /\ spc = "handle" /\ Kind(ptrmsg_copy) = "*"
  /\ alive' = FALSE
  /\ ServerGoto("gone")
  /\ UNCHANGED <<sem1, sem2, members, ptrmsg, inbox, ptrmsg_copy, recipients,
                 sender, receiver, sig, past>>

\* Under sem1, which nobody sees taken and given back: the list as it is now.
ReadMembers ==
  /\ spc = "handle" /\ sem1 > 0
  /\ Kind(ptrmsg_copy) \in {"text", "bye"}
  /\ recipients' = members
  /\ ServerGoto("send")
  /\ UNCHANGED <<sem1, sem2, members, ptrmsg, inbox, alive, ptrmsg_copy,
                 sender, receiver, sig, past>>

Broadcast_StopsShort ==
  /\ spc = "send"
  /\ IF Len(recipients) <= 1
       THEN ServerGoto("wait") /\ UNCHANGED <<inbox, recipients>>
       ELSE /\ inbox' = IF Head(recipients) = From(ptrmsg_copy) THEN inbox
                        ELSE [inbox EXCEPT ![Head(recipients)] = Append(@, ptrmsg_copy)]
            /\ recipients' = Tail(recipients) /\ UNCHANGED spc
  /\ UNCHANGED <<sem1, sem2, members, ptrmsg, alive, ptrmsg_copy, sender,
                 receiver, sig, past>>

\* Once around the loop of lines 293-311, which leaves out the sender's pid.
Broadcast ==
  /\ spc = "send"
  /\ IF recipients = <<>>
       THEN ServerGoto("wait") /\ UNCHANGED <<inbox, recipients>>
       ELSE /\ inbox' = IF Head(recipients) = From(ptrmsg_copy) THEN inbox
                        ELSE [inbox EXCEPT ![Head(recipients)] = Append(@, ptrmsg_copy)]
            /\ recipients' = Tail(recipients) /\ UNCHANGED spc
  /\ UNCHANGED <<sem1, sem2, members, ptrmsg, alive, ptrmsg_copy, sender,
                 receiver, sig, past>>

-----------------------------------------------------------------------------
(* A client's sender.                                                      *)

Goto(c, l) == cpc' = [cpc EXCEPT ![c] = l]

\* ser.txt exists; the receiver is forked.
Start(c) ==
  /\ cpc[c] = "off" /\ alive
  /\ Goto(c, "idle") /\ rpc' = [rpc EXCEPT ![c] = "boot"]
  /\ UNCHANGED <<sem1, sem2, members, ptrmsg, inbox, alive, server, name, typed,
                 got, sig, past>>

TypeIn(c, input) ==
  /\ cpc[c] = "idle"
  /\ input = "bye" \/ typed[c] < MaxTexts
  /\ name' = [name EXCEPT ![c] = input]
  /\ Goto(c, "wait")
  /\ UNCHANGED <<sem1, sem2, members, ptrmsg, inbox, alive, server, typed,
                 receiver, sig, past>>

\* wait_for(sem2,0).  GETVAL of a removed semaphore is -1: it spins for ever.
SeeFree(c) ==
  /\ cpc[c] = "wait" /\ alive /\ sem2 = 0
  /\ Goto(c, "claim")
  /\ together' = (together \/ \E d \in Clients \ {c} : cpc[d] = "claim")
  /\ UNCHANGED <<sem1, sem2, members, ptrmsg, inbox, alive, server, name, typed,
                 receiver, sig, hasty>>

\* setvalue(sem2, n), which ends the process if the semaphore is gone.
SetOrExit(c, n, next) ==
  IF alive THEN sem2' = n /\ Goto(c, next) ELSE Goto(c, "gone") /\ UNCHANGED sem2

Claim(c) ==
  /\ cpc[c] = "claim" /\ SetOrExit(c, 1, "lock")
  /\ UNCHANGED <<sem1, members, ptrmsg, inbox, alive, server, name, typed,
                 receiver, sig, past>>

WriteMessage(c) ==
  /\ cpc[c] = "lock" /\ name[c] # "bye" /\ Down1
  /\ ptrmsg' = <<name[c], c, typed[c]>>
  /\ typed' = [typed EXCEPT ![c] = @ + 1]
  /\ Goto(c, "set2")
  /\ UNCHANGED <<sem2, members, inbox, alive, server, name, receiver, sig, past>>

WriteBye_KeepPid(c) ==
  /\ cpc[c] = "lock" /\ name[c] = "bye" /\ Down1
  /\ ptrmsg' = <<IF Len(members) = 1 THEN "*" ELSE "bye", c, typed[c]>>
  /\ hasty' = (hasty \/ rpc[c] = "boot")
  /\ Goto(c, "set2")
  /\ UNCHANGED <<sem2, members, inbox, alive, server, name, typed, receiver, sig,
                 together>>

\* A receiver lists its pid once, so one entry at most is left out.
Unlist(c) ==
  \/ \E k \in DOMAIN members : members[k] = c /\ members' = RemoveAt(members, k)
  \/ c \notin ToSet(members) /\ UNCHANGED members

\* Lines 133-154: "*" if one pid is listed, whosever; one's own pid goes.
WriteBye(c) ==
  /\ cpc[c] = "lock" /\ name[c] = "bye" /\ Down1
  /\ ptrmsg' = <<IF Len(members) = 1 THEN "*" ELSE "bye", c, typed[c]>>
  /\ Unlist(c)
  /\ hasty' = (hasty \/ rpc[c] = "boot")
  /\ Goto(c, "set2")
  /\ UNCHANGED <<sem2, inbox, alive, server, name, typed, receiver, sig, together>>

Announce(c) ==
  /\ cpc[c] = "set2" /\ SetOrExit(c, 2, "unlock")
  /\ UNCHANGED <<sem1, members, ptrmsg, inbox, alive, server, name, typed,
                 receiver, sig, past>>

Unlock_Forgotten(c) ==
  /\ cpc[c] = "unlock"
  /\ Goto(c, IF name[c] = "bye" THEN "kill" ELSE "idle")
  /\ UNCHANGED <<sem1, sem2, members, ptrmsg, inbox, alive, server, name, typed,
                 receiver, sig, past>>

Unlock(c) ==
  /\ cpc[c] = "unlock" /\ Up1
  /\ Goto(c, IF name[c] = "bye" THEN "kill" ELSE "idle")
  /\ UNCHANGED <<sem2, members, ptrmsg, inbox, alive, server, name, typed,
                 receiver, sig, past>>

KillReceiver(c) ==
  /\ cpc[c] = "kill"
  /\ sig' = sig \cup {c}
  /\ Goto(c, "gone")
  /\ UNCHANGED <<sem1, sem2, members, ptrmsg, inbox, alive, server, name, typed,
                 receiver, past>>

-----------------------------------------------------------------------------
(* A client's receiver.                                                    *)

ReceiverGoto(c, l) == rpc' = [rpc EXCEPT ![c] = l]

Register_NoDown(c) ==
  /\ rpc[c] = "boot"
  /\ members' = Append(members, c)
  /\ ReceiverGoto(c, "registered")
  /\ UNCHANGED <<sem1, sem2, ptrmsg, inbox, alive, server, sender, got, sig, past>>

Register(c) ==
  /\ rpc[c] = "boot" /\ Down1
  /\ members' = Append(members, c)
  /\ ReceiverGoto(c, "registered")
  /\ UNCHANGED <<sem2, ptrmsg, inbox, alive, server, sender, got, sig, past>>

Listen(c) ==
  /\ rpc[c] = "registered" /\ Up1
  /\ ReceiverGoto(c, "listen")
  /\ UNCHANGED <<sem2, members, ptrmsg, inbox, alive, server, sender, got, sig, past>>

Receive(c) ==
  /\ rpc[c] = "listen" /\ alive /\ inbox[c] # <<>>
  /\ got' = [got EXCEPT ![c] = Append(@, Head(inbox[c]))]
  /\ inbox' = [inbox EXCEPT ![c] = Tail(@)]
  /\ UNCHANGED <<sem1, sem2, members, ptrmsg, alive, server, sender, rpc, sig, past>>

\* The queue is gone: msgrcv fails and the receiver exits.
ReceiveFails(c) ==
  /\ rpc[c] = "listen" /\ ~alive
  /\ ReceiverGoto(c, "dead")
  /\ UNCHANGED <<sem1, sem2, members, ptrmsg, inbox, alive, server, sender, got, sig, past>>

\* SIGUSR1 ends the receiver wherever it is, also between down and up of sem1.
Die(c) ==
  /\ c \in sig /\ rpc[c] \in {"boot", "registered", "listen"}
  /\ ReceiverGoto(c, IF rpc[c] = "registered" THEN "died registering" ELSE "dead")
  /\ UNCHANGED <<sem1, sem2, members, ptrmsg, inbox, alive, server, sender, got, sig, past>>

-----------------------------------------------------------------------------
Server == \/ ServerSees \/ CopyMessage \/ Reset \/ IgnoreDot \/ Terminate
          \/ ReadMembers \/ Broadcast

Sender(c) == \/ SeeFree(c) \/ Claim(c) \/ WriteMessage(c) \/ WriteBye(c)
             \/ Announce(c) \/ Unlock(c) \/ KillReceiver(c)

Receiver(c) == \/ Register(c) \/ Listen(c) \/ Receive(c) \/ ReceiveFails(c)
               \/ Die(c)

User(c) == Start(c) \/ \E input \in {"text", ".", "bye"} : TypeIn(c, input)

Next == \/ Server
        \/ \E c \in Clients : Sender(c) \/ Receiver(c) \/ User(c)

Spec == Init /\ [][Next]_vars

\* The processes are scheduled; users need not do anything.
FairSpec == /\ Spec /\ WF_vars(Server)
            /\ \A c \in Clients : WF_vars(Sender(c)) /\ WF_vars(Receiver(c))

-----------------------------------------------------------------------------
(* Properties.                                                             *)

\* Semaphores, lists and lines are what the programs may make of them.
TypeOK ==
  /\ sem1 \in {0, 1} /\ sem2 \in {0, 1, 2}
  /\ members \in Seq(Clients) /\ recipients \in Seq(Clients)
  /\ ptrmsg \in Message \cup {<<>>} /\ ptrmsg_copy \in Message \cup {<<>>}
  /\ inbox \in [Clients -> Seq(Message)] /\ got \in [Clients -> Seq(Message)]
  /\ alive \in BOOLEAN /\ sig \in SUBSET Clients
  /\ spc \in {"wait", "copy", "reset", "handle", "send", "gone"}
  /\ cpc \in [Clients -> {"off", "idle", "wait", "claim", "lock", "set2", "unlock", "kill", "gone"}]
  /\ name \in [Clients -> {"text", ".", "bye"}] /\ typed \in [Clients -> 0..MaxTexts]
  /\ rpc \in [Clients -> {"off", "boot", "registered", "listen", "dead", "died registering"}]

Left(c) == name[c] = "bye" /\ cpc[c] \in {"set2", "unlock", "kill", "gone"}

\* sem1 is free exactly when nobody is inside, the receivers that died inside
\* included: two processes never work on the list of pids at once.
OneInside ==
  alive => sem1 + Cardinality({c \in Clients : cpc[c] \in {"set2", "unlock"}})
                + Cardinality({c \in Clients : rpc[c] \in {"registered", "died registering"}})
           = 1

\* Unless a user's bye came before the receiver had registered, the list of pids
\* is exact: who has registered and not said bye is listed, once, so hears what
\* is said; who is listed is there to hear it.
MembersExact ==
  alive /\ ~hasty =>
    /\ IsInjective(members)
    /\ ToSet(members) = {c \in Clients : rpc[c] \in {"registered", "listen"} /\ ~Left(c)}

\* A client prints each sender's messages in the order in which they were typed,
\* whoever overwrites whose, and, as long as no two senders have gone past line
\* 126 for one turn, each of them once.
InOrderOnce ==
  \A c \in Clients :
    LET all == got[c] \o inbox[c] IN
    \A a, b \in DOMAIN all :
      a < b /\ From(all[a]) = From(all[b]) =>
        all[a][3] <= all[b][3] /\ (all[a][3] = all[b][3] => together)

\* A message the server has taken reaches every client listed at that moment,
\* but for clients that leave, for the end of the conference, and for a receiver
\* that a hasty bye kills while it has sem1, which stops the server at line 275.
EveryMemberHears ==
  \A c \in Clients, n \in 0..(MaxTexts - 1) : \A d \in Clients \ {c} :
    (spc = "handle" /\ ptrmsg_copy = <<"text", c, n>> /\ d \in ToSet(members))
      ~> (<<"text", c, n>> \in ToSet(got[d]) \/ Left(d) \/ ~alive \/ hasty)

\* When every user has typed bye the server removes the IPC objects, unless two
\* senders took one turn together (the last "*" may be overwritten or never be
\* announced) or a bye came before its receiver was listed.
ServerEnds ==
  (\A c \in Clients : name[c] = "bye") ~> (~alive \/ together \/ hasty)

\* What the comment at client.c:127-128 says of setting sem2 to 1: other clients
\* do not enter here, and neither does the server.  Two clients that both see 0
\* at line 126 do.
ClaimExcludes ==
  /\ \A c, d \in Clients : {cpc[c], cpc[d]} \subseteq {"lock", "set2"} => c = d
  /\ spc \in {"copy", "reset"} => \A c \in Clients : cpc[c] \notin {"lock", "set2"}
=============================================================================
