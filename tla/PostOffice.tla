------------------------------ MODULE PostOffice ------------------------------
(***************************************************************************)
(* The network: several Nachos processes, each with a network device       *)
(* (machine/network.cc), a post office with its worker thread              *)
(* (network/post.cc), mailboxes (threads/synchlist.cc) and client threads  *)
(* that send and receive mail, among them the test of network/nettest.cc.  *)
(* The processes talk through UNIX sockets (machine/sysdep.cc), which keep *)
(* datagrams in order; the device drops packets at random.                 *)
(*                                                                         *)
(* Locks and conditions are stubs (threads/synch.cc:100-112): the send     *)
(* lock excludes nobody and waiting for mail fails an assertion.           *)
(***************************************************************************)
EXTENDS Integers, Sequences, FiniteSets

CONSTANTS
    Node,        \* Nachos processes
    Client,      \* client threads
    home,        \* the node of each client
    script,      \* the operations of each client, in order
    numBoxes,    \* mailboxes of a post office
    NULL

ASSUME PostOfficeAssumption ==
    /\ home \in [Client -> Node] /\ IsFiniteSet(Client)
    /\ Client \cap Node = {}
    /\ NULL \notin {"messageAvailable", "messageSent"} \X Node
    /\ numBoxes \in Nat \ {0}

Boxes == 0 .. numBoxes - 1
Semaphores == {"messageAvailable", "messageSent"} \X Node
available(n) == <<"messageAvailable", n>>
messageSent(n) == <<"messageSent", n>>

VARIABLES
    status,    \* "up", "halted", or "aborted" by an assertion
    socket,    \* the datagrams UNIX holds for each node
    inbox,     \* Network::inHdr and inbox: the buffered packet, if any
    sending,   \* NetworkSendDone interrupts that are scheduled
    boxes,     \* PostOffice::boxes, as sequences of mail
    value, inP,  \* the semaphores of the post offices and who waits in P
    sorting,   \* the worker has taken a unit and not yet the packet
    pc,        \* the next operation of each client's script
    got,       \* the mail each client received, in order
    lost       \* packets the devices dropped

device == <<socket, inbox, sending, lost>>
sems == <<value, inP>>
vars == <<status, device, boxes, sems, sorting, pc, got>>

CS == INSTANCE CountingSemaphore WITH
        Thread <- Client \cup Node, Sem <- Semaphores,
        initialValue <- [s \in Semaphores |-> 0]

-----------------------------------------------------------------------------
(* The test: a message to box 0 of the far node, the message of the far node *)
(* from box 0, an acknowledgement to the box it names, and the one for us    *)
(* from box 1.                                                               *)
MailTest(farAddr) ==
    << [op |-> "send", to |-> farAddr, box |-> 0], [op |-> "receive", box |-> 0],
       [op |-> "reply"], [op |-> "receive", box |-> 1], [op |-> "halt"] >>

Operation(c) == script[c][pc[c]]
Ready(c, op) ==
    /\ status[home[c]] = "up"
    /\ inP[c] = NULL
    /\ pc[c] <= Len(script[c]) /\ Operation(c).op = op
Step(c) == pc' = [pc EXCEPT ![c] = @ + 1]

(* Mail with the headers of the packet and of the mail; id names the send. *)
Mail(c, to, box) ==
    [from |-> home[c], to |-> to, box |-> box, replyTo |-> 1, id |-> <<c, pc[c]>>]

-----------------------------------------------------------------------------
Init ==
    /\ status = [n \in Node |-> "up"]
    /\ socket = [n \in Node |-> << >>]
    /\ inbox = [n \in Node |-> << >>]
    /\ sending = [n \in Node |-> 0]
    /\ boxes = [n \in Node |-> [b \in Boxes |-> << >>]]
    /\ CS!Init
    /\ sorting = [n \in Node |-> FALSE]
    /\ pc = [c \in Client |-> 1]
    /\ got = [c \in Client |-> << >>]
    /\ lost = {}

(* The datagram socket of a node: sending to one that is gone fails an       *)
(* assertion in the sender; a read takes the oldest datagram.                *)
PollSocket(n) == socket[n] # << >>
ReadFromSocket(n) ==
    /\ inbox' = [inbox EXCEPT ![n] = <<Head(socket[n])>>]
    /\ socket' = [socket EXCEPT ![n] = Tail(@)]
SendToSocket(n, mail) ==
    \/ /\ status[mail.to] = "up"
       /\ socket' = [socket EXCEPT ![mail.to] = Append(@, mail)]
       /\ UNCHANGED <<status, lost>>
    \/ /\ status[mail.to] # "up"
       /\ status' = [status EXCEPT ![n] = "aborted"]
       /\ lost' = lost \cup {mail.id}
       /\ UNCHANGED socket

(* Network::Send: the packet is dropped, or handed to the socket of the      *)
(* other node.  Network::Receive empties the buffer.                         *)
NetworkSend(n, mail) ==
    /\ sending' = [sending EXCEPT ![n] = @ + 1]
    /\ \/ lost' = lost \cup {mail.id} /\ UNCHANGED <<status, socket>>
       \/ SendToSocket(n, mail)
NetworkReceive(n) == inbox' = [inbox EXCEPT ![n] = << >>]

(* PostOffice::Send up to the P on messageSent.  A unit of another client    *)
(* lets the caller return at once.                                           *)
PostOfficeSend(c, to, box) ==
    /\ NetworkSend(home[c], Mail(c, to, box))
    /\ CS!Wait(c, messageSent(home[c])) \/ CS!Take(c, messageSent(home[c]))
    /\ Step(c)
    /\ UNCHANGED <<inbox, boxes, sorting, got>>
Send(c) == Ready(c, "send") /\ PostOfficeSend(c, Operation(c).to, Operation(c).box)
Reply(c) ==
    /\ Ready(c, "reply")
    /\ LET mail == got[c][Len(got[c])] IN PostOfficeSend(c, mail.from, mail.replyTo)

(* The client wakes up in P and Send returns. *)
SendReturns(c) ==
    /\ status[home[c]] = "up" /\ inP[c] # NULL
    /\ CS!Take(c, messageSent(home[c]))
    /\ UNCHANGED <<status, device, boxes, sorting, pc, got>>

(* Network::SendDone and PostOffice::PacketSent. *)
SendDoneSilent(n) ==
    /\ status[n] = "up" /\ sending[n] > 0
    /\ sending' = [sending EXCEPT ![n] = @ - 1]
    /\ UNCHANGED <<status, socket, inbox, lost, boxes, sems, sorting, pc, got>>
SendDone(n) ==
    /\ status[n] = "up" /\ sending[n] > 0
    /\ sending' = [sending EXCEPT ![n] = @ - 1]
    /\ CS!Release(messageSent(n))
    /\ UNCHANGED <<status, socket, inbox, lost, boxes, sorting, pc, got>>

(* Network::CheckPktAvail and PostOffice::IncomingPacket, when there is a    *)
(* packet and room for it.                                                   *)
CheckPktAvailEager(n) ==
    /\ status[n] = "up" /\ PollSocket(n)
    /\ ReadFromSocket(n)
    /\ CS!Release(available(n))
    /\ UNCHANGED <<status, sending, lost, boxes, sorting, pc, got>>
CheckPktAvailMore(n) ==
    /\ status[n] = "up" /\ inbox[n] = << >> /\ Len(socket[n]) > 1
    /\ ReadFromSocket(n)
    /\ CS!Release(available(n))
    /\ UNCHANGED <<status, sending, lost, boxes, sorting, pc, got>>
CheckPktAvail(n) ==
    /\ status[n] = "up" /\ inbox[n] = << >> /\ PollSocket(n)
    /\ ReadFromSocket(n)
    /\ CS!Release(available(n))
    /\ UNCHANGED <<status, sending, lost, boxes, sorting, pc, got>>

(* PostOffice::PostalDelivery: P, after which an interrupt may come, and     *)
(* then Network::Receive with MailBox::Put.                                  *)
PostalWait(n) ==
    /\ status[n] = "up" /\ ~sorting[n]
    /\ CS!Take(n, available(n))
    /\ sorting' = [sorting EXCEPT ![n] = TRUE]
    /\ UNCHANGED <<status, device, boxes, pc, got>>
SynchAppend(n, b, mail) == boxes' = [boxes EXCEPT ![n][b] = Append(@, mail)]
PutFirst(n, mail) == boxes' = [boxes EXCEPT ![n][mail.box] = <<mail>> \o @]
Put(n, mail) == SynchAppend(n, mail.box, mail)
PostalDelivery(n) ==
    /\ status[n] = "up" /\ sorting[n]
    /\ sorting' = [sorting EXCEPT ![n] = FALSE]
    /\ NetworkReceive(n)
    /\ Put(n, Head(inbox[n]))
    /\ UNCHANGED <<status, socket, sending, lost, sems, pc, got>>

(* SynchList::Remove: an empty list leads to Condition::Wait, which asserts  *)
(* FALSE.                                                                    *)
SynchRemove(n, b) ==
    /\ boxes[n][b] # << >>
    /\ boxes' = [boxes EXCEPT ![n][b] = Tail(@)]
    /\ UNCHANGED status
RemoveWaits(n, b) ==
    /\ boxes[n][b] = << >>
    /\ status' = [status EXCEPT ![n] = "aborted"]
    /\ UNCHANGED boxes
MailBoxGet(c, n, b) ==
    \/ /\ SynchRemove(n, b)
       /\ got' = [got EXCEPT ![c] = Append(@, Head(boxes[n][b]))]
       /\ Step(c)
    \/ RemoveWaits(n, b) /\ UNCHANGED <<got, pc>>
Receive(c) ==
    /\ Ready(c, "receive")
    /\ MailBoxGet(c, home[c], Operation(c).box)
    /\ UNCHANGED <<device, sems, sorting>>

Halt(c) ==
    /\ Ready(c, "halt")
    /\ status' = [status EXCEPT ![home[c]] = "halted"]
    /\ Step(c)
    /\ UNCHANGED <<device, boxes, sems, sorting, got>>

Next ==
    \/ \E n \in Node : SendDone(n) \/ CheckPktAvail(n) \/ PostalWait(n) \/ PostalDelivery(n)
    \/ \E c \in Client : Send(c) \/ Reply(c) \/ SendReturns(c) \/ Receive(c) \/ Halt(c)

(* Interrupts that are scheduled occur, and threads that can run get the     *)
(* processor.                                                                *)
Fairness ==
    /\ \A n \in Node : /\ WF_vars(SendDone(n)) /\ WF_vars(CheckPktAvail(n))
                       /\ WF_vars(PostalWait(n)) /\ WF_vars(PostalDelivery(n))
    /\ \A c \in Client : WF_vars(SendReturns(c))

Spec == Init /\ [][Next]_vars /\ Fairness

-----------------------------------------------------------------------------
Sent == {id \in UNION {{c} \X DOMAIN script[c] : c \in Client} :
            id[2] < pc[id[1]] /\ script[id[1]][id[2]].op \in {"send", "reply"}}
Holding(mail, id) == {i \in DOMAIN mail : mail[i].id = id}

TypeOK ==
    /\ status \in [Node -> {"up", "halted", "aborted"}]
    /\ sending \in [Node -> 0 .. Cardinality(Client)]
    /\ value \in [Semaphores -> 0 .. Cardinality(Client)]
    /\ \A n \in Node : \A b \in Boxes : \A i \in DOMAIN boxes[n][b] :
        boxes[n][b][i].to = n /\ boxes[n][b][i].box = b
    /\ \A c \in Client : pc[c] \in 1 .. Len(script[c]) + 1

(* Every packet sent is in exactly one place: dropped by the device, in a    *)
(* socket, in the buffer of a device, in a mailbox, or received.  The        *)
(* one-packet buffer is not overwritten before the worker has emptied it,    *)
(* and no delivery is repeated (network.cc:66, 133-138; post.cc:230-244).    *)
ExactlyOnce ==
    \A id \in Sent :
        LET holds(n) == Cardinality(Holding(socket[n], id))
                            + Cardinality(Holding(inbox[n], id))
                            + Cardinality(UNION {{b} \X Holding(boxes[n][b], id) : b \in Boxes})
            received == Cardinality(UNION {{c} \X Holding(got[c], id) : c \in Client})
        IN  /\ \A n \in Node : holds(n) <= 1
            /\ Cardinality({n \in Node : holds(n) = 1}) + received
                    + (IF id \in lost THEN 1 ELSE 0) = 1

(* Mail is neither lost nor doubled, and lies where it belongs. *)
MailKept == TypeOK /\ ExactlyOnce

(* Mail of one client in one mailbox is kept and delivered in the order of   *)
(* its sends (network.cc:57-59, post.cc:104).                                *)
Arriving(n, b) ==
    boxes[n][b] \o SelectSeq(inbox[n] \o socket[n], LAMBDA mail : mail.box = b)
InOrder ==
    \A n \in Node, b \in Boxes :
        LET mail == Arriving(n, b)
        IN  \A i, j \in DOMAIN mail :
                i < j /\ mail[i].id[1] = mail[j].id[1] => mail[i].id[2] < mail[j].id[2]

(* No completion of a send is lost although the lock is a stub: each client  *)
(* in Send is covered by a scheduled interrupt or a unit (post.cc:282-287).  *)
SendersCovered ==
    \A n \in Node :
        Cardinality({c \in Client : inP[c] = messageSent(n)})
            = sending[n] + value[messageSent(n)]

(* The worker is told of the buffered packet exactly once, so that it never  *)
(* copies out of an empty buffer (network.cc:86, post.cc:230-231).           *)
WorkerTold ==
    \A n \in Node :
        value[available(n)] + (IF sorting[n] THEN 1 ELSE 0) = Len(inbox[n])

(* Nobody sleeps through an event of the network: neither the senders nor    *)
(* the worker (PostOffice::Send, PacketSent, IncomingPacket).                *)
WakeupsKept == SendersCovered /\ WorkerTold

(* A packet that the device did not drop is put into its mailbox, unless the *)
(* node stops (network.cc:64: the poll schedules itself again).              *)
Delivered ==
    \A n \in Node : (socket[n] # << >>) ~> (socket[n] = << >> /\ inbox[n] = << >>) \/ status[n] # "up"
=============================================================================
