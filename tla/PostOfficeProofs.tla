--------------------------- MODULE PostOfficeProofs ---------------------------
(***************************************************************************)
(* Proofs about PostOffice, for any nodes, any finite set of clients and   *)
(* any scripts: the worker of a post office is told exactly once of every  *)
(* packet, and no completion of a send is lost although the lock around    *)
(* the sends is a stub.                                                    *)
(***************************************************************************)
EXTENDS PostOffice, FiniteSetTheorems, TLAPS

-----------------------------------------------------------------------------
Senders(n) == {c \in Client : inP[c] = messageSent(n)}

(* The types that the counting needs.  A function is all that is asked of    *)
(* inbox: the mail itself does not matter.                                   *)
Types ==
    /\ value \in [Semaphores -> Nat]
    /\ inP \in [Client \cup Node -> Semaphores \cup {NULL}]
    /\ sending \in [Node -> Nat]
    /\ sorting \in [Node -> BOOLEAN]
    /\ inbox = [n \in Node |-> inbox[n]]

(* The buffer holds one packet at most.                                      *)
OnePacket == \A n \in Node : inbox[n] = << >> \/ Len(inbox[n]) = 1

IInv == Types /\ OnePacket /\ WorkerTold /\ SendersCovered

(* The semaphores of the post offices are all different.                     *)
LEMMA Semaphore ==
    ASSUME NEW n \in Node
    PROVE  /\ available(n) \in Semaphores /\ messageSent(n) \in Semaphores
           /\ \A m \in Node : /\ available(n) # messageSent(m)
                              /\ available(n) = available(m) => n = m
                              /\ messageSent(n) = messageSent(m) => n = m
BY DEF Semaphores, available, messageSent

(* The clients in Send can be counted.                                       *)
LEMMA SendersFinite ==
    ASSUME NEW n \in Node
    PROVE  IsFiniteSet(Senders(n)) /\ Cardinality(Senders(n)) \in Nat
BY PostOfficeAssumption, FS_Subset, FS_CardinalityType DEF Senders

(* SendersCovered in terms of Senders.                                       *)
LEMMA Covered ==
    SendersCovered <=>
        \A n \in Node : Cardinality(Senders(n)) = sending[n] + value[messageSent(n)]
BY DEF SendersCovered, Senders

-----------------------------------------------------------------------------
(* A send schedules one interrupt, and its caller waits for it or takes the  *)
(* unit of another client.                                                   *)
LEMMA SendIInv ==
    ASSUME IInv, NEW c \in Client, NEW to, NEW box, PostOfficeSend(c, to, box), inP[c] = NULL
    PROVE  IInv'
<1> DEFINE h == home[c]
<1> USE PostOfficeAssumption
<1>0. h \in Node /\ c \in Client \cup Node /\ NULL \notin Semaphores
  BY DEF Semaphores
<1>1. /\ sending' = [sending EXCEPT ![h] = @ + 1]
      /\ CS!Wait(c, messageSent(h)) \/ CS!Take(c, messageSent(h))
      /\ inbox' = inbox /\ sorting' = sorting
  BY DEF PostOfficeSend, NetworkSend
<1> HIDE DEF h
<1>a. value' \in [Semaphores -> Nat] /\ inP' \in [Client \cup Node -> Semaphores \cup {NULL}]
  <2>1. messageSent(h) \in Semaphores
    BY <1>0, Semaphore
  <2>2. CASE CS!Wait(c, messageSent(h))
    BY <1>0, <2>1, <2>2 DEF IInv, Types, CS!Wait
  <2>3. CASE CS!Take(c, messageSent(h))
    BY <1>0, <2>1, <2>3 DEF IInv, Types, CS!Take
  <2> QED
    BY <1>1, <2>2, <2>3
<1>b. sending' \in [Node -> Nat]
  BY <1>0, <1>1 DEF IInv, Types
<1>2. Types' /\ OnePacket'
  BY <1>1, <1>a, <1>b DEF IInv, Types, OnePacket
<1>3. \A n \in Node : value'[available(n)] = value[available(n)]
  BY <1>0, <1>1, Semaphore DEF IInv, Types, CS!Wait, CS!Take
<1>4. WorkerTold'
  BY <1>1, <1>3 DEF IInv, WorkerTold
<1>5. ASSUME NEW n \in Node
      PROVE  Cardinality(Senders(n)') = sending'[n] + value'[messageSent(n)]
  <2>0. /\ Cardinality(Senders(n)) = sending[n] + value[messageSent(n)]
        /\ sending[n] \in Nat /\ value[messageSent(n)] \in Nat
    BY Covered, Semaphore DEF IInv, Types
  <2>1. CASE n # h
    <3>1. Senders(n)' = Senders(n) /\ value'[messageSent(n)] = value[messageSent(n)]
      BY <1>0, <1>1, <2>1, Semaphore DEF Senders, IInv, Types, CS!Wait, CS!Take
    <3> QED
      BY <1>0, <1>1, <2>0, <2>1, <3>1 DEF IInv, Types
  <2>2. CASE n = h /\ CS!Wait(c, messageSent(h))
    <3>1. /\ Senders(n)' = Senders(n) \cup {c} /\ c \notin Senders(n)
          /\ value'[messageSent(n)] = value[messageSent(n)]
      BY <1>0, <2>2, Semaphore DEF Senders, IInv, Types, CS!Wait
    <3>2. Cardinality(Senders(n)') = Cardinality(Senders(n)) + 1
      BY <3>1, SendersFinite, FS_AddElement
    <3> QED
      BY <1>0, <1>1, <2>0, <2>2, <3>1, <3>2 DEF IInv, Types
  <2>3. CASE n = h /\ CS!Take(c, messageSent(h))
    <3>1. Senders(n)' = Senders(n) /\ value'[messageSent(n)] = value[messageSent(n)] - 1
      BY <1>0, <2>3, Semaphore DEF Senders, IInv, Types, CS!Take
    <3> QED
      BY <1>0, <1>1, <2>0, <2>3, <3>1 DEF IInv, Types
  <2> QED
    BY <1>1, <2>1, <2>2, <2>3
<1>6. SendersCovered'
  BY <1>5 DEF SendersCovered, Senders
<1> QED
  BY <1>2, <1>4, <1>6 DEF IInv

(* Send returns when its client takes a unit.                                *)
LEMMA SendReturnsIInv ==
    ASSUME IInv, NEW c \in Client, SendReturns(c)
    PROVE  IInv'
<1> DEFINE h == home[c]
<1> USE PostOfficeAssumption
<1>0. h \in Node /\ c \in Client \cup Node /\ NULL \notin Semaphores
  BY DEF Semaphores
<1>1. /\ CS!Take(c, messageSent(h)) /\ inP[c] # NULL
      /\ inbox' = inbox /\ sorting' = sorting /\ sending' = sending
  BY DEF SendReturns, device
<1> HIDE DEF h
<1>2. Types' /\ OnePacket'
  BY <1>0, <1>1, Semaphore DEF IInv, Types, OnePacket, CS!Take
<1>3. \A n \in Node : value'[available(n)] = value[available(n)]
  BY <1>0, <1>1, Semaphore DEF IInv, Types, CS!Take
<1>4. WorkerTold'
  BY <1>1, <1>3 DEF IInv, WorkerTold
<1>5. ASSUME NEW n \in Node
      PROVE  Cardinality(Senders(n)') = sending'[n] + value'[messageSent(n)]
  <2>0. /\ Cardinality(Senders(n)) = sending[n] + value[messageSent(n)]
        /\ sending[n] \in Nat /\ value[messageSent(n)] \in Nat
    BY Covered, Semaphore DEF IInv, Types
  <2>1. CASE n # h
    <3>1. Senders(n)' = Senders(n) /\ value'[messageSent(n)] = value[messageSent(n)]
      BY <1>0, <1>1, <2>1, Semaphore DEF Senders, IInv, Types, CS!Take
    <3> QED
      BY <1>1, <2>0, <3>1
  <2>2. CASE n = h
    <3>1. /\ Senders(n)' = Senders(n) \ {c} /\ c \in Senders(n)
          /\ value'[messageSent(n)] = value[messageSent(n)] - 1
      BY <1>0, <1>1, <2>2, Semaphore DEF Senders, IInv, Types, CS!Take
    <3>2. Cardinality(Senders(n)') = Cardinality(Senders(n)) - 1
      BY <3>1, SendersFinite, FS_RemoveElement
    <3> QED
      BY <1>1, <2>0, <3>1, <3>2
  <2> QED
    BY <2>1, <2>2
<1>6. SendersCovered'
  BY <1>5 DEF SendersCovered, Senders
<1> QED
  BY <1>2, <1>4, <1>6 DEF IInv

(* The interrupt for a send turns it into a unit.                            *)
LEMMA SendDoneIInv ==
    ASSUME IInv, NEW n \in Node, SendDone(n)
    PROVE  IInv'
<1>1. /\ CS!Release(messageSent(n)) /\ sending[n] > 0
      /\ sending' = [sending EXCEPT ![n] = @ - 1]
      /\ inbox' = inbox /\ sorting' = sorting
  BY DEF SendDone
<1>2. Types' /\ OnePacket'
  BY <1>1, Semaphore DEF IInv, Types, OnePacket, CS!Release
<1>3. \A m \in Node : value'[available(m)] = value[available(m)]
  BY <1>1, Semaphore DEF IInv, Types, CS!Release
<1>4. WorkerTold'
  BY <1>1, <1>3 DEF IInv, WorkerTold
<1>5. \A m \in Node : sending'[m] + value'[messageSent(m)] = sending[m] + value[messageSent(m)]
  BY <1>1, Semaphore DEF IInv, Types, CS!Release
<1>6. SendersCovered'
  BY <1>1, <1>5 DEF IInv, SendersCovered, CS!Release
<1> QED
  BY <1>2, <1>4, <1>6 DEF IInv

(* A packet comes into an empty buffer, with one unit for the worker.        *)
LEMMA CheckPktAvailIInv ==
    ASSUME IInv, NEW n \in Node, CheckPktAvail(n)
    PROVE  IInv'
<1>1. /\ CS!Release(available(n)) /\ inbox[n] = << >>
      /\ inbox' = [inbox EXCEPT ![n] = <<Head(socket[n])>>]
      /\ sending' = sending /\ sorting' = sorting
  BY DEF CheckPktAvail, ReadFromSocket
<1>b. value' \in [Semaphores -> Nat] /\ inP' = inP
  BY <1>1, Semaphore DEF IInv, Types, CS!Release
<1>c. inbox' = [m \in Node |-> inbox'[m]]
  BY <1>1 DEF IInv, Types
<1>2. Types'
  BY <1>1, <1>b, <1>c DEF IInv, Types
<1>3. /\ inbox'[n] = <<Head(socket[n])>>
      /\ \A m \in Node \ {n} : inbox'[m] = inbox[m]
  BY <1>1 DEF IInv, Types
<1>a. Len(inbox'[n]) = 1 /\ Len(inbox[n]) = 0
  BY <1>1, <1>3
<1>4. OnePacket'
  BY <1>3, <1>a DEF IInv, OnePacket
<1>5. /\ value'[available(n)] = value[available(n)] + 1
      /\ \A m \in Node \ {n} : value'[available(m)] = value[available(m)]
      /\ \A m \in Node : value'[messageSent(m)] = value[messageSent(m)]
  BY <1>1, Semaphore DEF IInv, Types, CS!Release
<1>6. WorkerTold'
  <2>1. value[available(n)] = 0 /\ sorting[n] = FALSE
    <3>1. value[available(n)] \in Nat /\ sorting[n] \in BOOLEAN
      BY Semaphore DEF IInv, Types
    <3>2. value[available(n)] + (IF sorting[n] THEN 1 ELSE 0) = 0
      BY <1>a DEF IInv, WorkerTold
    <3> QED
      BY <3>1, <3>2
  <2>2. value'[available(n)] + (IF sorting'[n] THEN 1 ELSE 0) = Len(inbox'[n])
    BY <1>1, <1>a, <1>5, <2>1
  <2>3. \A m \in Node \ {n} :
            value'[available(m)] + (IF sorting'[m] THEN 1 ELSE 0) = Len(inbox'[m])
    BY <1>1, <1>3, <1>5 DEF IInv, WorkerTold
  <2> QED
    BY <2>2, <2>3 DEF WorkerTold
<1>7. SendersCovered'
  BY <1>1, <1>5 DEF IInv, SendersCovered, CS!Release
<1> QED
  BY <1>2, <1>4, <1>6, <1>7 DEF IInv

(* The worker takes its unit.                                                *)
LEMMA PostalWaitIInv ==
    ASSUME IInv, NEW n \in Node, PostalWait(n)
    PROVE  IInv'
<1> USE PostOfficeAssumption
<1>1. /\ CS!Take(n, available(n)) /\ sorting[n] = FALSE
      /\ sorting' = [sorting EXCEPT ![n] = TRUE]
      /\ sending' = sending /\ inbox' = inbox
  BY DEF PostalWait, device, IInv, Types
<1>2. Types' /\ OnePacket'
  BY <1>1, Semaphore DEF IInv, Types, OnePacket, CS!Take
<1>3. /\ value'[available(n)] = value[available(n)] - 1 /\ value[available(n)] \in Nat
      /\ \A m \in Node \ {n} : value'[available(m)] = value[available(m)]
      /\ \A m \in Node : value'[messageSent(m)] = value[messageSent(m)]
      /\ \A c \in Client : inP'[c] = inP[c]
  BY <1>1, Semaphore DEF IInv, Types, CS!Take
<1>4. sorting'[n] = TRUE /\ \A m \in Node \ {n} : sorting'[m] = sorting[m]
  BY <1>1 DEF IInv, Types
<1>5. WorkerTold'
  BY <1>1, <1>3, <1>4 DEF IInv, WorkerTold
<1>6. SendersCovered'
  BY <1>1, <1>3 DEF IInv, SendersCovered
<1> QED
  BY <1>2, <1>5, <1>6 DEF IInv

(* The worker empties the buffer, which holds a packet.                      *)
LEMMA PostalDeliveryIInv ==
    ASSUME IInv, NEW n \in Node, PostalDelivery(n)
    PROVE  IInv'
<1>1. /\ sorting[n] = TRUE /\ sorting' = [sorting EXCEPT ![n] = FALSE]
      /\ inbox' = [inbox EXCEPT ![n] = << >>]
      /\ sending' = sending /\ value' = value /\ inP' = inP
  BY DEF PostalDelivery, NetworkReceive, sems, IInv, Types
<1>2. Types'
  BY <1>1 DEF IInv, Types
<1>3. /\ inbox'[n] = << >> /\ \A m \in Node \ {n} : inbox'[m] = inbox[m]
      /\ sorting'[n] = FALSE /\ \A m \in Node \ {n} : sorting'[m] = sorting[m]
  BY <1>1 DEF IInv, Types
<1>4. OnePacket'
  BY <1>3 DEF IInv, OnePacket
<1>5. value[available(n)] = 0
  <2>1. PICK v \in Nat : v = value[available(n)]
    BY Semaphore DEF IInv, Types
  <2>2. v + 1 = Len(inbox[n])
    BY <1>1, <2>1 DEF IInv, WorkerTold
  <2>3. PICK len \in 0 .. 1 : len = Len(inbox[n])
    BY DEF IInv, OnePacket
  <2>4. v + 1 = len
    BY <2>2, <2>3
  <2> QED
    BY <2>1, <2>4
<1>a. Len(inbox'[n]) = 0
  BY <1>3
<1>6. WorkerTold'
  BY <1>1, <1>3, <1>5, <1>a DEF IInv, WorkerTold
<1>7. SendersCovered'
  BY <1>1 DEF IInv, SendersCovered
<1> QED
  BY <1>2, <1>4, <1>6, <1>7 DEF IInv

-----------------------------------------------------------------------------
(* The post offices begin empty.                                             *)
LEMMA InitIInv == Init => IInv
<1> SUFFICES ASSUME Init PROVE IInv
  OBVIOUS
<1> USE PostOfficeAssumption
<1>1. /\ value = [s \in Semaphores |-> 0] /\ inP = [t \in Client \cup Node |-> NULL]
      /\ sending = [n \in Node |-> 0] /\ sorting = [n \in Node |-> FALSE]
      /\ inbox = [n \in Node |-> << >>]
  BY DEF Init, CS!Init
<1>a. sorting \in [Node -> BOOLEAN]
  BY <1>1
<1>2. Types
  BY <1>1, <1>a DEF Types
<1>3. OnePacket /\ WorkerTold
  BY <1>1, Semaphore DEF OnePacket, WorkerTold
<1>4. ASSUME NEW n \in Node PROVE Cardinality(Senders(n)) = sending[n] + value[messageSent(n)]
  <2>1. Senders(n) = {}
    BY <1>1, Semaphore DEF Senders, Semaphores
  <2> QED
    BY <1>1, <2>1, Semaphore, FS_EmptySet
<1> QED
  BY <1>2, <1>3, <1>4, Covered DEF IInv

(* Every step of a device, a worker or a client keeps the invariant.         *)
LEMMA NextIInv == IInv /\ [Next]_vars => IInv'
<1> SUFFICES ASSUME IInv, [Next]_vars PROVE IInv'
  OBVIOUS
<1> USE DEF IInv, Types, OnePacket, WorkerTold, SendersCovered
<1>1. CASE UNCHANGED vars
  BY <1>1 DEF vars, device, sems
<1>2. ASSUME NEW c \in Client, Send(c) \/ Reply(c) PROVE IInv'
  BY <1>2, SendIInv DEF Send, Reply, Ready
<1>3. ASSUME NEW c \in Client, Receive(c) \/ Halt(c) PROVE IInv'
  <2>1. UNCHANGED <<device, sems, sorting>>
    BY <1>3 DEF Receive, Halt
  <2> QED
    BY <2>1 DEF device, sems
<1> QED
  BY <1>1, <1>2, <1>3, SendReturnsIInv, SendDoneIInv, CheckPktAvailIInv, PostalWaitIInv,
     PostalDeliveryIInv DEF Next

(* So it always holds.                                                       *)
THEOREM Inductive == Spec => []IInv
BY InitIInv, NextIInv, PTL DEF Spec

(* The worker is told exactly once of the packet in the buffer, and never    *)
(* copies out of an empty one (network.cc:86, post.cc:230-231).              *)
THEOREM WorkerAlwaysTold == Spec => []WorkerTold
<1>1. IInv => WorkerTold
  BY DEF IInv
<1> QED
  BY <1>1, Inductive, PTL

(* Each client in Send is covered by a scheduled interrupt or by a unit,     *)
(* whoever takes it (post.cc:282-287).                                       *)
THEOREM SendersAlwaysCovered == Spec => []SendersCovered
<1>1. IInv => SendersCovered
  BY DEF IInv
<1> QED
  BY <1>1, Inductive, PTL

(* Neither a completion interrupt nor the notice of a packet is lost, for    *)
(* any number of machines and clients (PostOffice::Send, PacketSent and      *)
(* IncomingPacket).                                                          *)
THEOREM WakeupsAlwaysKept == Spec => []WakeupsKept
<1>1. IInv => WakeupsKept
  BY DEF IInv, WakeupsKept
<1> QED
  BY <1>1, Inductive, PTL
=============================================================================
