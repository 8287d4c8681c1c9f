---------------------------- MODULE RouterProofs ----------------------------
(***************************************************************************)
(* Proofs, for every value of the constants, of the safety properties of   *)
(* module Router.  First those that hold whatever fails: any number of     *)
(* servers, clients, mailboxes, messages and connections, with every       *)
(* fault.  Then, from "Sockets that stay open" on, those that need one     *)
(* server, or one server whose Redis keeps what it is told, and hold over  *)
(* lost sockets, crashes, retried sends and failed INSERTs.  Last, from    *)
(* "What is sent once" on, that such a server implements module Mailbox.   *)
(***************************************************************************)
EXTENDS RouterMailbox, SequenceLemmas, TLAPS, FiniteSetTheorems

-----------------------------------------------------------------------------
(* Lemmas about the operators of the model                                 *)

(* disconnect_client keeps the shape of the three local tables.            *)
LEMMA DisconnectType ==
    ASSUME TypeOK, NEW s \in Servers, NEW C, DisconnectClients(s, C)
    PROVE  /\ connections' \in [Servers -> SUBSET ConnIds]
           /\ connection_to_mailbox' \in
                  [Servers -> [ConnIds -> Mailboxes \cup {NoMailbox}]]
           /\ mailbox_to_connections' \in [Servers -> [Mailboxes -> SUBSET ConnIds]]
  BY DEF TypeOK, DisconnectClients

(* Frames sent to clients are appended to queues of frames, and the local  *)
(* tables keep their shape.                                                *)
LEMMA SendType ==
    ASSUME TypeOK, NEW s \in Servers, NEW C, NEW fs \in Seq(Frame),
           SendOrDisconnect(s, C, fs)
    PROVE  /\ out' \in [Servers -> [ConnIds -> Seq(Frame)]]
           /\ connections' \in [Servers -> SUBSET ConnIds]
           /\ connection_to_mailbox' \in
                  [Servers -> [ConnIds -> Mailboxes \cup {NoMailbox}]]
           /\ mailbox_to_connections' \in [Servers -> [Mailboxes -> SUBSET ConnIds]]
  <1>1. \A c \in ConnIds : out[s][c] \o fs \in Seq(Frame)
    BY DEF TypeOK
  <1>2. out' \in [Servers -> [ConnIds -> Seq(Frame)]]
    BY <1>1 DEF TypeOK, SendOrDisconnect
  <1> QED
    BY <1>2, DisconnectType DEF SendOrDisconnect

(* An event put in the router's channel, and one taken from it, leave a    *)
(* channel of events.                                                      *)
LEMMA EventsType ==
    ASSUME TypeOK, NEW s \in Servers
    PROVE  /\ \A e \in Event :
                  Enqueue(s, e) => events' \in [Servers -> Seq(Event)]
           /\ (events[s] # <<>> /\ Dequeue(s)) => events' \in [Servers -> Seq(Event)]
           /\ events[s] # <<>> => Next_event(s) \in Event
  <1>1. events[s] \in Seq(Event)
    BY DEF TypeOK
  <1>2. \A e \in Event : Append(events[s], e) \in Seq(Event)
    BY <1>1
  <1>3. events[s] # <<>> => /\ Tail(events[s]) \in Seq(Event)
                            /\ Head(events[s]) \in Event
    BY <1>1
  <1>4. \A q \in Seq(Event) : [events EXCEPT ![s] = q] \in [Servers -> Seq(Event)]
    BY DEF TypeOK
  <1> QED
    BY <1>2, <1>3, <1>4 DEF Enqueue, Dequeue, Next_event

(* What the sequence operators do to the elements.                         *)
LEMMA ToSetOfConcat ==
    ASSUME NEW S, NEW p \in Seq(S), NEW q \in Seq(S)
    PROVE  ToSet(p \o q) = ToSet(p) \cup ToSet(q)
  <1>1. ASSUME NEW x \in ToSet(p \o q) PROVE x \in ToSet(p) \cup ToSet(q)
    <2>1. PICK i \in 1 .. Len(p) + Len(q) : x = (p \o q)[i]
      BY <1>1 DEF ToSet
    <2>2. CASE i <= Len(p)
      BY <2>1, <2>2 DEF ToSet
    <2>3. CASE i > Len(p)
      <3>1. i - Len(p) \in 1 .. Len(q) /\ x = q[i - Len(p)]
        BY <2>1, <2>3
      <3> QED
        BY <3>1 DEF ToSet
    <2> QED
      BY <2>1, <2>2, <2>3
  <1>2. ASSUME NEW x \in ToSet(p) PROVE x \in ToSet(p \o q)
    <2>1. PICK i \in 1 .. Len(p) : x = p[i]
      BY <1>2 DEF ToSet
    <2>2. i \in 1 .. Len(p \o q) /\ x = (p \o q)[i]
      BY <2>1
    <2> QED
      BY <2>2 DEF ToSet
  <1>3. ASSUME NEW x \in ToSet(q) PROVE x \in ToSet(p \o q)
    <2>1. PICK i \in 1 .. Len(q) : x = q[i]
      BY <1>3 DEF ToSet
    <2>2. Len(p) + i \in 1 .. Len(p \o q) /\ x = (p \o q)[Len(p) + i]
      BY <2>1
    <2> QED
      BY <2>2 DEF ToSet
  <1> QED
    BY <1>1, <1>2, <1>3

(* Append adds one element: events, frames and payloads enter their queues *)
(* like this.                                                              *)
LEMMA ToSetOfAppend ==
    ASSUME NEW S, NEW q \in Seq(S), NEW x
    PROVE  ToSet(Append(q, x)) = ToSet(q) \cup {x}
  <1>1. \A i \in 1 .. Len(q) : Append(q, x)[i] = q[i]
    OBVIOUS
  <1>2. Append(q, x)[Len(q) + 1] = x
    OBVIOUS
  <1>3. DOMAIN Append(q, x) = 1 .. Len(q) + 1 /\ DOMAIN q = 1 .. Len(q)
    OBVIOUS
  <1> QED
    BY <1>1, <1>2, <1>3 DEF ToSet

(* Tail has no new element: taking from a queue leaves only what was       *)
(* there.                                                                  *)
LEMMA ToSetOfTail ==
    ASSUME NEW S, NEW q \in Seq(S), q # <<>>
    PROVE  ToSet(Tail(q)) \subseteq ToSet(q) /\ Head(q) \in ToSet(q)
  <1>1. \A i \in 1 .. Len(q) - 1 : Tail(q)[i] = q[i + 1]
    OBVIOUS
  <1>2. Len(Tail(q)) = Len(q) - 1 /\ 1 \in 1 .. Len(q) /\ Head(q) = q[1]
    OBVIOUS
  <1>3. \A i \in 1 .. Len(q) - 1 : i + 1 \in 1 .. Len(q)
    OBVIOUS
  <1>4. DOMAIN Tail(q) = 1 .. Len(q) - 1 /\ DOMAIN q = 1 .. Len(q)
    BY <1>2
  <1> QED
    BY <1>1, <1>2, <1>3, <1>4 DEF ToSet

(* An empty queue has no elements.                                         *)
LEMMA ToSetOfEmpty == ToSet(<<>>) = {}
  BY DEF ToSet

(* The frames of the backlog that an authentication flushes.               *)
Backlog(s) ==
    [i \in 1 .. Len(task[s].rows) |->
        Delivery(task[s].rows[i], seq[task[s].rows[i]])]

(* The rows that the backlog query returned become deliver frames.         *)
LEMMA BacklogType ==
    ASSUME TypeOK, NEW s \in Servers, task[s].at = "register"
    PROVE  /\ task[s].rows \in Seq(Messages)
           /\ Backlog(s) \in Seq(Frame)
  <1>1. task[s].rows \in Seq(Messages)
    BY DEF TypeOK, Task
  <1>2. \A i \in 1 .. Len(task[s].rows) :
           Delivery(task[s].rows[i], seq[task[s].rows[i]]) \in Frame
    BY <1>1 DEF TypeOK, Delivery, Frame
  <1> QED
    BY <1>1, <1>2 DEF Backlog

(* The rows in order are a sequence of those rows.                         *)
LEMMA OrderedRows ==
    ASSUME NEW mb, NEW n, NEW r \in OrderedBySeq(RowsAfter(mb, n))
    PROVE  /\ r \in Seq(Messages)
           /\ \A i \in 1 .. Len(r) : To[r[i]] = mb
  <1>1. RowsAfter(mb, n) \subseteq Messages /\ IsFiniteSet(RowsAfter(mb, n))
    BY ConstantsAssumption, FS_Subset DEF RowsAfter
  <1>2. Cardinality(RowsAfter(mb, n)) \in Nat
    BY <1>1, FS_CardinalityType
  <1>3. r \in [1 .. Cardinality(RowsAfter(mb, n)) -> RowsAfter(mb, n)]
    BY DEF OrderedBySeq
  <1>4. r \in Seq(RowsAfter(mb, n))
    BY <1>2, <1>3
  <1> QED
    BY <1>1, <1>4 DEF RowsAfter

-----------------------------------------------------------------------------
(* Type correctness                                                        *)

(* The initial state: nothing is connected, stored or sent.                *)
LEMMA InitType == Init => TypeOK
  BY ConstantsAssumption DEF Init, TypeOK, Task, Idle

(* The steps of the clients.                                               *)
LEMMA ClientStepType ==
    ASSUME TypeOK, NEW k \in Clients, ClientStep(k)
    PROVE  TypeOK'
  <1> USE DEF localVars, socketVars, storeVars, redisVars, clientVars, boundVars
  <1>1. ASSUME NEW s \in Servers, ClientOpen(k, s) PROVE TypeOK'
    <2>1. next_id[s] \in ConnIds
      BY <1>1, ConstantsAssumption DEF TypeOK, ClientOpen, ConnIds
    <2>2. [type |-> "connected", conn |-> next_id[s]] \in Event
      BY <2>1 DEF Event
    <2>3. events' \in [Servers -> Seq(Event)]
      BY <1>1, <2>2, EventsType DEF ClientOpen
    <2>4. /\ sock' \in [Clients -> (Servers \X ConnIds) \cup {NoSocket}]
          /\ opening' \in SUBSET {j \in Clients : sock'[j] # NoSocket}
      BY <1>1, <2>1, ConstantsAssumption DEF TypeOK, ClientOpen
    <2>5. /\ next_id' \in [Servers -> 0 .. MaxConn]
          /\ reader' \in [Servers -> SUBSET ConnIds]
          /\ writer' \in [Servers -> SUBSET ConnIds]
      BY <1>1, <2>1, ConstantsAssumption DEF TypeOK, ClientOpen, ConnIds
    <2> QED
      BY <1>1, <2>3, <2>4, <2>5 DEF TypeOK, ClientOpen
  <1>2. ASSUME k \in opening \/ CanSend(k)
        PROVE  /\ sock[k] \in Servers \X ConnIds
               /\ sock[k][1] \in Servers
               /\ sock[k][2] \in ConnIds
    BY <1>2 DEF TypeOK, CanSend
  <1>3. CASE ClientAuthenticate(k)
    <2>1. k \in opening
      BY <1>3 DEF ClientAuthenticate
    <2>2. \A ok \in BOOLEAN :
            [type |-> "authenticate", conn |-> sock[k][2],
             mailbox |-> IF ok THEN MailboxOf[k] ELSE NoMailbox,
             last_seq |-> last_seq[k]] \in Event
      BY <1>2, <2>1, ConstantsAssumption DEF TypeOK, Event
    <2>3. events' \in [Servers -> Seq(Event)]
      BY <1>2, <1>3, <2>1, <2>2, EventsType DEF ClientAuthenticate, Outcomes
    <2> QED
      BY <1>3, <2>3 DEF TypeOK, ClientAuthenticate
  <1>4. ASSUME NEW m \in Messages, From[m] = k, ClientSend(m) PROVE TypeOK'
    <2>1. CanSend(k)
      BY <1>4 DEF ClientSend
    <2>2. [type |-> "send", conn |-> sock[k][2], msg |-> m] \in Event
      BY <1>2, <2>1 DEF Event
    <2>3. events' \in [Servers -> Seq(Event)]
      BY <1>2, <1>4, <2>1, <2>2, EventsType DEF ClientSend
    <2> QED
      BY <1>4, <2>3 DEF TypeOK, ClientSend
  <1>5. ASSUME NEW mb \in Mailboxes, ClientTyping(k, mb) PROVE TypeOK'
    <2>1. CanSend(k)
      BY <1>5 DEF ClientTyping
    <2>2. [type |-> "typing", conn |-> sock[k][2], mailbox |-> mb] \in Event
      BY <1>2, <2>1 DEF Event
    <2>3. events' \in [Servers -> Seq(Event)]
      BY <1>2, <1>5, <2>1, <2>2, EventsType DEF ClientTyping
    <2> QED
      BY <1>5, <2>3 DEF TypeOK, ClientTyping
  <1>6. ASSUME NEW type, Incoming(k, type), TakeFrame(k)
        PROVE  /\ out' \in [Servers -> [ConnIds -> Seq(Frame)]]
               /\ NextFrame(k) \in Frame
               /\ NextFrame(k).type = type
    BY <1>6 DEF TypeOK, Incoming, TakeFrame, NextFrame
  <1>7. CASE OnDelivery(k)
    <2>1. NextFrame(k).msg \in Messages /\ NextFrame(k).seq \in Nat
      BY <1>6, <1>7 DEF OnDelivery, Frame
    <2>2. /\ last_seq' \in [Clients -> Nat]
          /\ received' \in [Clients -> Seq(Messages)]
      BY <1>7, <2>1 DEF TypeOK, OnDelivery, CursorAfter
    <2> QED
      BY <1>6, <1>7, <2>2 DEF TypeOK, OnDelivery
  <1>8. CASE OnAck(k)
    <2>1. NextFrame(k).msg \in Messages
      BY <1>6, <1>8 DEF OnAck, Frame
    <2> QED
      BY <1>6, <1>8, <2>1 DEF TypeOK, OnAck
  <1>9. CASE OnTyping(k)
    BY <1>6, <1>9 DEF TypeOK, OnTyping
  <1>10. CASE ClientDrop(k)
    <2>1. sock' \in [Clients -> (Servers \X ConnIds) \cup {NoSocket}]
      BY <1>10 DEF TypeOK, ClientDrop
    <2>2. opening' \in SUBSET {j \in Clients : sock'[j] # NoSocket}
      BY <1>10 DEF TypeOK, ClientDrop
    <2>3. out' \in [Servers -> [ConnIds -> Seq(Frame)]]
      BY <1>10 DEF TypeOK, ClientDrop
    <2>4. drops' \in Nat
      BY <1>10 DEF TypeOK, ClientDrop
    <2> QED
      BY <1>10, <2>1, <2>2, <2>3, <2>4 DEF TypeOK, ClientDrop
  <1> QED
    BY <1>1, <1>3, <1>4, <1>5, <1>7, <1>8, <1>9, <1>10 DEF ClientStep

(* The steps of the tasks around the router.                               *)
LEMMA AroundType ==
    ASSUME TypeOK, NEW s \in Servers,
           \/ \E c \in ConnIds : ReaderEnd(s, c) \/ WriterEnd(s, c)
           \/ Subscribe(s)
           \/ SubscriberForward(s)
    PROVE  TypeOK'
  <1> USE DEF localVars, socketVars, storeVars, redisVars, clientVars, boundVars
  <1>1. ASSUME NEW c \in ConnIds, ReaderEnd(s, c) PROVE TypeOK'
    <2>1. [type |-> "disconnected", conn |-> c] \in Event
      BY DEF Event
    <2>2. events' \in [Servers -> Seq(Event)]
      BY <1>1, <2>1, EventsType DEF ReaderEnd
    <2> QED
      BY <1>1, <2>2 DEF TypeOK, ReaderEnd
  <1>2. ASSUME NEW c \in ConnIds, WriterEnd(s, c) PROVE TypeOK'
    BY <1>2 DEF TypeOK, WriterEnd
  <1>3. CASE Subscribe(s)
    BY <1>3 DEF TypeOK, Subscribe
  <1>4. CASE SubscriberForward(s)
    <2>1. /\ Head(channel[s]) \in PubSubPayload
          /\ channel' \in [Servers -> Seq(PubSubPayload)]
      BY <1>4 DEF TypeOK, SubscriberForward
    <2>2. [type |-> "pubsub", msg |-> Head(channel[s]).msg,
           seq |-> Head(channel[s]).seq] \in Event
      BY <2>1 DEF PubSubPayload, Event
    <2>3. events' \in [Servers -> Seq(Event)]
      BY <1>4, <2>2, EventsType DEF SubscriberForward
    <2> QED
      BY <1>4, <2>1, <2>3 DEF TypeOK, SubscriberForward
  <1> QED
    BY <1>1, <1>2, <1>3, <1>4

(* The steps of the router.                                                *)
LEMMA RouterStepType ==
    ASSUME TypeOK, NEW s \in Servers, RouterStep(s)
    PROVE  TypeOK'
  <1> USE DEF localVars, socketVars, storeVars, redisVars, clientVars, boundVars
  <1>1. Idle \in Task
    BY DEF Idle, Task
  <1>2. \A t \in Task : [task EXCEPT ![s] = t] \in [Servers -> Task]
    BY DEF TypeOK
  <1>3. CASE HandleConnected(s)
    <2>1. /\ Next_event(s).conn \in ConnIds
          /\ events' \in [Servers -> Seq(Event)]
      BY <1>3, EventsType DEF HandleConnected, Handling, Event
    <2> QED
      BY <1>3, <2>1 DEF TypeOK, HandleConnected
  <1>4. CASE HandleIgnored(s)
    <2>1. events' \in [Servers -> Seq(Event)]
      BY <1>4, EventsType DEF HandleIgnored
    <2> QED
      BY <1>4, <2>1 DEF TypeOK, HandleIgnored
  <1>5. CASE HandleRefused(s)
    <2>1. events' \in [Servers -> Seq(Event)]
      BY <1>5, EventsType DEF HandleRefused
    <2>2. <<>> \in Seq(Frame)
      OBVIOUS
    <2> QED
      BY <1>5, <2>1, <2>2, SendType DEF TypeOK, HandleRefused
  <1>6. CASE AuthenticateFetch(s)
    <2> DEFINE e == Next_event(s)
    <2>1. /\ e.conn \in ConnIds
          /\ e.mailbox \in Mailboxes
          /\ events' \in [Servers -> Seq(Event)]
      BY <1>6, EventsType DEF AuthenticateFetch, Handling, Event
    <2>2. PICK r \in OrderedBySeq(RowsAfter(e.mailbox, e.last_seq)) :
             task' = [task EXCEPT ![s] = [at |-> "register", conn |-> e.conn,
                                          mailbox |-> e.mailbox, rows |-> r]]
      BY <1>6 DEF AuthenticateFetch
    <2>3. [at |-> "register", conn |-> e.conn, mailbox |-> e.mailbox, rows |-> r] \in Task
      BY <2>1, OrderedRows DEF Task
    <2>4. /\ task' \in [Servers -> Task]
          /\ connection_to_mailbox' \in
                 [Servers -> [ConnIds -> Mailboxes \cup {NoMailbox}]]
          /\ mailbox_to_connections' \in [Servers -> [Mailboxes -> SUBSET ConnIds]]
      BY <1>2, <1>6, <2>1, <2>2, <2>3 DEF TypeOK, AuthenticateFetch
    <2> QED
      BY <1>6, <2>1, <2>4 DEF TypeOK, AuthenticateFetch
  <1>7. CASE AuthenticateFlush(s)
    <2> DEFINE t == task[s]
    <2>1. t.at = "register" /\ t.conn \in ConnIds /\ t.mailbox \in Mailboxes
      BY <1>7 DEF TypeOK, AuthenticateFlush, Task
    <2>2. SendOrDisconnect(s, {t.conn}, Backlog(s)) /\ Backlog(s) \in Seq(Frame)
      BY <1>7, <2>1, BacklogType DEF AuthenticateFlush, Backlog
    <2>4. registry' \in [Mailboxes -> [ConnIds -> Servers \cup {NoServer}]]
      BY <1>7, <2>1 DEF TypeOK, AuthenticateFlush, Registered
    <2>5. task' \in [Servers -> Task]
      BY <1>1, <1>2, <1>7 DEF AuthenticateFlush
    <2> QED
      BY <1>7, <2>2, <2>4, <2>5, SendType DEF TypeOK, AuthenticateFlush
  <1>8. CASE SendInsert(s)
    <2> DEFINE e == Next_event(s)
    <2>1. /\ e.conn \in ConnIds
          /\ e.msg \in Messages
          /\ events' \in [Servers -> Seq(Event)]
      BY <1>8, EventsType DEF SendInsert, Handling, Event
    <2>2. PICK o \in InsertOutcomes :
             /\ seq' = IF o = "failed" THEN seq ELSE Inserted(e.msg)
             /\ identity' = IF o = "failed" THEN identity ELSE identity + 1
             /\ task' = [task EXCEPT ![s] =
                    [at |-> "lookup", msg |-> e.msg,
                     seq |-> IF o = "ok" THEN Returned(e.msg) ELSE 0]]
      BY <1>8 DEF SendInsert
    <2>3. identity' \in Nat /\ seq' \in [Messages -> Nat]
      BY <2>1, <2>2 DEF TypeOK, Inserted
    <2>4. [at |-> "lookup", msg |-> e.msg,
           seq |-> IF o = "ok" THEN Returned(e.msg) ELSE 0] \in Task
      BY <2>1 DEF TypeOK, Returned, Task
    <2>5. task' \in [Servers -> Task]
      BY <1>2, <2>2, <2>4
    <2>6. <<Ack(e.msg)>> \in Seq(Frame)
      BY <2>1 DEF Ack, Frame
    <2> QED
      BY <1>8, <2>1, <2>3, <2>5, <2>6, SendType DEF TypeOK, SendInsert
  <1>9. CASE SendLookup(s)
    <2> DEFINE t == task[s]
    <2>1. t.msg \in Messages /\ t.seq \in Nat
      BY <1>9 DEF TypeOK, SendLookup, Task
    <2>2. ServersOf(To[t.msg]) \subseteq Servers
      BY <2>1, ConstantsAssumption DEF TypeOK, ServersOf
    <2>3. \A to \in SUBSET Servers :
             [at |-> "route", msg |-> t.msg, seq |-> t.seq, to |-> to] \in Task
      BY <2>1 DEF Task
    <2>4. task' \in [Servers -> Task]
      BY <1>1, <1>2, <1>9, <2>2, <2>3 DEF SendLookup
    <2> QED
      BY <1>9, <2>4 DEF TypeOK, SendLookup
  <1>10. ASSUME task[s].at = "route", NEW r \in Servers
         PROVE  /\ task[s].msg \in Messages
                /\ task[s].seq \in Nat
                /\ [task EXCEPT ![s] = RoutedTo(task[s], r)] \in [Servers -> Task]
    <2>1. /\ task[s].msg \in Messages
          /\ task[s].seq \in Nat
          /\ task[s].to \in SUBSET Servers
      BY <1>10 DEF TypeOK, Task
    <2>2. RoutedTo(task[s], r) \in Task
      BY <1>1, <2>1 DEF RoutedTo, Task
    <2> QED
      BY <1>2, <2>1, <2>2
  <1>11. CASE SendDeliver(s)
    <2>1. task[s].at = "route"
      BY <1>11 DEF SendDeliver
    <2>2. <<Delivery(task[s].msg, task[s].seq)>> \in Seq(Frame)
      BY <1>10, <2>1 DEF Delivery, Frame
    <2>3. task' \in [Servers -> Task]
      BY <1>10, <1>11, <2>1 DEF SendDeliver
    <2> QED
      BY <1>11, <2>2, <2>3, SendType DEF TypeOK, SendDeliver
  <1>12. ASSUME NEW r \in Servers, SendPublish(s, r) PROVE TypeOK'
    <2>1. task[s].at = "route"
      BY <1>12 DEF SendPublish
    <2>2. [msg |-> task[s].msg, seq |-> task[s].seq] \in PubSubPayload
      BY <1>10, <2>1 DEF PubSubPayload
    <2>3. channel' \in [Servers -> Seq(PubSubPayload)]
      BY <1>12, <2>2 DEF TypeOK, SendPublish
    <2>4. task' \in [Servers -> Task]
      BY <1>10, <1>12, <2>1 DEF SendPublish
    <2> QED
      BY <1>12, <2>3, <2>4 DEF TypeOK, SendPublish
  <1>13. CASE HandleTyping(s)
    <2>1. /\ Next_event(s).mailbox \in Mailboxes
          /\ events' \in [Servers -> Seq(Event)]
      BY <1>13, EventsType DEF HandleTyping, Handling, Event
    <2>2. <<Typing(Next_event(s).mailbox)>> \in Seq(Frame)
      BY <2>1 DEF Typing, Frame
    <2> QED
      BY <1>13, <2>1, <2>2, SendType DEF TypeOK, HandleTyping
  <1>14. CASE HandleDisconnected(s)
    <2>1. /\ Next_event(s).conn \in ConnIds
          /\ events' \in [Servers -> Seq(Event)]
      BY <1>14, EventsType DEF HandleDisconnected, Handling, Event
    <2>2. registry' \in [Mailboxes -> [ConnIds -> Servers \cup {NoServer}]]
      BY <1>14, <2>1 DEF TypeOK, HandleDisconnected, Unregistered
    <2> QED
      BY <1>14, <2>1, <2>2, DisconnectType DEF TypeOK, HandleDisconnected
  <1>15. CASE HandlePubSubDelivery(s)
    <2>1. /\ Next_event(s).msg \in Messages
          /\ Next_event(s).seq \in Nat
          /\ events' \in [Servers -> Seq(Event)]
      BY <1>15, EventsType DEF HandlePubSubDelivery, Handling, Event
    <2>2. <<Delivery(Next_event(s).msg, Next_event(s).seq)>> \in Seq(Frame)
      BY <2>1 DEF Delivery, Frame
    <2>3. delivered_at' \in SUBSET Messages
      BY <1>15, <2>1 DEF TypeOK, HandlePubSubDelivery
    <2> QED
      BY <1>15, <2>1, <2>2, <2>3, SendType DEF TypeOK, HandlePubSubDelivery
  <1> QED
    BY <1>3, <1>4, <1>5, <1>6, <1>7, <1>8, <1>9, <1>11, <1>12, <1>13, <1>14,
       <1>15 DEF RouterStep

(* A crash and the expiry of a key.                                        *)
LEMMA CrashType ==
    ASSUME TypeOK, NEW s \in Servers, Crash(s)
    PROVE  TypeOK'
  <1> USE DEF localVars, socketVars, storeVars, redisVars, clientVars, boundVars
  <1>1. /\ events' \in [Servers -> Seq(Event)]
        /\ channel' \in [Servers -> Seq(PubSubPayload)]
        /\ task' \in [Servers -> Task]
        /\ out' \in [Servers -> [ConnIds -> Seq(Frame)]]
    BY DEF TypeOK, Crash, Idle, Task
  <1>2. /\ next_id' \in [Servers -> 0 .. MaxConn]
        /\ reader' \in [Servers -> SUBSET ConnIds]
        /\ writer' \in [Servers -> SUBSET ConnIds]
        /\ subscribed' \in SUBSET Servers
        /\ crashes' \in Nat
    BY ConstantsAssumption DEF TypeOK, Crash
  <1>3. sock' \in [Clients -> (Servers \X ConnIds) \cup {NoSocket}]
    BY DEF TypeOK, Crash
  <1>4. opening' \in SUBSET {k \in Clients : sock'[k] # NoSocket}
    BY DEF TypeOK, Crash
  <1> QED
    BY <1>1, <1>2, <1>3, <1>4, DisconnectType DEF TypeOK, Crash

(* A registry key that expires leaves the types as they are.               *)
LEMMA ExpireType ==
    ASSUME TypeOK, NEW mb \in Mailboxes, Expire(mb)
    PROVE  TypeOK'
  BY DEF TypeOK, Expire, localVars, socketVars, storeVars, clientVars, boundVars

(* Every step keeps the types.                                             *)
LEMMA NextType == TypeOK /\ [Next]_vars => TypeOK'
  <1> SUFFICES ASSUME TypeOK, [Next]_vars PROVE TypeOK'
    OBVIOUS
  <1>1. ASSUME NEW k \in Clients, ClientStep(k) PROVE TypeOK'
    BY <1>1, ClientStepType
  <1>2. ASSUME NEW s \in Servers, ServerStep(s) PROVE TypeOK'
    BY <1>2, AroundType, RouterStepType, CrashType DEF ServerStep
  <1>3. ASSUME NEW mb \in Mailboxes, Expire(mb) PROVE TypeOK'
    BY <1>3, ExpireType
  <1>4. CASE UNCHANGED vars
    BY <1>4 DEF TypeOK, vars, localVars, socketVars, storeVars, redisVars,
                clientVars, boundVars
  <1> QED
    BY <1>1, <1>2, <1>3, <1>4 DEF Next

(* Every variable of the router and its surroundings keeps its shape.      *)
THEOREM TypeCorrect == Spec => []TypeOK
  BY InitType, NextType, PTL DEF Spec

-----------------------------------------------------------------------------
(* The local tables                                                        *)

(* Only three things touch the tables: disconnecting (alone, or when a     *)
(* send finds a dead writer), a new connection and an authentication.      *)
LEMMA DisconnectTables ==
    ASSUME TypeOK, LocalTablesAgree, NEW s \in Servers, NEW C,
           DisconnectClients(s, C)
    PROVE  LocalTablesAgree'
  <1> SUFFICES ASSUME NEW r \in Servers, NEW c \in ConnIds
               PROVE  /\ \A mb \in Mailboxes :
                            c \in mailbox_to_connections'[r][mb]
                                <=> connection_to_mailbox'[r][c] = mb
                      /\ Authenticated(r, c)' => c \in connections'[r]
    BY DEF LocalTablesAgree
  <1>1. /\ \A mb \in Mailboxes :
              c \in mailbox_to_connections[r][mb] <=> connection_to_mailbox[r][c] = mb
        /\ connection_to_mailbox[r][c] # NoMailbox => c \in connections[r]
    BY DEF LocalTablesAgree, Authenticated
  <1>2. CASE r # s
    BY <1>1, <1>2 DEF TypeOK, DisconnectClients, Authenticated
  <1>3. CASE r = s
    <2>1. connection_to_mailbox'[r][c] =
             IF c \in C THEN NoMailbox ELSE connection_to_mailbox[r][c]
      BY <1>3 DEF TypeOK, DisconnectClients
    <2>2. \A mb \in Mailboxes :
             mailbox_to_connections'[r][mb] =
                 {d \in mailbox_to_connections[r][mb] :
                     ~(d \in C /\ connection_to_mailbox[r][d] = mb)}
      BY <1>3 DEF TypeOK, DisconnectClients
    <2>3. connections'[r] = connections[r] \ C
      BY <1>3 DEF TypeOK, DisconnectClients
    <2> QED
      BY <1>1, <2>1, <2>2, <2>3, ConstantsAssumption DEF Authenticated
  <1> QED
    BY <1>2, <1>3

(* The two local tables agree after every step: only the handler of        *)
(* authenticate and disconnect_client write them, each both of them.       *)
LEMMA NextTables ==
    ASSUME TypeOK, LocalTablesAgree, [Next]_vars
    PROVE  LocalTablesAgree'
  <1> USE DEF localVars
  <1>1. ASSUME UNCHANGED localVars PROVE LocalTablesAgree'
    BY <1>1 DEF LocalTablesAgree, Authenticated
  <1>2. ASSUME NEW k \in Clients, ClientStep(k) PROVE UNCHANGED localVars
    BY <1>2 DEF ClientStep, ClientOpen, ClientAuthenticate, ClientSend,
                ClientTyping, OnDelivery, OnAck, OnTyping, ClientDrop
  <1>3. ASSUME NEW s \in Servers, HandleConnected(s) PROVE LocalTablesAgree'
    BY <1>3 DEF HandleConnected, TypeOK, LocalTablesAgree, Authenticated
  <1>4. ASSUME NEW s \in Servers, AuthenticateFetch(s) PROVE LocalTablesAgree'
    <2> DEFINE e == Next_event(s)
    <2>1. e.conn \in ConnIds /\ e.mailbox \in Mailboxes
      BY <1>4, EventsType DEF AuthenticateFetch, Handling, Event
    <2>2. e.conn \in connections[s] /\ ~Authenticated(s, e.conn)
      BY <1>4 DEF AuthenticateFetch
    <2>3. /\ connection_to_mailbox' =
                 [connection_to_mailbox EXCEPT ![s][e.conn] = e.mailbox]
          /\ mailbox_to_connections' =
                 [mailbox_to_connections EXCEPT ![s][e.mailbox] = @ \cup {e.conn}]
          /\ connections' = connections
      BY <1>4 DEF AuthenticateFetch
    <2> QED
      BY <2>1, <2>2, <2>3, ConstantsAssumption
      DEF TypeOK, LocalTablesAgree, Authenticated
  <1>5. ASSUME NEW s \in Servers, NEW C, DisconnectClients(s, C)
        PROVE  LocalTablesAgree'
    BY <1>5, DisconnectTables
  <1>6. ASSUME NEW s \in Servers, RouterStep(s) PROVE LocalTablesAgree'
    BY <1>1, <1>3, <1>4, <1>5, <1>6
    DEF RouterStep, HandleIgnored, HandleRefused, AuthenticateFlush, SendInsert,
        SendLookup, SendDeliver, SendPublish, HandleTyping, HandleDisconnected,
        HandlePubSubDelivery, SendOrDisconnect
  <1>7. ASSUME NEW s \in Servers, ServerStep(s) PROVE LocalTablesAgree'
    BY <1>1, <1>5, <1>6, <1>7
    DEF ServerStep, ReaderEnd, WriterEnd, Subscribe, SubscriberForward, Crash
  <1>8. ASSUME NEW mb \in Mailboxes, Expire(mb) PROVE UNCHANGED localVars
    BY <1>8 DEF Expire
  <1>9. CASE UNCHANGED vars
    BY <1>1, <1>9 DEF vars
  <1> QED
    BY <1>1, <1>2, <1>7, <1>8, <1>9 DEF Next

(* The server's tables of owners and of mailboxes agree in every state,    *)
(* however many sockets die, and wherever in a handler that is found out.  *)
THEOREM TablesAgree == Spec => []LocalTablesAgree
  <1>1. Init => LocalTablesAgree
    BY ConstantsAssumption DEF Init, LocalTablesAgree, Authenticated
  <1> QED
    BY <1>1, TypeCorrect, NextTables, PTL DEF Spec

-----------------------------------------------------------------------------
(* Where frames, events and suspended handlers come from                   *)

(* A frame that step puts in the queue of connection c of server s.        *)
NewFrame(s, c, f) ==
    LET e == Next_event(s)
        t == task[s]
    IN
    /\ PeerAlive(s, c)
    /\ \/ /\ AuthenticateFlush(s)
          /\ c = t.conn
          /\ \E i \in 1 .. Len(t.rows) : f = Delivery(t.rows[i], seq[t.rows[i]])
       \/ SendInsert(s) /\ f = Ack(e.msg)
       \/ /\ SendDeliver(s)
          /\ c \in Recipients(s, To[t.msg])
          /\ f = Delivery(t.msg, t.seq)
       \/ /\ HandlePubSubDelivery(s)
          /\ c \in Recipients(s, To[e.msg])
          /\ f = Delivery(e.msg, e.seq)
       \/ /\ HandleTyping(s)
          /\ c \in Recipients(s, e.mailbox)
          /\ f = Typing(e.mailbox)

(* A send appends its frames, and only for connections it is meant for.    *)
LEMMA SendFrames ==
    ASSUME TypeOK, NEW s \in Servers, NEW C, NEW fs \in Seq(Frame),
           SendOrDisconnect(s, C, fs),
           NEW r \in Servers, NEW c \in ConnIds, NEW f \in ToSet(out'[r][c])
    PROVE  \/ f \in ToSet(out[r][c])
           \/ r = s /\ c \in C /\ PeerAlive(r, c) /\ f \in ToSet(fs)
  <1>1. out[r][c] \in Seq(Frame)
    BY DEF TypeOK
  <1>2. \/ out'[r][c] = out[r][c]
        \/ r = s /\ c \in C /\ PeerAlive(r, c) /\ out'[r][c] = out[r][c] \o fs
    BY DEF TypeOK, SendOrDisconnect
  <1>3. ToSet(out[r][c] \o fs) = ToSet(out[r][c]) \cup ToSet(fs)
    BY <1>1, ToSetOfConcat
  <1> QED
    BY <1>2, <1>3

(* Every step leaves a queue alone, shortens it, or appends new frames.    *)
LEMMA FrameOrigin ==
    ASSUME TypeOK, [Next]_vars, NEW s \in Servers, NEW c \in ConnIds,
           NEW f \in ToSet(out'[s][c])
    PROVE  f \in ToSet(out[s][c]) \/ NewFrame(s, c, f)
  <1> DEFINE Goal == f \in ToSet(out[s][c]) \/ NewFrame(s, c, f)
  <1>1. ASSUME UNCHANGED out PROVE Goal
    BY <1>1
  <1>2. ASSUME NEW k \in Clients, ClientStep(k) PROVE Goal
    <2>1. ASSUME NEW type, Incoming(k, type), TakeFrame(k) PROVE Goal
      <3>1. out'[s][c] = out[s][c]
              \/ (out[s][c] # <<>> /\ out'[s][c] = Tail(out[s][c]))
        BY <2>1 DEF TypeOK, Incoming, TakeFrame
      <3>2. out[s][c] \in Seq(Frame)
        BY DEF TypeOK
      <3> QED
        BY <3>1, <3>2, ToSetOfTail
    <2>2. ASSUME ClientDrop(k) PROVE Goal
      <3>1. out'[s][c] = out[s][c] \/ out'[s][c] = <<>>
        BY <2>2 DEF TypeOK, ClientDrop
      <3> QED
        BY <3>1, ToSetOfEmpty
    <2>3. OnDelivery(k) \/ OnAck(k) \/ OnTyping(k) => Goal
      <3>1. OnDelivery(k) => Incoming(k, "delivery") /\ TakeFrame(k)
        BY DEF OnDelivery
      <3>2. OnAck(k) => Incoming(k, "ack") /\ TakeFrame(k)
        BY DEF OnAck
      <3>3. OnTyping(k) => Incoming(k, "typing") /\ TakeFrame(k)
        BY DEF OnTyping
      <3> QED
        BY <2>1, <3>1, <3>2, <3>3
    <2> QED
      BY <1>1, <1>2, <2>2, <2>3
      DEF ClientStep, ClientOpen, ClientAuthenticate, ClientSend, ClientTyping
  <1>3. ASSUME NEW r \in Servers, RouterStep(r) PROVE Goal
    <2>1. CASE HandleRefused(r)
      <3>1. <<>> \in Seq(Frame)
        OBVIOUS
      <3>2. SendOrDisconnect(r, {Next_event(r).conn}, <<>>)
        BY <2>1 DEF HandleRefused
      <3>3. f \in ToSet(out[s][c]) \/ f \in ToSet(<<>>)
        BY <3>1, <3>2, SendFrames
      <3> QED
        BY <3>3, ToSetOfEmpty
    <2>2. CASE AuthenticateFlush(r)
      <3>1. task[r].at = "register" /\ SendOrDisconnect(r, {task[r].conn}, Backlog(r))
        BY <2>2 DEF AuthenticateFlush, Backlog
      <3>2. \/ f \in ToSet(out[s][c])
            \/ /\ s = r /\ c = task[r].conn
               /\ PeerAlive(s, c) /\ f \in ToSet(Backlog(r))
        BY <3>1, BacklogType, SendFrames
      <3>3. CASE s = r /\ c = task[r].conn /\ PeerAlive(s, c) /\ f \in ToSet(Backlog(r))
        <4>1. PICK i \in 1 .. Len(task[r].rows) :
                 f = Delivery(task[r].rows[i], seq[task[r].rows[i]])
          BY <3>1, <3>3, BacklogType DEF ToSet, Backlog
        <4> QED
          BY <2>2, <3>3, <4>1 DEF NewFrame
      <3> QED
        BY <3>2, <3>3
    <2>3. ASSUME NEW C, NEW g \in Frame, SendOrDisconnect(r, C, <<g>>)
          PROVE  f \in ToSet(out[s][c]) \/ (s = r /\ c \in C /\ PeerAlive(s, c) /\ f = g)
      <3>1. <<g>> \in Seq(Frame) /\ ToSet(<<g>>) = {g}
        BY DEF ToSet
      <3> DEFINE gs == <<g>>
      <3>2. gs \in Seq(Frame) /\ ToSet(gs) = {g} /\ SendOrDisconnect(r, C, gs)
        BY <2>3, <3>1
      <3> HIDE DEF gs
      <3> QED
        BY <3>2, SendFrames
    <2>4. CASE SendInsert(r)
      <3>1. Ack(Next_event(r).msg) \in Frame
        BY <2>4, EventsType DEF SendInsert, Handling, Event, Ack, Frame
      <3> QED
        BY <2>3, <2>4, <3>1 DEF SendInsert, NewFrame
    <2>5. CASE SendDeliver(r)
      <3>1. Delivery(task[r].msg, task[r].seq) \in Frame
        BY <2>5 DEF TypeOK, SendDeliver, Task, Delivery, Frame
      <3> QED
        BY <2>3, <2>5, <3>1 DEF SendDeliver, NewFrame
    <2>6. CASE HandlePubSubDelivery(r)
      <3>1. Delivery(Next_event(r).msg, Next_event(r).seq) \in Frame
        BY <2>6, EventsType DEF HandlePubSubDelivery, Handling, Event, Delivery, Frame
      <3> QED
        BY <2>3, <2>6, <3>1 DEF HandlePubSubDelivery, NewFrame
    <2>7. CASE HandleTyping(r)
      <3>1. Typing(Next_event(r).mailbox) \in Frame
        BY <2>7, EventsType DEF HandleTyping, Handling, Event, Typing, Frame
      <3> QED
        BY <2>3, <2>7, <3>1 DEF HandleTyping, NewFrame
    <2> QED
      BY <1>1, <1>3, <2>1, <2>2, <2>4, <2>5, <2>6, <2>7
      DEF RouterStep, HandleConnected, HandleIgnored, AuthenticateFetch,
          SendLookup, SendPublish, HandleDisconnected
  <1>4. ASSUME NEW r \in Servers, Crash(r) PROVE Goal
    <2>1. out'[s][c] = out[s][c] \/ out'[s][c] = <<>>
      BY <1>4 DEF TypeOK, Crash
    <2> QED
      BY <2>1, ToSetOfEmpty
  <1>5. ASSUME NEW r \in Servers, ServerStep(r) PROVE Goal
    BY <1>1, <1>3, <1>4, <1>5
    DEF ServerStep, ReaderEnd, WriterEnd, Subscribe, SubscriberForward
  <1>6. ASSUME NEW mb \in Mailboxes, Expire(mb) PROVE Goal
    BY <1>1, <1>6 DEF Expire
  <1>7. CASE UNCHANGED vars
    BY <1>1, <1>7 DEF vars
  <1> QED
    BY <1>2, <1>5, <1>6, <1>7 DEF Next

-----------------------------------------------------------------------------
(* Numbers of rows, cursors and acknowledgements                           *)

(* The frame that a client takes next.                                     *)
LEMMA IncomingFrame ==
    ASSUME TypeOK, NEW k \in Clients, NEW type, Incoming(k, type)
    PROVE  /\ sock[k][1] \in Servers
           /\ sock[k][2] \in ConnIds
           /\ sock[k] = <<sock[k][1], sock[k][2]>>
           /\ NextFrame(k) \in Frame
           /\ NextFrame(k) \in ToSet(out[sock[k][1]][sock[k][2]])
           /\ NextFrame(k).type = type
  <1>1. /\ sock[k][1] \in Servers
        /\ sock[k][2] \in ConnIds
        /\ sock[k] = <<sock[k][1], sock[k][2]>>
    BY DEF TypeOK, Incoming
  <1>2. /\ out[sock[k][1]][sock[k][2]] \in Seq(Frame)
        /\ out[sock[k][1]][sock[k][2]] # <<>>
    BY <1>1 DEF TypeOK, Incoming
  <1>3. NextFrame(k) \in Frame
    BY <1>2 DEF NextFrame
  <1> QED
    BY <1>1, <1>2, <1>3, ToSetOfTail DEF NextFrame, Incoming

(* Only a delivery moves a cursor, and only an Ack acknowledges.           *)
LEMMA CursorOrigin ==
    ASSUME [Next]_vars
    PROVE  /\ acked' = acked \/ \E k \in Clients : OnAck(k)
           /\ last_seq' = last_seq \/ \E k \in Clients : OnDelivery(k)
  <1> DEFINE Goal == /\ acked' = acked \/ \E k \in Clients : OnAck(k)
                     /\ last_seq' = last_seq \/ \E k \in Clients : OnDelivery(k)
  <1> USE DEF clientVars
  <1>1. ASSUME UNCHANGED <<acked, last_seq>> PROVE Goal
    BY <1>1
  <1>2. ASSUME NEW k \in Clients, ClientStep(k) PROVE Goal
    <2>1. OnAck(k) => Goal
      BY DEF OnAck
    <2>2. OnDelivery(k) => Goal
      BY DEF OnDelivery
    <2> QED
      BY <1>1, <1>2, <2>1, <2>2
      DEF ClientStep, ClientOpen, ClientAuthenticate, ClientSend, ClientTyping,
          OnTyping, ClientDrop
  <1>3. ASSUME NEW s \in Servers, ServerStep(s) PROVE Goal
    BY <1>1, <1>3
    DEF ServerStep, RouterStep, ReaderEnd, WriterEnd, Subscribe, SubscriberForward,
        Crash, HandleConnected, HandleIgnored, HandleRefused, AuthenticateFetch,
        AuthenticateFlush, SendInsert, SendLookup, SendDeliver, SendPublish,
        HandleTyping, HandleDisconnected, HandlePubSubDelivery
  <1>4. ASSUME NEW mb \in Mailboxes, Expire(mb) PROVE Goal
    BY <1>1, <1>4 DEF Expire
  <1>5. CASE UNCHANGED vars
    BY <1>1, <1>5 DEF vars
  <1> QED
    BY <1>2, <1>3, <1>4, <1>5 DEF Next

(* What a step may do to the store and to the cursors.                     *)
NumbersStep ==
    /\ \A m \in Messages : seq[m] > 0 => seq'[m] = seq[m]
    /\ identity <= identity'
    /\ \A k \in Clients : last_seq[k] <= last_seq'[k]

(* No step renumbers a row or moves IDENTITY or a cursor back.             *)
LEMMA NextNumbers ==
    ASSUME TypeOK, [Next]_vars
    PROVE  NumbersStep
  <1> USE DEF storeVars, clientVars
  <1>1. ASSUME UNCHANGED <<seq, identity, last_seq>> PROVE NumbersStep
    BY <1>1 DEF NumbersStep, TypeOK
  <1>2. ASSUME NEW k \in Clients, OnDelivery(k) PROVE NumbersStep
    <2>1. NextFrame(k).seq \in Nat
      BY <1>2, IncomingFrame DEF OnDelivery, Frame
    <2> QED
      BY <1>2, <2>1 DEF TypeOK, OnDelivery, CursorAfter, NumbersStep
  <1>3. ASSUME NEW k \in Clients, ClientStep(k) PROVE NumbersStep
    BY <1>1, <1>2, <1>3
    DEF ClientStep, ClientOpen, ClientAuthenticate, ClientSend, ClientTyping,
        OnAck, OnTyping, ClientDrop
  <1>4. ASSUME NEW s \in Servers, SendInsert(s) PROVE NumbersStep
    <2>1. Next_event(s).msg \in Messages
      BY <1>4, EventsType DEF SendInsert, Handling, Event
    <2>2. UNCHANGED last_seq
      BY <1>4 DEF SendInsert
    <2> QED
      BY <1>4, <2>1, <2>2 DEF TypeOK, SendInsert, Inserted, NumbersStep
  <1>5. ASSUME NEW s \in Servers, ServerStep(s) PROVE NumbersStep
    BY <1>1, <1>4, <1>5
    DEF ServerStep, RouterStep, ReaderEnd, WriterEnd, Subscribe, SubscriberForward,
        Crash, HandleConnected, HandleIgnored, HandleRefused, AuthenticateFetch,
        AuthenticateFlush, SendLookup, SendDeliver, SendPublish, HandleTyping,
        HandleDisconnected, HandlePubSubDelivery
  <1>6. ASSUME NEW mb \in Mailboxes, Expire(mb) PROVE NumbersStep
    BY <1>1, <1>6 DEF Expire
  <1>7. CASE UNCHANGED vars
    BY <1>1, <1>7 DEF vars
  <1> QED
    BY <1>3, <1>5, <1>6, <1>7 DEF Next

-----------------------------------------------------------------------------
(* Where events, payloads and suspended handlers come from                 *)

(* What is in an event queue after a step was there before, or is the      *)
(* event enqueued by that step.                                            *)
LEMMA QueueElements ==
    ASSUME TypeOK, NEW s \in Servers, NEW r \in Servers, NEW x \in ToSet(events'[r])
    PROVE  /\ \A e : Enqueue(s, e) => x \in ToSet(events[r]) \/ (r = s /\ x = e)
           /\ (events[s] # <<>> /\ Dequeue(s)) => x \in ToSet(events[r])
           /\ UNCHANGED events => x \in ToSet(events[r])
  <1>1. events[r] \in Seq(Event)
    BY DEF TypeOK
  <1>2. ASSUME NEW e, Enqueue(s, e)
        PROVE  x \in ToSet(events[r]) \/ (r = s /\ x = e)
    <2>1. events'[r] = events[r] \/ (r = s /\ events'[r] = Append(events[r], e))
      BY <1>2 DEF TypeOK, Enqueue
    <2>2. ToSet(Append(events[r], e)) = ToSet(events[r]) \cup {e}
      BY <1>1, ToSetOfAppend
    <2> QED
      BY <2>1, <2>2
  <1>3. ASSUME events[s] # <<>>, Dequeue(s) PROVE x \in ToSet(events[r])
    <2>1. events'[r] = events[r] \/ (events[r] # <<>> /\ events'[r] = Tail(events[r]))
      BY <1>3 DEF TypeOK, Dequeue
    <2> QED
      BY <1>1, <2>1, ToSetOfTail
  <1> QED
    BY <1>2, <1>3

(* An event that a step puts in the channel of the router of s.            *)
NewEvent(s, e) ==
    \/ \E k \in Clients :
           ClientOpen(k, s) /\ e = [type |-> "connected", conn |-> next_id[s]]
    \/ \E k \in Clients : \E mb \in {MailboxOf[k], NoMailbox} :
           /\ ClientAuthenticate(k)
           /\ sock[k][1] = s
           /\ e = [type |-> "authenticate", conn |-> sock[k][2],
                   mailbox |-> mb, last_seq |-> last_seq[k]]
    \/ \E m \in Messages :
           /\ ClientSend(m)
           /\ sock[From[m]][1] = s
           /\ e = [type |-> "send", conn |-> sock[From[m]][2], msg |-> m]
    \/ \E k \in Clients : \E mb \in Mailboxes :
           /\ ClientTyping(k, mb)
           /\ sock[k][1] = s
           /\ e = [type |-> "typing", conn |-> sock[k][2], mailbox |-> mb]
    \/ \E c \in ConnIds :
           ReaderEnd(s, c) /\ e = [type |-> "disconnected", conn |-> c]
    \/ /\ SubscriberForward(s)
       /\ e = [type |-> "pubsub", msg |-> Head(channel[s]).msg,
               seq |-> Head(channel[s]).seq]

(* Every step leaves a channel alone, takes from it, or puts one new event *)
(* in it.                                                                  *)
LEMMA EventOrigin ==
    ASSUME TypeOK, [Next]_vars, NEW s \in Servers, NEW x \in ToSet(events'[s])
    PROVE  x \in ToSet(events[s]) \/ NewEvent(s, x)
  <1> DEFINE Goal == x \in ToSet(events[s]) \/ NewEvent(s, x)
  <1>1. ASSUME UNCHANGED events PROVE Goal
    BY <1>1
  <1>2. ASSUME NEW k \in Clients, ClientStep(k) PROVE Goal
    <2>1. k \in opening \/ CanSend(k) => sock[k][1] \in Servers
      BY DEF TypeOK, CanSend
    <2>2. ASSUME NEW r \in Servers, ClientOpen(k, r) PROVE Goal
      BY <2>2, QueueElements DEF ClientOpen, NewEvent
    <2>3. CASE ClientAuthenticate(k)
      <3>1. PICK ok \in BOOLEAN :
               Enqueue(sock[k][1],
                   [type |-> "authenticate", conn |-> sock[k][2],
                    mailbox |-> IF ok THEN MailboxOf[k] ELSE NoMailbox,
                    last_seq |-> last_seq[k]])
        BY <2>3 DEF ClientAuthenticate, Outcomes
      <3>2. sock[k][1] \in Servers
        BY <2>1, <2>3 DEF ClientAuthenticate
      <3>3. x \in ToSet(events[s]) \/
              (/\ s = sock[k][1]
               /\ x = [type |-> "authenticate", conn |-> sock[k][2],
                       mailbox |-> IF ok THEN MailboxOf[k] ELSE NoMailbox,
                       last_seq |-> last_seq[k]])
        BY <3>1, <3>2, QueueElements
      <3> QED
        BY <2>3, <3>3 DEF NewEvent
    <2>4. ASSUME NEW m \in Messages, From[m] = k, ClientSend(m) PROVE Goal
      <3>1. sock[k][1] \in Servers
        BY <2>1, <2>4 DEF ClientSend
      <3>2. Enqueue(sock[k][1], [type |-> "send", conn |-> sock[k][2], msg |-> m])
        BY <2>4 DEF ClientSend
      <3>3. x \in ToSet(events[s]) \/
              (/\ s = sock[k][1]
               /\ x = [type |-> "send", conn |-> sock[k][2], msg |-> m])
        BY <3>1, <3>2, QueueElements
      <3> QED
        BY <2>4, <3>3 DEF NewEvent
    <2>5. ASSUME NEW mb \in Mailboxes, ClientTyping(k, mb) PROVE Goal
      <3>1. sock[k][1] \in Servers
        BY <2>1, <2>5 DEF ClientTyping
      <3>2. Enqueue(sock[k][1], [type |-> "typing", conn |-> sock[k][2], mailbox |-> mb])
        BY <2>5 DEF ClientTyping
      <3>3. x \in ToSet(events[s]) \/
              (/\ s = sock[k][1]
               /\ x = [type |-> "typing", conn |-> sock[k][2], mailbox |-> mb])
        BY <3>1, <3>2, QueueElements
      <3> QED
        BY <2>5, <3>3 DEF NewEvent
    <2> QED
      BY <1>1, <1>2, <2>2, <2>3, <2>4, <2>5
      DEF ClientStep, OnDelivery, OnAck, OnTyping, ClientDrop
  <1>3. ASSUME NEW r \in Servers, RouterStep(r) PROVE Goal
    <2>1. UNCHANGED events \/ (events[r] # <<>> /\ Dequeue(r))
      BY <1>3
      DEF RouterStep, HandleConnected, HandleIgnored, HandleRefused,
          AuthenticateFetch, AuthenticateFlush, SendInsert, SendLookup,
          SendDeliver, SendPublish, HandleTyping, HandleDisconnected,
          HandlePubSubDelivery, Handling
    <2> QED
      BY <2>1, QueueElements
  <1>4. ASSUME NEW r \in Servers, Crash(r) PROVE Goal
    <2>1. events'[s] = events[s] \/ events'[s] = <<>>
      BY <1>4 DEF TypeOK, Crash
    <2> QED
      BY <2>1, ToSetOfEmpty
  <1>5. ASSUME NEW r \in Servers, NEW c \in ConnIds, ReaderEnd(r, c) PROVE Goal
    BY <1>5, QueueElements DEF ReaderEnd, NewEvent
  <1>6. ASSUME NEW r \in Servers, SubscriberForward(r) PROVE Goal
    BY <1>6, QueueElements DEF SubscriberForward, NewEvent
  <1>7. ASSUME NEW r \in Servers, ServerStep(r) PROVE Goal
    BY <1>1, <1>3, <1>4, <1>5, <1>6, <1>7 DEF ServerStep, WriterEnd, Subscribe
  <1>8. ASSUME NEW mb \in Mailboxes, Expire(mb) PROVE Goal
    BY <1>1, <1>8 DEF Expire
  <1>9. CASE UNCHANGED vars
    BY <1>1, <1>9 DEF vars
  <1> QED
    BY <1>2, <1>7, <1>8, <1>9 DEF Next

(* Only the router of s changes what it is suspended at, but for a crash.  *)
LEMMA TaskOrigin ==
    ASSUME TypeOK, [Next]_vars, NEW s \in Servers
    PROVE  \/ task'[s] = task[s]
           \/ task'[s] = Idle
           \/ AuthenticateFetch(s)
           \/ SendInsert(s)
           \/ SendLookup(s)
           \/ SendDeliver(s)
           \/ \E r \in Servers : SendPublish(s, r)
  <1> DEFINE Goal == \/ task'[s] = task[s]
                     \/ task'[s] = Idle
                     \/ AuthenticateFetch(s)
                     \/ SendInsert(s)
                     \/ SendLookup(s)
                     \/ SendDeliver(s)
                     \/ \E r \in Servers : SendPublish(s, r)
  <1>1. ASSUME UNCHANGED task PROVE Goal
    BY <1>1
  <1>2. ASSUME NEW k \in Clients, ClientStep(k) PROVE Goal
    BY <1>1, <1>2
    DEF ClientStep, ClientOpen, ClientAuthenticate, ClientSend, ClientTyping,
        OnDelivery, OnAck, OnTyping, ClientDrop
  <1>3. ASSUME NEW r \in Servers, RouterStep(r) PROVE Goal
    <2>1. CASE r = s
      BY <1>1, <1>3, <2>1
      DEF TypeOK, RouterStep, HandleConnected, HandleIgnored, HandleRefused,
          AuthenticateFlush, HandleTyping, HandleDisconnected, HandlePubSubDelivery
    <2>2. CASE r # s
      <3>1. task'[s] = task[s]
        BY <1>3, <2>2
        DEF TypeOK, RouterStep, HandleConnected, HandleIgnored, HandleRefused,
            AuthenticateFetch, AuthenticateFlush, SendInsert, SendLookup,
            SendDeliver, SendPublish, HandleTyping, HandleDisconnected,
            HandlePubSubDelivery
      <3> QED
        BY <3>1
    <2> QED
      BY <2>1, <2>2
  <1>4. ASSUME NEW r \in Servers, Crash(r) PROVE Goal
    BY <1>4 DEF TypeOK, Crash
  <1>5. ASSUME NEW r \in Servers, ServerStep(r) PROVE Goal
    BY <1>1, <1>3, <1>4, <1>5
    DEF ServerStep, ReaderEnd, WriterEnd, Subscribe, SubscriberForward
  <1>6. ASSUME NEW mb \in Mailboxes, Expire(mb) PROVE Goal
    BY <1>1, <1>6 DEF Expire
  <1>7. CASE UNCHANGED vars
    BY <1>1, <1>7 DEF vars
  <1> QED
    BY <1>2, <1>5, <1>6, <1>7 DEF Next

-----------------------------------------------------------------------------
(* The numbers that travel                                                 *)

(* The row's number after the step.                                        *)
SeqOfRowAfter(m, n) == n = 0 \/ seq'[m] = n

(* A number that was read from a row stays right: rows are not renumbered. *)
LEMMA SeqOfRowStable ==
    ASSUME TypeOK, [Next]_vars, NEW m \in Messages, NEW n \in Nat, SeqOfRow(m, n)
    PROVE  SeqOfRowAfter(m, n)
  BY NextNumbers DEF SeqOfRow, SeqOfRowAfter, NumbersStep

(* A payload in a channel was there before or is published by this step,   *)
(* with what the handler carries.                                          *)
LEMMA PubSubOrigin ==
    ASSUME TypeOK, [Next]_vars, NEW r \in Servers, NEW p \in ToSet(channel'[r])
    PROVE  \/ p \in ToSet(channel[r])
           \/ \E s \in Servers : /\ SendPublish(s, r)
                                 /\ p = [msg |-> task[s].msg, seq |-> task[s].seq]
  <1> DEFINE Goal == \/ p \in ToSet(channel[r])
                     \/ \E s \in Servers :
                           /\ SendPublish(s, r)
                           /\ p = [msg |-> task[s].msg, seq |-> task[s].seq]
  <1> USE DEF redisVars
  <1>1. channel[r] \in Seq(PubSubPayload)
    BY DEF TypeOK
  <1>2. ASSUME UNCHANGED channel PROVE Goal
    BY <1>2
  <1>3. ASSUME NEW k \in Clients, ClientStep(k) PROVE Goal
    BY <1>2, <1>3
    DEF ClientStep, ClientOpen, ClientAuthenticate, ClientSend, ClientTyping,
        OnDelivery, OnAck, OnTyping, ClientDrop
  <1>4. ASSUME NEW s \in Servers, NEW q \in Servers, SendPublish(s, q) PROVE Goal
    <2> DEFINE new == [msg |-> task[s].msg, seq |-> task[s].seq]
    <2>1. channel'[r] = channel[r] \/ (q = r /\ channel'[r] = Append(channel[r], new))
      BY <1>4 DEF TypeOK, SendPublish
    <2>2. ToSet(Append(channel[r], new)) = ToSet(channel[r]) \cup {new}
      BY <1>1, ToSetOfAppend
    <2> QED
      BY <1>4, <2>1, <2>2
  <1>5. ASSUME NEW s \in Servers, SubscriberForward(s) PROVE Goal
    <2>1. channel'[r] = channel[r]
            \/ (channel[r] # <<>> /\ channel'[r] = Tail(channel[r]))
      BY <1>5 DEF TypeOK, SubscriberForward
    <2> QED
      BY <1>1, <2>1, ToSetOfTail
  <1>6. ASSUME NEW s \in Servers, Crash(s) PROVE Goal
    <2>1. channel'[r] = channel[r] \/ channel'[r] = <<>>
      BY <1>6 DEF TypeOK, Crash
    <2> QED
      BY <2>1, ToSetOfEmpty
  <1>7. ASSUME NEW s \in Servers, RouterStep(s) PROVE Goal
    BY <1>2, <1>4, <1>7
    DEF RouterStep, HandleConnected, HandleIgnored, HandleRefused,
        AuthenticateFetch, AuthenticateFlush, SendInsert, SendLookup, SendDeliver,
        HandleTyping, HandleDisconnected, HandlePubSubDelivery
  <1>8. ASSUME NEW s \in Servers, ServerStep(s) PROVE Goal
    BY <1>2, <1>5, <1>6, <1>7, <1>8 DEF ServerStep, ReaderEnd, WriterEnd, Subscribe
  <1>9. ASSUME NEW mb \in Mailboxes, Expire(mb) PROVE Goal
    BY <1>2, <1>9 DEF Expire
  <1>10. CASE UNCHANGED vars
    BY <1>2, <1>10 DEF vars
  <1> QED
    BY <1>3, <1>8, <1>9, <1>10 DEF Next

(* A number travels from the row through handler, channel, event and frame *)
(* without change.                                                         *)
LEMMA NextCarriedSeq ==
    ASSUME TypeOK, CarriedSeqIsTheRows, [Next]_vars
    PROVE  CarriedSeqIsTheRows'
  <1> SUFFICES ASSUME NEW s \in Servers
               PROVE  /\ \A e \in ToSet(events'[s]) :
                            e.type = "pubsub" => SeqOfRowAfter(e.msg, e.seq)
                      /\ \A p \in ToSet(channel'[s]) : SeqOfRowAfter(p.msg, p.seq)
                      /\ task'[s].at \in {"lookup", "route"} =>
                            SeqOfRowAfter(task'[s].msg, task'[s].seq)
                      /\ \A c \in ConnIds : \A f \in ToSet(out'[s][c]) :
                            f.type = "delivery" => SeqOfRowAfter(f.msg, f.seq)
    BY DEF CarriedSeqIsTheRows, SeqOfRow, SeqOfRowAfter
  <1>1. ASSUME NEW r \in Servers, task[r].at \in {"lookup", "route"}
        PROVE  /\ task[r].msg \in Messages /\ task[r].seq \in Nat
               /\ SeqOfRow(task[r].msg, task[r].seq)
               /\ SeqOfRowAfter(task[r].msg, task[r].seq)
    <2>1. task[r].msg \in Messages /\ task[r].seq \in Nat
      BY <1>1 DEF TypeOK, Task
    <2>2. SeqOfRow(task[r].msg, task[r].seq)
      BY <1>1 DEF CarriedSeqIsTheRows
    <2> QED
      BY <2>1, <2>2, SeqOfRowStable
  <1>2. ASSUME NEW r \in Servers, NEW p \in ToSet(channel[r])
        PROVE  SeqOfRowAfter(p.msg, p.seq)
    <2>1. p \in PubSubPayload
      BY <1>2 DEF TypeOK, ToSet
    <2>2. p.msg \in Messages /\ p.seq \in Nat /\ SeqOfRow(p.msg, p.seq)
      BY <1>2, <2>1 DEF PubSubPayload, CarriedSeqIsTheRows
    <2> QED
      BY <2>2, SeqOfRowStable
  <1>3. ASSUME NEW r \in Servers, NEW e \in ToSet(events[r]), e.type = "pubsub"
        PROVE  SeqOfRowAfter(e.msg, e.seq)
    <2>1. e \in Event
      BY <1>3 DEF TypeOK, ToSet
    <2>2. e.msg \in Messages /\ e.seq \in Nat /\ SeqOfRow(e.msg, e.seq)
      BY <1>3, <2>1 DEF Event, CarriedSeqIsTheRows
    <2> QED
      BY <2>2, SeqOfRowStable
  <1>4. ASSUME NEW e \in ToSet(events'[s]), e.type = "pubsub"
        PROVE  SeqOfRowAfter(e.msg, e.seq)
    <2>1. CASE e \in ToSet(events[s])
      BY <1>3, <1>4, <2>1
    <2>2. CASE NewEvent(s, e)
      <3>1. /\ SubscriberForward(s)
            /\ e = [type |-> "pubsub", msg |-> Head(channel[s]).msg,
                    seq |-> Head(channel[s]).seq]
        BY <1>4, <2>2 DEF NewEvent
      <3>2. channel[s] \in Seq(PubSubPayload) /\ channel[s] # <<>>
        BY <3>1 DEF TypeOK, SubscriberForward
      <3>3. Head(channel[s]) \in ToSet(channel[s])
        BY <3>2, ToSetOfTail
      <3>4. SeqOfRowAfter(Head(channel[s]).msg, Head(channel[s]).seq)
        BY <1>2, <3>3
      <3>5. e.msg = Head(channel[s]).msg /\ e.seq = Head(channel[s]).seq
        BY <3>1
      <3> QED
        BY <1>2, <3>3, <3>5
    <2> QED
      BY <2>1, <2>2, EventOrigin
  <1>5. ASSUME NEW p \in ToSet(channel'[s])
        PROVE  SeqOfRowAfter(p.msg, p.seq)
    <2>1. CASE p \in ToSet(channel[s])
      BY <1>2, <2>1
    <2>2. ASSUME NEW r \in Servers, SendPublish(r, s),
                 p = [msg |-> task[r].msg, seq |-> task[r].seq]
          PROVE  SeqOfRowAfter(p.msg, p.seq)
      <3>1. task[r].at = "route" /\ p.msg = task[r].msg /\ p.seq = task[r].seq
        BY <2>2 DEF SendPublish
      <3> QED
        BY <1>1, <3>1
    <2> QED
      BY <2>1, <2>2, PubSubOrigin
  <1>6. ASSUME task'[s].at \in {"lookup", "route"}
        PROVE  SeqOfRowAfter(task'[s].msg, task'[s].seq)
    <2>1. CASE task'[s] = task[s]
      BY <1>1, <1>6, <2>1
    <2>2. CASE task'[s] = Idle
      BY <1>6, <2>2 DEF Idle
    <2>3. CASE AuthenticateFetch(s)
      <3>1. task'[s].at = "register"
        BY <2>3 DEF AuthenticateFetch, TypeOK
      <3> QED
        BY <1>6, <3>1
    <2>4. CASE SendInsert(s)
      <3> DEFINE m == Next_event(s).msg
      <3>1. m \in Messages
        BY <2>4, EventsType DEF SendInsert, Handling, Event
      <3>2. PICK o \in InsertOutcomes :
               /\ seq' = IF o = "failed" THEN seq ELSE Inserted(m)
               /\ task' = [task EXCEPT ![s] =
                      [at |-> "lookup", msg |-> m,
                       seq |-> IF o = "ok" THEN Returned(m) ELSE 0]]
        BY <2>4 DEF SendInsert
      <3>3. /\ task'[s].msg = m
            /\ task'[s].seq = IF o = "ok" THEN Returned(m) ELSE 0
        BY <3>2 DEF TypeOK
      <3> QED
        BY <3>1, <3>2, <3>3 DEF SeqOfRowAfter, Returned, Inserted, TypeOK
    <2>5. ASSUME SendLookup(s) \/ SendDeliver(s) \/ \E r \in Servers : SendPublish(s, r)
          PROVE  SeqOfRowAfter(task'[s].msg, task'[s].seq)
      <3>1. task[s].at \in {"lookup", "route"}
        BY <2>5 DEF SendLookup, SendDeliver, SendPublish
      <3>2. task'[s] = Idle \/ (task'[s].msg = task[s].msg /\ task'[s].seq = task[s].seq)
        BY <2>5 DEF SendLookup, SendDeliver, SendPublish, RoutedTo, TypeOK
      <3> QED
        BY <1>1, <1>6, <3>1, <3>2 DEF Idle
    <2> QED
      BY <2>1, <2>2, <2>3, <2>4, <2>5, TaskOrigin
  <1>7. ASSUME NEW c \in ConnIds, NEW f \in ToSet(out'[s][c]), f.type = "delivery"
        PROVE  SeqOfRowAfter(f.msg, f.seq)
    <2>1. CASE f \in ToSet(out[s][c])
      <3>1. f \in Frame
        BY <2>1 DEF TypeOK, ToSet
      <3>2. f.msg \in Messages /\ f.seq \in Nat /\ SeqOfRow(f.msg, f.seq)
        BY <1>7, <2>1, <3>1 DEF Frame, CarriedSeqIsTheRows
      <3> QED
        BY <3>2, SeqOfRowStable
    <2>2. CASE NewFrame(s, c, f)
      <3>1. CASE AuthenticateFlush(s) /\ \E i \in 1 .. Len(task[s].rows) :
                    f = Delivery(task[s].rows[i], seq[task[s].rows[i]])
        <4>1. UNCHANGED seq
          BY <3>1 DEF AuthenticateFlush, storeVars
        <4> QED
          BY <3>1, <4>1 DEF Delivery, SeqOfRowAfter
      <3>2. CASE SendDeliver(s) /\ f = Delivery(task[s].msg, task[s].seq)
        <4>1. task[s].at = "route" /\ f.msg = task[s].msg /\ f.seq = task[s].seq
          BY <3>2 DEF SendDeliver, Delivery
        <4> QED
          BY <1>1, <4>1
      <3>3. CASE HandlePubSubDelivery(s)
                   /\ f = Delivery(Next_event(s).msg, Next_event(s).seq)
        <4>1. events[s] \in Seq(Event) /\ events[s] # <<>>
          BY <3>3 DEF HandlePubSubDelivery, Handling, TypeOK
        <4>2. Next_event(s) \in ToSet(events[s])
          BY <4>1, ToSetOfTail DEF Next_event
        <4>3. /\ Next_event(s).type = "pubsub"
              /\ f.msg = Next_event(s).msg /\ f.seq = Next_event(s).seq
          BY <3>3 DEF HandlePubSubDelivery, Handling, Delivery
        <4> QED
          BY <1>3, <4>2, <4>3
      <3> QED
        BY <1>7, <2>2, <3>1, <3>2, <3>3 DEF NewFrame, Ack, Typing
    <2> QED
      BY <2>1, <2>2, FrameOrigin
  <1> QED
    BY <1>4, <1>5, <1>6, <1>7

(* Whatever is routed, published, queued or sent carries the number of its *)
(* row, or 0: over retries, lost answers, crashes and several servers.     *)
THEOREM CarriedSeqIsRight == Spec => []CarriedSeqIsTheRows
  <1>1. Init => CarriedSeqIsTheRows
    BY ToSetOfEmpty DEF Init, CarriedSeqIsTheRows, Idle
  <1>2. TypeOK /\ CarriedSeqIsTheRows /\ [Next]_vars => CarriedSeqIsTheRows'
    BY NextCarriedSeq
  <1> QED
    BY <1>1, <1>2, TypeCorrect, PTL DEF Spec

-----------------------------------------------------------------------------
(* Whose connection is whose                                               *)

(* A connection id not handed out yet has left no trace.                   *)
FreshIds(s) ==
    /\ \A c \in ConnIds : next_id[s] <= c =>
           connection_to_mailbox[s][c] = NoMailbox /\ ToSet(out[s][c]) = {}
    /\ \A e \in ToSet(events[s]) : e.type = "authenticate" => e.conn < next_id[s]
    /\ task[s].at = "register" => task[s].conn < next_id[s]

(* The rows read for an authentication are of its mailbox.                 *)
RowsAreOfMailbox(s) ==
    task[s].at = "register" =>
        \A i \in 1 .. Len(task[s].rows) : To[task[s].rows[i]] = task[s].mailbox

(* All that the server knows of the connection of k is about k's mailbox.  *)
OwnedBy(s, c, k) ==
    /\ c < next_id[s]
    /\ connection_to_mailbox[s][c] \in {NoMailbox, MailboxOf[k]}
    /\ \A e \in ToSet(events[s]) :
           e.type = "authenticate" /\ e.conn = c => e.mailbox \in {NoMailbox, MailboxOf[k]}
    /\ task[s].at = "register" /\ task[s].conn = c => task[s].mailbox = MailboxOf[k]
    /\ \A f \in ToSet(out[s][c]) : ForMailbox(f, MailboxOf[k])

Owned(s) ==
    /\ FreshIds(s)
    /\ RowsAreOfMailbox(s)
    /\ \A k \in Clients : \A c \in ConnIds :
           sock[k] = <<s, c>> =>
               OwnedBy(s, c, k) /\ \A j \in Clients : sock[j] = <<s, c>> => j = k

Ownership == \A s \in Servers : Owned(s)

(* A connection gets an owner from an authenticate command only.           *)
LEMMA OwnerOrigin ==
    ASSUME TypeOK, [Next]_vars, NEW s \in Servers, NEW c \in ConnIds
    PROVE  \/ connection_to_mailbox'[s][c] = connection_to_mailbox[s][c]
           \/ connection_to_mailbox'[s][c] = NoMailbox
           \/ /\ AuthenticateFetch(s)
              /\ c = Next_event(s).conn
              /\ connection_to_mailbox'[s][c] = Next_event(s).mailbox
  <1> DEFINE Goal == \/ connection_to_mailbox'[s][c] = connection_to_mailbox[s][c]
                     \/ connection_to_mailbox'[s][c] = NoMailbox
                     \/ /\ AuthenticateFetch(s)
                        /\ c = Next_event(s).conn
                        /\ connection_to_mailbox'[s][c] = Next_event(s).mailbox
  <1> USE DEF localVars
  <1>1. ASSUME UNCHANGED connection_to_mailbox PROVE Goal
    BY <1>1
  <1>2. ASSUME NEW k \in Clients, ClientStep(k) PROVE Goal
    BY <1>1, <1>2
    DEF ClientStep, ClientOpen, ClientAuthenticate, ClientSend, ClientTyping,
        OnDelivery, OnAck, OnTyping, ClientDrop
  <1>3. ASSUME NEW r \in Servers, NEW C, DisconnectClients(r, C) PROVE Goal
    BY <1>3 DEF TypeOK, DisconnectClients
  <1>4. ASSUME NEW r \in Servers, AuthenticateFetch(r) PROVE Goal
    <2>1. Next_event(r).conn \in ConnIds
      BY <1>4, EventsType DEF AuthenticateFetch, Handling, Event
    <2>2. connection_to_mailbox' =
             [connection_to_mailbox EXCEPT ![r][Next_event(r).conn] = Next_event(r).mailbox]
      BY <1>4 DEF AuthenticateFetch
    <2> QED
      BY <1>4, <2>1, <2>2 DEF TypeOK
  <1>5. ASSUME NEW r \in Servers, RouterStep(r) PROVE Goal
    BY <1>1, <1>3, <1>4, <1>5
    DEF RouterStep, HandleConnected, HandleIgnored, HandleRefused,
        AuthenticateFlush, SendInsert, SendLookup, SendDeliver, SendPublish,
        HandleTyping, HandleDisconnected, HandlePubSubDelivery, SendOrDisconnect
  <1>6. ASSUME NEW r \in Servers, ServerStep(r) PROVE Goal
    BY <1>1, <1>3, <1>5, <1>6
    DEF ServerStep, ReaderEnd, WriterEnd, Subscribe, SubscriberForward, Crash
  <1>7. ASSUME NEW mb \in Mailboxes, Expire(mb) PROVE Goal
    BY <1>1, <1>7 DEF Expire
  <1>8. CASE UNCHANGED vars
    BY <1>1, <1>8 DEF vars
  <1> QED
    BY <1>2, <1>6, <1>7, <1>8 DEF Next

(* Sockets of s: opened by a client, gone with the process, or as before.  *)
LEMMA SocketOrigin ==
    ASSUME TypeOK, [Next]_vars, NEW s \in Servers
    PROVE  \/ \E k \in Clients : ClientOpen(k, s)
           \/ Crash(s)
           \/ /\ next_id'[s] = next_id[s]
              /\ \A k \in Clients : \A c \in ConnIds :
                     sock'[k] = <<s, c>> => sock[k] = <<s, c>>
  <1> DEFINE Same == /\ next_id'[s] = next_id[s]
                     /\ \A k \in Clients : \A c \in ConnIds :
                            sock'[k] = <<s, c>> => sock[k] = <<s, c>>
             Goal == (\E k \in Clients : ClientOpen(k, s)) \/ Crash(s) \/ Same
  <1> USE DEF clientVars, socketVars
  <1>0. \A c \in ConnIds : <<s, c>> # NoSocket
    BY ConstantsAssumption
  <1>1. ASSUME UNCHANGED <<next_id, sock>> PROVE Goal
    BY <1>1
  <1>2. ASSUME NEW k \in Clients, ClientStep(k) PROVE Goal
    <2>1. ASSUME NEW r \in Servers, ClientOpen(k, r), r # s PROVE Same
      BY <2>1, ConstantsAssumption DEF TypeOK, ClientOpen
    <2>2. ASSUME ClientDrop(k) PROVE Same
      <3>1. next_id' = next_id /\ sock' = [sock EXCEPT ![k] = NoSocket]
        BY <2>2 DEF ClientDrop
      <3> QED
        BY <1>0, <3>1 DEF TypeOK
    <2>3. ASSUME NEW r \in Servers, ClientOpen(k, r) PROVE Goal
      BY <2>1, <2>3
    <2> QED
      BY <1>1, <1>2, <2>2, <2>3
      DEF ClientStep, ClientAuthenticate, ClientSend, ClientTyping,
          OnDelivery, OnAck, OnTyping
  <1>3. ASSUME NEW r \in Servers, Crash(r), r # s PROVE Same
    <2>1. next_id'[s] = next_id[s]
      BY <1>3 DEF TypeOK, Crash
    <2>2. \A k \in Clients : sock'[k] = NoSocket \/ sock'[k] = sock[k]
      BY <1>3 DEF Crash
    <2> QED
      BY <1>0, <2>1, <2>2
  <1>4. ASSUME NEW r \in Servers, RouterStep(r) PROVE Goal
    BY <1>1, <1>4
    DEF RouterStep, HandleConnected, HandleIgnored, HandleRefused,
        AuthenticateFetch, AuthenticateFlush, SendInsert, SendLookup, SendDeliver,
        SendPublish, HandleTyping, HandleDisconnected, HandlePubSubDelivery
  <1>5. ASSUME NEW r \in Servers, ServerStep(r) PROVE Goal
    BY <1>1, <1>3, <1>4, <1>5
    DEF ServerStep, ReaderEnd, WriterEnd, Subscribe, SubscriberForward
  <1>6. ASSUME NEW mb \in Mailboxes, Expire(mb) PROVE Goal
    BY <1>1, <1>6 DEF Expire
  <1>7. CASE UNCHANGED vars
    BY <1>1, <1>7 DEF vars
  <1> QED
    BY <1>2, <1>5, <1>6, <1>7 DEF Next

(* What the handler of authenticate takes on from its event.               *)
LEMMA FetchFacts ==
    ASSUME TypeOK, NEW s \in Servers, AuthenticateFetch(s)
    PROVE  LET e == Next_event(s) IN
           /\ e \in ToSet(events[s])
           /\ e.type = "authenticate"
           /\ e.conn \in ConnIds
           /\ e.mailbox \in Mailboxes /\ e.mailbox # NoMailbox
           /\ task'[s].at = "register"
           /\ task'[s].conn = e.conn
           /\ task'[s].mailbox = e.mailbox
           /\ \A i \in 1 .. Len(task'[s].rows) : To[task'[s].rows[i]] = e.mailbox
  <1> DEFINE e == Next_event(s)
  <1>1. events[s] \in Seq(Event) /\ events[s] # <<>> /\ e.type = "authenticate"
    BY DEF TypeOK, AuthenticateFetch, Handling
  <1>2. e \in ToSet(events[s])
    BY <1>1, ToSetOfTail DEF Next_event
  <1>3. e.conn \in ConnIds /\ e.mailbox \in Mailboxes /\ e.mailbox # NoMailbox
    BY <1>1, EventsType DEF AuthenticateFetch, Event
  <1>4. PICK r \in OrderedBySeq(RowsAfter(e.mailbox, e.last_seq)) :
           task' = [task EXCEPT ![s] = [at |-> "register", conn |-> e.conn,
                                        mailbox |-> e.mailbox, rows |-> r]]
    BY DEF AuthenticateFetch
  <1>5. task'[s] = [at |-> "register", conn |-> e.conn,
                    mailbox |-> e.mailbox, rows |-> r]
    BY <1>4 DEF TypeOK
  <1>6. \A i \in 1 .. Len(r) : To[r[i]] = e.mailbox
    BY OrderedRows
  <1> QED
    BY <1>1, <1>2, <1>3, <1>5, <1>6

(* The parts of Ownership that do not look at sockets.                     *)
LEMMA RegisterOrigin ==
    ASSUME TypeOK, [Next]_vars, NEW s \in Servers, task'[s].at = "register"
    PROVE  task'[s] = task[s] \/ AuthenticateFetch(s)
  <1>1. SendInsert(s) => task'[s].at = "lookup"
    BY DEF SendInsert, TypeOK
  <1>2. SendLookup(s) => task'[s].at \in {"idle", "route"}
    BY DEF SendLookup, TypeOK, Idle
  <1>3. \A t, r : RoutedTo(t, r).at \in {"idle", "route"}
    BY DEF RoutedTo, Idle
  <1>4. SendDeliver(s) => task'[s].at \in {"idle", "route"}
    <2>1. SendDeliver(s) => task'[s] = RoutedTo(task[s], s)
      BY DEF SendDeliver, TypeOK
    <2> QED
      BY <1>3, <2>1
  <1>5. \A r \in Servers : SendPublish(s, r) => task'[s].at \in {"idle", "route"}
    <2>1. \A r \in Servers : SendPublish(s, r) => task'[s] = RoutedTo(task[s], r)
      BY DEF SendPublish, TypeOK
    <2> QED
      BY <1>3, <2>1
  <1> QED
    BY <1>1, <1>2, <1>4, <1>5, TaskOrigin DEF Idle

(* Steps other than accepting a socket leave the ids that are not handed   *)
(* out unused, and the backlog of a handler in its mailbox.                *)
LEMMA NextFresh ==
    ASSUME TypeOK, [Next]_vars, NEW s \in Servers, Owned(s),
           next_id'[s] = next_id[s]
    PROVE  FreshIds(s)' /\ RowsAreOfMailbox(s)'
  <1>1. ASSUME NEW c \in ConnIds, next_id[s] <= c
        PROVE  connection_to_mailbox'[s][c] = NoMailbox /\ ToSet(out'[s][c]) = {}
    <2> next_id[s] \in Int /\ c \in Int /\ ~(c < next_id[s])
      BY <1>1, ConstantsAssumption DEF TypeOK, ConnIds
    <2>1. ASSUME AuthenticateFetch(s) PROVE c # Next_event(s).conn
      <3>1. Next_event(s).conn < next_id[s]
        BY <2>1, FetchFacts DEF Owned, FreshIds
      <3> QED
        BY <3>1
    <2>2. connection_to_mailbox[s][c] = NoMailbox /\ ToSet(out[s][c]) = {}
      BY <1>1 DEF Owned, FreshIds
    <2>3. ~PeerAlive(s, c)
      BY DEF Owned, OwnedBy, PeerAlive
    <2> QED
      BY <2>1, <2>2, <2>3, OwnerOrigin, FrameOrigin DEF NewFrame
  <1>2. ASSUME NEW e \in ToSet(events'[s]), e.type = "authenticate"
        PROVE  e.conn < next_id[s]
    <2>1. CASE e \in ToSet(events[s])
      BY <1>2, <2>1 DEF Owned, FreshIds
    <2>2. CASE NewEvent(s, e)
      <3>1. PICK k \in Clients : /\ k \in opening
                                 /\ sock[k][1] = s
                                 /\ e.conn = sock[k][2]
        BY <1>2, <2>2 DEF NewEvent, ClientAuthenticate
      <3>2. sock[k] = <<s, e.conn>> /\ e.conn \in ConnIds
        BY <3>1 DEF TypeOK
      <3> QED
        BY <3>2 DEF Owned, OwnedBy
    <2> QED
      BY <2>1, <2>2, EventOrigin
  <1>3. ASSUME task'[s].at = "register"
        PROVE  /\ task'[s].conn < next_id[s]
               /\ \A i \in 1 .. Len(task'[s].rows) :
                      To[task'[s].rows[i]] = task'[s].mailbox
    <2>1. CASE task'[s] = task[s]
      BY <1>3, <2>1 DEF Owned, FreshIds, RowsAreOfMailbox
    <2>2. CASE AuthenticateFetch(s)
      BY <2>2, FetchFacts DEF Owned, FreshIds
    <2> QED
      BY <1>3, <2>1, <2>2, RegisterOrigin
  <1> QED
    BY <1>1, <1>2, <1>3 DEF FreshIds, RowsAreOfMailbox

(* A connection that stays its client's keeps only what is its client's.   *)
LEMMA NextOwnedBy ==
    ASSUME TypeOK, LocalTablesAgree, [Next]_vars, NEW s \in Servers, Owned(s),
           next_id'[s] = next_id[s],
           NEW k \in Clients, NEW c \in ConnIds, sock[k] = <<s, c>>
    PROVE  OwnedBy(s, c, k)'
  <1> DEFINE mb == MailboxOf[k]
  <1>1. OwnedBy(s, c, k) /\ \A j \in Clients : sock[j] = <<s, c>> => j = k
    BY DEF Owned
  <1>2. mb \in Mailboxes /\ mb # NoMailbox
    BY ConstantsAssumption
  <1>3. connection_to_mailbox'[s][c] \in {NoMailbox, mb}
    <2>1. ASSUME AuthenticateFetch(s), c = Next_event(s).conn
          PROVE  Next_event(s).mailbox \in {NoMailbox, mb}
      BY <1>1, <2>1, FetchFacts DEF OwnedBy
    <2> QED
      BY <1>1, <2>1, OwnerOrigin DEF OwnedBy
  <1>4. ASSUME NEW e \in ToSet(events'[s]), e.type = "authenticate", e.conn = c
        PROVE  e.mailbox \in {NoMailbox, mb}
    <2>1. CASE e \in ToSet(events[s])
      BY <1>1, <1>4, <2>1 DEF OwnedBy
    <2>2. CASE NewEvent(s, e)
      <3>1. PICK j \in Clients : /\ j \in opening
                                 /\ sock[j][1] = s
                                 /\ e.conn = sock[j][2]
                                 /\ e.mailbox \in {NoMailbox, MailboxOf[j]}
        BY <1>4, <2>2 DEF NewEvent, ClientAuthenticate
      <3>2. sock[j] = <<s, c>>
        BY <1>4, <3>1 DEF TypeOK
      <3> QED
        BY <1>1, <3>1, <3>2
    <2> QED
      BY <2>1, <2>2, EventOrigin
  <1>5. ASSUME task'[s].at = "register", task'[s].conn = c
        PROVE  task'[s].mailbox = mb
    <2>1. CASE task'[s] = task[s]
      BY <1>1, <1>5, <2>1 DEF OwnedBy
    <2>2. CASE AuthenticateFetch(s)
      BY <1>1, <1>5, <2>2, FetchFacts DEF OwnedBy
    <2> QED
      BY <1>5, <2>1, <2>2, RegisterOrigin
  <1>6. ASSUME NEW b \in Mailboxes, c \in Recipients(s, b) PROVE b = mb
    <2>1. connection_to_mailbox[s][c] = b
      BY <1>6 DEF Recipients, LocalTablesAgree
    <2> QED
      BY <1>1, <2>1, ConstantsAssumption DEF OwnedBy
  <1>7. ASSUME NEW f \in ToSet(out'[s][c]) PROVE ForMailbox(f, mb)
    <2>1. CASE f \in ToSet(out[s][c])
      BY <1>1, <2>1 DEF OwnedBy
    <2>2. CASE NewFrame(s, c, f)
      <3>1. CASE AuthenticateFlush(s) /\ c = task[s].conn
                 /\ \E i \in 1 .. Len(task[s].rows) :
                        f = Delivery(task[s].rows[i], seq[task[s].rows[i]])
        <4>1. task[s].at = "register" /\ task[s].mailbox = mb
          BY <1>1, <3>1 DEF AuthenticateFlush, OwnedBy
        <4>2. \A i \in 1 .. Len(task[s].rows) : To[task[s].rows[i]] = mb
          BY <4>1 DEF Owned, RowsAreOfMailbox
        <4> QED
          BY <3>1, <4>2 DEF Delivery, ForMailbox
      <3>2. CASE SendDeliver(s) /\ c \in Recipients(s, To[task[s].msg])
                 /\ f = Delivery(task[s].msg, task[s].seq)
        <4>1. task[s].msg \in Messages
          BY <3>2 DEF SendDeliver, TypeOK, Task
        <4>2. To[task[s].msg] = mb
          BY <1>6, <3>2, <4>1, ConstantsAssumption
        <4> QED
          BY <3>2, <4>2 DEF Delivery, ForMailbox
      <3>3. CASE HandlePubSubDelivery(s) /\ c \in Recipients(s, To[Next_event(s).msg])
                 /\ f = Delivery(Next_event(s).msg, Next_event(s).seq)
        <4>1. Next_event(s).msg \in Messages
          BY <3>3, EventsType DEF HandlePubSubDelivery, Handling, Event
        <4>2. To[Next_event(s).msg] = mb
          BY <1>6, <3>3, <4>1, ConstantsAssumption
        <4> QED
          BY <3>3, <4>2 DEF Delivery, ForMailbox
      <3>4. CASE HandleTyping(s) /\ c \in Recipients(s, Next_event(s).mailbox)
                 /\ f = Typing(Next_event(s).mailbox)
        <4>1. Next_event(s).mailbox \in Mailboxes
          BY <3>4, EventsType DEF HandleTyping, Handling, Event
        <4>2. Next_event(s).mailbox = mb
          BY <1>6, <3>4, <4>1
        <4> QED
          BY <3>4, <4>2 DEF Typing, ForMailbox
      <3>5. CASE f = Ack(Next_event(s).msg)
        BY <3>5 DEF Ack, ForMailbox
      <3> QED
        BY <2>2, <3>1, <3>2, <3>3, <3>4, <3>5 DEF NewFrame
    <2> QED
      BY <2>1, <2>2, FrameOrigin
  <1>8. c < next_id'[s]
    BY <1>1 DEF OwnedBy
  <1> QED
    BY <1>3, <1>4, <1>5, <1>7, <1>8 DEF OwnedBy, ForMailbox

(* A new socket's id was nowhere before, so nothing stale is there for it. *)
LEMMA OpenOwned ==
    ASSUME TypeOK, [Next]_vars, NEW s \in Servers, Owned(s),
           NEW k0 \in Clients, ClientOpen(k0, s)
    PROVE  Owned(s)'
  <1> DEFINE c0 == next_id[s]
  <1> USE DEF localVars
  <1>1. /\ c0 \in ConnIds /\ c0 \in Int
        /\ next_id'[s] = c0 + 1
        /\ sock[k0] = NoSocket
        /\ sock' = [sock EXCEPT ![k0] = <<s, c0>>]
        /\ UNCHANGED <<out, connection_to_mailbox, task>>
    BY ConstantsAssumption DEF TypeOK, ClientOpen, ConnIds
  <1>2. \A c \in ConnIds : c \in Int
    BY DEF ConnIds
  <1>3. ASSUME NEW e \in ToSet(events'[s]), e.type = "authenticate"
        PROVE  e \in ToSet(events[s]) /\ e.conn \in Int /\ e.conn < c0
    <2>1. Enqueue(s, [type |-> "connected", conn |-> c0])
      BY DEF ClientOpen
    <2>2. e \in ToSet(events[s]) \/ e = [type |-> "connected", conn |-> c0]
      BY <2>1, QueueElements
    <2>3. e \in ToSet(events[s])
      BY <1>3, <2>2
    <2>4. e \in Event
      BY <2>3 DEF TypeOK, ToSet
    <2> QED
      BY <1>2, <1>3, <2>3, <2>4 DEF Event, Owned, FreshIds
  <1>4. task[s].at = "register" => task[s].conn \in Int /\ task[s].conn < c0
    BY <1>2 DEF Owned, FreshIds, TypeOK, Task
  <1>5. FreshIds(s)'
    <2>1. ASSUME NEW c \in ConnIds, c0 + 1 <= c
          PROVE  connection_to_mailbox'[s][c] = NoMailbox /\ ToSet(out'[s][c]) = {}
      <3>1. c0 <= c
        BY <1>1, <1>2, <2>1
      <3> QED
        BY <1>1, <3>1 DEF Owned, FreshIds
    <2> QED
      BY <1>1, <1>3, <1>4, <2>1 DEF FreshIds
  <1>6. RowsAreOfMailbox(s)'
    BY <1>1 DEF Owned, RowsAreOfMailbox
  <1>7. ASSUME NEW k \in Clients, NEW c \in ConnIds, sock'[k] = <<s, c>>
        PROVE  OwnedBy(s, c, k)' /\ \A j \in Clients : sock'[j] = <<s, c>> => j = k
    <2>1. CASE k = k0
      <3>1. c = c0
        BY <1>1, <1>7, <2>1 DEF TypeOK
      <3>2. connection_to_mailbox[s][c0] = NoMailbox /\ ToSet(out[s][c0]) = {}
        BY <1>1 DEF Owned, FreshIds
      <3>3. \A j \in Clients : sock[j] # <<s, c0>>
        BY <1>1 DEF Owned, OwnedBy
      <3>4. OwnedBy(s, c, k)'
        BY <1>1, <1>3, <1>4, <3>1, <3>2 DEF OwnedBy
      <3> QED
        BY <1>1, <2>1, <3>1, <3>3, <3>4 DEF TypeOK
    <2>2. CASE k # k0
      <3>1. sock[k] = <<s, c>>
        BY <1>1, <1>7, <2>2 DEF TypeOK
      <3>2. OwnedBy(s, c, k) /\ \A j \in Clients : sock[j] = <<s, c>> => j = k
        BY <3>1 DEF Owned
      <3>3. c < c0
        BY <3>2 DEF OwnedBy
      <3>4. c < c0 + 1 /\ c # c0
        BY <1>1, <1>2, <3>3
      <3>5. OwnedBy(s, c, k)'
        BY <1>1, <1>3, <3>2, <3>4 DEF OwnedBy, ForMailbox
      <3> QED
        BY <1>1, <3>2, <3>4, <3>5 DEF TypeOK
    <2> QED
      BY <2>1, <2>2
  <1> QED
    BY <1>5, <1>6, <1>7 DEF Owned

(* After a crash no socket leads to the server and its tables are empty.   *)
LEMMA CrashOwned ==
    ASSUME TypeOK, NEW s \in Servers, Crash(s)
    PROVE  Owned(s)'
  <1>1. /\ events'[s] = <<>>
        /\ task'[s] = Idle
        /\ \A c \in ConnIds : out'[s][c] = <<>> /\ connection_to_mailbox'[s][c] = NoMailbox
    BY DEF TypeOK, Crash, DisconnectClients
  <1>2. \A k \in Clients : \A c \in ConnIds : sock'[k] # <<s, c>>
    <2>1. \A c \in ConnIds : <<s, c>> # NoSocket
      BY ConstantsAssumption
    <2> SUFFICES ASSUME NEW k \in Clients, NEW d \in ConnIds
                 PROVE  sock'[k] # <<s, d>>
      OBVIOUS
    <2>2. sock'[k] = IF \E c \in ConnIds : sock[k] = <<s, c>> THEN NoSocket ELSE sock[k]
      BY DEF Crash
    <2> QED
      BY <2>1, <2>2
  <1> QED
    BY <1>1, <1>2, ToSetOfEmpty DEF Owned, FreshIds, RowsAreOfMailbox, Idle

(* Ownership is inductive, given that the local tables agree.              *)
LEMMA NextOwnership ==
    ASSUME TypeOK, LocalTablesAgree, Ownership, [Next]_vars
    PROVE  Ownership'
  <1> SUFFICES ASSUME NEW s \in Servers PROVE Owned(s)'
    BY DEF Ownership
  <1>1. Owned(s)
    BY DEF Ownership
  <1>2. ASSUME NEW k \in Clients, ClientOpen(k, s) PROVE Owned(s)'
    BY <1>1, <1>2, OpenOwned
  <1>3. CASE Crash(s)
    BY <1>3, CrashOwned
  <1>4. CASE /\ next_id'[s] = next_id[s]
             /\ \A k \in Clients : \A c \in ConnIds :
                    sock'[k] = <<s, c>> => sock[k] = <<s, c>>
    <2>1. ASSUME NEW k \in Clients, NEW c \in ConnIds, sock'[k] = <<s, c>>
          PROVE  OwnedBy(s, c, k)' /\ \A j \in Clients : sock'[j] = <<s, c>> => j = k
      <3>1. sock[k] = <<s, c>>
        BY <1>4, <2>1
      <3>2. OwnedBy(s, c, k)'
        BY <1>1, <1>4, <3>1, NextOwnedBy
      <3> QED
        BY <1>1, <1>4, <3>1, <3>2 DEF Owned
    <2>2. FreshIds(s)' /\ RowsAreOfMailbox(s)'
      BY <1>1, <1>4, NextFresh
    <2> QED
      BY <2>1, <2>2 DEF Owned
  <1> QED
    BY <1>2, <1>3, <1>4, SocketOrigin

(* In every state the owner of an open socket is its client's mailbox, or  *)
(* the authenticate that will say so is still queued.                      *)
LEMMA OwnershipInvariant == Spec => []Ownership
  <1>1. Init => Ownership
    BY ConstantsAssumption, ToSetOfEmpty
    DEF Init, Ownership, Owned, FreshIds, RowsAreOfMailbox, Idle
  <1>2. TypeOK /\ LocalTablesAgree /\ Ownership /\ [Next]_vars => Ownership'
    BY NextOwnership
  <1> QED
    BY <1>1, <1>2, TypeCorrect, TablesAgree, PTL DEF Spec

(* Nobody is ever sent a frame of another user's mailbox: not over a       *)
(* connection id used again after a restart, nor by a stale entry in       *)
(* Redis, nor from a backlog read for another connection.                  *)
THEOREM FramesStayInMailbox == Spec => []OnlyToItsMailbox
  <1>1. Ownership => OnlyToItsMailbox
    BY DEF Ownership, Owned, OwnedBy, OnlyToItsMailbox
  <1> QED
    BY <1>1, OwnershipInvariant, PTL

-----------------------------------------------------------------------------
(* The cursor                                                              *)

(* A cursor moves to the number of the frame taken, which is a row's of    *)
(* that client's own mailbox.                                              *)
LEMMA NextCursor ==
    ASSUME TypeOK, CarriedSeqIsTheRows, OnlyToItsMailbox, CursorIsARow, [Next]_vars
    PROVE  CursorIsARow'
  <1> SUFFICES ASSUME NEW k \in Clients, last_seq'[k] # 0
               PROVE  \E m \in Messages : To[m] = MailboxOf[k] /\ seq'[m] = last_seq'[k]
    BY DEF CursorIsARow
  <1>1. \A m \in Messages : seq[m] > 0 => seq'[m] = seq[m]
    BY NextNumbers DEF NumbersStep
  <1>2. CASE last_seq'[k] = last_seq[k]
    <2>1. PICK m \in Messages : To[m] = MailboxOf[k] /\ seq[m] = last_seq[k]
      BY <1>2 DEF CursorIsARow
    <2>2. seq[m] > 0
      BY <1>2, <2>1 DEF TypeOK
    <2> QED
      BY <1>1, <1>2, <2>1, <2>2
  <1>3. CASE last_seq'[k] # last_seq[k]
    <2> DEFINE f == NextFrame(k)
    <2>1. PICK j \in Clients : OnDelivery(j)
      BY <1>3, CursorOrigin
    <2>2. /\ j = k
          /\ last_seq'[k] = f.seq
      BY <1>3, <2>1 DEF TypeOK, OnDelivery, CursorAfter
    <2>3. /\ sock[k][1] \in Servers
          /\ sock[k][2] \in ConnIds
          /\ sock[k] = <<sock[k][1], sock[k][2]>>
          /\ f \in Frame
          /\ f \in ToSet(out[sock[k][1]][sock[k][2]])
          /\ f.type = "delivery"
      BY <2>1, <2>2, IncomingFrame DEF OnDelivery
    <2>4. f.msg \in Messages /\ f.seq \in Nat
      BY <2>3 DEF Frame
    <2>5. To[f.msg] = MailboxOf[k]
      BY <2>3 DEF OnlyToItsMailbox, ForMailbox
    <2>6. SeqOfRow(f.msg, f.seq)
      BY <2>3 DEF CarriedSeqIsTheRows
    <2>7. seq[f.msg] = f.seq /\ f.seq > 0
      BY <2>2, <2>4, <2>6 DEF SeqOfRow
    <2> QED
      BY <1>1, <2>2, <2>4, <2>5, <2>7
  <1> QED
    BY <1>2, <1>3

(* A device's cursor is always the number of a row of its own mailbox: no  *)
(* frame, retried or late, from whichever server, puts it ahead of the     *)
(* numbers given out, so no later message can hide behind it.              *)
THEOREM CursorsAreRows == Spec => []CursorIsARow
  <1>1. Init => CursorIsARow
    BY DEF Init, CursorIsARow
  <1>2. /\ TypeOK /\ CarriedSeqIsTheRows /\ OnlyToItsMailbox
        /\ CursorIsARow /\ [Next]_vars
        => CursorIsARow'
    BY NextCursor
  <1> QED
    BY <1>1, <1>2, TypeCorrect, CarriedSeqIsRight, FramesStayInMailbox, PTL DEF Spec

-----------------------------------------------------------------------------
(* Sockets that stay open                                                  *)

(* The handler has read the backlog of connection c and not flushed it.    *)
Registering(s, c) == task[s].at = "register" /\ task[s].conn = c

(* Ids of readers and of their last events have been handed out.           *)
KnownIds(s) ==
    /\ \A c \in reader[s] : c < next_id[s]
    /\ \A e \in ToSet(events[s]) : e.type = "disconnected" => e.conn < next_id[s]

(* An open socket has its writer, and its end is not in the channel.       *)
LiveKept(s) ==
    \A k \in Clients : \A c \in ConnIds : sock[k] = <<s, c>> =>
        /\ c \in writer[s]
        /\ \A e \in ToSet(events[s]) : e.type = "disconnected" => e.conn # c

(* The connection being registered has its mailbox already.                *)
RegisteringOwns(s) ==
    task[s].at = "register" =>
        connection_to_mailbox[s][task[s].conn] = task[s].mailbox

LiveInv == \A s \in Servers : KnownIds(s) /\ LiveKept(s) /\ RegisteringOwns(s)

(* An open socket was open before, or its client opens it.                 *)
LEMMA LiveOrigin ==
    ASSUME TypeOK, [Next]_vars, NEW s \in Servers, NEW k \in Clients,
           NEW c \in ConnIds, sock'[k] = <<s, c>>
    PROVE  /\ ~Crash(s)
           /\ \/ sock[k] = <<s, c>>
              \/ ClientOpen(k, s) /\ c = next_id[s]
<1>0. <<s, c>> # NoSocket
  BY ConstantsAssumption
<1>1. ASSUME Crash(s) PROVE FALSE
  <2>1. sock'[k] = IF \E d \in ConnIds : sock[k] = <<s, d>> THEN NoSocket ELSE sock[k]
    BY <1>1 DEF Crash
  <2>2. QED
    BY <1>0, <2>1
<1>2. ASSUME NEW j \in Clients, ClientOpen(j, s)
      PROVE  \/ sock[k] = <<s, c>>
             \/ ClientOpen(k, s) /\ c = next_id[s]
  <2>1. sock' = [sock EXCEPT ![j] = <<s, next_id[s]>>]
    BY <1>2 DEF ClientOpen
  <2>2. sock'[k] = IF k = j THEN <<s, next_id[s]>> ELSE sock[k]
    BY <2>1 DEF TypeOK
  <2>3. CASE k = j
    BY <1>2, <2>2, <2>3
  <2>4. CASE k # j
    BY <2>2, <2>4
  <2>5. QED
    BY <2>3, <2>4
<1>3. QED
  BY <1>1, <1>2, SocketOrigin

(* A reader is there from the opening of its socket on.                    *)
LEMMA ReaderOrigin ==
    ASSUME TypeOK, [Next]_vars, NEW s \in Servers, NEW c \in reader'[s]
    PROVE  \/ c \in reader[s] /\ ~Crash(s)
           \/ c = next_id[s] /\ \E k \in Clients : ClientOpen(k, s)
<1> DEFINE Goal == \/ c \in reader[s] /\ ~Crash(s)
                   \/ c = next_id[s] /\ \E k \in Clients : ClientOpen(k, s)
<1> USE DEF socketVars
<1>0. ~Crash(s)
  BY DEF Crash, TypeOK
<1>1. ASSUME UNCHANGED reader PROVE Goal
  BY <1>0, <1>1
<1>2. ASSUME NEW k \in Clients, ClientStep(k) PROVE Goal
  <2>1. ASSUME NEW r \in Servers, ClientOpen(k, r) PROVE Goal
    <3>1. reader' = [reader EXCEPT ![r] = @ \cup {next_id[r]}]
      BY <2>1 DEF ClientOpen
    <3>2. reader'[s] = IF s = r THEN reader[s] \cup {next_id[s]} ELSE reader[s]
      BY <3>1 DEF TypeOK
    <3>3. QED
      BY <1>0, <2>1, <3>2
  <2>2. QED
    BY <1>1, <1>2, <2>1
    DEF ClientStep, ClientAuthenticate, ClientSend, ClientTyping,
        OnDelivery, OnAck, OnTyping, ClientDrop
<1>3. ASSUME NEW r \in Servers, RouterStep(r) PROVE Goal
  BY <1>1, <1>3
  DEF RouterStep, HandleConnected, HandleIgnored, HandleRefused,
      AuthenticateFetch, AuthenticateFlush, SendInsert, SendLookup, SendDeliver,
      SendPublish, HandleTyping, HandleDisconnected, HandlePubSubDelivery
<1>4. ASSUME NEW r \in Servers, ServerStep(r) PROVE Goal
  <2>1. ASSUME NEW d \in ConnIds, ReaderEnd(r, d) PROVE Goal
    BY <1>0, <2>1 DEF ReaderEnd, TypeOK
  <2>2. ASSUME Crash(r) PROVE Goal
    BY <1>0, <2>2 DEF Crash, TypeOK
  <2>3. QED
    BY <1>1, <1>3, <1>4, <2>1, <2>2
    DEF ServerStep, WriterEnd, Subscribe, SubscriberForward
<1>5. ASSUME NEW mb \in Mailboxes, Expire(mb) PROVE Goal
  BY <1>1, <1>5 DEF Expire
<1>6. CASE UNCHANGED vars
  BY <1>1, <1>6 DEF vars
<1>7. QED
  BY <1>2, <1>4, <1>5, <1>6 DEF Next

(* A writer ends only when its client is gone.                             *)
LEMMA WriterStays ==
    ASSUME TypeOK, [Next]_vars, NEW s \in Servers, NEW c \in ConnIds,
           c \in writer[s], PeerAlive(s, c), ~Crash(s)
    PROVE  c \in writer'[s]
<1> DEFINE Goal == c \in writer'[s]
<1> USE DEF socketVars
<1>1. ASSUME UNCHANGED writer PROVE Goal
  BY <1>1
<1>2. ASSUME NEW k \in Clients, ClientStep(k) PROVE Goal
  <2>1. ASSUME NEW r \in Servers, ClientOpen(k, r) PROVE Goal
    BY <2>1 DEF ClientOpen, TypeOK
  <2>2. QED
    BY <1>1, <1>2, <2>1
    DEF ClientStep, ClientAuthenticate, ClientSend, ClientTyping,
        OnDelivery, OnAck, OnTyping, ClientDrop
<1>3. ASSUME NEW r \in Servers, RouterStep(r) PROVE Goal
  BY <1>1, <1>3
  DEF RouterStep, HandleConnected, HandleIgnored, HandleRefused,
      AuthenticateFetch, AuthenticateFlush, SendInsert, SendLookup, SendDeliver,
      SendPublish, HandleTyping, HandleDisconnected, HandlePubSubDelivery
<1>4. ASSUME NEW r \in Servers, ServerStep(r) PROVE Goal
  <2>1. ASSUME NEW d \in ConnIds, WriterEnd(r, d) PROVE Goal
    <3>1. ~(r = s /\ d = c)
      BY <2>1 DEF WriterEnd
    <3>2. writer' = [writer EXCEPT ![r] = @ \ {d}]
      BY <2>1 DEF WriterEnd
    <3>3. QED
      BY <3>1, <3>2 DEF TypeOK
  <2>2. ASSUME Crash(r) PROVE Goal
    <3>1. r # s /\ writer' = [writer EXCEPT ![r] = {}]
      BY <2>2 DEF Crash
    <3>2. QED
      BY <3>1 DEF TypeOK
  <2>3. QED
    BY <1>1, <1>3, <1>4, <2>1, <2>2
    DEF ServerStep, ReaderEnd, Subscribe, SubscriberForward
<1>5. ASSUME NEW mb \in Mailboxes, Expire(mb) PROVE Goal
  BY <1>1, <1>5 DEF Expire
<1>6. CASE UNCHANGED vars
  BY <1>1, <1>6 DEF vars
<1>7. QED
  BY <1>2, <1>4, <1>5, <1>6 DEF Next

(* Ids grow but for a crash, which empties the channel and the readers.    *)
LEMMA IdsGrow ==
    ASSUME TypeOK, [Next]_vars, NEW s \in Servers
    PROVE  \/ Crash(s) /\ ToSet(events'[s]) = {}
           \/ next_id[s] <= next_id'[s]
<1>1. ASSUME Crash(s) PROVE ToSet(events'[s]) = {}
  <2>1. events'[s] = <<>>
    BY <1>1 DEF Crash, TypeOK
  <2>2. QED
    BY <2>1, ToSetOfEmpty
<1>2. ASSUME NEW k \in Clients, ClientOpen(k, s) PROVE next_id[s] <= next_id'[s]
  BY <1>2, ConstantsAssumption DEF ClientOpen, TypeOK, ConnIds
<1>3. next_id'[s] = next_id[s] => next_id[s] <= next_id'[s]
  BY ConstantsAssumption DEF TypeOK
<1>4. QED
  BY <1>1, <1>2, <1>3, SocketOrigin

(* While a handler waits to register a connection nobody changes owners.   *)
LEMMA OwnersWait ==
    ASSUME TypeOK, [Next]_vars, NEW s \in Servers, task[s].at = "register",
           task'[s] = task[s]
    PROVE  connection_to_mailbox'[s] = connection_to_mailbox[s]
<1> DEFINE Goal == connection_to_mailbox'[s] = connection_to_mailbox[s]
<1> USE DEF localVars
<1>0. task[s] # Idle
  BY DEF Idle
<1>1. ASSUME UNCHANGED connection_to_mailbox PROVE Goal
  BY <1>1
<1>2. ASSUME NEW k \in Clients, ClientStep(k) PROVE Goal
  BY <1>1, <1>2
  DEF ClientStep, ClientOpen, ClientAuthenticate, ClientSend, ClientTyping,
      OnDelivery, OnAck, OnTyping, ClientDrop
<1>3. ASSUME NEW r \in Servers, r # s, NEW C, DisconnectClients(r, C) PROVE Goal
  BY <1>3 DEF TypeOK, DisconnectClients
<1>4. ASSUME NEW r \in Servers, r # s, AuthenticateFetch(r) PROVE Goal
  BY <1>4 DEF TypeOK, AuthenticateFetch
<1>5. ASSUME RouterStep(s) PROVE Goal
  <2>1. ~AuthenticateFlush(s)
    <3>1. AuthenticateFlush(s) => task'[s] = Idle
      BY DEF AuthenticateFlush, TypeOK
    <3>2. QED
      BY <1>0, <3>1
  <2>2. ~HandleConnected(s) /\ ~HandleIgnored(s) /\ ~HandleRefused(s)
        /\ ~AuthenticateFetch(s) /\ ~SendInsert(s) /\ ~HandleTyping(s)
        /\ ~HandleDisconnected(s) /\ ~HandlePubSubDelivery(s)
    BY <1>0 DEF HandleConnected, HandleIgnored, HandleRefused, AuthenticateFetch,
         SendInsert, HandleTyping, HandleDisconnected, HandlePubSubDelivery, Handling
  <2>3. ~SendLookup(s) /\ ~SendDeliver(s) /\ \A r \in Servers : ~SendPublish(s, r)
    BY DEF SendLookup, SendDeliver, SendPublish
  <2>4. QED
    BY <1>5, <2>1, <2>2, <2>3 DEF RouterStep
<1>6. ASSUME NEW r \in Servers, RouterStep(r), r # s PROVE Goal
  BY <1>1, <1>3, <1>4, <1>6
  DEF RouterStep, HandleConnected, HandleIgnored, HandleRefused,
      AuthenticateFlush, SendInsert, SendLookup, SendDeliver, SendPublish,
      HandleTyping, HandleDisconnected, HandlePubSubDelivery, SendOrDisconnect
<1>7. ASSUME NEW r \in Servers, ServerStep(r) PROVE Goal
  <2>1. ASSUME Crash(r) PROVE Goal
    <3>1. r # s
      BY <1>0, <2>1 DEF Crash, TypeOK
    <3>2. QED
      BY <1>3, <2>1, <3>1 DEF Crash
  <2>2. QED
    BY <1>1, <1>5, <1>6, <1>7, <2>1
    DEF ServerStep, ReaderEnd, WriterEnd, Subscribe, SubscriberForward
<1>8. ASSUME NEW mb \in Mailboxes, Expire(mb) PROVE Goal
  BY <1>1, <1>8 DEF Expire
<1>9. CASE UNCHANGED vars
  BY <1>1, <1>9 DEF vars
<1>10. QED
  BY <1>2, <1>7, <1>8, <1>9 DEF Next

(* Sockets stay known as long as they are open.                            *)
LEMMA NextLive ==
    ASSUME TypeOK, LiveInv, [Next]_vars
    PROVE  LiveInv'
<1> SUFFICES ASSUME NEW s \in Servers
             PROVE  KnownIds(s)' /\ LiveKept(s)' /\ RegisteringOwns(s)'
  BY DEF LiveInv
<1>0. KnownIds(s) /\ LiveKept(s) /\ RegisteringOwns(s)
  BY DEF LiveInv
<1>1. /\ next_id[s] \in Int /\ next_id'[s] \in Int
      /\ \A c \in ConnIds : c \in Int
  <2>1. TypeOK'
    BY NextType
  <2>2. next_id[s] \in 0 .. MaxConn /\ next_id'[s] \in 0 .. MaxConn
    BY <2>1 DEF TypeOK
  <2>3. QED
    BY <2>2, ConstantsAssumption DEF ConnIds
<1>2. ASSUME NEW k \in Clients, ClientOpen(k, s)
      PROVE  /\ next_id'[s] = next_id[s] + 1
             /\ next_id[s] \in writer'[s]
             /\ \A e \in ToSet(events'[s]) : e.type = "disconnected" => e \in ToSet(events[s])
  <2>1. Enqueue(s, [type |-> "connected", conn |-> next_id[s]])
    BY <1>2 DEF ClientOpen
  <2>2. \A e \in ToSet(events'[s]) :
            e \in ToSet(events[s]) \/ e = [type |-> "connected", conn |-> next_id[s]]
    BY <2>1, QueueElements
  <2>3. \A e \in ToSet(events'[s]) : e.type = "disconnected" => e \in ToSet(events[s])
    BY <2>2
  <2>4. QED
    BY <1>2, <2>3 DEF ClientOpen, TypeOK
<1>3. ASSUME NEW e \in ToSet(events'[s]), e.type = "disconnected"
      PROVE  \/ e \in ToSet(events[s]) /\ e \in Event
             \/ ReaderEnd(s, e.conn) /\ e.conn \in ConnIds
  <2>1. CASE e \in ToSet(events[s])
    BY <2>1 DEF TypeOK, ToSet
  <2>2. CASE NewEvent(s, e)
    BY <1>3, <2>2 DEF NewEvent
  <2>3. QED
    BY <2>1, <2>2, EventOrigin
<1>4. KnownIds(s)'
  <2>1. ASSUME NEW c \in reader'[s] PROVE c < next_id'[s]
    <3>1. CASE c \in reader[s] /\ ~Crash(s)
      <4>1. c < next_id[s] /\ next_id[s] <= next_id'[s] /\ c \in ConnIds
        BY <1>0, <3>1, IdsGrow DEF KnownIds, TypeOK
      <4>2. QED
        BY <1>1, <4>1
    <3>2. CASE c = next_id[s] /\ \E k \in Clients : ClientOpen(k, s)
      BY <1>1, <1>2, <3>2
    <3>3. QED
      BY <3>1, <3>2, ReaderOrigin
  <2>2. ASSUME NEW e \in ToSet(events'[s]), e.type = "disconnected"
        PROVE  e.conn < next_id'[s]
    <3>1. next_id[s] <= next_id'[s]
      BY <2>2, IdsGrow
    <3>2. e.conn \in ConnIds
      BY <1>3, <2>2 DEF Event
    <3>3. e.conn < next_id[s]
      BY <1>0, <1>3, <2>2 DEF KnownIds, ReaderEnd
    <3>4. QED
      BY <1>1, <3>1, <3>2, <3>3
  <2>3. QED
    BY <2>1, <2>2 DEF KnownIds
<1>5. ASSUME NEW k \in Clients, NEW c \in ConnIds, sock'[k] = <<s, c>>
      PROVE  /\ c \in writer'[s]
             /\ \A e \in ToSet(events'[s]) : e.type = "disconnected" => e.conn # c
  <2>0. ~Crash(s)
    BY <1>5, LiveOrigin
  <2>1. CASE sock[k] = <<s, c>>
    <3>1. PeerAlive(s, c) /\ c \in writer[s]
      BY <1>0, <2>1 DEF PeerAlive, LiveKept
    <3>2. c \in writer'[s]
      BY <2>0, <3>1, WriterStays
    <3>3. ASSUME NEW e \in ToSet(events'[s]), e.type = "disconnected" PROVE e.conn # c
      BY <1>0, <1>3, <2>1, <3>1, <3>3 DEF LiveKept, ReaderEnd
    <3>4. QED
      BY <3>2, <3>3
  <2>2. CASE ClientOpen(k, s) /\ c = next_id[s]
    <3>1. ASSUME NEW e \in ToSet(events'[s]), e.type = "disconnected" PROVE e.conn # c
      <4>1. e \in ToSet(events[s])
        BY <1>2, <2>2, <3>1
      <4>2. e.conn < next_id[s]
        BY <1>0, <3>1, <4>1 DEF KnownIds
      <4>3. QED
        BY <1>1, <2>2, <4>2
    <3>2. QED
      BY <1>2, <2>2, <3>1
  <2>3. QED
    BY <1>5, <2>1, <2>2, LiveOrigin
<1>6. ASSUME task'[s].at = "register"
      PROVE  connection_to_mailbox'[s][task'[s].conn] = task'[s].mailbox
  <2>1. CASE task'[s] = task[s]
    BY <1>0, <1>6, <2>1, OwnersWait DEF RegisteringOwns
  <2>2. CASE AuthenticateFetch(s)
    <3> DEFINE e == Next_event(s)
    <3>1. e.conn \in ConnIds /\ task'[s].conn = e.conn /\ task'[s].mailbox = e.mailbox
      BY <2>2, FetchFacts
    <3>2. connection_to_mailbox' =
              [connection_to_mailbox EXCEPT ![s][e.conn] = e.mailbox]
      BY <2>2 DEF AuthenticateFetch
    <3>3. connection_to_mailbox'[s][e.conn] = e.mailbox
      BY <3>1, <3>2 DEF TypeOK
    <3>4. QED
      BY <3>1, <3>3
  <2>3. QED
    BY <1>6, <2>1, <2>2, RegisterOrigin
<1>7. QED
  BY <1>4, <1>5, <1>6 DEF LiveKept, RegisteringOwns

(* An open socket keeps its writer, and the router is not told that it     *)
(* ended.                                                                  *)
LEMMA LiveInvariant == Spec => []LiveInv
<1>1. Init => LiveInv
  <2> SUFFICES ASSUME Init, NEW s \in Servers
               PROVE  KnownIds(s) /\ LiveKept(s) /\ RegisteringOwns(s)
    BY DEF LiveInv
  <2>1. /\ reader[s] = {} /\ ToSet(events[s]) = {} /\ task[s].at = "idle"
        /\ \A k \in Clients : sock[k] = NoSocket
    BY ToSetOfEmpty DEF Init, Idle
  <2>2. \A c \in ConnIds : <<s, c>> # NoSocket
    BY ConstantsAssumption
  <2>3. KnownIds(s) /\ RegisteringOwns(s)
    BY <2>1 DEF KnownIds, RegisteringOwns
  <2>4. LiveKept(s)
    BY <2>1, <2>2 DEF LiveKept
  <2>5. QED
    BY <2>3, <2>4
<1>2. TypeOK /\ LiveInv /\ [Next]_vars => LiveInv'
  BY NextLive
<1>3. QED
  BY <1>1, <1>2, TypeCorrect, PTL DEF Spec

-----------------------------------------------------------------------------
(* One server whose Redis keeps what it is told                            *)

(* All clients are on one server process: nothing goes through pub/sub.    *)
OneServer == \A r, s \in Servers : r = s

(* No call to Redis fails and no key expires (EXPIRE 90 is renewed only by *)
(* another registration, so this is a real restriction).                   *)
RedisKeeps == "redis" \notin Faults /\ "expiry" \notin Faults

(* Entries of Redis change when a connection is registered or ends; a      *)
(* connection waits to be registered until it is, or the process dies.     *)
LEMMA RegistryOrigin ==
    ASSUME TypeOK, [Next]_vars, RedisKeeps
    PROVE  \/ /\ registry' = registry
              /\ \A s \in Servers : task[s].at = "register" =>
                     task'[s] = task[s] \/ Crash(s)
           \/ \E s \in Servers : AuthenticateFlush(s) \/ HandleDisconnected(s)
<1> DEFINE Same == /\ registry' = registry
                   /\ \A s \in Servers : task[s].at = "register" =>
                          task'[s] = task[s] \/ Crash(s)
           Goal == Same \/ \E s \in Servers : AuthenticateFlush(s) \/ HandleDisconnected(s)
<1> USE DEF redisVars
<1>1. ASSUME UNCHANGED <<registry, task>> PROVE Goal
  BY <1>1
<1>2. ASSUME NEW k \in Clients, ClientStep(k) PROVE Goal
  BY <1>1, <1>2
  DEF ClientStep, ClientOpen, ClientAuthenticate, ClientSend, ClientTyping,
      OnDelivery, OnAck, OnTyping, ClientDrop
<1>3. ASSUME NEW r \in Servers, registry' = registry, NEW t,
             task' = [task EXCEPT ![r] = t], task[r].at # "register"
      PROVE  Goal
  BY <1>3 DEF TypeOK
<1>4. ASSUME NEW r \in Servers, RouterStep(r) PROVE Goal
  <2>1. AuthenticateFetch(r) \/ SendInsert(r) => task[r].at # "register"
    BY DEF AuthenticateFetch, SendInsert, Handling, Idle
  <2>2. AuthenticateFetch(r) => Goal
    BY <1>3, <2>1 DEF AuthenticateFetch
  <2>3. SendInsert(r) => Goal
    BY <1>3, <2>1 DEF SendInsert
  <2>4. SendLookup(r) => Goal
    BY <1>3 DEF SendLookup
  <2>5. SendDeliver(r) => Goal
    BY <1>3 DEF SendDeliver
  <2>6. ASSUME NEW q \in Servers, SendPublish(r, q) PROVE Goal
    BY <1>3, <2>6 DEF SendPublish
  <2>7. QED
    BY <1>1, <1>4, <2>2, <2>3, <2>4, <2>5, <2>6
    DEF RouterStep, HandleConnected, HandleIgnored, HandleRefused, HandleTyping,
        HandlePubSubDelivery
<1>5. ASSUME NEW r \in Servers, ServerStep(r) PROVE Goal
  <2>1. ASSUME Crash(r) PROVE Goal
    <3>1. registry' = registry /\ task' = [task EXCEPT ![r] = Idle]
      BY <2>1 DEF Crash
    <3>2. QED
      BY <2>1, <3>1 DEF TypeOK
  <2>2. QED
    BY <1>1, <1>4, <1>5, <2>1
    DEF ServerStep, ReaderEnd, WriterEnd, Subscribe, SubscriberForward
<1>6. ASSUME NEW mb \in Mailboxes PROVE ~Expire(mb)
  BY DEF Expire, RedisKeeps
<1>7. CASE UNCHANGED vars
  BY <1>1, <1>7 DEF vars
<1>8. QED
  BY <1>2, <1>5, <1>6, <1>7 DEF Next

(* Registering adds the connection's entry, and ending takes away only an  *)
(* entry whose connection no longer owns a mailbox.                        *)
LEMMA NextRegistry ==
    ASSUME OneServer, RedisKeeps, TypeOK, LiveInv, RegistryComplete, [Next]_vars
    PROVE  RegistryComplete'
<1> SUFFICES ASSUME NEW s \in Servers, NEW c \in ConnIds, Authenticated(s, c)',
                    ~(task'[s].at = "register" /\ task'[s].conn = c)
             PROVE  registry'[connection_to_mailbox'[s][c]][c] = s
  BY DEF RegistryComplete
<1> DEFINE mb == connection_to_mailbox[s][c]
<1>1. connection_to_mailbox'[s][c] = mb
  <2>1. AuthenticateFetch(s) => c # Next_event(s).conn
    BY FetchFacts
  <2>2. QED
    BY <2>1, OwnerOrigin DEF Authenticated
<1>2. mb \in Mailboxes /\ Authenticated(s, c)
  BY <1>1 DEF TypeOK, Authenticated
<1>3. ~(task[s].at = "register" /\ task[s].conn = c) => registry[mb][c] = s
  BY <1>2 DEF RegistryComplete
<1>4. RegisteringOwns(s)
  BY DEF LiveInv
<1>5. CASE /\ registry' = registry
           /\ \A r \in Servers : task[r].at = "register" =>
                  task'[r] = task[r] \/ Crash(r)
  <2>1. ~Crash(s)
    <3>1. Crash(s) => connection_to_mailbox'[s][c] = NoMailbox
      BY DEF Crash, DisconnectClients, TypeOK
    <3>2. QED
      BY <3>1 DEF Authenticated
  <2>2. QED
    BY <1>1, <1>3, <1>5, <2>1
<1>6. ASSUME NEW r \in Servers, AuthenticateFlush(r) PROVE registry'[mb][c] = s
  <2>1. r = s
    BY DEF OneServer
  <2> DEFINE t == task[s]
  <2>2. t.at = "register" /\ t.conn \in ConnIds /\ t.mailbox \in Mailboxes
    BY <1>6, <2>1 DEF TypeOK, AuthenticateFlush, Task
  <2>3. registry' = Registered(t.mailbox, t.conn, s)
    BY <1>6, <2>1 DEF AuthenticateFlush, Outcomes, RedisKeeps
  <2>4. registry'[mb][c] = IF mb = t.mailbox /\ c = t.conn THEN s ELSE registry[mb][c]
    BY <1>2, <2>2, <2>3 DEF Registered, TypeOK
  <2>5. c = t.conn => mb = t.mailbox
    BY <1>4, <2>2 DEF RegisteringOwns
  <2>6. QED
    BY <1>3, <2>4, <2>5
<1>7. ASSUME NEW r \in Servers, HandleDisconnected(r) PROVE registry'[mb][c] = s
  <2>1. r = s
    BY DEF OneServer
  <2> DEFINE d == Next_event(s).conn
  <2>2. d \in ConnIds
    BY <1>7, <2>1, EventsType DEF HandleDisconnected, Handling, Event
  <2>3. c # d
    <3>1. DisconnectClients(s, {d})
      BY <1>7, <2>1 DEF HandleDisconnected
    <3>2. connection_to_mailbox'[s][d] = NoMailbox
      BY <2>2, <3>1 DEF DisconnectClients, TypeOK
    <3>3. QED
      BY <3>2 DEF Authenticated
  <2>4. task[s].at # "register"
    BY <1>7, <2>1 DEF HandleDisconnected, Handling, Idle
  <2>5. \/ registry' = registry
        \/ registry' = Unregistered(connection_to_mailbox[s][d], d)
    BY <1>7, <2>1 DEF HandleDisconnected
  <2>6. registry'[mb][c] = registry[mb][c]
    <3> DEFINE o == connection_to_mailbox[s][d]
    <3>1. /\ registry \in [Mailboxes -> [ConnIds -> Servers \cup {NoServer}]]
          /\ mb \in Mailboxes /\ c \in ConnIds
      BY <1>2 DEF TypeOK
    <3> HIDE DEF o, d, mb
    <3>2. CASE mb = o
      BY <2>2, <2>3, <2>5, <3>1, <3>2 DEF Unregistered
    <3>3. CASE mb # o
      <4>1. Unregistered(o, d)[mb] = registry[mb]
        BY <3>1, <3>3 DEF Unregistered
      <4>2. registry' = registry \/ registry' = Unregistered(o, d)
        BY <2>5 DEF o
      <4>3. QED
        BY <4>1, <4>2
    <3>4. QED
      BY <3>2, <3>3
  <2>7. QED
    BY <1>3, <2>4, <2>6
<1>8. QED
  BY <1>1, <1>5, <1>6, <1>7, RegistryOrigin

(* With one server, whose Redis answers and forgets nothing by itself,     *)
(* every connection that owns a mailbox is in Redis, but the one whose     *)
(* registration is under way: HDEL of an old connection never removes the  *)
(* entry of a new one, and no send looks up a half registered one.         *)
THEOREM ConnectionsAreRegistered ==
    (OneServer /\ RedisKeeps /\ Spec) => []RegistryComplete
<1> SUFFICES ASSUME OneServer, RedisKeeps PROVE Spec => []RegistryComplete
  OBVIOUS
<1>1. Init => RegistryComplete
  BY DEF Init, RegistryComplete, Authenticated
<1>2. TypeOK /\ LiveInv /\ RegistryComplete /\ [Next]_vars => RegistryComplete'
  BY NextRegistry
<1>3. QED
  BY <1>1, <1>2, TypeCorrect, LiveInvariant, PTL DEF Spec

-----------------------------------------------------------------------------
(* What one step does to an open socket                                    *)

(* The numbers n of the messages in p ascend.                              *)
AscendingBy(p, n) == \A i, j \in 1 .. Len(p) : i < j => n[p[i]] < n[p[j]]

(* The messages R in the order of their numbers n.                         *)
InOrder(R, n) ==
    {r \in [1 .. Cardinality(R) -> R] :
        \A i, j \in 1 .. Cardinality(R) : i < j => n[r[i]] < n[r[j]]}

(* They are the sequences of just these messages whose numbers ascend.     *)
LEMMA InOrderElements ==
    ASSUME NEW n \in [Messages -> Nat], NEW R \in SUBSET Messages, NEW r
    PROVE  r \in InOrder(R, n) <=>
               r \in Seq(Messages) /\ ToSet(r) = R /\ AscendingBy(r, n)
<1> DEFINE N == Cardinality(R)
<1>1. IsFiniteSet(R)
  BY ConstantsAssumption, FS_Subset
<1>2. N \in Nat
  BY <1>1, FS_CardinalityType
<1>3. IsFiniteSet(1 .. N) /\ Cardinality(1 .. N) = N
  BY <1>2, FS_Interval
<1>4. ASSUME r \in InOrder(R, n)
      PROVE  r \in Seq(Messages) /\ ToSet(r) = R /\ AscendingBy(r, n)
  <2>1. r \in [1 .. N -> R] /\ \A i, j \in 1 .. N : i < j => n[r[i]] < n[r[j]]
    BY <1>4 DEF InOrder
  <2>2. r \in Seq(Messages) /\ r \in Seq(R) /\ Len(r) = N
    BY <1>2, <2>1
  <2>3. \A i \in 1 .. N : n[r[i]] \in Nat /\ r[i] \in R
    BY <2>1
  <2> HIDE DEF N
  <2>4. \A i, j \in 1 .. N : r[i] = r[j] => i = j
    <3>1. \A i, j \in 1 .. N : i < j \/ j < i \/ i = j
      BY <1>2
    <3>2. QED
      BY <2>1, <2>3, <3>1
  <2>5. r \in Injection(1 .. N, R)
    BY <2>1, <2>4 DEF Injection, IsInjective
  <2>6. r \in Surjection(1 .. N, R)
    BY <1>1, <1>3, <2>5, FS_Injection DEF N
  <2>7. \A m \in R : \E i \in 1 .. Len(r) : r[i] = m
    BY <2>2, <2>6 DEF Surjection
  <2>8. \A m : m \in ToSet(r) <=> \E i \in 1 .. Len(r) : r[i] = m
    BY <2>2, ElementsOf
  <2>9. ToSet(r) = R
    BY <2>2, <2>3, <2>7, <2>8
  <2>10. QED
    BY <2>1, <2>2, <2>9 DEF AscendingBy
<1>5. ASSUME r \in Seq(Messages), ToSet(r) = R, AscendingBy(r, n)
      PROVE  r \in InOrder(R, n)
  <2>1. /\ Len(r) \in Nat /\ r \in [1 .. Len(r) -> Messages]
        /\ \A i \in 1 .. Len(r) : n[r[i]] \in Nat
        /\ \A m : m \in ToSet(r) <=> \E i \in 1 .. Len(r) : r[i] = m
    BY <1>5, ElementsOf
  <2>2. r \in [1 .. Len(r) -> R] /\ \A m \in R : \E i \in 1 .. Len(r) : r[i] = m
    BY <1>5, <2>1
  <2>3. \A i, j \in 1 .. Len(r) : r[i] = r[j] => i = j
    <3>1. \A i, j \in 1 .. Len(r) : i < j \/ j < i \/ i = j
      BY <2>1
    <3>2. QED
      BY <1>5, <2>1, <3>1 DEF AscendingBy
  <2>4. r \in Bijection(1 .. Len(r), R)
    BY <2>2, <2>3 DEF Bijection, Injection, Surjection, IsInjective
  <2>5. IsFiniteSet(1 .. Len(r)) /\ Cardinality(1 .. Len(r)) = Len(r)
    BY <2>1, FS_Interval
  <2>6. N = Len(r)
    <3>1. ExistsBijection(1 .. Len(r), R)
      BY <2>4 DEF ExistsBijection
    <3>2. Cardinality(1 .. Len(r)) = Cardinality(R)
      BY <1>1, <2>5, <3>1, FS_Bijection
    <3>3. QED
      BY <2>5, <3>2
  <2>7. QED
    BY <1>5, <2>2, <2>6 DEF InOrder, AscendingBy
<1>6. QED
  BY <1>4, <1>5

(* The rows of a backlog ascend, are beyond the cursor asked from, and     *)
(* are all there are.                                                      *)
LEMMA BacklogRows ==
    ASSUME TypeOK, NEW mb, NEW n \in Nat, NEW r \in OrderedBySeq(RowsAfter(mb, n))
    PROVE  /\ r \in Seq(Messages)
           /\ \A i \in 1 .. Len(r) : seq[r[i]] > n /\ To[r[i]] = mb
           /\ \A i, j \in 1 .. Len(r) : i < j => seq[r[i]] < seq[r[j]]
           /\ \A m \in RowsAfter(mb, n) : \E i \in 1 .. Len(r) : r[i] = m
<1> DEFINE R == RowsAfter(mb, n)
<1>1. R \in SUBSET Messages /\ seq \in [Messages -> Nat]
  BY DEF RowsAfter, TypeOK
<1>2. r \in InOrder(R, seq)
  BY DEF OrderedBySeq, InOrder
<1>3. r \in Seq(Messages) /\ ToSet(r) = R /\ AscendingBy(r, seq)
  <2> HIDE DEF R
  <2>1. QED
    BY <1>1, <1>2, InOrderElements
<1>4. \A m : m \in R <=> \E i \in 1 .. Len(r) : r[i] = m
  BY <1>3, ElementsOf
<1>5. \A m \in R : seq[m] > n /\ To[m] = mb
  BY DEF RowsAfter
<1>6. QED
  BY <1>3, <1>4, <1>5 DEF AscendingBy

(* Rows and their numbers come from an INSERT.                             *)
LEMMA StoreOrigin ==
    ASSUME [Next]_vars
    PROVE  UNCHANGED <<seq, identity>> \/ \E s \in Servers : SendInsert(s)
<1> DEFINE Goal == UNCHANGED <<seq, identity>> \/ \E s \in Servers : SendInsert(s)
<1> USE DEF storeVars
<1>1. ASSUME NEW k \in Clients, ClientStep(k) PROVE Goal
  BY <1>1
  DEF ClientStep, ClientOpen, ClientAuthenticate, ClientSend, ClientTyping,
      OnDelivery, OnAck, OnTyping, ClientDrop
<1>2. ASSUME NEW s \in Servers, ServerStep(s) PROVE Goal
  BY <1>2
  DEF ServerStep, RouterStep, ReaderEnd, WriterEnd, Subscribe, SubscriberForward,
      Crash, HandleConnected, HandleIgnored, HandleRefused, AuthenticateFetch,
      AuthenticateFlush, SendLookup, SendDeliver, SendPublish, HandleTyping,
      HandleDisconnected, HandlePubSubDelivery
<1>3. ASSUME NEW mb \in Mailboxes, Expire(mb) PROVE Goal
  BY <1>3 DEF Expire
<1>4. CASE UNCHANGED vars
  BY <1>4 DEF vars
<1>5. QED
  BY <1>1, <1>2, <1>3, <1>4 DEF Next

(* What an INSERT does to the rows.                                        *)
LEMMA InsertFacts ==
    ASSUME TypeOK, NEW s \in Servers, SendInsert(s)
    PROVE  LET m == Next_event(s).msg IN
           /\ m \in Messages
           /\ identity <= identity'
           /\ \A x \in Messages : seq'[x] = seq[x] \/ (x = m /\ seq'[x] = identity + 1
                                                   /\ identity' = identity + 1)
           /\ task'[s].at = "lookup" /\ task'[s].msg = m
           /\ task'[s].seq # 0 => task'[s].seq = identity + 1
<1> DEFINE m == Next_event(s).msg
<1>1. m \in Messages
  BY EventsType DEF SendInsert, Handling, Event
<1>2. PICK o \in InsertOutcomes :
         /\ seq' = IF o = "failed" THEN seq ELSE Inserted(m)
         /\ identity' = IF o = "failed" THEN identity ELSE identity + 1
         /\ task' = [task EXCEPT ![s] =
                [at |-> "lookup", msg |-> m,
                 seq |-> IF o = "ok" THEN Returned(m) ELSE 0]]
  BY DEF SendInsert
<1>3. /\ task'[s].at = "lookup" /\ task'[s].msg = m
      /\ task'[s].seq = IF o = "ok" THEN Returned(m) ELSE 0
  BY <1>2 DEF TypeOK
<1>4. identity \in Nat
  BY DEF TypeOK
<1>5. identity <= identity'
  BY <1>2, <1>4
<1>6. \A x \in Messages : Inserted(m)[x] = IF x = m /\ seq[m] = 0 THEN identity + 1 ELSE seq[x]
  BY <1>1 DEF Inserted, TypeOK
<1>7. task'[s].seq # 0 => task'[s].seq = identity + 1
  BY <1>3 DEF Returned
<1>8. QED
  BY <1>1, <1>2, <1>3, <1>5, <1>6, <1>7

(* Only a delivery changes what a client was given.                        *)
LEMMA DeliveredOrigin ==
    ASSUME TypeOK, [Next]_vars, NEW k \in Clients
    PROVE  \/ last_seq'[k] = last_seq[k] /\ received'[k] = received[k]
           \/ OnDelivery(k)
<1> DEFINE Goal == \/ last_seq'[k] = last_seq[k] /\ received'[k] = received[k]
                   \/ OnDelivery(k)
<1> USE DEF clientVars
<1>1. ASSUME UNCHANGED <<last_seq, received>> PROVE Goal
  BY <1>1
<1>2. ASSUME NEW j \in Clients, ClientStep(j) PROVE Goal
  <2>1. OnDelivery(j) => Goal
    BY DEF OnDelivery, TypeOK
  <2>2. QED
    BY <1>1, <1>2, <2>1
    DEF ClientStep, ClientOpen, ClientAuthenticate, ClientSend, ClientTyping,
        OnAck, OnTyping, ClientDrop
<1>3. ASSUME NEW s \in Servers, ServerStep(s) PROVE Goal
  BY <1>1, <1>3
  DEF ServerStep, RouterStep, ReaderEnd, WriterEnd, Subscribe, SubscriberForward,
      Crash, HandleConnected, HandleIgnored, HandleRefused, AuthenticateFetch,
      AuthenticateFlush, SendInsert, SendLookup, SendDeliver, SendPublish,
      HandleTyping, HandleDisconnected, HandlePubSubDelivery
<1>4. ASSUME NEW mb \in Mailboxes, Expire(mb) PROVE Goal
  BY <1>1, <1>4 DEF Expire
<1>5. CASE UNCHANGED vars
  BY <1>1, <1>5 DEF vars
<1>6. QED
  BY <1>2, <1>3, <1>4, <1>5 DEF Next

(* A client whose socket was open does not begin to open one.              *)
LEMMA OpeningOrigin ==
    ASSUME TypeOK, [Next]_vars, NEW k \in Clients, sock[k] # NoSocket, k \in opening'
    PROVE  k \in opening
<1> DEFINE Goal == k \in opening
<1> USE DEF clientVars
<1>1. ASSUME UNCHANGED opening PROVE Goal
  BY <1>1
<1>2. ASSUME NEW j \in Clients, ClientStep(j) PROVE Goal
  <2>1. ASSUME NEW s \in Servers, ClientOpen(j, s) PROVE Goal
    BY <2>1 DEF ClientOpen
  <2>2. QED
    BY <1>1, <1>2, <2>1
    DEF ClientStep, ClientAuthenticate, ClientSend, ClientTyping,
        OnDelivery, OnAck, OnTyping, ClientDrop
<1>3. ASSUME NEW s \in Servers, ServerStep(s) PROVE Goal
  BY <1>1, <1>3
  DEF ServerStep, RouterStep, ReaderEnd, WriterEnd, Subscribe, SubscriberForward,
      Crash, HandleConnected, HandleIgnored, HandleRefused, AuthenticateFetch,
      AuthenticateFlush, SendInsert, SendLookup, SendDeliver, SendPublish,
      HandleTyping, HandleDisconnected, HandlePubSubDelivery
<1>4. ASSUME NEW mb \in Mailboxes, Expire(mb) PROVE Goal
  BY <1>1, <1>4 DEF Expire
<1>5. CASE UNCHANGED vars
  BY <1>1, <1>5 DEF vars
<1>6. QED
  BY <1>2, <1>3, <1>4, <1>5 DEF Next

(* The channel of a router as a queue: one event is taken by the router or *)
(* one new event is put behind the others.                                 *)
LEMMA EventStep ==
    ASSUME TypeOK, [Next]_vars, NEW s \in Servers, ~Crash(s)
    PROVE  \/ events'[s] = events[s]
           \/ events[s] # <<>> /\ events'[s] = Tail(events[s])
           \/ \E e \in Event : NewEvent(s, e) /\ events'[s] = Append(events[s], e)
<1> DEFINE Goal == \/ events'[s] = events[s]
                   \/ events[s] # <<>> /\ events'[s] = Tail(events[s])
                   \/ \E e \in Event : NewEvent(s, e) /\ events'[s] = Append(events[s], e)
<1>1. ASSUME UNCHANGED events PROVE Goal
  BY <1>1
<1>2. ASSUME NEW r \in Servers, NEW e, Enqueue(r, e), r = s => NewEvent(s, e)
      PROVE  Goal
  <2>1. events' = [events EXCEPT ![r] = Append(@, e)]
    BY <1>2 DEF Enqueue
  <2>2. CASE r = s
    <3>1. events'[s] = Append(events[s], e)
      BY <2>1, <2>2 DEF TypeOK
    <3>2. TypeOK'
      BY NextType
    <3>3. events'[s] \in Seq(Event) /\ events[s] \in Seq(Event)
      BY <3>2 DEF TypeOK
    <3>4. e = events'[s][Len(events'[s])] /\ Len(events'[s]) = Len(events[s]) + 1
      BY <3>1, <3>3
    <3>5. e \in Event
      BY <3>3, <3>4
    <3>6. QED
      BY <1>2, <2>2, <3>1, <3>5
  <2>3. CASE r # s
    BY <2>1, <2>3 DEF TypeOK
  <2>4. QED
    BY <2>2, <2>3
<1>3. ASSUME NEW k \in Clients, ClientStep(k) PROVE Goal
  <2>1. k \in opening \/ CanSend(k) => sock[k][1] \in Servers
    BY DEF TypeOK, CanSend
  <2>2. ASSUME NEW r \in Servers, ClientOpen(k, r) PROVE Goal
    <3>1. Enqueue(r, [type |-> "connected", conn |-> next_id[r]])
      BY <2>2 DEF ClientOpen
    <3>2. NewEvent(r, [type |-> "connected", conn |-> next_id[r]])
      BY <2>2 DEF NewEvent
    <3>3. QED
      BY <1>2, <3>1, <3>2
  <2>3. CASE ClientAuthenticate(k)
    <3>1. PICK mb \in {MailboxOf[k], NoMailbox} :
             Enqueue(sock[k][1],
                 [type |-> "authenticate", conn |-> sock[k][2],
                  mailbox |-> mb, last_seq |-> last_seq[k]])
      BY <2>3 DEF ClientAuthenticate, Outcomes
    <3> DEFINE e == [type |-> "authenticate", conn |-> sock[k][2],
                     mailbox |-> mb, last_seq |-> last_seq[k]]
    <3>2. sock[k][1] \in Servers
      BY <2>1, <2>3 DEF ClientAuthenticate
    <3>3. sock[k][1] = s => NewEvent(s, e)
      BY <2>3 DEF NewEvent
    <3>4. Enqueue(sock[k][1], e)
      BY <3>1
    <3> HIDE DEF e
    <3>5. QED
      BY <1>2, <3>2, <3>3, <3>4
  <2>4. ASSUME NEW m \in Messages, From[m] = k, ClientSend(m) PROVE Goal
    <3> DEFINE e == [type |-> "send", conn |-> sock[k][2], msg |-> m]
    <3>1. sock[k][1] \in Servers
      BY <2>1, <2>4 DEF ClientSend
    <3>2. Enqueue(sock[k][1], e)
      BY <2>4 DEF ClientSend
    <3>3. sock[k][1] = s => NewEvent(s, e)
      BY <2>4 DEF NewEvent
    <3> HIDE DEF e
    <3>4. QED
      BY <1>2, <3>1, <3>2, <3>3
  <2>5. ASSUME NEW mb \in Mailboxes, ClientTyping(k, mb) PROVE Goal
    <3> DEFINE e == [type |-> "typing", conn |-> sock[k][2], mailbox |-> mb]
    <3>1. sock[k][1] \in Servers
      BY <2>1, <2>5 DEF ClientTyping
    <3>2. Enqueue(sock[k][1], e)
      BY <2>5 DEF ClientTyping
    <3>3. sock[k][1] = s => NewEvent(s, e)
      BY <2>5 DEF NewEvent
    <3> HIDE DEF e
    <3>4. QED
      BY <1>2, <3>1, <3>2, <3>3
  <2>6. QED
    BY <1>1, <1>3, <2>2, <2>3, <2>4, <2>5
    DEF ClientStep, OnDelivery, OnAck, OnTyping, ClientDrop
<1>4. ASSUME NEW r \in Servers, RouterStep(r) PROVE Goal
  <2>1. UNCHANGED events \/ (events[r] # <<>> /\ Dequeue(r))
    BY <1>4
    DEF RouterStep, HandleConnected, HandleIgnored, HandleRefused,
        AuthenticateFetch, AuthenticateFlush, SendInsert, SendLookup,
        SendDeliver, SendPublish, HandleTyping, HandleDisconnected,
        HandlePubSubDelivery, Handling
  <2>2. QED
    BY <1>1, <2>1 DEF Dequeue, TypeOK
<1>5. ASSUME NEW r \in Servers, Crash(r) PROVE Goal
  <2>1. r # s /\ events' = [events EXCEPT ![r] = <<>>]
    BY <1>5 DEF Crash
  <2>2. QED
    BY <2>1 DEF TypeOK
<1>6. ASSUME NEW r \in Servers, NEW c \in ConnIds, ReaderEnd(r, c) PROVE Goal
  <2> DEFINE e == [type |-> "disconnected", conn |-> c]
  <2>1. Enqueue(r, e)
    BY <1>6 DEF ReaderEnd
  <2>2. NewEvent(r, e)
    BY <1>6 DEF NewEvent
  <2> HIDE DEF e
  <2>3. QED
    BY <1>2, <2>1, <2>2
<1>7. ASSUME NEW r \in Servers, SubscriberForward(r) PROVE Goal
  <2> DEFINE e == [type |-> "pubsub", msg |-> Head(channel[r]).msg,
                   seq |-> Head(channel[r]).seq]
  <2>1. Enqueue(r, e)
    BY <1>7 DEF SubscriberForward
  <2>2. NewEvent(r, e)
    BY <1>7 DEF NewEvent
  <2> HIDE DEF e
  <2>3. QED
    BY <1>2, <2>1, <2>2
<1>8. ASSUME NEW r \in Servers, ServerStep(r) PROVE Goal
  BY <1>1, <1>4, <1>5, <1>6, <1>7, <1>8 DEF ServerStep, WriterEnd, Subscribe
<1>9. ASSUME NEW mb \in Mailboxes, Expire(mb) PROVE Goal
  BY <1>1, <1>9 DEF Expire
<1>10. CASE UNCHANGED vars
  BY <1>1, <1>10 DEF vars
<1>11. QED
  BY <1>3, <1>8, <1>9, <1>10 DEF Next

(* An open socket keeps its owner, once it has one.                        *)
LEMMA OwnerKept ==
    ASSUME TypeOK, LiveInv, [Next]_vars, NEW s \in Servers, NEW k \in Clients,
           NEW c \in ConnIds, sock[k] = <<s, c>>, ~Crash(s)
    PROVE  \/ connection_to_mailbox'[s][c] = connection_to_mailbox[s][c]
           \/ /\ AuthenticateFetch(s)
              /\ c = Next_event(s).conn
              /\ connection_to_mailbox'[s][c] = Next_event(s).mailbox
<1> DEFINE Same == connection_to_mailbox'[s][c] = connection_to_mailbox[s][c]
           Goal == \/ Same
                   \/ /\ AuthenticateFetch(s)
                      /\ c = Next_event(s).conn
                      /\ connection_to_mailbox'[s][c] = Next_event(s).mailbox
<1> USE DEF localVars
<1>0. /\ c \in writer[s]
      /\ \A e \in ToSet(events[s]) : e.type = "disconnected" => e.conn # c
  BY DEF LiveInv, LiveKept
<1>1. ASSUME UNCHANGED connection_to_mailbox PROVE Goal
  BY <1>1
<1>2. ASSUME NEW j \in Clients, ClientStep(j) PROVE Goal
  BY <1>1, <1>2
  DEF ClientStep, ClientOpen, ClientAuthenticate, ClientSend, ClientTyping,
      OnDelivery, OnAck, OnTyping, ClientDrop
<1>3. ASSUME NEW r \in Servers, NEW C, DisconnectClients(r, C), r = s => c \notin C
      PROVE  Goal
  <2>1. connection_to_mailbox' = [connection_to_mailbox EXCEPT ![r] =
           [d \in ConnIds |-> IF d \in C THEN NoMailbox ELSE connection_to_mailbox[r][d]]]
    BY <1>3 DEF DisconnectClients
  <2>2. QED
    BY <1>3, <2>1 DEF TypeOK
<1>4. ASSUME NEW r \in Servers, NEW C, NEW fs, SendOrDisconnect(r, C, fs) PROVE Goal
  <2>1. DisconnectClients(r, C \ writer[r])
    BY <1>4 DEF SendOrDisconnect
  <2>2. r = s => c \notin C \ writer[r]
    BY <1>0
  <2>3. QED
    BY <1>3, <2>1, <2>2
<1>5. ASSUME NEW r \in Servers, AuthenticateFetch(r) PROVE Goal
  <2> DEFINE e == Next_event(r)
  <2>1. e.conn \in ConnIds
    BY <1>5, FetchFacts
  <2>2. connection_to_mailbox' = [connection_to_mailbox EXCEPT ![r][e.conn] = e.mailbox]
    BY <1>5 DEF AuthenticateFetch
  <2>3. r = s /\ e.conn = c => connection_to_mailbox'[s][c] = e.mailbox
    BY <2>1, <2>2 DEF TypeOK
  <2>4. ~(r = s /\ e.conn = c) => Same
    BY <2>1, <2>2 DEF TypeOK
  <2>5. QED
    BY <1>5, <2>3, <2>4
<1>6. ASSUME NEW r \in Servers, HandleDisconnected(r) PROVE Goal
  <2>1. DisconnectClients(r, {Next_event(r).conn})
    BY <1>6 DEF HandleDisconnected
  <2>2. events[r] \in Seq(Event) /\ events[r] # <<>> /\ Next_event(r).type = "disconnected"
    BY <1>6 DEF HandleDisconnected, Handling, TypeOK
  <2>3. Next_event(r) \in ToSet(events[r])
    BY <2>2, ToSetOfTail DEF Next_event
  <2>4. r = s => c \notin {Next_event(r).conn}
    BY <1>0, <2>2, <2>3
  <2>5. QED
    BY <1>3, <2>1, <2>4
<1>7. ASSUME NEW r \in Servers, RouterStep(r) PROVE Goal
  BY <1>1, <1>4, <1>5, <1>6, <1>7
  DEF RouterStep, HandleConnected, HandleIgnored, HandleRefused,
      AuthenticateFlush, SendInsert, SendLookup, SendDeliver, SendPublish,
      HandleTyping, HandlePubSubDelivery
<1>8. ASSUME NEW r \in Servers, Crash(r) PROVE Goal
  BY <1>3, <1>8 DEF Crash
<1>9. ASSUME NEW r \in Servers, ServerStep(r) PROVE Goal
  BY <1>1, <1>7, <1>8, <1>9
  DEF ServerStep, ReaderEnd, WriterEnd, Subscribe, SubscriberForward
<1>10. ASSUME NEW mb \in Mailboxes, Expire(mb) PROVE Goal
  BY <1>1, <1>10 DEF Expire
<1>11. CASE UNCHANGED vars
  BY <1>1, <1>11 DEF vars
<1>12. QED
  BY <1>2, <1>9, <1>10, <1>11 DEF Next

(* A send to an open socket whose writer is there arrives in its queue.    *)
LEMMA SendReaches ==
    ASSUME TypeOK, NEW s \in Servers, NEW C, NEW fs, SendOrDisconnect(s, C, fs),
           NEW c \in ConnIds
    PROVE  /\ \A r \in Servers : r # s => out'[r] = out[r]
           /\ out'[s][c] = IF c \in C /\ c \in writer[s] /\ PeerAlive(s, c)
                           THEN out[s][c] \o fs ELSE out[s][c]
<1>1. out' = [out EXCEPT ![s] =
           [d \in ConnIds |->
               IF d \in C \cap writer[s] /\ PeerAlive(s, d)
               THEN out[s][d] \o fs
               ELSE out[s][d]]]
  BY DEF SendOrDisconnect
<1>2. QED
  BY <1>1 DEF TypeOK

(* What the step leaves in the queue of the open socket of client k, and   *)
(* what k was given meanwhile.                                             *)
Given(k) == last_seq'[k] = last_seq[k] /\ received'[k] = received[k]

QueueStep(k, s, c) ==
    \/ OnDelivery(k) /\ out'[s][c] = Tail(out[s][c])
    \/ /\ Given(k)
       /\ \/ out'[s][c] = out[s][c]
          \/ /\ out[s][c] # <<>> /\ Head(out[s][c]).type # "delivery"
             /\ out'[s][c] = Tail(out[s][c])
          \/ /\ AuthenticateFlush(s) /\ c = task[s].conn
             /\ out'[s][c] = out[s][c] \o Backlog(s)
          \/ \E f \in Frame : /\ NewFrame(s, c, f) /\ task[s].at # "register"
                              /\ out'[s][c] = Append(out[s][c], f)

(* The queue of an open socket: its client takes from it, or the router    *)
(* puts the backlog or one frame behind the others.                        *)
LEMMA LiveQueue ==
    ASSUME TypeOK, Ownership, [Next]_vars, NEW s \in Servers, NEW k \in Clients,
           NEW c \in ConnIds, sock[k] = <<s, c>>, sock'[k] = <<s, c>>
    PROVE  QueueStep(k, s, c)
<1> DEFINE q == out[s][c]
           Goal == \/ out'[s][c] = q
                   \/ q # <<>> /\ Head(q).type # "delivery" /\ out'[s][c] = Tail(q)
                   \/ /\ AuthenticateFlush(s) /\ c = task[s].conn
                      /\ out'[s][c] = q \o Backlog(s)
                   \/ \E f \in Frame : /\ NewFrame(s, c, f) /\ task[s].at # "register"
                                       /\ out'[s][c] = Append(q, f)
<1>0. /\ q \in Seq(Frame)
      /\ <<s, c>> # NoSocket
      /\ \A j \in Clients : sock[j] = <<s, c>> => j = k
      /\ PeerAlive(s, c)
  <2>1. q \in Seq(Frame)
    BY DEF TypeOK
  <2>2. <<s, c>> # NoSocket
    BY ConstantsAssumption
  <2>3. \A j \in Clients : sock[j] = <<s, c>> => j = k
    BY DEF Ownership, Owned
  <2>4. QED
    BY <2>1, <2>2, <2>3 DEF PeerAlive
<1>1. ASSUME UNCHANGED out PROVE Goal
  BY <1>1
<1>2. ASSUME NEW j \in Clients, NEW type, Incoming(j, type), TakeFrame(j)
      PROVE  \/ j # k /\ out'[s][c] = q
             \/ /\ j = k /\ q # <<>> /\ Head(q).type = type
                /\ out'[s][c] = Tail(q)
  <2>1. /\ sock[j][1] \in Servers /\ sock[j][2] \in ConnIds
        /\ sock[j] = <<sock[j][1], sock[j][2]>>
    BY <1>2, IncomingFrame
  <2>2. out' = [out EXCEPT ![sock[j][1]][sock[j][2]] = Tail(@)]
    BY <1>2 DEF TakeFrame
  <2>3. CASE j = k
    <3>1. sock[j][1] = s /\ sock[j][2] = c
      BY <2>3
    <3>2. QED
      BY <1>2, <2>2, <2>3, <3>1 DEF Incoming, TypeOK
  <2>4. CASE j # k
    <3>1. ~(sock[j][1] = s /\ sock[j][2] = c)
      BY <1>0, <2>1, <2>4
    <3>2. out'[s][c] = q
      BY <2>1, <2>2, <3>1 DEF TypeOK
    <3>3. QED
      BY <2>4, <3>2
  <2>5. QED
    BY <2>3, <2>4
<1>3. ASSUME NEW j \in Clients, ClientStep(j), ~OnDelivery(k) PROVE Goal
  <2>1. CASE OnDelivery(j)
    <3>1. j # k /\ Incoming(j, "delivery") /\ TakeFrame(j)
      BY <1>3, <2>1 DEF OnDelivery
    <3>2. QED
      BY <1>2, <3>1
  <2>2. CASE OnAck(j)
    <3>1. Incoming(j, "ack") /\ TakeFrame(j)
      BY <2>2 DEF OnAck
    <3>2. QED
      BY <1>2, <3>1
  <2>3. CASE OnTyping(j)
    <3>1. Incoming(j, "typing") /\ TakeFrame(j)
      BY <2>3 DEF OnTyping
    <3>2. QED
      BY <1>2, <3>1
  <2>4. CASE ClientDrop(j)
    <3>1. j # k
      BY <1>0, <2>4 DEF ClientDrop, TypeOK
    <3>2. /\ out' = [out EXCEPT ![sock[j][1]][sock[j][2]] = <<>>]
          /\ sock[j] \in Servers \X ConnIds
      BY <2>4 DEF ClientDrop, TypeOK
    <3>3. ~(sock[j][1] = s /\ sock[j][2] = c)
      BY <1>0, <3>1, <3>2
    <3>4. out'[s][c] = q
      BY <3>2, <3>3 DEF TypeOK
    <3>5. QED
      BY <3>4
  <2>5. QED
    BY <1>1, <1>3, <2>1, <2>2, <2>3, <2>4
    DEF ClientStep, ClientOpen, ClientAuthenticate, ClientSend, ClientTyping
<1>4. ASSUME NEW r \in Servers, NEW C, NEW g \in Frame, SendOrDisconnect(r, C, <<g>>),
             task[r].at # "register", r = s /\ c \in C => NewFrame(s, c, g)
      PROVE  Goal
  <2>1. \/ out'[s][c] = q
        \/ r = s /\ c \in C /\ out'[s][c] = q \o <<g>>
    BY <1>4, SendReaches
  <2>2. q \o <<g>> = Append(q, g)
    BY <1>0
  <2>3. QED
    BY <1>4, <2>1, <2>2
<1>5. ASSUME NEW r \in Servers, RouterStep(r) PROVE Goal
  <2>1. CASE HandleRefused(r)
    <3>1. SendOrDisconnect(r, {Next_event(r).conn}, <<>>)
      BY <2>1 DEF HandleRefused
    <3>2. out'[s][c] = q \/ out'[s][c] = q \o <<>>
      BY <3>1, SendReaches
    <3>3. q \o <<>> = q
      BY <1>0
    <3>4. QED
      BY <3>2, <3>3
  <2>2. CASE AuthenticateFlush(r)
    <3>1. SendOrDisconnect(r, {task[r].conn}, Backlog(r))
      BY <2>2 DEF AuthenticateFlush, Backlog
    <3>2. out'[s][c] = q \/ (r = s /\ c = task[r].conn /\ out'[s][c] = q \o Backlog(r))
      <4> DEFINE fs == Backlog(r)
                 C == {task[r].conn}
      <4>1. SendOrDisconnect(r, C, fs)
        BY <3>1
      <4> HIDE DEF fs, C
      <4>2. out'[s][c] = q \/ (r = s /\ c \in C /\ out'[s][c] = q \o fs)
        BY <4>1, SendReaches
      <4>3. QED
        BY <4>2 DEF fs, C
    <3>3. QED
      BY <2>2, <3>2
  <2>3. CASE SendInsert(r)
    <3> DEFINE g == Ack(Next_event(r).msg)
    <3>1. g \in Frame /\ task[r].at # "register"
      BY <2>3, EventsType DEF SendInsert, Handling, Event, Ack, Frame, Idle
    <3>2. SendOrDisconnect(r, {Next_event(r).conn}, <<g>>)
      BY <2>3 DEF SendInsert
    <3>3. r = s => NewFrame(s, c, g)
      BY <1>0, <2>3 DEF NewFrame
    <3> HIDE DEF g
    <3>4. QED
      BY <1>4, <3>1, <3>2, <3>3
  <2>4. CASE SendDeliver(r)
    <3> DEFINE g == Delivery(task[r].msg, task[r].seq)
               C == Recipients(r, To[task[r].msg])
    <3>1. g \in Frame /\ task[r].at # "register"
      BY <2>4 DEF TypeOK, SendDeliver, Task, Delivery, Frame
    <3>2. SendOrDisconnect(r, C, <<g>>)
      BY <2>4 DEF SendDeliver
    <3>3. r = s /\ c \in C => NewFrame(s, c, g)
      BY <1>0, <2>4 DEF NewFrame
    <3> HIDE DEF g, C
    <3>4. QED
      BY <1>4, <3>1, <3>2, <3>3
  <2>5. CASE HandlePubSubDelivery(r)
    <3> DEFINE g == Delivery(Next_event(r).msg, Next_event(r).seq)
               C == Recipients(r, To[Next_event(r).msg])
    <3>1. g \in Frame /\ task[r].at # "register"
      <4>1. Next_event(r).msg \in Messages /\ Next_event(r).seq \in Nat
        BY <2>5, EventsType DEF HandlePubSubDelivery, Handling, Event
      <4>2. task[r].at # "register"
        BY <2>5 DEF HandlePubSubDelivery, Handling, Idle
      <4>3. QED
        BY <4>1, <4>2 DEF Delivery, Frame
    <3>2. SendOrDisconnect(r, C, <<g>>)
      BY <2>5 DEF HandlePubSubDelivery
    <3>3. r = s /\ c \in C => NewFrame(s, c, g)
      BY <1>0, <2>5 DEF NewFrame
    <3> HIDE DEF g, C
    <3>4. QED
      BY <1>4, <3>1, <3>2, <3>3
  <2>6. CASE HandleTyping(r)
    <3> DEFINE g == Typing(Next_event(r).mailbox)
               C == Recipients(r, Next_event(r).mailbox)
    <3>1. g \in Frame /\ task[r].at # "register"
      BY <2>6, EventsType DEF HandleTyping, Handling, Event, Typing, Frame, Idle
    <3>2. SendOrDisconnect(r, C, <<g>>)
      BY <2>6 DEF HandleTyping
    <3>3. r = s /\ c \in C => NewFrame(s, c, g)
      BY <1>0, <2>6 DEF NewFrame
    <3> HIDE DEF g, C
    <3>4. QED
      BY <1>4, <3>1, <3>2, <3>3
  <2>7. QED
    BY <1>1, <1>5, <2>1, <2>2, <2>3, <2>4, <2>5, <2>6
    DEF RouterStep, HandleConnected, HandleIgnored, AuthenticateFetch,
        SendLookup, SendPublish, HandleDisconnected
<1>6. ASSUME NEW r \in Servers, ServerStep(r) PROVE Goal
  <2>1. ASSUME Crash(r) PROVE Goal
    <3>1. r # s
      BY <2>1, LiveOrigin
    <3>2. out' = [out EXCEPT ![r] = [d \in ConnIds |-> <<>>]]
      BY <2>1 DEF Crash
    <3>3. out'[s][c] = q
      BY <3>1, <3>2 DEF TypeOK
    <3>4. QED
      BY <3>3
  <2>2. QED
    BY <1>1, <1>5, <1>6, <2>1
    DEF ServerStep, ReaderEnd, WriterEnd, Subscribe, SubscriberForward
<1>7. ASSUME NEW mb \in Mailboxes, Expire(mb) PROVE Goal
  BY <1>1, <1>7 DEF Expire
<1>8. ASSUME UNCHANGED vars PROVE Goal
  <2>1. UNCHANGED out
    BY <1>8 DEF vars
  <2>2. QED
    BY <1>1, <2>1
<1>9. CASE OnDelivery(k)
  <2>1. Incoming(k, "delivery") /\ TakeFrame(k)
    BY <1>9 DEF OnDelivery
  <2>2. out'[s][c] = Tail(q)
    BY <1>2, <2>1
  <2>3. QED
    BY <1>9, <2>2 DEF QueueStep
<1>10. CASE ~OnDelivery(k)
  <2>1. Given(k)
    BY <1>10, DeliveredOrigin DEF Given
  <2>2. Goal
    <3> HIDE DEF Goal
    <3>1. QED
      BY <1>3, <1>6, <1>7, <1>8, <1>10 DEF Next
  <2>3. QED
    BY <2>1, <2>2 DEF QueueStep
<1>11. QED
  BY <1>9, <1>10

-----------------------------------------------------------------------------
(* A socket authenticates once, with the cursor it still has               *)

(* An authenticate of connection c.                                        *)
AuthOf(e, c) == e.type = "authenticate" /\ e.conn = c

(* No delivery is on its way over connection c.                            *)
NoDelivery(s, c) == \A f \in ToSet(out[s][c]) : f.type # "delivery"

(* Until its backlog is flushed, the client of a socket is given nothing,  *)
(* so that the cursor in its one authenticate is its cursor.               *)
AuthenticatesOnce(k, s, c) ==
    /\ \A i, j \in 1 .. Len(events[s]) :
           AuthOf(events[s][i], c) /\ AuthOf(events[s][j], c) => i = j
    /\ \A e \in ToSet(events[s]) : AuthOf(e, c) =>
           e.last_seq = last_seq[k] /\ k \notin opening /\ ~Authenticated(s, c)
    /\ k \in opening => ~Authenticated(s, c)
    /\ ~Authenticated(s, c) \/ Registering(s, c) => NoDelivery(s, c)

AuthInv ==
    \A s \in Servers : \A k \in Clients : \A c \in ConnIds :
        sock[k] = <<s, c>> => AuthenticatesOnce(k, s, c)

(* The next event, when it is an authenticate.                             *)
LEMMA FetchIsNext ==
    ASSUME TypeOK, NEW s \in Servers, AuthenticateFetch(s)
    PROVE  /\ AuthOf(Next_event(s), Next_event(s).conn)
           /\ events[s] \in Seq(Event) /\ events[s] # <<>>
           /\ 1 \in 1 .. Len(events[s]) /\ events[s][1] = Next_event(s)
           /\ events'[s] = Tail(events[s])
           /\ UNCHANGED <<out, seq, opening, last_seq, received, sock>>
           /\ Next_event(s).mailbox # NoMailbox
<1>1. /\ events[s] \in Seq(Event) /\ events[s] # <<>>
      /\ Next_event(s).type = "authenticate"
      /\ Next_event(s).mailbox # NoMailbox
      /\ Dequeue(s)
  BY DEF AuthenticateFetch, Handling, TypeOK
<1>2. 1 \in 1 .. Len(events[s]) /\ events[s][1] = Next_event(s)
  BY <1>1 DEF Next_event
<1>3. events'[s] = Tail(events[s])
  BY <1>1 DEF Dequeue, TypeOK
<1>4. UNCHANGED <<out, seq, opening, last_seq, received, sock>>
  BY DEF AuthenticateFetch, storeVars, clientVars
<1>5. QED
  BY <1>1, <1>2, <1>3, <1>4 DEF AuthOf

(* Before its backlog is flushed a socket delivers nothing.                *)
LEMMA NothingDelivered ==
    ASSUME TypeOK, NEW s \in Servers, NEW k \in Clients, NEW c \in ConnIds,
           sock[k] = <<s, c>>, NoDelivery(s, c)
    PROVE  ~OnDelivery(k)
<1> SUFFICES ASSUME OnDelivery(k) PROVE FALSE
  OBVIOUS
<1>1. Incoming(k, "delivery")
  BY DEF OnDelivery
<1>2. sock[k][1] = s /\ sock[k][2] = c
  OBVIOUS
<1>3. NextFrame(k) \in ToSet(out[s][c]) /\ NextFrame(k).type = "delivery"
  BY <1>1, <1>2, IncomingFrame
<1>4. QED
  BY <1>3 DEF NoDelivery

(* A new socket has authenticated nowhere.                                 *)
LEMMA OpenAuthenticates ==
    ASSUME TypeOK, Ownership, [Next]_vars, NEW s \in Servers, NEW k \in Clients,
           NEW c \in ConnIds, ClientOpen(k, s), c = next_id[s]
    PROVE  AuthenticatesOnce(k, s, c)'
<1>0. c \in Int /\ next_id[s] <= c
  BY DEF ConnIds
<1>1. connection_to_mailbox[s][c] = NoMailbox /\ ToSet(out[s][c]) = {}
  BY <1>0 DEF Ownership, Owned, FreshIds
<1>2. UNCHANGED <<task, connection_to_mailbox, out>>
  BY DEF ClientOpen, localVars
<1>3. \A e \in ToSet(events'[s]) :
          e \in ToSet(events[s]) \/ e = [type |-> "connected", conn |-> c]
  BY QueueElements DEF ClientOpen
<1>4. ASSUME NEW e \in ToSet(events'[s]) PROVE ~AuthOf(e, c)
  <2>1. CASE e \in ToSet(events[s])
    <3>1. e.type = "authenticate" => e.conn < next_id[s]
      BY <2>1 DEF Ownership, Owned, FreshIds
    <3>2. QED
      BY <1>0, <3>1 DEF AuthOf
  <2>2. CASE e = [type |-> "connected", conn |-> c]
    BY <2>2 DEF AuthOf
  <2>3. QED
    BY <1>3, <2>1, <2>2
<1>5. events'[s] \in Seq(Event)
  <2>1. TypeOK'
    BY NextType
  <2>2. QED
    BY <2>1 DEF TypeOK
<1>6. \A i \in 1 .. Len(events'[s]) : ~AuthOf(events'[s][i], c)
  <2> DEFINE es == events'[s]
  <2>1. es \in Seq(Event)
    BY <1>5
  <2> HIDE DEF es
  <2>2. \A i \in 1 .. Len(es) : es[i] \in ToSet(es)
    BY <2>1, ElementsOf
  <2>3. QED
    BY <1>4, <2>2 DEF es
<1>7. ~Authenticated(s, c)' /\ NoDelivery(s, c)'
  BY <1>1, <1>2 DEF Authenticated, NoDelivery
<1>8. QED
  BY <1>4, <1>6, <1>7 DEF AuthenticatesOnce

(* The frames of a socket that is not flushed yet are no deliveries.       *)
LEMMA NotFlushedYet ==
    ASSUME TypeOK, LocalTablesAgree, LiveInv, AuthInv, [Next]_vars,
           NEW s \in Servers, NEW k \in Clients, NEW c \in ConnIds,
           sock[k] = <<s, c>>, ~Crash(s),
           ~Authenticated(s, c)' \/ Registering(s, c)'
    PROVE  /\ NoDelivery(s, c) /\ NoDelivery(s, c)'
           /\ last_seq'[k] = last_seq[k] /\ received'[k] = received[k]
<1>1. AuthenticatesOnce(k, s, c) /\ RegisteringOwns(s)
  BY DEF AuthInv, LiveInv
<1>2. ~Authenticated(s, c) \/ Registering(s, c)
  <2>1. CASE ~Authenticated(s, c)'
    <3>1. AuthenticateFetch(s) => Next_event(s).mailbox # NoMailbox
      BY FetchIsNext
    <3>2. QED
      BY <2>1, <3>1, OwnerKept DEF Authenticated
  <2>2. CASE Registering(s, c)'
    <3>1. CASE task'[s] = task[s]
      BY <2>2, <3>1 DEF Registering
    <3>2. CASE AuthenticateFetch(s)
      <4>1. c = Next_event(s).conn
        BY <2>2, <3>2, FetchFacts DEF Registering
      <4>2. QED
        BY <3>2, <4>1 DEF AuthenticateFetch
    <3>3. QED
      BY <2>2, <3>1, <3>2, RegisterOrigin DEF Registering
  <2>3. QED
    BY <2>1, <2>2
<1>3. NoDelivery(s, c)
  BY <1>1, <1>2 DEF AuthenticatesOnce
<1>4. last_seq'[k] = last_seq[k] /\ received'[k] = received[k]
  BY <1>3, NothingDelivered, DeliveredOrigin
<1>5. ASSUME NEW f \in ToSet(out'[s][c]), f.type = "delivery", NewFrame(s, c, f)
      PROVE  FALSE
  <2>1. CASE AuthenticateFlush(s) /\ c = task[s].conn
    <3>1. Registering(s, c) /\ task[s].mailbox \in Mailboxes /\ task'[s] = Idle
      BY <2>1 DEF AuthenticateFlush, Registering, TypeOK, Task
    <3>2. connection_to_mailbox[s][c] = task[s].mailbox
      BY <1>1, <3>1 DEF Registering, RegisteringOwns
    <3>3. Authenticated(s, c)
      BY <3>1, <3>2, ConstantsAssumption DEF Authenticated
    <3>4. ~AuthenticateFetch(s)
      BY <3>1 DEF AuthenticateFetch, Handling, Registering, Idle
    <3>5. Authenticated(s, c)'
      BY <3>3, <3>4, OwnerKept DEF Authenticated
    <3>6. ~Registering(s, c)'
      BY <3>1 DEF Registering, Idle
    <3>7. QED
      BY <3>5, <3>6
  <2>2. ASSUME NEW mb \in Mailboxes, c \in Recipients(s, mb), task[s].at # "register"
        PROVE  FALSE
    <3>1. connection_to_mailbox[s][c] = mb
      BY <2>2 DEF Recipients, LocalTablesAgree
    <3>2. Authenticated(s, c)
      BY <3>1, ConstantsAssumption DEF Authenticated
    <3>3. QED
      BY <1>2, <2>2, <3>2 DEF Registering
  <2>3. CASE SendDeliver(s) /\ c \in Recipients(s, To[task[s].msg])
    <3>1. task[s].at = "route" /\ task[s].msg \in Messages
      BY <2>3 DEF SendDeliver, TypeOK, Task
    <3>2. QED
      BY <2>2, <2>3, <3>1, ConstantsAssumption
  <2>4. CASE HandlePubSubDelivery(s) /\ c \in Recipients(s, To[Next_event(s).msg])
    <3>1. Next_event(s).msg \in Messages
      BY <2>4, EventsType DEF HandlePubSubDelivery, Handling, Event
    <3>2. task[s].at # "register"
      BY <2>4 DEF HandlePubSubDelivery, Handling, Idle
    <3>3. QED
      BY <2>2, <2>4, <3>1, <3>2, ConstantsAssumption
  <2>5. QED
    BY <1>5, <2>1, <2>3, <2>4 DEF NewFrame, Ack, Typing
<1>6. NoDelivery(s, c)'
  BY <1>3, <1>5, FrameOrigin DEF NoDelivery
<1>7. QED
  BY <1>3, <1>4, <1>6

(* A socket that stays open authenticates only once.                       *)
LEMMA KeptAuthenticates ==
    ASSUME TypeOK, LocalTablesAgree, Ownership, LiveInv, AuthInv, [Next]_vars,
           NEW s \in Servers, NEW k \in Clients, NEW c \in ConnIds,
           sock[k] = <<s, c>>, sock'[k] = <<s, c>>
    PROVE  AuthenticatesOnce(k, s, c)'
<1> DEFINE es == events[s]
           es2 == events'[s]
<1>0. /\ ~Crash(s)
      /\ sock[k] # NoSocket
      /\ \A j \in Clients : sock[j] = <<s, c>> => j = k
      /\ AuthenticatesOnce(k, s, c)
  <2>1. ~Crash(s)
    BY LiveOrigin
  <2>2. sock[k] # NoSocket
    BY ConstantsAssumption
  <2>3. QED
    BY <2>1, <2>2 DEF Ownership, Owned, AuthInv
<1>1. es \in Seq(Event) /\ es2 \in Seq(Event)
  <2>1. TypeOK'
    BY NextType
  <2>2. QED
    BY <2>1 DEF TypeOK
<1>2. ASSUME NEW e, NewEvent(s, e), AuthOf(e, c)
      PROVE  /\ k \in opening /\ e.last_seq = last_seq[k]
             /\ opening' = opening \ {k}
             /\ UNCHANGED <<last_seq, connection_to_mailbox>>
  <2>1. PICK j \in Clients :
            /\ ClientAuthenticate(j)
            /\ sock[j][1] = s
            /\ e.conn = sock[j][2] /\ e.last_seq = last_seq[j]
    BY <1>2 DEF NewEvent, AuthOf
  <2>2. j \in opening /\ sock[j] = <<s, c>>
    BY <1>2, <2>1 DEF ClientAuthenticate, TypeOK, AuthOf
  <2>3. j = k
    BY <1>0, <2>2
  <2>4. QED
    BY <2>1, <2>2, <2>3 DEF ClientAuthenticate, localVars
<1>3. \A i, j \in 1 .. Len(es) : AuthOf(es[i], c) /\ AuthOf(es[j], c) => i = j
  BY <1>0 DEF AuthenticatesOnce
<1>4. \A i \in 1 .. Len(es) : AuthOf(es[i], c) =>
          es[i].last_seq = last_seq[k] /\ k \notin opening /\ ~Authenticated(s, c)
  <2> HIDE DEF es
  <2>1. \A i \in 1 .. Len(es) : es[i] \in ToSet(es)
    BY <1>1, ElementsOf
  <2>2. QED
    BY <1>0, <2>1 DEF AuthenticatesOnce, es
<1>5. es2 = es => \A i, j \in 1 .. Len(es2) :
                      AuthOf(es2[i], c) /\ AuthOf(es2[j], c) => i = j
  BY <1>3
<1>6. ASSUME es # <<>>, es2 = Tail(es)
      PROVE  \A i \in 1 .. Len(es2) : i + 1 \in 1 .. Len(es) /\ es2[i] = es[i + 1]
  <2> HIDE DEF es, es2
  <2>1. /\ Len(Tail(es)) = Len(es) - 1
        /\ \A i \in 1 .. Len(es) - 1 : Tail(es)[i] = es[i + 1]
    BY <1>1, <1>6, TailElements
  <2>2. Len(es) \in Nat
    BY <1>1
  <2>3. QED
    BY <1>6, <2>1, <2>2
<1>7. ASSUME NEW e \in Event, NewEvent(s, e), es2 = Append(es, e)
      PROVE  /\ Len(es2) = Len(es) + 1 /\ Len(es) \in Nat
             /\ \A i \in 1 .. Len(es) : es2[i] = es[i]
             /\ es2[Len(es) + 1] = e
  <2> HIDE DEF es, es2
  <2>1. QED
    BY <1>1, <1>7, AppendElements
<1>8. \A i, j \in 1 .. Len(es2) : AuthOf(es2[i], c) /\ AuthOf(es2[j], c) => i = j
  <2>1. CASE es # <<>> /\ es2 = Tail(es)
    <3> HIDE DEF es, es2
    <3>1. QED
      BY <1>3, <1>6, <2>1
  <2>2. ASSUME NEW e \in Event, NewEvent(s, e), es2 = Append(es, e)
        PROVE  \A i, j \in 1 .. Len(es2) : AuthOf(es2[i], c) /\ AuthOf(es2[j], c) => i = j
    <3>1. AuthOf(e, c) => \A i \in 1 .. Len(es) : ~AuthOf(es[i], c)
      BY <1>2, <1>4, <2>2
    <3> HIDE DEF es, es2
    <3>2. /\ Len(es2) = Len(es) + 1 /\ Len(es) \in Nat
          /\ \A i \in 1 .. Len(es) : es2[i] = es[i]
          /\ es2[Len(es) + 1] = e
      BY <1>7, <2>2
    <3>3. QED
      BY <1>3, <3>1, <3>2
  <2>3. QED
    BY <1>0, <1>5, <2>1, <2>2, EventStep
<1>9. ASSUME NEW e \in ToSet(es2), AuthOf(e, c)
      PROVE  e.last_seq = last_seq'[k] /\ k \notin opening' /\ ~Authenticated(s, c)'
  <2>1. CASE NewEvent(s, e)
    <3>1. ~Authenticated(s, c)
      BY <1>0, <1>2, <1>9, <2>1 DEF AuthenticatesOnce
    <3>2. QED
      BY <1>2, <1>9, <2>1, <3>1 DEF Authenticated
  <2>2. CASE e \in ToSet(es)
    <3>1. e.last_seq = last_seq[k] /\ k \notin opening /\ ~Authenticated(s, c)
      BY <1>0, <1>9, <2>2 DEF AuthenticatesOnce
    <3>2. ASSUME AuthenticateFetch(s), c = Next_event(s).conn PROVE FALSE
      <4>1. /\ AuthOf(es[1], c) /\ 1 \in 1 .. Len(es)
            /\ es # <<>> /\ es2 = Tail(es)
        BY <3>2, FetchIsNext
      <4>2. PICK i \in 1 .. Len(es2) : es2[i] = e
        <5> HIDE DEF es, es2
        <5>1. QED
          BY <1>1, <1>9, ElementsOf
      <4>3. i + 1 \in 1 .. Len(es) /\ AuthOf(es[i + 1], c) /\ i \in Nat
        BY <1>6, <1>9, <4>1, <4>2
      <4>4. i + 1 = 1
        BY <1>3, <4>1, <4>3
      <4>5. QED
        BY <4>2, <4>4
    <3>3. ~Authenticated(s, c)'
      BY <1>0, <3>1, <3>2, OwnerKept DEF Authenticated
    <3>4. last_seq'[k] = last_seq[k]
      BY <1>0, <3>3, NotFlushedYet
    <3>5. k \notin opening'
      BY <1>0, <3>1, OpeningOrigin
    <3>6. QED
      BY <3>1, <3>3, <3>4, <3>5
  <2>3. QED
    BY <1>9, <2>1, <2>2, EventOrigin
<1>10. ASSUME k \in opening' PROVE ~Authenticated(s, c)'
  <2>1. k \in opening /\ ~Authenticated(s, c)
    BY <1>0, <1>10, OpeningOrigin DEF AuthenticatesOnce
  <2>2. ~(AuthenticateFetch(s) /\ c = Next_event(s).conn)
    BY <1>4, <2>1, FetchIsNext
  <2>3. QED
    BY <1>0, <2>1, <2>2, OwnerKept DEF Authenticated
<1>11. ~Authenticated(s, c)' \/ Registering(s, c)' => NoDelivery(s, c)'
  BY <1>0, NotFlushedYet
<1>12. QED
  BY <1>8, <1>9, <1>10, <1>11 DEF AuthenticatesOnce

(* Each socket authenticates once, before anything is delivered on it.     *)
LEMMA AuthInvariant == Spec => []AuthInv
<1>1. Init => AuthInv
  BY ConstantsAssumption DEF Init, AuthInv
<1>2. TypeOK /\ LocalTablesAgree /\ Ownership /\ LiveInv /\ AuthInv /\ [Next]_vars
      => AuthInv'
  <2> SUFFICES ASSUME TypeOK, LocalTablesAgree, Ownership, LiveInv, AuthInv, [Next]_vars,
                      NEW s \in Servers, NEW k \in Clients, NEW c \in ConnIds,
                      sock'[k] = <<s, c>>
               PROVE  AuthenticatesOnce(k, s, c)'
    BY DEF AuthInv
  <2>1. CASE sock[k] = <<s, c>>
    BY <2>1, KeptAuthenticates
  <2>2. CASE ClientOpen(k, s) /\ c = next_id[s]
    BY <2>2, OpenAuthenticates
  <2>3. QED
    BY <2>1, <2>2, LiveOrigin
<1>3. QED
  BY <1>1, <1>2, TypeCorrect, TablesAgree, OwnershipInvariant, LiveInvariant, PTL
  DEF Spec

-----------------------------------------------------------------------------
(* The order of deliveries                                                 *)

(* The rows that an authentication takes on.                               *)
LEMMA FetchRows ==
    ASSUME TypeOK, NEW s \in Servers, AuthenticateFetch(s)
    PROVE  LET e == Next_event(s)
               r == task'[s].rows
           IN  /\ e.last_seq \in Nat
               /\ r \in Seq(Messages)
               /\ \A i \in 1 .. Len(r) : seq[r[i]] > e.last_seq
               /\ \A i, j \in 1 .. Len(r) : i < j => seq[r[i]] < seq[r[j]]
               /\ \A m \in RowsAfter(e.mailbox, e.last_seq) :
                      \E i \in 1 .. Len(r) : r[i] = m
<1> DEFINE e == Next_event(s)
<1>1. e.last_seq \in Nat
  BY EventsType DEF AuthenticateFetch, Handling, Event
<1>2. PICK r \in OrderedBySeq(RowsAfter(e.mailbox, e.last_seq)) :
         task' = [task EXCEPT ![s] = [at |-> "register", conn |-> e.conn,
                                      mailbox |-> e.mailbox, rows |-> r]]
  BY DEF AuthenticateFetch
<1>3. task'[s].rows = r
  BY <1>2 DEF TypeOK
<1> HIDE DEF e
<1>4. QED
  BY <1>1, <1>3, BacklogRows DEF e

(* The rows of a backlog ascend and are beyond its client's cursor.        *)
RowsAscend(s) ==
    task[s].at = "register" =>
        /\ \A i \in 1 .. Len(task[s].rows) : seq[task[s].rows[i]] > 0
        /\ \A i, j \in 1 .. Len(task[s].rows) :
               i < j => seq[task[s].rows[i]] < seq[task[s].rows[j]]

(* While it is registered, a client is behind its whole backlog.           *)
BacklogAhead(k, s, c) ==
    Registering(s, c) =>
        \A i \in 1 .. Len(task[s].rows) : seq[task[s].rows[i]] > last_seq[k]

BacklogInv ==
    \A s \in Servers :
        /\ RowsAscend(s)
        /\ \A k \in Clients : \A c \in ConnIds :
               sock[k] = <<s, c>> => BacklogAhead(k, s, c)

(* A backlog is read with the cursor that its client still has when it is  *)
(* flushed.                                                                *)
LEMMA NextBacklog ==
    ASSUME TypeOK, LocalTablesAgree, Ownership, LiveInv, AuthInv, BacklogInv, [Next]_vars
    PROVE  BacklogInv'
<1> SUFFICES ASSUME NEW s \in Servers
             PROVE  /\ RowsAscend(s)'
                    /\ \A k \in Clients : \A c \in ConnIds :
                           sock'[k] = <<s, c>> => BacklogAhead(k, s, c)'
  BY DEF BacklogInv
<1>1. \A m \in Messages : seq[m] > 0 => seq'[m] = seq[m]
  BY NextNumbers DEF NumbersStep
<1>2. ASSUME task'[s] = task[s], task[s].at = "register"
      PROVE  \A i \in 1 .. Len(task[s].rows) :
                 seq[task[s].rows[i]] > 0 /\ seq'[task[s].rows[i]] = seq[task[s].rows[i]]
  <2> DEFINE r == task[s].rows
  <2>1. r \in Seq(Messages)
    BY <1>2, BacklogType
  <2>2. \A i \in 1 .. Len(r) : r[i] \in Messages
    BY <2>1
  <2>3. \A i \in 1 .. Len(r) : seq[r[i]] > 0
    BY <1>2 DEF BacklogInv, RowsAscend
  <2>4. QED
    BY <1>1, <2>2, <2>3
<1>3. ASSUME AuthenticateFetch(s)
      PROVE  LET r == task'[s].rows IN
             /\ Next_event(s).last_seq \in Nat
             /\ \A i \in 1 .. Len(r) : r[i] \in Messages /\ seq'[r[i]] = seq[r[i]]
             /\ \A i \in 1 .. Len(r) : seq[r[i]] > Next_event(s).last_seq
             /\ \A i, j \in 1 .. Len(r) : i < j => seq[r[i]] < seq[r[j]]
  <2> DEFINE r == task'[s].rows
             n == Next_event(s).last_seq
  <2>1. /\ n \in Nat
        /\ r \in Seq(Messages)
        /\ \A i \in 1 .. Len(r) : seq[r[i]] > n
        /\ \A i, j \in 1 .. Len(r) : i < j => seq[r[i]] < seq[r[j]]
    BY <1>3, FetchRows
  <2>2. seq' = seq
    BY <1>3, FetchIsNext
  <2> HIDE DEF r, n
  <2>3. \A i \in 1 .. Len(r) : r[i] \in Messages /\ seq'[r[i]] = seq[r[i]]
    BY <2>1, <2>2
  <2>4. QED
    BY <2>1, <2>3 DEF r, n
<1>4. RowsAscend(s)'
  <2> SUFFICES ASSUME task'[s].at = "register"
               PROVE  /\ \A i \in 1 .. Len(task'[s].rows) : seq'[task'[s].rows[i]] > 0
                      /\ \A i, j \in 1 .. Len(task'[s].rows) :
                             i < j => seq'[task'[s].rows[i]] < seq'[task'[s].rows[j]]
    BY DEF RowsAscend
  <2>1. CASE task'[s] = task[s]
    <3>1. \A i, j \in 1 .. Len(task[s].rows) :
              i < j => seq[task[s].rows[i]] < seq[task[s].rows[j]]
      BY <2>1 DEF BacklogInv, RowsAscend
    <3>2. QED
      BY <1>2, <2>1, <3>1
  <2>2. CASE AuthenticateFetch(s)
    <3> DEFINE r == task'[s].rows
               n == Next_event(s).last_seq
    <3>1. /\ n \in Nat
          /\ \A i \in 1 .. Len(r) : r[i] \in Messages /\ seq'[r[i]] = seq[r[i]]
          /\ \A i \in 1 .. Len(r) : seq[r[i]] > n
          /\ \A i, j \in 1 .. Len(r) : i < j => seq[r[i]] < seq[r[j]]
      BY <1>3, <2>2
    <3>2. \A m \in Messages : seq[m] \in Nat
      BY DEF TypeOK
    <3> HIDE DEF r, n
    <3>3. \A i \in 1 .. Len(r) : seq'[r[i]] > 0
      BY <3>1, <3>2
    <3>4. \A i, j \in 1 .. Len(r) : i < j => seq'[r[i]] < seq'[r[j]]
      BY <3>1
    <3>5. QED
      BY <3>3, <3>4 DEF r
  <2>3. QED
    BY <2>1, <2>2, RegisterOrigin
<1>5. ASSUME NEW k \in Clients, NEW c \in ConnIds, sock'[k] = <<s, c>>,
             Registering(s, c)'
      PROVE  \A i \in 1 .. Len(task'[s].rows) : seq'[task'[s].rows[i]] > last_seq'[k]
  <2>0. ~Crash(s)
    BY <1>5, LiveOrigin
  <2>1. CASE ClientOpen(k, s) /\ c = next_id[s]
    <3>1. task' = task
      BY <2>1 DEF ClientOpen
    <3>2. task[s].at = "register" => task[s].conn < next_id[s]
      BY DEF Ownership, Owned, FreshIds
    <3>3. c \in Int
      BY DEF ConnIds
    <3>4. QED
      BY <1>5, <2>1, <3>1, <3>2, <3>3 DEF Registering
  <2>2. CASE sock[k] = <<s, c>>
    <3>1. last_seq'[k] = last_seq[k]
      BY <1>5, <2>0, <2>2, NotFlushedYet
    <3>2. CASE task'[s] = task[s]
      <4>1. BacklogAhead(k, s, c) /\ Registering(s, c)
        BY <1>5, <2>2, <3>2 DEF BacklogInv, Registering
      <4>2. QED
        BY <1>2, <3>1, <3>2, <4>1 DEF BacklogAhead, Registering
    <3>3. CASE AuthenticateFetch(s)
      <4> DEFINE r == task'[s].rows
                 n == Next_event(s).last_seq
      <4>1. c = Next_event(s).conn /\ Next_event(s) \in ToSet(events[s])
        BY <1>5, <3>3, FetchFacts DEF Registering
      <4>2. n = last_seq[k]
        BY <2>2, <3>3, <4>1, FetchIsNext DEF AuthInv, AuthenticatesOnce
      <4>3. /\ \A i \in 1 .. Len(r) : seq'[r[i]] = seq[r[i]]
            /\ \A i \in 1 .. Len(r) : seq[r[i]] > n
        BY <1>3, <3>3
      <4> HIDE DEF r, n
      <4>4. \A i \in 1 .. Len(r) : seq'[r[i]] > last_seq'[k]
        BY <3>1, <4>2, <4>3
      <4>5. QED
        BY <4>4 DEF r
    <3>4. QED
      BY <1>5, <3>2, <3>3, RegisterOrigin DEF Registering
  <2>3. QED
    BY <1>5, <2>1, <2>2, LiveOrigin
<1>6. QED
  BY <1>4, <1>5 DEF BacklogAhead

(* Backlogs stay in order and ahead of the cursor.                         *)
LEMMA BacklogInvariant == Spec => []BacklogInv
<1>1. Init => BacklogInv
  BY DEF Init, BacklogInv, RowsAscend, BacklogAhead, Registering, Idle
<1>2. TypeOK /\ LocalTablesAgree /\ Ownership /\ LiveInv /\ AuthInv /\ BacklogInv /\ [Next]_vars
      => BacklogInv'
  BY NextBacklog
<1>3. QED
  BY <1>1, <1>2, TypeCorrect, TablesAgree, OwnershipInvariant, LiveInvariant,
     AuthInvariant, PTL DEF Spec

(* The deliveries of a queue that carry a number ascend beyond n.          *)
Ascends(q, n) ==
    \A i \in DOMAIN q : Numbered(q[i]) =>
        /\ q[i].seq > n
        /\ \A j \in DOMAIN q : i < j /\ Numbered(q[j]) => q[i].seq < q[j].seq

(* The number of a delivery is a natural.                                  *)
LEMMA NumberType ==
    ASSUME NEW q \in Seq(Frame)
    PROVE  \A i \in 1 .. Len(q) : q[i].type = "delivery" => q[i].seq \in Nat /\ q[i].msg \in Messages
<1>1. \A i \in 1 .. Len(q) : q[i] \in Frame
  OBVIOUS
<1>2. QED
  BY <1>1 DEF Frame

(* Taking the first frame, and moving the cursor when it is a delivery.    *)
LEMMA AscendsTail ==
    ASSUME NEW q \in Seq(Frame), q # <<>>, NEW n \in Nat, Ascends(q, n), NEW n2 \in Nat,
           \/ n2 = n
           \/ /\ Head(q).type = "delivery"
              /\ n2 = IF Head(q).seq > n THEN Head(q).seq ELSE n
    PROVE  Ascends(Tail(q), n2)
<1> DEFINE t == Tail(q)
<1>1. /\ Head(q) = q[1] /\ 1 \in 1 .. Len(q)
      /\ t \in Seq(Frame) /\ Len(t) = Len(q) - 1 /\ Len(q) \in Nat
      /\ \A i \in 1 .. Len(q) - 1 : t[i] = q[i + 1]
  BY TailElements
<1>2. \A i \in 1 .. Len(q) : q[i].type = "delivery" => q[i].seq \in Nat
  BY NumberType
<1>3. DOMAIN q = 1 .. Len(q) /\ DOMAIN t = 1 .. Len(t)
  BY <1>1
<1> HIDE DEF t
<1>4. ASSUME NEW i \in 1 .. Len(t), Numbered(t[i])
      PROVE  /\ t[i].seq > n2
             /\ \A j \in 1 .. Len(t) : i < j /\ Numbered(t[j]) => t[i].seq < t[j].seq
  <2>1. i + 1 \in 1 .. Len(q) /\ t[i] = q[i + 1] /\ 1 < i + 1
    BY <1>1
  <2>2. q[i + 1].seq > n /\ q[i + 1].seq \in Nat
    BY <1>2, <1>3, <1>4, <2>1 DEF Ascends, Numbered
  <2>3. q[1].type = "delivery" /\ q[1].seq > 0 => q[1].seq < q[i + 1].seq
    BY <1>1, <1>3, <1>4, <2>1 DEF Ascends, Numbered
  <2>4. q[1].type = "delivery" => q[1].seq \in Nat
    BY <1>1, <1>2
  <2>5. t[i].seq > n2
    BY <1>1, <2>1, <2>2, <2>3, <2>4
  <2>6. ASSUME NEW j \in 1 .. Len(t), i < j, Numbered(t[j]) PROVE t[i].seq < t[j].seq
    <3>1. j + 1 \in 1 .. Len(q) /\ t[j] = q[j + 1] /\ i + 1 < j + 1
      BY <1>1, <2>6
    <3>2. QED
      BY <1>3, <1>4, <2>1, <2>6, <3>1 DEF Ascends
  <2>7. QED
    BY <2>5, <2>6
<1>5. QED
  BY <1>3, <1>4 DEF Ascends, t

(* Appending a frame, whose number, if it has one, is beyond all others.   *)
LEMMA AscendsAppend ==
    ASSUME NEW q \in Seq(Frame), NEW n \in Nat, Ascends(q, n), NEW f \in Frame,
           Numbered(f) => /\ f.seq > n
                          /\ \A g \in ToSet(q) : g.type = "delivery" => g.seq < f.seq
    PROVE  Ascends(Append(q, f), n)
<1> DEFINE a == Append(q, f)
<1>1. /\ a \in Seq(Frame) /\ Len(a) = Len(q) + 1 /\ Len(q) \in Nat
      /\ \A i \in 1 .. Len(q) : a[i] = q[i]
      /\ a[Len(q) + 1] = f
  BY AppendElements
<1>2. DOMAIN q = 1 .. Len(q) /\ DOMAIN a = 1 .. Len(a)
  BY <1>1
<1>3. \A i \in 1 .. Len(q) : q[i] \in ToSet(q)
  BY ElementsOf
<1> HIDE DEF a
<1>4. ASSUME NEW i \in 1 .. Len(a), Numbered(a[i])
      PROVE  /\ a[i].seq > n
             /\ \A j \in 1 .. Len(a) : i < j /\ Numbered(a[j]) => a[i].seq < a[j].seq
  <2>1. CASE i = Len(q) + 1
    BY <1>1, <1>4, <2>1
  <2>2. CASE i # Len(q) + 1
    <3>1. i \in 1 .. Len(q) /\ a[i] = q[i]
      BY <1>1, <2>2
    <3>2. a[i].seq > n
      BY <1>2, <1>4, <3>1 DEF Ascends
    <3>3. ASSUME NEW j \in 1 .. Len(a), i < j, Numbered(a[j]) PROVE a[i].seq < a[j].seq
      <4>1. CASE j = Len(q) + 1
        BY <1>1, <1>3, <1>4, <3>1, <3>3, <4>1 DEF Numbered
      <4>2. CASE j # Len(q) + 1
        <5>1. j \in 1 .. Len(q) /\ a[j] = q[j]
          BY <1>1, <4>2
        <5>2. QED
          BY <1>2, <1>4, <3>1, <3>3, <5>1 DEF Ascends
      <4>3. QED
        BY <4>1, <4>2
    <3>4. QED
      BY <3>2, <3>3
  <2>3. QED
    BY <2>1, <2>2
<1>5. QED
  BY <1>2, <1>4 DEF Ascends, a

(* Putting deliveries that ascend behind frames that are no deliveries.    *)
LEMMA AscendsConcat ==
    ASSUME NEW q \in Seq(Frame), NEW b \in Seq(Frame), NEW n \in Nat, Ascends(b, n),
           \A g \in ToSet(q) : g.type # "delivery"
    PROVE  Ascends(q \o b, n)
<1> DEFINE a == q \o b
<1>1. /\ a \in Seq(Frame) /\ Len(a) = Len(q) + Len(b) /\ Len(q) \in Nat /\ Len(b) \in Nat
      /\ \A i \in 1 .. Len(q) : a[i] = q[i]
      /\ \A i \in 1 .. Len(b) : a[Len(q) + i] = b[i]
  BY ConcatElements
<1>2. DOMAIN b = 1 .. Len(b) /\ DOMAIN a = 1 .. Len(a)
  BY <1>1
<1>3. \A i \in 1 .. Len(q) : q[i].type # "delivery"
  BY ElementsOf
<1> HIDE DEF a
<1>4. ASSUME NEW i \in 1 .. Len(a), Numbered(a[i])
      PROVE  i - Len(q) \in 1 .. Len(b) /\ a[i] = b[i - Len(q)]
  <2>1. i \notin 1 .. Len(q)
    BY <1>1, <1>3, <1>4 DEF Numbered
  <2>2. i - Len(q) \in 1 .. Len(b) /\ Len(q) + (i - Len(q)) = i
    BY <1>1, <2>1
  <2>3. a[Len(q) + (i - Len(q))] = b[i - Len(q)]
    BY <1>1, <2>2
  <2>4. QED
    BY <2>2, <2>3
<1>5. ASSUME NEW i \in 1 .. Len(a), Numbered(a[i])
      PROVE  /\ a[i].seq > n
             /\ \A j \in 1 .. Len(a) : i < j /\ Numbered(a[j]) => a[i].seq < a[j].seq
  <2>1. i - Len(q) \in 1 .. Len(b) /\ a[i] = b[i - Len(q)]
    BY <1>4, <1>5
  <2>2. a[i].seq > n
    BY <1>2, <1>5, <2>1 DEF Ascends
  <2>3. ASSUME NEW j \in 1 .. Len(a), i < j, Numbered(a[j]) PROVE a[i].seq < a[j].seq
    <3>1. j - Len(q) \in 1 .. Len(b) /\ a[j] = b[j - Len(q)] /\ i - Len(q) < j - Len(q)
      BY <1>1, <1>4, <2>3
    <3>2. QED
      BY <1>2, <1>5, <2>1, <2>3, <3>1 DEF Ascends
  <2>4. QED
    BY <2>2, <2>3
<1>6. QED
  BY <1>2, <1>5 DEF Ascends, a

(* No row has a number that IDENTITY has not handed out.                   *)
StoreBounded == \A m \in Messages : seq[m] <= identity

(* IDENTITY moves with every INSERT that takes a number.                   *)
LEMMA BoundedInvariant == Spec => []StoreBounded
<1>1. Init => StoreBounded
  BY DEF Init, StoreBounded
<1>2. TypeOK /\ StoreBounded /\ [Next]_vars => StoreBounded'
  <2> SUFFICES ASSUME TypeOK, StoreBounded, [Next]_vars, NEW x \in Messages
               PROVE  seq'[x] <= identity'
    BY DEF StoreBounded
  <2>1. seq[x] <= identity /\ seq[x] \in Nat /\ identity \in Nat
    BY DEF StoreBounded, TypeOK
  <2>2. ASSUME NEW s \in Servers, SendInsert(s) PROVE seq'[x] <= identity'
    <3> DEFINE m == Next_event(s).msg
    <3>1. /\ identity <= identity'
          /\ seq'[x] = seq[x] \/ (seq'[x] = identity + 1 /\ identity' = identity + 1)
      BY <2>2, InsertFacts
    <3>2. identity' \in Nat
      BY NextType DEF TypeOK
    <3>3. QED
      BY <2>1, <3>1, <3>2
  <2>3. QED
    BY <2>1, <2>2, StoreOrigin
<1>3. QED
  BY <1>1, <1>2, TypeCorrect, PTL DEF Spec

(* A process never publishes to itself.                                    *)
NoPubSub ==
    \A s \in Servers :
        /\ ToSet(channel[s]) = {}
        /\ \A e \in ToSet(events[s]) : e.type # "pubsub"

(* Without another server nothing is published, so nothing is forwarded.   *)
LEMMA NoPubSubInvariant == (OneServer /\ Spec) => []NoPubSub
<1> SUFFICES ASSUME OneServer PROVE Spec => []NoPubSub
  OBVIOUS
<1>1. Init => NoPubSub
  BY ToSetOfEmpty DEF Init, NoPubSub
<1>2. OneServer /\ TypeOK /\ NoPubSub /\ [Next]_vars => NoPubSub'
  <2> SUFFICES ASSUME OneServer, TypeOK, NoPubSub, [Next]_vars, NEW s \in Servers
               PROVE  /\ ToSet(channel'[s]) = {}
                      /\ \A e \in ToSet(events'[s]) : e.type # "pubsub"
    BY DEF NoPubSub
  <2>1. \A r, q \in Servers : ~SendPublish(r, q)
    BY DEF SendPublish, OneServer
  <2>2. ASSUME NEW p \in ToSet(channel'[s]) PROVE FALSE
    BY <2>1, PubSubOrigin DEF NoPubSub
  <2>3. ~SubscriberForward(s)
    <3>1. channel[s] \in Seq(PubSubPayload) /\ ToSet(channel[s]) = {}
      BY DEF TypeOK, NoPubSub
    <3>2. channel[s] = <<>>
      <4>1. CASE channel[s] # <<>>
        BY <3>1, <4>1, ToSetOfTail
      <4>2. QED
        BY <4>1
    <3>3. QED
      BY <3>2 DEF SubscriberForward
  <2>4. ASSUME NEW e \in ToSet(events'[s]) PROVE e.type # "pubsub"
    <3>1. NewEvent(s, e) => e.type # "pubsub"
      BY <2>3 DEF NewEvent
    <3>2. QED
      BY <3>1, EventOrigin DEF NoPubSub
  <2>5. QED
    BY <2>2, <2>4
<1>3. QED
  BY <1>1, <1>2, TypeCorrect, PTL DEF Spec

(* The handler has yet to deliver a message to its mailbox on this server. *)
Carries(s) == task[s].at = "lookup" \/ (task[s].at = "route" /\ s \in task[s].to)

(* What it will deliver is newer than whatever was sent before.            *)
TaskAhead ==
    \A s \in Servers : Carries(s) /\ task[s].seq > 0 =>
        /\ \A k \in Clients : last_seq[k] < task[s].seq
        /\ \A c \in ConnIds : \A f \in ToSet(out[s][c]) :
               f.type = "delivery" => f.seq < task[s].seq

(* One handler at a time: from its INSERT until its delivery nothing is    *)
(* delivered that was stored later, and nothing newer was stored before.   *)
LEMMA NextAhead ==
    ASSUME OneServer, TypeOK, CarriedSeqIsTheRows, CursorIsARow, StoreBounded, NoPubSub,
           TaskAhead, [Next]_vars
    PROVE  TaskAhead'
<1> SUFFICES ASSUME NEW s \in Servers, Carries(s)', task'[s].seq > 0
             PROVE  /\ \A k \in Clients : last_seq'[k] < task'[s].seq
                    /\ \A c \in ConnIds : \A f \in ToSet(out'[s][c]) :
                           f.type = "delivery" => f.seq < task'[s].seq
  BY DEF TaskAhead
<1> DEFINE Ahead == \A k \in Clients : last_seq'[k] < task'[s].seq
           Behind == \A c \in ConnIds : \A f \in ToSet(out'[s][c]) :
                         f.type = "delivery" => f.seq < task'[s].seq
<1>0. \A c \in ConnIds : \A f \in ToSet(out[s][c]) :
          f.type = "delivery" => f.seq \in Nat /\ f.msg \in Messages
  <2> SUFFICES ASSUME NEW c \in ConnIds, NEW f \in ToSet(out[s][c]), f.type = "delivery"
               PROVE  f.seq \in Nat /\ f.msg \in Messages
    OBVIOUS
  <2>1. out[s][c] \in Seq(Frame)
    BY DEF TypeOK
  <2>2. f \in Frame
    BY <2>1, ElementsInRange
  <2>3. QED
    BY <2>2 DEF Frame
<1>1. ASSUME Carries(s), task[s].seq > 0, task'[s].seq = task[s].seq
      PROVE  Ahead
  <2> SUFFICES ASSUME NEW k \in Clients PROVE last_seq'[k] < task[s].seq
    BY <1>1
  <2>1. last_seq[k] < task[s].seq
    BY <1>1 DEF TaskAhead
  <2>2. CASE OnDelivery(k)
    <3> DEFINE r == sock[k][1]
               c == sock[k][2]
               f == NextFrame(k)
    <3>1. /\ r \in Servers /\ c \in ConnIds
          /\ f \in ToSet(out[r][c]) /\ f.type = "delivery"
      BY <2>2, IncomingFrame DEF OnDelivery
    <3>2. r = s
      BY <3>1 DEF OneServer
    <3>3. f.seq < task[s].seq
      BY <1>1, <3>1, <3>2 DEF TaskAhead
    <3>4. last_seq'[k] = CursorAfter(k, f.seq)
      BY <2>2 DEF OnDelivery, TypeOK
    <3>5. QED
      BY <2>1, <3>3, <3>4 DEF CursorAfter
  <2>3. QED
    BY <2>1, <2>2, DeliveredOrigin
<1>2. ASSUME NEW c \in ConnIds, NEW f \in ToSet(out'[s][c]), f.type = "delivery",
             f \notin ToSet(out[s][c])
      PROVE  AuthenticateFlush(s) \/ SendDeliver(s)
  <2>1. NewFrame(s, c, f)
    BY <1>2, FrameOrigin
  <2>2. ~HandlePubSubDelivery(s)
    <3>1. HandlePubSubDelivery(s) => Next_event(s) \in ToSet(events[s]) /\ Next_event(s).type = "pubsub"
      BY ToSetOfTail DEF HandlePubSubDelivery, Handling, TypeOK, Next_event
    <3>2. QED
      BY <3>1 DEF NoPubSub
  <2>3. QED
    BY <1>2, <2>1, <2>2 DEF NewFrame, Ack, Typing
<1>3. ASSUME Carries(s), task[s].seq > 0, task'[s].seq = task[s].seq,
             ~AuthenticateFlush(s), ~SendDeliver(s)
      PROVE  Behind
  <2> SUFFICES ASSUME NEW c \in ConnIds, NEW f \in ToSet(out'[s][c]), f.type = "delivery"
               PROVE  f.seq < task[s].seq
    BY <1>3
  <2>1. f \in ToSet(out[s][c])
    BY <1>2, <1>3
  <2>2. QED
    BY <1>3, <2>1 DEF TaskAhead
<1>4. CASE task'[s] = task[s]
  <2>1. Carries(s) /\ task[s].seq > 0
    BY <1>4 DEF Carries
  <2>2. ~AuthenticateFlush(s)
    BY <2>1 DEF AuthenticateFlush, Carries
  <2>3. ~SendDeliver(s)
    <3>1. SendDeliver(s) => task'[s] = RoutedTo(task[s], s) /\ s \in task[s].to
      BY DEF SendDeliver, TypeOK
    <3>2. s \notin RoutedTo(task[s], s).to \/ RoutedTo(task[s], s) = Idle
      BY DEF RoutedTo
    <3>3. task[s] # Idle
      BY <2>1 DEF Carries, Idle
    <3>4. QED
      BY <1>4, <3>1, <3>2, <3>3
  <2>4. QED
    BY <1>1, <1>3, <1>4, <2>1, <2>2, <2>3
<1>5. CASE SendInsert(s)
  <2>1. /\ task'[s].seq = identity + 1 /\ identity \in Nat
    BY <1>5, InsertFacts DEF TypeOK
  <2>2. last_seq' = last_seq
    BY <1>5 DEF SendInsert, clientVars
  <2>3. \A k \in Clients : last_seq[k] <= identity
    BY <2>1 DEF CursorIsARow, StoreBounded
  <2>4. Ahead
    <3>1. \A k \in Clients : last_seq[k] \in Nat
      BY DEF TypeOK
    <3>2. QED
      BY <2>1, <2>2, <2>3, <3>1
  <2>5. ~AuthenticateFlush(s) /\ ~SendDeliver(s)
    BY <1>5 DEF AuthenticateFlush, SendDeliver, SendInsert, Handling, Idle
  <2>6. ASSUME NEW c \in ConnIds, NEW f \in ToSet(out'[s][c]), f.type = "delivery"
        PROVE  f.seq < task'[s].seq
    <3>1. f \in ToSet(out[s][c])
      BY <1>2, <2>5, <2>6
    <3>2. f.seq \in Nat /\ f.msg \in Messages
      BY <1>0, <2>6, <3>1
    <3>3. f.seq = 0 \/ seq[f.msg] = f.seq
      BY <2>6, <3>1 DEF CarriedSeqIsTheRows, SeqOfRow
    <3>4. QED
      BY <2>1, <3>2, <3>3 DEF StoreBounded
  <2>7. QED
    BY <2>4, <2>6
<1>6. CASE SendLookup(s)
  <2>1. task[s].at = "lookup" /\ task'[s] # Idle
    BY <1>6 DEF SendLookup, Carries, Idle
  <2>2. task'[s].seq = task[s].seq
    BY <1>6, <2>1 DEF SendLookup, TypeOK
  <2>3. ~AuthenticateFlush(s) /\ ~SendDeliver(s) /\ Carries(s)
    BY <2>1 DEF AuthenticateFlush, SendDeliver, Carries
  <2>4. QED
    BY <1>1, <1>3, <2>2, <2>3
<1>7. ~SendDeliver(s)
  <2>1. SendDeliver(s) => task'[s] = RoutedTo(task[s], s) /\ s \in task[s].to
    BY DEF SendDeliver, TypeOK
  <2>2. s \notin RoutedTo(task[s], s).to \/ RoutedTo(task[s], s) = Idle
    BY DEF RoutedTo
  <2>3. RoutedTo(task[s], s).at # "lookup"
    BY DEF RoutedTo, Idle
  <2>4. QED
    BY <2>1, <2>2, <2>3 DEF Carries, Idle
<1>8. ~AuthenticateFetch(s) /\ task'[s] # Idle /\ \A r \in Servers : ~SendPublish(s, r)
  BY FetchFacts DEF Carries, Idle, SendPublish, OneServer
<1>9. QED
  BY <1>4, <1>5, <1>6, <1>7, <1>8, TaskOrigin

(* A message being handled is newer than whatever was delivered.           *)
LEMMA AheadInvariant == (OneServer /\ Spec) => []TaskAhead
<1> SUFFICES ASSUME OneServer PROVE Spec => []TaskAhead
  OBVIOUS
<1>1. Init => TaskAhead
  BY DEF Init, TaskAhead, Carries, Idle
<1>2. /\ OneServer /\ TypeOK /\ CarriedSeqIsTheRows /\ CursorIsARow /\ StoreBounded
      /\ NoPubSub /\ TaskAhead /\ [Next]_vars
      => TaskAhead'
  BY NextAhead
<1>3. QED
  BY <1>1, <1>2, TypeCorrect, CarriedSeqIsRight, CursorsAreRows, BoundedInvariant,
     NoPubSubInvariant, PTL DEF Spec

(* The backlog that is flushed ascends beyond its client's cursor.         *)
LEMMA BacklogAscends ==
    ASSUME TypeOK, BacklogInv, NEW s \in Servers, NEW k \in Clients, NEW c \in ConnIds,
           sock[k] = <<s, c>>, Registering(s, c)
    PROVE  Backlog(s) \in Seq(Frame) /\ Ascends(Backlog(s), last_seq[k])
<1> DEFINE r == task[s].rows
           b == Backlog(s)
<1>1. task[s].at = "register"
  BY DEF Registering
<1>2. r \in Seq(Messages) /\ b \in Seq(Frame)
  BY <1>1, BacklogType
<1>3. DOMAIN b = 1 .. Len(r) /\ \A i \in 1 .. Len(r) : b[i].seq = seq[r[i]]
  BY DEF Backlog, Delivery
<1>4. \A i \in 1 .. Len(r) : seq[r[i]] > last_seq[k]
  BY DEF BacklogInv, BacklogAhead
<1>5. \A i, j \in 1 .. Len(r) : i < j => seq[r[i]] < seq[r[j]]
  BY <1>1 DEF BacklogInv, RowsAscend
<1> HIDE DEF r, b
<1>6. Ascends(b, last_seq[k])
  BY <1>3, <1>4, <1>5 DEF Ascends
<1>7. QED
  BY <1>2, <1>6 DEF b

(* A queue that stays open ascends: the backlog comes before all live      *)
(* deliveries, and these come in the order of their rows.                  *)
LEMMA KeptAscends ==
    ASSUME OneServer, TypeOK, Ownership, AuthInv, BacklogInv, NoPubSub, TaskAhead,
           [Next]_vars, NEW s \in Servers, NEW k \in Clients, NEW c \in ConnIds,
           sock[k] = <<s, c>>, sock'[k] = <<s, c>>, Ascends(out[s][c], last_seq[k])
    PROVE  Ascends(out'[s][c], last_seq'[k])
<1> DEFINE q == out[s][c]
           n == last_seq[k]
           n2 == last_seq'[k]
<1>0. q \in Seq(Frame) /\ n \in Nat /\ n2 \in Nat /\ Ascends(q, n)
  <2>1. TypeOK'
    BY NextType
  <2>2. n2 \in Nat
    BY <2>1 DEF TypeOK
  <2>3. QED
    BY <2>2 DEF TypeOK
<1>1. CASE OnDelivery(k) /\ out'[s][c] = Tail(q)
  <2>1. NextFrame(k) = Head(q) /\ Incoming(k, "delivery")
    BY <1>1 DEF OnDelivery, NextFrame
  <2>2. q # <<>> /\ Head(q).type = "delivery"
    BY <2>1 DEF Incoming
  <2>3. n2 = IF Head(q).seq > n THEN Head(q).seq ELSE n
    BY <1>1, <2>1 DEF OnDelivery, CursorAfter, TypeOK
  <2> HIDE DEF q, n, n2
  <2>4. Ascends(Tail(q), n2)
    BY <1>0, <2>2, <2>3, AscendsTail
  <2>5. QED
    BY <1>1, <2>4 DEF n2
<1>2. CASE Given(k) /\ out'[s][c] = q
  BY <1>0, <1>2 DEF Given
<1>3. CASE Given(k) /\ q # <<>> /\ out'[s][c] = Tail(q)
  <2>1. n2 = n
    BY <1>3 DEF Given
  <2> HIDE DEF q, n, n2
  <2>2. Ascends(Tail(q), n2)
    BY <1>0, <1>3, <2>1, AscendsTail
  <2>3. QED
    BY <1>3, <2>2 DEF n2
<1>4. CASE Given(k) /\ AuthenticateFlush(s) /\ c = task[s].conn
           /\ out'[s][c] = q \o Backlog(s)
  <2>1. Registering(s, c)
    BY <1>4 DEF AuthenticateFlush, Registering
  <2>2. \A g \in ToSet(q) : g.type # "delivery"
    BY <2>1 DEF AuthInv, AuthenticatesOnce, NoDelivery
  <2>3. Backlog(s) \in Seq(Frame) /\ Ascends(Backlog(s), n)
    BY <2>1, BacklogAscends
  <2>4. n2 = n
    BY <1>4 DEF Given
  <2> HIDE DEF q, n, n2
  <2>5. Ascends(q \o Backlog(s), n)
    BY <1>0, <2>2, <2>3, AscendsConcat
  <2>6. QED
    BY <1>4, <2>4, <2>5 DEF n2
<1>5. ASSUME Given(k), NEW f \in Frame, NewFrame(s, c, f), task[s].at # "register",
             out'[s][c] = Append(q, f)
      PROVE  Ascends(out'[s][c], last_seq'[k])
  <2>1. n2 = n
    BY <1>5 DEF Given
  <2>2. ASSUME Numbered(f)
        PROVE  f.seq > n /\ \A g \in ToSet(q) : g.type = "delivery" => g.seq < f.seq
    <3>1. ~HandlePubSubDelivery(s)
      <4>1. HandlePubSubDelivery(s) =>
                Next_event(s) \in ToSet(events[s]) /\ Next_event(s).type = "pubsub"
        BY ToSetOfTail DEF HandlePubSubDelivery, Handling, TypeOK, Next_event
      <4>2. QED
        BY <4>1 DEF NoPubSub
    <3>2. ~AuthenticateFlush(s)
      BY <1>5 DEF AuthenticateFlush
    <3>3. SendDeliver(s) /\ f = Delivery(task[s].msg, task[s].seq)
      BY <1>5, <2>2, <3>1, <3>2 DEF NewFrame, Numbered, Ack, Typing
    <3>4. Carries(s) /\ f.seq = task[s].seq /\ task[s].seq > 0
      BY <2>2, <3>3 DEF SendDeliver, Carries, Delivery, Numbered
    <3>5. n < task[s].seq /\ \A g \in ToSet(q) : g.type = "delivery" => g.seq < task[s].seq
      BY <3>4 DEF TaskAhead
    <3>6. task[s].seq \in Nat
      BY <3>3 DEF TypeOK, Task, SendDeliver
    <3>7. QED
      BY <1>0, <3>4, <3>5, <3>6
  <2> HIDE DEF q, n, n2
  <2>3. Ascends(Append(q, f), n)
    BY <1>0, <2>2, AscendsAppend
  <2>4. QED
    BY <1>5, <2>1, <2>3 DEF n2
<1>6. QED
  BY <1>1, <1>2, <1>3, <1>4, <1>5, LiveQueue DEF QueueStep

(* With one server, deliveries on a socket ascend and are beyond the       *)
(* cursor: only the router puts them in the queue, one handler at a time,  *)
(* and the backlog of a connection is flushed before it is sent anything   *)
(* live.                                                                   *)
THEOREM DeliveriesStayInOrder == (OneServer /\ Spec) => []DeliveriesAscend
<1> SUFFICES ASSUME OneServer PROVE Spec => []DeliveriesAscend
  OBVIOUS
<1>1. Init => DeliveriesAscend
  BY ConstantsAssumption DEF Init, DeliveriesAscend
<1>2. /\ TypeOK /\ Ownership /\ AuthInv /\ BacklogInv /\ NoPubSub /\ TaskAhead
      /\ DeliveriesAscend /\ [Next]_vars
      => DeliveriesAscend'
  <2> SUFFICES ASSUME TypeOK, Ownership, AuthInv, BacklogInv, NoPubSub, TaskAhead,
                      DeliveriesAscend, [Next]_vars,
                      NEW s \in Servers, NEW k \in Clients, NEW c \in ConnIds,
                      sock'[k] = <<s, c>>
               PROVE  Ascends(out'[s][c], last_seq'[k])
    BY DEF DeliveriesAscend, Ascends, Numbered
  <2>1. CASE sock[k] = <<s, c>>
    <3>1. Ascends(out[s][c], last_seq[k])
      BY <2>1 DEF DeliveriesAscend, Ascends
    <3>2. QED
      BY <2>1, <3>1, KeptAscends
  <2>2. CASE ClientOpen(k, s) /\ c = next_id[s]
    <3>1. out' = out
      BY <2>2 DEF ClientOpen
    <3>2. next_id[s] <= c
      BY <2>2, ConstantsAssumption DEF TypeOK
    <3>3. ToSet(out[s][c]) = {}
      BY <3>2 DEF Ownership, Owned, FreshIds
    <3>4. DOMAIN out'[s][c] = {}
      BY <3>1, <3>3 DEF ToSet
    <3>5. QED
      BY <3>4 DEF Ascends
  <2>3. QED
    BY <2>1, <2>2, LiveOrigin
<1>3. QED
  BY <1>1, <1>2, TypeCorrect, OwnershipInvariant, AuthInvariant, BacklogInvariant,
     NoPubSubInvariant, AheadInvariant, PTL DEF Spec

-----------------------------------------------------------------------------
(* No gap behind the cursor                                                *)

(* Message m is in R or among the first n frames of q.                     *)
Covered(q, R, n, m) ==
    m \in R \/ \E j \in 1 .. n : q[j].type = "delivery" /\ q[j].msg = m

(* What is stored for a client's mailbox.                                  *)
StoredFor(k) == {m \in Messages : To[m] = MailboxOf[k] /\ seq[m] > 0}

(* A delivery comes behind, or after, all older messages of the mailbox.   *)
FramesCover(k, s, c) ==
    \A i \in 1 .. Len(out[s][c]) : \A m \in StoredFor(k) :
        out[s][c][i].type = "delivery" /\ seq[m] <= out[s][c][i].seq
            => Covered(out[s][c], ToSet(received[k]), i, m)

(* A backlog waiting to be flushed has all that the client has not got.    *)
RowsCover(k, s, c) ==
    Registering(s, c) =>
        \A m \in StoredFor(k) :
            m \in ToSet(received[k]) \/ \E i \in 1 .. Len(task[s].rows) : task[s].rows[i] = m

(* An authenticated socket was sent everything that is stored, except what *)
(* the handler carries.                                                    *)
UpToDate(k, s, c) ==
    Authenticated(s, c) /\ ~Registering(s, c) =>
        \A m \in StoredFor(k) :
            \/ Covered(out[s][c], ToSet(received[k]), Len(out[s][c]), m)
            \/ Carries(s) /\ task[s].msg = m

GapInv ==
    \A s \in Servers : \A k \in Clients : \A c \in ConnIds :
        sock[k] = <<s, c>> =>
            FramesCover(k, s, c) /\ RowsCover(k, s, c) /\ UpToDate(k, s, c)

(* The first frame goes to the client.                                     *)
LEMMA CoveredTail ==
    ASSUME NEW q \in Seq(Frame), q # <<>>, NEW R, NEW R2, R \subseteq R2,
           Head(q).type = "delivery" => Head(q).msg \in R2,
           NEW i \in 0 .. Len(q) - 1, NEW m, Covered(q, R, i + 1, m)
    PROVE  Covered(Tail(q), R2, i, m)
<1> DEFINE t == Tail(q)
<1>1. /\ Head(q) = q[1] /\ Len(q) \in Nat
      /\ \A j \in 1 .. Len(q) - 1 : t[j] = q[j + 1]
  BY TailElements
<1> HIDE DEF t
<1>2. ASSUME NEW j \in 1 .. i + 1, q[j].type = "delivery", q[j].msg = m, m \notin R2
      PROVE  \E l \in 1 .. i : t[l].type = "delivery" /\ t[l].msg = m
  <2>1. j # 1
    BY <1>1, <1>2
  <2>2. j - 1 \in 1 .. i /\ j - 1 \in 1 .. Len(q) - 1 /\ j - 1 + 1 = j
    BY <1>1, <2>1
  <2>3. t[j - 1] = q[j]
    BY <1>1, <2>2
  <2>4. QED
    BY <1>2, <2>2, <2>3
<1>3. QED
  BY <1>2 DEF Covered, t

(* Frames put behind the others.                                           *)
LEMMA CoveredPrefix ==
    ASSUME NEW q \in Seq(Frame), NEW a, \A j \in 1 .. Len(q) : a[j] = q[j],
           NEW R, NEW R2, R \subseteq R2,
           NEW i \in 0 .. Len(q), NEW m, Covered(q, R, i, m),
           NEW n \in Nat, i <= n
    PROVE  Covered(a, R2, n, m)
<1>1. ASSUME NEW j \in 1 .. i PROVE j \in 1 .. Len(q) /\ j \in 1 .. n
  <2>1. Len(q) \in Nat
    OBVIOUS
  <2>2. QED
    BY <2>1
<1>2. QED
  BY <1>1 DEF Covered

(* A frame behind the others is a place of its own.                        *)
LEMMA CoveredBehind ==
    ASSUME NEW q \in Seq(Frame), NEW b \in Seq(Frame), NEW R,
           NEW j \in 1 .. Len(b), NEW m, b[j].type = "delivery", b[j].msg = m,
           NEW n \in Nat, Len(q) + j <= n
    PROVE  Covered(q \o b, R, n, m)
<1> DEFINE a == q \o b
<1>1. a[Len(q) + j] = b[j] /\ Len(q) \in Nat
  BY ConcatElements
<1> HIDE DEF a
<1>2. Len(q) + j \in 1 .. n
  BY <1>1
<1>3. QED
  BY <1>1, <1>2 DEF Covered, a

(* What a client got it keeps.                                             *)
LEMMA ReceivedGrows ==
    ASSUME TypeOK, [Next]_vars, NEW k \in Clients
    PROVE  /\ ToSet(received[k]) \subseteq ToSet(received'[k])
           /\ OnDelivery(k) => NextFrame(k).msg \in ToSet(received'[k])
<1>1. ASSUME OnDelivery(k)
      PROVE  ToSet(received'[k]) = ToSet(received[k]) \cup {NextFrame(k).msg}
  <2>1. received'[k] = Append(received[k], NextFrame(k).msg) /\ received[k] \in Seq(Messages)
    BY <1>1 DEF OnDelivery, TypeOK
  <2>2. QED
    BY <2>1, ToSetOfAppend
<1>2. QED
  BY <1>1, DeliveredOrigin

(* A message stored for a client was stored before, or is the new row that *)
(* the handler carries, numbered beyond all frames, but its own.           *)
LEMMA StoredOrigin ==
    ASSUME OneServer, TypeOK, StoreBounded, CarriedSeqIsTheRows', [Next]_vars,
           NEW s \in Servers, NEW k \in Clients, NEW c \in ConnIds, NEW m \in StoredFor(k)'
    PROVE  /\ m \in Messages
           /\ \/ m \in StoredFor(k) /\ seq'[m] = seq[m]
              \/ /\ SendInsert(s) /\ Carries(s)' /\ task'[s].msg = m
                 /\ seq'[m] = identity + 1
                 /\ \A i \in 1 .. Len(out'[s][c]) :
                        out'[s][c][i].type = "delivery" /\ seq'[m] <= out'[s][c][i].seq
                            => out'[s][c][i].msg = m
<1>1. m \in Messages /\ To[m] = MailboxOf[k] /\ seq'[m] > 0
  BY DEF StoredFor
<1>2. CASE seq'[m] = seq[m]
  BY <1>1, <1>2 DEF StoredFor
<1>3. CASE seq'[m] # seq[m]
  <2>1. SendInsert(s)
    BY <1>3, StoreOrigin DEF OneServer
  <2>2. /\ m = Next_event(s).msg /\ seq'[m] = identity + 1
        /\ task'[s].at = "lookup" /\ task'[s].msg = m
        /\ \A x \in Messages : x # m => seq'[x] = seq[x]
    BY <1>1, <1>3, <2>1, InsertFacts
  <2>3. ASSUME NEW i \in 1 .. Len(out'[s][c]), out'[s][c][i].type = "delivery",
               seq'[m] <= out'[s][c][i].seq
        PROVE  out'[s][c][i].msg = m
    <3> DEFINE f == out'[s][c][i]
    <3>1. out'[s][c] \in Seq(Frame)
      <4>1. TypeOK'
        BY NextType
      <4>2. QED
        BY <4>1 DEF TypeOK
    <3>2. f \in ToSet(out'[s][c]) /\ f.seq \in Nat /\ f.msg \in Messages
      <4> DEFINE q == out'[s][c]
      <4> HIDE DEF q
      <4>1. q[i] \in ToSet(q) /\ (q[i].type = "delivery" => q[i].seq \in Nat /\ q[i].msg \in Messages)
        BY <3>1, NumberType, ElementsOf DEF q
      <4>2. QED
        BY <2>3, <4>1 DEF q
    <3>3. f.seq = 0 \/ seq'[f.msg] = f.seq
      BY <2>3, <3>2 DEF CarriedSeqIsTheRows, SeqOfRow
    <3>4. identity \in Nat /\ seq[f.msg] \in Nat /\ seq[f.msg] <= identity
      BY <3>2 DEF TypeOK, StoreBounded
    <3> HIDE DEF f
    <3>5. f.msg # m => seq'[f.msg] = seq[f.msg]
      BY <2>2, <3>2
    <3>6. f.msg = m
      BY <2>2, <2>3, <3>2, <3>3, <3>4, <3>5 DEF f
    <3>7. QED
      BY <3>6 DEF f
  <2>4. QED
    BY <1>1, <2>1, <2>2, <2>3 DEF Carries
<1>4. QED
  BY <1>2, <1>3

(* A handler that carries a message goes on with it, or the process dies.  *)
LEMMA CarryStep ==
    ASSUME OneServer, TypeOK, [Next]_vars, NEW s \in Servers, Carries(s)
    PROVE  task'[s] = task[s] \/ Crash(s) \/ SendLookup(s) \/ SendDeliver(s)
<1> DEFINE Goal == task'[s] = task[s] \/ Crash(s) \/ SendLookup(s) \/ SendDeliver(s)
<1>0. task[s].at \notin {"idle", "register"} /\ task[s] # Idle /\ \A r \in Servers : r = s
  BY DEF Carries, Idle, OneServer
<1>1. ASSUME UNCHANGED task PROVE Goal
  BY <1>1
<1>2. ASSUME NEW k \in Clients, ClientStep(k) PROVE Goal
  BY <1>1, <1>2
  DEF ClientStep, ClientOpen, ClientAuthenticate, ClientSend, ClientTyping,
      OnDelivery, OnAck, OnTyping, ClientDrop
<1>3. ASSUME RouterStep(s) PROVE Goal
  <2>1. /\ ~HandleConnected(s) /\ ~HandleIgnored(s) /\ ~HandleRefused(s)
        /\ ~AuthenticateFetch(s) /\ ~SendInsert(s) /\ ~HandleTyping(s)
        /\ ~HandleDisconnected(s) /\ ~HandlePubSubDelivery(s)
    BY <1>0 DEF HandleConnected, HandleIgnored, HandleRefused, AuthenticateFetch,
         SendInsert, HandleTyping, HandleDisconnected, HandlePubSubDelivery, Handling
  <2>2. ~AuthenticateFlush(s)
    BY <1>0 DEF AuthenticateFlush
  <2>3. \A r \in Servers : ~SendPublish(s, r)
    BY <1>0 DEF SendPublish
  <2>4. QED
    BY <1>3, <2>1, <2>2, <2>3 DEF RouterStep
<1>4. ASSUME NEW r \in Servers, ServerStep(r) PROVE Goal
  <2>1. r = s
    BY <1>0
  <2>2. QED
    BY <1>1, <1>3, <1>4, <2>1
    DEF ServerStep, ReaderEnd, WriterEnd, Subscribe, SubscriberForward
<1>5. ASSUME NEW mb \in Mailboxes, Expire(mb) PROVE Goal
  BY <1>1, <1>5 DEF Expire
<1>6. CASE UNCHANGED vars
  BY <1>1, <1>6 DEF vars
<1>7. QED
  BY <1>2, <1>4, <1>5, <1>6 DEF Next

(* The lookup finds this server when a client of the mailbox is connected  *)
(* to it.                                                                  *)
LEMMA LookupFinds ==
    ASSUME RedisKeeps, TypeOK, RegistryComplete, Ownership,
           NEW s \in Servers, NEW k \in Clients, NEW c \in ConnIds, sock[k] = <<s, c>>,
           Authenticated(s, c), SendLookup(s), To[task[s].msg] = MailboxOf[k]
    PROVE  Carries(s)' /\ task'[s].msg = task[s].msg
<1> DEFINE mb == MailboxOf[k]
<1>1. task[s].at = "lookup"
  BY DEF SendLookup
<1>2. connection_to_mailbox[s][c] = mb
  BY DEF Ownership, Owned, OwnedBy, Authenticated
<1>3. registry[mb][c] = s
  BY <1>1, <1>2 DEF RegistryComplete
<1>4. s # NoServer
  BY ConstantsAssumption
<1>5. s \in ServersOf(mb)
  BY <1>3, <1>4 DEF ServersOf
<1>6. Outcomes("redis") = {TRUE}
  BY DEF Outcomes, RedisKeeps
<1>7. task' = [task EXCEPT ![s] =
          IF ServersOf(mb) = {} THEN Idle
          ELSE [at |-> "route", msg |-> task[s].msg, seq |-> task[s].seq,
                to |-> ServersOf(mb)]]
  BY <1>6 DEF SendLookup
<1>8. task'[s] = [at |-> "route", msg |-> task[s].msg, seq |-> task[s].seq,
                  to |-> ServersOf(mb)]
  BY <1>5, <1>7 DEF TypeOK
<1>9. QED
  BY <1>5, <1>8 DEF Carries

(* The delivery arrives in the queue of every authenticated socket of the  *)
(* mailbox.                                                                *)
LEMMA DeliverArrives ==
    ASSUME TypeOK, LocalTablesAgree, LiveInv, Ownership,
           NEW s \in Servers, NEW k \in Clients, NEW c \in ConnIds, sock[k] = <<s, c>>,
           Authenticated(s, c), SendDeliver(s), To[task[s].msg] = MailboxOf[k]
    PROVE  /\ Delivery(task[s].msg, task[s].seq) \in Frame
           /\ out'[s][c] = out[s][c] \o <<Delivery(task[s].msg, task[s].seq)>>
<1> DEFINE mb == MailboxOf[k]
           fs == <<Delivery(task[s].msg, task[s].seq)>>
<1>1. connection_to_mailbox[s][c] = mb /\ mb \in Mailboxes
  BY ConstantsAssumption DEF Ownership, Owned, OwnedBy, Authenticated
<1>2. c \in Recipients(s, mb)
  BY <1>1 DEF LocalTablesAgree, Recipients
<1>3. c \in writer[s] /\ PeerAlive(s, c)
  BY DEF LiveInv, LiveKept, PeerAlive
<1>4. SendOrDisconnect(s, Recipients(s, mb), fs)
  BY DEF SendDeliver
<1> HIDE DEF fs
<1>5. out'[s][c] = out[s][c] \o fs
  BY <1>2, <1>3, <1>4, SendReaches
<1>6. Delivery(task[s].msg, task[s].seq) \in Frame
  BY DEF SendDeliver, TypeOK, Task, Delivery, Frame
<1>7. QED
  BY <1>5, <1>6 DEF fs

(* A connection stays half registered until its backlog is flushed.        *)
LEMMA FlushArrives ==
    ASSUME OneServer, RedisKeeps, TypeOK, LiveInv, [Next]_vars,
           NEW s \in Servers, NEW k \in Clients, NEW c \in ConnIds, sock[k] = <<s, c>>,
           ~Crash(s), Registering(s, c)
    PROVE  \/ Registering(s, c)'
           \/ out'[s][c] = out[s][c] \o Backlog(s)
<1>1. task[s].at = "register" /\ task[s].conn = c
  BY DEF Registering
<1>2. CASE task'[s] = task[s]
  BY <1>1, <1>2 DEF Registering
<1>3. ASSUME AuthenticateFlush(s) PROVE out'[s][c] = out[s][c] \o Backlog(s)
  <2> DEFINE fs == Backlog(s)
  <2>1. SendOrDisconnect(s, {c}, fs)
    BY <1>1, <1>3 DEF AuthenticateFlush, Backlog
  <2>2. c \in writer[s] /\ PeerAlive(s, c)
    BY DEF LiveInv, LiveKept, PeerAlive
  <2> HIDE DEF fs
  <2>3. out'[s][c] = out[s][c] \o fs
    BY <2>1, <2>2, SendReaches
  <2>4. QED
    BY <2>3 DEF fs
<1>4. ~HandleDisconnected(s)
  BY <1>1 DEF HandleDisconnected, Handling, Idle
<1>5. QED
  BY <1>1, <1>2, <1>3, <1>4, RegistryOrigin DEF OneServer

(* With one server no cursor passes over a message.                        *)
LEMMA NextNoGap ==
    ASSUME OneServer, TypeOK, StoreBounded, CursorIsARow, GapInv, CursorHasNoGap, [Next]_vars
    PROVE  CursorHasNoGap'
<1> SUFFICES ASSUME NEW k \in Clients, NEW m \in Messages,
                    To[m] = MailboxOf[k], 0 < seq'[m], seq'[m] <= last_seq'[k]
             PROVE  m \in ToSet(received'[k])
  BY DEF CursorHasNoGap
<1>0. last_seq[k] \in Nat /\ identity \in Nat /\ seq[m] \in Nat
  BY DEF TypeOK
<1>1. seq[m] = seq'[m] /\ seq[m] <= last_seq[k] => m \in ToSet(received'[k])
  BY ReceivedGrows DEF CursorHasNoGap
<1>2. CASE last_seq'[k] = last_seq[k]
  <2>1. CASE seq' = seq
    BY <1>1, <1>2, <2>1
  <2>2. ASSUME NEW s \in Servers, SendInsert(s) PROVE seq'[m] = seq[m]
    <3>1. seq'[m] = seq[m] \/ seq'[m] = identity + 1
      BY <2>2, InsertFacts
    <3>2. last_seq[k] <= identity
      BY <1>0 DEF CursorIsARow, StoreBounded
    <3>3. QED
      BY <1>0, <1>2, <3>1, <3>2
  <2>3. QED
    BY <1>1, <1>2, <2>1, <2>2, StoreOrigin
<1>3. CASE OnDelivery(k)
  <2> DEFINE s == sock[k][1]
             c == sock[k][2]
             q == out[s][c]
             f == NextFrame(k)
  <2>1. /\ s \in Servers /\ c \in ConnIds /\ sock[k] = <<s, c>>
        /\ f = Head(q) /\ f.type = "delivery" /\ q # <<>> /\ q \in Seq(Frame)
    <3>1. Incoming(k, "delivery")
      BY <1>3 DEF OnDelivery
    <3>2. /\ s \in Servers /\ c \in ConnIds /\ sock[k] = <<s, c>>
          /\ f.type = "delivery" /\ f \in Frame
      BY <3>1, IncomingFrame
    <3>3. q # <<>> /\ f = Head(q)
      BY <3>1 DEF Incoming, NextFrame
    <3>4. QED
      BY <3>2, <3>3 DEF TypeOK
  <2>2. seq' = seq /\ last_seq'[k] = CursorAfter(k, f.seq)
    BY <1>3 DEF OnDelivery, storeVars, TypeOK
  <2>3. CASE seq[m] <= last_seq[k]
    BY <1>1, <2>2, <2>3
  <2>4. CASE ~(seq[m] <= last_seq[k])
    <3>1. seq[m] <= f.seq
      BY <2>2, <2>4 DEF CursorAfter
    <3>2. Head(q) = q[1] /\ 1 \in 1 .. Len(q)
      <4> HIDE DEF q
      <4>1. QED
        BY <2>1, TailElements
    <3>3. m \in StoredFor(k)
      BY <2>2 DEF StoredFor
    <3>4. FramesCover(k, s, c)
      BY <2>1 DEF GapInv
    <3>5. Covered(q, ToSet(received[k]), 1, m)
      BY <2>1, <3>1, <3>2, <3>3, <3>4 DEF FramesCover
    <3>6. m \in ToSet(received[k]) \/ q[1].msg = m
      BY <3>5 DEF Covered
    <3>7. QED
      BY <1>3, <2>1, <3>2, <3>6, ReceivedGrows
  <2>5. QED
    BY <2>3, <2>4
<1>4. QED
  BY <1>2, <1>3, DeliveredOrigin

(* The backlog as frames.                                                  *)
LEMMA BacklogFrames ==
    ASSUME TypeOK, NEW s \in Servers, task[s].at = "register"
    PROVE  /\ Backlog(s) \in Seq(Frame) /\ Len(Backlog(s)) = Len(task[s].rows)
           /\ Len(task[s].rows) \in Nat
           /\ \A i \in 1 .. Len(task[s].rows) :
                  /\ Backlog(s)[i].type = "delivery"
                  /\ Backlog(s)[i].msg = task[s].rows[i]
                  /\ Backlog(s)[i].seq = seq[task[s].rows[i]]
                  /\ task[s].rows[i] \in Messages
<1>1. task[s].rows \in Seq(Messages) /\ Backlog(s) \in Seq(Frame)
  BY BacklogType
<1>2. Len(task[s].rows) \in Nat /\ \A i \in 1 .. Len(task[s].rows) : task[s].rows[i] \in Messages
  BY <1>1
<1>3. Len(Backlog(s)) = Len(task[s].rows)
  BY <1>2 DEF Backlog
<1>4. QED
  BY <1>1, <1>2, <1>3 DEF Backlog, Delivery

(* What was sent to a socket that stays open has been received or is still *)
(* on its way.                                                             *)
LEMMA CoveredStep ==
    ASSUME TypeOK, Ownership, [Next]_vars, NEW s \in Servers, NEW k \in Clients,
           NEW c \in ConnIds, sock[k] = <<s, c>>, sock'[k] = <<s, c>>, NEW m,
           Covered(out[s][c], ToSet(received[k]), Len(out[s][c]), m)
    PROVE  Covered(out'[s][c], ToSet(received'[k]), Len(out'[s][c]), m)
<1> DEFINE q == out[s][c]
           q2 == out'[s][c]
           R == ToSet(received[k])
           R2 == ToSet(received'[k])
<1>1. q \in Seq(Frame) /\ q2 \in Seq(Frame)
  <2>1. TypeOK'
    BY NextType
  <2>2. QED
    BY <2>1 DEF TypeOK
<1>2. R \subseteq R2
  BY ReceivedGrows
<1>3. q # <<>> /\ q2 = Tail(q) /\ (Head(q).type = "delivery" => Head(q).msg \in R2)
      => Covered(q2, R2, Len(q2), m)
  <2> HIDE DEF q, q2, R, R2
  <2>1. SUFFICES ASSUME q # <<>>, q2 = Tail(q), Head(q).type = "delivery" => Head(q).msg \in R2
                 PROVE  Covered(q2, R2, Len(q2), m)
    OBVIOUS
  <2>2. Len(q2) = Len(q) - 1 /\ Len(q2) \in 0 .. Len(q) - 1 /\ Len(q2) + 1 = Len(q)
    BY <1>1, <2>1
  <2>3. Covered(q, R, Len(q2) + 1, m)
    BY <2>2 DEF q, R
  <2>4. QED
    BY <1>1, <1>2, <2>1, <2>2, <2>3, CoveredTail
<1>4. ASSUME Len(q) <= Len(q2), \A j \in 1 .. Len(q) : q2[j] = q[j]
      PROVE  Covered(q2, R2, Len(q2), m)
  <2>1. Covered(q, R, Len(q), m)
    OBVIOUS
  <2> HIDE DEF q, q2, R, R2
  <2>2. Len(q) \in 0 .. Len(q) /\ Len(q2) \in Nat
    BY <1>1
  <2>3. QED
    BY <1>1, <1>2, <1>4, <2>1, <2>2, CoveredPrefix
<1>5. CASE OnDelivery(k) /\ q2 = Tail(q)
  <2>1. Incoming(k, "delivery")
    BY <1>5 DEF OnDelivery
  <2>2. q # <<>> /\ Head(q) = NextFrame(k)
    BY <2>1 DEF Incoming, NextFrame
  <2>3. Head(q).msg \in R2
    BY <1>5, <2>2, ReceivedGrows
  <2>4. QED
    BY <1>3, <1>5, <2>2, <2>3
<1>6. CASE q2 = q
  BY <1>2, <1>6 DEF Covered
<1>7. CASE q # <<>> /\ Head(q).type # "delivery" /\ q2 = Tail(q)
  BY <1>3, <1>7
<1>8. ASSUME AuthenticateFlush(s), q2 = q \o Backlog(s)
      PROVE  Covered(q2, R2, Len(q2), m)
  <2> DEFINE b == Backlog(s)
  <2>1. b \in Seq(Frame)
    BY <1>8, BacklogType DEF AuthenticateFlush
  <2>2. Len(q \o b) = Len(q) + Len(b) /\ \A j \in 1 .. Len(q) : (q \o b)[j] = q[j]
    BY <1>1, <2>1, ConcatElements
  <2>3. Len(b) \in Nat /\ Len(q) \in Nat
    BY <1>1, <2>1
  <2> HIDE DEF b
  <2>4. QED
    BY <1>4, <1>8, <2>2, <2>3 DEF b
<1>9. ASSUME NEW f \in Frame, q2 = Append(q, f) PROVE Covered(q2, R2, Len(q2), m)
  <2>1. Len(q2) = Len(q) + 1 /\ \A j \in 1 .. Len(q) : q2[j] = q[j]
    BY <1>1, <1>9, AppendElements
  <2>2. Len(q) <= Len(q2)
    <3>1. Len(q) \in Nat
      BY <1>1
    <3>2. QED
      BY <2>1, <3>1
  <2>3. QED
    BY <1>4, <2>1, <2>2
<1>10. QED
  BY <1>5, <1>6, <1>7, <1>8, <1>9, LiveQueue DEF QueueStep

(* The backlog covers what is stored, up to each of its rows.              *)
LEMMA BacklogCovers ==
    ASSUME TypeOK, BacklogInv, GapInv, NEW s \in Servers, NEW k \in Clients, NEW c \in ConnIds,
           sock[k] = <<s, c>>, Registering(s, c), NEW R2, ToSet(received[k]) \subseteq R2,
           NEW q \in Seq(Frame), NEW m \in StoredFor(k)
    PROVE  /\ \A n \in Nat : Len(q) + Len(Backlog(s)) <= n => Covered(q \o Backlog(s), R2, n, m)
           /\ \A i \in 1 .. Len(Backlog(s)) : seq[m] <= Backlog(s)[i].seq
                  => Covered(q \o Backlog(s), R2, Len(q) + i, m)
<1> DEFINE r == task[s].rows
           b == Backlog(s)
<1>1. /\ task[s].at = "register"
      /\ b \in Seq(Frame) /\ Len(b) = Len(r) /\ Len(r) \in Nat
      /\ \A i \in 1 .. Len(r) : /\ b[i].type = "delivery" /\ b[i].msg = r[i]
                                /\ b[i].seq = seq[r[i]] /\ r[i] \in Messages
  BY BacklogFrames DEF Registering
<1>2. m \in Messages /\ \A x \in Messages : seq[x] \in Nat
  BY DEF TypeOK, StoredFor
<1>3. m \in ToSet(received[k]) \/ \E i \in 1 .. Len(r) : r[i] = m
  BY DEF GapInv, RowsCover
<1>4. \A i, j \in 1 .. Len(r) : i < j => seq[r[i]] < seq[r[j]]
  BY <1>1 DEF BacklogInv, RowsAscend
<1>5. m \in ToSet(received[k]) => \A n : Covered(q \o b, R2, n, m)
  BY DEF Covered
<1>6. ASSUME NEW j \in 1 .. Len(r), r[j] = m
      PROVE  /\ \A n \in Nat : Len(q) + Len(b) <= n => Covered(q \o b, R2, n, m)
             /\ \A i \in 1 .. Len(b) : seq[m] <= b[i].seq => Covered(q \o b, R2, Len(q) + i, m)
  <2> HIDE DEF b, r
  <2>1. Len(q) \in Nat
    OBVIOUS
  <2>2. \A n \in Nat : Len(q) + j <= n => Covered(q \o b, R2, n, m)
    BY <1>1, <1>6, CoveredBehind
  <2>3. ASSUME NEW i \in 1 .. Len(b), seq[m] <= b[i].seq
        PROVE  Covered(q \o b, R2, Len(q) + i, m)
    <3>1. seq[r[j]] <= seq[r[i]] /\ seq[r[i]] \in Nat /\ seq[r[j]] \in Nat
      BY <1>1, <1>2, <1>6, <2>3
    <3>2. ~(i < j)
      BY <1>1, <1>4, <2>3, <3>1
    <3>3. Len(q) + i \in Nat /\ Len(q) + j <= Len(q) + i
      BY <1>1, <2>1, <3>2
    <3>4. QED
      BY <2>2, <3>3
  <2>4. QED
    BY <1>1, <2>1, <2>2, <2>3
<1>7. QED
  BY <1>1, <1>3, <1>5, <1>6

(* A live delivery is made to an authenticated connection.                 *)
LEMMA LiveDelivery ==
    ASSUME TypeOK, LocalTablesAgree, NoPubSub, NEW s \in Servers, NEW c \in ConnIds,
           NEW f, NewFrame(s, c, f), f.type = "delivery", task[s].at # "register"
    PROVE  /\ SendDeliver(s) /\ f = Delivery(task[s].msg, task[s].seq)
           /\ Authenticated(s, c) /\ ~Registering(s, c)
<1>1. ~HandlePubSubDelivery(s)
  <2>1. HandlePubSubDelivery(s) =>
            Next_event(s) \in ToSet(events[s]) /\ Next_event(s).type = "pubsub"
    BY ToSetOfTail DEF HandlePubSubDelivery, Handling, TypeOK, Next_event
  <2>2. QED
    BY <2>1 DEF NoPubSub
<1>2. ~AuthenticateFlush(s)
  BY DEF AuthenticateFlush
<1>3. /\ SendDeliver(s) /\ f = Delivery(task[s].msg, task[s].seq)
      /\ c \in Recipients(s, To[task[s].msg])
  BY <1>1, <1>2 DEF NewFrame, Ack, Typing
<1>4. task[s].msg \in Messages /\ To[task[s].msg] \in Mailboxes
  BY <1>3, ConstantsAssumption DEF SendDeliver, TypeOK, Task
<1>5. connection_to_mailbox[s][c] = To[task[s].msg]
  BY <1>3, <1>4 DEF Recipients, LocalTablesAgree
<1>6. Authenticated(s, c)
  BY <1>4, <1>5, ConstantsAssumption DEF Authenticated
<1>7. QED
  BY <1>3, <1>6 DEF Registering

(* On a socket that stays open each delivery still comes behind all older  *)
(* messages.                                                               *)
LEMMA KeptFrames ==
    ASSUME OneServer, TypeOK, LocalTablesAgree, Ownership, AuthInv, StoreBounded,
           CarriedSeqIsTheRows', NoPubSub, BacklogInv, GapInv, [Next]_vars,
           NEW s \in Servers, NEW k \in Clients, NEW c \in ConnIds,
           sock[k] = <<s, c>>, sock'[k] = <<s, c>>
    PROVE  FramesCover(k, s, c)'
<1> DEFINE q == out[s][c]
           q2 == out'[s][c]
           R == ToSet(received[k])
           R2 == ToSet(received'[k])
<1>0. q \in Seq(Frame) /\ q2 \in Seq(Frame) /\ Len(q) \in Nat
  <2>1. TypeOK'
    BY NextType
  <2>2. q \in Seq(Frame) /\ q2 \in Seq(Frame)
    BY <2>1 DEF TypeOK
  <2>3. QED
    BY <2>2
<1> SUFFICES ASSUME NEW i \in 1 .. Len(q2), NEW m \in StoredFor(k)',
                    q2[i].type = "delivery", seq'[m] <= q2[i].seq
             PROVE  Covered(q2, R2, i, m)
  BY DEF FramesCover
<1>1. R \subseteq R2
  BY ReceivedGrows
<1>2. q2[i].msg = m => Covered(q2, R2, i, m)
  <2>1. i \in 1 .. i
    BY <1>0
  <2>2. QED
    BY <2>1 DEF Covered
<1>3. SUFFICES ASSUME m \in StoredFor(k), seq[m] <= q2[i].seq
               PROVE  Covered(q2, R2, i, m)
  BY <1>2, StoredOrigin
<1>4. \A j \in 1 .. Len(q) : q[j].type = "delivery" /\ seq[m] <= q[j].seq => Covered(q, R, j, m)
  BY <1>3 DEF GapInv, FramesCover
<1>5. q # <<>> /\ q2 = Tail(q) /\ (Head(q).type = "delivery" => Head(q).msg \in R2)
      => Covered(q2, R2, i, m)
  <2> HIDE DEF q, q2, R, R2
  <2>1. SUFFICES ASSUME q # <<>>, q2 = Tail(q), Head(q).type = "delivery" => Head(q).msg \in R2
                 PROVE  Covered(q2, R2, i, m)
    OBVIOUS
  <2>2. Len(q2) = Len(q) - 1 /\ \A j \in 1 .. Len(q) - 1 : q2[j] = q[j + 1]
    BY <1>0, <2>1, TailElements
  <2>3. i \in 0 .. Len(q) - 1 /\ i + 1 \in 1 .. Len(q) /\ q2[i] = q[i + 1]
    BY <1>0, <2>2
  <2>4. Covered(q, R, i + 1, m)
    BY <1>3, <1>4, <2>3
  <2>5. QED
    BY <1>0, <1>1, <2>1, <2>3, <2>4, CoveredTail
<1>6. ASSUME \A j \in 1 .. Len(q) : q2[j] = q[j], i \in 1 .. Len(q)
      PROVE  Covered(q2, R2, i, m)
  <2> HIDE DEF q, q2, R, R2
  <2>1. Covered(q, R, i, m)
    BY <1>3, <1>4, <1>6
  <2>2. i \in 0 .. Len(q) /\ i \in Nat /\ i <= i
    BY <1>0, <1>6
  <2>3. QED
    BY <1>0, <1>1, <1>6, <2>1, <2>2, CoveredPrefix
<1>7. CASE OnDelivery(k) /\ q2 = Tail(q)
  <2>1. Incoming(k, "delivery")
    BY <1>7 DEF OnDelivery
  <2>2. q # <<>> /\ Head(q) = NextFrame(k)
    BY <2>1 DEF Incoming, NextFrame
  <2>3. Head(q).msg \in R2
    BY <1>7, <2>2, ReceivedGrows
  <2>4. QED
    BY <1>5, <1>7, <2>2, <2>3
<1>8. CASE q2 = q
  BY <1>6, <1>8
<1>9. CASE q # <<>> /\ Head(q).type # "delivery" /\ q2 = Tail(q)
  BY <1>5, <1>9
<1>10. ASSUME AuthenticateFlush(s), c = task[s].conn, q2 = q \o Backlog(s)
       PROVE  Covered(q2, R2, i, m)
  <2> DEFINE b == Backlog(s)
  <2>1. Registering(s, c)
    BY <1>10 DEF AuthenticateFlush, Registering
  <2>2. b \in Seq(Frame) /\ Len(b) \in Nat
    BY <2>1, BacklogFrames DEF Registering
  <2>3. /\ Len(q2) = Len(q) + Len(b)
        /\ \A j \in 1 .. Len(q) : q2[j] = q[j]
        /\ \A j \in 1 .. Len(b) : q2[Len(q) + j] = b[j]
    <3>1. q2 = q \o b
      BY <1>10
    <3> HIDE DEF q, q2, b
    <3>2. QED
      BY <1>0, <2>2, <3>1, ConcatElements
  <2>4. \A j \in 1 .. Len(q) : q[j].type # "delivery"
    <3>1. \A g \in ToSet(q) : g.type # "delivery"
      BY <2>1 DEF AuthInv, AuthenticatesOnce, NoDelivery
    <3> HIDE DEF q
    <3>2. QED
      BY <1>0, <3>1, ElementsOf
  <2>5. \A l \in 1 .. Len(b) : seq[m] <= b[l].seq => Covered(q \o b, R2, Len(q) + l, m)
    BY <1>0, <1>1, <1>3, <2>1, BacklogCovers
  <2> HIDE DEF q, q2, b, R, R2
  <2>6. i \notin 1 .. Len(q)
    BY <2>3, <2>4
  <2>7. i - Len(q) \in 1 .. Len(b) /\ Len(q) + (i - Len(q)) = i
    BY <1>0, <2>2, <2>3, <2>6
  <2>8. q2[i] = b[i - Len(q)]
    BY <2>3, <2>7
  <2>9. Covered(q \o b, R2, i, m)
    BY <1>3, <2>5, <2>7, <2>8
  <2>10. QED
    BY <1>10, <2>9 DEF b
<1>11. ASSUME NEW f \in Frame, NewFrame(s, c, f), task[s].at # "register",
              q2 = Append(q, f)
       PROVE  Covered(q2, R2, i, m)
  <2>1. /\ Len(q2) = Len(q) + 1 /\ \A j \in 1 .. Len(q) : q2[j] = q[j]
        /\ q2[Len(q) + 1] = f
    BY <1>0, <1>11, AppendElements
  <2>2. CASE i \in 1 .. Len(q)
    BY <1>6, <2>1, <2>2
  <2>3. CASE i = Len(q) + 1
    <3>1. f.type = "delivery" /\ q2[i] = f
      BY <2>1, <2>3
    <3>2. /\ f = Delivery(task[s].msg, task[s].seq)
          /\ Authenticated(s, c) /\ ~Registering(s, c)
      BY <1>11, <3>1, LiveDelivery
    <3>3. Covered(q, R, Len(q), m) \/ task[s].msg = m
      BY <1>3, <3>2 DEF GapInv, UpToDate
    <3>4. CASE task[s].msg = m
      BY <1>2, <3>1, <3>2, <3>4 DEF Delivery
    <3>5. CASE Covered(q, R, Len(q), m)
      <4>1. Len(q) \in 0 .. Len(q) /\ i \in Nat /\ Len(q) <= i
        BY <1>0, <2>3
      <4> HIDE DEF q, q2, R, R2
      <4>2. QED
        BY <1>0, <1>1, <2>1, <3>5, <4>1, CoveredPrefix
    <3>6. QED
      BY <3>3, <3>4, <3>5
  <2>4. i \in 1 .. Len(q) \/ i = Len(q) + 1
    <3> HIDE DEF q, q2
    <3>1. QED
      BY <1>0, <2>1
  <2>5. QED
    BY <2>2, <2>3, <2>4
<1>12. QED
  BY <1>7, <1>8, <1>9, <1>10, <1>11, LiveQueue DEF QueueStep

(* A backlog holds what the client has not got from its reading until it   *)
(* is flushed: nothing is inserted meanwhile.                              *)
LEMMA KeptRows ==
    ASSUME OneServer, TypeOK, Ownership, AuthInv, StoreBounded, CarriedSeqIsTheRows',
           GapInv, CursorHasNoGap, [Next]_vars,
           NEW s \in Servers, NEW k \in Clients, NEW c \in ConnIds,
           sock[k] = <<s, c>>, sock'[k] = <<s, c>>
    PROVE  RowsCover(k, s, c)'
<1> SUFFICES ASSUME Registering(s, c)', NEW m \in StoredFor(k)',
                    m \notin ToSet(received'[k])
             PROVE  \E i \in 1 .. Len(task'[s].rows) : task'[s].rows[i] = m
  BY DEF RowsCover
<1>1. m \notin ToSet(received[k])
  BY ReceivedGrows
<1>2. m \in StoredFor(k)
  <2>1. ~Carries(s)'
    BY DEF Carries, Registering
  <2>2. QED
    BY <2>1, StoredOrigin
<1>3. CASE task'[s] = task[s]
  <2>1. Registering(s, c)
    BY <1>3 DEF Registering
  <2>2. QED
    BY <1>1, <1>2, <1>3, <2>1 DEF GapInv, RowsCover
<1>4. CASE AuthenticateFetch(s)
  <2> DEFINE e == Next_event(s)
             r == task'[s].rows
  <2>1. e \in ToSet(events[s]) /\ e.type = "authenticate" /\ e.conn = c /\ e.mailbox # NoMailbox
    BY <1>4, FetchFacts, FetchIsNext DEF Registering
  <2>2. e.last_seq = last_seq[k]
    BY <2>1 DEF AuthInv, AuthenticatesOnce, AuthOf
  <2>3. e.mailbox = MailboxOf[k]
    BY <2>1 DEF Ownership, Owned, OwnedBy
  <2>4. m \in Messages /\ To[m] = MailboxOf[k] /\ seq[m] > 0 /\ seq[m] \in Nat
        /\ last_seq[k] \in Nat
    BY <1>2 DEF StoredFor, TypeOK
  <2>5. ~(seq[m] <= last_seq[k])
    BY <1>1, <2>4 DEF CursorHasNoGap
  <2>6. m \in RowsAfter(e.mailbox, e.last_seq)
    <3>1. seq[m] > last_seq[k]
      BY <2>4, <2>5
    <3>2. QED
      BY <2>2, <2>3, <2>4, <3>1 DEF RowsAfter
  <2>7. \A x \in RowsAfter(e.mailbox, e.last_seq) : \E i \in 1 .. Len(r) : r[i] = x
    BY <1>4, FetchRows
  <2>8. QED
    BY <2>6, <2>7
<1>5. QED
  BY <1>3, <1>4, RegisterOrigin DEF Registering

(* An authenticated socket is sent whatever is stored for its mailbox: the *)
(* new row is carried to it, and the backlog had all before.               *)
LEMMA KeptUpToDate ==
    ASSUME OneServer, RedisKeeps, TypeOK, LocalTablesAgree, Ownership, LiveInv,
           RegistryComplete, StoreBounded, CarriedSeqIsTheRows', BacklogInv, GapInv,
           [Next]_vars, NEW s \in Servers, NEW k \in Clients, NEW c \in ConnIds,
           sock[k] = <<s, c>>, sock'[k] = <<s, c>>
    PROVE  UpToDate(k, s, c)'
<1> DEFINE q == out[s][c]
           q2 == out'[s][c]
           R == ToSet(received[k])
           R2 == ToSet(received'[k])
<1> SUFFICES ASSUME Authenticated(s, c)', ~Registering(s, c)', NEW m \in StoredFor(k)'
             PROVE  Covered(q2, R2, Len(q2), m) \/ (Carries(s)' /\ task'[s].msg = m)
  BY DEF UpToDate
<1>0. ~Crash(s) /\ q \in Seq(Frame) /\ Len(q) \in Nat /\ R \subseteq R2
  <2>1. q \in Seq(Frame)
    BY DEF TypeOK
  <2>2. QED
    BY <2>1, LiveOrigin, ReceivedGrows
<1>1. SUFFICES ASSUME m \in StoredFor(k)
               PROVE  Covered(q2, R2, Len(q2), m) \/ (Carries(s)' /\ task'[s].msg = m)
  BY StoredOrigin
<1>2. CASE Registering(s, c)
  <2> DEFINE b == Backlog(s)
  <2>1. q2 = q \o b
    BY <1>0, <1>2, FlushArrives
  <2>2. b \in Seq(Frame) /\ Len(b) \in Nat
    BY <1>2, BacklogFrames DEF Registering
  <2>3. \A n \in Nat : Len(q) + Len(b) <= n => Covered(q \o b, R2, n, m)
    BY <1>0, <1>1, <1>2, BacklogCovers
  <2> HIDE DEF q, q2, b, R2
  <2>4. Len(q2) = Len(q) + Len(b)
    BY <1>0, <2>1, <2>2, ConcatElements
  <2>5. Len(q2) \in Nat /\ Len(q) + Len(b) <= Len(q2)
    BY <1>0, <2>2, <2>4
  <2>6. Covered(q \o b, R2, Len(q2), m)
    BY <2>3, <2>5
  <2>7. QED
    BY <2>1, <2>6
<1>3. CASE Authenticated(s, c) /\ ~Registering(s, c)
  <2>1. Covered(q, R, Len(q), m) \/ (Carries(s) /\ task[s].msg = m)
    BY <1>1, <1>3 DEF GapInv, UpToDate
  <2>2. CASE Covered(q, R, Len(q), m)
    BY <2>2, CoveredStep
  <2>3. CASE Carries(s) /\ task[s].msg = m
    <3>1. To[task[s].msg] = MailboxOf[k]
      BY <1>1, <2>3 DEF StoredFor
    <3>2. CASE task'[s] = task[s]
      BY <2>3, <3>2 DEF Carries
    <3>3. CASE SendLookup(s)
      BY <1>3, <2>3, <3>1, <3>3, LookupFinds
    <3>4. CASE SendDeliver(s)
      <4> DEFINE f == Delivery(m, task[s].seq)
      <4>1. f \in Frame /\ q2 = q \o <<f>>
        BY <1>3, <2>3, <3>1, <3>4, DeliverArrives
      <4>2. f.type = "delivery" /\ f.msg = m
        BY DEF Delivery
      <4> HIDE DEF f, q, q2, R2
      <4>3. <<f>> \in Seq(Frame) /\ Len(<<f>>) = 1 /\ <<f>>[1] = f
        BY <4>1
      <4>4. Len(q2) = Len(q) + 1
        BY <1>0, <4>1, <4>3, ConcatElements
      <4>5. Len(q2) \in Nat /\ Len(q) + 1 <= Len(q2) /\ 1 \in 1 .. Len(<<f>>)
        BY <1>0, <4>3, <4>4
      <4>6. Covered(q \o <<f>>, R2, Len(q2), m)
        BY <1>0, <4>2, <4>3, <4>5, CoveredBehind
      <4>7. QED
        BY <4>1, <4>6
    <3>5. QED
      BY <1>0, <2>3, <3>2, <3>3, <3>4, CarryStep
  <2>4. QED
    BY <2>1, <2>2, <2>3
<1>4. CASE ~Authenticated(s, c)
  <2>1. AuthenticateFetch(s) /\ c = Next_event(s).conn
    BY <1>0, <1>4, OwnerKept DEF Authenticated
  <2>2. Registering(s, c)'
    BY <2>1, FetchFacts DEF Registering
  <2>3. QED
    BY <2>2
<1>5. QED
  BY <1>2, <1>3, <1>4

(* A new socket has got nothing and owes nothing.                          *)
LEMMA OpenGap ==
    ASSUME TypeOK, Ownership, [Next]_vars, NEW s \in Servers, NEW k \in Clients,
           NEW c \in ConnIds, ClientOpen(k, s), c = next_id[s]
    PROVE  FramesCover(k, s, c)' /\ RowsCover(k, s, c)' /\ UpToDate(k, s, c)'
<1>1. next_id[s] <= c /\ c \in Int /\ FreshIds(s)
  BY ConstantsAssumption DEF TypeOK, ConnIds, Ownership, Owned
<1>2. out' = out /\ task' = task /\ connection_to_mailbox' = connection_to_mailbox
  BY DEF ClientOpen, localVars
<1>3. ~Authenticated(s, c)'
  BY <1>1, <1>2 DEF FreshIds, Authenticated
<1>4. ~Registering(s, c)'
  BY <1>1, <1>2 DEF FreshIds, Registering
<1>5. \A i \in 1 .. Len(out'[s][c]) : FALSE
  <2> DEFINE q == out[s][c]
  <2>1. q \in Seq(Frame)
    BY DEF TypeOK
  <2>2. ToSet(q) = {}
    BY <1>1 DEF FreshIds
  <2> HIDE DEF q
  <2>3. \A i \in 1 .. Len(q) : FALSE
    BY <2>1, <2>2, ElementsOf
  <2>4. QED
    BY <1>2, <2>3 DEF q
<1>6. QED
  BY <1>3, <1>4, <1>5 DEF FramesCover, RowsCover, UpToDate

(* With one server, whose Redis answers and forgets nothing by itself, a   *)
(* client has received every message of its mailbox up to its cursor, so   *)
(* that a reconnection, which asks only for what is beyond, misses none:   *)
(* over lost sockets, crashes, retried sends and failed INSERTs.           *)
THEOREM CursorsHaveNoGap == (OneServer /\ RedisKeeps /\ Spec) => []CursorHasNoGap
<1> SUFFICES ASSUME OneServer, RedisKeeps PROVE Spec => []CursorHasNoGap
  OBVIOUS
<1>1. Init => GapInv /\ CursorHasNoGap
  <2> SUFFICES ASSUME Init PROVE GapInv /\ CursorHasNoGap
    OBVIOUS
  <2>1. GapInv
    BY ConstantsAssumption DEF Init, GapInv
  <2>2. CursorHasNoGap
    BY DEF Init, CursorHasNoGap
  <2>3. QED
    BY <2>1, <2>2
<1>2. /\ TypeOK /\ LocalTablesAgree /\ Ownership /\ LiveInv /\ AuthInv
      /\ RegistryComplete /\ StoreBounded /\ CursorIsARow /\ CarriedSeqIsTheRows'
      /\ NoPubSub /\ BacklogInv /\ GapInv /\ CursorHasNoGap /\ [Next]_vars
      => GapInv' /\ CursorHasNoGap'
  <2> SUFFICES ASSUME TypeOK, LocalTablesAgree, Ownership, LiveInv, AuthInv,
                      RegistryComplete, StoreBounded, CursorIsARow, CarriedSeqIsTheRows',
                      NoPubSub, BacklogInv, GapInv, CursorHasNoGap, [Next]_vars
               PROVE  GapInv' /\ CursorHasNoGap'
    OBVIOUS
  <2>1. CursorHasNoGap'
    BY NextNoGap
  <2>2. ASSUME NEW s \in Servers, NEW k \in Clients, NEW c \in ConnIds, sock'[k] = <<s, c>>
        PROVE  FramesCover(k, s, c)' /\ RowsCover(k, s, c)' /\ UpToDate(k, s, c)'
    <3>1. CASE sock[k] = <<s, c>>
      BY <2>2, <3>1, KeptFrames, KeptRows, KeptUpToDate
    <3>2. CASE ClientOpen(k, s) /\ c = next_id[s]
      BY <3>2, OpenGap
    <3>3. QED
      BY <2>2, <3>1, <3>2, LiveOrigin
  <2>3. QED
    BY <2>1, <2>2 DEF GapInv
<1>3. Spec => []RegistryComplete
  BY ConnectionsAreRegistered
<1>4. Spec => []NoPubSub
  BY NoPubSubInvariant
<1>5. QED
  BY <1>1, <1>2, <1>3, <1>4, TypeCorrect, TablesAgree, OwnershipInvariant, LiveInvariant,
     AuthInvariant, BoundedInvariant, CursorsAreRows, CarriedSeqIsRight, BacklogInvariant,
     PTL DEF Spec

-----------------------------------------------------------------------------
(* What is sent once is delivered with its number                          *)

(* Postgres does not fail, and a message is sent once: sendMessage takes a *)
(* new UUID for each.  (An id sent again is delivered without a number,    *)
(* so that the device may be given it a second time with its backlog.)     *)
StoreKeeps == "db" \notin Faults /\ MaxSends = 1

(* The events that carry message m.                                        *)
SendsOf(m) == {e \in Event : e.type = "send" /\ e.msg = m}

(* At most one place of queue q holds one of these events.                 *)
OnePlace(q, T) == \A i, j \in 1 .. Len(q) : q[i] \in T /\ q[j] \in T => i = j

(* Taking the first event of a queue.                                      *)
LEMMA OnePlaceTail ==
    ASSUME NEW S, NEW q \in Seq(S), q # <<>>, NEW T, OnePlace(q, T)
    PROVE  /\ OnePlace(Tail(q), T)
           /\ Head(q) \in T => \A e \in ToSet(Tail(q)) : e \notin T
<1> DEFINE t == Tail(q)
<1>1. /\ Head(q) = q[1] /\ 1 \in 1 .. Len(q) /\ Len(q) \in Nat
      /\ t \in Seq(S) /\ Len(t) = Len(q) - 1
      /\ \A i \in 1 .. Len(q) - 1 : t[i] = q[i + 1]
  BY TailElements
<1> HIDE DEF t
<1>2. \A i \in 1 .. Len(t) : i + 1 \in 1 .. Len(q) /\ t[i] = q[i + 1] /\ i + 1 # 1
  BY <1>1
<1>3. \A i, j \in 1 .. Len(t) : i + 1 = j + 1 => i = j
  BY <1>1
<1>4. OnePlace(t, T)
  BY <1>2, <1>3 DEF OnePlace
<1>5. ASSUME q[1] \in T, NEW e \in ToSet(t), e \in T PROVE FALSE
  <2>1. PICK i \in 1 .. Len(t) : t[i] = e
    BY <1>1, ElementsOf
  <2>2. QED
    BY <1>1, <1>2, <1>5, <2>1 DEF OnePlace
<1>6. QED
  BY <1>1, <1>4, <1>5 DEF t

(* Putting an event behind the others.                                     *)
LEMMA OnePlaceAppend ==
    ASSUME NEW S, NEW q \in Seq(S), NEW x \in S, NEW T, OnePlace(q, T),
           x \in T => \A e \in ToSet(q) : e \notin T
    PROVE  OnePlace(Append(q, x), T)
<1> DEFINE a == Append(q, x)
<1>1. /\ Len(a) = Len(q) + 1 /\ Len(q) \in Nat /\ a[Len(q) + 1] = x
      /\ \A i \in 1 .. Len(q) : a[i] = q[i]
  BY AppendElements
<1>2. \A i \in 1 .. Len(q) : q[i] \in ToSet(q)
  BY ElementsOf
<1> HIDE DEF a
<1>3. \A i \in 1 .. Len(a) : i \in 1 .. Len(q) \/ i = Len(q) + 1
  BY <1>1
<1>4. QED
  BY <1>1, <1>2, <1>3 DEF OnePlace, a

(* A message on its way to the router is there once and not stored yet.    *)
SentOnce ==
    \A m \in Messages :
        /\ sent[m] = 0 => seq[m] = 0
        /\ \A s \in Servers :
               /\ OnePlace(events[s], SendsOf(m))
               /\ \A e \in ToSet(events[s]) : e \in SendsOf(m) => sent[m] # 0 /\ seq[m] = 0

(* Only a client counts what it sends.                                     *)
LEMMA SentOrigin ==
    ASSUME [Next]_vars
    PROVE  sent' = sent \/ \E m \in Messages : ClientSend(m)
<1> DEFINE Goal == sent' = sent \/ \E m \in Messages : ClientSend(m)
<1> USE DEF boundVars
<1>1. ASSUME UNCHANGED sent PROVE Goal
  BY <1>1
<1>2. ASSUME NEW k \in Clients, ClientStep(k) PROVE Goal
  BY <1>1, <1>2
  DEF ClientStep, ClientOpen, ClientAuthenticate, ClientTyping, OnDelivery, OnAck,
      OnTyping, ClientDrop
<1>3. ASSUME NEW s \in Servers, ServerStep(s) PROVE Goal
  BY <1>1, <1>3
  DEF ServerStep, RouterStep, ReaderEnd, WriterEnd, Subscribe, SubscriberForward,
      Crash, HandleConnected, HandleIgnored, HandleRefused, AuthenticateFetch,
      AuthenticateFlush, SendInsert, SendLookup, SendDeliver, SendPublish,
      HandleTyping, HandleDisconnected, HandlePubSubDelivery
<1>4. ASSUME NEW mb \in Mailboxes, Expire(mb) PROVE Goal
  BY <1>1, <1>4 DEF Expire
<1>5. CASE UNCHANGED vars
  BY <1>1, <1>5 DEF vars
<1>6. QED
  BY <1>2, <1>3, <1>4, <1>5 DEF Next

(* A client that sends a message has not sent it before.                   *)
LEMMA SendIsFirst ==
    ASSUME TypeOK, StoreKeeps, SentOnce, NEW m \in Messages, ClientSend(m)
    PROVE  /\ sent[m] = 0 /\ seq[m] = 0 /\ sent'[m] = 1
           /\ \A x \in Messages : x # m => sent'[x] = sent[x]
           /\ \A s \in Servers : \A e \in ToSet(events[s]) : e \notin SendsOf(m)
<1>1. sent[m] < 1 /\ sent' = [sent EXCEPT ![m] = @ + 1] /\ sent[m] \in Nat
  BY DEF ClientSend, StoreKeeps, TypeOK
<1>2. sent[m] = 0
  BY <1>1
<1>3. QED
  BY <1>1, <1>2 DEF SentOnce, TypeOK

(* Sending a message once, it is inserted once.                            *)
LEMMA NextSentOnce ==
    ASSUME OneServer, StoreKeeps, TypeOK, SentOnce, [Next]_vars
    PROVE  SentOnce'
<1> SUFFICES ASSUME NEW m \in Messages
             PROVE  /\ sent'[m] = 0 => seq'[m] = 0
                    /\ \A s \in Servers :
                           /\ OnePlace(events'[s], SendsOf(m))
                           /\ \A e \in ToSet(events'[s]) :
                                  e \in SendsOf(m) => sent'[m] # 0 /\ seq'[m] = 0
  BY DEF SentOnce, SendsOf
<1>1. /\ seq[m] \in Nat /\ sent[m] \in Nat
      /\ sent[m] = 0 => seq[m] = 0
      /\ \A s \in Servers :
             /\ OnePlace(events[s], SendsOf(m))
             /\ \A e \in ToSet(events[s]) : e \in SendsOf(m) => sent[m] # 0 /\ seq[m] = 0
  BY DEF SentOnce, TypeOK
<1>2. \A x \in Messages : ClientSend(x) =>
          /\ sent[x] = 0 /\ seq[x] = 0 /\ sent'[x] = 1
          /\ \A y \in Messages : y # x => sent'[y] = sent[y]
          /\ \A s \in Servers : \A e \in ToSet(events[s]) : e \notin SendsOf(x)
  BY SendIsFirst
<1>3. sent'[m] = sent[m] \/ (ClientSend(m) /\ sent'[m] = 1)
  BY <1>2, SentOrigin
<1>4. seq'[m] = seq[m] \/ \E s \in Servers : SendInsert(s) /\ Next_event(s).msg = m
  BY InsertFacts, StoreOrigin
<1>5. ASSUME NEW s \in Servers, SendInsert(s), Next_event(s).msg = m
      PROVE  /\ events[s] \in Seq(Event) /\ events[s] # <<>> /\ events'[s] = Tail(events[s])
             /\ Head(events[s]) \in SendsOf(m)
             /\ Head(events[s]) \in ToSet(events[s])
  <2>1. events[s] # <<>> /\ Next_event(s).type = "send" /\ Dequeue(s)
    BY <1>5 DEF SendInsert, Handling
  <2>2. Next_event(s) \in Event
    BY <2>1, EventsType
  <2>3. events[s] \in Seq(Event) /\ events'[s] = Tail(events[s])
    BY <2>1 DEF Dequeue, TypeOK
  <2>4. QED
    BY <1>5, <2>1, <2>2, <2>3, ToSetOfTail DEF SendsOf, Next_event
<1>6. sent'[m] = 0 => seq'[m] = 0
  <2>1. CASE seq'[m] = seq[m]
    BY <1>1, <1>3, <2>1
  <2>2. ASSUME NEW s \in Servers, SendInsert(s), Next_event(s).msg = m PROVE sent'[m] # 0
    BY <1>1, <1>3, <1>5, <2>2
  <2>3. QED
    BY <1>4, <2>1, <2>2
<1>7. ASSUME NEW s \in Servers, NEW e, NewEvent(s, e), e \in SendsOf(m)
      PROVE  ClientSend(m)
  BY <1>7 DEF NewEvent, SendsOf
<1>8. ASSUME NEW s \in Servers PROVE OnePlace(events'[s], SendsOf(m))
  <2>0. OnePlace(events[s], SendsOf(m)) /\ events[s] \in Seq(Event)
    BY <1>1 DEF TypeOK
  <2>1. CASE Crash(s)
    <3>1. events'[s] = <<>>
      BY <2>1 DEF Crash, TypeOK
    <3>2. QED
      BY <3>1 DEF OnePlace
  <2>2. CASE events'[s] = events[s]
    BY <2>0, <2>2
  <2>3. CASE events[s] # <<>> /\ events'[s] = Tail(events[s])
    BY <2>0, <2>3, OnePlaceTail
  <2>4. ASSUME NEW e \in Event, NewEvent(s, e), events'[s] = Append(events[s], e)
        PROVE  OnePlace(events'[s], SendsOf(m))
    <3>1. e \in SendsOf(m) => \A x \in ToSet(events[s]) : x \notin SendsOf(m)
      BY <1>2, <1>7, <2>4
    <3>2. QED
      BY <2>0, <2>4, <3>1, OnePlaceAppend
  <2>5. QED
    BY <2>1, <2>2, <2>3, <2>4, EventStep
<1>9. ASSUME NEW s \in Servers, NEW e \in ToSet(events'[s]), e \in SendsOf(m)
      PROVE  sent'[m] # 0 /\ seq'[m] = 0
  <2>1. CASE ClientSend(m)
    <3>1. ~SendInsert(s)
      <4>1. task' = task
        BY <2>1 DEF ClientSend
      <4>2. SendInsert(s) => task'[s] # task[s]
        <5>1. SendInsert(s) => task'[s].at = "lookup"
          BY InsertFacts
        <5>2. SendInsert(s) => task[s] = Idle
          BY DEF SendInsert, Handling
        <5>3. QED
          BY <5>1, <5>2 DEF Idle
      <4>3. QED
        BY <4>1, <4>2
    <3>2. seq'[m] = seq[m]
      BY <1>4, <3>1 DEF OneServer
    <3>3. QED
      BY <1>2, <2>1, <3>2
  <2>2. CASE ~ClientSend(m)
    <3>1. e \in ToSet(events[s])
      BY <1>7, <1>9, <2>2, EventOrigin
    <3>2. sent[m] # 0 /\ seq[m] = 0 /\ sent'[m] = sent[m]
      BY <1>1, <1>3, <1>9, <2>2, <3>1
    <3>3. ASSUME NEW r \in Servers, SendInsert(r), Next_event(r).msg = m PROVE FALSE
      <4>1. r = s
        BY DEF OneServer
      <4>2. OnePlace(events[s], SendsOf(m))
        BY <1>1
      <4>3. \A x \in ToSet(events'[s]) : x \notin SendsOf(m)
        BY <1>5, <3>3, <4>1, <4>2, OnePlaceTail
      <4>4. QED
        BY <1>9, <4>3
    <3>4. QED
      BY <1>4, <3>2, <3>3
  <2>3. QED
    BY <2>1, <2>2
<1>10. QED
  BY <1>6, <1>8, <1>9

(* No message waits for the router twice, or is stored while it waits.     *)
LEMMA SentOnceInvariant == (OneServer /\ StoreKeeps /\ Spec) => []SentOnce
<1> SUFFICES ASSUME OneServer, StoreKeeps PROVE Spec => []SentOnce
  OBVIOUS
<1>1. Init => SentOnce
  BY ToSetOfEmpty DEF Init, SentOnce, OnePlace
<1>2. TypeOK /\ SentOnce /\ [Next]_vars => SentOnce'
  BY NextSentOnce
<1>3. QED
  BY <1>1, <1>2, TypeCorrect, PTL DEF Spec

(* Whatever the handler carries, or is on its way, has its row's number.   *)
AllNumbered ==
    \A s \in Servers :
        /\ task[s].at \in {"lookup", "route"} => task[s].seq > 0
        /\ \A c \in ConnIds : \A f \in ToSet(out[s][c]) :
               f.type = "delivery" => f.seq > 0

(* The first INSERT of a message returns its number.                       *)
LEMMA InsertReturns ==
    ASSUME StoreKeeps, TypeOK, SentOnce, NEW s \in Servers, SendInsert(s)
    PROVE  LET m == Next_event(s).msg IN
           /\ seq[m] = 0 /\ seq'[m] = identity + 1
           /\ task'[s].seq = identity + 1
<1> DEFINE m == Next_event(s).msg
<1>1. events[s] # <<>> /\ Next_event(s).type = "send"
  BY DEF SendInsert, Handling
<1>2. Next_event(s) \in Event /\ events[s] \in Seq(Event)
  BY <1>1, EventsType DEF TypeOK
<1>3. m \in Messages /\ Next_event(s) \in SendsOf(m) /\ Next_event(s) \in ToSet(events[s])
  BY <1>1, <1>2, ToSetOfTail DEF SendsOf, Event, Next_event
<1>4. seq[m] = 0
  BY <1>3 DEF SentOnce
<1>5. InsertOutcomes = {"ok"}
  BY DEF InsertOutcomes, StoreKeeps
<1>6. /\ seq' = Inserted(m)
      /\ task' = [task EXCEPT ![s] = [at |-> "lookup", msg |-> m, seq |-> Returned(m)]]
  BY <1>5 DEF SendInsert
<1>7. seq'[m] = identity + 1
  BY <1>3, <1>4, <1>6 DEF Inserted, TypeOK
<1>8. task'[s].seq = identity + 1
  BY <1>4, <1>6 DEF Returned, TypeOK
<1>9. QED
  BY <1>4, <1>7, <1>8

(* Numbers are passed on by every handler.                                 *)
LEMMA NextNumbered ==
    ASSUME OneServer, StoreKeeps, TypeOK, SentOnce, NoPubSub, BacklogInv, AllNumbered,
           [Next]_vars
    PROVE  AllNumbered'
<1> SUFFICES ASSUME NEW s \in Servers
             PROVE  /\ task'[s].at \in {"lookup", "route"} => task'[s].seq > 0
                    /\ \A c \in ConnIds : \A f \in ToSet(out'[s][c]) :
                           f.type = "delivery" => f.seq > 0
  BY DEF AllNumbered
<1>1. task[s].at \in {"lookup", "route"} => task[s].seq > 0
  BY DEF AllNumbered
<1>2. ASSUME task'[s].at \in {"lookup", "route"} PROVE task'[s].seq > 0
  <2>1. CASE task'[s] = task[s]
    BY <1>1, <1>2, <2>1
  <2>2. CASE SendInsert(s)
    <3>1. identity \in Nat
      BY DEF TypeOK
    <3>2. QED
      BY <2>2, <3>1, InsertReturns
  <2>3. CASE SendLookup(s)
    <3>1. task[s].at = "lookup" /\ (task'[s] = Idle \/ task'[s].seq = task[s].seq)
      BY <2>3 DEF SendLookup, TypeOK
    <3>2. QED
      BY <1>1, <1>2, <3>1 DEF Idle
  <2>4. CASE SendDeliver(s)
    <3>1. task[s].at = "route" /\ task'[s] = RoutedTo(task[s], s)
      BY <2>4 DEF SendDeliver, TypeOK
    <3>2. QED
      BY <1>1, <1>2, <3>1 DEF RoutedTo, Idle
  <2>5. ~AuthenticateFetch(s) /\ task'[s] # Idle /\ \A r \in Servers : ~SendPublish(s, r)
    BY <1>2, FetchFacts DEF Idle, SendPublish, OneServer
  <2>6. QED
    BY <2>1, <2>2, <2>3, <2>4, <2>5, TaskOrigin
<1>3. ASSUME NEW c \in ConnIds, NEW f \in ToSet(out'[s][c]), f.type = "delivery"
      PROVE  f.seq > 0
  <2>1. CASE f \in ToSet(out[s][c])
    BY <1>3, <2>1 DEF AllNumbered
  <2>2. CASE NewFrame(s, c, f)
    <3>1. CASE AuthenticateFlush(s)
      <4>1. task[s].at = "register"
        BY <3>1 DEF AuthenticateFlush
      <4>2. PICK i \in 1 .. Len(task[s].rows) :
                f = Delivery(task[s].rows[i], seq[task[s].rows[i]])
        BY <1>3, <2>2, <4>1 DEF NewFrame, SendInsert, SendDeliver, HandlePubSubDelivery,
             HandleTyping, Handling, Idle
      <4>3. seq[task[s].rows[i]] > 0
        BY <4>1 DEF BacklogInv, RowsAscend
      <4>4. QED
        BY <4>2, <4>3 DEF Delivery
    <3>2. CASE SendDeliver(s) /\ f = Delivery(task[s].msg, task[s].seq)
      BY <1>1, <3>2 DEF SendDeliver, Delivery
    <3>3. ~HandlePubSubDelivery(s)
      <4>1. HandlePubSubDelivery(s) =>
                Next_event(s) \in ToSet(events[s]) /\ Next_event(s).type = "pubsub"
        BY ToSetOfTail DEF HandlePubSubDelivery, Handling, TypeOK, Next_event
      <4>2. QED
        BY <4>1 DEF NoPubSub
    <3>4. QED
      BY <1>3, <2>2, <3>1, <3>2, <3>3 DEF NewFrame, Ack, Typing
  <2>3. QED
    BY <2>1, <2>2, FrameOrigin
<1>4. QED
  BY <1>2, <1>3

(* No delivery is without a number.                                        *)
LEMMA NumberedInvariant == (OneServer /\ StoreKeeps /\ Spec) => []AllNumbered
<1> SUFFICES ASSUME OneServer, StoreKeeps PROVE Spec => []AllNumbered
  OBVIOUS
<1>1. Init => AllNumbered
  BY ToSetOfEmpty DEF Init, AllNumbered, Idle
<1>2. TypeOK /\ SentOnce /\ NoPubSub /\ BacklogInv /\ AllNumbered /\ [Next]_vars
      => AllNumbered'
  BY NextNumbered
<1>3. QED
  BY <1>1, <1>2, TypeCorrect, SentOnceInvariant, NoPubSubInvariant, BacklogInvariant, PTL
  DEF Spec

-----------------------------------------------------------------------------
(* What a device was shown is a first part of the log                      *)

(* Of two sequences in the order of their numbers, the one whose elements  *)
(* are the lower numbered elements of the other is its first part.         *)
LEMMA AscendingPrefix ==
    ASSUME NEW n \in [Messages -> Nat],
           NEW p \in Seq(Messages), NEW r \in Seq(Messages),
           AscendingBy(p, n), AscendingBy(r, n),
           ToSet(p) \subseteq ToSet(r),
           \A x \in ToSet(r) : \A y \in ToSet(p) : n[x] <= n[y] => x \in ToSet(p)
    PROVE  \A i \in 1 .. Len(p) : i \in 1 .. Len(r) /\ r[i] = p[i]
<1> DEFINE Bad == {i \in 1 .. Len(p) : ~(i \in 1 .. Len(r) /\ r[i] = p[i])}
<1>1. SUFFICES ASSUME Bad # {} PROVE FALSE
  OBVIOUS
<1>2. Len(p) \in Nat /\ Len(r) \in Nat /\ Bad \in SUBSET Nat
  OBVIOUS
<1>3. PICK i \in Bad : \A j \in Bad : i <= j
  <2> HIDE DEF Bad
  <2>1. QED
    BY <1>1, <1>2, LeastNatural
<1>4. \A j \in 1 .. Len(p) : j < i => j \in 1 .. Len(r) /\ r[j] = p[j]
  <2>1. \A j \in 1 .. Len(p) : j < i => j \notin Bad
    BY <1>2, <1>3
  <2>2. QED
    BY <2>1
<1>5. /\ \A j \in 1 .. Len(p) : n[p[j]] \in Nat
      /\ \A j \in 1 .. Len(r) : n[r[j]] \in Nat
  OBVIOUS
<1>6. i \in 1 .. Len(p) /\ p[i] \in ToSet(p)
  BY <1>3, ElementsOf
<1>7. PICK l \in 1 .. Len(r) : r[l] = p[i]
  BY <1>6, ElementsOf
<1>8. ~(l < i)
  <2>1. SUFFICES ASSUME l < i PROVE FALSE
    OBVIOUS
  <2>2. l \in 1 .. Len(p)
    BY <1>2, <1>6, <2>1
  <2>3. p[l] = p[i] /\ n[p[l]] < n[p[i]]
    BY <1>4, <1>6, <1>7, <2>1, <2>2 DEF AscendingBy
  <2>4. QED
    BY <1>5, <1>6, <2>3
<1>9. i \in 1 .. Len(r)
  BY <1>2, <1>6, <1>8
<1>10. l # i
  BY <1>3, <1>7, <1>9
<1>11. n[r[i]] < n[p[i]]
  <2>1. i < l
    BY <1>2, <1>6, <1>8, <1>10
  <2>2. QED
    BY <1>7, <1>9, <2>1 DEF AscendingBy
<1>12. r[i] \in ToSet(r)
  BY <1>9, ElementsOf
<1>13. r[i] \in ToSet(p)
  BY <1>5, <1>6, <1>9, <1>11, <1>12
<1>14. PICK h \in 1 .. Len(p) : p[h] = r[i]
  BY <1>13, ElementsOf
<1>15. h < i
  <2>1. SUFFICES ASSUME ~(h < i) PROVE FALSE
    OBVIOUS
  <2>2. h = i \/ i < h
    BY <1>2, <1>6, <2>1
  <2>3. n[p[i]] <= n[p[h]]
    BY <1>5, <1>6, <2>2 DEF AscendingBy
  <2>4. QED
    BY <1>5, <1>6, <1>9, <1>11, <1>14, <2>3
<1>16. r[h] = p[h] /\ h \in 1 .. Len(r)
  BY <1>4, <1>15
<1>17. n[r[h]] < n[r[i]]
  BY <1>9, <1>15, <1>16 DEF AscendingBy
<1>18. QED
  BY <1>5, <1>9, <1>14, <1>16, <1>17

(* What a device was given is of its mailbox, stored, not beyond its       *)
(* cursor, and in the order of the rows.                                   *)
GivenInOrder(k) ==
    /\ AscendingBy(received[k], seq)
    /\ \A i \in 1 .. Len(received[k]) :
           /\ To[received[k][i]] = MailboxOf[k]
           /\ 0 < seq[received[k][i]]
           /\ seq[received[k][i]] <= last_seq[k]

(* The delivery that a device takes is the row after its cursor, or later. *)
LEMMA DeliveryFacts ==
    ASSUME TypeOK, AllNumbered, DeliveriesAscend, OnlyToItsMailbox, CarriedSeqIsTheRows,
           NEW k \in Clients, OnDelivery(k)
    PROVE  LET m == NextFrame(k).msg IN
           /\ m \in Messages /\ To[m] = MailboxOf[k]
           /\ seq[m] > last_seq[k] /\ seq' = seq /\ last_seq'[k] = seq[m]
           /\ received' = [received EXCEPT ![k] = Append(@, m)]
<1> DEFINE f == NextFrame(k)
           s == sock[k][1]
           c == sock[k][2]
           q == out[s][c]
<1>1. /\ s \in Servers /\ c \in ConnIds /\ sock[k] = <<s, c>>
      /\ f \in Frame /\ f \in ToSet(q) /\ f.type = "delivery"
  BY IncomingFrame DEF OnDelivery
<1>2. q \in Seq(Frame) /\ q # <<>> /\ f = Head(q)
  BY <1>1 DEF TypeOK, OnDelivery, Incoming, NextFrame
<1>3. f.msg \in Messages /\ f.seq \in Nat
  BY <1>1 DEF Frame
<1>4. To[f.msg] = MailboxOf[k]
  BY <1>1 DEF OnlyToItsMailbox, ForMailbox
<1>5. f.seq > 0
  BY <1>1 DEF AllNumbered
<1>6. seq[f.msg] = f.seq
  <2>1. SeqOfRow(f.msg, f.seq)
    BY <1>1 DEF CarriedSeqIsTheRows
  <2>2. QED
    BY <1>3, <1>5, <2>1 DEF SeqOfRow
<1>7. f.seq > last_seq[k]
  <2>1. 1 \in DOMAIN q /\ q[1] = f
    BY <1>2
  <2>2. \A i \in DOMAIN q : Numbered(q[i]) => q[i].seq > last_seq[k]
    BY <1>1 DEF DeliveriesAscend
  <2> HIDE DEF q, f
  <2>3. QED
    BY <1>1, <1>5, <2>1, <2>2 DEF Numbered
<1>8. /\ seq' = seq /\ last_seq' = [last_seq EXCEPT ![k] = CursorAfter(k, f.seq)]
      /\ received' = [received EXCEPT ![k] = Append(@, f.msg)]
  BY DEF OnDelivery, storeVars
<1>9. last_seq'[k] = f.seq
  BY <1>7, <1>8 DEF CursorAfter, TypeOK
<1>10. QED
  BY <1>3, <1>4, <1>6, <1>7, <1>8, <1>9

(* A device that takes a delivery has it behind what it was given before.  *)
LEMMA NextGiven ==
    ASSUME TypeOK, AllNumbered, DeliveriesAscend, OnlyToItsMailbox, CarriedSeqIsTheRows,
           NEW k \in Clients, GivenInOrder(k), [Next]_vars
    PROVE  GivenInOrder(k)'
<1>1. received[k] \in Seq(Messages)
  BY DEF TypeOK
<1>2. CASE last_seq'[k] = last_seq[k] /\ received'[k] = received[k]
  <2>1. \A m \in Messages : seq[m] > 0 => seq'[m] = seq[m]
    BY NextNumbers DEF NumbersStep
  <2>2. \A i \in 1 .. Len(received[k]) :
            received[k][i] \in Messages /\ seq'[received[k][i]] = seq[received[k][i]]
    BY <1>1, <2>1 DEF GivenInOrder
  <2>3. QED
    BY <1>2, <2>2 DEF GivenInOrder, AscendingBy
<1>3. CASE OnDelivery(k)
  <2> DEFINE m == NextFrame(k).msg
             r == received[k]
             a == Append(r, m)
  <2>1. /\ m \in Messages /\ To[m] = MailboxOf[k] /\ seq[m] > last_seq[k]
        /\ seq' = seq /\ last_seq'[k] = seq[m]
        /\ received' = [received EXCEPT ![k] = Append(@, m)]
    BY <1>3, DeliveryFacts
  <2>2. received'[k] = a
    BY <2>1 DEF TypeOK
  <2>3. /\ Len(a) = Len(r) + 1 /\ Len(r) \in Nat
        /\ \A i \in 1 .. Len(r) : a[i] = r[i]
        /\ a[Len(r) + 1] = m
    BY <1>1, <2>1, AppendElements
  <2>4. seq[m] \in Nat /\ last_seq[k] \in Nat
    BY <2>1 DEF TypeOK
  <2>5. \A i \in 1 .. Len(r) : /\ r[i] \in Messages /\ To[r[i]] = MailboxOf[k]
                               /\ seq[r[i]] \in Nat /\ 0 < seq[r[i]]
                               /\ seq[r[i]] <= last_seq[k]
    BY <1>1 DEF TypeOK, GivenInOrder
  <2>6. \A i, j \in 1 .. Len(r) : i < j => seq[r[i]] < seq[r[j]]
    BY DEF GivenInOrder, AscendingBy
  <2> HIDE DEF a, m, r
  <2>7. \A i \in 1 .. Len(a) : i \in 1 .. Len(r) \/ i = Len(r) + 1
    BY <2>3
  <2>8. \A i \in 1 .. Len(a) : To[a[i]] = MailboxOf[k] /\ 0 < seq[a[i]] /\ seq[a[i]] <= seq[m]
    BY <2>1, <2>3, <2>4, <2>5, <2>7
  <2>9. \A i, j \in 1 .. Len(a) : i < j => seq[a[i]] < seq[a[j]]
    <3>1. \A i, j \in 1 .. Len(a) : i < j => i \in 1 .. Len(r)
      BY <2>3
    <3>2. QED
      BY <2>1, <2>3, <2>4, <2>5, <2>6, <2>7, <3>1
  <2>10. QED
    BY <2>1, <2>2, <2>8, <2>9 DEF GivenInOrder, AscendingBy
<1>4. QED
  BY <1>2, <1>3, DeliveredOrigin

(* No device is given a message twice, or a message before an older one.   *)
LEMMA GivenInvariant ==
    (OneServer /\ StoreKeeps /\ Spec) => [](\A k \in Clients : GivenInOrder(k))
<1> DEFINE Inv == \A k \in Clients : GivenInOrder(k)
<1> SUFFICES ASSUME OneServer, StoreKeeps PROVE Spec => []Inv
  OBVIOUS
<1>1. Init => Inv
  BY DEF Init, GivenInOrder, AscendingBy
<1>2. /\ TypeOK /\ AllNumbered /\ DeliveriesAscend /\ OnlyToItsMailbox
      /\ CarriedSeqIsTheRows /\ Inv /\ [Next]_vars
      => Inv'
  BY NextGiven
<1> HIDE DEF Inv
<1>3. Spec => []AllNumbered
  BY NumberedInvariant
<1>4. Spec => []DeliveriesAscend
  BY DeliveriesStayInOrder
<1>5. QED
  BY <1>1, <1>2, <1>3, <1>4, TypeCorrect, FramesStayInMailbox, CarriedSeqIsRight, PTL DEF Spec

-----------------------------------------------------------------------------
(* The log of a mailbox                                                    *)

(* There is only one such sequence.                                        *)
LEMMA OneOrder ==
    ASSUME NEW n \in [Messages -> Nat], NEW R \in SUBSET Messages,
           NEW p \in InOrder(R, n), NEW r \in InOrder(R, n)
    PROVE  p = r
<1>1. /\ p \in Seq(Messages) /\ ToSet(p) = R /\ AscendingBy(p, n)
      /\ r \in Seq(Messages) /\ ToSet(r) = R /\ AscendingBy(r, n)
  BY InOrderElements
<1>2. \A i \in 1 .. Len(p) : i \in 1 .. Len(r) /\ r[i] = p[i]
  BY <1>1, AscendingPrefix
<1>3. Len(p) \in Nat /\ Len(p) = Len(r)
  BY DEF InOrder
<1>4. QED
  BY <1>1, <1>2, <1>3

(* A message with the highest number goes to the end.                      *)
LEMMA LastInOrder ==
    ASSUME NEW n \in [Messages -> Nat], NEW t \in [Messages -> Nat],
           NEW R \in SUBSET Messages, NEW r \in InOrder(R, n),
           NEW m \in Messages, \A x \in R : t[x] = n[x] /\ t[x] < t[m]
    PROVE  Append(r, m) \in InOrder(R \cup {m}, t)
<1> DEFINE a == Append(r, m)
<1>1. r \in Seq(Messages) /\ ToSet(r) = R /\ AscendingBy(r, n)
  BY InOrderElements
<1>2. /\ a \in Seq(Messages) /\ Len(a) = Len(r) + 1 /\ Len(r) \in Nat
      /\ \A i \in 1 .. Len(r) : a[i] = r[i]
      /\ a[Len(r) + 1] = m
      /\ ToSet(a) = R \cup {m}
  BY <1>1, AppendElements
<1>3. \A i \in 1 .. Len(r) : r[i] \in R
  BY <1>1, ElementsOf
<1> HIDE DEF a
<1>4. \A i \in 1 .. Len(a) : i \in 1 .. Len(r) \/ i = Len(r) + 1
  BY <1>2
<1>5. \A i, j \in 1 .. Len(a) : i < j => i \in 1 .. Len(r)
  BY <1>2
<1>6. AscendingBy(a, t)
  BY <1>1, <1>2, <1>3, <1>4, <1>5 DEF AscendingBy
<1>7. R \cup {m} \in SUBSET Messages
  OBVIOUS
<1>8. a \in InOrder(R \cup {m}, t)
  BY <1>2, <1>6, <1>7, InOrderElements
<1>9. QED
  BY <1>8 DEF a

(* The rows of a mailbox, and that they have an order: no two rows have    *)
(* one number.                                                             *)
RowsOf(mb) == RowsAfter(mb, 0)

LogsExist == \A mb \in Mailboxes : InOrder(RowsOf(mb), seq) # {}

(* The log is then the order of the rows.                                  *)
LEMMA LogInOrder ==
    ASSUME NEW mb
    PROVE  /\ InOrder(RowsOf(mb), seq) # {} => LogOf(mb) \in InOrder(RowsOf(mb), seq)
           /\ InOrder(RowsOf(mb)', seq') # {} => LogOf(mb)' \in InOrder(RowsOf(mb)', seq')
<1>1. OrderedBySeq(RowsOf(mb)) = InOrder(RowsOf(mb), seq)
  BY DEF OrderedBySeq, InOrder
<1>2. OrderedBySeq(RowsOf(mb))' = InOrder(RowsOf(mb)', seq')
  BY DEF OrderedBySeq, InOrder
<1>3. LogOf(mb) = CHOOSE r \in OrderedBySeq(RowsOf(mb)) : TRUE
  BY DEF LogOf, RowsOf
<1>4. LogOf(mb)' = CHOOSE r \in OrderedBySeq(RowsOf(mb))' : TRUE
  BY DEF LogOf, RowsOf
<1>5. QED
  BY <1>1, <1>2, <1>3, <1>4

(* An INSERT puts one message at the end of its mailbox's log, and nothing *)
(* else changes a log.                                                     *)
LEMMA LogStep ==
    ASSUME OneServer, StoreKeeps, TypeOK, SentOnce, StoreBounded, LogsExist, [Next]_vars
    PROVE  /\ LogsExist'
           /\ \/ /\ seq' = seq
                 /\ \A mb \in Mailboxes : LogOf(mb)' = LogOf(mb)
              \/ /\ received' = received
                 /\ \E m \in Messages :
                     /\ m \notin ToSet(LogOf(To[m]))
                     /\ \A mb \in Mailboxes :
                            LogOf(mb)' = IF mb = To[m] THEN Append(LogOf(mb), m) ELSE LogOf(mb)
<1>1. seq \in [Messages -> Nat] /\ identity \in Nat
  BY DEF TypeOK
<1>2. seq' \in [Messages -> Nat]
  <2>1. TypeOK'
    BY NextType
  <2>2. QED
    BY <2>1 DEF TypeOK
<1>3. \A mb : RowsOf(mb) \in SUBSET Messages /\ RowsOf(mb)' \in SUBSET Messages
  BY DEF RowsOf, RowsAfter
<1>4. ASSUME NEW mb \in Mailboxes, RowsOf(mb)' = RowsOf(mb),
             \A x \in RowsOf(mb) : seq'[x] = seq[x]
      PROVE  InOrder(RowsOf(mb)', seq') # {} /\ LogOf(mb)' = LogOf(mb)
  <2>1. LogOf(mb) \in InOrder(RowsOf(mb), seq)
    BY LogInOrder DEF LogsExist
  <2>2. LogOf(mb) \in Seq(Messages) /\ ToSet(LogOf(mb)) = RowsOf(mb) /\ AscendingBy(LogOf(mb), seq)
    BY <1>1, <1>3, <2>1, InOrderElements
  <2>3. \A i \in 1 .. Len(LogOf(mb)) : LogOf(mb)[i] \in RowsOf(mb)
    BY <2>2, ElementsOf
  <2>4. AscendingBy(LogOf(mb), seq')
    BY <1>4, <2>2, <2>3 DEF AscendingBy
  <2>5. LogOf(mb) \in InOrder(RowsOf(mb)', seq')
    BY <1>2, <1>3, <1>4, <2>2, <2>4, InOrderElements
  <2>6. LogOf(mb)' \in InOrder(RowsOf(mb)', seq')
    BY <2>5, LogInOrder
  <2>7. QED
    BY <1>2, <1>3, <2>5, <2>6, OneOrder
<1>5. CASE seq' = seq
  <2>1. \A mb : RowsOf(mb)' = RowsOf(mb)
    BY <1>5 DEF RowsOf, RowsAfter
  <2>2. \A mb \in Mailboxes : InOrder(RowsOf(mb)', seq') # {} /\ LogOf(mb)' = LogOf(mb)
    BY <1>4, <1>5, <2>1
  <2>3. QED
    BY <1>5, <2>2 DEF LogsExist
<1>6. ASSUME NEW s \in Servers, SendInsert(s)
      PROVE  /\ LogsExist' /\ received' = received
             /\ \E m \in Messages :
                    /\ m \notin ToSet(LogOf(To[m]))
                    /\ \A mb \in Mailboxes :
                           LogOf(mb)' = IF mb = To[m] THEN Append(LogOf(mb), m) ELSE LogOf(mb)
  <2>0. PICK m \in Messages : m = Next_event(s).msg
    BY <1>6, InsertFacts
  <2>1. m \in Messages /\ seq[m] = 0 /\ seq'[m] = identity + 1
    BY <1>6, <2>0, InsertReturns
  <2>2. \A x \in Messages : x # m => seq'[x] = seq[x]
    BY <1>6, <2>0, InsertFacts
  <2>3. To[m] \in Mailboxes
    BY <2>1, ConstantsAssumption
  <2>4. ASSUME NEW mb \in Mailboxes, mb # To[m]
        PROVE  InOrder(RowsOf(mb)', seq') # {} /\ LogOf(mb)' = LogOf(mb)
    <3>1. RowsOf(mb)' = RowsOf(mb) /\ \A x \in RowsOf(mb) : seq'[x] = seq[x]
      BY <2>1, <2>2, <2>4 DEF RowsOf, RowsAfter
    <3>2. QED
      BY <1>4, <3>1
  <2> DEFINE h == To[m]
             R == RowsOf(h)
  <2>5. /\ R \in SUBSET Messages /\ m \notin R
        /\ RowsOf(h)' = R \cup {m}
        /\ \A x \in R : seq'[x] = seq[x] /\ seq'[x] < seq'[m]
    <3>1. \A x \in Messages : seq[x] <= identity /\ seq[x] \in Nat
      BY <1>1 DEF StoreBounded
    <3>2. R \in SUBSET Messages /\ m \notin R
      BY <2>1 DEF RowsOf, RowsAfter
    <3>3. \A x \in R : seq'[x] = seq[x]
      BY <2>2, <3>2
    <3>4. \A x \in R : seq'[x] < seq'[m]
      BY <1>1, <2>1, <3>1, <3>2, <3>3
    <3>5. RowsOf(h)' = R \cup {m}
      <4>1. seq'[m] > 0
        BY <1>1, <2>1
      <4>2. \A x : x \in RowsOf(h)' <=> x \in Messages /\ To[x] = h /\ seq'[x] > 0
        BY DEF RowsOf, RowsAfter
      <4>3. \A x : x \in R <=> x \in Messages /\ To[x] = h /\ seq[x] > 0
        BY DEF RowsOf, RowsAfter
      <4> HIDE DEF R
      <4>4. \A x : x \in RowsOf(h)' <=> x \in R \/ x = m
        BY <2>1, <2>2, <4>1, <4>2, <4>3
      <4>5. QED
        BY <4>4
    <3>6. QED
      BY <3>2, <3>3, <3>4, <3>5
  <2>6. LogOf(h) \in InOrder(R, seq)
    BY <2>3, LogInOrder DEF LogsExist
  <2>7. m \notin ToSet(LogOf(h))
    <3>1. ToSet(LogOf(h)) = R
      BY <1>1, <2>5, <2>6, InOrderElements
    <3>2. QED
      BY <2>5, <3>1
  <2>8. Append(LogOf(h), m) \in InOrder(R \cup {m}, seq')
    <3> HIDE DEF R, h
    <3>1. QED
      BY <1>1, <1>2, <2>1, <2>5, <2>6, LastInOrder
  <2>9. LogOf(h)' = Append(LogOf(h), m) /\ InOrder(RowsOf(h)', seq') # {}
    <3>1. LogOf(h)' \in InOrder(RowsOf(h)', seq')
      BY <2>5, <2>8, LogInOrder
    <3>2. QED
      BY <1>2, <1>3, <2>5, <2>8, <3>1, OneOrder
  <2>10. \A mb \in Mailboxes : /\ InOrder(RowsOf(mb)', seq') # {}
                              /\ LogOf(mb)' = IF mb = To[m] THEN Append(LogOf(mb), m)
                                                            ELSE LogOf(mb)
    <3> SUFFICES ASSUME NEW mb \in Mailboxes
                 PROVE  /\ InOrder(RowsOf(mb)', seq') # {}
                        /\ LogOf(mb)' = IF mb = To[m] THEN Append(LogOf(mb), m)
                                                      ELSE LogOf(mb)
      OBVIOUS
    <3>1. CASE mb = To[m]
      BY <2>9, <3>1
    <3>2. CASE mb # To[m]
      BY <2>4, <3>2
    <3>3. QED
      BY <3>1, <3>2
  <2>11. received' = received
    BY <1>6 DEF SendInsert, clientVars
  <2>12. LogsExist'
    BY <2>10 DEF LogsExist
  <2>13. QED
    BY <2>1, <2>7, <2>10, <2>11, <2>12
<1>7. QED
  BY <1>5, <1>6, StoreOrigin

(* Nothing is stored at first: the logs are empty.                         *)
LEMMA InitLogs == Init => LogsExist /\ \A mb \in Mailboxes : LogOf(mb) = <<>>
<1> SUFFICES ASSUME Init, NEW mb \in Mailboxes
             PROVE  InOrder(RowsOf(mb), seq) # {} /\ LogOf(mb) = <<>>
  BY DEF LogsExist
<1>1. seq \in [Messages -> Nat] /\ RowsOf(mb) = {}
  BY DEF Init, RowsOf, RowsAfter
<1>2. <<>> \in Seq(Messages) /\ ToSet(<<>>) = {} /\ AscendingBy(<<>>, seq)
  BY ToSetOfEmpty DEF AscendingBy
<1>3. <<>> \in InOrder({}, seq)
  BY <1>1, <1>2, InOrderElements
<1>4. LogOf(mb) \in InOrder({}, seq)
  BY <1>1, <1>3, LogInOrder
<1>5. LogOf(mb) = <<>>
  BY <1>1, <1>3, <1>4, OneOrder
<1>6. QED
  BY <1>1, <1>3, <1>5

(* Every mailbox has its log.                                              *)
LEMMA LogsInvariant == (OneServer /\ StoreKeeps /\ Spec) => []LogsExist
<1> SUFFICES ASSUME OneServer, StoreKeeps PROVE Spec => []LogsExist
  OBVIOUS
<1>1. Init => LogsExist
  BY InitLogs
<1>2. TypeOK /\ SentOnce /\ StoreBounded /\ LogsExist /\ [Next]_vars => LogsExist'
  BY LogStep
<1>3. QED
  BY <1>1, <1>2, TypeCorrect, SentOnceInvariant, BoundedInvariant, PTL DEF Spec

-----------------------------------------------------------------------------
(* The relay is a mailbox for every user                                   *)

(* What a device is shown by a delivery is the next message of the log.    *)
LEMMA DeliveryShows ==
    ASSUME TypeOK, [Next]_vars, LogsExist', CursorHasNoGap', NEW k \in Clients,
           GivenInOrder(k)', NEW m \in Messages,
           received'[k] = Append(received[k], m)
    PROVE  LET l == LogOf(MailboxOf[k])' IN
           Len(received[k]) + 1 <= Len(l) /\ l[Len(received[k]) + 1] = m
<1> DEFINE mb == MailboxOf[k]
           l == LogOf(mb)'
           r == received[k]
           p == received'[k]
<1>1. mb \in Mailboxes
  BY ConstantsAssumption
<1>2. seq' \in [Messages -> Nat] /\ p \in Seq(Messages) /\ last_seq'[k] \in Nat
  <2>1. TypeOK'
    BY NextType
  <2>2. QED
    BY <2>1 DEF TypeOK
<1>3. /\ r \in Seq(Messages) /\ Len(r) \in Nat
      /\ Len(p) = Len(r) + 1 /\ p[Len(r) + 1] = m
  <2>1. r \in Seq(Messages) /\ p = Append(r, m)
    BY DEF TypeOK
  <2>2. QED
    BY <2>1, AppendElements
<1>4. RowsOf(mb)' = {x \in Messages : To[x] = mb /\ seq'[x] > 0}
  BY DEF RowsOf, RowsAfter
<1>5. l \in Seq(Messages) /\ ToSet(l) = RowsOf(mb)' /\ AscendingBy(l, seq')
  <2>1. l \in InOrder(RowsOf(mb)', seq')
    BY <1>1, LogInOrder DEF LogsExist
  <2>2. RowsOf(mb)' \in SUBSET Messages
    BY <1>4
  <2> HIDE DEF l
  <2>3. QED
    BY <1>2, <2>1, <2>2, InOrderElements
<1>6. /\ AscendingBy(p, seq')
      /\ \A i \in 1 .. Len(p) :
             To[p[i]] = mb /\ 0 < seq'[p[i]] /\ seq'[p[i]] <= last_seq'[k]
  BY DEF GivenInOrder
<1> HIDE DEF p, r, l
<1>7. \A y \in ToSet(p) :
          y \in Messages /\ To[y] = mb /\ 0 < seq'[y] /\ seq'[y] <= last_seq'[k]
  BY <1>2, <1>6, ElementsOf
<1>8. ToSet(p) \subseteq ToSet(l)
  BY <1>2, <1>4, <1>5, <1>7
<1>9. \A x \in ToSet(l) : \A y \in ToSet(p) : seq'[x] <= seq'[y] => x \in ToSet(p)
  <2> SUFFICES ASSUME NEW x \in ToSet(l), NEW y \in ToSet(p), seq'[x] <= seq'[y]
               PROVE  x \in ToSet(p)
    OBVIOUS
  <2>1. x \in Messages /\ To[x] = mb /\ 0 < seq'[x]
    BY <1>4, <1>5
  <2>2. seq'[x] <= last_seq'[k]
    BY <1>2, <1>7, <2>1
  <2>3. QED
    BY <2>1, <2>2 DEF CursorHasNoGap, p
<1>10. \A i \in 1 .. Len(p) : i \in 1 .. Len(l) /\ l[i] = p[i]
  BY <1>2, <1>5, <1>6, <1>8, <1>9, AscendingPrefix
<1>11. Len(r) + 1 \in 1 .. Len(p)
  BY <1>3
<1>12. Len(r) + 1 \in 1 .. Len(l) /\ l[Len(r) + 1] = m
  BY <1>3, <1>10, <1>11
<1>13. QED
  BY <1>12 DEF l, r

(* Each step of the servers and the clients stores one message, shows one  *)
(* to a device, or does nothing that the mailboxes know of.                *)
LEMMA StepOfMailbox ==
    ASSUME OneServer, StoreKeeps, TypeOK, AllNumbered, DeliveriesAscend,
           OnlyToItsMailbox, CarriedSeqIsTheRows, SentOnce, StoreBounded, LogsExist,
           CursorHasNoGap', \A k \in Clients : GivenInOrder(k)', [Next]_vars
    PROVE  [Logs!Next]_(Logs!vars)
<1> DEFINE logs == [mb \in Mailboxes |-> LogOf(mb)]
<1>1. LogsExist'
  BY LogStep
<1>2. ASSUME received' = received, NEW m \in Messages,
             m \notin ToSet(LogOf(To[m])),
             \A mb \in Mailboxes :
                 LogOf(mb)' = IF mb = To[m] THEN Append(LogOf(mb), m) ELSE LogOf(mb)
      PROVE  Logs!Accept(m)
  <2>1. To[m] \in Mailboxes
    BY ConstantsAssumption
  <2>2. m \notin ToSet(logs[To[m]])
    BY <1>2, <2>1
  <2>3. logs' = [logs EXCEPT ![To[m]] = Append(@, m)]
    BY <1>2, <2>1
  <2>4. QED
    BY <1>2, <2>2, <2>3 DEF Logs!Accept, Logs!ToSet, ToSet
<1>3. ASSUME seq' = seq, \A mb \in Mailboxes : LogOf(mb)' = LogOf(mb)
      PROVE  Logs!Next \/ UNCHANGED Logs!vars
  <2>1. logs' = logs
    BY <1>3
  <2>2. CASE received' = received
    BY <2>1, <2>2 DEF Logs!vars
  <2>3. CASE received' # received
    <3>1. PICK k \in Clients : OnDelivery(k)
      <4>1. \A k \in Clients : received'[k] = received[k] \/ OnDelivery(k)
        BY DeliveredOrigin
      <4>2. /\ received \in [Clients -> Seq(Messages)]
            /\ received' \in [Clients -> Seq(Messages)]
        <5>1. TypeOK'
          BY NextType
        <5>2. QED
          BY <5>1 DEF TypeOK
      <4>3. QED
        BY <2>3, <4>1, <4>2
    <3>2. PICK m \in Messages : received' = [received EXCEPT ![k] = Append(@, m)]
      BY <3>1, DeliveryFacts
    <3>3. received'[k] = Append(received[k], m) /\ MailboxOf[k] \in Mailboxes
      BY <3>2, ConstantsAssumption DEF TypeOK
    <3> DEFINE l == LogOf(MailboxOf[k])
               n == Len(received[k]) + 1
    <3>4. n <= Len(l) /\ l[n] = m
      <4>1. l' = l
        BY <1>3, <3>3
      <4>2. n <= Len(l') /\ l'[n] = m
        BY <1>1, <3>3, DeliveryShows
      <4>3. QED
        BY <4>1, <4>2
    <3>5. logs[MailboxOf[k]] = l
      BY <3>3
    <3>6. Logs!Show(k)
      BY <2>1, <3>2, <3>4, <3>5 DEF Logs!Show
    <3>7. QED
      BY <3>6 DEF Logs!Next
  <2>4. QED
    BY <2>2, <2>3
<1>4. QED
  BY <1>2, <1>3, LogStep DEF Logs!Next

(* A server whose Redis and Postgres keep what they are given, and whose   *)
(* clients never send a message twice, is a set of mailbox logs: through   *)
(* crashes, lost sockets and reconnections, what a device is given at any  *)
(* time is the beginning of the log of its user, in order, each message    *)
(* once and none left out.                                                 *)
THEOREM RelayIsAMailbox ==
    (OneServer /\ RedisKeeps /\ StoreKeeps /\ Spec) => Logs!Safety
<1> SUFFICES ASSUME OneServer, RedisKeeps, StoreKeeps PROVE Spec => Logs!Safety
  OBVIOUS
<1>1. Init => Logs!Init
  <2> SUFFICES ASSUME Init PROVE Logs!Init
    OBVIOUS
  <2>1. \A mb \in Mailboxes : LogOf(mb) = <<>>
    BY InitLogs
  <2>2. received = [k \in Clients |-> <<>>]
    BY DEF Init
  <2>3. QED
    BY <2>1, <2>2 DEF Logs!Init
<1>2. /\ TypeOK /\ AllNumbered /\ DeliveriesAscend /\ OnlyToItsMailbox
      /\ CarriedSeqIsTheRows /\ SentOnce /\ StoreBounded /\ LogsExist
      /\ CursorHasNoGap' /\ (\A k \in Clients : GivenInOrder(k))' /\ [Next]_vars
      => [Logs!Next]_(Logs!vars)
  BY StepOfMailbox
<1>3. Spec => []AllNumbered
  BY NumberedInvariant
<1>4. Spec => []DeliveriesAscend
  BY DeliveriesStayInOrder
<1>5. Spec => []CursorHasNoGap
  BY CursorsHaveNoGap
<1>6. Spec => [](\A k \in Clients : GivenInOrder(k))
  BY GivenInvariant
<1>7. Spec => []SentOnce
  BY SentOnceInvariant
<1>8. Spec => []LogsExist
  BY LogsInvariant
<1>9. QED
  BY <1>1, <1>2, <1>3, <1>4, <1>5, <1>6, <1>7, <1>8, TypeCorrect, FramesStayInMailbox,
     CarriedSeqIsRight, BoundedInvariant, PTL DEF Spec, Logs!Safety
=============================================================================
