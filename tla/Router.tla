------------------------------- MODULE Router -------------------------------
(***************************************************************************)
(* The socket servers of Relay (socket_server/src) and the part of the     *)
(* browser that talks to them (web_client_2/src/hooks/useChat.ts).         *)
(*                                                                         *)
(* A server process has one router task.  It takes one event at a time     *)
(* from an unbounded channel (`events`) and runs the handler to its end;   *)
(* only the router changes the connection tables.  A handler that awaits   *)
(* Postgres or Redis is cut at that await into steps (`task` says where it *)
(* stands), because clients, reader and writer tasks, the Redis subscriber *)
(* and the other servers go on meanwhile.  What is shared by the servers   *)
(* is the table pending_messages (`seq`, `delivered_at`), the Redis hashes *)
(* user:<id>:connections (`registry`) and one pub/sub channel per server.  *)
(*                                                                         *)
(* Info and Error frames change nothing at the client: they are not        *)
(* queued, but sending one still discovers a dead writer.                  *)
(***************************************************************************)
EXTENDS Integers, Sequences, FiniteSets, SequencesExt

CONSTANTS
    Servers,      \* server processes, by SERVER_ID
    Mailboxes,    \* user ids: a user's mailbox
    Clients,      \* devices, each with its own localStorage cursor
    Messages,     \* message ids with the payload they carry
    MailboxOf,    \* [Clients -> Mailboxes]: whose device it is
    From,         \* [Messages -> Clients]: the device that sends it
    To,           \* [Messages -> Mailboxes]: the mailbox it is sent to
    NoMailbox, NoServer, NoSocket,   \* "none" of each kind
    Faults,       \* subset of {"db", "redis", "expiry", "token"}
    MaxConn,      \* bound: connections a process accepts in its life
    MaxSends,     \* bound: times one message is sent (2: a retry)
    MaxTyping,    \* bound: typing frames sent in all
    MaxDrops,     \* bound: sockets lost or closed by clients
    MaxCrashes    \* bound: crashes of server processes

ConnIds == 0 .. MaxConn - 1

(* What the constants must be: finite data, and "none" values that are     *)
(* not members of the sets they complete.                                  *)
ASSUME ConstantsAssumption ==
    /\ IsFiniteSet(Messages)
    /\ MailboxOf \in [Clients -> Mailboxes]
    /\ From \in [Messages -> Clients]
    /\ To \in [Messages -> Mailboxes]
    /\ NoMailbox \notin Mailboxes
    /\ NoServer \notin Servers
    /\ NoSocket \notin Servers \X ConnIds
    /\ MaxConn \in Nat

VARIABLES
    \* --- one server process: the router task and the tasks around it
    events,                   \* the router's channel
    task,                     \* the handler suspended at an await, or Idle
    connections,              \* RouterState::connections (its keys)
    connection_to_mailbox,    \* RouterState::connection_to_mailbox
    mailbox_to_connections,   \* RouterState::mailbox_to_connections
    next_id,                  \* main's next_id, 0 again in a new process
    reader,                   \* connections whose handle_connection loop runs
    writer,                   \* connections whose handle_client_writer runs
    out,                      \* frames on their way to the client, per connection
    \* --- shared by the servers
    seq,                      \* pending_messages.seq, 0 when there is no row
    identity,                 \* the IDENTITY sequence behind that column
    delivered_at,             \* rows whose delivered_at is set
    registry,                 \* user:<id>:connections, conn id -> server id
    subscribed,               \* servers whose Redis subscription stands
    channel,                  \* published, not yet taken by the subscriber
    \* --- the clients
    sock,                     \* the client's socket <<server, connection>>
    opening,                  \* clients whose onopen has not run yet
    last_seq,                 \* localStorage relay_last_seq_<user>
    received,                 \* deliveries handed to the client, in order
    acked,                    \* messages whose sender got an Ack
    \* --- counters that exist only to bound the runs
    sent, typed, drops, crashes

localVars  == <<connections, connection_to_mailbox, mailbox_to_connections>>
socketVars == <<next_id, reader, writer>>
storeVars  == <<seq, identity, delivered_at>>
redisVars  == <<registry, subscribed, channel>>
clientVars == <<sock, opening, last_seq, received, acked>>
boundVars  == <<sent, typed, drops, crashes>>

vars == <<events, task, localVars, socketVars, out, storeVars, redisVars,
          clientVars, boundVars>>

-----------------------------------------------------------------------------
(* Events of the router's channel, frames to a client, published payloads  *)
(* and the points at which a handler can be suspended.                     *)

Event ==
    [type : {"connected", "disconnected"}, conn : ConnIds]
        \cup
    [type : {"authenticate"}, conn : ConnIds,
     mailbox : Mailboxes \cup {NoMailbox}, last_seq : Nat]
        \cup
    [type : {"send"}, conn : ConnIds, msg : Messages]
        \cup
    [type : {"typing"}, conn : ConnIds, mailbox : Mailboxes]
        \cup
    [type : {"pubsub"}, msg : Messages, seq : Nat]

Frame ==
    [type : {"ack"}, msg : Messages]
        \cup
    [type : {"delivery"}, msg : Messages, seq : Nat]
        \cup
    [type : {"typing"}, mailbox : Mailboxes]

PubSubPayload == [msg : Messages, seq : Nat]

Task ==
    [at : {"idle"}]
        \cup
    [at : {"register"}, conn : ConnIds, mailbox : Mailboxes, rows : Seq(Messages)]
        \cup
    [at : {"lookup"}, msg : Messages, seq : Nat]
        \cup
    [at : {"route"}, msg : Messages, seq : Nat, to : SUBSET Servers]

Idle == [at |-> "idle"]
Ack(m) == [type |-> "ack", msg |-> m]
Delivery(m, n) == [type |-> "delivery", msg |-> m, seq |-> n]
Typing(mb) == [type |-> "typing", mailbox |-> mb]

-----------------------------------------------------------------------------
Init ==
    /\ events = [s \in Servers |-> <<>>]
    /\ task = [s \in Servers |-> Idle]
    /\ connections = [s \in Servers |-> {}]
    /\ connection_to_mailbox = [s \in Servers |-> [c \in ConnIds |-> NoMailbox]]
    /\ mailbox_to_connections = [s \in Servers |-> [mb \in Mailboxes |-> {}]]
    /\ next_id = [s \in Servers |-> 0]
    /\ reader = [s \in Servers |-> {}]
    /\ writer = [s \in Servers |-> {}]
    /\ out = [s \in Servers |-> [c \in ConnIds |-> <<>>]]
    /\ seq = [m \in Messages |-> 0]
    /\ identity = 0
    /\ delivered_at = {}
    /\ registry = [mb \in Mailboxes |-> [c \in ConnIds |-> NoServer]]
    /\ subscribed = {}
    /\ channel = [s \in Servers |-> <<>>]
    /\ sock = [k \in Clients |-> NoSocket]
    /\ opening = {}
    /\ last_seq = [k \in Clients |-> 0]
    /\ received = [k \in Clients |-> <<>>]
    /\ acked = {}
    /\ sent = [m \in Messages |-> 0]
    /\ typed = 0
    /\ drops = 0
    /\ crashes = 0

(* What a call to an external service may come back with.                  *)
Outcomes(fault) == IF fault \in Faults THEN BOOLEAN ELSE {TRUE}

PeerAlive(s, c) == \E k \in Clients : sock[k] = <<s, c>>

Enqueue(s, e) == events' = [events EXCEPT ![s] = Append(@, e)]
Dequeue(s)    == events' = [events EXCEPT ![s] = Tail(@)]

-----------------------------------------------------------------------------
(* RouterState                                                             *)

(* Mutant: a socket leaves the table of connections and its mailbox's      *)
(* list, but stays authenticated.                                          *)
DisconnectKeepsOwner(s, C) ==
    /\ connections' = [connections EXCEPT ![s] = @ \ C]
    /\ mailbox_to_connections' = [mailbox_to_connections EXCEPT ![s] =
           [mb \in Mailboxes |->
               {c \in mailbox_to_connections[s][mb] :
                   ~(c \in C /\ connection_to_mailbox[s][c] = mb)}]]
    /\ UNCHANGED connection_to_mailbox

(* RouterState::disconnect_client on each connection of C: the three local *)
(* tables, and nothing in Redis.                                           *)
DisconnectClients(s, C) ==
    /\ connections' = [connections EXCEPT ![s] = @ \ C]
    /\ connection_to_mailbox' = [connection_to_mailbox EXCEPT ![s] =
           [c \in ConnIds |->
               IF c \in C THEN NoMailbox ELSE connection_to_mailbox[s][c]]]
    /\ mailbox_to_connections' = [mailbox_to_connections EXCEPT ![s] =
           [mb \in Mailboxes |->
               {c \in mailbox_to_connections[s][mb] :
                   ~(c \in C /\ connection_to_mailbox[s][c] = mb)}]]

(* send_or_disconnect_server_msg of `frames` to each connection of C.  A   *)
(* connection whose writer has ended is disconnected.  One whose client is *)
(* gone but whose writer has not noticed yet loses the frames.             *)
SendOrDisconnect(s, C, frames) ==
    /\ out' = [out EXCEPT ![s] =
           [c \in ConnIds |->
               IF c \in C \cap writer[s] /\ PeerAlive(s, c)
               THEN out[s][c] \o frames
               ELSE out[s][c]]]
    /\ DisconnectClients(s, C \ writer[s])

(* Mutant: every connection of the server is a recipient.                  *)
EveryConnection(s, mb) == connections[s]

(* deliver_to_mailbox and deliver_typing_to_mailbox: the connections that  *)
(* a frame for mailbox mb goes to.                                         *)
Recipients(s, mb) == mailbox_to_connections[s][mb] \cap connections[s]

-----------------------------------------------------------------------------
(* The client                                                              *)

(* connect(), main's accept loop and the head of handle_connection: the    *)
(* socket takes the process's next id and the router is told.              *)
ClientOpen(k, s) ==
    LET c == next_id[s] IN
    /\ sock[k] = NoSocket
    /\ c < MaxConn
    /\ sock' = [sock EXCEPT ![k] = <<s, c>>]
    /\ opening' = opening \cup {k}
    /\ next_id' = [next_id EXCEPT ![s] = c + 1]
    /\ reader' = [reader EXCEPT ![s] = @ \cup {c}]
    /\ writer' = [writer EXCEPT ![s] = @ \cup {c}]
    /\ Enqueue(s, [type |-> "connected", conn |-> c])
    /\ UNCHANGED <<task, localVars, out, storeVars, redisVars,
                   last_seq, received, acked, boundVars>>

(* onopen: authenticate with the cursor of localStorage.  A token the      *)
(* server rejects (it expires on the way) is NoMailbox.                    *)
ClientAuthenticate(k) ==
    /\ k \in opening
    /\ opening' = opening \ {k}
    /\ \E ok \in Outcomes("token") :
           Enqueue(sock[k][1],
                   [type |-> "authenticate", conn |-> sock[k][2],
                    mailbox |-> IF ok THEN MailboxOf[k] ELSE NoMailbox,
                    last_seq |-> last_seq[k]])
    /\ UNCHANGED <<task, localVars, socketVars, out, storeVars, redisVars,
                   sock, last_seq, received, acked, boundVars>>

CanSend(k) == sock[k] # NoSocket /\ k \notin opening

(* sendMessage: the frame reaches the reader of the sender's socket.  The  *)
(* client does not wait for AUTH OK.                                       *)
ClientSend(m) ==
    LET k == From[m] IN
    /\ CanSend(k)
    /\ sent[m] < MaxSends
    /\ sent' = [sent EXCEPT ![m] = @ + 1]
    /\ Enqueue(sock[k][1], [type |-> "send", conn |-> sock[k][2], msg |-> m])
    /\ UNCHANGED <<task, localVars, socketVars, out, storeVars, redisVars,
                   clientVars, typed, drops, crashes>>

(* notifyTyping (typing or stop_typing) to the user whose mailbox is mb.   *)
ClientTyping(k, mb) ==
    /\ CanSend(k)
    /\ typed < MaxTyping
    /\ typed' = typed + 1
    /\ Enqueue(sock[k][1],
               [type |-> "typing", conn |-> sock[k][2], mailbox |-> mb])
    /\ UNCHANGED <<task, localVars, socketVars, out, storeVars, redisVars,
                   clientVars, sent, drops, crashes>>

(* The next frame that the socket of k has for it.                         *)
Incoming(k, type) ==
    /\ sock[k] # NoSocket
    /\ k \notin opening
    /\ out[sock[k][1]][sock[k][2]] # <<>>
    /\ Head(out[sock[k][1]][sock[k][2]]).type = type

NextFrame(k) == Head(out[sock[k][1]][sock[k][2]])
TakeFrame(k) == out' = [out EXCEPT ![sock[k][1]][sock[k][2]] = Tail(@)]

(* Mutant: the cursor counts deliveries.                                   *)
CountingCursor(k, n) == last_seq[k] + 1

(* onmessage, delivery: the cursor moves only forward.                     *)
CursorAfter(k, n) == IF n > last_seq[k] THEN n ELSE last_seq[k]

OnDelivery(k) ==
    /\ Incoming(k, "delivery")
    /\ TakeFrame(k)
    /\ last_seq' = [last_seq EXCEPT ![k] = CursorAfter(k, NextFrame(k).seq)]
    /\ received' = [received EXCEPT ![k] = Append(@, NextFrame(k).msg)]
    /\ UNCHANGED <<events, task, localVars, socketVars, storeVars, redisVars,
                   sock, opening, acked, boundVars>>

(* onmessage, ack: the ratchet state is committed (module Session).        *)
OnAck(k) ==
    /\ Incoming(k, "ack")
    /\ TakeFrame(k)
    /\ acked' = acked \cup {NextFrame(k).msg}
    /\ UNCHANGED <<events, task, localVars, socketVars, storeVars, redisVars,
                   sock, opening, last_seq, received, boundVars>>

(* onmessage, typing: nothing that lasts.                                  *)
OnTyping(k) ==
    /\ Incoming(k, "typing")
    /\ TakeFrame(k)
    /\ UNCHANGED <<events, task, localVars, socketVars, storeVars, redisVars,
                   clientVars, boundVars>>

(* The socket is closed or lost: frames still on their way are lost, and   *)
(* onclose will reconnect.                                                 *)
ClientDrop(k) ==
    /\ sock[k] # NoSocket
    /\ drops < MaxDrops
    /\ drops' = drops + 1
    /\ out' = [out EXCEPT ![sock[k][1]][sock[k][2]] = <<>>]
    /\ sock' = [sock EXCEPT ![k] = NoSocket]
    /\ opening' = opening \ {k}
    /\ UNCHANGED <<events, task, localVars, socketVars, storeVars, redisVars,
                   last_seq, received, acked, sent, typed, crashes>>

ClientStep(k) ==
    \/ \E s \in Servers : ClientOpen(k, s)
    \/ ClientAuthenticate(k)
    \/ \E m \in Messages : From[m] = k /\ ClientSend(m)
    \/ \E mb \in Mailboxes : ClientTyping(k, mb)
    \/ OnDelivery(k)
    \/ OnAck(k)
    \/ OnTyping(k)
    \/ ClientDrop(k)

-----------------------------------------------------------------------------
(* The tasks around the router                                             *)

(* handle_connection leaves its read loop: the peer closed or was lost.    *)
ReaderEnd(s, c) ==
    /\ c \in reader[s]
    /\ ~PeerAlive(s, c)
    /\ reader' = [reader EXCEPT ![s] = @ \ {c}]
    /\ Enqueue(s, [type |-> "disconnected", conn |-> c])
    /\ UNCHANGED <<task, localVars, next_id, writer, out, storeVars, redisVars,
                   clientVars, boundVars>>

(* handle_client_writer fails to write (some frame, a Welcome at least,    *)
(* was still to be written) and drops out_rx.                              *)
WriterEnd(s, c) ==
    /\ c \in writer[s]
    /\ ~PeerAlive(s, c)
    /\ writer' = [writer EXCEPT ![s] = @ \ {c}]
    /\ UNCHANGED <<events, task, localVars, next_id, reader, out, storeVars,
                   redisVars, clientVars, boundVars>>

(* handle_redis_subscriber gets its subscription, some time after the      *)
(* process began to accept clients.                                        *)
Subscribe(s) ==
    /\ s \notin subscribed
    /\ subscribed' = subscribed \cup {s}
    /\ UNCHANGED <<events, task, localVars, socketVars, out, storeVars,
                   registry, channel, clientVars, boundVars>>

(* handle_redis_subscriber and handle_redis_setup pass a payload on.       *)
SubscriberForward(s) ==
    /\ channel[s] # <<>>
    /\ channel' = [channel EXCEPT ![s] = Tail(@)]
    /\ Enqueue(s, [type |-> "pubsub", msg |-> Head(channel[s]).msg,
                   seq |-> Head(channel[s]).seq])
    /\ UNCHANGED <<task, localVars, socketVars, out, storeVars,
                   registry, subscribed, clientVars, boundVars>>

-----------------------------------------------------------------------------
(* The router: one event at a time                                         *)

Next_event(s) == Head(events[s])

(* The router is idle and the next event of its channel is of this type.   *)
Handling(s, type) ==
    /\ task[s] = Idle
    /\ events[s] # <<>>
    /\ Next_event(s).type = type

Authenticated(s, c) == connection_to_mailbox[s][c] # NoMailbox

(* handle_connected_event: Welcome, then the connection is known.          *)
HandleConnected(s) ==
    LET c == Next_event(s).conn IN
    /\ Handling(s, "connected")
    /\ Dequeue(s)
    /\ connections' = [connections EXCEPT ![s] =
                           IF c \in writer[s] THEN @ \cup {c} ELSE @]
    /\ UNCHANGED <<task, connection_to_mailbox, mailbox_to_connections,
                   socketVars, out, storeVars, redisVars, clientVars, boundVars>>

(* handle_received_event drops a command without an answer: its connection *)
(* is gone from the table, or typing from a client not authenticated.      *)
Ignored(s, e) ==
    \/ e.type \in {"authenticate", "send", "typing"} /\ e.conn \notin connections[s]
    \/ e.type = "typing" /\ ~Authenticated(s, e.conn)

HandleIgnored(s) ==
    /\ task[s] = Idle
    /\ events[s] # <<>>
    /\ Ignored(s, Next_event(s))
    /\ Dequeue(s)
    /\ UNCHANGED <<task, localVars, socketVars, out, storeVars, redisVars,
                   clientVars, boundVars>>

(* handle_received_event answers with an Error: REAUTH FORBIDDEN, AUTH     *)
(* FAILED for a bad token or when the rows cannot be read,                 *)
(* UNAUTHENTICATED.  (Ids that do not parse end the same way.)             *)
Refused(s, e) ==
    \/ e.type = "authenticate" /\ (\/ Authenticated(s, e.conn)
                                   \/ e.mailbox = NoMailbox
                                   \/ "db" \in Faults)
    \/ e.type = "send" /\ ~Authenticated(s, e.conn)

HandleRefused(s) ==
    /\ task[s] = Idle
    /\ events[s] # <<>>
    /\ ~Ignored(s, Next_event(s))
    /\ Refused(s, Next_event(s))
    /\ Dequeue(s)
    /\ SendOrDisconnect(s, {Next_event(s).conn}, <<>>)
    /\ UNCHANGED <<task, socketVars, storeVars, redisVars, clientVars, boundVars>>

(* Mutant: the row at the cursor is selected again.                        *)
RowsFromCursor(mb, n) == {m \in Messages : To[m] = mb /\ seq[m] > 0 /\ seq[m] >= n}

(* Mutant: the row after the cursor is passed over.                        *)
RowsBeyondNext(mb, n) == {m \in Messages : To[m] = mb /\ seq[m] > n + 1}

(* SELECT ... FROM pending_messages WHERE mailbox_id = mb AND seq > n      *)
RowsAfter(mb, n) == {m \in Messages : To[m] = mb /\ seq[m] > n}

(* ... ORDER BY seq ASC                                                    *)
OrderedBySeq(R) ==
    {r \in [1 .. Cardinality(R) -> R] :
        \A i, j \in 1 .. Cardinality(R) : i < j => seq[r[i]] < seq[r[j]]}

(* handle_authenticate_command up to its Redis call: the rows are read,    *)
(* then the connection gets its mailbox in both local tables.              *)
AuthenticateFetch(s) ==
    LET e == Next_event(s) IN
    /\ Handling(s, "authenticate")
    /\ e.conn \in connections[s]
    /\ ~Authenticated(s, e.conn)
    /\ e.mailbox # NoMailbox
    /\ \E r \in OrderedBySeq(RowsAfter(e.mailbox, e.last_seq)) :
           task' = [task EXCEPT ![s] = [at |-> "register", conn |-> e.conn,
                                        mailbox |-> e.mailbox, rows |-> r]]
    /\ Dequeue(s)
    /\ connection_to_mailbox' =
           [connection_to_mailbox EXCEPT ![s][e.conn] = e.mailbox]
    /\ mailbox_to_connections' =
           [mailbox_to_connections EXCEPT ![s][e.mailbox] = @ \cup {e.conn}]
    /\ UNCHANGED <<connections, socketVars, out, storeVars, redisVars,
                   clientVars, boundVars>>

(* Mutant: HSET of the user, not of the server.                            *)
UserRegistered(mb, c, s) == [registry EXCEPT ![mb][c] = mb]

(* Mutant: HSET is forgotten.                                              *)
NotRegistered(mb, c, s) == registry

(* register_connection: HSET field c of the user's hash; EXPIRE 90 is the  *)
(* action Expire.                                                          *)
Registered(mb, c, s) == [registry EXCEPT ![mb][c] = s]

(* The rest of handle_authenticate_command and AUTH OK: the connection is  *)
(* registered in Redis (errors ignored), then the rows read before are     *)
(* flushed to it.                                                          *)
AuthenticateFlush(s) ==
    LET t == task[s] IN
    /\ t.at = "register"
    /\ \E ok \in Outcomes("redis") :
           registry' = IF ok THEN Registered(t.mailbox, t.conn, s) ELSE registry
    /\ SendOrDisconnect(s, {t.conn},
           [i \in 1 .. Len(t.rows) |-> Delivery(t.rows[i], seq[t.rows[i]])])
    /\ task' = [task EXCEPT ![s] = Idle]
    /\ UNCHANGED <<events, socketVars, storeVars, subscribed, channel,
                   clientVars, boundVars>>

(* INSERT ... ON CONFLICT (id) DO NOTHING.  A conflict burns a number.     *)
Inserted(m) == [seq EXCEPT ![m] = IF @ = 0 THEN identity + 1 ELSE @]

(* Mutant: the number that the next INSERT will take.                      *)
ReturnedNext(m) == IF seq[m] = 0 THEN identity + 2 ELSE 0

(* RETURNING seq, unwrap_or(0) when no row was inserted.                   *)
Returned(m) == IF seq[m] = 0 THEN identity + 1 ELSE 0

(* How an INSERT may end: done, not done, or done with the answer lost.    *)
InsertOutcomes ==
    IF "db" \in Faults THEN {"ok", "failed", "answer lost"} ELSE {"ok"}

(* handle_send_command up to its Redis lookup: the row is inserted and the *)
(* sender gets its Ack, whatever became of the INSERT.                     *)
SendInsert(s) ==
    LET e == Next_event(s) IN
    /\ Handling(s, "send")
    /\ e.conn \in connections[s]
    /\ Authenticated(s, e.conn)
    /\ \E o \in InsertOutcomes :
           /\ seq' = IF o = "failed" THEN seq ELSE Inserted(e.msg)
           /\ identity' = IF o = "failed" THEN identity ELSE identity + 1
           /\ task' = [task EXCEPT ![s] =
                  [at |-> "lookup", msg |-> e.msg,
                   seq |-> IF o = "ok" THEN Returned(e.msg) ELSE 0]]
    /\ Dequeue(s)
    /\ SendOrDisconnect(s, {e.conn}, <<Ack(e.msg)>>)
    /\ UNCHANGED <<socketVars, delivered_at, redisVars, clientVars, boundVars>>

(* get_connections: the servers where the mailbox has connections.         *)
ServersOf(mb) == {registry[mb][c] : c \in ConnIds} \ {NoServer}

(* HGETALL; an error is taken for an empty map.                            *)
SendLookup(s) ==
    LET t == task[s] IN
    /\ t.at = "lookup"
    /\ \E ok \in Outcomes("redis") :
           LET to == IF ok THEN ServersOf(To[t.msg]) ELSE {} IN
           task' = [task EXCEPT ![s] =
               IF to = {} THEN Idle
               ELSE [at |-> "route", msg |-> t.msg, seq |-> t.seq, to |-> to]]
    /\ UNCHANGED <<events, localVars, socketVars, out, storeVars, redisVars,
                   clientVars, boundVars>>

(* One server of the set is done with.                                     *)
RoutedTo(t, r) ==
    IF t.to = {r} THEN Idle
    ELSE [at |-> "route", msg |-> t.msg, seq |-> t.seq, to |-> t.to \ {r}]

(* The message is for connections of this server: deliver_to_mailbox.      *)
SendDeliver(s) ==
    LET t == task[s] IN
    /\ t.at = "route"
    /\ s \in t.to
    /\ SendOrDisconnect(s, Recipients(s, To[t.msg]), <<Delivery(t.msg, t.seq)>>)
    /\ task' = [task EXCEPT ![s] = RoutedTo(t, s)]
    /\ UNCHANGED <<events, socketVars, storeVars, redisVars, clientVars, boundVars>>

(* It is for another server: publish, to nobody when that server has no    *)
(* subscription.                                                           *)
SendPublish(s, r) ==
    LET t == task[s] IN
    /\ t.at = "route"
    /\ r \in t.to
    /\ r # s
    /\ \E ok \in Outcomes("redis") :
           channel' = IF ok /\ r \in subscribed
                      THEN [channel EXCEPT ![r] =
                                Append(@, [msg |-> t.msg, seq |-> t.seq])]
                      ELSE channel
    /\ task' = [task EXCEPT ![s] = RoutedTo(t, r)]
    /\ UNCHANGED <<events, localVars, socketVars, out, storeVars,
                   registry, subscribed, clientVars, boundVars>>

(* Typing and StopTyping: to the mailbox's connections on this server.     *)
HandleTyping(s) ==
    LET e == Next_event(s) IN
    /\ Handling(s, "typing")
    /\ e.conn \in connections[s]
    /\ Authenticated(s, e.conn)
    /\ Dequeue(s)
    /\ SendOrDisconnect(s, Recipients(s, e.mailbox), <<Typing(e.mailbox)>>)
    /\ UNCHANGED <<task, socketVars, storeVars, redisVars, clientVars, boundVars>>

(* unregister_connection: HDEL of field c, whichever server wrote it.      *)
Unregistered(mb, c) == [registry EXCEPT ![mb][c] = NoServer]

(* handle_disconnected_event                                               *)
HandleDisconnected(s) ==
    LET c == Next_event(s).conn
        mb == connection_to_mailbox[s][c]
    IN
    /\ Handling(s, "disconnected")
    /\ \E ok \in Outcomes("redis") :
           registry' = IF mb # NoMailbox /\ ok THEN Unregistered(mb, c) ELSE registry
    /\ Dequeue(s)
    /\ DisconnectClients(s, {c})
    /\ UNCHANGED <<task, socketVars, out, storeVars, subscribed, channel,
                   clientVars, boundVars>>

(* handle_pubsub_delivery_event: the local connections get the message,    *)
(* then the row, if there is one, is marked.                               *)
HandlePubSubDelivery(s) ==
    LET e == Next_event(s) IN
    /\ Handling(s, "pubsub")
    /\ Dequeue(s)
    /\ SendOrDisconnect(s, Recipients(s, To[e.msg]), <<Delivery(e.msg, e.seq)>>)
    /\ \E ok \in Outcomes("db") :
           delivered_at' = IF ok /\ seq[e.msg] > 0
                           THEN delivered_at \cup {e.msg} ELSE delivered_at
    /\ UNCHANGED <<task, socketVars, seq, identity, redisVars, clientVars, boundVars>>

RouterStep(s) ==
    \/ HandleConnected(s)
    \/ HandleIgnored(s)
    \/ HandleRefused(s)
    \/ AuthenticateFetch(s)
    \/ AuthenticateFlush(s)
    \/ SendInsert(s)
    \/ SendLookup(s)
    \/ SendDeliver(s)
    \/ \E r \in Servers : SendPublish(s, r)
    \/ HandleTyping(s)
    \/ HandleDisconnected(s)
    \/ HandlePubSubDelivery(s)

-----------------------------------------------------------------------------
(* The surroundings                                                        *)

(* The key user:<mb>:connections expires, 90 s after the last register:    *)
(* nothing refreshes it while the connections live on.                     *)
Expire(mb) ==
    /\ "expiry" \in Faults
    /\ ServersOf(mb) # {}
    /\ registry' = [registry EXCEPT ![mb] = [c \in ConnIds |-> NoServer]]
    /\ UNCHANGED <<events, task, localVars, socketVars, out, storeVars,
                   subscribed, channel, clientVars, boundVars>>

(* The process of server s dies and is started again.  Its tables, its     *)
(* channel, its subscription and its sockets are gone; what it wrote to    *)
(* Postgres and Redis is still there.                                      *)
Crash(s) ==
    /\ crashes < MaxCrashes
    /\ crashes' = crashes + 1
    /\ events' = [events EXCEPT ![s] = <<>>]
    /\ task' = [task EXCEPT ![s] = Idle]
    /\ DisconnectClients(s, ConnIds)
    /\ next_id' = [next_id EXCEPT ![s] = 0]
    /\ reader' = [reader EXCEPT ![s] = {}]
    /\ writer' = [writer EXCEPT ![s] = {}]
    /\ out' = [out EXCEPT ![s] = [c \in ConnIds |-> <<>>]]
    /\ subscribed' = subscribed \ {s}
    /\ channel' = [channel EXCEPT ![s] = <<>>]
    /\ sock' = [k \in Clients |->
                   IF \E c \in ConnIds : sock[k] = <<s, c>> THEN NoSocket ELSE sock[k]]
    /\ opening' = {k \in opening : ~ \E c \in ConnIds : sock[k] = <<s, c>>}
    /\ UNCHANGED <<storeVars, registry, last_seq, received, acked,
                   sent, typed, drops>>

ServerStep(s) ==
    \/ \E c \in ConnIds : ReaderEnd(s, c)
    \/ \E c \in ConnIds : WriterEnd(s, c)
    \/ Subscribe(s)
    \/ SubscriberForward(s)
    \/ RouterStep(s)
    \/ Crash(s)

Next ==
    \/ \E k \in Clients : ClientStep(k)
    \/ \E s \in Servers : ServerStep(s)
    \/ \E mb \in Mailboxes : Expire(mb)

Spec == Init /\ [][Next]_vars

(* Fairness.  A tokio task that can run is run, and so is the router: it   *)
(* has no blocking call.  The Redis client keeps reading.  A browser tab   *)
(* that stays open runs its callbacks and, after onclose, the reconnect    *)
(* timer.  Nothing makes a user send, a socket drop or a process crash,    *)
(* and a peer that vanished need never be noticed by reader or writer.     *)
Fairness ==
    /\ \A s \in Servers :
           /\ WF_vars(RouterStep(s))
           /\ WF_vars(Subscribe(s))
           /\ WF_vars(SubscriberForward(s))
    /\ \A k \in Clients :
           /\ WF_vars(\E s \in Servers : ClientOpen(k, s))
           /\ WF_vars(ClientAuthenticate(k))
           /\ WF_vars(OnDelivery(k) \/ OnAck(k) \/ OnTyping(k))

FairSpec == Spec /\ Fairness

-----------------------------------------------------------------------------
(* Properties                                                              *)

(* Every variable keeps its shape.                                         *)
TypeOK ==
    /\ events \in [Servers -> Seq(Event)]
    /\ task \in [Servers -> Task]
    /\ connections \in [Servers -> SUBSET ConnIds]
    /\ connection_to_mailbox \in
           [Servers -> [ConnIds -> Mailboxes \cup {NoMailbox}]]
    /\ mailbox_to_connections \in [Servers -> [Mailboxes -> SUBSET ConnIds]]
    /\ next_id \in [Servers -> 0 .. MaxConn]
    /\ reader \in [Servers -> SUBSET ConnIds]
    /\ writer \in [Servers -> SUBSET ConnIds]
    /\ out \in [Servers -> [ConnIds -> Seq(Frame)]]
    /\ seq \in [Messages -> Nat]
    /\ identity \in Nat
    /\ delivered_at \in SUBSET Messages
    /\ registry \in [Mailboxes -> [ConnIds -> Servers \cup {NoServer}]]
    /\ subscribed \in SUBSET Servers
    /\ channel \in [Servers -> Seq(PubSubPayload)]
    /\ sock \in [Clients -> (Servers \X ConnIds) \cup {NoSocket}]
    /\ opening \in SUBSET {k \in Clients : sock[k] # NoSocket}
    /\ last_seq \in [Clients -> Nat]
    /\ received \in [Clients -> Seq(Messages)]
    /\ acked \in SUBSET Messages
    /\ sent \in [Messages -> Nat]
    /\ typed \in Nat
    /\ drops \in Nat
    /\ crashes \in Nat

(* RouterState's two tables are inverse relations on known connections:    *)
(* a connection is in the list of exactly the mailbox it owns, and only    *)
(* connections whose sender is kept own one.  disconnect_client can be     *)
(* reached from every send, in the middle of a handler.                    *)
LocalTablesAgree ==
    \A s \in Servers : \A c \in ConnIds :
        /\ \A mb \in Mailboxes :
               c \in mailbox_to_connections[s][mb] <=> connection_to_mailbox[s][c] = mb
        /\ Authenticated(s, c) => c \in connections[s]

(* What is on its way to a client is for its user: no Delivery or Typing   *)
(* frame of another mailbox, whatever connection ids a restarted server    *)
(* hands out again and whatever stale entries Redis holds.                 *)
ForMailbox(f, mb) ==
    /\ f.type = "delivery" => To[f.msg] = mb
    /\ f.type = "typing" => f.mailbox = mb

OnlyToItsMailbox ==
    \A k \in Clients : \A s \in Servers : \A c \in ConnIds :
        sock[k] = <<s, c>> =>
            \A f \in ToSet(out[s][c]) : ForMailbox(f, MailboxOf[k])

(* "We send ACKS back to say Hey this message has persisted in the         *)
(* database" (send.rs:34): an Ack sent or received means there is a row.   *)
(* It says so of a Postgres that may fail, too, and there it is false.     *)
AckedIsStored ==
    /\ \A m \in acked : seq[m] > 0
    /\ \A s \in Servers : \A c \in ConnIds : \A f \in ToSet(out[s][c]) :
           f.type = "ack" => seq[f.msg] > 0

(* A client's cursor is 0 or the number of a row of its own mailbox, so no *)
(* cursor is ahead of the IDENTITY sequence and no message accepted from   *)
(* now on can fall below it.                                               *)
CursorIsARow ==
    \A k \in Clients :
        \/ last_seq[k] = 0
        \/ \E m \in Messages : To[m] = MailboxOf[k] /\ seq[m] = last_seq[k]

(* The seq a frame, an event, a published payload or a suspended handler   *)
(* carries is the row's, or 0 for one that INSERT did not return.          *)
SeqOfRow(m, n) == n = 0 \/ seq[m] = n

CarriedSeqIsTheRows ==
    \A s \in Servers :
        /\ \A e \in ToSet(events[s]) : e.type = "pubsub" => SeqOfRow(e.msg, e.seq)
        /\ \A p \in ToSet(channel[s]) : SeqOfRow(p.msg, p.seq)
        /\ task[s].at \in {"lookup", "route"} => SeqOfRow(task[s].msg, task[s].seq)
        /\ \A c \in ConnIds : \A f \in ToSet(out[s][c]) :
               f.type = "delivery" => SeqOfRow(f.msg, f.seq)

(* The cursor tells the truth: whatever was stored for a client's mailbox  *)
(* up to its cursor, the client got (authenticate.rs sends only rows       *)
(* beyond it).                                                             *)
CursorHasNoGap ==
    \A k \in Clients : \A m \in Messages :
        (To[m] = MailboxOf[k] /\ 0 < seq[m] /\ seq[m] <= last_seq[k])
            => m \in ToSet(received[k])

(* On one socket, deliveries are in the order of their rows, and all are   *)
(* beyond the cursor: live deliveries and the flush of the backlog never   *)
(* overlap or cross.  (A delivery without a number moves no cursor.)       *)
Numbered(f) == f.type = "delivery" /\ f.seq > 0

DeliveriesAscend ==
    \A k \in Clients : \A s \in Servers : \A c \in ConnIds :
        sock[k] = <<s, c>> =>
            \A i \in DOMAIN out[s][c] : Numbered(out[s][c][i]) =>
                /\ out[s][c][i].seq > last_seq[k]
                /\ \A j \in DOMAIN out[s][c] :
                       i < j /\ Numbered(out[s][c][j])
                           => out[s][c][i].seq < out[s][c][j].seq

(* Redis knows every authenticated connection of the server, except while  *)
(* it is being registered, so live delivery can find it.                   *)
RegistryComplete ==
    \A s \in Servers : \A c \in ConnIds :
        /\ Authenticated(s, c)
        /\ ~(task[s].at = "register" /\ task[s].conn = c)
        => registry[connection_to_mailbox[s][c]][c] = s

(* Whatever was stored reaches every device of its mailbox in the end.     *)
StoredIsReceived ==
    \A k \in Clients : \A m \in Messages :
        (To[m] = MailboxOf[k] /\ seq[m] > 0) ~> m \in ToSet(received[k])

=============================================================================
