------------------------------ MODULE Session -------------------------------
(***************************************************************************)
(* The ratchet sessions of useChat.ts: what a browser keeps in memory      *)
(* (sessionsRef, pendingAcks) and in IndexedDB (sessions-table,            *)
(* messages-table), over sends, acks, deliveries, lost sockets, page       *)
(* reloads and session resets.                                             *)
(*                                                                         *)
(* The relay is what module Mailbox promises: a log per user, read by each *)
(* of the user's devices in order, each entry once.  A session serves one  *)
(* direction: `${user}:${device}` keys the one a device sends on, the      *)
(* sender's identity key the one it receives on.  A session is named after *)
(* the init message that began it, and its chain key is the number of      *)
(* messages the chain has produced: n keys a message (ratchet.ts).         *)
(***************************************************************************)
EXTENDS Integers, Sequences, FiniteSets, SequencesExt

CONSTANTS
    Users,
    Devices,
    UserOf,       \* [Devices -> Users]
    DevicesOf,    \* [Users -> Seq(Devices)]: as get_all_prekey_bundles lists them
    MAX_SKIP,     \* ratchet.ts's MAX_SKIP
    MaxTexts,     \* bound: calls of sendMessage, for each device
    MaxFails,     \* bound: fetches of device lists that fail
    MaxDrops,     \* bound: sockets lost
    MaxReloads,   \* bound: page reloads (or crashes of the tab)
    MaxResets     \* bound: session resets

(* What the constants must be.                                             *)
ASSUME SessionAssumption ==
    /\ UserOf \in [Devices -> Users]
    /\ DevicesOf \in [Users -> Seq(Devices)]
    /\ \A u \in Users : /\ ToSet(DevicesOf[u]) = {d \in Devices : UserOf[d] = u}
                        /\ IsInjective(DevicesOf[u])       \* a row for each device
    /\ MAX_SKIP \in Nat
    /\ MaxTexts \in [Devices -> Nat]

VARIABLES
    \* --- every message encrypted so far; a message is its index
    msgs,
    \* --- a device's memory
    ws,             \* socketRef: "closed", "connecting" or "open"
    sending,        \* calls of sendMessage that await a fetch
    outs, ins,      \* sessionsRef: sessions to and from each device
    pendingAcks,    \* messages whose newState waits for the Ack
    shown,          \* conversationsRef
    \* --- its IndexedDB
    db_outs, db_ins, db_messages,   \* as of the last reload
    writes,         \* requested since
    \* --- the socket and the relay
    up,             \* send frames on the open socket
    late,           \* send frames of lost sockets that still arrive
    acks,           \* Ack frames on the open socket
    log,            \* the users' mailboxes
    cursor,         \* relay_last_seq_<user>
    \* --- history, for the properties
    opened,         \* messages a device decrypted
    retired,        \* sessions it was told to reset, and what awaited an Ack then
    \* --- counters that exist only to bound the runs
    texts, fails, drops, reloads, resets

memoryVars == <<sending, outs, ins, pendingAcks, shown>>
dbVars     == <<db_outs, db_ins, db_messages, writes>>
relayVars  == <<up, late, acks, log>>
boundVars  == <<texts, fails, drops, reloads, resets>>

vars == <<msgs, ws, memoryVars, dbVars, relayVars, cursor, opened, retired, boundVars>>

NoOut == [id |-> 0, n |-> 0]
NoIn  == [id |-> 0, n |-> 0, skipped |-> {}]

-----------------------------------------------------------------------------
Init ==
    /\ msgs = <<>>
    /\ ws = [d \in Devices |-> "closed"]
    /\ sending = [d \in Devices |-> {}]
    /\ outs = [d \in Devices |-> [e \in Devices |-> NoOut]]
    /\ ins = [d \in Devices |-> [e \in Devices |-> NoIn]]
    /\ pendingAcks = [d \in Devices |-> {}]
    /\ shown = [d \in Devices |-> {}]
    /\ db_outs = outs
    /\ db_ins = ins
    /\ db_messages = shown
    /\ writes = [d \in Devices |-> <<>>]
    /\ up = [d \in Devices |-> <<>>]
    /\ late = [d \in Devices |-> <<>>]
    /\ acks = [d \in Devices |-> <<>>]
    /\ log = [u \in Users |-> <<>>]
    /\ cursor = [d \in Devices |-> 0]
    /\ opened = [d \in Devices |-> {}]
    /\ retired = [d \in Devices |-> {}]
    /\ texts = [d \in Devices |-> 0]
    /\ fails = 0
    /\ drops = 0
    /\ reloads = 0
    /\ resets = 0

-----------------------------------------------------------------------------
(* IndexedDB: putValue and deleteValue request a write and return.  Writes *)
(* commit in order, and only a reload reads them: it finds those that had  *)
(* committed, some first part of `writes`.                                 *)

PutOut(e, s) == [table |-> "outs", key |-> e, value |-> s]
PutIn(e, s)  == [table |-> "ins", key |-> e, value |-> s]
PutShown(x)  == [table |-> "messages", value |-> x]

(* Mutant: a session is not deleted but marked.                            *)
Marked(E) == {PutOut(e, [id |-> -1, n |-> 0]) : e \in E}

(* Mutant: sessions are dropped from memory only.                          *)
NotDeleted(E) == {}

Deleted(E) == {PutOut(e, NoOut) : e \in E}

Request(d, ws_) == writes' = [writes EXCEPT ![d] = @ \o ws_]

(* Table t of a device's database `old` when writes w have committed: the  *)
(* last put of a key is what it holds.                                     *)
Committed(t, old, w) ==
    [e \in Devices |->
        LET k == SelectLastInSeq(w, LAMBDA x : x.table = t /\ x.key = e)
        IN  IF k = 0 THEN old[e] ELSE w[k].value]

-----------------------------------------------------------------------------
(* The socket                                                              *)

Connect(d) ==
    /\ ws[d] = "closed"
    /\ ws' = [ws EXCEPT ![d] = "connecting"]
    /\ UNCHANGED <<msgs, memoryVars, dbVars, relayVars, cursor, opened, retired, boundVars>>

(* onopen: it authenticates; deliveries from the cursor on follow.         *)
OnOpen(d) ==
    /\ ws[d] = "connecting"
    /\ ws' = [ws EXCEPT ![d] = "open"]
    /\ UNCHANGED <<msgs, memoryVars, dbVars, relayVars, cursor, opened, retired, boundVars>>

(* The socket of d goes: its frames may all, in part or not at all arrive  *)
(* later, and the Acks on their way are lost.                              *)
SocketLost(d) ==
    /\ ws' = [ws EXCEPT ![d] = "closed"]
    /\ \E n \in 0 .. Len(up[d]) :
           late' = [late EXCEPT ![d] = @ \o SubSeq(up[d], 1, n)]
    /\ up' = [up EXCEPT ![d] = <<>>]
    /\ acks' = [acks EXCEPT ![d] = <<>>]

OnClose(d) ==
    /\ ws[d] # "closed"
    /\ drops < MaxDrops
    /\ drops' = drops + 1
    /\ SocketLost(d)
    /\ UNCHANGED <<msgs, memoryVars, dbVars, log, cursor, opened, retired,
                   texts, fails, reloads, resets>>

(* The relay stores a message, and acknowledges it when the socket it came *)
(* by is still there.                                                      *)
Stored(i) == log' = [log EXCEPT ![UserOf[msgs[i].to]] = Append(@, i)]

Accept(d) ==
    /\ up[d] # <<>>
    /\ up' = [up EXCEPT ![d] = Tail(@)]
    /\ Stored(Head(up[d]))
    /\ acks' = [acks EXCEPT ![d] = Append(@, Head(up[d]))]
    /\ UNCHANGED <<msgs, ws, memoryVars, dbVars, late, cursor, opened, retired, boundVars>>

AcceptLate(d) ==
    /\ late[d] # <<>>
    /\ late' = [late EXCEPT ![d] = Tail(@)]
    /\ Stored(Head(late[d]))
    /\ UNCHANGED <<msgs, ws, memoryVars, dbVars, up, acks, cursor, opened, retired, boundVars>>

-----------------------------------------------------------------------------
(* Sending                                                                 *)

(* encryptForDevice: message i, the next of the session to device e, or    *)
(* the init of a new one.                                                  *)
Encrypted(d, e, i, sync) ==
    LET s == outs[d][e] IN
    [from |-> d, to |-> e, sync |-> sync,
     type |-> IF s = NoOut THEN "init" ELSE "msg",
     id |-> IF s = NoOut THEN i ELSE s.id,
     n |-> s.n]

(* Mutant: ratchetEncrypt does not count.                                  *)
NotIncremented(m) == [id |-> m.id, n |-> m.n]

(* The newState that goes with it.                                         *)
Advanced(m) == [id |-> m.id, n |-> m.n + 1]

(* Mutant: only a new session is put into sessionsRef.                     *)
AdvancedByInit(d, ms) ==
    [outs EXCEPT ![d] =
        [e \in Devices |->
            IF outs[d][e] = NoOut /\ \E m \in ToSet(ms) : m.to = e
            THEN Advanced(CHOOSE m \in ToSet(ms) : m.to = e)
            ELSE outs[d][e]]]

(* sessionsRef.current.set(sessionKey, newState), for messages ms of d.    *)
AdvancedBy(d, ms) ==
    [outs EXCEPT ![d] =
        [e \in Devices |->
            IF \E m \in ToSet(ms) : m.to = e
            THEN Advanced(CHOOSE m \in ToSet(ms) : m.to = e)
            ELSE outs[d][e]]]

(* sendMessage up to its first await: only an open socket will do.         *)
SendMessage(d, u) ==
    /\ ws[d] = "open"
    /\ u # UserOf[d]
    /\ texts[d] < MaxTexts[d]
    /\ texts' = [texts EXCEPT ![d] = @ + 1]
    /\ sending' = [sending EXCEPT ![d] =
                       @ \cup {[text |-> texts'[d], to |-> u, awaits |-> "recipient"]}]
    /\ UNCHANGED <<msgs, ws, outs, ins, pendingAcks, shown, dbVars, relayVars,
                   cursor, opened, retired, fails, drops, reloads, resets>>

(* The loop over the bundles of devices es: each is encrypted for, sent,   *)
(* and left to wait for its Ack.  A socket closed by now swallows the      *)
(* frames.                                                                 *)
SendTo(d, es, sync) ==
    LET first == Len(msgs) + 1
        ms == [k \in 1 .. Len(es) |-> Encrypted(d, es[k], Len(msgs) + k, sync)]
    IN
    /\ ws[d] # "connecting"
    /\ msgs' = msgs \o ms
    /\ outs' = AdvancedBy(d, ms)
    /\ pendingAcks' = [pendingAcks EXCEPT ![d] = @ \cup (first .. Len(msgs'))]
    /\ up' = [up EXCEPT ![d] =
                 IF ws[d] = "open" THEN @ \o [k \in 1 .. Len(es) |-> Len(msgs) + k]
                 ELSE @]

(* On a socket that is connecting again, send throws in the first turn of  *)
(* the loop, between sessionsRef.set and pendingAcks.set.                  *)
SendThrows(d, es, sync) ==
    LET m == Encrypted(d, es[1], Len(msgs) + 1, sync) IN
    /\ ws[d] = "connecting"
    /\ es # <<>>
    /\ msgs' = Append(msgs, m)
    /\ outs' = AdvancedBy(d, <<m>>)
    /\ UNCHANGED <<pendingAcks, up>>

(* The devices of the recipient have been fetched.                         *)
FetchedRecipient(d, j) ==
    /\ j \in sending[d]
    /\ j.awaits = "recipient"
    /\ \/ /\ SendTo(d, DevicesOf[j.to], FALSE)
          /\ sending' = [sending EXCEPT ![d] = (@ \ {j}) \cup {[j EXCEPT !.awaits = "own"]}]
       \/ /\ SendThrows(d, DevicesOf[j.to], FALSE)
          /\ sending' = [sending EXCEPT ![d] = @ \ {j}]
    /\ UNCHANGED <<ws, ins, shown, dbVars, late, acks, log, cursor, opened,
                   retired, boundVars>>

(* Our own devices have been fetched: all but d itself get a copy, and the *)
(* text goes into the conversation.                                        *)
FetchedOwn(d, j) ==
    LET others == RemoveFirst(DevicesOf[UserOf[d]], d) IN
    /\ j \in sending[d]
    /\ j.awaits = "own"
    /\ sending' = [sending EXCEPT ![d] = @ \ {j}]
    /\ \/ /\ \/ SendTo(d, others, TRUE)
             \/ ws[d] = "connecting" /\ others = <<>> /\ UNCHANGED <<msgs, outs, pendingAcks, up>>
          /\ shown' = [shown EXCEPT ![d] = @ \cup {<<"sent", j.text>>}]
          /\ Request(d, <<PutShown(<<"sent", j.text>>)>>)
       \/ /\ SendThrows(d, others, TRUE)
          /\ UNCHANGED <<shown, writes>>
    /\ UNCHANGED <<ws, ins, db_outs, db_ins, db_messages, late, acks, log,
                   cursor, opened, retired, boundVars>>

(* One of the two fetches fails: sendMessage throws.                       *)
FetchFailed(d, j) ==
    /\ j \in sending[d]
    /\ fails < MaxFails
    /\ fails' = fails + 1
    /\ sending' = [sending EXCEPT ![d] = @ \ {j}]
    /\ UNCHANGED <<msgs, ws, outs, ins, pendingAcks, shown, dbVars, relayVars,
                   cursor, opened, retired, texts, drops, reloads, resets>>

(* Mutant: what sessionsRef holds now is persisted.                        *)
CurrentState(d, i) == outs[d][msgs[i].to]

(* pending.newState                                                        *)
PendingState(d, i) == Advanced(msgs[i])

(* onmessage, ack: the state that encrypted the message is persisted.      *)
OnAck(d) ==
    LET i == Head(acks[d]) IN
    /\ acks[d] # <<>>
    /\ acks' = [acks EXCEPT ![d] = Tail(@)]
    /\ IF i \in pendingAcks[d]
       THEN Request(d, <<PutOut(msgs[i].to, PendingState(d, i))>>)
       ELSE UNCHANGED writes
    /\ pendingAcks' = [pendingAcks EXCEPT ![d] = @ \ {i}]
    /\ UNCHANGED <<msgs, ws, sending, outs, ins, shown, db_outs, db_ins, db_messages,
                   up, late, log, cursor, opened, retired, boundVars>>

-----------------------------------------------------------------------------
(* Receiving                                                               *)

(* Mutant: a gap of MAX_SKIP is already too much.                          *)
DecryptsNearer(s, m) ==
    \/ m.type = "init"
    \/ s # NoIn /\ m.id = s.id /\ (m.n \in s.skipped \/ (m.n >= s.n /\ m.n - s.n < MAX_SKIP))

(* decryptInbound on a session s: does it succeed ...                      *)
Decrypts(s, m) ==
    \/ m.type = "init"
    \/ /\ s # NoIn
       /\ m.id = s.id
       /\ m.n \in s.skipped \/ (m.n >= s.n /\ m.n - s.n <= MAX_SKIP)

(* Mutant: the keys stepped over are not kept.                             *)
SkippedNothing(s, m) == {}

(* The keys that skipMessageKeys steps over on the way to m.               *)
SkippedOnTheWay(s, m) == s.n .. m.n - 1

(* ... and to what newState.  An init starts over.                         *)
Received(s, m) ==
    IF m.type = "init" THEN [id |-> m.id, n |-> 1, skipped |-> {}]
    ELSE IF m.n \in s.skipped THEN [s EXCEPT !.skipped = @ \ {m.n}]
    ELSE [s EXCEPT !.n = m.n + 1, !.skipped = @ \cup SkippedOnTheWay(s, m)]

(* The outbound sessions that an init from another user makes d drop.      *)
DroppedOn(d, m) ==
    IF m.type = "init" /\ ~m.sync
    THEN {e \in Devices : UserOf[e] = UserOf[m.from] /\ outs[d][e] # NoOut}
    ELSE {}

(* Mutant: the inbound session goes with the outbound ones.                *)
DropsBoth(d, m) ==
    [ins EXCEPT ![d][m.from] =
        IF DroppedOn(d, m) # {} THEN NoIn ELSE Received(@, m)]

(* sessionsRef.current.set(ik, newState)                                   *)
InsAfter(d, m) == [ins EXCEPT ![d][m.from] = Received(@, m)]

(* E's outbound sessions of d are deleted from memory.                     *)
Without(d, E) ==
    [outs EXCEPT ![d] = [e \in Devices |-> IF e \in E THEN NoOut ELSE outs[d][e]]]

HasNext(d) == ws[d] = "open" /\ cursor[d] < Len(log[UserOf[d]])
NextIndex(d) == log[UserOf[d]][cursor[d] + 1]

(* onmessage, delivery, of a message that decrypts: the session is kept,   *)
(* the text shown, and on an init from another user the sessions to it are *)
(* dropped.                                                                *)
OnDelivery(d) ==
    LET i == NextIndex(d)
        m == msgs[i]
        E == DroppedOn(d, m)
    IN
    /\ HasNext(d)
    /\ m.to = d
    /\ Decrypts(ins[d][m.from], m)
    /\ cursor' = [cursor EXCEPT ![d] = @ + 1]
    /\ ins' = InsAfter(d, m)
    /\ outs' = Without(d, E)
    /\ shown' = [shown EXCEPT ![d] = @ \cup {<<"received", i>>}]
    /\ Request(d, <<PutIn(m.from, ins'[d][m.from]), PutShown(<<"received", i>>)>>
                  \o SetToSeq(Deleted(E)))
    /\ opened' = [opened EXCEPT ![d] = @ \cup {i}]
    /\ UNCHANGED <<msgs, ws, sending, pendingAcks, db_outs, db_ins, db_messages,
                   relayVars, retired, boundVars>>

(* One that is for another device, or that does not decrypt (an error is   *)
(* logged): the cursor has moved all the same.                             *)
OnDeliverySkipped(d) ==
    LET m == msgs[NextIndex(d)] IN
    /\ HasNext(d)
    /\ m.to # d \/ ~Decrypts(ins[d][m.from], m)
    /\ cursor' = [cursor EXCEPT ![d] = @ + 1]
    /\ UNCHANGED <<msgs, ws, memoryVars, dbVars, relayVars, opened, retired, boundVars>>

-----------------------------------------------------------------------------
(* Reset and reload                                                        *)

(* resetSession: every session to and from the devices of user u goes,     *)
(* from memory and from IndexedDB.                                         *)
ResetSession(d, u) ==
    LET E == {e \in Devices : UserOf[e] = u /\ outs[d][e] # NoOut}
        F == {e \in Devices : UserOf[e] = u /\ ins[d][e] # NoIn}
    IN
    /\ resets < MaxResets
    /\ u # UserOf[d]
    /\ E \cup F # {}
    /\ resets' = resets + 1
    /\ outs' = Without(d, E)
    /\ ins' = [ins EXCEPT ![d] = [e \in Devices |-> IF e \in F THEN NoIn ELSE ins[d][e]]]
    /\ Request(d, SetToSeq(Deleted(E)) \o SetToSeq({PutIn(e, NoIn) : e \in F}))
    /\ retired' = [retired EXCEPT ![d] =
           @ \cup {[id |-> outs[d][e].id, awaiting |-> pendingAcks[d]] : e \in E}]
    /\ UNCHANGED <<msgs, ws, sending, pendingAcks, shown, db_outs, db_ins, db_messages,
                   relayVars, cursor, opened, texts, fails, drops, reloads>>

(* The page is reloaded, or the tab dies and is opened again: memory comes *)
(* from IndexedDB, writes not committed are lost.  localStorage, and the   *)
(* cursor with it, is not.                                                 *)
Reload(d) ==
    /\ reloads < MaxReloads
    /\ reloads' = reloads + 1
    /\ SocketLost(d)
    /\ sending' = [sending EXCEPT ![d] = {}]
    /\ pendingAcks' = [pendingAcks EXCEPT ![d] = {}]
    /\ \E n \in 0 .. Len(writes[d]) :
           LET w == SubSeq(writes[d], 1, n) IN
           /\ db_outs' = [db_outs EXCEPT ![d] = Committed("outs", @, w)]
           /\ db_ins' = [db_ins EXCEPT ![d] = Committed("ins", @, w)]
           /\ db_messages' = [db_messages EXCEPT ![d] =
                  @ \cup {x.value : x \in {y \in ToSet(w) : y.table = "messages"}}]
    /\ outs' = [outs EXCEPT ![d] = db_outs'[d]]
    /\ ins' = [ins EXCEPT ![d] = db_ins'[d]]
    /\ shown' = [shown EXCEPT ![d] = db_messages'[d]]
    /\ writes' = [writes EXCEPT ![d] = <<>>]
    /\ UNCHANGED <<msgs, log, cursor, opened, retired, texts, fails, drops, resets>>

DeviceStep(d) ==
    \/ Connect(d)
    \/ OnOpen(d)
    \/ OnClose(d)
    \/ \E u \in Users : SendMessage(d, u)
    \/ \E j \in sending[d] : FetchedRecipient(d, j)
    \/ \E j \in sending[d] : FetchedOwn(d, j)
    \/ \E j \in sending[d] : FetchFailed(d, j)
    \/ OnAck(d)
    \/ OnDelivery(d)
    \/ OnDeliverySkipped(d)
    \/ \E u \in Users : ResetSession(d, u)
    \/ Reload(d)

RelayStep(d) == Accept(d) \/ AcceptLate(d)

Next == \E d \in Devices : DeviceStep(d) \/ RelayStep(d)

Spec == Init /\ [][Next]_vars

(* Fairness.  The browser opens its socket and runs its callbacks; the     *)
(* relay accepts what reaches it and delivers.  Nothing                    *)
(* makes a user type or reset, a socket drop, a fetch fail or a page       *)
(* reload.                                                                 *)
Fairness ==
    \A d \in Devices :
        /\ WF_vars(Connect(d))
        /\ WF_vars(OnOpen(d))
        /\ WF_vars(OnAck(d))
        /\ WF_vars(OnDelivery(d) \/ OnDeliverySkipped(d))
        /\ WF_vars(Accept(d))

FairSpec == Spec /\ Fairness

-----------------------------------------------------------------------------
(* Properties                                                              *)

OutSession == [id : Nat, n : Nat]
InSession == [id : Nat, n : Nat, skipped : SUBSET Nat]
Message == [from : Devices, to : Devices, sync : BOOLEAN, type : {"init", "msg"},
            id : Nat, n : Nat]

(* Every variable keeps its shape.                                         *)
TypeOK ==
    /\ msgs \in Seq(Message)
    /\ ws \in [Devices -> {"closed", "connecting", "open"}]
    /\ \A d \in Devices : \A j \in sending[d] :
           j \in [text : Nat, to : Users, awaits : {"recipient", "own"}]
    /\ outs \in [Devices -> [Devices -> OutSession]]
    /\ \A d, e \in Devices : ins[d][e] \in InSession /\ db_ins[d][e] \in InSession
    /\ db_outs \in [Devices -> [Devices -> OutSession]]
    /\ \A d \in Devices :
           /\ pendingAcks[d] \subseteq 1 .. Len(msgs)
           /\ ToSet(up[d]) \cup ToSet(late[d]) \cup ToSet(acks[d]) \subseteq 1 .. Len(msgs)
           /\ opened[d] \subseteq 1 .. Len(msgs)
           /\ cursor[d] \in 0 .. Len(log[UserOf[d]])
           /\ retired[d] \subseteq [id : Nat, awaiting : SUBSET (1 .. Len(msgs))]
           /\ \A w \in ToSet(writes[d]) : w.table = "outs" => w.value \in OutSession

(* No two messages are encrypted with the same message key: "preventing    *)
(* key reuse" (README:33).                                                 *)
NoKeyReuse ==
    \A i, j \in 1 .. Len(msgs) :
        msgs[i].id = msgs[j].id /\ msgs[i].n = msgs[j].n => i = j

(* What IndexedDB will hold for the session of d to e, all writes done.    *)
LastPut(d, e) == Committed("outs", db_outs[d], writes[d])[e]

(* IndexedDB never runs ahead of memory on a session they share, so a      *)
(* reload cannot skip keys; a put that waited for its Ack is an old state. *)
PersistedNotAhead ==
    \A d, e \in Devices :
        LET s == LastPut(d, e) IN
        s.id = outs[d][e].id => s.n <= outs[d][e].n

(* IndexedDB stays consistent (README:33): a session it has kept is one    *)
(* that the peer can have, because its init was stored by the relay.       *)
PersistedIsKnown ==
    \A d, e \in Devices :
        LET s == LastPut(d, e) IN s # NoOut => s.id \in ToSet(log[UserOf[e]])

(* A session both ends have never gets out of step, whatever frames are    *)
(* lost or come late: what is still to be delivered of it will decrypt.    *)
(* A reload before an Ack makes the sender use keys again (useChat.ts:186),*)
(* so this is of the time before it.                                       *)
InStep ==
    reloads = 0 =>
        \A d \in Devices : \A p \in cursor[d] + 1 .. Len(log[UserOf[d]]) :
            LET m == msgs[log[UserOf[d]][p]]
                s == ins[d][m.from]
            IN  m.to = d /\ m.type = "msg" /\ m.id = s.id => Decrypts(s, m)

(* A receiver gives up a message key only by decrypting with it: the key   *)
(* of a message passed over is kept, even over reloads and lost writes.    *)
NoKeyDropped ==
    \A d, e \in Devices : \A n \in 0 .. ins[d][e].n - 1 :
        \/ n \in ins[d][e].skipped
        \/ \E i \in opened[d] : msgs[i].id = ins[d][e].id /\ msgs[i].n = n

(* Reset "drops all ratchet sessions for that contact from both in-memory  *)
(* state and IndexedDB" (README:44): none comes back to memory, by a send  *)
(* that was suspended at the reset or otherwise; and to IndexedDB only as  *)
(* the state of a message whose Ack was awaited at the reset.              *)
ResetIsFinal ==
    \A d, e \in Devices : \A x \in retired[d] :
        LET s == LastPut(d, e) IN
        /\ outs[d][e].id # x.id
        /\ s.id = x.id => \E i \in x.awaiting : s = [id |-> msgs[i].id, n |-> msgs[i].n + 1]

(* What was encrypted is decrypted at its device in the end.               *)
SentIsOpened ==
    \A i \in 1 .. SumFunction(MaxTexts) :
        (i <= Len(msgs)) ~> (i <= Len(msgs) /\ i \in opened[msgs[i].to])

=============================================================================
