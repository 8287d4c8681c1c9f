# TLA+ models of Relay (rust-secure-chat)

Relay is an end-to-end encrypted chat: browsers that hold all keys and sessions,
socket servers that relay ciphertexts, and an auth service that hands out public
keys. This directory holds TLA+ modules for its protocols, TLC configurations
that check them on small instances, and proofs checked by TLAPS. `PROJECT.json`
relates every definition to source lines and every property to a run; this file
explains the whole. Paths are relative to `src/`.

## 1. Inventory

| Component | State | Operations | Model |
|---|---|---|---|
| Router of a socket server (`socket_server/src`) | `events` channel, `connections`, `connection_to_mailbox`, `mailbox_to_connections`; reader and writer task for each socket | connect, authenticate, send, typing, disconnect, pub/sub delivery | `Router` |
| Postgres `pending_messages` | row and `seq` for each message id, `delivered_at` | INSERT .. ON CONFLICT, SELECT beyond a cursor, mark | in `Router` |
| Redis | hash `user:<id>:connections`, a channel for each server | HSET+EXPIRE, HDEL, HGETALL, PUBLISH | in `Router` |
| Frames and cursor (`useChat.ts`) | socket, `relay_last_seq_<user>` | open, authenticate, take frames, reconnect | `Router`, `Session` |
| Browser's sessions (`useChat.ts`, `messaging.ts`, `useIndexDb.ts`) | `sessionsRef`, `pendingAcks`, conversations; IndexedDB | sendMessage, ack, delivery, resetSession, load | `Session` |
| Double ratchet (`ratchet.ts`) | `RatchetState` | encrypt, decrypt, skip, DH step | `Ratchet` |
| One-time prekeys (`useChat.ts`, `keys.ts`, `x3dh.ts`, `auth_service/src/key_handlers.rs`) | table `one_time_prekeys`, private keys in memory and IndexedDB | two bundle requests, count, upload, replenish, receive an init | `PreKeys` |
| Login and device setup (`LoginPage.tsx`, `AuthContext.tsx`, `DeviceSetupPage.tsx`, `App.tsx`, `upload_device`) | device rows; localStorage's login; `keys-table` | log in and out, check for keys, upload, store, load | `DeviceSetup` |
| Connection over page visits (`useChat.ts`, `ChatPage.tsx`) | sockets, reconnection timer and delay, `intentionalDisconnectRef`, token | load, connect, callbacks, disconnect, expiry | `Connection` |
| Conversations on the screen (`useChat.ts`, `ChatPage.tsx`) | `conversationsRef`, `messages`, `recipientIdRef`, sidebar | load, choose a contact, append | `ChatView` |
| Typing indicators (`MessageInput.tsx`, `useChat.ts`) | `isTypingRef`, heartbeat, idle and auto-clear timers, `typingUsers` | input, submit, timers, frames | `ChatView`; the relay's part in `Router` |
| Registration, search, safety numbers, rendering, deployment | | | no (section 8) |

How they interact: a browser talks to one socket server over a WebSocket. Each
server's router takes events from one channel, one handler at a time; a handler
awaits Postgres and Redis, and meanwhile clients, the tasks around the router
and the other servers go on. Servers share Postgres and Redis only. A sender
asks the auth service for the recipient's bundles before every message; the
recipient replenishes its one-time prekeys when it connects and on every init.

What is hard: suspended handlers against two databases and other servers;
cursors that a client advances and a server trusts; connection ids that repeat
over servers and restarts; four different moments (memory, Ack, IndexedDB
commit, cursor) at which one message is "done" in the browser; inits that cross;
overlapping calls of `replenishOPKsIfNeeded`; a device that exists on the server
before its keys exist in the browser; callbacks of a page that is gone; two
timers that race over a network. `PROJECT.json` lists each hazard
at its line with the properties for it.

What makes each part correct:

* Router: an Ack means a row (which it does not, section 4); cursors leave no gap; frames stay in their
  mailbox; tables and registry agree; what is stored is received.
* Sessions: a message key is used once; both ends stay in step; what IndexedDB
  holds is neither ahead of memory nor unknown to the peer; a reset is final.
* Ratchet: late messages open, once; used keys are gone; keys never repeat.
* Prekeys: a key goes to one sender; ids collide only in overlaps; a key given
  out can be opened, and is saved, unless a failure or a reload lost it.
* Device setup: no device without keys goes unnoticed; a browser is one device.
* Connection: one attempt at a time, another as long as the page is there, none
  after it; an expired token leads to the login page.
* Screen: what is shown is the conversation with the contact chosen; a typing
  indicator neither flickers nor stays.

## 2. Modules

```
Mailbox          what the relay promises: a log per user, read in order
Router           servers, Postgres, Redis and clients        (EXTENDS nothing of ours)
RouterMailbox    Router and the refinement mapping to Mailbox
RouterProofs     theorems about Router, and that it implements Mailbox
MCRouter         constants for the runs of Router and RouterMailbox
Session          browsers' sessions over what Mailbox promises
MCSession        its constants
SessionProofs    theorems about Session
PreKeys          one device's one-time prekeys
MCPreKeys        its constants
PreKeysProofs    theorems about PreKeys
Ratchet          the double ratchet between two parties (run directly)
RatchetProofs    theorems about Ratchet
SequenceLemmas   numbers, sequences and their elements: lemmas for the proofs
DeviceSetup      login, device registration and keys, in the tabs of a browser
DeviceSetupProofs
Connection       the connection of a tab over visits, logins, expired tokens
ConnectionProofs
ChatView         what the chat page shows, and what its typing shows to others
ChatViewProofs
```

An operator commented "Mutant" is not part of its model: it is a plausible
mistake in the definition that follows it, kept to show that a property would
notice it (`PROJECT.json`, "mutants").

### Router

A server's process is `events` (the unbounded channel), `task` (the handler that
is suspended at an await, with its locals), the three tables of `RouterState`,
`next_id`, and the sockets' `reader` and `writer` tasks. One action is one piece
of code between two awaits:

| Action | Code |
|---|---|
| `ClientOpen`, `ClientAuthenticate`, `ClientSend`, `ClientTyping`, `ClientDrop` | `connect`, `onopen`, `sendMessage`, `notifyTyping`, a socket lost |
| `OnDelivery`, `OnAck`, `OnTyping` | `onmessage` |
| `ReaderEnd`, `WriterEnd` | `handle_connection` and `handle_client_writer` end, in either order |
| `Subscribe`, `SubscriberForward` | `handle_redis_subscriber`, `handle_redis_setup` |
| `HandleConnected`, `HandleIgnored`, `HandleRefused` | `handle_connected_event`; the early returns of `handle_received_event` |
| `AuthenticateFetch`, `AuthenticateFlush` | `handle_authenticate_command` before and after its Redis call |
| `SendInsert`, `SendLookup`, `SendDeliver`, `SendPublish` | `handle_send_command`, cut at its awaits, the set of servers in any order |
| `HandleTyping`, `HandleDisconnected`, `HandlePubSubDelivery` | the other handlers |
| `Expire`, `Crash` | the 90 s of the registry key; the process |

`HandleDisconnected` and `HandlePubSubDelivery` have one await each and are one
action: before and after it they touch only the router's own tables and frames
on their way to a client, the await itself changes one shared value, and the
router takes no other event in between. `SendInsert` runs from the start of the
handler through the INSERT to the next await.

Faults are constants (`"db"`, `"redis"`, `"expiry"`, `"token"`), so that a
property can be stated for the environment it needs. `Info` and `Error` frames
are not queued, but sending one still notices a writer that has ended, which is
where `disconnect_client` runs in the middle of another handler.

### Session

`sessionsRef` is `outs` (keyed by user and device) and `ins` (keyed by identity
key): a session serves one direction, because a reply runs its own X3DH. A
session is named by its init; its chain key is the number of keys it has
produced. `sendMessage` is cut at its two fetches (`SendMessage`,
`FetchedRecipient`, `FetchedOwn`, `FetchFailed`), with the two ways a socket can
have changed meanwhile: closed (frames are swallowed) or connecting (`send`
throws between `sessionsRef.set` and `pendingAcks.set`, `SendThrows`).
`writes` are requests to IndexedDB that nobody waits for: a `Reload` finds some
first part of them. That they survive in order is the weakest thing the browser
guarantees for transactions on the same store; over different stores it is a
simplification. Frames of a lost socket may arrive later (`late`), in part or
not at all. The relay here is what `Mailbox` promises, which `RouterMailbox`
shows of one server. Contacts are not separate state: the owner of an identity
key is known.

### PreKeys

A key pair is its `key_id` and the call that made it. A call of
`replenishOPKsIfNeeded` is cut at its awaits, the upload at each INSERT. The put
into `keys-table` is not awaited: `Persist` ends the call and leaves an entry in
`writes`, which commits, fails or is gone after a reload (`WriteCommits`,
`WriteFails`, `Reload`). A failure is a request that never arrives, an answer
that is lost, a read of `keys-table` that rejects, a write that fails, an INSERT
that fails for whatever reason (the handler goes on with the next), or a count
query that fails, which the service answers with 0 (`unwrap_or`). The bundle requests' DELETE has the
inner SELECT and the deletion as two steps: a second request that chose the same
row finds it gone (READ COMMITTED). `overlapped` and `unsaved` are
history variables: two calls have been under way at once; a failure or a reload
kept the keys of a call out of `keys-table`, and no later write has put them
there.

### Ratchet

Keys are symbols: a DH output is the set of the two pairs, a root key the
sequence of outputs mixed in, a chain key its root and position. Both parties
send, more than `useChat.ts` asks of it (there each session has one direction),
because `crypto/` is offered as a library of its own.

### DeviceSetup

Tabs share `stored` (localStorage) and `keys_table` (IndexedDB); each has its own
user, route and database connection. A form is one record that goes through the
awaits of `handleLogin` (`login`, `check`) or `handleSubmit` (`uploading`,
`answered`); it goes on when its page is left, as promises do. `Show` and `Goto`
are the routes of `App` with what mounting a page starts: ChatPage's load,
DeviceSetupPage's check, which runs again when the database opens
(`ChecksWhenOpened`). A failure is a lost request, a lost answer or a failed
write: all look the same to the user. `ended` remembers the keys of setups whose
user has seen them end. Simplified: a tab has one form under way, the database
opens sooner or later, and logging out by an expired token is the `Logout` of a
chat page.

### Connection

Each visit of ChatPage has its own refs, and its callbacks outlive it, so `chat`
has a record for each; `current` is the visit on the screen. Sockets
go through `connecting`, `open` (authenticate is sent), `answered` and `closing`.
`Connect` is called with the state its caller has reached, from the load and from
the timer; `AuthFailure` logs out whoever is logged in by then. An answer is an error
frame, on which an expired token leads to the login page, or anything else, which does
nothing. `Unmounted` is the
effect's cleanup, which does not exist before the database is open. A token is the
number of the login that obtained it and expires at any moment. `leftEarly` marks
a page that was left during its load.

### ChatView

The page's `recipient`, `conversations`, `messages` and sidebar, over sends cut at
their two fetches, deliveries and changes of contact; with it `MessageInput` and,
for the `Watched` contacts, the other end: its `typingUsers` entry and timer. Time
is in seconds; `Tick` waits for what is due. Frames to a contact arrive within the
second they are sent in, and in order; a typing frame may also reach nobody. A
socket may open and close at any moment: a text sent on a closed one leaves a
session here that the contact has not got (`"no init"`), whose typing frames it
cannot read. Simplified: input leaves text in the field (a user who empties it
lets the idle timer run in the same way), sessions are followed and reset for
watched contacts only.
`received` has the texts delivered for a contact's conversation, `sent` those whose
frames were given to the socket (added in `Fetched`, where the code calls `send`,
and not in `Sent`, where the conversation gets the text), `unshown` those of them
whose `sendMessage` failed afterwards: the histories that conversations are compared
with. `told` says that a contact
was reached by a typing frame and nothing has spoken against it since: neither a
text, a lost socket, a change of contact nor the end of typing.

## 3. Runs

Deadlock is checked in `ChatView`, where time always passes or a frame moves.
Elsewhere the bounds stop users, so finite behaviours end. `PROJECT.json` has a
sentence for each run.

| Run | Instance | What it shows |
|---|---|---|
| `RouterPair` | 2 servers, 1 message, 1 crash, a typing frame, every fault | frames stay in their mailbox; what carries a number carries the row's; cursors are rows' numbers |
| `RouterLive` | 1 server, fair, 1 device, 2 messages, 1 crash, 1 lost socket | tables agree, no gap under a cursor, deliveries ascend; `Router` implements `Mailbox`; stored is received; the registry is complete, after a restart too |
| `SessionCrossing` | a and b write at once, 2 texts and 1 back, 1 failed fetch, fair | everything is decrypted in the end; what is kept is known to the peer |
| `SessionDevices` | 3 devices (two of one user), 2 texts, 1 lost socket, 1 reset | no message key is used twice, copies included; a reset is final but for awaited Acks |
| `SessionReload` | 3 texts one way, `MAX_SKIP` 1, 1 lost socket, 1 reload | IndexedDB is not ahead of memory; keys passed over are kept; what is to come decrypts until the reload: over a gap of `MAX_SKIP`, and late with kept keys |
| `PreKeysOverlap` | 2 calls, in turn or overlapping, 2 senders, 2 failures, 1 reload | a key to one sender only; ids collide only when calls overlapped; a key opens, and is saved, unless a failure or reload lost it |
| `RatchetTwoWay` | 4 messages each way, any order, `MAX_SKIP` 2 | late messages open; used keys are gone, so once only; keys are fresh |
| `DeviceSetup` | 2 tabs, 2 accounts, 2 logins, 2 submissions, 1 failure, 1 reload, fair | no silent orphan; one device for all tabs; a browser with keys skips the setup |
| `Connection` | 2 visits, 2 logins, delays 1 to 3, sockets closing without bound, fair | one thing under way; quiet once left; retries until the token has expired, then login |
| `ChatView` | 2 contacts, 2 texts, a connection that comes and goes without bound, fair | conversations are what came and went out, and the screen shows the one chosen; no flicker; the indicator goes off |

`RouterLivePair` (2 servers, no fault) and `RouterAck` (1 server, Postgres may fail)
end in a violation: each states what a text of the repository says and shows the
code departing from it (section 4).

Why the bounds are enough. Two messages are what order, gaps and ranges of
cursors need. A connection id is reused after a crash, which starts the count at
0 again: `RouterPair` needs only one id per process for that, and `RouterLive`
has two so that a device can reconnect: what it sent itself on the lost socket is
then its backlog, or delivered live on the new one, in any order. One crash, drop or reload
is followed by a whole recovery and happens at every point. Three texts of a
session make a gap and a late frame: in `SessionReload` the receiver of the init and
the last steps over one message, which is all that `MAX_SKIP` 1 allows, and opens it
when it comes late (a bound of one less, or keys not kept, would be noticed); with three devices there
are two texts to each, enough for a late init and a message that overtakes it; two
calls of replenish are an overlap, and with two failures one can hit a call and
another the write that would have made up for it; four messages each way make two rotations with messages skipped before and after.
`MAX_SKIP` is 2 or 1, not 1000: only the comparison matters. `RatchetTwoWay` reaches
both sides of it. `MaxSends` is 1 in every run: this client gives each send a fresh
UUID, so an id sent again (`ON CONFLICT`) is met only by the theorems of section
6, which hold for any `MaxSends`.

Two tabs with a submission each overlap in every way, and a name refused after a
lost answer needs a second submission in the same run. Two visits are a page and
the one that its callbacks may disturb; a delay of 1, 2 and 3 meets the doubling
and the cap. The timers of `ChatView` are the code's own seconds (3, 2 and 4); one
contact is followed and the other is there to change to and to receive from.

`StoredIsReceived` is checked of one server; with two it is what
`RouterLivePair` refutes. `RegistryComplete`, `CursorHasNoGap` and
`DeliveriesAscend` are checked of one server too (section 4 says why).

## 4. Disagreements met

Two findings, each with a run and the lines it quotes in `PROJECT.json`:

* An INSERT that fails is acknowledged (`commands/send.rs:31`): the error becomes
  `seq` 0 and the handler goes on to the Ack, whose comment (line 34) says that the
  message has persisted. `RouterAck`.
* With two servers, a message stored between the backlog query and the
  registration is not delivered to a connection that stays (`authenticate.rs:67`).
  `RouterLivePair`.

Departures seen while translating. The models contain them, so the properties of
section 3 are stated for the conditions under which they hold; no run is devoted
to them:

* The registry's field is a connection id that every process counts from 0
  (`redis_helper.rs:17`, `main.rs:53`), and the key expires under live
  connections (`redis_helper.rs:20`): `RegistryComplete` is of one server that
  does not expire.
* With two servers a greater number may be delivered first and move the cursor
  past a smaller (`authenticate.rs:36`): `CursorHasNoGap` is of one server.
* After a failed backlog query the socket stays open and unauthenticated
  (`received.rs:37`).
* Local delivery does not set `delivered_at` (`commands/send.rs:69`).
* A reload before an Ack uses a message key again: `NoKeyReuse` is checked
  without reloads. An Ack after a lost init persists a session the peer never
  had: `PersistedIsKnown` is checked without lost sockets.
* An Ack that arrives after a reset puts the session that was reset back into
  IndexedDB (`useChat.ts:186`): `ResetIsFinal` exempts the states that awaited an
  Ack at the reset, and nothing else.
* Ids of one-time prekeys collide when calls of `replenishOPKsIfNeeded` overlap
  (`useChat.ts:369`): hence `IdsCollideOnlyInOverlap`.
* Any first reply makes the first sender drop a session that is alive
  (`useChat.ts:239`); the next message begins a new one, which costs an X3DH.
* The cursor passes a message before its writes commit (`useChat.ts:211`).
* When an upload's answer is lost its keys open nothing and their ids are used again
  (`useChat.ts:376`); when the write of `keys-table`, which nobody awaits, fails or
  has not committed at a reload, the same happens after the call has ended
  (`useChat.ts:393`). And from the first INSERT on, senders may be given a key whose
  private half is not in memory yet. `OpensUnlessLost` and `SavedUnlessFailed` name
  these cases, by the call whose keys are concerned, and exclude any other.
* `MAX_SKIP` bounds a gap, not the cache (`ratchet.ts:58`).
* A page left while its load awaits IndexedDB connects all the same, with nobody
  to disconnect it (`useChat.ts:457`); when its token expires it logs out whoever
  is logged in by then. `QuietAfterUnmount` exempts such a page (`leftEarly`).
* `keys-db` is not divided by user: a second account in the same browser chats
  with the first one's keys (`AuthContext.tsx:59`). `OneDevicePerBrowser` does not
  say whose device it is.
* After a lost answer the device's name is taken and the orphan stays
  (`DeviceSetupPage.tsx:52`): `NoSilentOrphan` says only that the user was told, or
  left the page.
* ChatPage without keys, or whose load failed, never connects
  (`useChat.ts:427`): `OneContinuation` and `RetriesUntilExpired` are of pages that
  have keys.
* A text whose own-device fetch fails has gone out and is in no conversation
  (`useChat.ts:315`); a text counts as part of the conversation only when its call
  ends, so texts sent at once are shown in the order their calls end.
  `RightConversation` exempts exactly these texts (`unshown`, `UnderWay`) and says
  nothing of the order of texts sent.
* A contact chosen before the load has an empty screen until the next text
  (`useChat.ts:66`): exempted in `ShownIsTheConversation` (`early`).
* A text that arrives turns the indicator off although its sender types the next
  (`useChat.ts:234`): exempted in `NoFlicker`.
* Two tabs of one browser share the cursor and the sessions
  (`useChat.ts:211`); `Session` has one tab for each device.
* The field is cleared although sending may fail (`MessageInput.tsx:44`), and a late
  answer to an older search replaces a newer one's results (`ContactSearch.tsx:27`).

## 5. Fairness

`Router`: the router task, the subscriber tasks and the callbacks of an open tab
are weakly fair: tokio runs a task that is ready, the browser runs its
callbacks, and after `onclose` the reconnect timer fires. Nothing makes a user
send, a socket drop, a process crash, or the end of a vanished peer be noticed.
`Session`: the same for the callbacks and the relay; a fetch may take for ever,
so the steps of `sendMessage` are not fair. `SentIsOpened` ranges over the first
`SumFunction(MaxTexts)` messages, which are all of them when every user has one
device. `PreKeys` and `Ratchet` have no liveness property.
`DeviceSetup`: the database opens and IndexedDB answers `checkHasKeys`; users need
do nothing, and requests to the auth service may take for ever. `Connection`:
IndexedDB answers, timers fire, and a socket that is connecting, unanswered or
closing gets further or closes; an established connection need never close, and
a token need never expire. `ChatView`: time passes, timers that are due fire and a
frame on its way arrives or is lost; users, texts and the socket are free.

## 6. Proofs

The assumptions on constants are all that is taken for granted besides the
library: `ConstantsAssumption` (`Router`), `SessionAssumption`,
`PreKeysAssumption`, `RatchetAssumption`, `ConnectionAssumption`,
`DeviceSetupAssumption` and `ChatViewAssumption`, each used by its own module's
proofs and evaluated by TLC on its runs. They say that numbers are numbers, that
values meaning "none" are not members of what they are none of, and
(`SessionAssumption`) that the bundles of a user list each of its devices once,
as the rows of a table do.

### RouterProofs

For all finite sets of messages and any sets of servers, mailboxes and devices,
and for any bounds, `Spec` implies:

| Theorem | States |
|---|---|
| `TypeCorrect` | `[]TypeOK` |
| `TablesAgree` | `[]LocalTablesAgree` |
| `CarriedSeqIsRight` | `[]CarriedSeqIsTheRows` |
| `FramesStayInMailbox` | `[]OnlyToItsMailbox` |
| `CursorsAreRows` | `[]CursorIsARow` |
| `ConnectionsAreRegistered` | `OneServer /\ RedisKeeps => []RegistryComplete` |
| `DeliveriesStayInOrder` | `OneServer => []DeliveriesAscend` |
| `CursorsHaveNoGap` | `OneServer /\ RedisKeeps => []CursorHasNoGap` |
| `RelayIsAMailbox` | `OneServer /\ RedisKeeps /\ StoreKeeps => Logs!Safety` |

The hypotheses are of the constants, and each is one without which the code does
not keep the promise (section 4):

* `OneServer`: two servers share numbers but not an order of delivery, and the same
  connection ids.
* `RedisKeeps`: no call to Redis fails and no key expires. A lookup that fails, or
  finds the key expired, skips a device that is connected, and the next delivery
  moves its cursor past what it was not given.
* `StoreKeeps`: Postgres does not fail and a message is sent once (`MaxSends = 1`,
  as the client does: each send has a new UUID). An INSERT whose answer is lost, or
  which meets a row that is there, is delivered without a number: a device may be
  given that message again from its backlog.

Crashes, lost sockets, reconnections, rejected tokens and, but for the last
theorem, retried sends and failing INSERTs remain.

The argument goes up in layers, each proved inductive relative to those below it:

1. Types. The lemmas on sequences (what `Append`, `Tail` and concatenation do to
   the set of elements) are stated once and used for every queue.
2. The local tables. `LocalTablesAgree` is inductive with types alone, because
   only `disconnect_client` and `AuthenticateFetch` write both tables.
3. Numbers. `seq` changes only from 0 and only to `identity + 1`.
4. Carried numbers. A `seq` that is right when it is read stays right by 3, in
   whichever of the event, the channel, the task or the frame it waits.
5. Ownership. `OnlyToItsMailbox` is not inductive: the frames are for the mailbox
   that owns the connection *on that server*, and a socket of a client must be one
   whose server knows, or will be told in an event still queued, that client's
   mailbox. The strengthening (lemma `OwnershipInvariant`) says so of every open
   socket, its queued `authenticate` and the table, and that an id not yet handed
   out is nowhere: that is why ids handed out again after a crash and stale entries
   in Redis cannot lead a frame astray.
6. Cursors are what frames carried, so `CursorIsARow` follows from 4 and 5.

With one server the layers go on:

7. `LiveInv`: ids of readers and of their last events have been handed out, and an
   open socket has its writer and no Disconnected event, so no handler drops it.
   An entry of Redis is then removed only for a connection that has no owner left:
   whoever is authenticated is registered or about to be.
8. `AuthInv`: a socket authenticates once, with the cursor that its client still has,
   because nothing is delivered on it before its backlog is flushed.
9. `NoPubSub`: a single server publishes nothing. `StoreBounded`: no row is numbered
   beyond IDENTITY. `BacklogInv`: the rows a suspended authentication has read
   ascend beyond the cursor of its client. `TaskAhead`: a message that the handler
   still has to deliver is beyond every frame that was queued and every cursor.
   `DeliveriesAscend` is inductive relative to these.
10. `GapInv`, for every open socket: in front of a queued delivery, or received, is
   every older message stored for its user (`FramesCover`); a backlog waiting to be
   flushed has all that was not received (`RowsCover`); and once it is flushed,
   everything stored is received, queued, or what the handler still carries
   (`UpToDate`). A cursor that moves to a number therefore leaves nothing behind:
   `CursorHasNoGap`.

For the refinement, the log of a mailbox is its rows in order of `seq`. `SentOnce` (a
message is in one place of the router's queue, and not stored while it is there) makes
every INSERT return a number, so every delivery has one (`AllNumbered`). `LogStep`
then shows that an INSERT is `Accept` and that nothing else changes a log;
`GivenInOrder` that a device was given messages of its log in ascending order; and
`AscendingPrefix` that an ascending sequence without gaps is the beginning of the log, so
that a delivery is `Show`. The steps of `Router` that neither insert nor deliver
stutter.

### ConnectionProofs

For any delays and any number of visits and logins: `ConnectionTypeCorrect`
(`[]TypeOK`), `OneThingUnderWay` (`[]OneContinuation`), `LeftPagesAreQuiet`
(`[]QuietAfterUnmount`). Neither of the last two is inductive. `IInv` adds, for each
visit: before the load is done there is neither socket nor timer (`Slim`); what is
on the screen does not mean to disconnect (`OnPage`), or else a socket that closes
would not be followed by a timer; what is not on the screen was never rendered, or
was left early, or means to disconnect (`OffPage`), or else it would be followed by
one. Leaving is one lemma (`LeavingKeeps`) from which those on expired tokens and
logging out follow, and `ConnectKeeps` is shared by the load and the timer.

### DeviceSetupProofs

For any tabs, users and names and any bounds: `SetupTypeCorrect` (`[]TypeOK`),
`TabsAreOneDevice` (`[]OneDevicePerBrowser`), `NoOrphanUnnoticed`
(`[]NoSilentOrphan`). The second follows from what a tab loads being the first row,
which nothing replaces (`FirstRow`). The third needs `KeysAreApart`: keys of
different submissions differ, an uploading form's are not in the table yet, and an
answered form names the device that has its keys; without it `PutKeys` could store a
pair under a device that has another one.

### ChatViewProofs

For any contacts, finitely many of them stored, and any number of texts:
`ChatViewTypeCorrect` (`[]TypeOK`), `ScreenShowsConversation`
(`[]ShownIsTheConversation`) and `IndicatorIsSteady` (`[]NoFlicker`). `ScreenInv`
adds that nothing is sent or received before the load, so that loading cannot
overwrite a text, and that a contact chosen before it is marked (`BeforeLoad`); that
the texts of the histories have had their numbers (`Numbered`), so that a new one is
in none; and that a text under way has one call, was not received, and has gone
out exactly if its call awaits the own devices (`SendOK`). Without the last, a call
that ends could show a text twice, or one that did not go out. `SidebarInv`: the
sidebar has the contacts there is a text of, and as many entries as there are, so
that nobody is listed twice. `TypingInv`: the timers of the field run exactly
while it counts as typing, and the timer of an indicator that is on outlasts the
time to the next heartbeat, unless the frame that restarts it is on its way
(`ToldOK`); with `AutoClear` no longer than `Heartbeat` that is false.

### SessionProofs

For any users, devices, texts and faults, `Spec` implies:

| Theorem | States |
|---|---|
| `SessionTypeCorrect` | `[]TypeOK` |
| `MemoryIsAhead` | `[]PersistedNotAhead` |
| `PassedKeysAreKept` | `[]NoKeyDropped` |
| `KeysUsedOnce` | `[](reloads = 0 => NoKeyReuse)` |
| `ResetLasts` | `[](reloads = 0 => ResetIsFinal)` |
| `KeptSessionsAreKnown` | `[](drops = 0 /\ reloads = 0 => PersistedIsKnown)` |
| `KeysStayAhead` | `[](reloads = 0 => KeysAhead)` |
| `SessionsStayInStep` | `[]InStep`, as long as no device has sent more than `MAX_SKIP + 2` texts |

The hypotheses are what the code needs, not what the proofs need. A reload
before an Ack goes back to keys that were used (section 4), so the theorems on
their being used once are of states before any reload; a lost init makes the next
Ack persist a session the peer never had. `InStep` fails in any state in
which the gap before a message is larger than `MAX_SKIP`, and frames on a lost
socket make gaps as long as what was sent: `KeysAhead` is what holds without a
bound (the key was neither used nor given up, so only such a gap can keep
the message shut), and `SessionsStayInStep` turns it into `InStep` where no
session can have such a gap: a session of `MAX_SKIP + 2` texts ends with number
`MAX_SKIP + 1`, and a receiver that has the init stands at 1 or beyond. The runs
check each within those hypotheses, by the bounds of their constants
(`MaxReloads = 0`, and so on); `InStep` itself says that it is of the time before a
reload.

None of the properties is inductive. The invariant has layers, and each is
proved relative to those below it:

1. `TypeInv`: types, and every index that waits, travels or is stored is a
   message's.
2. `OutInv`, on the sending sessions. A session's name is the number of its init,
   so a new one is never confused with an old (`NamedAfterInit`); a device
   encrypts with sessions of its own (`OwnSessions`); every state that IndexedDB
   holds, or that a write or awaited Ack may put there, is behind memory if
   it is of the same session (`MemoryLeads`). Before a reload, the chains in
   memory are also beyond every message sent (`KeysFresh`), and a session that
   was reset survives only in an awaited Ack (`ResetKept`). A step is seen
   through one of five effects (`OutsStay`, `OutsAdvance`, `OutsPersist`,
   `OutsDrop`, `OutsReload`), so that the argument is made five times and not once
   for each action.
3. `KeysKept`, on the receiving sessions, in memory and in every prefix of the
   writes: a number that the chain has passed was opened or its key is kept.
4. `KnownInv`, while nothing is lost: frames go out in the order of sending, so an
   Ack for a message of a session is behind the relay's storing of its init
   (`FramesInOrder`, `InitsStored`).
5. `OnceInv`: a message is on its way once and stored once, and what was opened
   is behind the cursor, so that no frame is opened a second time.
6. `CountInv`: a suspended `sendMessage` has one more message to come for each
   session at most, so a session's position and its calls together never exceed
   the texts of its device (`SessionsCounted`).
7. `InsBegun`: until a reload, a receiving session was begun by opening its init, and
   has moved to 1.

`Committed`, which puts requests of IndexedDB into effect, took the first of two
writes of a key where the last one counts. No run noticed; the
attempt to prove `MemoryIsAhead` did, and the definition is corrected.

### PreKeysProofs

For any calls, fetchers, batch sizes, failures and reloads: `PreKeysTypeCorrect`,
`KeysGoToOneSender` (`[]GivenOnce`), `CollisionsNeedOverlap`
(`[]IdsCollideOnlyInOverlap`), `KeysAreSaved` (`[]SavedUnlessFailed`) and
`KeysOpenUnlessLost` (`[]OpensUnlessLost`). `IInv` adds: a batch has keys of its own
call whose ids differ, and the server has dealt with the first of them
(`BatchesOK`); rows and keys given out were published and no two rows share an id,
which is what `UNIQUE(device_id, key_id)` gives (`TableOK`); and of memory
(`MemoryOK`), that calls under way at once are noted (`OverlapsNoted`); that in
memory, in `keys-table` and in every write that waits, equal ids are of overlapping
calls and each batch is there as a whole or not at all (`ListsOK`); that a batch
being uploaded has ids of nobody but those (`UploadsApart`); that `keys-table`, the
writes in their order and memory each contain the one before (`Chained`), so that
any write that commits makes up for those that failed; and that the batch of a call
that has ended is saved, on its way, or in `unsaved` (`Accounted`).

### RatchetProofs

For any `MAX_SKIP` and any number of messages: `RatchetTypeCorrect`,
`RepeatsNeverOpen` (`[]UsedKeysAreGone`), `NoKeyTwice` (`[]KeysAreFresh`) and
`NothingIsLost` (`[]LateMessagesOpen`). `RatchetOK` says how the two ends fit: key
pairs take turns, so a root key's length tells whose turn made it (`Place`);
the peer sends on the chain that a party receives on, or on the next
(`InTurn`); a party keeps keys of positions it has passed and nothing it has opened
(`KeptOK`, `OpenedOK`), and has passed nothing else (`NothingMissing`). Every part
is stated about one party's state and its peer's, so that a lemma serves both.

### SequenceLemmas

What `Append`, `Tail`, concatenation, prefixes, `RemoveAt`, `RemoveFirst` and
`SetToSeq` do to length, places and elements; `Min` and `Max` of sets of naturals.
The provers cannot instantiate an induction theorem that takes a
predicate, so induction is stated about a set (`SetInduction`): every
set of naturals that is not empty has a least element (`LeastNatural`), which is
the library's theorem on well-founded relations.

### Only model-checked

Every invariant of the passing runs is stated by a theorem. What is left
to TLC is liveness, which is out of the prover's reach: `StoredIsReceived`,
`SentIsOpened`, `SkipsToChat`, `RetriesUntilExpired`, `IndicatorGoesOff` and the
fairness part of `ImplementsMailbox`. So is what a fold or `SelectSeq` yields, which the
library defines by recursion that no backend can unfold.

## 7. Plan

Done: `Router` with its abstract `Mailbox`, `Session`, `PreKeys`, `Ratchet`,
`DeviceSetup`, `Connection`, `ChatView`, and the theorems of section 6.

Next: a session specification that both `Session` and `Ratchet` implement, in place
of the counting chain of `Session`.

## 8. Not modelled

Registration and search (single requests without protocol state), how a JWT is
signed and verified (its expiry is in `Connection`, its rejection a fault of
`Router`), the cryptographic primitives and `verifyBundle` (taken as sound), safety
numbers (a pure hash), serialization of sessions (keeps every field), payload
contents and parsing, names of contacts, rendering, and deployment code. Two tabs
that chat at once are not modelled beyond the keys they load: the code divides
nothing between them. Queues have no limit in the code, so none is modelled.
