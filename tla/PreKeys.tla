------------------------------ MODULE PreKeys -------------------------------
(***************************************************************************)
(* The one-time prekeys of one device: the table one_time_prekeys of the   *)
(* auth service (key_handlers.rs), which senders consume, and the private  *)
(* halves in the browser (keysRef, keys-table), which                      *)
(* replenishOPKsIfNeeded (useChat.ts) extends.  Calls of it overlap: it is *)
(* started by every onopen and by every init that arrives, awaits three    *)
(* times, and leaves a write to IndexedDB that nobody awaits.              *)
(*                                                                         *)
(* A key pair is its key_id and the call that generated it.                *)
(***************************************************************************)
EXTENDS Integers, Sequences, SequencesExt, FiniteSetsExt

CONSTANTS
    Calls,                 \* calls of replenishOPKsIfNeeded
    Setup,                 \* the device setup, which generated the first keys
    Fetchers,              \* requests for the device's bundle
    InitialKeys,           \* keys of generateDeviceKeys (10 in the code)
    OPK_LOW_WATERMARK,
    OPK_REPLENISH_COUNT,
    MaxFailures,           \* bound: requests, INSERTs and writes that fail
    MaxReloads             \* bound: page reloads

(* What the constants must be.                                             *)
ASSUME PreKeysAssumption ==
    /\ Setup \notin Calls
    /\ InitialKeys \in Nat
    /\ OPK_LOW_WATERMARK \in Nat
    /\ OPK_REPLENISH_COUNT \in Nat

Nothing == [key_id |-> 0, by |-> Setup]     \* no key: ids begin at 1

VARIABLES
    rows,           \* the device's rows of one_time_prekeys, oldest first
    privateStore,   \* keysRef.current.privateStore.one_time_prekeys
    keys_table,     \* the same list in IndexedDB
    call,           \* [Calls -> where each call stands]
    count,          \* what fetchOPKCount answered to each call
    batch,          \* the batch each call generated
    inserted,       \* how many of them the server has dealt with
    writes,         \* writes of keys-table that have not committed, in order
    fetch,          \* [Fetchers -> where each request stands]
    chosen,         \* the row that the inner SELECT of each request chose
    given,          \* the key that each request was answered with
    init,           \* what became of the sender's init: opened, lost or none
    overlapped,     \* history: pairs of calls under way at the same time
    unsaved,        \* history: calls whose keys a failure or a reload kept
                    \* out of keys-table, and no later write has put there
    failures, reloads

vars == <<rows, privateStore, keys_table, call, count, batch, inserted, writes,
          fetch, chosen, given, init, overlapped, unsaved, failures, reloads>>

storeVars == <<keys_table, writes, unsaved>>
callVars  == <<privateStore, storeVars, call, count, batch, inserted, overlapped>>
fetchVars == <<fetch, chosen, given, init>>

Key(n, c) == [key_id |-> n, by |-> c]
IdsOf(ks) == {k.key_id : k \in ToSet(ks)}

(* Mutant: ids count down.                                                 *)
CountingDown(start, n, c) == [i \in 1 .. n |-> Key(start - i, c)]

(* generateOPKBatch(start, n), by call c                                   *)
OPKBatch(start, n, c) == [i \in 1 .. n |-> Key(start + i - 1, c)]

Init ==
    /\ rows = OPKBatch(1, InitialKeys, Setup)
    /\ privateStore = rows
    /\ keys_table = rows
    /\ call = [c \in Calls |-> "not started"]
    /\ count = [c \in Calls |-> 0]
    /\ batch = [c \in Calls |-> <<>>]
    /\ inserted = [c \in Calls |-> 0]
    /\ fetch = [f \in Fetchers |-> "not started"]
    /\ chosen = [f \in Fetchers |-> Nothing]
    /\ given = [f \in Fetchers |-> Nothing]
    /\ init = [f \in Fetchers |-> "none"]
    /\ writes = <<>>
    /\ overlapped = {}
    /\ unsaved = {}
    /\ failures = 0
    /\ reloads = 0

-----------------------------------------------------------------------------
(* replenishOPKsIfNeeded                                                   *)

UnderWay(c) == call[c] \notin {"not started", "done", "failed"}

Goes(c, to) == call' = [call EXCEPT ![c] = to]

(* onopen, or an init that arrives, starts a call.                         *)
Start(c) ==
    /\ call[c] = "not started"
    /\ Goes(c, "counting")
    /\ overlapped' = overlapped \cup {{c, d} : d \in {e \in Calls : UnderWay(e)}}
    /\ UNCHANGED <<rows, privateStore, storeVars, count, batch, inserted,
                   fetchVars, failures, reloads>>

(* get_user_device_opk_count, which answers 0 when its query fails.        *)
Count(c) ==
    /\ call[c] = "counting"
    /\ Goes(c, "counted")
    /\ \/ /\ count' = [count EXCEPT ![c] = Len(rows)]
          /\ UNCHANGED failures
       \/ /\ failures < MaxFailures
          /\ failures' = failures + 1
          /\ count' = [count EXCEPT ![c] = 0]
    /\ UNCHANGED <<rows, privateStore, storeVars, batch, inserted, fetchVars,
                   overlapped, reloads>>

(* Mutant: ids continue from what the server still has.                    *)
AfterTheCount(c) == count[c] + 1

(* "Next key ID = one past the highest ID we've ever generated"            *)
NextId(c) == Max(IdsOf(privateStore) \cup {0}) + 1

(* The count has come: enough, or a new batch is generated and posted.     *)
Counted(c) ==
    /\ call[c] = "counted"
    /\ IF count[c] >= OPK_LOW_WATERMARK
       THEN /\ Goes(c, "done")
            /\ UNCHANGED batch
       ELSE /\ Goes(c, "uploading")
            /\ batch' = [batch EXCEPT ![c] = OPKBatch(NextId(c), OPK_REPLENISH_COUNT, c)]
    /\ UNCHANGED <<rows, privateStore, storeVars, count, inserted, fetchVars,
                   overlapped, failures, reloads>>

(* upload_new_device_opks inserts the next key of the batch.  An error of  *)
(* the INSERT is ignored: its id is taken (UNIQUE(device_id, key_id)), or  *)
(* the database failed.  It may go on when the client has given up.        *)
InsertNext(c) ==
    LET k == batch[c][inserted[c] + 1] IN
    /\ call[c] \in {"uploading", "failed"}
    /\ inserted[c] < Len(batch[c])
    /\ \/ /\ rows' = IF k.key_id \in IdsOf(rows) THEN rows ELSE Append(rows, k)
          /\ UNCHANGED failures
       \/ /\ failures < MaxFailures
          /\ failures' = failures + 1
          /\ UNCHANGED rows
    /\ inserted' = [inserted EXCEPT ![c] = @ + 1]
    /\ UNCHANGED <<privateStore, storeVars, call, count, batch, fetchVars,
                   overlapped, reloads>>

WithPrivates(c) == privateStore \o batch[c]

(* The upload is answered: the keys go into memory, then keys-table is     *)
(* read.                                                                   *)
Uploaded(c) ==
    /\ call[c] = "uploading"
    /\ inserted[c] = Len(batch[c])
    /\ privateStore' = WithPrivates(c)
    /\ Goes(c, "persisting")
    /\ UNCHANGED <<rows, storeVars, count, batch, inserted, fetchVars,
                   overlapped, failures, reloads>>

(* Mutant: the keys of this call are added to the list that was read.      *)
AddedToTheTable(c) == keys_table \o batch[c]

(* The private keys that are put into keys-table: all that are in memory.  *)
ListToPersist(c) == privateStore

(* keys-table has been read, the put is requested, and the call is over:   *)
(* putValue is not awaited.                                                *)
Persist(c) ==
    /\ call[c] = "persisting"
    /\ writes' = Append(writes, [by |-> c, keys |-> ListToPersist(c)])
    /\ Goes(c, "done")
    /\ UNCHANGED <<rows, privateStore, keys_table, count, batch, inserted, fetchVars,
                   overlapped, unsaved, failures, reloads>>

(* The oldest write commits: writes of one store do so in order.           *)
WriteCommits ==
    /\ writes # <<>>
    /\ keys_table' = Head(writes).keys
    /\ writes' = Tail(writes)
    /\ unsaved' = unsaved \ {k.by : k \in ToSet(keys_table')}
    /\ UNCHANGED <<rows, privateStore, call, count, batch, inserted, fetchVars,
                   overlapped, failures, reloads>>

(* It is aborted instead: "Failed to persist new OPKs" is logged.          *)
WriteFails ==
    /\ writes # <<>>
    /\ failures < MaxFailures
    /\ failures' = failures + 1
    /\ writes' = Tail(writes)
    /\ unsaved' = unsaved \cup {Head(writes).by}
    /\ UNCHANGED <<rows, privateStore, keys_table, call, count, batch, inserted,
                   fetchVars, overlapped, reloads>>

(* The batch was posted, and its private keys are not yet to be written.   *)
HasUnsaved(c) == call[c] \in {"uploading", "persisting"}

(* A call that ends in between has "failed" if its batch was posted.       *)
EndOf(c) == IF HasUnsaved(c) THEN "failed" ELSE "done"

(* A request of the call fails or its answer is lost, or keys-table cannot *)
(* be read: the error is logged and the call is over, whatever the server  *)
(* has done or will do.                                                    *)
CallFails(c) ==
    /\ UnderWay(c)
    /\ failures < MaxFailures
    /\ failures' = failures + 1
    /\ Goes(c, EndOf(c))
    /\ unsaved' = unsaved \cup {d \in {c} : HasUnsaved(d)}
    /\ UNCHANGED <<rows, privateStore, keys_table, writes, count, batch, inserted,
                   fetchVars, overlapped, reloads>>

(* The page is reloaded: memory comes from IndexedDB, calls and the writes *)
(* that have not committed are gone.                                       *)
Reload ==
    /\ reloads < MaxReloads
    /\ reloads' = reloads + 1
    /\ privateStore' = keys_table
    /\ writes' = <<>>
    /\ unsaved' = unsaved \cup {c \in Calls : HasUnsaved(c)}
                          \cup {w.by : w \in ToSet(writes)}
    /\ call' = [c \in Calls |-> IF UnderWay(c) THEN EndOf(c) ELSE call[c]]
    /\ UNCHANGED <<rows, keys_table, count, batch, inserted, fetchVars,
                   overlapped, failures>>

-----------------------------------------------------------------------------
(* A sender asks for the bundle: get_all_prekey_bundles, which takes the   *)
(* oldest row, or get_prekey_bundle, which takes any.  The one DELETE      *)
(* chooses a row, waits for its lock, and finds it gone if another request *)
(* was first (READ COMMITTED).                                             *)

HasRow(k) == k \in ToSet(rows)

(* The inner SELECT ... LIMIT 1                                            *)
ChooseRow(f, k) ==
    /\ fetch[f] = "not started"
    /\ fetch' = [fetch EXCEPT ![f] = "choosing"]
    /\ chosen' = [chosen EXCEPT ![f] = k]
    /\ UNCHANGED <<rows, callVars, given, init, failures, reloads>>

FetchOldest(f) == ChooseRow(f, IF rows = <<>> THEN Nothing ELSE Head(rows))
FetchAny(f) == \E k \in ToSet(rows) : ChooseRow(f, k)

(* Mutant: the row read is answered with, deleted or not.                  *)
ReadRow(k) == k

(* DELETE ... RETURNING: the row, if it was there to delete.               *)
DeletedRow(k) == IF HasRow(k) THEN k ELSE Nothing

Answer(f) ==
    /\ fetch[f] = "choosing"
    /\ fetch' = [fetch EXCEPT ![f] = "answered"]
    /\ given' = [given EXCEPT ![f] = DeletedRow(chosen[f])]
    /\ rows' = RemoveFirst(rows, chosen[f])
    /\ UNCHANGED <<callVars, chosen, init, failures, reloads>>

(* receiveX3DH looks the private key up by its id, and takes the first.    *)
PrivateOf(n) ==
    LET i == SelectInSeq(privateStore, LAMBDA k : k.key_id = n)
    IN IF i = 0 THEN Nothing ELSE privateStore[i]

(* The sender, which had no session, used the bundle for an init; it       *)
(* arrives.  The secrets agree when the private key is that of the public  *)
(* key used, or there was none.                                            *)
ReceiveInit(f) ==
    /\ fetch[f] = "answered"
    /\ init[f] = "none"
    /\ init' = [init EXCEPT ![f] =
           IF PrivateOf(given[f].key_id) = given[f] THEN "opened" ELSE "lost"]
    /\ UNCHANGED <<rows, callVars, fetch, chosen, given, failures, reloads>>

DeviceStep(c) ==
    Start(c) \/ Counted(c) \/ Uploaded(c) \/ Persist(c) \/ CallFails(c)

ServerStep ==
    \/ \E c \in Calls : Count(c)
    \/ \E c \in Calls : InsertNext(c)
    \/ \E f \in Fetchers : FetchOldest(f)
    \/ \E f \in Fetchers : FetchAny(f)
    \/ \E f \in Fetchers : Answer(f)

Next ==
    \/ \E c \in Calls : DeviceStep(c)
    \/ WriteCommits
    \/ WriteFails
    \/ Reload
    \/ \E f \in Fetchers : ReceiveInit(f)
    \/ ServerStep

Spec == Init /\ [][Next]_vars

-----------------------------------------------------------------------------
(* Properties                                                              *)

PreKey == [key_id : Nat, by : Calls \cup {Setup}]
Write == [by : Calls, keys : Seq(PreKey)]

(* Every variable keeps its shape.                                         *)
TypeOK ==
    /\ rows \in Seq(PreKey)
    /\ privateStore \in Seq(PreKey)
    /\ keys_table \in Seq(PreKey)
    /\ call \in [Calls -> {"not started", "counting", "counted", "uploading",
                           "persisting", "done", "failed"}]
    /\ count \in [Calls -> Nat]
    /\ batch \in [Calls -> Seq(PreKey)]
    /\ inserted \in [Calls -> Nat]
    /\ fetch \in [Fetchers -> {"not started", "choosing", "answered"}]
    /\ chosen \in [Fetchers -> PreKey]
    /\ given \in [Fetchers -> PreKey]
    /\ init \in [Fetchers -> {"none", "opened", "lost"}]
    /\ writes \in Seq(Write)
    /\ overlapped \subseteq SUBSET Calls
    /\ unsaved \subseteq Calls
    /\ failures \in Nat
    /\ reloads \in Nat

(* A one-time prekey is given to one sender only, and one that was given   *)
(* is not in the table: requests race for the same row, uploads go on.     *)
GivenOnce ==
    \A f, g \in Fetchers :
        given[f] # Nothing =>
            /\ ~HasRow(given[f])
            /\ f # g => given[g] # given[f]

(* Two keys in memory have the same id only if the calls that generated    *)
(* them were under way at the same time, over reloads and lost answers.    *)
IdsCollideOnlyInOverlap ==
    \A i, j \in 1 .. Len(privateStore) :
        privateStore[i].key_id = privateStore[j].key_id =>
            i = j \/ {privateStore[i].by, privateStore[j].by} \in overlapped

(* A key that the server has for senders, or gave to one, opens in the     *)
(* browser, or one of four things was in the way: its upload is not        *)
(* answered yet; its call failed, or its write did; a reload came before   *)
(* the write had committed; or its call overlapped with the one whose key  *)
(* is found under the id.  No other order of calls, failures, commits and  *)
(* reloads makes a lookup by id find nothing or the wrong key.             *)
OpensUnlessLost ==
    \A k \in (ToSet(rows) \cup {given[f] : f \in Fetchers}) \ {Nothing} :
        \/ PrivateOf(k.key_id) = k
        \/ k.by \in {c \in Calls : call[c] = "uploading"}
        \/ k.by \in unsaved
        \/ {PrivateOf(k.key_id).by, k.by} \in overlapped

(* A private key in memory is in keys-table, or on its way there, unless   *)
(* the read or the write of its own call failed; and the next write that   *)
(* commits makes up for that, in whatever order calls began and ended.     *)
SavedUnlessFailed ==
    \A k \in ToSet(privateStore) \ ToSet(keys_table) :
        \/ k.by \in unsaved
        \/ k.by \in {c \in Calls : call[c] = "persisting"}
        \/ k.by \in {w.by : w \in ToSet(writes)}

=============================================================================
