--------------------------- MODULE PreKeysProofs -----------------------------
(***************************************************************************)
(* Theorems about PreKeys, for any numbers of calls, requests, keys,       *)
(* failures and reloads.                                                   *)
(***************************************************************************)
EXTENDS PreKeys, SequenceLemmas

-----------------------------------------------------------------------------
(* Types                                                                   *)

Callers == Calls \cup {Setup}

(* A generated batch: n keys of c with consecutive ids.                    *)
LEMMA BatchShape ==
    ASSUME NEW start \in Nat, NEW n \in Nat, NEW c \in Callers
    PROVE  /\ OPKBatch(start, n, c) \in Seq(PreKey)
           /\ Len(OPKBatch(start, n, c)) = n
           /\ \A i \in 1 .. n : OPKBatch(start, n, c)[i] = Key(start + i - 1, c)
<1>1. \A i \in 1 .. n : Key(start + i - 1, c) \in PreKey
  BY DEF Key, PreKey, Callers
<1>2. QED
  BY <1>1 DEF OPKBatch

(* NextId is above every id in memory.                                     *)
LEMMA NextIdIsNew ==
    ASSUME TypeOK, NEW c
    PROVE  /\ NextId(c) \in Nat
           /\ NextId(c) >= 1
           /\ \A p \in 1 .. Len(privateStore) : privateStore[p].key_id < NextId(c)
<1> DEFINE s == privateStore
           ids == [p \in 1 .. Len(s) |-> s[p].key_id]
           T == IdsOf(s) \cup {0}
<1>1. s \in Seq(PreKey)
  BY DEF TypeOK
<1>2. \A p \in 1 .. Len(s) : s[p] \in PreKey /\ s[p].key_id \in Nat
  <2>1. \A p \in 1 .. Len(s) : s[p] \in PreKey
    BY <1>1
  <2>2. \A k \in PreKey : k.key_id \in Nat
    BY DEF PreKey
  <2>3. QED
    BY <2>1, <2>2
<1>3. ids \in Seq(Nat) /\ Len(ids) = Len(s)
  BY <1>1, <1>2
<1>4. PICK b \in Nat : \A p \in 1 .. Len(s) : s[p].key_id <= b
  <2>1. PICK b \in Nat : \A p \in 1 .. Len(ids) : ids[p] <= b
    <3> HIDE DEF ids
    <3>1. QED
      BY <1>3, BoundOfElements
  <2>2. QED
    BY <1>3, <2>1
<1>5. ASSUME NEW x PROVE x \in IdsOf(s) <=> \E p \in 1 .. Len(s) : s[p].key_id = x
  BY <1>1 DEF IdsOf, ToSet
<1> HIDE DEF s
<1>6. T \in SUBSET Nat /\ T # {} /\ \A y \in T : y <= b
  BY <1>2, <1>4, <1>5
<1>7. Max(T) \in T /\ \A y \in T : y <= Max(T)
  <2> HIDE DEF T
  <2>1. QED
    BY <1>6, MaxOfNaturals
<1>8. NextId(c) = Max(T) + 1
  BY DEF NextId, s
<1>9. Max(T) \in Nat
  BY <1>6, <1>7
<1>10. \A p \in 1 .. Len(s) : s[p].key_id <= Max(T)
  BY <1>5, <1>7
<1>11. QED
  <2> DEFINE m == Max(T)
  <2> HIDE DEF m
  <2>1. m \in Nat /\ NextId(c) = m + 1 /\ \A p \in 1 .. Len(s) : s[p].key_id <= m
    BY <1>8, <1>9, <1>10 DEF m
  <2>2. \A p \in 1 .. Len(s) : s[p].key_id < m + 1
    BY <1>2, <2>1
  <2>3. QED
    BY <2>1, <2>2 DEF s

(* An id taken from the table or given out, or none, is a key.             *)
LEMMA NothingIsAKey == Nothing \in PreKey
BY DEF Nothing, PreKey

CallStates == {"not started", "counting", "counted", "uploading", "persisting", "done", "failed"}

(* The initial state: a device whose setup has uploaded InitialKeys keys.  *)
LEMMA InitTypes == Init => TypeOK
<1>1. Setup \in Callers /\ InitialKeys \in Nat
  BY PreKeysAssumption DEF Callers
<1>2. OPKBatch(1, InitialKeys, Setup) \in Seq(PreKey)
  BY <1>1, BatchShape
<1>3. QED
  <2>1. <<>> \in Seq(PreKey)
    OBVIOUS
  <2>2. SUFFICES ASSUME Init PROVE TypeOK
    OBVIOUS
  <2>3. rows \in Seq(PreKey) /\ privateStore \in Seq(PreKey) /\ keys_table \in Seq(PreKey)
    BY <1>2, <2>2 DEF Init
  <2>4. batch \in [Calls -> Seq(PreKey)]
    BY <2>1, <2>2 DEF Init
  <2>5. chosen \in [Fetchers -> PreKey] /\ given \in [Fetchers -> PreKey]
    BY <2>2, NothingIsAKey DEF Init
  <2>6. overlapped \subseteq SUBSET Calls /\ unsaved \subseteq Calls
    BY <2>2 DEF Init
  <2>7. writes \in Seq(Write)
    <3>1. <<>> \in Seq(Write)
      OBVIOUS
    <3>2. QED
      BY <2>2, <3>1 DEF Init
  <2>8. QED
    BY <2>2, <2>3, <2>4, <2>5, <2>6, <2>7 DEF Init, TypeOK

(* Every step keeps the types.                                             *)
LEMMA TypeStep == TypeOK /\ [Next]_vars => TypeOK'
<1> SUFFICES ASSUME TypeOK, [Next]_vars PROVE TypeOK'
  OBVIOUS
<1>1. ASSUME NEW c \in Calls, Start(c) PROVE TypeOK'
  <2>1. call' \in [Calls -> CallStates]
    BY <1>1 DEF TypeOK, Start, Goes, CallStates
  <2>2. overlapped' \subseteq SUBSET Calls
    <3>1. overlapped \subseteq SUBSET Calls
      BY DEF TypeOK
    <3>2. overlapped' = overlapped \cup {{c, d} : d \in {e \in Calls : UnderWay(e)}}
      BY <1>1 DEF Start
    <3>3. QED
      BY <3>1, <3>2
  <2>3. QED
    BY <1>1, <2>1, <2>2 DEF TypeOK, Start, fetchVars, storeVars, CallStates
<1>2. ASSUME NEW c \in Calls, Count(c) PROVE TypeOK'
  <2>1. rows \in Seq(PreKey) /\ count \in [Calls -> Nat] /\ failures \in Nat
    BY DEF TypeOK
  <2>2. Len(rows) \in Nat
    BY <2>1
  <2>3. count' \in [Calls -> Nat] /\ failures' \in Nat
    BY <1>2, <2>1, <2>2 DEF Count
  <2>4. call' \in [Calls -> CallStates]
    BY <1>2 DEF TypeOK, Count, Goes, CallStates
  <2>5. QED
    BY <1>2, <2>3, <2>4 DEF TypeOK, Count, fetchVars, storeVars, CallStates
<1>3. ASSUME NEW c \in Calls, Counted(c) PROVE TypeOK'
  <2> DEFINE b == OPKBatch(NextId(c), OPK_REPLENISH_COUNT, c)
  <2>1. b \in Seq(PreKey)
    BY NextIdIsNew, BatchShape, PreKeysAssumption DEF Callers
  <2> HIDE DEF b
  <2>2. batch' \in [Calls -> Seq(PreKey)]
    BY <1>3, <2>1 DEF TypeOK, Counted, b
  <2>3. QED
    BY <1>3, <2>2 DEF TypeOK, Counted, Goes, fetchVars, storeVars
<1>4. ASSUME NEW c \in Calls, InsertNext(c) PROVE TypeOK'
  <2> DEFINE k == batch[c][inserted[c] + 1]
  <2>1. batch[c] \in Seq(PreKey) /\ inserted[c] \in Nat /\ inserted[c] < Len(batch[c])
    BY <1>4 DEF TypeOK, InsertNext
  <2>2. k \in PreKey
    BY <2>1
  <2>3. rows' = rows \/ rows' = Append(rows, k)
    BY <1>4 DEF InsertNext
  <2> HIDE DEF k
  <2>4. rows' \in Seq(PreKey)
    <3>1. rows \in Seq(PreKey)
      BY DEF TypeOK
    <3>2. QED
      BY <2>2, <2>3, <3>1, AppendElements
  <2>5. inserted' \in [Calls -> Nat]
    <3>1. inserted \in [Calls -> Nat]
      BY DEF TypeOK
    <3>2. QED
      BY <1>4, <2>1, <3>1 DEF InsertNext
  <2>6. failures' \in Nat
    <3>1. failures \in Nat
      BY DEF TypeOK
    <3>2. QED
      BY <1>4, <3>1 DEF InsertNext
  <2>7. QED
    BY <1>4, <2>4, <2>5, <2>6 DEF TypeOK, InsertNext, fetchVars, storeVars
<1>5. ASSUME NEW c \in Calls, Uploaded(c) PROVE TypeOK'
  <2>1. batch[c] \in Seq(PreKey)
    BY DEF TypeOK
  <2>2. privateStore' \in Seq(PreKey)
    BY <1>5, <2>1, ConcatElements DEF TypeOK, Uploaded, WithPrivates
  <2>3. QED
    BY <1>5, <2>2 DEF TypeOK, Uploaded, Goes, fetchVars, storeVars
<1>6. ASSUME NEW c \in Calls, Persist(c) PROVE TypeOK'
  <2>1. privateStore \in Seq(PreKey) /\ writes \in Seq(Write)
    BY DEF TypeOK
  <2>2. [by |-> c, keys |-> privateStore] \in Write
    BY <2>1 DEF Write
  <2>3. writes' \in Seq(Write)
    BY <1>6, <2>1, <2>2, AppendElements DEF Persist, ListToPersist
  <2>4. call' \in [Calls -> CallStates]
    BY <1>6 DEF TypeOK, Persist, Goes, CallStates
  <2>5. QED
    BY <1>6, <2>3, <2>4 DEF TypeOK, Persist, fetchVars, CallStates
<1>7. ASSUME NEW c \in Calls, CallFails(c) PROVE TypeOK'
  <2>1. EndOf(c) \in CallStates
    BY DEF EndOf, CallStates
  <2>2. call \in [Calls -> CallStates] /\ failures \in Nat /\ unsaved \subseteq Calls
    BY DEF TypeOK, CallStates
  <2>3. call' \in [Calls -> CallStates] /\ failures' \in Nat /\ unsaved' \subseteq Calls
    BY <1>7, <2>1, <2>2 DEF CallFails, Goes
  <2>4. QED
    BY <1>7, <2>3 DEF TypeOK, CallFails, fetchVars, CallStates
<1>8. ASSUME Reload PROVE TypeOK'
  <2>1. \A c \in Calls : EndOf(c) \in CallStates
    BY DEF EndOf, CallStates
  <2>2. /\ call \in [Calls -> CallStates] /\ reloads \in Nat
        /\ unsaved \subseteq Calls /\ writes \in Seq(Write)
    BY DEF TypeOK, CallStates
  <2>3. call' \in [Calls -> CallStates] /\ reloads' \in Nat
    BY <1>8, <2>1, <2>2 DEF Reload
  <2>4. \A w \in ToSet(writes) : w.by \in Calls
    BY <2>2, ElementsInRange DEF Write
  <2>5. unsaved' \subseteq Calls
    BY <1>8, <2>2, <2>4 DEF Reload
  <2>6. writes' \in Seq(Write)
    BY <1>8 DEF Reload
  <2>7. QED
    BY <1>8, <2>3, <2>5, <2>6 DEF TypeOK, Reload, fetchVars, CallStates
<1>9. ASSUME NEW f \in Fetchers, NEW k \in PreKey, ChooseRow(f, k) PROVE TypeOK'
  BY <1>9 DEF TypeOK, ChooseRow, callVars, storeVars
<1>10. ASSUME NEW f \in Fetchers, FetchOldest(f) PROVE TypeOK'
  <2>1. (IF rows = <<>> THEN Nothing ELSE Head(rows)) \in PreKey
    <3>1. rows \in Seq(PreKey)
      BY DEF TypeOK
    <3>2. QED
      BY <3>1, NothingIsAKey
  <2>2. QED
    BY <1>9, <1>10, <2>1 DEF FetchOldest
<1>11. ASSUME NEW f \in Fetchers, FetchAny(f) PROVE TypeOK'
  <2>1. ToSet(rows) \subseteq PreKey
    BY ElementsInRange DEF TypeOK
  <2>2. QED
    BY <1>9, <1>11, <2>1 DEF FetchAny
<1>12. ASSUME NEW f \in Fetchers, Answer(f) PROVE TypeOK'
  <2>1. DeletedRow(chosen[f]) \in PreKey
    BY NothingIsAKey DEF TypeOK, DeletedRow
  <2>2. rows' \in Seq(PreKey)
    <3>1. \A i \in 1 .. Len(rows) : RemoveAt(rows, i) \in Seq(PreKey)
      BY RemoveAtElements DEF TypeOK
    <3>2. CASE \E i \in 1 .. Len(rows) : rows[i] = chosen[f]
      BY <1>12, <3>1, <3>2, FirstPosition DEF TypeOK, Answer, RemoveFirst
    <3>3. CASE ~ \E i \in 1 .. Len(rows) : rows[i] = chosen[f]
      BY <1>12, <3>3 DEF TypeOK, Answer, RemoveFirst
    <3>4. QED
      BY <3>2, <3>3
  <2>3. QED
    BY <1>12, <2>1, <2>2 DEF TypeOK, Answer, callVars, storeVars
<1>13. ASSUME NEW f \in Fetchers, ReceiveInit(f) PROVE TypeOK'
  BY <1>13 DEF TypeOK, ReceiveInit, callVars, storeVars
<1>14. ASSUME WriteCommits PROVE TypeOK'
  <2>1. writes \in Seq(Write) /\ unsaved \subseteq Calls
    BY DEF TypeOK
  <2>2. Head(writes) \in Write /\ writes' \in Seq(Write)
    BY <1>14, <2>1, TailElements DEF WriteCommits
  <2>3. keys_table' \in Seq(PreKey)
    BY <1>14, <2>2 DEF WriteCommits, Write
  <2>4. unsaved' \subseteq Calls
    BY <1>14, <2>1 DEF WriteCommits
  <2>5. QED
    BY <1>14, <2>2, <2>3, <2>4 DEF TypeOK, WriteCommits, fetchVars
<1>15. ASSUME WriteFails PROVE TypeOK'
  <2>1. writes \in Seq(Write) /\ unsaved \subseteq Calls /\ failures \in Nat
    BY DEF TypeOK
  <2>2. Head(writes) \in Write /\ writes' \in Seq(Write)
    BY <1>15, <2>1, TailElements DEF WriteFails
  <2>3. unsaved' \subseteq Calls /\ failures' \in Nat
    BY <1>15, <2>1, <2>2 DEF WriteFails, Write
  <2>4. QED
    BY <1>15, <2>2, <2>3 DEF TypeOK, WriteFails, fetchVars
<1>16. CASE UNCHANGED vars
  BY <1>16 DEF TypeOK, vars
<1>17. QED
  BY <1>1, <1>2, <1>3, <1>4, <1>5, <1>6, <1>7, <1>8, <1>10, <1>11, <1>12, <1>13, <1>14,
     <1>15, <1>16
     DEF Next, DeviceStep, ServerStep

(* Every variable keeps its shape: TypeOK is an invariant.                 *)
THEOREM PreKeysTypeCorrect == Spec => []TypeOK
<1>1. QED
  BY InitTypes, TypeStep, PTL DEF Spec

-----------------------------------------------------------------------------
(* The inductive invariant                                                 *)

SetupKeys == OPKBatch(1, InitialKeys, Setup)

(* A call has a batch once it is uploading: keys of its own, with ids that *)
(* differ, of which the server has dealt with the first ones.              *)
BatchOK(c) ==
    /\ call[c] \in {"not started", "counting", "counted"} => batch[c] = <<>>
    /\ inserted[c] <= Len(batch[c])
    /\ \A i \in 1 .. Len(batch[c]) :
           /\ batch[c][i].by = c
           /\ batch[c][i].key_id >= 1
           /\ \A j \in 1 .. Len(batch[c]) :
                  batch[c][i].key_id = batch[c][j].key_id => i = j

BatchesOK == \A c \in Calls : BatchOK(c)

(* The keys the server has been given to hand out.                         *)
Published ==
    ToSet(SetupKeys) \cup
    {k \in PreKey : \E c \in Calls : \E i \in 1 .. inserted[c] : k = batch[c][i]}

(* A row or a key given out was published, and no two rows have an id.     *)
TableOK ==
    /\ ToSet(rows) \subseteq Published
    /\ \A f \in Fetchers : given[f] # Nothing => given[f] \in Published
    /\ \A i, j \in 1 .. Len(rows) : rows[i].key_id = rows[j].key_id => i = j

(* Calls that are under way together have overlapped.                      *)
OverlapsNoted ==
    \A c, d \in Calls : UnderWay(c) /\ UnderWay(d) => c = d \/ {c, d} \in overlapped

(* A list s of private keys: of the setup, or of calls whose upload was    *)
(* answered, with ids that differ but for overlapping calls, and every     *)
(* batch b[c] of a call as a whole or not at all.                          *)
Answered == {"persisting", "done", "failed"}

ListOK(s, at, over) ==
    /\ \A i \in 1 .. Len(s) :
           /\ s[i].key_id >= 1
           /\ s[i].by # Setup => at[s[i].by] \in Answered
    /\ \A i, j \in 1 .. Len(s) :
           s[i].key_id = s[j].key_id => i = j \/ {s[i].by, s[j].by} \in over

Whole(s, b) ==
    \A k \in ToSet(s) :
        \/ k \in ToSet(SetupKeys)
        \/ /\ k.by \in Calls
           /\ k \in ToSet(b[k.by])
           /\ ToSet(b[k.by]) \subseteq ToSet(s)

GoodList(s, at, over, b) == ListOK(s, at, over) /\ Whole(s, b)

(* Memory, keys-table and every list on its way there.                     *)
ListsOK ==
    /\ GoodList(privateStore, call, overlapped, batch)
    /\ GoodList(keys_table, call, overlapped, batch)
    /\ \A i \in 1 .. Len(writes) : GoodList(writes[i].keys, call, overlapped, batch)

(* What a call uploads has an id in memory only if the other call's keys   *)
(* came there meanwhile.                                                   *)
Apart(s, t, c, over) ==
    \A p \in 1 .. Len(s) : \A i \in 1 .. Len(t) :
        s[p].key_id = t[i].key_id => {s[p].by, c} \in over

UploadsApart ==
    \A c \in Calls :
        call[c] = "uploading" => Apart(privateStore, batch[c], c, overlapped)

(* Each write holds what the one before it holds, the first what           *)
(* keys-table holds, and memory holds them all; a write brings the keys of *)
(* its own call.                                                           *)
Chained ==
    /\ ToSet(SetupKeys) \subseteq ToSet(keys_table)
    /\ ToSet(keys_table) \subseteq ToSet(privateStore)
    /\ \A i \in 1 .. Len(writes) :
           /\ ToSet(keys_table) \subseteq ToSet(writes[i].keys)
           /\ ToSet(writes[i].keys) \subseteq ToSet(privateStore)
           /\ call[writes[i].by] = "done"
           /\ ToSet(batch[writes[i].by]) \subseteq ToSet(writes[i].keys)
    /\ \A i, j \in 1 .. Len(writes) :
           i <= j => ToSet(writes[i].keys) \subseteq ToSet(writes[j].keys)

(* A batch that was answered is in memory while its call is about to read  *)
(* keys-table, and afterwards being written, saved, or known to be at risk.*)
Written(c) == \E i \in 1 .. Len(writes) : writes[i].by = c

Accounted ==
    \A c \in Calls :
        /\ call[c] = "persisting" => ToSet(batch[c]) \subseteq ToSet(privateStore)
        /\ call[c] \in {"done", "failed"} =>
               \/ c \in unsaved
               \/ Written(c)
               \/ ToSet(batch[c]) \subseteq ToSet(keys_table)

MemoryOK == OverlapsNoted /\ ListsOK /\ UploadsApart /\ Chained /\ Accounted

-----------------------------------------------------------------------------
(* A key goes to one sender                                                *)

(* The keys of the setup have the ids 1 to InitialKeys in order            *)
(* (uploadDevice's loop), so no two of them have one id.                   *)
LEMMA SetupKeysShape ==
    /\ SetupKeys \in Seq(PreKey)
    /\ Len(SetupKeys) = InitialKeys
    /\ \A i \in 1 .. InitialKeys : SetupKeys[i].key_id = i /\ SetupKeys[i].by = Setup
<1>2. InitialKeys \in Nat /\ 1 \in Nat /\ Setup \in Callers
  BY PreKeysAssumption DEF Callers
<1>1. /\ SetupKeys \in Seq(PreKey)
      /\ Len(SetupKeys) = InitialKeys
      /\ \A i \in 1 .. InitialKeys : SetupKeys[i] = Key(1 + i - 1, Setup)
  BY <1>2, BatchShape DEF SetupKeys
<1>3. QED
  BY <1>1, <1>2 DEF Key

(* After the setup the table holds what the setup uploaded, and nobody has *)
(* been given a key yet.                                                   *)
LEMMA InitTable == Init => BatchesOK /\ TableOK /\ GivenOnce
<1> SUFFICES ASSUME Init PROVE BatchesOK /\ TableOK /\ GivenOnce
  OBVIOUS
<1>1. BatchesOK
  <2>1. \A c \in Calls : batch[c] = <<>> /\ inserted[c] = 0
    BY DEF Init
  <2>2. \A c \in Calls : Len(batch[c]) = 0 /\ \A i : i \notin 1 .. Len(batch[c])
    BY <2>1
  <2>3. ASSUME NEW c \in Calls PROVE BatchOK(c)
    <3>1. 0 <= 0
      OBVIOUS
    <3>2. QED
      BY <2>1, <2>2, <3>1 DEF BatchOK
  <2>4. QED
    BY <2>3 DEF BatchesOK
<1>2. \A f \in Fetchers : given[f] = Nothing
  BY DEF Init
<1>3. TableOK
  <2>2. rows = SetupKeys
    BY DEF Init, SetupKeys
  <2>3. /\ Len(SetupKeys) = InitialKeys
        /\ \A i \in 1 .. InitialKeys : SetupKeys[i].key_id = i
    BY SetupKeysShape
  <2>4. \A i, j \in 1 .. Len(rows) : rows[i].key_id = rows[j].key_id => i = j
    BY <2>2, <2>3
  <2>5. QED
    BY <1>2, <2>2, <2>4 DEF TableOK, Published
<1>4. QED
  BY <1>1, <1>2, <1>3 DEF GivenOnce

(* A step that changes neither batches nor what is inserted, and does not  *)
(* take a call back to before its batch.                                   *)
LEMMA BatchesKept ==
    ASSUME BatchesOK, UNCHANGED <<batch, inserted>>,
           \A c \in Calls : call'[c] \in {"not started", "counting", "counted"} =>
                                call[c] \in {"not started", "counting", "counted"}
    PROVE  BatchesOK'
<1>1. ASSUME NEW c \in Calls PROVE BatchOK(c)'
  <2>1. BatchOK(c)
    BY DEF BatchesOK
  <2>2. batch'[c] = batch[c] /\ inserted'[c] = inserted[c]
    OBVIOUS
  <2>3. call'[c] \in {"not started", "counting", "counted"} => batch'[c] = <<>>
    BY <2>1, <2>2 DEF BatchOK
  <2>4. inserted'[c] <= Len(batch'[c])
    BY <2>1, <2>2 DEF BatchOK
  <2>5. /\ \A i \in 1 .. Len(batch[c]) :
              /\ batch[c][i].by = c
              /\ batch[c][i].key_id >= 1
              /\ \A j \in 1 .. Len(batch[c]) :
                    batch[c][i].key_id = batch[c][j].key_id => i = j
    BY <2>1 DEF BatchOK
  <2>6. QED
    BY <2>2, <2>3, <2>4, <2>5 DEF BatchOK
<1>2. QED
  BY <1>1 DEF BatchesOK

(* A call's batch begins above every id of its device that it knew, in     *)
(* whichever order its awaits and those of the other calls end.            *)
LEMMA BatchesStep == TypeOK /\ BatchesOK /\ [Next]_vars => BatchesOK'
<1> SUFFICES ASSUME TypeOK, BatchesOK, [Next]_vars PROVE BatchesOK'
  OBVIOUS
<1>0. call \in [Calls -> CallStates]
  BY DEF TypeOK, CallStates
<1>1. ASSUME NEW c \in Calls, Start(c) \/ Count(c) \/ Uploaded(c) \/ Persist(c) \/ CallFails(c)
      PROVE  BatchesOK'
  <2>1. UNCHANGED <<batch, inserted>>
    BY <1>1 DEF Start, Count, Uploaded, Persist, CallFails
  <2>2. PICK to \in CallStates :
            /\ Goes(c, to)
            /\ to \in {"not started", "counting", "counted"} =>
                   call[c] \in {"not started", "counting", "counted"}
    BY <1>1 DEF Start, Count, Uploaded, Persist, CallFails, EndOf, HasUnsaved, UnderWay, CallStates
  <2>3. QED
    BY <1>0, <2>1, <2>2, BatchesKept DEF Goes
<1>2. ASSUME Reload PROVE BatchesOK'
  <2>1. UNCHANGED <<batch, inserted>>
    BY <1>2 DEF Reload
  <2>2. ASSUME NEW c \in Calls, call'[c] \in {"not started", "counting", "counted"}
        PROVE  call[c] \in {"not started", "counting", "counted"}
    BY <1>2, <2>2 DEF Reload, EndOf, UnderWay
  <2>3. QED
    BY <2>1, <2>2, BatchesKept
<1>3. ASSUME NEW c \in Calls, Counted(c) PROVE BatchesOK'
  <2>1. CASE UNCHANGED batch
    <3>1. UNCHANGED <<batch, inserted>> /\ (Goes(c, "done") \/ Goes(c, "uploading"))
      BY <1>3, <2>1 DEF Counted
    <3>2. QED
      BY <1>0, <1>3, <2>1, <3>1, BatchesKept DEF Goes, Counted
  <2>2. CASE /\ Goes(c, "uploading")
             /\ batch' = [batch EXCEPT ![c] = OPKBatch(NextId(c), OPK_REPLENISH_COUNT, c)]
    <3> DEFINE b == OPKBatch(NextId(c), OPK_REPLENISH_COUNT, c)
    <3>1. /\ Len(b) = OPK_REPLENISH_COUNT
          /\ \A i \in 1 .. OPK_REPLENISH_COUNT : b[i] = Key(NextId(c) + i - 1, c)
          /\ NextId(c) \in Nat /\ NextId(c) >= 1
          /\ OPK_REPLENISH_COUNT \in Nat
      BY NextIdIsNew, BatchShape, PreKeysAssumption DEF Callers
    <3>2. \A i \in 1 .. Len(b) :
              /\ b[i].by = c
              /\ b[i].key_id >= 1
              /\ \A j \in 1 .. Len(b) : b[i].key_id = b[j].key_id => i = j
      BY <3>1 DEF Key
    <3> HIDE DEF b
    <3>3. inserted' = inserted /\ inserted[c] \in Nat /\ call[c] = "counted"
      BY <1>3 DEF Counted, TypeOK
    <3>4. inserted[c] <= Len(b)
      <4>1. batch[c] = <<>> /\ inserted[c] <= Len(batch[c])
        BY <3>3 DEF BatchesOK, BatchOK
      <4>2. QED
        BY <3>1, <3>3, <4>1
    <3>5. batch \in [Calls -> Seq(PreKey)]
      BY DEF TypeOK
    <3>6. /\ batch'[c] = b /\ call'[c] = "uploading"
          /\ \A d \in Calls \ {c} : batch'[d] = batch[d] /\ call'[d] = call[d]
      BY <1>0, <2>2, <3>5 DEF Goes, b
    <3>7. ASSUME NEW d \in Calls PROVE BatchOK(d)'
      <4>1. CASE d = c
        BY <3>2, <3>3, <3>4, <3>6, <4>1 DEF BatchOK
      <4>2. CASE d # c
        <5>1. UNCHANGED <<batch[d], call[d], inserted[d]>> /\ BatchOK(d)
          BY <3>3, <3>6, <4>2 DEF BatchesOK
        <5>2. QED
          BY <5>1 DEF BatchOK
      <4>3. QED
        BY <4>1, <4>2
    <3>8. QED
      BY <3>7 DEF BatchesOK, BatchOK
  <2>3. QED
    BY <1>3, <2>1, <2>2 DEF Counted
<1>4. ASSUME NEW c \in Calls, InsertNext(c) PROVE BatchesOK'
  <2>1. /\ batch' = batch /\ call' = call
        /\ inserted' = [inserted EXCEPT ![c] = @ + 1]
        /\ inserted[c] < Len(batch[c])
    BY <1>4 DEF InsertNext
  <2>2. inserted \in [Calls -> Nat] /\ batch[c] \in Seq(PreKey)
    BY DEF TypeOK
  <2>3. /\ inserted'[c] <= Len(batch[c])
        /\ \A d \in Calls \ {c} : inserted'[d] = inserted[d]
    BY <2>1, <2>2
  <2>4. ASSUME NEW d \in Calls PROVE BatchOK(d)'
    <3>1. CASE d = c
      <4>1. UNCHANGED <<batch[c], call[c]>> /\ BatchOK(c)
        BY <2>1 DEF BatchesOK
      <4>2. inserted'[c] <= Len(batch'[c])
        BY <2>3, <4>1
      <4>3. BatchOK(c)'
        BY <4>1, <4>2 DEF BatchOK
      <4>4. QED
        BY <3>1, <4>3
    <3>2. CASE d # c
      BY <2>1, <2>3, <3>2 DEF BatchesOK, BatchOK
    <3>3. QED
      BY <3>1, <3>2
  <2>5. QED
    BY <2>4 DEF BatchesOK, BatchOK
<1>5. ASSUME UNCHANGED <<batch, inserted, call>> PROVE BatchesOK'
  BY <1>5, BatchesKept
<1>6. ASSUME NEW f \in Fetchers,
             FetchOldest(f) \/ FetchAny(f) \/ Answer(f) \/ ReceiveInit(f)
      PROVE  UNCHANGED <<batch, inserted, call>>
  BY <1>6 DEF FetchOldest, FetchAny, ChooseRow, Answer, ReceiveInit, callVars
<1>7. CASE UNCHANGED vars
  BY <1>5, <1>7 DEF vars
<1>8. ASSUME WriteCommits \/ WriteFails PROVE UNCHANGED <<batch, inserted, call>>
  BY <1>8 DEF WriteCommits, WriteFails
<1>9. QED
  BY <1>1, <1>2, <1>3, <1>4, <1>5, <1>6, <1>7, <1>8 DEF Next, DeviceStep, ServerStep

(* Steps that insert nothing publish nothing.                              *)
LEMMA PublishedKept ==
    ASSUME TypeOK, BatchesOK, Next \/ UNCHANGED vars, ~ \E c \in Calls : InsertNext(c)
    PROVE  Published' = Published
<1>1. ASSUME NEW c \in Calls PROVE inserted'[c] = inserted[c]
  BY DEF Next, DeviceStep, ServerStep, Start, Count, Counted, Uploaded, Persist,
         CallFails, WriteCommits, WriteFails, Reload, FetchOldest, FetchAny, ChooseRow, Answer, ReceiveInit,
         callVars, vars
<1>2. ASSUME NEW c \in Calls, batch'[c] # batch[c] PROVE inserted[c] = 0
  <2>1. batch \in [Calls -> Seq(PreKey)] /\ inserted[c] \in Nat
    BY DEF TypeOK
  <2>2. UNCHANGED batch \/ \E d \in Calls : Counted(d)
    BY DEF Next, DeviceStep, ServerStep, Start, Count, Uploaded, Persist,
           CallFails, WriteCommits, WriteFails, Reload, FetchOldest, FetchAny, ChooseRow, Answer, ReceiveInit,
           callVars, vars
  <2>3. call[c] = "counted"
    BY <1>2, <2>1, <2>2 DEF Counted
  <2>4. batch[c] = <<>> /\ inserted[c] <= Len(batch[c])
    BY <2>3 DEF BatchesOK, BatchOK
  <2>5. QED
    BY <2>1, <2>4
<1>3. ASSUME NEW c \in Calls, NEW i \in 1 .. inserted[c]
      PROVE  batch'[c][i] = batch[c][i]
  <2>1. inserted[c] # 0
    <3>1. inserted[c] \in Nat
      BY DEF TypeOK
    <3>2. QED
      BY <3>1
  <2>2. QED
    BY <1>2, <2>1
<1>4. QED
  BY <1>1, <1>3 DEF Published

(* An insertion publishes a key that was not published before.             *)
LEMMA InsertPublishes ==
    ASSUME TypeOK, BatchesOK, NEW c \in Calls, InsertNext(c)
    PROVE  LET k == batch[c][inserted[c] + 1] IN
           /\ k \in PreKey
           /\ k # Nothing
           /\ k \notin Published
           /\ k \in Published'
           /\ Published \subseteq Published'
<1> DEFINE k == batch[c][inserted[c] + 1]
<1>1. /\ batch' = batch /\ inserted' = [inserted EXCEPT ![c] = @ + 1]
      /\ inserted[c] < Len(batch[c])
  BY DEF InsertNext
<1>2. inserted \in [Calls -> Nat] /\ batch[c] \in Seq(PreKey)
  BY DEF TypeOK
<1>3. inserted[c] + 1 \in 1 .. Len(batch[c]) /\ k \in PreKey
  BY <1>1, <1>2
<1>4. k.by = c /\ k.key_id >= 1
  BY <1>3 DEF BatchesOK, BatchOK
<1>5. k # Nothing
  BY <1>4, PreKeysAssumption DEF Nothing
<1>6. k \notin Published
  <2>1. k \notin ToSet(SetupKeys)
    <3>1. k \in ToSet(SetupKeys) <=> \E i \in 1 .. Len(SetupKeys) : SetupKeys[i] = k
      BY SetupKeysShape, ElementsOf
    <3>2. QED
      BY <1>4, <3>1, SetupKeysShape, PreKeysAssumption
  <2>2. ASSUME NEW d \in Calls, NEW i \in 1 .. inserted[d], k = batch[d][i] PROVE FALSE
    <3>1. inserted[d] \in Nat /\ batch[d] \in Seq(PreKey) /\ inserted[d] <= Len(batch[d])
      BY DEF TypeOK, BatchesOK, BatchOK
    <3>2. i \in 1 .. Len(batch[d])
      BY <3>1
    <3>3. d = c
      <4>1. batch[d][i].by = d
        BY <3>2 DEF BatchesOK, BatchOK
      <4>2. QED
        BY <1>4, <2>2, <4>1
    <3>4. i = inserted[c] + 1
      <4>1. batch[c][i].key_id = batch[c][inserted[c] + 1].key_id
        BY <2>2, <3>3
      <4>2. QED
        BY <1>3, <3>2, <3>3, <4>1 DEF BatchesOK, BatchOK
    <3>5. QED
      BY <1>2, <3>3, <3>4
  <2>3. QED
    BY <2>1, <2>2 DEF Published
<1>7. k \in Published'
  <2>1. inserted'[c] = inserted[c] + 1 /\ inserted[c] + 1 \in 1 .. inserted'[c]
    BY <1>1, <1>2
  <2>2. k = batch'[c][inserted[c] + 1]
    BY <1>1
  <2>3. QED
    BY <1>3, <2>1, <2>2 DEF Published
<1>8. Published \subseteq Published'
  <2>1. \A d \in Calls : \A i \in 1 .. inserted[d] : i \in 1 .. inserted'[d]
    BY <1>1, <1>2
  <2>2. QED
    BY <1>1, <2>1 DEF Published
<1>9. QED
  BY <1>3, <1>5, <1>6, <1>7, <1>8

(* No step puts a key into the table again that was given out, and none    *)
(* gives one key to two senders: the second DELETE finds the row gone.     *)
LEMMA TableStep ==
    TypeOK /\ BatchesOK /\ TableOK /\ GivenOnce /\ [Next]_vars => TableOK' /\ GivenOnce'
<1> SUFFICES ASSUME TypeOK, BatchesOK, TableOK, GivenOnce, [Next]_vars
             PROVE  TableOK' /\ GivenOnce'
  OBVIOUS
<1>0. rows \in Seq(PreKey)
  BY DEF TypeOK
<1>1. ASSUME NEW c \in Calls, InsertNext(c) PROVE TableOK' /\ GivenOnce'
  <2> DEFINE k == batch[c][inserted[c] + 1]
  <2>1. /\ k \in PreKey /\ k # Nothing /\ k \notin Published
        /\ k \in Published' /\ Published \subseteq Published'
    BY <1>1, InsertPublishes
  <2>2. given' = given
    BY <1>1 DEF InsertNext, fetchVars
  <2>3. rows' = rows \/ (rows' = Append(rows, k) /\ k.key_id \notin IdsOf(rows))
    BY <1>1 DEF InsertNext
  <2> HIDE DEF k
  <2>4. CASE rows' = rows
    BY <2>1, <2>2, <2>4 DEF TableOK, GivenOnce, HasRow
  <2>5. CASE rows' = Append(rows, k) /\ k.key_id \notin IdsOf(rows)
    <3>1. /\ Len(rows') = Len(rows) + 1
          /\ \A i \in 1 .. Len(rows) : rows'[i] = rows[i]
          /\ rows'[Len(rows) + 1] = k
          /\ ToSet(rows') = ToSet(rows) \cup {k}
      BY <1>0, <2>1, <2>5, AppendElements
    <3>2. \A i \in 1 .. Len(rows) : rows[i].key_id # k.key_id
      BY <1>0, <2>5, ElementsOf DEF IdsOf
    <3>3. ASSUME NEW i \in 1 .. Len(rows'), NEW j \in 1 .. Len(rows'),
                 rows'[i].key_id = rows'[j].key_id
          PROVE  i = j
      <4>1. Len(rows) \in Nat
        BY <1>0
      <4>2. i \in 1 .. Len(rows) \/ i = Len(rows) + 1
        BY <3>1, <4>1
      <4>3. j \in 1 .. Len(rows) \/ j = Len(rows) + 1
        BY <3>1, <4>1
      <4>4. QED
        BY <3>1, <3>2, <3>3, <4>2, <4>3 DEF TableOK
    <3>4. TableOK'
      BY <2>1, <2>2, <3>1, <3>3 DEF TableOK
    <3>5. \A f \in Fetchers : given[f] # Nothing => given[f] # k
      BY <2>1 DEF TableOK
    <3>6. QED
      BY <2>2, <3>1, <3>4, <3>5 DEF GivenOnce, HasRow
  <2>6. QED
    BY <2>3, <2>4, <2>5
<1>2. ASSUME NEW f \in Fetchers, Answer(f) PROVE TableOK' /\ GivenOnce'
  <2> DEFINE k == chosen[f]
  <2>1. /\ given' = [given EXCEPT ![f] = DeletedRow(k)]
        /\ rows' = RemoveFirst(rows, k)
    BY <1>2 DEF Answer
  <2>2. given \in [Fetchers -> PreKey]
    BY DEF TypeOK
  <2>3. Published' = Published
    <3>1. ~ \E c \in Calls : InsertNext(c)
      <4>1. \A c \in Calls : InsertNext(c) => given' = given /\ fetch' = fetch
        BY DEF InsertNext, fetchVars
      <4>2. fetch[f] = "choosing" /\ fetch' = [fetch EXCEPT ![f] = "answered"]
            /\ fetch \in [Fetchers -> {"not started", "choosing", "answered"}]
        BY <1>2 DEF Answer, TypeOK
      <4>3. fetch'[f] # fetch[f]
        BY <4>2
      <4>4. QED
        BY <4>1, <4>3
    <3>2. QED
      BY <3>1, PublishedKept
  <2>4. \A i, j \in 1 .. Len(rows) : rows[i] = rows[j] => i = j
    BY DEF TableOK
  <2>5. rows' \in Seq(PreKey) /\ ToSet(rows') = ToSet(rows) \ {k}
    BY <1>0, <2>1, <2>4, RemoveFirstElements
  <2>6. ASSUME NEW i \in 1 .. Len(rows'), NEW j \in 1 .. Len(rows'),
               rows'[i].key_id = rows'[j].key_id
        PROVE  i = j
    <3>1. rows'[i] \in ToSet(rows) /\ rows'[j] \in ToSet(rows)
      BY <2>5, ElementsOf
    <3>2. rows'[i] = rows'[j]
      BY <1>0, <2>6, <3>1, ElementsOf DEF TableOK
    <3>3. QED
      BY <1>0, <2>1, <2>4, <3>2, RemoveFirstElements
  <2>7. DeletedRow(k) # Nothing => DeletedRow(k) = k /\ k \in ToSet(rows)
    BY DEF DeletedRow, HasRow
  <2> HIDE DEF k
  <2>8. /\ given'[f] = DeletedRow(k)
        /\ \A g \in Fetchers \ {f} : given'[g] = given[g]
    BY <2>1, <2>2
  <2>9. TableOK'
    <3>1. \A g \in Fetchers : given'[g] # Nothing => given'[g] \in Published
      BY <2>7, <2>8 DEF TableOK
    <3>2. ToSet(rows') \subseteq Published
      BY <2>5 DEF TableOK
    <3>3. QED
      BY <2>3, <2>6, <3>1, <3>2 DEF TableOK
  <2>10. GivenOnce'
    <3> SUFFICES ASSUME NEW g \in Fetchers, NEW h \in Fetchers, given'[g] # Nothing
                 PROVE  given'[g] \notin ToSet(rows') /\ (g # h => given'[h] # given'[g])
      BY DEF GivenOnce, HasRow
    <3>1. CASE g = f
      BY <2>5, <2>7, <2>8, <3>1 DEF GivenOnce, HasRow
    <3>2. CASE g # f
      BY <2>5, <2>7, <2>8, <3>2 DEF GivenOnce, HasRow
    <3>3. QED
      BY <3>1, <3>2
  <2>11. QED
    BY <2>9, <2>10
<1>3. CASE ~ (\E c \in Calls : InsertNext(c)) /\ ~ (\E f \in Fetchers : Answer(f))
  <2>1. rows' = rows /\ given' = given
    BY <1>3 DEF Next, DeviceStep, ServerStep, Start, Count, Counted, Uploaded, Persist,
                CallFails, WriteCommits, WriteFails, Reload, FetchOldest, FetchAny, ChooseRow, ReceiveInit,
                fetchVars, vars
  <2>2. Published' = Published
    BY <1>3, PublishedKept
  <2>3. QED
    BY <2>1, <2>2 DEF TableOK, GivenOnce, HasRow
<1>4. QED
  BY <1>1, <1>2, <1>3

(* A one-time prekey goes to one sender only, and a key given out is not   *)
(* in the table: GivenOnce is an invariant, whoever fetches at once.       *)
THEOREM KeysGoToOneSender == Spec => []GivenOnce
<1> DEFINE I == TypeOK /\ BatchesOK /\ TableOK /\ GivenOnce
<1>1. Init => I
  BY InitTypes, InitTable
<1>2. I /\ [Next]_vars => I'
  BY TypeStep, BatchesStep, TableStep
<1>3. I => GivenOnce
  OBVIOUS
<1>4. QED
  BY <1>1, <1>2, <1>3, PTL DEF Spec

-----------------------------------------------------------------------------
(* The private keys in memory and in IndexedDB                             *)

(* A list stays right when more calls overlap and none is taken back.      *)
LEMMA ListStaysRight ==
    ASSUME NEW s \in Seq(PreKey), NEW at, NEW at2, NEW over, NEW over2,
           ListOK(s, at, over), over \subseteq over2,
           \A c \in Calls : at[c] \in Answered => at2[c] \in Answered
    PROVE  ListOK(s, at2, over2)
<1>1. \A i \in 1 .. Len(s) : s[i].by \in Calls \cup {Setup}
  <2>1. \A k \in PreKey : k.by \in Calls \cup {Setup}
    BY DEF PreKey
  <2>2. QED
    BY <2>1
<1>2. QED
  BY <1>1 DEF ListOK

(* An answered batch joins the list.                                       *)
LEMMA ListGrows ==
    ASSUME NEW s \in Seq(PreKey), NEW t \in Seq(PreKey), NEW c \in Calls,
           NEW at, NEW over,
           ListOK(s, at, over), at[c] \in Answered, Apart(s, t, c, over),
           \A i \in 1 .. Len(t) :
               /\ t[i].by = c
               /\ t[i].key_id >= 1
               /\ \A j \in 1 .. Len(t) : t[i].key_id = t[j].key_id => i = j
    PROVE  ListOK(s \o t, at, over)
<1> DEFINE u == s \o t
<1>1. /\ u \in Seq(PreKey)
      /\ Len(u) = Len(s) + Len(t)
      /\ \A i \in 1 .. Len(s) : u[i] = s[i]
      /\ \A i \in 1 .. Len(t) : u[Len(s) + i] = t[i]
  BY ConcatElements
<1>2. Len(s) \in Nat /\ Len(t) \in Nat
  OBVIOUS
<1> HIDE DEF u
<1>3. ASSUME NEW i \in 1 .. Len(u)
      PROVE  \/ i \in 1 .. Len(s) /\ u[i] = s[i]
             \/ \E k \in 1 .. Len(t) : i = Len(s) + k /\ u[i] = t[k]
  <2>1. CASE i <= Len(s)
    BY <1>1, <1>2, <2>1
  <2>2. CASE i > Len(s)
    <3>1. i - Len(s) \in 1 .. Len(t) /\ i = Len(s) + (i - Len(s))
      BY <1>1, <1>2, <2>2
    <3>2. QED
      BY <1>1, <3>1
  <2>3. i <= Len(s) \/ i > Len(s)
    BY <1>2
  <2>4. QED
    BY <2>1, <2>2, <2>3
<1>4. ASSUME NEW i \in 1 .. Len(u)
      PROVE  u[i].key_id >= 1 /\ (u[i].by # Setup => at[u[i].by] \in Answered)
  <2>1. CASE i \in 1 .. Len(s) /\ u[i] = s[i]
    BY <2>1 DEF ListOK
  <2>2. CASE \E k \in 1 .. Len(t) : i = Len(s) + k /\ u[i] = t[k]
    BY <2>2
  <2>3. QED
    BY <1>3, <2>1, <2>2
<1>5. ASSUME NEW i \in 1 .. Len(u), NEW j \in 1 .. Len(u), u[i].key_id = u[j].key_id
      PROVE  i = j \/ {u[i].by, u[j].by} \in over
  <2>1. CASE i \in 1 .. Len(s) /\ u[i] = s[i] /\ j \in 1 .. Len(s) /\ u[j] = s[j]
    BY <1>5, <2>1 DEF ListOK
  <2>2. CASE /\ i \in 1 .. Len(s) /\ u[i] = s[i]
             /\ \E k \in 1 .. Len(t) : j = Len(s) + k /\ u[j] = t[k]
    BY <1>5, <2>2 DEF Apart
  <2>3. CASE /\ j \in 1 .. Len(s) /\ u[j] = s[j]
             /\ \E k \in 1 .. Len(t) : i = Len(s) + k /\ u[i] = t[k]
    <3>1. {u[j].by, c} \in over /\ u[i].by = c
      BY <1>5, <2>3 DEF Apart
    <3>2. {u[i].by, u[j].by} = {u[j].by, c}
      BY <3>1
    <3>3. QED
      BY <3>1, <3>2
  <2>4. CASE /\ \E k \in 1 .. Len(t) : i = Len(s) + k /\ u[i] = t[k]
             /\ \E k \in 1 .. Len(t) : j = Len(s) + k /\ u[j] = t[k]
    BY <1>5, <2>4
  <2>5. QED
    BY <1>3, <2>1, <2>2, <2>3, <2>4
<1>6. QED
  BY <1>4, <1>5 DEF ListOK, u

(* A good list stays good when more calls overlap, none is taken back, and *)
(* no answered batch changes.                                              *)
LEMMA GoodStaysGood ==
    ASSUME NEW s \in Seq(PreKey), NEW at, NEW at2, NEW over, NEW over2, NEW b, NEW b2,
           GoodList(s, at, over, b), over \subseteq over2,
           \A c \in Calls : at[c] \in Answered => at2[c] \in Answered /\ b2[c] = b[c]
    PROVE  GoodList(s, at2, over2, b2)
<1>1. ListOK(s, at, over) /\ Whole(s, b)
  BY DEF GoodList
<1>2. ListOK(s, at2, over2)
  BY <1>1, ListStaysRight
<1>3. ASSUME NEW k \in ToSet(s), k.by \in Calls PROVE b2[k.by] = b[k.by]
  <2>1. PICK i \in 1 .. Len(s) : s[i] = k
    BY ElementsOf
  <2>2. at[k.by] \in Answered
    BY <1>1, <1>3, <2>1, PreKeysAssumption DEF ListOK
  <2>3. QED
    BY <1>3, <2>2
<1>4. Whole(s, b2)
  BY <1>1, <1>3 DEF Whole
<1>5. QED
  BY <1>2, <1>4 DEF GoodList

(* What no step takes back: a call once answered stays so and keeps its    *)
(* batch, and calls that overlapped have done so for good.                 *)
AnsweredKept ==
    /\ \A c \in Calls : call[c] \in Answered =>
           call'[c] \in Answered /\ batch'[c] = batch[c]
    /\ overlapped \subseteq overlapped'

LEMMA AnsweredStays ==
    ASSUME TypeOK, [Next]_vars
    PROVE  AnsweredKept
<1>0. call \in [Calls -> CallStates] /\ batch \in [Calls -> Seq(PreKey)]
  BY DEF TypeOK, CallStates
<1>1. ASSUME UNCHANGED <<call, batch, overlapped>> PROVE AnsweredKept
  BY <1>1 DEF AnsweredKept
<1>2. ASSUME NEW c \in Calls, Start(c) PROVE AnsweredKept
  BY <1>0, <1>2 DEF AnsweredKept, Start, Goes, Answered
<1>3. ASSUME NEW c \in Calls, Count(c) PROVE AnsweredKept
  BY <1>0, <1>3 DEF AnsweredKept, Count, Goes, Answered
<1>4. ASSUME NEW c \in Calls, Counted(c) PROVE AnsweredKept
  <2>1. call[c] \notin Answered /\ overlapped' = overlapped
    BY <1>4 DEF Counted, Answered
  <2>2. \A d \in Calls \ {c} : call'[d] = call[d] /\ batch'[d] = batch[d]
    BY <1>0, <1>4 DEF Counted, Goes
  <2>3. QED
    BY <2>1, <2>2 DEF AnsweredKept
<1>5. ASSUME NEW c \in Calls, Uploaded(c) \/ Persist(c) PROVE AnsweredKept
  BY <1>0, <1>5 DEF AnsweredKept, Uploaded, Persist, Goes, Answered
<1>6. ASSUME NEW c \in Calls, CallFails(c) PROVE AnsweredKept
  BY <1>0, <1>6 DEF AnsweredKept, CallFails, Goes, Answered, EndOf, HasUnsaved, UnderWay
<1>7. ASSUME Reload PROVE AnsweredKept
  BY <1>0, <1>7 DEF AnsweredKept, Reload, Answered, EndOf, HasUnsaved
<1>8. ASSUME NEW c \in Calls, InsertNext(c) PROVE AnsweredKept
  BY <1>1, <1>8 DEF InsertNext
<1>9. ASSUME NEW f \in Fetchers,
             FetchOldest(f) \/ FetchAny(f) \/ Answer(f) \/ ReceiveInit(f)
      PROVE  AnsweredKept
  <2>1. UNCHANGED <<call, batch, overlapped>>
    BY <1>9 DEF FetchOldest, FetchAny, ChooseRow, Answer, ReceiveInit, callVars
  <2>2. QED
    BY <1>1, <2>1
<1>10. ASSUME WriteCommits \/ WriteFails PROVE AnsweredKept
  BY <1>1, <1>10 DEF WriteCommits, WriteFails
<1>11. CASE UNCHANGED vars
  BY <1>1, <1>11 DEF vars
<1>12. QED
  BY <1>2, <1>3, <1>4, <1>5, <1>6, <1>7, <1>8, <1>9, <1>10, <1>11
     DEF Next, DeviceStep, ServerStep

(* A list of now is still good after a step.                               *)
LEMMA GoodAfterStep ==
    ASSUME TypeOK, [Next]_vars, NEW s \in Seq(PreKey),
           GoodList(s, call, overlapped, batch)
    PROVE  GoodList(s, call', overlapped', batch')
BY AnsweredStays, GoodStaysGood DEF AnsweredKept

(* The types that the memory steps need.                                   *)
LEMMA MemoryTypes ==
    ASSUME TypeOK
    PROVE  /\ call \in [Calls -> CallStates]
           /\ privateStore \in Seq(PreKey) /\ keys_table \in Seq(PreKey)
           /\ batch \in [Calls -> Seq(PreKey)]
           /\ writes \in Seq(Write)
           /\ Len(writes) \in Nat
           /\ \A i \in 1 .. Len(writes) :
                  /\ writes[i] \in Write
                  /\ writes[i].by \in Calls
                  /\ writes[i].keys \in Seq(PreKey)
<1>1. /\ call \in [Calls -> CallStates]
      /\ privateStore \in Seq(PreKey) /\ keys_table \in Seq(PreKey)
      /\ batch \in [Calls -> Seq(PreKey)]
      /\ writes \in Seq(Write)
  BY DEF TypeOK, CallStates
<1>2. Len(writes) \in Nat /\ \A i \in 1 .. Len(writes) : writes[i] \in Write
  BY <1>1
<1>3. \A w \in Write : w.by \in Calls /\ w.keys \in Seq(PreKey)
  BY DEF Write
<1>4. QED
  BY <1>1, <1>2, <1>3

(* After the setup what memory and IndexedDB hold is what was uploaded.    *)
LEMMA InitMemory == Init => MemoryOK
<1> SUFFICES ASSUME Init PROVE MemoryOK
  OBVIOUS
<1>1. /\ privateStore = SetupKeys /\ keys_table = SetupKeys
      /\ \A c \in Calls : call[c] = "not started"
      /\ writes = <<>>
  BY DEF Init, SetupKeys
<1>2. ListOK(SetupKeys, call, overlapped) /\ Whole(SetupKeys, batch)
  BY SetupKeysShape DEF ListOK, Whole
<1>3. OverlapsNoted /\ UploadsApart
  BY <1>1 DEF OverlapsNoted, UnderWay, UploadsApart
<1>4. 1 .. Len(writes) = {}
  <2>1. Len(<<>>) = 0 /\ 1 .. 0 = {}
    OBVIOUS
  <2>2. Len(writes) = 0
    BY <1>1, <2>1
  <2>3. QED
    BY <2>1, <2>2
<1>5. ListsOK
  BY <1>1, <1>2, <1>4 DEF ListsOK, GoodList
<1>6. Chained
  BY <1>1, <1>4 DEF Chained
<1>7. Accounted
  BY <1>1 DEF Accounted
<1>8. QED
  BY <1>3, <1>5, <1>6, <1>7 DEF MemoryOK

(* Only Start makes a call be under way, and it notes the others.          *)
LEMMA OverlapsStep ==
    ASSUME TypeOK, OverlapsNoted, [Next]_vars
    PROVE  OverlapsNoted'
<1>0. call \in [Calls -> CallStates] /\ overlapped \subseteq overlapped'
  BY AnsweredStays, MemoryTypes DEF AnsweredKept
<1>1. ASSUME NEW c \in Calls, Start(c) PROVE OverlapsNoted'
  <2>1. /\ \A d \in Calls : UnderWay(d) => {c, d} \in overlapped'
        /\ call'[c] = "counting"
        /\ \A d \in Calls \ {c} : call'[d] = call[d]
    BY <1>0, <1>1 DEF Start, Goes
  <2>2. SUFFICES ASSUME NEW d \in Calls, NEW e \in Calls, UnderWay(d)', UnderWay(e)', d # e
                 PROVE  {d, e} \in overlapped'
    BY DEF OverlapsNoted
  <2>3. CASE d = c
    <3>1. UnderWay(e)
      BY <2>1, <2>2, <2>3 DEF UnderWay
    <3>2. QED
      BY <2>1, <2>3, <3>1
  <2>4. CASE e = c
    <3>1. UnderWay(d) /\ {d, e} = {c, d}
      BY <2>1, <2>2, <2>4 DEF UnderWay
    <3>2. QED
      BY <2>1, <3>1
  <2>5. CASE d # c /\ e # c
    <3>1. UnderWay(d) /\ UnderWay(e)
      BY <2>1, <2>2, <2>5 DEF UnderWay
    <3>2. QED
      BY <1>0, <2>2, <3>1 DEF OverlapsNoted
  <2>6. QED
    BY <2>3, <2>4, <2>5
<1>2. ASSUME \A d \in Calls : UnderWay(d)' => UnderWay(d) PROVE OverlapsNoted'
  BY <1>0, <1>2 DEF OverlapsNoted
<1>3. ASSUME NEW c \in Calls,
             Count(c) \/ Counted(c) \/ Uploaded(c) \/ Persist(c) \/ CallFails(c)
      PROVE  \A d \in Calls : UnderWay(d)' => UnderWay(d)
  <2>1. UnderWay(c)
    BY <1>3 DEF Count, Counted, Uploaded, Persist, CallFails, UnderWay
  <2>2. PICK to : Goes(c, to)
    BY <1>3 DEF Count, Counted, Uploaded, Persist, CallFails
  <2>3. \A d \in Calls \ {c} : call'[d] = call[d]
    BY <1>0, <2>2 DEF Goes
  <2>4. QED
    BY <2>1, <2>3 DEF UnderWay
<1>4. ASSUME Reload PROVE \A d \in Calls : UnderWay(d)' => UnderWay(d)
  BY <1>4 DEF Reload, UnderWay
<1>5. ASSUME UNCHANGED call PROVE \A d \in Calls : UnderWay(d)' => UnderWay(d)
  BY <1>5 DEF UnderWay
<1>6. ASSUME NEW c \in Calls, InsertNext(c) PROVE UNCHANGED call
  BY <1>6 DEF InsertNext
<1>7. ASSUME NEW f \in Fetchers,
             FetchOldest(f) \/ FetchAny(f) \/ Answer(f) \/ ReceiveInit(f)
      PROVE  UNCHANGED call
  BY <1>7 DEF FetchOldest, FetchAny, ChooseRow, Answer, ReceiveInit, callVars
<1>8. ASSUME WriteCommits \/ WriteFails PROVE UNCHANGED call
  BY <1>8 DEF WriteCommits, WriteFails
<1>9. CASE UNCHANGED vars
  BY <1>2, <1>5, <1>9 DEF vars
<1>10. QED
  BY <1>1, <1>2, <1>3, <1>4, <1>5, <1>6, <1>7, <1>8, <1>9 DEF Next, DeviceStep, ServerStep

(* A step that leaves the lists alone, and neither uploads nor saves.      *)
LEMMA QuietStep ==
    ASSUME TypeOK, MemoryOK, [Next]_vars,
           UNCHANGED <<privateStore, keys_table, writes>>,
           unsaved \subseteq unsaved',
           \A c \in Calls : call[c] = "done" => call'[c] = "done",
           \A c \in Calls : call'[c] = "persisting" => call[c] = "persisting",
           \A c \in Calls : call'[c] \in {"done", "failed"} =>
               call[c] \in {"done", "failed"} \/ batch'[c] = <<>> \/ c \in unsaved',
           \A c \in Calls : call'[c] = "uploading" =>
               Apart(privateStore, batch'[c], c, overlapped)
    PROVE  ListsOK' /\ UploadsApart' /\ Chained' /\ Accounted'
<1> USE DEF MemoryOK
<1>1. /\ \A c \in Calls : call[c] \in Answered => batch'[c] = batch[c]
      /\ overlapped \subseteq overlapped'
  BY AnsweredStays DEF AnsweredKept
<1>2. ListsOK'
  <2>1. /\ GoodList(privateStore, call', overlapped', batch')
        /\ GoodList(keys_table, call', overlapped', batch')
    BY MemoryTypes, GoodAfterStep DEF ListsOK
  <2>2. \A i \in 1 .. Len(writes) :
            GoodList(writes[i].keys, call', overlapped', batch')
    BY MemoryTypes, GoodAfterStep DEF ListsOK
  <2>3. QED
    BY <2>1, <2>2 DEF ListsOK
<1>3. UploadsApart'
  <2>1. ASSUME NEW c \in Calls, call'[c] = "uploading"
        PROVE  Apart(privateStore, batch'[c], c, overlapped')
    <3>1. Apart(privateStore, batch'[c], c, overlapped)
      BY <2>1
    <3>2. QED
      BY <1>1, <3>1 DEF Apart
  <2>2. QED
    BY <2>1 DEF UploadsApart
<1>4. Chained'
  <2>1. ASSUME NEW i \in 1 .. Len(writes)
        PROVE  /\ call'[writes[i].by] = "done"
               /\ ToSet(batch'[writes[i].by]) \subseteq ToSet(writes[i].keys)
    <3>1. writes[i].by \in Calls /\ call[writes[i].by] = "done"
          /\ ToSet(batch[writes[i].by]) \subseteq ToSet(writes[i].keys)
      BY MemoryTypes DEF Chained
    <3>2. QED
      BY <1>1, <3>1 DEF Answered
  <2>2. QED
    BY <2>1 DEF Chained
<1>5. Accounted'
  <2>1. ToSet(<<>>) = {}
    BY DEF ToSet
  <2>2. ASSUME NEW c \in Calls, call'[c] = "persisting"
        PROVE  ToSet(batch'[c]) \subseteq ToSet(privateStore)
    <3>1. call[c] = "persisting"
      BY <2>2
    <3>2. batch'[c] = batch[c]
      BY <1>1, <3>1 DEF Answered
    <3>3. QED
      BY <3>1, <3>2 DEF Accounted
  <2>3. ASSUME NEW c \in Calls, call'[c] \in {"done", "failed"}
        PROVE  c \in unsaved' \/ Written(c) \/ ToSet(batch'[c]) \subseteq ToSet(keys_table)
    <3>1. CASE call[c] \in {"done", "failed"}
      <4>1. batch'[c] = batch[c]
        BY <1>1, <3>1 DEF Answered
      <4>2. QED
        BY <3>1, <4>1 DEF Accounted
    <3>2. CASE batch'[c] = <<>>
      BY <2>1, <3>2
    <3>3. CASE c \in unsaved'
      BY <3>3
    <3>4. QED
      BY <2>3, <3>1, <3>2, <3>3
  <2>4. \A c \in Calls : Written(c)' <=> Written(c)
    BY DEF Written
  <2>5. QED
    BY <2>2, <2>3, <2>4 DEF Accounted
<1>6. QED
  BY <1>2, <1>3, <1>4, <1>5

(* Persist puts all that is in memory at the end of the chain.             *)
LEMMA PersistStep ==
    ASSUME TypeOK, MemoryOK, [Next]_vars, NEW c \in Calls, Persist(c)
    PROVE  ListsOK' /\ UploadsApart' /\ Chained' /\ Accounted'
<1> USE DEF MemoryOK
<1> DEFINE w == [by |-> c, keys |-> privateStore]
<1>0. /\ w \in Write
      /\ w.by = c /\ w.keys = privateStore
      /\ call \in [Calls -> CallStates] /\ writes \in Seq(Write)
  BY MemoryTypes DEF Write
<1>1. /\ UNCHANGED <<privateStore, keys_table, batch, overlapped, unsaved>>
      /\ writes' = Append(writes, w)
      /\ call[c] = "persisting"
      /\ call'[c] = "done"
      /\ \A d \in Calls \ {c} : call'[d] = call[d]
  BY <1>0 DEF Persist, Goes, ListToPersist
<1> HIDE DEF w
<1>2. /\ Len(writes') = Len(writes) + 1 /\ Len(writes) \in Nat
      /\ \A i \in 1 .. Len(writes) : writes'[i] = writes[i]
      /\ writes'[Len(writes) + 1] = w
  BY <1>0, <1>1, AppendElements, MemoryTypes
<1>3. \A i \in 1 .. Len(writes') : i \in 1 .. Len(writes) \/ i = Len(writes) + 1
  BY <1>2
<1>4. ListsOK'
  <2>1. /\ GoodList(privateStore, call', overlapped', batch')
        /\ GoodList(keys_table, call', overlapped', batch')
    BY MemoryTypes, GoodAfterStep DEF ListsOK
  <2>2. \A i \in 1 .. Len(writes) :
            GoodList(writes[i].keys, call', overlapped', batch')
    BY MemoryTypes, GoodAfterStep DEF ListsOK
  <2>3. \A i \in 1 .. Len(writes') : GoodList(writes'[i].keys, call', overlapped', batch')
    BY <1>0, <1>2, <1>3, <2>1, <2>2
  <2>4. QED
    BY <1>1, <2>1, <2>3 DEF ListsOK
<1>5. UploadsApart'
  BY <1>1 DEF UploadsApart
<1>6. Chained'
  <2>1. ToSet(batch[c]) \subseteq ToSet(privateStore)
    BY <1>1 DEF Accounted
  <2>2. ASSUME NEW i \in 1 .. Len(writes')
        PROVE  /\ ToSet(keys_table) \subseteq ToSet(writes'[i].keys)
               /\ ToSet(writes'[i].keys) \subseteq ToSet(privateStore)
               /\ call'[writes'[i].by] = "done"
               /\ ToSet(batch[writes'[i].by]) \subseteq ToSet(writes'[i].keys)
    <3>1. CASE i \in 1 .. Len(writes)
      BY <1>1, <1>2, <3>1, MemoryTypes DEF Chained
    <3>2. CASE i = Len(writes) + 1
      BY <1>0, <1>1, <1>2, <2>1, <3>2 DEF Chained
    <3>3. QED
      BY <1>3, <3>1, <3>2
  <2>3. ASSUME NEW i \in 1 .. Len(writes'), NEW j \in 1 .. Len(writes'), i <= j
        PROVE  ToSet(writes'[i].keys) \subseteq ToSet(writes'[j].keys)
    <3>1. CASE j \in 1 .. Len(writes)
      <4>1. i \in 1 .. Len(writes)
        BY <1>2, <2>3, <3>1
      <4>2. QED
        BY <1>2, <2>3, <3>1, <4>1 DEF Chained
    <3>2. CASE j = Len(writes) + 1
      BY <1>0, <1>2, <2>2, <3>2
    <3>3. QED
      BY <1>3, <3>1, <3>2
  <2>4. QED
    BY <1>1, <2>2, <2>3 DEF Chained
<1>7. Accounted'
  <2>1. Len(writes) + 1 \in 1 .. Len(writes')
    BY <1>2
  <2>2. Written(c)'
    BY <1>0, <1>2, <2>1 DEF Written
  <2>3. \A d \in Calls : Written(d) => Written(d)'
    <3>1. \A i \in 1 .. Len(writes) : i \in 1 .. Len(writes')
      BY <1>2
    <3>2. QED
      BY <1>2, <3>1 DEF Written
  <2>4. QED
    BY <1>1, <2>2, <2>3 DEF Accounted
<1>8. QED
  BY <1>4, <1>5, <1>6, <1>7

(* What remains of the writes when the oldest has been dealt with.         *)
LEMMA TailOfWrites ==
    ASSUME TypeOK, writes # <<>>, writes' = Tail(writes)
    PROVE  /\ 1 \in 1 .. Len(writes) /\ Head(writes) = writes[1]
           /\ Len(writes') \in Nat
           /\ \A i \in 1 .. Len(writes') :
                  i + 1 \in 1 .. Len(writes) /\ writes'[i] = writes[i + 1]
           /\ \A c : Written(c) => Written(c)' \/ c = Head(writes).by
<1>1. /\ Head(writes) = writes[1] /\ 1 \in 1 .. Len(writes)
      /\ Len(writes') = Len(writes) - 1 /\ Len(writes) \in Nat
      /\ \A i \in 1 .. Len(writes) - 1 : writes'[i] = writes[i + 1]
  BY MemoryTypes, TailElements
<1>2. ASSUME NEW c, NEW i \in 1 .. Len(writes), writes[i].by = c, c # Head(writes).by
      PROVE  Written(c)'
  <2>1. i # 1 /\ i - 1 \in 1 .. Len(writes')
    BY <1>1, <1>2
  <2>2. writes'[i - 1] = writes[i]
    BY <1>1, <2>1
  <2>3. QED
    BY <1>2, <2>1, <2>2 DEF Written
<1>3. \A c : Written(c) => Written(c)' \/ c = Head(writes).by
  BY <1>2 DEF Written
<1>4. Len(writes') \in Nat
  BY <1>1
<1>5. \A i \in 1 .. Len(writes') : i + 1 \in 1 .. Len(writes) /\ writes'[i] = writes[i + 1]
  BY <1>1
<1>6. QED
  BY <1>1, <1>3, <1>4, <1>5

(* A write that commits is the next of the chain: it brings more, and the  *)
(* keys of every call of which it has one.                                 *)
LEMMA CommitStep ==
    ASSUME TypeOK, MemoryOK, [Next]_vars, WriteCommits
    PROVE  ListsOK' /\ UploadsApart' /\ Chained' /\ Accounted'
<1> USE DEF MemoryOK
<1> DEFINE s == writes[1].keys
<1>1. /\ UNCHANGED <<privateStore, call, batch, overlapped>>
      /\ writes' = Tail(writes)
      /\ keys_table' = Head(writes).keys
      /\ unsaved' = unsaved \ {k.by : k \in ToSet(keys_table')}
      /\ writes # <<>>
  BY DEF WriteCommits
<1>2. /\ 1 \in 1 .. Len(writes) /\ Head(writes) = writes[1]
      /\ Len(writes') \in Nat
      /\ \A i \in 1 .. Len(writes') :
             i + 1 \in 1 .. Len(writes) /\ writes'[i] = writes[i + 1]
      /\ \A c : Written(c) => Written(c)' \/ c = Head(writes).by
  BY <1>1, TailOfWrites
<1>3. keys_table' = s /\ s \in Seq(PreKey) /\ GoodList(s, call, overlapped, batch)
  BY <1>1, <1>2, MemoryTypes DEF ListsOK
<1>4. ListsOK'
  <2>1. \A i \in 1 .. Len(writes') : GoodList(writes'[i].keys, call, overlapped, batch)
    BY <1>2 DEF ListsOK
  <2>2. QED
    BY <1>1, <1>3, <2>1 DEF ListsOK
<1>5. UploadsApart'
  BY <1>1 DEF UploadsApart
<1>6. Chained'
  <2>1. /\ ToSet(keys_table) \subseteq ToSet(s)
        /\ ToSet(SetupKeys) \subseteq ToSet(s)
        /\ ToSet(s) \subseteq ToSet(privateStore)
    BY <1>2 DEF Chained
  <2>2. ASSUME NEW i \in 1 .. Len(writes')
        PROVE  /\ ToSet(s) \subseteq ToSet(writes'[i].keys)
               /\ ToSet(writes'[i].keys) \subseteq ToSet(privateStore)
               /\ call[writes'[i].by] = "done"
               /\ ToSet(batch[writes'[i].by]) \subseteq ToSet(writes'[i].keys)
    <3>1. 1 <= i + 1 /\ i + 1 \in 1 .. Len(writes) /\ writes'[i] = writes[i + 1]
      BY <1>2
    <3>2. QED
      BY <1>2, <3>1 DEF Chained
  <2>3. ASSUME NEW i \in 1 .. Len(writes'), NEW j \in 1 .. Len(writes'), i <= j
        PROVE  ToSet(writes'[i].keys) \subseteq ToSet(writes'[j].keys)
    <3>1. i + 1 <= j + 1
      BY <1>2, <2>3
    <3>2. QED
      BY <1>2, <3>1 DEF Chained
  <2> HIDE DEF s
  <2>4. QED
    BY <1>1, <1>3, <2>1, <2>2, <2>3 DEF Chained
<1>7. Accounted'
  <2>1. ToSet(keys_table) \subseteq ToSet(s)
    BY <1>2 DEF Chained
  <2>2. ToSet(batch[Head(writes).by]) \subseteq ToSet(s)
    BY <1>2 DEF Chained
  <2> HIDE DEF s
  <2>3. ASSUME NEW c \in Calls, call[c] \in {"done", "failed"}
        PROVE  c \in unsaved' \/ Written(c)' \/ ToSet(batch[c]) \subseteq ToSet(s)
    <3>1. CASE c \in unsaved
      <4>1. CASE \E k \in ToSet(s) : k.by = c
        <5>1. PICK k \in ToSet(s) : k.by = c
          BY <4>1
        <5>2. Whole(s, batch)
          BY <1>3 DEF GoodList
        <5>3. k \notin ToSet(SetupKeys)
          <6>1. k \in ToSet(SetupKeys) => \E i \in 1 .. Len(SetupKeys) : SetupKeys[i] = k
            BY SetupKeysShape, ElementsOf
          <6>2. QED
            BY <5>1, <6>1, SetupKeysShape, PreKeysAssumption
        <5>4. ToSet(batch[c]) \subseteq ToSet(s)
          BY <5>1, <5>2, <5>3 DEF Whole
        <5>5. QED
          BY <5>4
      <4>2. CASE ~ \E k \in ToSet(s) : k.by = c
        BY <1>1, <1>3, <3>1, <4>2
      <4>3. QED
        BY <4>1, <4>2
    <3>2. CASE Written(c)
      BY <1>2, <2>2, <3>2
    <3>3. CASE ToSet(batch[c]) \subseteq ToSet(keys_table)
      BY <2>1, <3>3
    <3>4. QED
      BY <2>3, <3>1, <3>2, <3>3 DEF Accounted
  <2>4. QED
    BY <1>1, <1>3, <2>3 DEF Accounted
<1>8. QED
  BY <1>4, <1>5, <1>6, <1>7

(* A write that fails leaves the chain as it was, less its own link.       *)
LEMMA WriteFailsStep ==
    ASSUME TypeOK, MemoryOK, [Next]_vars, WriteFails
    PROVE  ListsOK' /\ UploadsApart' /\ Chained' /\ Accounted'
<1> USE DEF MemoryOK
<1>1. /\ UNCHANGED <<privateStore, keys_table, call, batch, overlapped>>
      /\ writes' = Tail(writes)
      /\ unsaved' = unsaved \cup {Head(writes).by}
      /\ writes # <<>>
  BY DEF WriteFails
<1>2. /\ \A i \in 1 .. Len(writes') :
             i + 1 \in 1 .. Len(writes) /\ writes'[i] = writes[i + 1]
      /\ \A c : Written(c) => Written(c)' \/ c = Head(writes).by
      /\ Len(writes') \in Nat
  BY <1>1, TailOfWrites
<1>3. ListsOK'
  BY <1>1, <1>2 DEF ListsOK
<1>4. UploadsApart'
  BY <1>1 DEF UploadsApart
<1>5. Chained'
  <2>1. ASSUME NEW i \in 1 .. Len(writes'), NEW j \in 1 .. Len(writes'), i <= j
        PROVE  ToSet(writes'[i].keys) \subseteq ToSet(writes'[j].keys)
    <3>1. i + 1 <= j + 1
      BY <1>2, <2>1
    <3>2. QED
      BY <1>2, <3>1 DEF Chained
  <2>2. \A i \in 1 .. Len(writes') :
            /\ ToSet(keys_table) \subseteq ToSet(writes'[i].keys)
            /\ ToSet(writes'[i].keys) \subseteq ToSet(privateStore)
            /\ call[writes'[i].by] = "done"
            /\ ToSet(batch[writes'[i].by]) \subseteq ToSet(writes'[i].keys)
    BY <1>2 DEF Chained
  <2>3. QED
    BY <1>1, <2>1, <2>2 DEF Chained
<1>6. Accounted'
  BY <1>1, <1>2 DEF Accounted
<1>7. QED
  BY <1>3, <1>4, <1>5, <1>6

(* An answered batch comes to memory behind the other keys, none of which  *)
(* has an id of it but those of overlapping calls.                         *)
LEMMA UploadedStep ==
    ASSUME TypeOK, BatchesOK, MemoryOK, [Next]_vars, NEW c \in Calls, Uploaded(c)
    PROVE  ListsOK' /\ UploadsApart' /\ Chained' /\ Accounted'
<1> USE DEF MemoryOK
<1>1. /\ UNCHANGED <<keys_table, writes, unsaved, batch, overlapped>>
      /\ privateStore' = privateStore \o batch[c]
      /\ call[c] = "uploading"
      /\ call'[c] = "persisting"
      /\ \A d \in Calls \ {c} : call'[d] = call[d]
  BY MemoryTypes DEF Uploaded, Goes, WithPrivates, storeVars
<1>2. privateStore \in Seq(PreKey) /\ batch[c] \in Seq(PreKey)
  BY MemoryTypes
<1>3. /\ Len(privateStore') = Len(privateStore) + Len(batch[c])
      /\ \A i \in 1 .. Len(privateStore) : privateStore'[i] = privateStore[i]
      /\ \A i \in 1 .. Len(batch[c]) : privateStore'[Len(privateStore) + i] = batch[c][i]
      /\ ToSet(privateStore') = ToSet(privateStore) \cup ToSet(batch[c])
  BY <1>1, <1>2, ConcatElements
<1>4. \A i \in 1 .. Len(batch[c]) :
          /\ batch[c][i].by = c
          /\ batch[c][i].key_id >= 1
          /\ \A j \in 1 .. Len(batch[c]) : batch[c][i].key_id = batch[c][j].key_id => i = j
  BY DEF BatchesOK, BatchOK
<1>5. GoodList(privateStore, call', overlapped', batch')
  BY <1>2, GoodAfterStep DEF ListsOK
<1>6. GoodList(privateStore', call', overlapped', batch')
  <2>1. call'[c] \in Answered /\ Apart(privateStore, batch[c], c, overlapped')
    BY <1>1 DEF Answered, UploadsApart
  <2>2. ListOK(privateStore \o batch[c], call', overlapped')
    BY <1>2, <1>4, <1>5, <2>1, ListGrows DEF GoodList
  <2>3. \A k \in ToSet(batch[c]) : k.by = c
    BY <1>2, <1>4, ElementsOf
  <2>4. Whole(privateStore, batch)
    BY DEF ListsOK, GoodList
  <2>5. ASSUME NEW k \in ToSet(privateStore')
        PROVE  \/ k \in ToSet(SetupKeys)
               \/ /\ k.by \in Calls
                  /\ k \in ToSet(batch[k.by])
                  /\ ToSet(batch[k.by]) \subseteq ToSet(privateStore')
    <3>1. CASE k \in ToSet(batch[c])
      BY <1>3, <2>3, <3>1
    <3>2. CASE k \in ToSet(privateStore)
      BY <1>3, <2>4, <3>2 DEF Whole
    <3>3. QED
      BY <1>3, <3>1, <3>2
  <2>6. Whole(privateStore', batch)
    BY <2>5 DEF Whole
  <2>7. QED
    BY <1>1, <2>2, <2>6 DEF GoodList
<1>7. ListsOK'
  <2>1. GoodList(keys_table, call', overlapped', batch')
    BY MemoryTypes, GoodAfterStep DEF ListsOK
  <2>2. \A i \in 1 .. Len(writes) :
            GoodList(writes[i].keys, call', overlapped', batch')
    BY MemoryTypes, GoodAfterStep DEF ListsOK
  <2>3. QED
    BY <1>1, <1>6, <2>1, <2>2 DEF ListsOK
<1>8. UploadsApart'
  <2> SUFFICES ASSUME NEW d \in Calls, call'[d] = "uploading"
               PROVE  Apart(privateStore', batch[d], d, overlapped)
    BY <1>1 DEF UploadsApart
  <2>1. d # c /\ call[d] = "uploading" /\ UnderWay(d) /\ UnderWay(c)
    BY <1>1 DEF UnderWay
  <2>2. Apart(privateStore, batch[d], d, overlapped) /\ {c, d} \in overlapped
    BY <2>1 DEF UploadsApart, OverlapsNoted
  <2>3. ASSUME NEW p \in 1 .. Len(privateStore'), NEW i \in 1 .. Len(batch[d]),
               privateStore'[p].key_id = batch[d][i].key_id
        PROVE  {privateStore'[p].by, d} \in overlapped
    <3>1. Len(privateStore) \in Nat /\ Len(batch[c]) \in Nat
      BY <1>2
    <3>2. CASE p \in 1 .. Len(privateStore)
      BY <1>3, <2>2, <2>3, <3>2 DEF Apart
    <3>3. CASE p \notin 1 .. Len(privateStore)
      <4>1. p - Len(privateStore) \in 1 .. Len(batch[c])
            /\ p = Len(privateStore) + (p - Len(privateStore))
        BY <1>3, <3>1, <3>3
      <4>2. PICK q \in 1 .. Len(batch[c]) : p = Len(privateStore) + q
        BY <4>1
      <4>3. privateStore'[p].by = c
        BY <1>3, <1>4, <4>2
      <4>4. QED
        BY <2>2, <4>3
    <3>4. QED
      BY <3>2, <3>3
  <2>4. QED
    BY <2>3 DEF Apart
<1>9. Chained'
  <2>1. \A i \in 1 .. Len(writes) : writes[i].by # c
    BY <1>1 DEF Chained
  <2>2. \A i \in 1 .. Len(writes) :
            /\ ToSet(keys_table) \subseteq ToSet(writes[i].keys)
            /\ ToSet(writes[i].keys) \subseteq ToSet(privateStore')
            /\ call'[writes[i].by] = "done"
            /\ ToSet(batch[writes[i].by]) \subseteq ToSet(writes[i].keys)
    BY <1>1, <1>3, <2>1, MemoryTypes DEF Chained
  <2>3. QED
    BY <1>1, <1>3, <2>2 DEF Chained
<1>10. Accounted'
  <2>1. \A d \in Calls : Written(d)' <=> Written(d)
    BY <1>1 DEF Written
  <2>2. QED
    BY <1>1, <1>3, <2>1 DEF Accounted
<1>11. QED
  BY <1>7, <1>8, <1>9, <1>10

(* After a reload memory is what keys-table holds, and what was lost is    *)
(* known.                                                                  *)
LEMMA ReloadStep ==
    ASSUME TypeOK, BatchesOK, MemoryOK, [Next]_vars, Reload
    PROVE  ListsOK' /\ UploadsApart' /\ Chained' /\ Accounted'
<1> USE DEF MemoryOK
<1>1. /\ UNCHANGED <<keys_table, batch, overlapped>>
      /\ privateStore' = keys_table
      /\ writes' = <<>>
      /\ unsaved' = unsaved \cup {c \in Calls : HasUnsaved(c)}
                            \cup {w.by : w \in ToSet(writes)}
      /\ \A d \in Calls : call'[d] = IF UnderWay(d) THEN EndOf(d) ELSE call[d]
  BY DEF Reload
<1>2. 1 .. Len(writes') = {}
  <2>1. Len(<<>>) = 0 /\ 1 .. 0 = {}
    OBVIOUS
  <2>2. Len(writes') = 0
    BY <1>1, <2>1
  <2>3. QED
    BY <2>1, <2>2
<1>3. GoodList(keys_table, call', overlapped', batch')
  BY MemoryTypes, GoodAfterStep DEF ListsOK
<1>4. ListsOK'
  BY <1>1, <1>2, <1>3 DEF ListsOK
<1>5. UploadsApart'
  <2>1. \A d \in Calls : call'[d] # "uploading"
    BY <1>1 DEF UnderWay, EndOf
  <2>2. QED
    BY <2>1 DEF UploadsApart
<1>6. Chained'
  BY <1>1, <1>2 DEF Chained
<1>7. Accounted'
  <2>1. ToSet(<<>>) = {}
    BY DEF ToSet
  <2>2. ASSUME NEW c \in Calls
        PROVE  /\ call'[c] # "persisting"
               /\ c \in unsaved' \/ ToSet(batch[c]) \subseteq ToSet(keys_table)
                  \/ call'[c] \notin {"done", "failed"}
    <3>1. CASE HasUnsaved(c)
      BY <1>1, <3>1 DEF HasUnsaved, UnderWay, EndOf
    <3>2. CASE UnderWay(c) /\ ~HasUnsaved(c)
      <4>1. call[c] \in {"counting", "counted"}
        BY <3>2, MemoryTypes DEF UnderWay, HasUnsaved, CallStates
      <4>2. batch[c] = <<>>
        BY <4>1 DEF BatchesOK, BatchOK
      <4>3. call'[c] = "done"
        BY <1>1, <3>2 DEF EndOf
      <4>4. QED
        BY <2>1, <4>2, <4>3
    <3>3. CASE ~UnderWay(c)
      <4>1. call'[c] = call[c] /\ call'[c] # "persisting"
        BY <1>1, <3>3 DEF UnderWay
      <4>2. Written(c) => c \in unsaved'
        <5>1. ASSUME NEW i \in 1 .. Len(writes) PROVE writes[i].by \in unsaved'
          <6>1. writes[i] \in ToSet(writes)
            BY MemoryTypes, ElementsOf
          <6>2. QED
            BY <1>1, <6>1
        <5>2. QED
          BY <5>1 DEF Written
      <4>3. c \in unsaved => c \in unsaved'
        BY <1>1
      <4>4. QED
        BY <4>1, <4>2, <4>3 DEF Accounted
    <3>4. QED
      BY <3>1, <3>2, <3>3
  <2>3. QED
    BY <1>1, <2>2 DEF Accounted
<1>8. QED
  BY <1>4, <1>5, <1>6, <1>7

(* What a new batch uploads has none of the ids in memory.                 *)
LEMMA NewBatchIsApart ==
    ASSUME TypeOK, NEW c \in Calls
    PROVE  Apart(privateStore, OPKBatch(NextId(c), OPK_REPLENISH_COUNT, c), c, overlapped)
<1> DEFINE b == OPKBatch(NextId(c), OPK_REPLENISH_COUNT, c)
<1>1. /\ Len(b) = OPK_REPLENISH_COUNT
      /\ \A i \in 1 .. OPK_REPLENISH_COUNT : b[i] = Key(NextId(c) + i - 1, c)
      /\ NextId(c) \in Nat
      /\ \A p \in 1 .. Len(privateStore) : privateStore[p].key_id < NextId(c)
      /\ OPK_REPLENISH_COUNT \in Nat
  BY NextIdIsNew, BatchShape, PreKeysAssumption DEF Callers
<1>2. \A p \in 1 .. Len(privateStore) : privateStore[p].key_id \in Nat
  <2>1. \A k \in PreKey : k.key_id \in Nat
    BY DEF PreKey
  <2>2. QED
    BY <2>1, MemoryTypes
<1>3. \A i \in 1 .. Len(b) : b[i].key_id \in Nat /\ b[i].key_id >= NextId(c)
  BY <1>1 DEF Key
<1> HIDE DEF b
<1>4. ASSUME NEW p \in 1 .. Len(privateStore), NEW i \in 1 .. Len(b)
      PROVE  privateStore[p].key_id # b[i].key_id
  <2>1. /\ privateStore[p].key_id < NextId(c) /\ privateStore[p].key_id \in Nat
        /\ b[i].key_id >= NextId(c) /\ b[i].key_id \in Nat
    BY <1>1, <1>2, <1>3
  <2>2. QED
    BY <1>1, <2>1
<1>5. Apart(privateStore, b, c, overlapped)
  BY <1>4 DEF Apart
<1>6. QED
  BY <1>5 DEF b

(* Steps of the calls, of the page and of IndexedDB keep track of every    *)
(* private key of an answered batch.                                       *)
LEMMA MemoryStep == TypeOK /\ BatchesOK /\ MemoryOK /\ [Next]_vars => MemoryOK'
<1> SUFFICES ASSUME TypeOK, BatchesOK, MemoryOK, [Next]_vars PROVE MemoryOK'
  OBVIOUS
<1>0. call \in [Calls -> CallStates] /\ batch \in [Calls -> Seq(PreKey)] /\ UploadsApart
  BY MemoryTypes DEF MemoryOK
<1>1. OverlapsNoted'
  BY OverlapsStep DEF MemoryOK
<1>2. SUFFICES ListsOK' /\ UploadsApart' /\ Chained' /\ Accounted'
  BY <1>1 DEF MemoryOK
<1>3. ASSUME NEW c \in Calls, Start(c) \/ Count(c)
      PROVE  ListsOK' /\ UploadsApart' /\ Chained' /\ Accounted'
  <2>1. /\ UNCHANGED <<privateStore, keys_table, writes, unsaved, batch>>
        /\ call[c] \in {"not started", "counting"}
        /\ call'[c] \in {"counting", "counted"}
        /\ \A d \in Calls \ {c} : call'[d] = call[d]
    BY <1>0, <1>3 DEF Start, Count, Goes, storeVars
  <2>2. QED
    BY <1>0, <2>1, QuietStep DEF UploadsApart
<1>4. ASSUME NEW c \in Calls, Counted(c)
      PROVE  ListsOK' /\ UploadsApart' /\ Chained' /\ Accounted'
  <2>1. /\ UNCHANGED <<privateStore, keys_table, writes, unsaved, overlapped>>
        /\ call[c] = "counted"
        /\ batch[c] = <<>>
    BY <1>4 DEF Counted, storeVars, BatchesOK, BatchOK
  <2>2. \A d \in Calls \ {c} : call'[d] = call[d] /\ batch'[d] = batch[d]
    BY <1>0, <1>4 DEF Counted, Goes
  <2>3. \/ call'[c] = "done" /\ batch'[c] = <<>>
        \/ call'[c] = "uploading" /\ Apart(privateStore, batch'[c], c, overlapped)
    BY <1>0, <1>4, <2>1, NewBatchIsApart DEF Counted, Goes
  <2>4. QED
    BY <1>0, <2>1, <2>2, <2>3, QuietStep DEF UploadsApart
<1>5. ASSUME NEW c \in Calls, CallFails(c)
      PROVE  ListsOK' /\ UploadsApart' /\ Chained' /\ Accounted'
  <2>1. /\ UNCHANGED <<privateStore, keys_table, writes, batch, overlapped>>
        /\ unsaved \subseteq unsaved'
        /\ HasUnsaved(c) => c \in unsaved'
        /\ UnderWay(c)
        /\ call'[c] = EndOf(c)
        /\ \A d \in Calls \ {c} : call'[d] = call[d]
    BY <1>0, <1>5 DEF CallFails, Goes
  <2>2. /\ call[c] # "done"
        /\ call'[c] \in {"done", "failed"}
        /\ c \in unsaved' \/ batch'[c] = <<>>
    <3>1. call[c] \in CallStates
      BY <1>0
    <3>2. HasUnsaved(c) \/ call[c] \in {"counting", "counted"}
      BY <2>1, <3>1 DEF UnderWay, HasUnsaved, CallStates
    <3>3. QED
      BY <2>1, <3>2 DEF UnderWay, EndOf, BatchesOK, BatchOK
  <2>3. QED
    BY <1>0, <2>1, <2>2, QuietStep DEF UploadsApart
<1>6. ASSUME UNCHANGED <<privateStore, keys_table, writes, unsaved, batch, overlapped, call>>
      PROVE  ListsOK' /\ UploadsApart' /\ Chained' /\ Accounted'
  BY <1>0, <1>6, QuietStep DEF UploadsApart
<1>7. ASSUME NEW c \in Calls, InsertNext(c)
      PROVE  UNCHANGED <<privateStore, keys_table, writes, unsaved, batch, overlapped, call>>
  BY <1>7 DEF InsertNext, storeVars
<1>8. ASSUME NEW f \in Fetchers,
             FetchOldest(f) \/ FetchAny(f) \/ Answer(f) \/ ReceiveInit(f)
      PROVE  UNCHANGED <<privateStore, keys_table, writes, unsaved, batch, overlapped, call>>
  BY <1>8 DEF FetchOldest, FetchAny, ChooseRow, Answer, ReceiveInit, callVars, storeVars
<1>9. CASE UNCHANGED vars
  BY <1>6, <1>9 DEF vars
<1>10. QED
  BY <1>3, <1>4, <1>5, <1>6, <1>7, <1>8, <1>9, UploadedStep, PersistStep, CommitStep,
     WriteFailsStep, ReloadStep
     DEF Next, DeviceStep, ServerStep

-----------------------------------------------------------------------------
(* What follows                                                            *)

(* The whole inductive invariant.                                          *)
IInv == TypeOK /\ BatchesOK /\ TableOK /\ GivenOnce /\ MemoryOK

(* The inductive invariant holds in every state: the theorems below read   *)
(* off its parts.                                                          *)
LEMMA PreKeysInvariant == Spec => []IInv
<1>1. Init => IInv
  BY InitTypes, InitTable, InitMemory DEF IInv
<1>2. IInv /\ [Next]_vars => IInv'
  BY TypeStep, BatchesStep, TableStep, MemoryStep DEF IInv
<1>3. QED
  BY <1>1, <1>2, PTL DEF Spec

(* Two keys in memory have the same id only if the calls that generated    *)
(* them were under way at once, whatever failed or was reloaded:           *)
(* IdsCollideOnlyInOverlap is an invariant.                                *)
THEOREM CollisionsNeedOverlap == Spec => []IdsCollideOnlyInOverlap
<1>1. IInv => IdsCollideOnlyInOverlap
  BY DEF IInv, MemoryOK, ListsOK, GoodList, ListOK, IdsCollideOnlyInOverlap
<1>2. QED
  BY <1>1, PreKeysInvariant, PTL

(* PrivateOf finds a key with the id, or Nothing if there is none.         *)
LEMMA PrivateIsThere ==
    ASSUME TypeOK, NEW n
    PROVE  \/ \E p \in 1 .. Len(privateStore) :
                  privateStore[p].key_id = n /\ PrivateOf(n) = privateStore[p]
           \/ /\ \A p \in 1 .. Len(privateStore) : privateStore[p].key_id # n
              /\ PrivateOf(n) = Nothing
<1> DEFINE I == {p \in 1 .. Len(privateStore) : privateStore[p].key_id = n}
           at == SelectInSeq(privateStore, LAMBDA k : k.key_id = n)
<1>1. at = IF I # {} THEN Min(I) ELSE 0
  BY DEF SelectInSeq
<1>2. PrivateOf(n) = IF at = 0 THEN Nothing ELSE privateStore[at]
  BY DEF PrivateOf
<1>3. I \in SUBSET Nat /\ 0 \notin I
  OBVIOUS
<1>4. CASE I # {}
  <2>1. Min(I) \in I
    <3> HIDE DEF I
    <3>1. QED
      BY <1>3, <1>4, MinOfNaturals
  <2>2. at \in I /\ at # 0
    BY <1>1, <1>3, <1>4, <2>1
  <2> HIDE DEF at
  <2>3. QED
    BY <1>2, <2>2
<1>5. CASE I = {}
  BY <1>1, <1>2, <1>5
<1>6. QED
  BY <1>4, <1>5

(* A private key in memory is in keys-table or on its way there, unless    *)
(* its own call or write failed: SavedUnlessFailed is an invariant.        *)
THEOREM KeysAreSaved == Spec => []SavedUnlessFailed
<1>1. ASSUME IInv PROVE SavedUnlessFailed
  <2> SUFFICES ASSUME NEW k \in ToSet(privateStore), k \notin ToSet(keys_table),
                      k.by \notin unsaved, call[k.by] # "persisting" \/ k.by \notin Calls
               PROVE  k.by \in {w.by : w \in ToSet(writes)}
    BY DEF SavedUnlessFailed
  <2>0. TypeOK /\ MemoryOK
    BY <1>1 DEF IInv
  <2>1. /\ privateStore \in Seq(PreKey) /\ writes \in Seq(Write)
        /\ ListOK(privateStore, call, overlapped) /\ Whole(privateStore, batch)
    BY <2>0, MemoryTypes DEF MemoryOK, ListsOK, GoodList
  <2>2. k \notin ToSet(SetupKeys)
    BY <2>0 DEF MemoryOK, Chained
  <2>3. k.by \in Calls /\ k \in ToSet(batch[k.by])
    BY <2>1, <2>2 DEF Whole
  <2>4. call[k.by] \in Answered
    <3>1. PICK i \in 1 .. Len(privateStore) : privateStore[i] = k
      BY <2>1, ElementsOf
    <3>2. QED
      BY <2>1, <2>3, <3>1, PreKeysAssumption DEF ListOK
  <2>5. Written(k.by)
    BY <2>0, <2>3, <2>4 DEF MemoryOK, Accounted, Answered
  <2>6. PICK i \in 1 .. Len(writes) : writes[i].by = k.by
    BY <2>5 DEF Written
  <2>7. writes[i] \in ToSet(writes)
    BY <2>1, ElementsOf
  <2>8. QED
    BY <2>6, <2>7
<1>2. QED
  BY <1>1, PreKeysInvariant, PTL

(* A key of the server opens in the browser unless its upload is not       *)
(* answered, its call or write failed or was cut off by a reload, or its   *)
(* id was taken by a call that overlapped: OpensUnlessLost is an invariant.*)
THEOREM KeysOpenUnlessLost == Spec => []OpensUnlessLost
<1>1. ASSUME IInv PROVE OpensUnlessLost
  <2> SUFFICES ASSUME NEW k \in (ToSet(rows) \cup {given[f] : f \in Fetchers}) \ {Nothing},
                      k.by \notin {c \in Calls : call[c] = "uploading"},
                      k.by \notin unsaved
               PROVE  \/ PrivateOf(k.key_id) = k
                      \/ {PrivateOf(k.key_id).by, k.by} \in overlapped
    BY DEF OpensUnlessLost
  <2>0. TypeOK /\ MemoryOK /\ BatchesOK /\ TableOK
    BY <1>1 DEF IInv
  <2>1. /\ privateStore \in Seq(PreKey) /\ call \in [Calls -> CallStates]
        /\ batch \in [Calls -> Seq(PreKey)] /\ inserted \in [Calls -> Nat]
        /\ ListOK(privateStore, call, overlapped)
    BY <2>0, MemoryTypes DEF MemoryOK, ListsOK, GoodList, TypeOK
  <2>2. k \in Published
    BY <2>0 DEF TableOK
  <2>3. k \in ToSet(privateStore)
    <3>1. CASE k \in ToSet(SetupKeys)
      BY <2>0, <3>1 DEF MemoryOK, Chained
    <3>2. CASE k \notin ToSet(SetupKeys)
      <4>1. PICK c \in Calls : \E i \in 1 .. inserted[c] : k = batch[c][i]
        BY <2>2, <3>2 DEF Published
      <4>2. PICK i \in 1 .. inserted[c] : k = batch[c][i]
        BY <4>1
      <4>3. inserted[c] <= Len(batch[c]) /\ BatchOK(c)
        BY <2>0 DEF BatchesOK, BatchOK
      <4>4. i \in 1 .. Len(batch[c])
        BY <2>1, <4>3
      <4>5. k \in ToSet(batch[c]) /\ k.by = c
        BY <2>1, <4>2, <4>3, <4>4, ElementsOf DEF BatchOK
      <4>6. batch[c] # <<>>
        BY <4>4
      <4>7. call[c] \in {"persisting", "done", "failed"}
        BY <2>1, <4>3, <4>5, <4>6 DEF BatchOK, CallStates
      <4>8. CASE call[c] = "persisting"
        BY <2>0, <4>5, <4>8 DEF MemoryOK, Accounted
      <4>9. CASE Written(c)
        <5>1. PICK j \in 1 .. Len(writes) : writes[j].by = c
          BY <4>9 DEF Written
        <5>2. QED
          BY <2>0, <4>5, <5>1 DEF MemoryOK, Chained
      <4>10. CASE ToSet(batch[c]) \subseteq ToSet(keys_table)
        BY <2>0, <4>5, <4>10 DEF MemoryOK, Chained
      <4>11. QED
        BY <2>0, <4>5, <4>7, <4>8, <4>9, <4>10 DEF MemoryOK, Accounted
    <3>3. QED
      BY <3>1, <3>2
  <2>4. PICK q \in 1 .. Len(privateStore) : privateStore[q] = k
    BY <2>1, <2>3, ElementsOf
  <2>5. PICK p \in 1 .. Len(privateStore) :
            privateStore[p].key_id = k.key_id /\ PrivateOf(k.key_id) = privateStore[p]
    BY <2>0, <2>4, PrivateIsThere
  <2>6. p = q \/ {privateStore[p].by, privateStore[q].by} \in overlapped
    BY <2>1, <2>4, <2>5 DEF ListOK
  <2>7. QED
    BY <2>4, <2>5, <2>6
<1>2. QED
  BY <1>1, PreKeysInvariant, PTL

=============================================================================
