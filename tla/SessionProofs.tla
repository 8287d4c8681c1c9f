---------------------------- MODULE SessionProofs ----------------------------
(***************************************************************************)
(* Proofs about the ratchet sessions of useChat.ts, for any users, devices *)
(* and bounds: what is in memory, in IndexedDB and on its way to it fits   *)
(* together over sends, acks, deliveries, lost sockets, reloads and        *)
(* resets.                                                                 *)
(***************************************************************************)
EXTENDS Session, SequenceLemmas

-----------------------------------------------------------------------------
(* Types                                                                   *)

WebSocketStates == {"closed", "connecting", "open"}
Jobs == [text : Nat, to : Users, awaits : {"recipient", "own"}]

OutPuts == [table : {"outs"}, key : Devices, value : OutSession]
InPuts == [table : {"ins"}, key : Devices, value : InSession]
ShownPuts == [table : {"messages"}, value : {"sent", "received"} \X Nat]
Puts == OutPuts \cup InPuts \cup ShownPuts

Retired == [id : Nat, awaiting : SUBSET Nat]

(* The types of the variables that do not speak of messages' indices.      *)
MemoryTypes ==
    /\ ws \in [Devices -> WebSocketStates]
    /\ sending \in [Devices -> SUBSET Jobs]
    /\ outs \in [Devices -> [Devices -> OutSession]]
    /\ ins \in [Devices -> [Devices -> InSession]]
    /\ db_outs \in [Devices -> [Devices -> OutSession]]
    /\ db_ins \in [Devices -> [Devices -> InSession]]
    /\ writes \in [Devices -> Seq(Puts)]
    /\ texts \in [Devices -> Nat]
    /\ drops \in Nat /\ reloads \in Nat

(* Those that do, and what they hold are messages that there are.          *)
MessageTypes ==
    /\ msgs \in Seq(Message)
    /\ pendingAcks \in [Devices -> SUBSET Nat]
    /\ up \in [Devices -> Seq(Nat)]
    /\ late \in [Devices -> Seq(Nat)]
    /\ acks \in [Devices -> Seq(Nat)]
    /\ log \in [Users -> Seq(Nat)]
    /\ cursor \in [Devices -> Nat]
    /\ opened \in [Devices -> SUBSET Nat]
    /\ retired \in [Devices -> SUBSET Retired]

(* The indices of messages among them.                                     *)
Indices ==
    /\ \A d \in Devices :
           /\ pendingAcks[d] \subseteq 1 .. Len(msgs)
           /\ ToSet(up[d]) \subseteq 1 .. Len(msgs)
           /\ ToSet(late[d]) \subseteq 1 .. Len(msgs)
           /\ ToSet(acks[d]) \subseteq 1 .. Len(msgs)
           /\ opened[d] \subseteq 1 .. Len(msgs)
           /\ cursor[d] <= Len(log[UserOf[d]])
           /\ \A x \in retired[d] : x.awaiting \subseteq 1 .. Len(msgs)
    /\ \A u \in Users : ToSet(log[u]) \subseteq 1 .. Len(msgs)

TypeInv == MemoryTypes /\ MessageTypes /\ Indices

-----------------------------------------------------------------------------
(* The constants and the records                                           *)

(* No device appears twice.                                                *)
Distinct(s) == \A i, j \in 1 .. Len(s) : s[i] = s[j] => i = j

(* The devices of a user, as their bundles are listed.                     *)
LEMMA DeviceLists ==
    ASSUME NEW u \in Users
    PROVE  /\ DevicesOf[u] \in Seq(Devices)
           /\ ToSet(DevicesOf[u]) = {d \in Devices : UserOf[d] = u}
           /\ Distinct(DevicesOf[u])
           /\ IsFiniteSet({d \in Devices : UserOf[d] = u})
<1> DEFINE s == DevicesOf[u]
<1>1. s \in Seq(Devices) /\ ToSet(s) = {d \in Devices : UserOf[d] = u} /\ IsInjective(s)
  BY SessionAssumption
<1>2. Distinct(s)
  <2> HIDE DEF s
  <2>1. DOMAIN s = 1 .. Len(s)
    BY <1>1
  <2>2. QED
    BY <1>1, <2>1 DEF Distinct, IsInjective
<1>3. IsFiniteSet(ToSet(s))
  <2> HIDE DEF s
  <2>1. Len(s) \in Nat /\ DOMAIN s = 1 .. Len(s) /\ s \in [1 .. Len(s) -> Devices]
    BY <1>1
  <2>2. \A x \in ToSet(s) : \E i \in 1 .. Len(s) : s[i] = x
    BY <1>1, ElementsOf
  <2>3. \A i \in 1 .. Len(s) : s[i] \in ToSet(s)
    BY <1>1, ElementsOf
  <2>4. s \in [1 .. Len(s) -> ToSet(s)]
    BY <2>1, <2>3
  <2>5. s \in Surjection(1 .. Len(s), ToSet(s))
    BY <2>2, <2>4 DEF Surjection
  <2>6. ExistsSurjection(1 .. Len(s), ToSet(s))
    BY <2>5 DEF ExistsSurjection
  <2>7. QED
    BY <2>1, <2>6, FS_NatSurjection
<1>4. QED
  BY <1>1, <1>2, <1>3

(* Every device has a user.                                                *)
LEMMA Owners == \A d \in Devices : UserOf[d] \in Users
BY SessionAssumption

(* A message's fields, and a message from its fields.                      *)
LEMMA MessageFields ==
    ASSUME NEW m \in Message
    PROVE  /\ m.from \in Devices /\ m.to \in Devices /\ m.id \in Nat /\ m.n \in Nat
           /\ m.type \in {"init", "msg"}
BY DEF Message

(* A session's fields.                                                     *)
LEMMA SessionFields ==
    /\ \A s \in OutSession : s.id \in Nat /\ s.n \in Nat
    /\ \A s \in InSession : s.id \in Nat /\ s.n \in Nat /\ s.skipped \in SUBSET Nat
    /\ NoOut \in OutSession /\ NoIn \in InSession
    /\ NoOut.id = 0 /\ NoOut.n = 0 /\ NoIn.id = 0 /\ NoIn.n = 0
    /\ \A s \in OutSession : s = [id |-> s.id, n |-> s.n]
BY DEF OutSession, InSession, NoOut, NoIn

(* The kinds of puts.                                                      *)
LEMMA PutFields ==
    /\ \A w \in Puts : w.table = "outs" => w.key \in Devices /\ w.value \in OutSession
    /\ \A w \in Puts : w.table = "ins" => w.key \in Devices /\ w.value \in InSession
    /\ \A e \in Devices, s \in OutSession :
           /\ PutOut(e, s) \in Puts /\ PutOut(e, s).table = "outs"
           /\ PutOut(e, s).key = e /\ PutOut(e, s).value = s
    /\ \A e \in Devices, s \in InSession :
           /\ PutIn(e, s) \in Puts /\ PutIn(e, s).table = "ins"
           /\ PutIn(e, s).key = e /\ PutIn(e, s).value = s
    /\ \A x \in {"sent", "received"} \X Nat :
           PutShown(x) \in Puts /\ PutShown(x).table = "messages"
BY DEF Puts, OutPuts, InPuts, ShownPuts, PutOut, PutIn, PutShown

-----------------------------------------------------------------------------
(* IndexedDB                                                               *)

(* What the puts of w would leave under key e of table t.                  *)
Values(t, e, w) == {x.value : x \in {y \in ToSet(w) : y.table = t /\ y.key = e}}

(* A table holds what was put last under a key, or what it held.           *)
LEMMA LastCommitted ==
    ASSUME NEW t, NEW old, NEW w \in Seq(Puts), NEW e \in Devices
    PROVE  /\ \/ Committed(t, old, w)[e] = old[e]
                    /\ \A i \in 1 .. Len(w) : ~(w[i].table = t /\ w[i].key = e)
              \/ \E k \in 1 .. Len(w) :
                    /\ w[k].table = t /\ w[k].key = e
                    /\ Committed(t, old, w)[e] = w[k].value
                    /\ \A i \in 1 .. Len(w) : w[i].table = t /\ w[i].key = e => i <= k
<1> DEFINE I == {i \in 1 .. Len(w) : w[i].table = t /\ w[i].key = e}
<1>1. I \in SUBSET Nat /\ Len(w) \in Nat /\ \A i \in I : i <= Len(w)
  OBVIOUS
<1>2. SelectLastInSeq(w, LAMBDA x : x.table = t /\ x.key = e) = IF I # {} THEN Max(I) ELSE 0
  BY DEF SelectLastInSeq
<1>3. Committed(t, old, w)[e] =
          LET k == IF I # {} THEN Max(I) ELSE 0 IN IF k = 0 THEN old[e] ELSE w[k].value
  BY <1>2 DEF Committed
<1>4. CASE I = {}
  BY <1>3, <1>4
<1>5. CASE I # {}
  <2> HIDE DEF I
  <2>1. Max(I) \in I /\ \A y \in I : y <= Max(I)
    BY <1>1, <1>5, MaxOfNaturals
  <2>2. Max(I) # 0
    BY <2>1 DEF I
  <2>3. QED
    BY <1>3, <1>5, <2>1, <2>2 DEF I
<1>6. QED
  BY <1>4, <1>5

(* More puts of the key: one of theirs; none: it stays.                    *)
LEMMA CommittedMore ==
    ASSUME NEW t, NEW old, NEW w \in Seq(Puts), NEW v \in Seq(Puts), NEW e \in Devices
    PROVE  /\ Committed(t, old, w)[e] \in {old[e]} \cup Values(t, e, w)
           /\ Values(t, e, w \o v) = Values(t, e, w) \cup Values(t, e, v)
           /\ Values(t, e, v) = {} =>
                  Committed(t, old, w \o v)[e] = Committed(t, old, w)[e]
           /\ Values(t, e, v) # {} => Committed(t, old, w \o v)[e] \in Values(t, e, v)
           /\ Committed(t, old, <<>>)[e] = old[e]
<1> DEFINE x == w \o v
<1>1. /\ x \in Seq(Puts) /\ Len(x) = Len(w) + Len(v) /\ ToSet(x) = ToSet(w) \cup ToSet(v)
      /\ \A i \in 1 .. Len(w) : x[i] = w[i]
      /\ \A i \in 1 .. Len(v) : x[Len(w) + i] = v[i]
      /\ Len(w) \in Nat /\ Len(v) \in Nat
  BY ConcatElements
<1> HIDE DEF x
<1>0. x \in Seq(Puts)
  BY <1>1
<1>2. ASSUME NEW y \in Seq(Puts), NEW i \in 1 .. Len(y), y[i].table = t, y[i].key = e
      PROVE  y[i].value \in Values(t, e, y)
  <2>1. y[i] \in ToSet(y)
    BY ElementsOf
  <2>2. QED
    BY <1>2, <2>1 DEF Values
<1>3. ASSUME NEW y \in Seq(Puts), NEW z \in Values(t, e, y)
      PROVE  \E i \in 1 .. Len(y) : y[i].table = t /\ y[i].key = e /\ y[i].value = z
  <2>1. PICK p \in ToSet(y) : p.table = t /\ p.key = e /\ p.value = z
    BY <1>3 DEF Values
  <2>2. PICK i \in 1 .. Len(y) : y[i] = p
    BY ElementsOf
  <2>3. QED
    BY <2>1, <2>2
<1>4. Committed(t, old, w)[e] \in {old[e]} \cup Values(t, e, w)
  BY <1>2, LastCommitted
<1>5. Values(t, e, x) = Values(t, e, w) \cup Values(t, e, v)
  BY <1>1 DEF Values
<1>6. ASSUME Values(t, e, v) = {}
      PROVE  Committed(t, old, x)[e] = Committed(t, old, w)[e]
  <2>1. ASSUME NEW i \in 1 .. Len(x), x[i].table = t, x[i].key = e
        PROVE  i \in 1 .. Len(w) /\ x[i] = w[i]
    <3>1. CASE i <= Len(w)
      BY <1>1, <3>1
    <3>2. CASE i > Len(w)
      <4>1. i - Len(w) \in 1 .. Len(v) /\ Len(w) + (i - Len(w)) = i
        BY <1>1, <3>2
      <4>2. v[i - Len(w)] = x[i]
        BY <1>1, <4>1
      <4>3. x[i].value \in Values(t, e, v)
        BY <1>2, <2>1, <4>1, <4>2
      <4>4. QED
        BY <1>6, <4>3
    <3>3. QED
      BY <1>1, <3>1, <3>2
  <2>2. \A i \in 1 .. Len(w) : i \in 1 .. Len(x) /\ x[i] = w[i]
    BY <1>1
  <2>3. \/ /\ Committed(t, old, x)[e] = old[e]
           /\ \A i \in 1 .. Len(x) : ~(x[i].table = t /\ x[i].key = e)
        \/ \E k \in 1 .. Len(x) :
              /\ x[k].table = t /\ x[k].key = e
              /\ Committed(t, old, x)[e] = x[k].value
              /\ \A i \in 1 .. Len(x) : x[i].table = t /\ x[i].key = e => i <= k
    BY <1>0, LastCommitted
  <2>4. \/ /\ Committed(t, old, w)[e] = old[e]
           /\ \A i \in 1 .. Len(w) : ~(w[i].table = t /\ w[i].key = e)
        \/ \E k \in 1 .. Len(w) :
              /\ w[k].table = t /\ w[k].key = e
              /\ Committed(t, old, w)[e] = w[k].value
              /\ \A i \in 1 .. Len(w) : w[i].table = t /\ w[i].key = e => i <= k
    BY LastCommitted
  <2>5. CASE \A i \in 1 .. Len(w) : ~(w[i].table = t /\ w[i].key = e)
    BY <2>1, <2>3, <2>4, <2>5
  <2>6. CASE ~(\A i \in 1 .. Len(w) : ~(w[i].table = t /\ w[i].key = e))
    <3>1. PICK k \in 1 .. Len(w) :
              /\ w[k].table = t /\ w[k].key = e
              /\ Committed(t, old, w)[e] = w[k].value
              /\ \A i \in 1 .. Len(w) : w[i].table = t /\ w[i].key = e => i <= k
      BY <2>4, <2>6
    <3>2. k \in 1 .. Len(x) /\ x[k] = w[k]
      BY <2>2
    <3>3. PICK l \in 1 .. Len(x) :
              /\ x[l].table = t /\ x[l].key = e
              /\ Committed(t, old, x)[e] = x[l].value
              /\ \A i \in 1 .. Len(x) : x[i].table = t /\ x[i].key = e => i <= l
      BY <2>3, <3>1, <3>2
    <3>4. l \in 1 .. Len(w) /\ x[l] = w[l]
      BY <2>1, <3>3
    <3>5. l <= k /\ k <= l
      BY <3>1, <3>2, <3>3, <3>4
    <3>6. k = l
      BY <3>5
    <3>7. QED
      BY <3>1, <3>3, <3>4, <3>6
  <2>7. QED
    BY <2>5, <2>6
<1>7. ASSUME Values(t, e, v) # {}
      PROVE  Committed(t, old, x)[e] \in Values(t, e, v)
  <2>1. PICK i \in 1 .. Len(v) : v[i].table = t /\ v[i].key = e
    BY <1>3, <1>7
  <2>2. Len(w) + i \in 1 .. Len(x) /\ x[Len(w) + i] = v[i]
    BY <1>1
  <2>3. PICK k \in 1 .. Len(x) :
              /\ x[k].table = t /\ x[k].key = e
              /\ Committed(t, old, x)[e] = x[k].value
              /\ \A j \in 1 .. Len(x) : x[j].table = t /\ x[j].key = e => j <= k
    <3>1. \/ Committed(t, old, x)[e] = old[e]
                /\ \A j \in 1 .. Len(x) : ~(x[j].table = t /\ x[j].key = e)
          \/ \E k \in 1 .. Len(x) :
                /\ x[k].table = t /\ x[k].key = e
                /\ Committed(t, old, x)[e] = x[k].value
                /\ \A j \in 1 .. Len(x) : x[j].table = t /\ x[j].key = e => j <= k
      BY <1>0, LastCommitted
    <3>2. ~(\A j \in 1 .. Len(x) : ~(x[j].table = t /\ x[j].key = e))
      BY <2>1, <2>2
    <3>3. QED
      BY <3>1, <3>2
  <2>4. Len(w) + i <= k
    BY <2>1, <2>2, <2>3
  <2>5. k - Len(w) \in 1 .. Len(v) /\ Len(w) + (k - Len(w)) = k
    BY <1>1, <2>4
  <2>6. v[k - Len(w)] = x[k]
    BY <1>1, <2>5
  <2>7. QED
    BY <1>2, <2>3, <2>5, <2>6
<1>8. Committed(t, old, <<>>)[e] = old[e]
  <2> DEFINE none == <<>>
  <2>1. none \in Seq(Puts) /\ 1 .. Len(none) = {}
    OBVIOUS
  <2> HIDE DEF none
  <2>2. Committed(t, old, none)[e] = old[e]
    BY <2>1, LastCommitted
  <2>3. QED
    BY <2>2 DEF none
<1>9. QED
  BY <1>4, <1>5, <1>6, <1>7, <1>8 DEF x

(* The values of the puts of outbound and inbound sessions.                *)
LEMMA ValueTypes ==
    ASSUME NEW w \in Seq(Puts), NEW e
    PROVE  Values("outs", e, w) \in SUBSET OutSession /\ Values("ins", e, w) \in SUBSET InSession
<1>1. ToSet(w) \subseteq Puts
  BY ElementsInRange
<1>2. QED
  BY <1>1, PutFields DEF Values

-----------------------------------------------------------------------------
(* What a sending does                                                     *)

(* The messages encrypted for the devices fs, and their indices.           *)
NewMessages(d, fs, sync) ==
    [k \in 1 .. Len(fs) |-> Encrypted(d, fs[k], Len(msgs) + k, sync)]
NewIndices(fs) == [k \in 1 .. Len(fs) |-> Len(msgs) + k]

(* One turn of a loop over bundles, whether it ended or threw: messages    *)
(* for the devices fs, their sessions advanced, what waits for its Ack     *)
(* among them, and frames unless the socket is gone.                       *)
Sends(d, fs, sync) ==
    /\ msgs' = msgs \o NewMessages(d, fs, sync)
    /\ outs' = AdvancedBy(d, NewMessages(d, fs, sync))
    /\ \E P \in SUBSET (Len(msgs) + 1 .. Len(msgs) + Len(fs)) :
           pendingAcks' = [pendingAcks EXCEPT ![d] = @ \cup P]
    /\ \/ up' = [up EXCEPT ![d] = @ \o NewIndices(fs)]
       \/ up' = up /\ (ws[d] = "open" => fs = <<>>)

(* The message encrypted for a device.                                     *)
LEMMA EncryptedFields ==
    ASSUME TypeInv, NEW d \in Devices, NEW e \in Devices, NEW i \in Nat, NEW sync \in BOOLEAN
    PROVE  LET m == Encrypted(d, e, i, sync) IN
           /\ m \in Message
           /\ m.from = d /\ m.to = e /\ m.sync = sync
           /\ m.n = outs[d][e].n
           /\ outs[d][e] = NoOut => m.type = "init" /\ m.id = i /\ m.n = 0
           /\ outs[d][e] # NoOut => m.type = "msg" /\ m.id = outs[d][e].id
<1>1. outs \in [Devices -> [Devices -> OutSession]]
  BY DEF TypeInv, MemoryTypes
<1>2. outs[d][e] \in OutSession
  BY <1>1
<1> DEFINE s == outs[d][e]
<1>3. s.id \in Nat /\ s.n \in Nat /\ NoOut.n = 0
  BY <1>2, SessionFields
<1> HIDE DEF s
<1>4. Encrypted(d, e, i, sync) =
          [from |-> d, to |-> e, sync |-> sync,
           type |-> IF s = NoOut THEN "init" ELSE "msg",
           id |-> IF s = NoOut THEN i ELSE s.id, n |-> s.n]
  BY DEF Encrypted, s
<1>5. Encrypted(d, e, i, sync) \in Message
  BY <1>3, <1>4 DEF Message
<1>6. QED
  BY <1>3, <1>4, <1>5 DEF s

(* The messages of one fan-out are numbered on from those sent before, one *)
(* for each device it goes to.                                             *)
LEMMA NewMessageFields ==
    ASSUME TypeInv, NEW d \in Devices, NEW fs \in Seq(Devices), NEW sync \in BOOLEAN
    PROVE  LET ms == NewMessages(d, fs, sync) IN
           /\ ms \in Seq(Message) /\ Len(ms) = Len(fs) /\ Len(fs) \in Nat /\ Len(msgs) \in Nat
           /\ \A k \in 1 .. Len(fs) : /\ ms[k] = Encrypted(d, fs[k], Len(msgs) + k, sync)
                                      /\ fs[k] \in Devices
<1>1. Len(fs) \in Nat /\ Len(msgs) \in Nat
  BY DEF TypeInv, MessageTypes
<1>2. \A k \in 1 .. Len(fs) : fs[k] \in Devices /\ Len(msgs) + k \in Nat
  BY <1>1
<1>3. \A k \in 1 .. Len(fs) : Encrypted(d, fs[k], Len(msgs) + k, sync) \in Message
  BY <1>2, EncryptedFields
<1> DEFINE ms == NewMessages(d, fs, sync)
<1>4. ms \in [1 .. Len(fs) -> Message]
  BY <1>3 DEF NewMessages
<1>5. \A k \in 1 .. Len(fs) : ms[k] = Encrypted(d, fs[k], Len(msgs) + k, sync)
  BY DEF NewMessages
<1>6. ms \in Seq(Message) /\ Len(ms) = Len(fs)
  <2> HIDE DEF ms
  <2>1. QED
    BY <1>1, <1>4
<1>7. QED
  BY <1>1, <1>2, <1>5, <1>6

(* The loop over the bundles of devices es is one.                         *)
LEMMA SendToSends ==
    ASSUME TypeInv, NEW d \in Devices, NEW es \in Seq(Devices), Distinct(es),
           NEW sync \in BOOLEAN, SendTo(d, es, sync)
    PROVE  Sends(d, es, sync)
<1>1. msgs' = msgs \o NewMessages(d, es, sync)
  BY DEF SendTo, NewMessages
<1>2. outs' = AdvancedBy(d, NewMessages(d, es, sync))
  BY DEF SendTo, NewMessages
<1>3. Len(msgs') = Len(msgs) + Len(es)
  <2> DEFINE ms == NewMessages(d, es, sync)
  <2>1. ms \in Seq(Message) /\ Len(ms) = Len(es)
    BY NewMessageFields
  <2>2. msgs \in Seq(Message)
    BY DEF TypeInv, MessageTypes
  <2> HIDE DEF ms
  <2>3. Len(msgs \o ms) = Len(msgs) + Len(ms)
    BY <2>1, <2>2
  <2>4. QED
    BY <1>1, <2>1, <2>3 DEF ms
<1>4. pendingAcks' = [pendingAcks EXCEPT ![d] = @ \cup (Len(msgs) + 1 .. Len(msgs'))]
  BY DEF SendTo
<1>5. \/ up' = [up EXCEPT ![d] = @ \o NewIndices(es)]
      \/ up' = up /\ ws[d] # "open"
  <2>1. up' = [up EXCEPT ![d] = IF ws[d] = "open" THEN @ \o NewIndices(es) ELSE @]
    BY DEF SendTo, NewIndices
  <2>2. up \in [Devices -> Seq(Nat)]
    BY DEF TypeInv, MessageTypes
  <2>3. CASE ws[d] = "open"
    BY <2>1, <2>3
  <2>4. CASE ws[d] # "open"
    BY <2>1, <2>2, <2>4
  <2>5. QED
    BY <2>3, <2>4
<1>6. QED
  BY <1>1, <1>2, <1>3, <1>4, <1>5 DEF Sends

(* A loop that throws in its first turn is one, over one device.           *)
LEMMA SendThrowsSends ==
    ASSUME TypeInv, NEW d \in Devices, NEW es \in Seq(Devices),
           NEW sync \in BOOLEAN, SendThrows(d, es, sync)
    PROVE  /\ <<es[1]>> \in Seq(Devices) /\ Distinct(<<es[1]>>)
           /\ Sends(d, <<es[1]>>, sync)
           /\ es[1] \in ToSet(es)
<1>1. es # <<>> /\ ws[d] = "connecting"
  BY DEF SendThrows
<1>2. es[1] \in Devices /\ es[1] \in ToSet(es)
  BY <1>1, TailElements
<1> DEFINE f == es[1]
           fs == <<f>>
           m == Encrypted(d, f, Len(msgs) + 1, sync)
<1>3. fs \in Seq(Devices) /\ Len(fs) = 1 /\ fs[1] = f /\ 1 .. Len(fs) = {1}
  BY <1>2
<1>4. Distinct(fs)
  BY <1>3 DEF Distinct
<1>5. NewMessages(d, fs, sync) = <<m>>
  <2>1. NewMessages(d, fs, sync) = [k \in {1} |-> m]
    BY <1>3 DEF NewMessages
  <2>2. <<m>> = [k \in {1} |-> m]
    <3> HIDE DEF m
    <3>1. DOMAIN <<m>> = {1} /\ <<m>>[1] = m
      OBVIOUS
    <3>2. QED
      BY <3>1
  <2>3. QED
    BY <2>1, <2>2
<1>6. msgs' = msgs \o <<m>>
  <2>1. msgs' = Append(msgs, m) /\ msgs \in Seq(Message)
    BY DEF SendThrows, TypeInv, MessageTypes
  <2>2. m \in {m} \cup Message /\ msgs \in Seq({m} \cup Message)
    <3> HIDE DEF m
    <3>1. QED
      BY <2>1
  <2>3. Append(msgs, m) = msgs \o <<m>>
    <3> HIDE DEF m
    <3>1. QED
      BY <2>2
  <2>4. QED
    BY <2>1, <2>3
<1>7. outs' = AdvancedBy(d, <<m>>)
  BY DEF SendThrows
<1>8. pendingAcks' = pendingAcks /\ up' = up
  BY DEF SendThrows
<1>9. \E P \in SUBSET (Len(msgs) + 1 .. Len(msgs) + Len(fs)) :
          pendingAcks' = [pendingAcks EXCEPT ![d] = @ \cup P]
  <2>1. pendingAcks \in [Devices -> SUBSET Nat]
    BY DEF TypeInv, MessageTypes
  <2>2. pendingAcks' = [pendingAcks EXCEPT ![d] = @ \cup {}]
    BY <1>8, <2>1
  <2>3. QED
    BY <2>2
<1>10. Sends(d, fs, sync)
  <2> HIDE DEF fs, m
  <2>1. QED
    BY <1>1, <1>5, <1>6, <1>7, <1>8, <1>9 DEF Sends
<1>11. QED
  BY <1>2, <1>3, <1>4, <1>10

(* Nothing to send is one over no device.                                  *)
LEMMA NothingSends ==
    ASSUME TypeInv, NEW d \in Devices, NEW sync,
           UNCHANGED <<msgs, outs, pendingAcks, up>>
    PROVE  Sends(d, <<>>, sync)
<1> DEFINE ms == NewMessages(d, <<>>, sync)
<1>1. /\ msgs \in Seq(Message) /\ outs \in [Devices -> [Devices -> OutSession]]
      /\ pendingAcks \in [Devices -> SUBSET Nat]
  BY DEF TypeInv, MessageTypes, MemoryTypes
<1>2. ms = <<>>
  <2>1. Len(<<>>) = 0 /\ 1 .. 0 = {}
    OBVIOUS
  <2>2. QED
    BY <2>1 DEF NewMessages
<1>3. msgs \o <<>> = msgs
  BY <1>1
<1>4. ToSet(<<>>) = {}
  BY DEF ToSet
<1>5. AdvancedBy(d, <<>>) = outs
  BY <1>1, <1>4 DEF AdvancedBy
<1>6. pendingAcks' = [pendingAcks EXCEPT ![d] = @ \cup {}]
  BY <1>1
<1>7. \E P \in SUBSET (Len(msgs) + 1 .. Len(msgs) + Len(<<>>)) :
          pendingAcks' = [pendingAcks EXCEPT ![d] = @ \cup P]
  BY <1>6
<1>8. QED
  BY <1>2, <1>3, <1>5, <1>7 DEF Sends

(* The fetches' answers lead to sendings, each to devices of one user.     *)
LEMMA RecipientSends ==
    ASSUME TypeInv, NEW d \in Devices, NEW j \in sending[d], FetchedRecipient(d, j)
    PROVE  \E fs \in Seq(Devices) :
               /\ Distinct(fs) /\ Sends(d, fs, FALSE)
               /\ ToSet(fs) \subseteq {e \in Devices : UserOf[e] = j.to}
<1>1. j \in Jobs
  BY DEF TypeInv, MemoryTypes
<1>2. j.to \in Users
  BY <1>1 DEF Jobs
<1> DEFINE es == DevicesOf[j.to]
<1>3. /\ es \in Seq(Devices) /\ Distinct(es)
      /\ ToSet(es) = {e \in Devices : UserOf[e] = j.to}
  BY <1>2, DeviceLists
<1>4. SendTo(d, es, FALSE) \/ SendThrows(d, es, FALSE)
  BY DEF FetchedRecipient
<1> HIDE DEF es
<1>5. CASE SendTo(d, es, FALSE)
  BY <1>3, <1>5, SendToSends
<1>6. CASE SendThrows(d, es, FALSE)
  <2>1. /\ <<es[1]>> \in Seq(Devices) /\ Distinct(<<es[1]>>)
        /\ Sends(d, <<es[1]>>, FALSE) /\ es[1] \in ToSet(es)
    BY <1>3, <1>6, SendThrowsSends
  <2>2. ToSet(<<es[1]>>) = {es[1]}
    BY DEF ToSet
  <2>3. QED
    BY <1>3, <2>1, <2>2
<1>7. QED
  BY <1>4, <1>5, <1>6

(* The second fan-out goes to the other devices of the sender's user, to   *)
(* each once.                                                              *)
LEMMA OwnSends ==
    ASSUME TypeInv, NEW d \in Devices, NEW j \in sending[d], FetchedOwn(d, j)
    PROVE  \E fs \in Seq(Devices) :
               /\ Distinct(fs) /\ Sends(d, fs, TRUE)
               /\ ToSet(fs) \subseteq {e \in Devices : UserOf[e] = UserOf[d] /\ e # d}
<1> DEFINE es == DevicesOf[UserOf[d]]
           others == RemoveFirst(es, d)
<1>1. /\ es \in Seq(Devices) /\ Distinct(es)
      /\ ToSet(es) = {e \in Devices : UserOf[e] = UserOf[d]}
  BY DeviceLists, Owners
<1> HIDE DEF es
<1>2. /\ others \in Seq(Devices) /\ Distinct(others)
      /\ ToSet(others) = ToSet(es) \ {d}
  BY <1>1, RemoveFirstElements DEF Distinct
<1>3. \/ SendTo(d, others, TRUE)
      \/ UNCHANGED <<msgs, outs, pendingAcks, up>>
      \/ SendThrows(d, others, TRUE)
  BY DEF FetchedOwn, es
<1> HIDE DEF others
<1>4. CASE SendTo(d, others, TRUE)
  BY <1>1, <1>2, <1>4, SendToSends
<1>5. CASE UNCHANGED <<msgs, outs, pendingAcks, up>>
  <2>1. Sends(d, <<>>, TRUE)
    BY <1>5, NothingSends
  <2>2. <<>> \in Seq(Devices) /\ Distinct(<<>>) /\ ToSet(<<>>) = {}
    BY DEF Distinct, ToSet
  <2>3. QED
    BY <2>1, <2>2
<1>6. CASE SendThrows(d, others, TRUE)
  <2>1. /\ <<others[1]>> \in Seq(Devices) /\ Distinct(<<others[1]>>)
        /\ Sends(d, <<others[1]>>, TRUE) /\ others[1] \in ToSet(others)
    BY <1>2, <1>6, SendThrowsSends
  <2>2. ToSet(<<others[1]>>) = {others[1]}
    BY DEF ToSet
  <2>3. QED
    BY <1>1, <1>2, <2>1, <2>2
<1>7. QED
  BY <1>3, <1>4, <1>5, <1>6

(* What a sending leaves, place by place.                                  *)
LEMMA SendsFields ==
    ASSUME TypeInv, NEW d \in Devices, NEW fs \in Seq(Devices), Distinct(fs),
           NEW sync \in BOOLEAN, Sends(d, fs, sync)
    PROVE  /\ msgs' \in Seq(Message)
           /\ Len(msgs) \in Nat /\ Len(fs) \in Nat
           /\ Len(msgs') = Len(msgs) + Len(fs)
           /\ \A i \in 1 .. Len(msgs) : i \in 1 .. Len(msgs') /\ msgs'[i] = msgs[i]
           /\ \A k \in 1 .. Len(fs) :
                  /\ fs[k] \in Devices
                  /\ Len(msgs) + k \in 1 .. Len(msgs')
                  /\ msgs'[Len(msgs) + k] = Encrypted(d, fs[k], Len(msgs) + k, sync)
                  /\ outs'[d][fs[k]] = Advanced(msgs'[Len(msgs) + k])
           /\ \A i \in 1 .. Len(msgs') :
                  i \in 1 .. Len(msgs) \/ \E k \in 1 .. Len(fs) : i = Len(msgs) + k
           /\ outs' \in [Devices -> [Devices -> OutSession]]
           /\ \A c \in Devices \ {d} : outs'[c] = outs[c]
           /\ \A e \in Devices :
                  (\A k \in 1 .. Len(fs) : fs[k] # e) => outs'[d][e] = outs[d][e]
<1> DEFINE ms == NewMessages(d, fs, sync)
           l == Len(msgs)
<1>1. /\ ms \in Seq(Message) /\ Len(ms) = Len(fs) /\ Len(fs) \in Nat /\ l \in Nat
      /\ \A k \in 1 .. Len(fs) : /\ ms[k] = Encrypted(d, fs[k], l + k, sync)
                                 /\ fs[k] \in Devices
  BY NewMessageFields
<1>2. msgs \in Seq(Message) /\ outs \in [Devices -> [Devices -> OutSession]]
  BY DEF TypeInv, MessageTypes, MemoryTypes
<1>3. msgs' = msgs \o ms /\ outs' = AdvancedBy(d, ms)
  BY DEF Sends
<1> HIDE DEF ms
<1>4. /\ msgs' \in Seq(Message) /\ Len(msgs') = l + Len(fs)
      /\ \A i \in 1 .. l : msgs'[i] = msgs[i]
      /\ \A k \in 1 .. Len(fs) : msgs'[l + k] = ms[k]
  <2> DEFINE c == msgs \o ms
  <2>1. /\ c \in Seq(Message) /\ Len(c) = Len(msgs) + Len(ms)
        /\ \A i \in 1 .. Len(msgs) : c[i] = msgs[i]
        /\ \A k \in 1 .. Len(ms) : c[Len(msgs) + k] = ms[k]
    <3>1. msgs \in Seq(Message) /\ ms \in Seq(Message)
      BY <1>1, <1>2
    <3>2. QED
      BY <3>1, ConcatElements
  <2>2. msgs' = c
    BY <1>3
  <2> HIDE DEF c
  <2>3. QED
    BY <1>1, <2>1, <2>2
<1>5. \A i \in 1 .. l : i \in 1 .. Len(msgs')
  BY <1>1, <1>4
<1>6. \A k \in 1 .. Len(fs) : l + k \in 1 .. Len(msgs')
  BY <1>1, <1>4
<1>7. ASSUME NEW i \in 1 .. Len(msgs')
      PROVE  i \in 1 .. l \/ \E k \in 1 .. Len(fs) : i = l + k
  <2>1. CASE i <= l
    BY <1>1, <2>1
  <2>2. CASE i > l
    <3>1. i - l \in 1 .. Len(fs) /\ i = l + (i - l)
      BY <1>1, <1>4, <2>2
    <3>2. QED
      BY <3>1
  <2>3. QED
    BY <1>1, <2>1, <2>2
<1>8. \A k \in 1 .. Len(fs) : ms[k].to = fs[k] /\ ms[k] \in Message
  <2>1. ASSUME NEW k \in 1 .. Len(fs) PROVE ms[k].to = fs[k] /\ ms[k] \in Message
    <3>1. l + k \in Nat /\ fs[k] \in Devices
      BY <1>1
    <3>2. QED
      BY <1>1, <3>1, EncryptedFields
  <2>2. QED
    BY <2>1
<1>9. \A m : m \in ToSet(ms) <=> \E k \in 1 .. Len(fs) : ms[k] = m
  BY <1>1, ElementsOf
<1>10. ASSUME NEW k \in 1 .. Len(fs)
       PROVE  /\ \E m \in ToSet(ms) : m.to = fs[k]
              /\ (CHOOSE m \in ToSet(ms) : m.to = fs[k]) = ms[k]
  <2>1. ms[k] \in ToSet(ms) /\ ms[k].to = fs[k]
    BY <1>8, <1>9
  <2>2. ASSUME NEW m \in ToSet(ms), m.to = fs[k] PROVE m = ms[k]
    <3>1. PICK i \in 1 .. Len(fs) : ms[i] = m
      BY <1>9, <2>2
    <3>2. fs[i] = fs[k]
      BY <1>8, <2>2, <3>1
    <3>3. i = k
      BY <3>2 DEF Distinct
    <3>4. QED
      BY <3>1, <3>3
  <2>3. QED
    BY <2>1, <2>2
<1>11. \A m \in Message : Advanced(m) \in OutSession
  BY DEF Advanced, OutSession, Message
<1> DEFINE new == [e \in Devices |->
                      IF \E m \in ToSet(ms) : m.to = e
                      THEN Advanced(CHOOSE m \in ToSet(ms) : m.to = e)
                      ELSE outs[d][e]]
<1>12. outs' = [outs EXCEPT ![d] = new]
  BY <1>3 DEF AdvancedBy
<1>13. \A k \in 1 .. Len(fs) : new[fs[k]] = Advanced(ms[k])
  BY <1>1, <1>10
<1>14. \A e \in Devices : (\A k \in 1 .. Len(fs) : fs[k] # e) => new[e] = outs[d][e]
  <2>1. ASSUME NEW e \in Devices, \A k \in 1 .. Len(fs) : fs[k] # e
        PROVE  ~(\E m \in ToSet(ms) : m.to = e)
    BY <1>8, <1>9, <2>1
  <2>2. QED
    BY <2>1
<1>15. new \in [Devices -> OutSession]
  <2>1. ASSUME NEW e \in Devices PROVE new[e] \in OutSession
    <3>1. CASE \E k \in 1 .. Len(fs) : fs[k] = e
      BY <1>8, <1>11, <1>13, <3>1
    <3>2. CASE \A k \in 1 .. Len(fs) : fs[k] # e
      <4>1. new[e] = outs[d][e]
        BY <1>14, <3>2
      <4>2. QED
        BY <1>2, <4>1
    <3>3. QED
      BY <3>1, <3>2
  <2>2. QED
    BY <2>1
<1> HIDE DEF new
<1>16. /\ outs'[d] = new
       /\ outs' \in [Devices -> [Devices -> OutSession]]
       /\ \A c \in Devices \ {d} : outs'[c] = outs[c]
  BY <1>2, <1>12, <1>15
<1>17. \A k \in 1 .. Len(fs) :
           /\ fs[k] \in Devices
           /\ Len(msgs) + k \in 1 .. Len(msgs')
           /\ msgs'[Len(msgs) + k] = Encrypted(d, fs[k], Len(msgs) + k, sync)
           /\ outs'[d][fs[k]] = Advanced(msgs'[Len(msgs) + k])
  BY <1>1, <1>4, <1>6, <1>13, <1>16
<1>18. \A e \in Devices :
           (\A k \in 1 .. Len(fs) : fs[k] # e) => outs'[d][e] = outs[d][e]
  BY <1>14, <1>16
<1>19. \A i \in 1 .. Len(msgs) : i \in 1 .. Len(msgs') /\ msgs'[i] = msgs[i]
  BY <1>4, <1>5
<1>20. QED
  BY <1>1, <1>4, <1>7, <1>16, <1>17, <1>18, <1>19

-----------------------------------------------------------------------------
(* What is requested of IndexedDB                                          *)

(* The puts that delete sessions to, or from, devices of one user.         *)
LEMMA DeletingPuts ==
    ASSUME NEW u \in Users, NEW E \in SUBSET {e \in Devices : UserOf[e] = u}
    PROVE  /\ SetToSeq(Deleted(E)) \in Seq(Puts)
           /\ ToSet(SetToSeq(Deleted(E))) = Deleted(E)
           /\ SetToSeq({PutIn(e, NoIn) : e \in E}) \in Seq(Puts)
           /\ ToSet(SetToSeq({PutIn(e, NoIn) : e \in E})) = {PutIn(e, NoIn) : e \in E}
<1> DEFINE O == Deleted(E)
           I == {PutIn(e, NoIn) : e \in E}
<1>1. IsFiniteSet(E)
  BY DeviceLists, FS_Subset
<1>2. O \in SUBSET Puts /\ I \in SUBSET Puts
  BY PutFields, SessionFields DEF Deleted
<1>3. IsFiniteSet(O)
  <2> DEFINE f == [e \in E |-> PutOut(e, NoOut)]
  <2>1. f \in Surjection(E, O)
    BY DEF Surjection, Deleted
  <2>2. QED
    BY <1>1, <2>1, FS_Surjection
<1>4. IsFiniteSet(I)
  <2> DEFINE f == [e \in E |-> PutIn(e, NoIn)]
  <2>1. f \in Surjection(E, I)
    BY DEF Surjection
  <2>2. QED
    BY <1>1, <2>1, FS_Surjection
<1> HIDE DEF O, I
<1>5. SetToSeq(O) \in Seq(O) /\ ToSet(SetToSeq(O)) = O
  BY <1>3, SetToSeqElements
<1>6. SetToSeq(I) \in Seq(I) /\ ToSet(SetToSeq(I)) = I
  BY <1>4, SetToSeqElements
<1>7. \A S \in SUBSET Puts : \A s \in Seq(S) : s \in Seq(Puts)
  OBVIOUS
<1>8. QED
  BY <1>2, <1>5, <1>6, <1>7 DEF O, I

(* Writes are added after those requested before.                          *)
LEMMA Requested ==
    ASSUME writes \in [Devices -> Seq(Puts)], NEW d \in Devices,
           NEW v \in Seq(Puts), Request(d, v)
    PROVE  /\ writes' \in [Devices -> Seq(Puts)]
           /\ writes[d] \in Seq(Puts)
           /\ writes'[d] = writes[d] \o v
           /\ \A c \in Devices \ {d} : writes'[c] = writes[c]
<1>1. writes[d] \in Seq(Puts)
  OBVIOUS
<1>2. writes[d] \o v \in Seq(Puts)
  BY <1>1, ConcatElements
<1>3. writes' = [writes EXCEPT ![d] = writes[d] \o v]
  BY DEF Request
<1> DEFINE x == writes[d] \o v
<1> HIDE DEF x
<1>4. QED
  BY <1>1, <1>2, <1>3 DEF x

(* One put makes a sequence of puts.                                       *)
LEMMA OnePut ==
    ASSUME NEW x \in Puts
    PROVE  <<x>> \in Seq(Puts) /\ ToSet(<<x>>) = {x}
<1> DEFINE y == <<x>>
<1>1. y \in Seq(Puts) /\ Len(y) = 1 /\ y[1] = x
  OBVIOUS
<1> HIDE DEF y
<1>2. \A z : z \in ToSet(y) <=> \E i \in 1 .. Len(y) : y[i] = z
  BY <1>1, ElementsOf
<1>3. ToSet(y) = {x}
  BY <1>1, <1>2
<1>4. QED
  BY <1>1, <1>3 DEF y

(* The value of a single put.                                              *)
LEMMA ValuesOfOne ==
    ASSUME NEW t, NEW e, NEW x \in Puts
    PROVE  Values(t, e, <<x>>) = IF x.table = t /\ x.key = e THEN {x.value} ELSE {}
<1>1. ToSet(<<x>>) = {x}
  BY OnePut
<1>2. QED
  BY <1>1 DEF Values

(* What a delivery that decrypts requests.                                 *)
LEMMA DeliveryPuts ==
    ASSUME TypeInv, NEW d \in Devices, NEW m \in Message, NEW i \in Nat,
           NEW s \in InSession
    PROVE  LET v == <<PutIn(m.from, s), PutShown(<<"received", i>>)>>
                        \o SetToSeq(Deleted(DroppedOn(d, m)))
           IN  /\ v \in Seq(Puts)
               /\ ToSet(v) = {PutIn(m.from, s), PutShown(<<"received", i>>)}
                                 \cup Deleted(DroppedOn(d, m))
<1> DEFINE E == DroppedOn(d, m)
           a == PutIn(m.from, s)
           b == PutShown(<<"received", i>>)
<1>1. m.from \in Devices
  BY MessageFields
<1>2. E \in SUBSET {e \in Devices : UserOf[e] = UserOf[m.from]} /\ UserOf[m.from] \in Users
  BY <1>1, Owners DEF DroppedOn
<1>3. a \in Puts
  BY <1>1, PutFields
<1>4. b \in Puts
  <2>1. <<"received", i>> \in {"sent", "received"} \X Nat
    OBVIOUS
  <2>2. QED
    BY <2>1, PutFields
<1>5. <<a, b>> \in Seq(Puts) /\ ToSet(<<a, b>>) = {a, b}
  <2> HIDE DEF a, b
  <2>1. <<a, b>> \in Seq(Puts)
    BY <1>3, <1>4
  <2>2. \A y : y \in ToSet(<<a, b>>) <=> \E k \in 1 .. 2 : <<a, b>>[k] = y
    BY <2>1, ElementsOf
  <2>3. QED
    BY <2>1, <2>2
<1>6. SetToSeq(Deleted(E)) \in Seq(Puts) /\ ToSet(SetToSeq(Deleted(E))) = Deleted(E)
  <2> HIDE DEF E
  <2>1. QED
    BY <1>2, DeletingPuts
<1> DEFINE x == <<a, b>>
           y == SetToSeq(Deleted(E))
<1>7. x \in Seq(Puts) /\ y \in Seq(Puts)
  BY <1>5, <1>6
<1> HIDE DEF x, y
<1>8. x \o y \in Seq(Puts) /\ ToSet(x \o y) = ToSet(x) \cup ToSet(y)
  BY <1>7, ConcatElements
<1>9. QED
  BY <1>5, <1>6, <1>8 DEF x, y

-----------------------------------------------------------------------------
(* Every variable keeps its type                                           *)

(* The types, conjunct by conjunct.                                        *)
LEMMA TypesOf ==
    ASSUME TypeInv
    PROVE  /\ msgs \in Seq(Message) /\ Len(msgs) \in Nat
           /\ ws \in [Devices -> WebSocketStates]
           /\ sending \in [Devices -> SUBSET Jobs]
           /\ outs \in [Devices -> [Devices -> OutSession]]
           /\ ins \in [Devices -> [Devices -> InSession]]
           /\ db_outs \in [Devices -> [Devices -> OutSession]]
           /\ db_ins \in [Devices -> [Devices -> InSession]]
           /\ writes \in [Devices -> Seq(Puts)]
           /\ texts \in [Devices -> Nat]
           /\ pendingAcks \in [Devices -> SUBSET Nat]
           /\ up \in [Devices -> Seq(Nat)]
           /\ late \in [Devices -> Seq(Nat)]
           /\ acks \in [Devices -> Seq(Nat)]
           /\ log \in [Users -> Seq(Nat)]
           /\ cursor \in [Devices -> Nat]
           /\ opened \in [Devices -> SUBSET Nat]
           /\ retired \in [Devices -> SUBSET Retired]
BY DEF TypeInv, MemoryTypes, MessageTypes

(* Nothing has happened yet.                                               *)
LEMMA InitTypes == Init => TypeInv
<1> SUFFICES ASSUME Init PROVE TypeInv
  OBVIOUS
<1>1. NoOut \in OutSession /\ NoIn \in InSession
  BY SessionFields
<1>2. MemoryTypes
  BY <1>1 DEF Init, MemoryTypes, WebSocketStates
<1>3. MessageTypes
  BY DEF Init, MessageTypes
<1>4. Indices
  <2>1. ToSet(<<>>) = {} /\ Len(<<>>) = 0
    BY DEF ToSet
  <2>2. QED
    BY <2>1, Owners DEF Init, Indices
<1>5. QED
  BY <1>2, <1>3, <1>4 DEF TypeInv

(* The indices stay while messages are only added.                         *)
LEMMA SendingTypes ==
    ASSUME TypeInv, NEW d \in Devices, NEW fs \in Seq(Devices), Distinct(fs),
           NEW sync \in BOOLEAN, Sends(d, fs, sync),
           UNCHANGED <<late, acks, log, cursor, opened, retired>>
    PROVE  MessageTypes' /\ Indices'
<1> DEFINE l == Len(msgs)
           k == Len(fs)
<1>1. /\ msgs' \in Seq(Message) /\ l \in Nat /\ k \in Nat /\ Len(msgs') = l + k
  BY SendsFields
<1>2. 1 .. l \subseteq 1 .. l + k /\ l + 1 .. l + k \subseteq 1 .. l + k /\ l + 1 .. l + k \subseteq Nat
  BY <1>1
<1>3. /\ pendingAcks' \in [Devices -> SUBSET Nat]
      /\ \A c \in Devices : pendingAcks'[c] \subseteq pendingAcks[c] \cup (l + 1 .. l + k)
  <2>1. PICK P \in SUBSET (l + 1 .. l + k) : pendingAcks' = [pendingAcks EXCEPT ![d] = @ \cup P]
    BY DEF Sends
  <2>2. P \subseteq Nat
    BY <1>2
  <2>3. pendingAcks \in [Devices -> SUBSET Nat]
    BY TypesOf
  <2>4. QED
    BY <2>1, <2>2, <2>3
<1>4. /\ up' \in [Devices -> Seq(Nat)]
      /\ \A c \in Devices : ToSet(up'[c]) \subseteq ToSet(up[c]) \cup (l + 1 .. l + k)
  <2> DEFINE new == NewIndices(fs)
  <2>1. new \in Seq(Nat) /\ ToSet(new) \subseteq l + 1 .. l + k
    <3>1. new \in [1 .. k -> l + 1 .. l + k]
      BY <1>1 DEF NewIndices
    <3> HIDE DEF new
    <3>2. new \in Seq(l + 1 .. l + k)
      BY <1>1, <3>1
    <3>3. ToSet(new) \subseteq l + 1 .. l + k
      BY <3>2, ElementsInRange
    <3>4. QED
      BY <1>2, <3>2, <3>3
  <2>2. up \in [Devices -> Seq(Nat)] /\ up[d] \in Seq(Nat)
    BY TypesOf
  <2> HIDE DEF new
  <2>3. up[d] \o new \in Seq(Nat) /\ ToSet(up[d] \o new) = ToSet(up[d]) \cup ToSet(new)
    BY <2>1, <2>2, ConcatElements
  <2>4. up' = [up EXCEPT ![d] = up[d] \o new] \/ up' = up
    BY DEF Sends, new
  <2> DEFINE x == up[d] \o new
  <2> HIDE DEF x
  <2>5. up' = [up EXCEPT ![d] = x] \/ up' = up
    BY <2>4 DEF x
  <2>6. x \in Seq(Nat) /\ ToSet(x) = ToSet(up[d]) \cup ToSet(new)
    BY <2>3 DEF x
  <2>7. QED
    BY <2>1, <2>2, <2>5, <2>6
<1> HIDE DEF l, k
<1>5. MessageTypes'
  BY <1>1, <1>3, <1>4, TypesOf DEF MessageTypes
<1>6. Indices'
  <2>1. Indices
    BY DEF TypeInv
  <2>2. 1 .. Len(msgs') = 1 .. l + k
    BY <1>1
  <2>3. ASSUME NEW c \in Devices
        PROVE  /\ pendingAcks'[c] \subseteq 1 .. Len(msgs')
               /\ ToSet(up'[c]) \subseteq 1 .. Len(msgs')
               /\ ToSet(late'[c]) \subseteq 1 .. Len(msgs')
               /\ ToSet(acks'[c]) \subseteq 1 .. Len(msgs')
               /\ opened'[c] \subseteq 1 .. Len(msgs')
               /\ cursor'[c] <= Len(log'[UserOf[c]])
               /\ \A x \in retired'[c] : x.awaiting \subseteq 1 .. Len(msgs')
    <3>1. /\ pendingAcks[c] \subseteq 1 .. l /\ ToSet(up[c]) \subseteq 1 .. l
          /\ ToSet(late[c]) \subseteq 1 .. l /\ ToSet(acks[c]) \subseteq 1 .. l
          /\ opened[c] \subseteq 1 .. l
          /\ cursor[c] <= Len(log[UserOf[c]])
          /\ \A x \in retired[c] : x.awaiting \subseteq 1 .. l
      BY <2>1 DEF Indices, l
    <3>2. QED
      BY <1>2, <1>3, <1>4, <2>2, <3>1
  <2>4. \A u \in Users : ToSet(log'[u]) \subseteq 1 .. Len(msgs')
    BY <1>2, <2>1, <2>2 DEF Indices, l
  <2>5. QED
    BY <2>3, <2>4 DEF Indices
<1>7. QED
  BY <1>5, <1>6

(* Frames and Acks go with the socket.                                     *)
LEMMA LossTypes ==
    ASSUME TypeInv, NEW d \in Devices, SocketLost(d)
    PROVE  /\ ws' \in [Devices -> WebSocketStates]
           /\ up' \in [Devices -> Seq(Nat)] /\ acks' \in [Devices -> Seq(Nat)]
           /\ late' \in [Devices -> Seq(Nat)]
           /\ \A c \in Devices :
                 /\ ToSet(up'[c]) \subseteq ToSet(up[c])
                 /\ ToSet(acks'[c]) \subseteq ToSet(acks[c])
                 /\ ToSet(late'[c]) \subseteq ToSet(late[c]) \cup ToSet(up[c])
<1>1. ws' \in [Devices -> WebSocketStates]
  BY TypesOf DEF SocketLost, WebSocketStates
<1>2. ToSet(<<>>) = {}
  BY DEF ToSet
<1>3. /\ up' = [up EXCEPT ![d] = <<>>] /\ acks' = [acks EXCEPT ![d] = <<>>]
      /\ up \in [Devices -> Seq(Nat)] /\ acks \in [Devices -> Seq(Nat)]
      /\ late \in [Devices -> Seq(Nat)]
  BY TypesOf DEF SocketLost
<1>4. PICK n \in 0 .. Len(up[d]) : late' = [late EXCEPT ![d] = late[d] \o SubSeq(up[d], 1, n)]
  BY DEF SocketLost
<1> DEFINE p == SubSeq(up[d], 1, n)
           x == late[d] \o p
<1>5. p \in Seq(Nat) /\ ToSet(p) \subseteq ToSet(up[d])
  BY <1>3, PrefixElements
<1> HIDE DEF p
<1>6. x \in Seq(Nat) /\ ToSet(x) = ToSet(late[d]) \cup ToSet(p)
  BY <1>3, <1>5, ConcatElements
<1>7. late' = [late EXCEPT ![d] = x]
  BY <1>4 DEF p
<1> HIDE DEF x
<1>8. QED
  BY <1>1, <1>2, <1>3, <1>5, <1>6, <1>7

(* A message that is stored.                                               *)
LEMMA StoredTypes ==
    ASSUME TypeInv, NEW i \in 1 .. Len(msgs), Stored(i)
    PROVE  /\ log' \in [Users -> Seq(Nat)]
           /\ msgs[i] \in Message /\ msgs[i].to \in Devices /\ UserOf[msgs[i].to] \in Users
           /\ \A u \in Users :
                 \/ log'[u] = log[u] /\ u # UserOf[msgs[i].to]
                 \/ log'[u] = Append(log[u], i) /\ u = UserOf[msgs[i].to]
           /\ \A u \in Users :
                 /\ ToSet(log'[u]) \subseteq ToSet(log[u]) \cup {i}
                 /\ ToSet(log[u]) \subseteq ToSet(log'[u])
                 /\ Len(log[u]) <= Len(log'[u])
                 /\ \A p \in 1 .. Len(log[u]) : log'[u][p] = log[u][p]
           /\ i \in ToSet(log'[UserOf[msgs[i].to]])
<1>1. msgs[i] \in Message
  BY TypesOf
<1>2. msgs[i].to \in Devices /\ UserOf[msgs[i].to] \in Users
  BY <1>1, MessageFields, Owners
<1> DEFINE v == UserOf[msgs[i].to]
<1>3. log \in [Users -> Seq(Nat)] /\ i \in Nat
  BY TypesOf
<1> DEFINE x == Append(log[v], i)
<1>4. log' = [log EXCEPT ![v] = x]
  BY DEF Stored
<1> HIDE DEF v
<1>5. log[v] \in Seq(Nat) /\ v \in Users
  BY <1>2, <1>3 DEF v
<1>6. /\ x \in Seq(Nat) /\ Len(x) = Len(log[v]) + 1 /\ ToSet(x) = ToSet(log[v]) \cup {i}
      /\ \A p \in 1 .. Len(log[v]) : x[p] = log[v][p]
  BY <1>3, <1>5, AppendElements
<1>7. Len(log[v]) \in Nat /\ \A u \in Users : Len(log[u]) \in Nat
  BY <1>3, <1>5
<1> HIDE DEF x
<1>8. /\ log' \in [Users -> Seq(Nat)] /\ log'[v] = x
      /\ \A u \in Users \ {v} : log'[u] = log[u]
  BY <1>3, <1>4, <1>5, <1>6
<1>9. \A u \in Users :
         \/ log'[u] = log[u] /\ u # v
         \/ log'[u] = Append(log[u], i) /\ u = v
  BY <1>8 DEF x
<1>10. ASSUME NEW u \in Users
       PROVE  /\ ToSet(log'[u]) \subseteq ToSet(log[u]) \cup {i}
              /\ ToSet(log[u]) \subseteq ToSet(log'[u])
              /\ Len(log[u]) <= Len(log'[u])
              /\ \A p \in 1 .. Len(log[u]) : log'[u][p] = log[u][p]
  <2>1. CASE u = v
    <3>1. log'[u] = x /\ log[u] = log[v]
      BY <1>8, <2>1
    <3>2. QED
      BY <1>6, <1>7, <3>1
  <2>2. CASE u # v
    <3>1. log'[u] = log[u] /\ Len(log[u]) \in Nat
      BY <1>7, <1>8, <2>2
    <3>2. QED
      BY <3>1
  <2>3. QED
    BY <2>1, <2>2
<1>11. i \in ToSet(log'[v])
  BY <1>6, <1>8
<1>12. QED
  BY <1>1, <1>2, <1>8, <1>9, <1>10, <1>11 DEF v

-----------------------------------------------------------------------------
(* What each kind of step leaves                                           *)

(* The state that an Ack lets be persisted.                                *)
LEMMA AckEffects ==
    ASSUME TypeInv, NEW d \in Devices, OnAck(d)
    PROVE  LET i == Head(acks[d])
               x == PutOut(msgs[i].to, Advanced(msgs[i]))
           IN  /\ i \in 1 .. Len(msgs) /\ msgs[i] \in Message /\ msgs[i].to \in Devices
               /\ x \in Puts /\ Advanced(msgs[i]) \in OutSession
               /\ acks' \in [Devices -> Seq(Nat)]
               /\ acks' = [acks EXCEPT ![d] = Tail(@)]
               /\ \A c \in Devices : ToSet(acks'[c]) \subseteq ToSet(acks[c])
               /\ ToSet(acks[d]) = {i} \cup ToSet(acks'[d])
               /\ pendingAcks' \in [Devices -> SUBSET Nat]
               /\ pendingAcks'[d] = pendingAcks[d] \ {i}
               /\ \A c \in Devices : pendingAcks'[c] \subseteq pendingAcks[c]
               /\ \A c \in Devices \ {d} : pendingAcks'[c] = pendingAcks[c]
               /\ \/ i \in pendingAcks[d] /\ Request(d, <<x>>)
                  \/ i \notin pendingAcks[d] /\ writes' = writes
<1> DEFINE i == Head(acks[d])
<1>1. acks \in [Devices -> Seq(Nat)] /\ pendingAcks \in [Devices -> SUBSET Nat]
  BY TypesOf
<1>2. acks[d] # <<>> /\ acks[d] \in Seq(Nat) /\ acks' = [acks EXCEPT ![d] = Tail(acks[d])]
  BY <1>1 DEF OnAck
<1>3. Tail(acks[d]) \in Seq(Nat) /\ ToSet(acks[d]) = {i} \cup ToSet(Tail(acks[d]))
  BY <1>2, TailElements
<1>4. ToSet(acks[d]) \subseteq 1 .. Len(msgs)
  BY DEF TypeInv, Indices
<1> HIDE DEF i
<1>5. i \in 1 .. Len(msgs) /\ msgs[i] \in Message
  <2>1. i \in ToSet(acks[d])
    BY <1>3
  <2>2. msgs \in Seq(Message)
    BY TypesOf
  <2>3. QED
    BY <1>4, <2>1, <2>2
<1>6. msgs[i].to \in Devices /\ msgs[i].id \in Nat /\ msgs[i].n \in Nat
  BY <1>5, MessageFields
<1>7. Advanced(msgs[i]) \in OutSession
  BY <1>6 DEF Advanced, OutSession
<1>8. PutOut(msgs[i].to, Advanced(msgs[i])) \in Puts
  BY <1>6, <1>7, PutFields
<1>9. pendingAcks' = [pendingAcks EXCEPT ![d] = @ \ {i}]
  BY DEF OnAck, i
<1>10. /\ pendingAcks' \in [Devices -> SUBSET Nat]
       /\ pendingAcks'[d] = pendingAcks[d] \ {i}
       /\ \A c \in Devices : pendingAcks'[c] \subseteq pendingAcks[c]
       /\ \A c \in Devices \ {d} : pendingAcks'[c] = pendingAcks[c]
  BY <1>1, <1>9
<1>11. \/ i \in pendingAcks[d] /\ Request(d, <<PutOut(msgs[i].to, Advanced(msgs[i]))>>)
       \/ i \notin pendingAcks[d] /\ writes' = writes
  BY DEF OnAck, PendingState, i
<1>12. /\ acks' \in [Devices -> Seq(Nat)] /\ acks'[d] = Tail(acks[d])
       /\ \A c \in Devices \ {d} : acks'[c] = acks[c]
  BY <1>1, <1>2, <1>3
<1>13. \A c \in Devices : ToSet(acks'[c]) \subseteq ToSet(acks[c])
  BY <1>3, <1>12
<1>14. acks' = [acks EXCEPT ![d] = Tail(@)]
  BY <1>2
<1>15. ToSet(acks[d]) = {i} \cup ToSet(acks'[d])
  BY <1>3, <1>12
<1> DEFINE x == PutOut(msgs[i].to, Advanced(msgs[i]))
<1>16. x \in Puts
  BY <1>8
<1>17. \/ i \in pendingAcks[d] /\ Request(d, <<x>>)
       \/ i \notin pendingAcks[d] /\ writes' = writes
  BY <1>11, Zenon
<1> HIDE DEF x
<1>18. QED
  BY <1>5, <1>6, <1>7, <1>10, <1>12, <1>13, <1>14, <1>15, <1>16, <1>17 DEF x, i

(* Sessions that are deleted from memory.                                  *)
LEMMA WithoutFields ==
    ASSUME TypeInv, NEW d \in Devices, NEW E, outs' = Without(d, E)
    PROVE  /\ outs' \in [Devices -> [Devices -> OutSession]]
           /\ \A c \in Devices \ {d} : outs'[c] = outs[c]
           /\ \A e \in Devices : outs'[d][e] = IF e \in E THEN NoOut ELSE outs[d][e]
<1>1. outs \in [Devices -> [Devices -> OutSession]] /\ NoOut \in OutSession
  BY TypesOf, SessionFields
<1> DEFINE f == [e \in Devices |-> IF e \in E THEN NoOut ELSE outs[d][e]]
<1>2. f \in [Devices -> OutSession]
  BY <1>1
<1>3. outs' = [outs EXCEPT ![d] = f]
  BY DEF Without
<1>4. \A e \in Devices : f[e] = IF e \in E THEN NoOut ELSE outs[d][e]
  OBVIOUS
<1> HIDE DEF f
<1>5. QED
  BY <1>1, <1>2, <1>3, <1>4

(* A session that has received.                                            *)
LEMMA ReceivedType ==
    ASSUME NEW s \in InSession, NEW m \in Message
    PROVE  Received(s, m) \in InSession
<1>1. /\ m.id \in Nat /\ m.n \in Nat /\ s.id \in Nat /\ s.n \in Nat
      /\ s.skipped \in SUBSET Nat
  BY MessageFields, SessionFields
<1>2. s = [id |-> s.id, n |-> s.n, skipped |-> s.skipped]
  BY DEF InSession
<1>3. \A i, n \in Nat, K \in SUBSET Nat : [id |-> i, n |-> n, skipped |-> K] \in InSession
  BY DEF InSession
<1>4. CASE m.type = "init"
  <2>1. Received(s, m) = [id |-> m.id, n |-> 1, skipped |-> {}]
    BY <1>4 DEF Received
  <2>2. QED
    BY <1>1, <1>3, <2>1
<1>5. CASE m.type # "init" /\ m.n \in s.skipped
  <2>1. Received(s, m) = [id |-> s.id, n |-> s.n, skipped |-> s.skipped \ {m.n}]
    BY <1>2, <1>5 DEF Received
  <2>2. QED
    BY <1>1, <1>3, <2>1
<1>6. CASE m.type # "init" /\ m.n \notin s.skipped
  <2>1. Received(s, m) =
            [id |-> s.id, n |-> m.n + 1, skipped |-> s.skipped \cup SkippedOnTheWay(s, m)]
    BY <1>2, <1>6 DEF Received
  <2>2. SkippedOnTheWay(s, m) \subseteq Nat
    BY <1>1 DEF SkippedOnTheWay
  <2>3. QED
    BY <1>1, <1>3, <2>1, <2>2
<1>7. QED
  BY <1>4, <1>5, <1>6

(* A delivery that decrypts.                                               *)
LEMMA DeliveryEffects ==
    ASSUME TypeInv, NEW d \in Devices, OnDelivery(d)
    PROVE  LET i == NextIndex(d)
               m == msgs[i]
               s == Received(ins[d][m.from], m)
               E == DroppedOn(d, m)
               v == <<PutIn(m.from, s), PutShown(<<"received", i>>)>> \o SetToSeq(Deleted(E))
           IN  /\ i \in 1 .. Len(msgs) /\ m \in Message /\ m.from \in Devices /\ m.to = d
               /\ cursor[d] + 1 \in 1 .. Len(log[UserOf[d]])
               /\ Decrypts(ins[d][m.from], m)
               /\ ins[d][m.from] \in InSession /\ s \in InSession
               /\ ins' \in [Devices -> [Devices -> InSession]]
               /\ ins'[d][m.from] = s
               /\ \A c, e \in Devices : c # d \/ e # m.from => ins'[c][e] = ins[c][e]
               /\ outs' = Without(d, E)
               /\ E \in SUBSET {e \in Devices : UserOf[e] = UserOf[m.from]}
               /\ v \in Seq(Puts) /\ Request(d, v)
               /\ ToSet(v) = {PutIn(m.from, s), PutShown(<<"received", i>>)} \cup Deleted(E)
               /\ opened' \in [Devices -> SUBSET Nat]
               /\ opened'[d] = opened[d] \cup {i}
               /\ \A c \in Devices \ {d} : opened'[c] = opened[c]
               /\ cursor' \in [Devices -> Nat] /\ cursor'[d] = cursor[d] + 1
               /\ \A c \in Devices \ {d} : cursor'[c] = cursor[c]
<1> DEFINE i == NextIndex(d)
           m == msgs[i]
           s == Received(ins[d][m.from], m)
           E == DroppedOn(d, m)
           v == <<PutIn(m.from, s), PutShown(<<"received", i>>)>> \o SetToSeq(Deleted(E))
<1>1. log \in [Users -> Seq(Nat)] /\ UserOf[d] \in Users /\ cursor \in [Devices -> Nat]
  BY TypesOf, Owners
<1>2. log[UserOf[d]] \in Seq(Nat) /\ cursor[d] \in Nat
  BY <1>1
<1>3. cursor[d] < Len(log[UserOf[d]])
  BY DEF OnDelivery, HasNext
<1>4. cursor[d] + 1 \in 1 .. Len(log[UserOf[d]])
  BY <1>2, <1>3
<1>5. i \in ToSet(log[UserOf[d]])
  BY <1>2, <1>4, ElementsOf DEF NextIndex
<1>6. ToSet(log[UserOf[d]]) \subseteq 1 .. Len(msgs)
  BY <1>1 DEF TypeInv, Indices
<1>7. m.to = d /\ Decrypts(ins[d][m.from], m) /\ Request(d, <<PutIn(m.from, ins'[d][m.from]),
         PutShown(<<"received", i>>)>> \o SetToSeq(Deleted(E))) /\ outs' = Without(d, E)
      /\ ins' = InsAfter(d, m)
      /\ opened' = [opened EXCEPT ![d] = @ \cup {i}]
      /\ cursor' = [cursor EXCEPT ![d] = @ + 1]
  BY DEF OnDelivery
<1> HIDE DEF i
<1>8. i \in 1 .. Len(msgs) /\ i \in Nat /\ m \in Message
  BY <1>5, <1>6, TypesOf
<1> HIDE DEF m
<1>9. m.from \in Devices
  BY <1>8, MessageFields
<1>10. ins \in [Devices -> [Devices -> InSession]] /\ ins[d][m.from] \in InSession
  BY <1>9, TypesOf
<1>11. s \in InSession
  BY <1>8, <1>10, ReceivedType
<1>12. ins' = [ins EXCEPT ![d][m.from] = s]
  BY <1>7 DEF InsAfter, m
<1> HIDE DEF s
<1>13. /\ ins' \in [Devices -> [Devices -> InSession]]
       /\ ins'[d][m.from] = s
       /\ \A c, e \in Devices : c # d \/ e # m.from => ins'[c][e] = ins[c][e]
  BY <1>9, <1>10, <1>11, <1>12
<1>14. E \in SUBSET {e \in Devices : UserOf[e] = UserOf[m.from]}
  BY DEF DroppedOn
<1>15. v \in Seq(Puts) /\ ToSet(v) = {PutIn(m.from, s), PutShown(<<"received", i>>)}
                                         \cup Deleted(E)
  BY <1>8, <1>11, DeliveryPuts
<1>16. Request(d, v)
  BY <1>7, <1>13
<1>17. /\ opened' \in [Devices -> SUBSET Nat]
       /\ opened'[d] = opened[d] \cup {i}
       /\ \A c \in Devices \ {d} : opened'[c] = opened[c]
  BY <1>7, <1>8, TypesOf
<1>18. /\ cursor' \in [Devices -> Nat] /\ cursor'[d] = cursor[d] + 1
       /\ \A c \in Devices \ {d} : cursor'[c] = cursor[c]
  BY <1>1, <1>2, <1>7
<1> HIDE DEF E, v
<1>19. QED
  BY <1>4, <1>7, <1>8, <1>9, <1>10, <1>11, <1>13, <1>14, <1>15, <1>16, <1>17, <1>18
     DEF i, m, s, E, v

(* A session reset.                                                        *)
LEMMA ResetEffects ==
    ASSUME TypeInv, NEW d \in Devices, NEW u \in Users, ResetSession(d, u)
    PROVE  LET E == {e \in Devices : UserOf[e] = u /\ outs[d][e] # NoOut}
               F == {e \in Devices : UserOf[e] = u /\ ins[d][e] # NoIn}
               v == SetToSeq(Deleted(E)) \o SetToSeq({PutIn(e, NoIn) : e \in F})
           IN  /\ outs' = Without(d, E)
               /\ ins' \in [Devices -> [Devices -> InSession]]
               /\ \A c \in Devices \ {d} : ins'[c] = ins[c]
               /\ \A e \in Devices : ins'[d][e] = IF e \in F THEN NoIn ELSE ins[d][e]
               /\ v \in Seq(Puts) /\ Request(d, v)
               /\ ToSet(v) = Deleted(E) \cup {PutIn(e, NoIn) : e \in F}
               /\ retired' \in [Devices -> SUBSET Retired]
               /\ \A c \in Devices \ {d} : retired'[c] = retired[c]
               /\ retired'[d] = retired[d] \cup
                     {[id |-> outs[d][e].id, awaiting |-> pendingAcks[d]] : e \in E}
<1> DEFINE E == {e \in Devices : UserOf[e] = u /\ outs[d][e] # NoOut}
           F == {e \in Devices : UserOf[e] = u /\ ins[d][e] # NoIn}
           a == SetToSeq(Deleted(E))
           b == SetToSeq({PutIn(e, NoIn) : e \in F})
           R == {[id |-> outs[d][e].id, awaiting |-> pendingAcks[d]] : e \in E}
           f == [e \in Devices |-> IF e \in F THEN NoIn ELSE ins[d][e]]
<1>1. /\ outs' = Without(d, E) /\ ins' = [ins EXCEPT ![d] = f] /\ Request(d, a \o b)
      /\ retired' = [retired EXCEPT ![d] = @ \cup R]
  BY DEF ResetSession
<1>2. /\ E \in SUBSET {e \in Devices : UserOf[e] = u}
      /\ F \in SUBSET {e \in Devices : UserOf[e] = u}
  OBVIOUS
<1>3. R \subseteq Retired
  <2>1. outs \in [Devices -> [Devices -> OutSession]] /\ pendingAcks[d] \in SUBSET Nat
    BY TypesOf
  <2>2. \A e \in E : outs[d][e].id \in Nat
    BY <2>1, SessionFields
  <2>3. QED
    BY <2>1, <2>2 DEF Retired
<1>4. ins \in [Devices -> [Devices -> InSession]] /\ NoIn \in InSession
      /\ retired \in [Devices -> SUBSET Retired]
  BY TypesOf, SessionFields
<1>5. f \in [Devices -> InSession] /\ \A e \in Devices : f[e] = IF e \in F THEN NoIn ELSE ins[d][e]
  BY <1>4
<1> HIDE DEF E, F, R, f
<1>6. /\ ToSet(a) = Deleted(E) /\ ToSet(b) = {PutIn(e, NoIn) : e \in F}
      /\ a \in Seq(Puts) /\ b \in Seq(Puts)
  BY <1>2, DeletingPuts
<1> HIDE DEF a, b
<1>7. a \o b \in Seq(Puts) /\ ToSet(a \o b) = ToSet(a) \cup ToSet(b)
  BY <1>6, ConcatElements
<1>8. /\ ins' \in [Devices -> [Devices -> InSession]]
      /\ \A c \in Devices \ {d} : ins'[c] = ins[c]
      /\ \A e \in Devices : ins'[d][e] = IF e \in F THEN NoIn ELSE ins[d][e]
  BY <1>1, <1>4, <1>5
<1>9. /\ retired' \in [Devices -> SUBSET Retired]
      /\ \A c \in Devices \ {d} : retired'[c] = retired[c]
      /\ retired'[d] = retired[d] \cup R
  BY <1>1, <1>3, <1>4
<1>10. QED
  BY <1>1, <1>6, <1>7, <1>8, <1>9 DEF E, F, R, a, b

(* A reload: what had been written, or a part of it, is what there is.     *)
LEMMA ReloadEffects ==
    ASSUME TypeInv, NEW d \in Devices, Reload(d)
    PROVE  /\ outs' \in [Devices -> [Devices -> OutSession]]
           /\ db_outs' \in [Devices -> [Devices -> OutSession]]
           /\ ins' \in [Devices -> [Devices -> InSession]]
           /\ db_ins' \in [Devices -> [Devices -> InSession]]
           /\ \A c \in Devices \ {d} :
                 /\ outs'[c] = outs[c] /\ db_outs'[c] = db_outs[c]
                 /\ ins'[c] = ins[c] /\ db_ins'[c] = db_ins[c]
           /\ \A e \in Devices :
                 /\ db_outs'[d][e] \in {db_outs[d][e]} \cup Values("outs", e, writes[d])
                 /\ outs'[d][e] = db_outs'[d][e]
                 /\ db_ins'[d][e] \in {db_ins[d][e]} \cup Values("ins", e, writes[d])
                 /\ ins'[d][e] = db_ins'[d][e]
           /\ writes' \in [Devices -> Seq(Puts)]
           /\ writes'[d] = <<>> /\ \A c \in Devices \ {d} : writes'[c] = writes[c]
           /\ pendingAcks' \in [Devices -> SUBSET Nat]
           /\ pendingAcks'[d] = {}
           /\ \A c \in Devices \ {d} : pendingAcks'[c] = pendingAcks[c]
<1>1. /\ outs \in [Devices -> [Devices -> OutSession]]
      /\ db_outs \in [Devices -> [Devices -> OutSession]]
      /\ ins \in [Devices -> [Devices -> InSession]]
      /\ db_ins \in [Devices -> [Devices -> InSession]]
      /\ writes \in [Devices -> Seq(Puts)] /\ writes[d] \in Seq(Puts)
      /\ pendingAcks \in [Devices -> SUBSET Nat]
  BY TypesOf
<1>2. PICK n \in 0 .. Len(writes[d]) :
         /\ db_outs' = [db_outs EXCEPT ![d] = Committed("outs", @, SubSeq(writes[d], 1, n))]
         /\ db_ins' = [db_ins EXCEPT ![d] = Committed("ins", @, SubSeq(writes[d], 1, n))]
  BY DEF Reload
<1> DEFINE w == SubSeq(writes[d], 1, n)
           o == Committed("outs", db_outs[d], w)
           i == Committed("ins", db_ins[d], w)
<1>3. w \in Seq(Puts) /\ ToSet(w) \subseteq ToSet(writes[d])
  BY <1>1, PrefixElements
<1> HIDE DEF w
<1>4. \A t, e : Values(t, e, w) \subseteq Values(t, e, writes[d])
  BY <1>3 DEF Values
<1>5. \A e \in Devices : /\ o[e] \in {db_outs[d][e]} \cup Values("outs", e, w)
                         /\ i[e] \in {db_ins[d][e]} \cup Values("ins", e, w)
  <2>1. ASSUME NEW e \in Devices
        PROVE  /\ o[e] \in {db_outs[d][e]} \cup Values("outs", e, w)
               /\ i[e] \in {db_ins[d][e]} \cup Values("ins", e, w)
    <3>1. <<>> \in Seq(Puts)
      OBVIOUS
    <3>2. QED
      BY <1>3, <3>1, CommittedMore
  <2>2. QED
    BY <2>1
<1>6. \A e \in Devices : /\ Values("outs", e, w) \subseteq OutSession
                         /\ Values("ins", e, w) \subseteq InSession
  BY <1>3, ValueTypes
<1>7. /\ \A e \in Devices : o[e] \in OutSession /\ i[e] \in InSession
      /\ o = [e \in Devices |-> o[e]] /\ i = [e \in Devices |-> i[e]]
  <2>1. \A e \in Devices : o[e] \in OutSession /\ i[e] \in InSession
    <3> HIDE DEF o, i
    <3>1. QED
      BY <1>1, <1>5, <1>6
  <2>2. o = [e \in Devices |-> o[e]] /\ i = [e \in Devices |-> i[e]]
    BY DEF Committed
  <2>3. QED
    BY <2>1, <2>2
<1>8. /\ db_outs' = [db_outs EXCEPT ![d] = o] /\ db_ins' = [db_ins EXCEPT ![d] = i]
  BY <1>2 DEF w
<1>9. /\ outs' = [outs EXCEPT ![d] = db_outs'[d]] /\ ins' = [ins EXCEPT ![d] = db_ins'[d]]
      /\ writes' = [writes EXCEPT ![d] = <<>>]
      /\ pendingAcks' = [pendingAcks EXCEPT ![d] = {}]
  BY DEF Reload
<1> HIDE DEF o, i
<1>10. o \in [Devices -> OutSession] /\ i \in [Devices -> InSession]
  BY <1>7
<1>11. /\ db_outs' \in [Devices -> [Devices -> OutSession]] /\ db_outs'[d] = o
       /\ \A c \in Devices \ {d} : db_outs'[c] = db_outs[c]
  BY <1>1, <1>8, <1>10
<1>12. /\ db_ins' \in [Devices -> [Devices -> InSession]] /\ db_ins'[d] = i
       /\ \A c \in Devices \ {d} : db_ins'[c] = db_ins[c]
  BY <1>1, <1>8, <1>10
<1>13. /\ outs' \in [Devices -> [Devices -> OutSession]] /\ outs'[d] = o
       /\ \A c \in Devices \ {d} : outs'[c] = outs[c]
  BY <1>1, <1>9, <1>10, <1>11
<1>14. /\ ins' \in [Devices -> [Devices -> InSession]] /\ ins'[d] = i
       /\ \A c \in Devices \ {d} : ins'[c] = ins[c]
  BY <1>1, <1>9, <1>10, <1>12
<1>15. /\ writes' \in [Devices -> Seq(Puts)]
       /\ writes'[d] = <<>> /\ \A c \in Devices \ {d} : writes'[c] = writes[c]
  BY <1>1, <1>9
<1>16. /\ pendingAcks' \in [Devices -> SUBSET Nat]
       /\ pendingAcks'[d] = {}
       /\ \A c \in Devices \ {d} : pendingAcks'[c] = pendingAcks[c]
  BY <1>1, <1>9
<1>17. ASSUME NEW e \in Devices
       PROVE  /\ db_outs'[d][e] \in {db_outs[d][e]} \cup Values("outs", e, writes[d])
              /\ outs'[d][e] = db_outs'[d][e]
              /\ db_ins'[d][e] \in {db_ins[d][e]} \cup Values("ins", e, writes[d])
              /\ ins'[d][e] = db_ins'[d][e]
  BY <1>4, <1>5, <1>11, <1>12, <1>13, <1>14
<1>18. QED
  BY <1>11, <1>12, <1>13, <1>14, <1>15, <1>16, <1>17

-----------------------------------------------------------------------------
(* The types are kept by every step                                        *)

(* Steps that speak of no message.                                         *)
LEMMA QuietTypes ==
    ASSUME TypeInv, NEW d \in Devices,
           \/ Connect(d) \/ OnOpen(d)
           \/ \E u \in Users : SendMessage(d, u)
           \/ \E j \in sending[d] : FetchFailed(d, j)
    PROVE  TypeInv'
<1>1. UNCHANGED <<msgs, outs, ins, pendingAcks, dbVars, relayVars, cursor, opened, retired,
                  drops, reloads>>
  BY DEF Connect, OnOpen, SendMessage, FetchFailed, memoryVars, boundVars
<1>2. MessageTypes' /\ Indices'
  BY <1>1 DEF TypeInv, MessageTypes, Indices, relayVars
<1>3. ws' \in [Devices -> WebSocketStates] /\ texts' \in [Devices -> Nat]
  <2>1. ws \in [Devices -> WebSocketStates] /\ texts \in [Devices -> Nat]
    BY TypesOf
  <2>2. CASE UNCHANGED texts
    BY <2>1, <2>2 DEF Connect, OnOpen, SendMessage, FetchFailed, WebSocketStates
  <2>3. CASE \E u \in Users : SendMessage(d, u)
    BY <2>1, <2>3 DEF SendMessage
  <2>4. QED
    BY <2>2, <2>3 DEF Connect, OnOpen, FetchFailed, boundVars
<1>4. sending' \in [Devices -> SUBSET Jobs]
  <2>1. sending \in [Devices -> SUBSET Jobs] /\ texts' \in [Devices -> Nat]
    BY <1>3, TypesOf
  <2>2. CASE UNCHANGED sending
    BY <2>1, <2>2
  <2>3. CASE \E u \in Users : SendMessage(d, u)
    <3>1. PICK u \in Users : SendMessage(d, u)
      BY <2>3
    <3> DEFINE j == [text |-> texts'[d], to |-> u, awaits |-> "recipient"]
    <3>2. sending' = [sending EXCEPT ![d] = @ \cup {j}]
      BY <3>1 DEF SendMessage
    <3>3. j \in Jobs
      BY <2>1 DEF Jobs
    <3> HIDE DEF j
    <3>4. QED
      BY <2>1, <3>2, <3>3
  <2>4. CASE \E j \in sending[d] : FetchFailed(d, j)
    BY <2>1, <2>4 DEF FetchFailed
  <2>5. QED
    BY <2>2, <2>3, <2>4 DEF Connect, OnOpen, memoryVars
<1>5. MemoryTypes'
  BY <1>1, <1>3, <1>4 DEF TypeInv, MemoryTypes, dbVars
<1>6. QED
  BY <1>2, <1>5 DEF TypeInv

(* A socket that is lost.                                                  *)
LEMMA OnCloseTypes ==
    ASSUME TypeInv, NEW d \in Devices, OnClose(d)
    PROVE  TypeInv'
<1>1. SocketLost(d) /\ drops' = drops + 1
      /\ UNCHANGED <<msgs, memoryVars, dbVars, log, cursor, opened, retired, texts, reloads>>
  BY DEF OnClose
<1>2. /\ ws' \in [Devices -> WebSocketStates]
      /\ up' \in [Devices -> Seq(Nat)] /\ acks' \in [Devices -> Seq(Nat)]
      /\ late' \in [Devices -> Seq(Nat)]
      /\ \A c \in Devices :
            /\ ToSet(up'[c]) \subseteq ToSet(up[c])
            /\ ToSet(acks'[c]) \subseteq ToSet(acks[c])
            /\ ToSet(late'[c]) \subseteq ToSet(late[c]) \cup ToSet(up[c])
  BY <1>1, LossTypes
<1>3. MemoryTypes'
  BY <1>1, <1>2 DEF TypeInv, MemoryTypes, memoryVars, dbVars
<1>4. MessageTypes'
  BY <1>1, <1>2 DEF TypeInv, MessageTypes, memoryVars
<1>5. Indices'
  BY <1>1, <1>2 DEF TypeInv, Indices, memoryVars
<1>6. QED
  BY <1>3, <1>4, <1>5 DEF TypeInv

(* The relay takes a message from a queue of frames.                       *)
LEMMA RelayTypes ==
    ASSUME TypeInv, NEW d \in Devices, Accept(d) \/ AcceptLate(d)
    PROVE  TypeInv'
<1>1. /\ up \in [Devices -> Seq(Nat)] /\ late \in [Devices -> Seq(Nat)]
      /\ acks \in [Devices -> Seq(Nat)]
  BY TypesOf
<1> DEFINE i == IF Accept(d) THEN Head(up[d]) ELSE Head(late[d])
<1>2. /\ i \in 1 .. Len(msgs) /\ i \in Nat /\ Stored(i)
      /\ up' \in [Devices -> Seq(Nat)] /\ late' \in [Devices -> Seq(Nat)]
      /\ \A c \in Devices : ToSet(up'[c]) \subseteq ToSet(up[c])
      /\ \A c \in Devices : ToSet(late'[c]) \subseteq ToSet(late[c])
      /\ acks' = acks \/ acks' = [acks EXCEPT ![d] = Append(@, i)]
  <2>1. CASE Accept(d)
    <3>1. up[d] # <<>> /\ up[d] \in Seq(Nat) /\ up' = [up EXCEPT ![d] = Tail(up[d])]
          /\ Stored(Head(up[d])) /\ acks' = [acks EXCEPT ![d] = Append(@, Head(up[d]))]
          /\ late' = late
      BY <1>1, <2>1 DEF Accept
    <3>2. Tail(up[d]) \in Seq(Nat) /\ ToSet(up[d]) = {Head(up[d])} \cup ToSet(Tail(up[d]))
          /\ Head(up[d]) \in Nat
      BY <3>1, TailElements
    <3>3. Head(up[d]) \in 1 .. Len(msgs)
      BY <3>2 DEF TypeInv, Indices
    <3>4. up' \in [Devices -> Seq(Nat)] /\ \A c \in Devices : ToSet(up'[c]) \subseteq ToSet(up[c])
      BY <1>1, <3>1, <3>2
    <3>5. i = Head(up[d])
      BY <2>1
    <3> HIDE DEF i
    <3>6. QED
      BY <1>1, <3>1, <3>2, <3>3, <3>4, <3>5
  <2>2. CASE ~Accept(d)
    <3>1. late[d] # <<>> /\ late[d] \in Seq(Nat) /\ late' = [late EXCEPT ![d] = Tail(late[d])]
          /\ Stored(Head(late[d])) /\ acks' = acks /\ up' = up
      BY <1>1, <2>2 DEF AcceptLate
    <3>2. Tail(late[d]) \in Seq(Nat) /\ ToSet(late[d]) = {Head(late[d])} \cup ToSet(Tail(late[d]))
          /\ Head(late[d]) \in Nat
      BY <3>1, TailElements
    <3>3. Head(late[d]) \in 1 .. Len(msgs)
      BY <3>2 DEF TypeInv, Indices
    <3>4. late' \in [Devices -> Seq(Nat)]
          /\ \A c \in Devices : ToSet(late'[c]) \subseteq ToSet(late[c])
      BY <1>1, <3>1, <3>2
    <3>5. i = Head(late[d])
      BY <2>2
    <3> HIDE DEF i
    <3>6. QED
      BY <1>1, <3>1, <3>2, <3>3, <3>4, <3>5
  <2>3. QED
    BY <2>1, <2>2
<1> HIDE DEF i
<1>3. /\ log' \in [Users -> Seq(Nat)]
      /\ \A u \in Users : /\ ToSet(log'[u]) \subseteq ToSet(log[u]) \cup {i}
                          /\ Len(log[u]) <= Len(log'[u])
  BY <1>2, StoredTypes
<1>4. acks' \in [Devices -> Seq(Nat)]
      /\ \A c \in Devices : ToSet(acks'[c]) \subseteq ToSet(acks[c]) \cup {i}
  <2> DEFINE a == Append(acks[d], i)
  <2>1. a \in Seq(Nat) /\ ToSet(a) = ToSet(acks[d]) \cup {i}
    <3>1. acks[d] \in Seq(Nat) /\ i \in Nat
      BY <1>1, <1>2
    <3>2. QED
      BY <3>1, AppendElements
  <2>2. acks' = acks \/ acks' = [acks EXCEPT ![d] = a]
    BY <1>2
  <2> HIDE DEF a
  <2>3. QED
    BY <1>1, <2>1, <2>2
<1>5. UNCHANGED <<msgs, ws, memoryVars, dbVars, cursor, opened, retired, boundVars>>
  BY DEF Accept, AcceptLate
<1>6. MemoryTypes'
  BY <1>5 DEF TypeInv, MemoryTypes, memoryVars, dbVars, boundVars
<1>7. MessageTypes'
  BY <1>2, <1>3, <1>4, <1>5 DEF TypeInv, MessageTypes, memoryVars
<1>8. Indices'
  <2>1. Indices /\ msgs' = msgs /\ pendingAcks' = pendingAcks /\ opened' = opened
        /\ cursor' = cursor /\ retired' = retired
    BY <1>5 DEF TypeInv, memoryVars
  <2>2. ASSUME NEW c \in Devices PROVE cursor[c] <= Len(log'[UserOf[c]])
    <3>1. UserOf[c] \in Users /\ cursor[c] <= Len(log[UserOf[c]])
      BY <2>1, Owners DEF Indices
    <3>2. Len(log[UserOf[c]]) \in Nat /\ Len(log'[UserOf[c]]) \in Nat /\ cursor[c] \in Nat
      BY <1>3, <3>1, TypesOf
    <3>3. Len(log[UserOf[c]]) <= Len(log'[UserOf[c]])
      BY <1>3, <3>1
    <3>4. QED
      BY <3>1, <3>2, <3>3
  <2>3. ASSUME NEW c \in Devices
        PROVE  /\ ToSet(up'[c]) \subseteq 1 .. Len(msgs)
               /\ ToSet(late'[c]) \subseteq 1 .. Len(msgs)
               /\ ToSet(acks'[c]) \subseteq 1 .. Len(msgs)
    BY <1>2, <1>4, <2>1 DEF Indices
  <2>4. \A u \in Users : ToSet(log'[u]) \subseteq 1 .. Len(msgs)
    BY <1>2, <1>3, <2>1 DEF Indices
  <2>5. QED
    BY <2>1, <2>2, <2>3, <2>4 DEF Indices
<1>9. QED
  BY <1>6, <1>7, <1>8 DEF TypeInv

(* The answers of the fetches.                                             *)
LEMMA FetchedTypes ==
    ASSUME TypeInv, NEW d \in Devices, NEW j \in sending[d],
           FetchedRecipient(d, j) \/ FetchedOwn(d, j)
    PROVE  TypeInv'
<1>1. PICK fs \in Seq(Devices), sync \in BOOLEAN : Distinct(fs) /\ Sends(d, fs, sync)
  BY RecipientSends, OwnSends
<1>2. UNCHANGED <<ws, ins, db_outs, db_ins, late, acks, log, cursor, opened, retired, boundVars>>
  BY DEF FetchedRecipient, FetchedOwn, dbVars
<1>3. MessageTypes' /\ Indices'
  BY <1>1, <1>2, SendingTypes
<1>4. outs' \in [Devices -> [Devices -> OutSession]]
  BY <1>1, SendsFields
<1>5. j \in Jobs /\ sending \in [Devices -> SUBSET Jobs] /\ writes \in [Devices -> Seq(Puts)]
  BY TypesOf
<1>6. sending' \in [Devices -> SUBSET Jobs]
  <2> DEFINE k == [j EXCEPT !.awaits = "own"]
  <2>1. k \in Jobs
    BY <1>5 DEF Jobs
  <2>2. \/ sending' = [sending EXCEPT ![d] = (@ \ {j}) \cup {k}]
        \/ sending' = [sending EXCEPT ![d] = @ \ {j}]
    BY DEF FetchedRecipient, FetchedOwn
  <2> HIDE DEF k
  <2>3. QED
    BY <1>5, <2>1, <2>2
<1>7. writes' \in [Devices -> Seq(Puts)]
  <2>1. CASE UNCHANGED writes
    BY <1>5, <2>1
  <2>2. CASE Request(d, <<PutShown(<<"sent", j.text>>)>>)
    <3>1. <<"sent", j.text>> \in {"sent", "received"} \X Nat
      BY <1>5 DEF Jobs
    <3>2. PutShown(<<"sent", j.text>>) \in Puts
      BY <3>1, PutFields
    <3>3. QED
      BY <1>5, <2>2, <3>2, OnePut, Requested
  <2>3. QED
    BY <2>1, <2>2 DEF FetchedRecipient, FetchedOwn, dbVars
<1>8. MemoryTypes'
  BY <1>2, <1>4, <1>6, <1>7 DEF TypeInv, MemoryTypes, boundVars
<1>9. QED
  BY <1>3, <1>8 DEF TypeInv

(* An Ack.                                                                 *)
LEMMA OnAckTypes ==
    ASSUME TypeInv, NEW d \in Devices, OnAck(d)
    PROVE  TypeInv'
<1> DEFINE i == Head(acks[d])
           x == PutOut(msgs[i].to, Advanced(msgs[i]))
<1>1. /\ x \in Puts
      /\ acks' \in [Devices -> Seq(Nat)]
      /\ \A c \in Devices : ToSet(acks'[c]) \subseteq ToSet(acks[c])
      /\ pendingAcks' \in [Devices -> SUBSET Nat]
      /\ \A c \in Devices : pendingAcks'[c] \subseteq pendingAcks[c]
      /\ Request(d, <<x>>) \/ writes' = writes
  BY AckEffects
<1> HIDE DEF x
<1>2. writes \in [Devices -> Seq(Puts)]
  BY TypesOf
<1>3. writes' \in [Devices -> Seq(Puts)]
  BY <1>1, <1>2, OnePut, Requested
<1>4. UNCHANGED <<msgs, ws, sending, outs, ins, db_outs, db_ins,
                  up, late, log, cursor, opened, retired, boundVars>>
  BY DEF OnAck
<1>5. MemoryTypes'
  BY <1>3, <1>4 DEF TypeInv, MemoryTypes, boundVars
<1>6. MessageTypes'
  BY <1>1, <1>4 DEF TypeInv, MessageTypes
<1>7. Indices'
  BY <1>1, <1>4 DEF TypeInv, Indices
<1>8. QED
  BY <1>5, <1>6, <1>7 DEF TypeInv

(* A delivery that decrypts.                                               *)
LEMMA OnDeliveryTypes ==
    ASSUME TypeInv, NEW d \in Devices, OnDelivery(d)
    PROVE  TypeInv'
<1>1. UNCHANGED <<msgs, ws, sending, pendingAcks, db_outs, db_ins, relayVars, retired, boundVars>>
  BY DEF OnDelivery
<1>2. PICK i \in 1 .. Len(msgs), E \in SUBSET Devices, v \in Seq(Puts) :
         /\ ins' \in [Devices -> [Devices -> InSession]]
         /\ outs' = Without(d, E)
         /\ Request(d, v)
         /\ opened' \in [Devices -> SUBSET Nat]
         /\ opened'[d] = opened[d] \cup {i}
         /\ \A c \in Devices \ {d} : opened'[c] = opened[c]
         /\ cursor[d] + 1 \in 1 .. Len(log[UserOf[d]])
         /\ cursor' \in [Devices -> Nat] /\ cursor'[d] = cursor[d] + 1
         /\ \A c \in Devices \ {d} : cursor'[c] = cursor[c]
  <2> DEFINE i == NextIndex(d)
             m == msgs[i]
             s == Received(ins[d][m.from], m)
             E == DroppedOn(d, m)
             v == <<PutIn(m.from, s), PutShown(<<"received", i>>)>> \o SetToSeq(Deleted(E))
  <2>1. /\ i \in 1 .. Len(msgs)
        /\ E \in SUBSET {e \in Devices : UserOf[e] = UserOf[m.from]}
        /\ v \in Seq(Puts)
        /\ ins' \in [Devices -> [Devices -> InSession]]
        /\ outs' = Without(d, E)
        /\ Request(d, v)
        /\ opened' \in [Devices -> SUBSET Nat]
        /\ opened'[d] = opened[d] \cup {i}
        /\ \A c \in Devices \ {d} : opened'[c] = opened[c]
        /\ cursor[d] + 1 \in 1 .. Len(log[UserOf[d]])
        /\ cursor' \in [Devices -> Nat] /\ cursor'[d] = cursor[d] + 1
        /\ \A c \in Devices \ {d} : cursor'[c] = cursor[c]
    BY DeliveryEffects
  <2>2. E \in SUBSET Devices
    BY <2>1
  <2> HIDE DEF i, m, s, E, v
  <2>3. QED
    BY <2>1, <2>2
<1>3. outs' \in [Devices -> [Devices -> OutSession]]
  BY <1>2, WithoutFields
<1>4. writes' \in [Devices -> Seq(Puts)]
  BY <1>2, TypesOf, Requested
<1>5. MemoryTypes'
  BY <1>1, <1>2, <1>3, <1>4 DEF TypeInv, MemoryTypes, boundVars
<1>6. MessageTypes'
  BY <1>1, <1>2 DEF TypeInv, MessageTypes, relayVars
<1>7. Indices'
  <2>1. Indices /\ UNCHANGED <<msgs, pendingAcks, up, late, acks, log, retired>>
    BY <1>1 DEF TypeInv, relayVars
  <2>2. \A c \in Devices : opened'[c] \subseteq 1 .. Len(msgs)
    BY <1>2, <2>1 DEF Indices
  <2>3. ASSUME NEW c \in Devices PROVE cursor'[c] <= Len(log[UserOf[c]])
    <3>1. CASE c = d
      <4>1. log[UserOf[d]] \in Seq(Nat)
        BY TypesOf, Owners
      <4>2. QED
        BY <1>2, <3>1, <4>1
    <3>2. CASE c # d
      BY <1>2, <2>1, <3>2 DEF Indices
    <3>3. QED
      BY <3>1, <3>2
  <2>4. QED
    BY <2>1, <2>2, <2>3 DEF Indices
<1>8. QED
  BY <1>5, <1>6, <1>7 DEF TypeInv

(* One that is passed over.                                                *)
LEMMA OnDeliverySkippedTypes ==
    ASSUME TypeInv, NEW d \in Devices, OnDeliverySkipped(d)
    PROVE  TypeInv'
<1>1. UNCHANGED <<msgs, ws, memoryVars, dbVars, relayVars, opened, retired, boundVars>>
      /\ cursor' = [cursor EXCEPT ![d] = @ + 1]
      /\ cursor[d] < Len(log[UserOf[d]])
  BY DEF OnDeliverySkipped, HasNext
<1>2. MemoryTypes'
  BY <1>1 DEF TypeInv, MemoryTypes, memoryVars, dbVars, boundVars
<1>3. cursor \in [Devices -> Nat] /\ log[UserOf[d]] \in Seq(Nat)
  BY TypesOf, Owners
<1>4. cursor' \in [Devices -> Nat] /\ cursor'[d] = cursor[d] + 1
      /\ \A c \in Devices \ {d} : cursor'[c] = cursor[c]
  BY <1>1, <1>3
<1>5. MessageTypes'
  BY <1>1, <1>4 DEF TypeInv, MessageTypes, memoryVars, relayVars
<1>6. Indices'
  <2>1. Indices /\ UNCHANGED <<msgs, pendingAcks, up, late, acks, log, retired, opened>>
    BY <1>1 DEF TypeInv, memoryVars, relayVars
  <2>2. cursor[d] + 1 <= Len(log[UserOf[d]])
    BY <1>1, <1>3
  <2>3. \A c \in Devices : cursor'[c] <= Len(log[UserOf[c]])
    BY <1>4, <2>1, <2>2 DEF Indices
  <2>4. QED
    BY <2>1, <2>3 DEF Indices
<1>7. QED
  BY <1>2, <1>5, <1>6 DEF TypeInv

(* A session reset.                                                        *)
LEMMA ResetTypes ==
    ASSUME TypeInv, NEW d \in Devices, NEW u \in Users, ResetSession(d, u)
    PROVE  TypeInv'
<1>1. UNCHANGED <<msgs, ws, sending, pendingAcks, db_outs, db_ins, relayVars, cursor, opened,
                  texts, drops, reloads>>
  BY DEF ResetSession
<1>2. PICK E \in SUBSET Devices, v \in Seq(Puts) :
         /\ outs' = Without(d, E)
         /\ ins' \in [Devices -> [Devices -> InSession]]
         /\ Request(d, v)
         /\ retired' \in [Devices -> SUBSET Retired]
         /\ \A c \in Devices \ {d} : retired'[c] = retired[c]
         /\ \A x \in retired'[d] : x \in retired[d] \/ x.awaiting = pendingAcks[d]
  <2> DEFINE E == {e \in Devices : UserOf[e] = u /\ outs[d][e] # NoOut}
             F == {e \in Devices : UserOf[e] = u /\ ins[d][e] # NoIn}
             v == SetToSeq(Deleted(E)) \o SetToSeq({PutIn(e, NoIn) : e \in F})
             R == {[id |-> outs[d][e].id, awaiting |-> pendingAcks[d]] : e \in E}
  <2>1. /\ outs' = Without(d, E)
        /\ ins' \in [Devices -> [Devices -> InSession]]
        /\ v \in Seq(Puts) /\ Request(d, v)
        /\ retired' \in [Devices -> SUBSET Retired]
        /\ \A c \in Devices \ {d} : retired'[c] = retired[c]
        /\ retired'[d] = retired[d] \cup R
    BY ResetEffects
  <2>2. E \in SUBSET Devices /\ \A x \in R : x.awaiting = pendingAcks[d]
    OBVIOUS
  <2> HIDE DEF E, F, v, R
  <2>3. QED
    BY <2>1, <2>2
<1>3. outs' \in [Devices -> [Devices -> OutSession]]
  BY <1>2, WithoutFields
<1>4. writes' \in [Devices -> Seq(Puts)]
  BY <1>2, TypesOf, Requested
<1>5. MemoryTypes'
  BY <1>1, <1>2, <1>3, <1>4 DEF TypeInv, MemoryTypes
<1>6. MessageTypes'
  BY <1>1, <1>2 DEF TypeInv, MessageTypes, relayVars
<1>7. Indices'
  <2>1. Indices /\ UNCHANGED <<msgs, pendingAcks, up, late, acks, log, opened, cursor>>
    BY <1>1 DEF TypeInv, relayVars
  <2>2. \A c \in Devices : \A x \in retired'[c] : x.awaiting \subseteq 1 .. Len(msgs)
    BY <1>2, <2>1 DEF Indices
  <2>3. QED
    BY <2>1, <2>2 DEF Indices
<1>8. QED
  BY <1>5, <1>6, <1>7 DEF TypeInv

(* A reload.                                                               *)
LEMMA ReloadTypes ==
    ASSUME TypeInv, NEW d \in Devices, Reload(d)
    PROVE  TypeInv'
<1>1. SocketLost(d) /\ reloads' = reloads + 1 /\ sending' = [sending EXCEPT ![d] = {}]
      /\ UNCHANGED <<msgs, log, cursor, opened, retired, texts, drops>>
  BY DEF Reload
<1>2. /\ ws' \in [Devices -> WebSocketStates]
      /\ up' \in [Devices -> Seq(Nat)] /\ acks' \in [Devices -> Seq(Nat)]
      /\ late' \in [Devices -> Seq(Nat)]
      /\ \A c \in Devices :
            /\ ToSet(up'[c]) \subseteq ToSet(up[c])
            /\ ToSet(acks'[c]) \subseteq ToSet(acks[c])
            /\ ToSet(late'[c]) \subseteq ToSet(late[c]) \cup ToSet(up[c])
  BY <1>1, LossTypes
<1>3. /\ outs' \in [Devices -> [Devices -> OutSession]]
      /\ db_outs' \in [Devices -> [Devices -> OutSession]]
      /\ ins' \in [Devices -> [Devices -> InSession]]
      /\ db_ins' \in [Devices -> [Devices -> InSession]]
      /\ writes' \in [Devices -> Seq(Puts)]
      /\ pendingAcks' \in [Devices -> SUBSET Nat]
      /\ \A c \in Devices : pendingAcks'[c] \subseteq pendingAcks[c]
  BY ReloadEffects
<1>4. sending' \in [Devices -> SUBSET Jobs]
  BY <1>1, TypesOf
<1>5. MemoryTypes'
  BY <1>1, <1>2, <1>3, <1>4 DEF TypeInv, MemoryTypes
<1>6. MessageTypes'
  BY <1>1, <1>2, <1>3 DEF TypeInv, MessageTypes
<1>7. Indices'
  BY <1>1, <1>2, <1>3 DEF TypeInv, Indices
<1>8. QED
  BY <1>5, <1>6, <1>7 DEF TypeInv

(* Any step.                                                               *)
LEMMA TypeStep == TypeInv /\ [Next]_vars => TypeInv'
<1> SUFFICES ASSUME TypeInv, [Next]_vars PROVE TypeInv'
  OBVIOUS
<1>1. CASE UNCHANGED vars
  BY <1>1 DEF TypeInv, MemoryTypes, MessageTypes, Indices, vars, memoryVars, dbVars,
              relayVars, boundVars
<1>2. CASE \E d \in Devices : DeviceStep(d) \/ RelayStep(d)
  <2>1. PICK d \in Devices : DeviceStep(d) \/ RelayStep(d)
    BY <1>2
  <2>2. CASE \/ Connect(d) \/ OnOpen(d) \/ \E u \in Users : SendMessage(d, u)
             \/ \E j \in sending[d] : FetchFailed(d, j)
    BY <2>2, QuietTypes
  <2>3. CASE \E j \in sending[d] : FetchedRecipient(d, j) \/ FetchedOwn(d, j)
    BY <2>3, FetchedTypes
  <2>4. CASE OnClose(d)
    BY <2>4, OnCloseTypes
  <2>5. CASE RelayStep(d)
    BY <2>5, RelayTypes DEF RelayStep
  <2>6. CASE OnAck(d)
    BY <2>6, OnAckTypes
  <2>7. CASE OnDelivery(d)
    BY <2>7, OnDeliveryTypes
  <2>8. CASE OnDeliverySkipped(d)
    BY <2>8, OnDeliverySkippedTypes
  <2>9. CASE \E u \in Users : ResetSession(d, u)
    BY <2>9, ResetTypes
  <2>10. CASE Reload(d)
    BY <2>10, ReloadTypes
  <2>11. QED
    BY <2>1, <2>2, <2>3, <2>4, <2>5, <2>6, <2>7, <2>8, <2>9, <2>10 DEF DeviceStep
<1>3. QED
  BY <1>1, <1>2 DEF Next

(* Types, in every reachable state.                                        *)
LEMMA SessionTypes == Spec => []TypeInv
BY InitTypes, TypeStep, PTL DEF Spec

(* Every variable of the sessions' model keeps its shape, and whatever     *)
(* waits, travels or is stored is a message that was encrypted.            *)
THEOREM SessionTypeCorrect == Spec => []TypeOK
<1>1. TypeInv => TypeOK
  <2> SUFFICES ASSUME TypeInv PROVE TypeOK
    OBVIOUS
  <2>1. /\ msgs \in Seq(Message)
        /\ ws \in [Devices -> {"closed", "connecting", "open"}]
        /\ outs \in [Devices -> [Devices -> OutSession]]
        /\ db_outs \in [Devices -> [Devices -> OutSession]]
        /\ \A d, e \in Devices : ins[d][e] \in InSession /\ db_ins[d][e] \in InSession
    BY TypesOf DEF WebSocketStates
  <2>2. \A d \in Devices : \A j \in sending[d] :
            j \in [text : Nat, to : Users, awaits : {"recipient", "own"}]
    BY TypesOf DEF Jobs
  <2>3. ASSUME NEW d \in Devices
        PROVE  /\ pendingAcks[d] \subseteq 1 .. Len(msgs)
               /\ ToSet(up[d]) \cup ToSet(late[d]) \cup ToSet(acks[d]) \subseteq 1 .. Len(msgs)
               /\ opened[d] \subseteq 1 .. Len(msgs)
               /\ cursor[d] \in 0 .. Len(log[UserOf[d]])
               /\ retired[d] \subseteq [id : Nat, awaiting : SUBSET (1 .. Len(msgs))]
               /\ \A w \in ToSet(writes[d]) : w.table = "outs" => w.value \in OutSession
    <3>1. Indices
      BY DEF TypeInv
    <3>2. cursor[d] \in Nat /\ log[UserOf[d]] \in Seq(Nat) /\ writes[d] \in Seq(Puts)
          /\ retired[d] \in SUBSET Retired
      BY TypesOf, Owners
    <3>3. Len(log[UserOf[d]]) \in Nat /\ cursor[d] <= Len(log[UserOf[d]])
      BY <3>1, <3>2 DEF Indices
    <3>4. ToSet(writes[d]) \subseteq Puts
      BY <3>2, ElementsInRange
    <3>5. \A w \in ToSet(writes[d]) : w.table = "outs" => w.value \in OutSession
      BY <3>4, PutFields
    <3>6. ASSUME NEW x \in retired[d]
          PROVE  x \in [id : Nat, awaiting : SUBSET (1 .. Len(msgs))]
      <4>1. x \in Retired /\ x.awaiting \subseteq 1 .. Len(msgs)
        BY <3>1, <3>2 DEF Indices
      <4>2. QED
        BY <4>1 DEF Retired
    <3>7. QED
      BY <3>1, <3>2, <3>3, <3>5, <3>6 DEF Indices
  <2>4. QED
    BY <2>1, <2>2, <2>3 DEF TypeOK
<1>2. QED
  BY <1>1, SessionTypes, PTL

-----------------------------------------------------------------------------
(* The outbound sessions: in memory, in IndexedDB and on the way to it     *)

(* What IndexedDB holds of the session of d to e, or will or may hold once *)
(* writes commit.                                                          *)
Persisted(d, e) == {db_outs[d][e]} \cup Values("outs", e, writes[d])

(* A session is named after its init, which is its first message and       *)
(* alone has number 0.                                                     *)
NamedAfterInit ==
    \A i \in 1 .. Len(msgs) :
        LET m == msgs[i] IN
        /\ m.id \in 1 .. i
        /\ msgs[m.id].id = m.id /\ msgs[m.id].from = m.from /\ msgs[m.id].to = m.to
        /\ m.type = "init" => m.n = 0

(* s is none, or a session of d to e, which began with one of the messages *)
(* M.                                                                      *)
SessionOf(M, s, d, e) ==
    \/ s = NoOut
    \/ /\ s.id \in 1 .. Len(M)
       /\ M[s.id].id = s.id /\ M[s.id].from = d /\ M[s.id].to = e

(* What is kept under a device is a session to it.                         *)
OwnSessions ==
    \A d, e \in Devices :
        /\ SessionOf(msgs, outs[d][e], d, e)
        /\ \A s \in Persisted(d, e) : SessionOf(msgs, s, d, e)

(* No state of a session that IndexedDB holds, or may come to hold, is     *)
(* ahead of memory; nor will an Ack that is awaited bring one.             *)
MemoryLeads ==
    \A d, e \in Devices :
        /\ \A s \in Persisted(d, e) : s.id = outs[d][e].id => s.n <= outs[d][e].n
        /\ \A i \in pendingAcks[d] :
              /\ msgs[i].from = d
              /\ msgs[i].to = e /\ msgs[i].id = outs[d][e].id => msgs[i].n < outs[d][e].n

(* The messages of a session in memory are behind it, and no two of a      *)
(* session have the same number.                                           *)
KeysFresh ==
    /\ \A i \in 1 .. Len(msgs) :
          LET s == outs[msgs[i].from][msgs[i].to]
          IN  msgs[i].id = s.id => msgs[i].n < s.n
    /\ NoKeyReuse

(* A session that was reset is not in memory; its messages that await an   *)
(* Ack awaited it at the reset; and only such an Ack has put it back.      *)
ResetKept ==
    \A d, e \in Devices : \A x \in retired[d] :
        /\ x.id \in 1 .. Len(msgs)
        /\ outs[d][e].id # x.id
        /\ \A i \in pendingAcks[d] : msgs[i].id = x.id => i \in x.awaiting
        /\ LastPut(d, e).id = x.id =>
              \E i \in x.awaiting : LastPut(d, e) = [id |-> msgs[i].id, n |-> msgs[i].n + 1]

(* The inductive invariant of the outbound sessions.                       *)
OutInv ==
    /\ NamedAfterInit
    /\ OwnSessions
    /\ MemoryLeads
    /\ reloads = 0 => KeysFresh /\ ResetKept

-----------------------------------------------------------------------------
(* The steps, as the outbound sessions see them                            *)

(* Nothing about them changes.                                             *)
OutsStay ==
    /\ UNCHANGED <<msgs, outs, retired, reloads>>
    /\ \A c \in Devices : pendingAcks'[c] \subseteq pendingAcks[c]
    /\ \A c, e \in Devices :
          Persisted(c, e)' = Persisted(c, e) /\ LastPut(c, e)' = LastPut(c, e)

(* Messages are encrypted for some devices.                                *)
OutsAdvance(d) ==
    /\ \E fs \in Seq(Devices), sync \in BOOLEAN : Distinct(fs) /\ Sends(d, fs, sync)
    /\ UNCHANGED <<retired, reloads>>
    /\ \A c, e \in Devices :
          Persisted(c, e)' = Persisted(c, e) /\ LastPut(c, e)' = LastPut(c, e)

(* An awaited Ack lets a state be persisted.                               *)
OutsPersist(d) ==
    /\ UNCHANGED <<msgs, outs, retired, reloads>>
    /\ \A c \in Devices : pendingAcks'[c] \subseteq pendingAcks[c]
    /\ \E i \in pendingAcks[d] :
          /\ i \in ToSet(acks[d])
          /\ \A c, e \in Devices :
                IF c = d /\ e = msgs[i].to
                THEN /\ Persisted(c, e)' = Persisted(c, e) \cup {Advanced(msgs[i])}
                     /\ LastPut(c, e)' = Advanced(msgs[i])
                ELSE Persisted(c, e)' = Persisted(c, e) /\ LastPut(c, e)' = LastPut(c, e)

(* Sessions are dropped, in memory and in IndexedDB.                       *)
OutsDrop(d) ==
    /\ UNCHANGED <<msgs, pendingAcks, reloads>>
    /\ \E E \in SUBSET Devices :
          /\ outs' = Without(d, E)
          /\ \A c, e \in Devices :
                IF c = d /\ e \in E
                THEN Persisted(c, e)' = Persisted(c, e) \cup {NoOut} /\ LastPut(c, e)' = NoOut
                ELSE Persisted(c, e)' = Persisted(c, e) /\ LastPut(c, e)' = LastPut(c, e)
          /\ \A c \in Devices \ {d} : retired'[c] = retired[c]
          /\ \A x \in retired'[d] :
                \/ x \in retired[d]
                \/ \E e \in E : outs[d][e] # NoOut /\ x.id = outs[d][e].id
                                /\ x.awaiting = pendingAcks[d]

(* Memory is what was in IndexedDB.                                        *)
OutsReload(d) ==
    /\ UNCHANGED <<msgs, retired>>
    /\ reloads' # 0
    /\ outs' \in [Devices -> [Devices -> OutSession]]
    /\ pendingAcks'[d] = {}
    /\ \A c \in Devices \ {d} : outs'[c] = outs[c] /\ pendingAcks'[c] = pendingAcks[c]
    /\ \A c, e \in Devices :
          IF c = d
          THEN outs'[c][e] \in Persisted(c, e) /\ Persisted(c, e)' = {outs'[c][e]}
          ELSE Persisted(c, e)' = Persisted(c, e)

(* No writes: what is persisted is what was.                               *)
LEMMA NothingRequested ==
    ASSUME UNCHANGED <<db_outs, writes>>
    PROVE  \A c, e \in Devices :
               Persisted(c, e)' = Persisted(c, e) /\ LastPut(c, e)' = LastPut(c, e)
BY DEF Persisted, LastPut

(* What is held, is among what is persisted.                               *)
LEMMA LastIsPersisted ==
    ASSUME TypeInv, NEW d \in Devices, NEW e \in Devices
    PROVE  LastPut(d, e) \in Persisted(d, e) /\ Persisted(d, e) \subseteq OutSession
<1>1. writes[d] \in Seq(Puts) /\ db_outs[d][e] \in OutSession
  BY TypesOf
<1>2. <<>> \in Seq(Puts)
  OBVIOUS
<1>3. Committed("outs", db_outs[d], writes[d])[e] \in
          {db_outs[d][e]} \cup Values("outs", e, writes[d])
  BY <1>1, <1>2, CommittedMore
<1>4. Values("outs", e, writes[d]) \in SUBSET OutSession
  BY <1>1, ValueTypes
<1>5. QED
  BY <1>1, <1>3, <1>4 DEF LastPut, Persisted

(* What requested puts do to what is persisted.                            *)
LEMMA RequestPersists ==
    ASSUME TypeInv, NEW d \in Devices, NEW v \in Seq(Puts), Request(d, v),
           UNCHANGED db_outs, NEW c \in Devices, NEW e \in Devices
    PROVE  LET V == IF c = d THEN Values("outs", e, v) ELSE {} IN
           /\ Persisted(c, e)' = Persisted(c, e) \cup V
           /\ V = {} => LastPut(c, e)' = LastPut(c, e)
           /\ V # {} => LastPut(c, e)' \in V
<1>1. /\ writes[d] \in Seq(Puts)
      /\ writes'[d] = writes[d] \o v
      /\ \A b \in Devices \ {d} : writes'[b] = writes[b]
  BY TypesOf, Requested
<1>2. CASE c # d
  <2>1. writes'[c] = writes[c] /\ db_outs' = db_outs
    BY <1>1, <1>2
  <2>2. Persisted(c, e)' = Persisted(c, e) /\ LastPut(c, e)' = LastPut(c, e)
    BY <2>1 DEF Persisted, LastPut
  <2>3. QED
    BY <1>2, <2>2
<1>3. CASE c = d
  <2> DEFINE w == writes[d]
             old == db_outs[d]
  <2>1. Persisted(c, e)' = {old[e]} \cup Values("outs", e, w \o v)
    BY <1>1, <1>3 DEF Persisted
  <2>2. LastPut(c, e)' = Committed("outs", old, w \o v)[e]
    BY <1>1, <1>3 DEF LastPut
  <2>3. Persisted(c, e) = {old[e]} \cup Values("outs", e, w)
    BY <1>3 DEF Persisted
  <2>4. LastPut(c, e) = Committed("outs", old, w)[e]
    BY <1>3 DEF LastPut
  <2>5. w \in Seq(Puts)
    BY <1>1
  <2> HIDE DEF w, old
  <2>6. Values("outs", e, w \o v) = Values("outs", e, w) \cup Values("outs", e, v)
    <3>1. ToSet(w \o v) = ToSet(w) \cup ToSet(v)
      BY <2>5, ConcatElements
    <3>2. QED
      BY <3>1 DEF Values
  <2>7. Values("outs", e, v) = {} =>
            Committed("outs", old, w \o v)[e] = Committed("outs", old, w)[e]
    BY <2>5, CommittedMore
  <2>8. Values("outs", e, v) # {} =>
            Committed("outs", old, w \o v)[e] \in Values("outs", e, v)
    BY <2>5, CommittedMore
  <2>9. QED
    BY <1>3, <2>1, <2>2, <2>3, <2>4, <2>6, <2>7, <2>8
<1>4. QED
  BY <1>2, <1>3

(* The values of the puts that delete.                                     *)
LEMMA DeletedValues ==
    ASSUME NEW v \in Seq(Puts), NEW E, NEW others, NEW e,
           ToSet(v) = others \cup Deleted(E), \A x \in others : x.table # "outs"
    PROVE  Values("outs", e, v) = IF e \in E THEN {NoOut} ELSE {}
<1>1. \A x \in Deleted(E) : x.table = "outs" /\ x.value = NoOut /\ x.key \in E
  BY DEF Deleted, PutOut
<1>2. ASSUME NEW k \in E PROVE \E x \in Deleted(E) : x.key = k
  <2>1. PutOut(k, NoOut) \in Deleted(E)
    BY DEF Deleted
  <2>2. PutOut(k, NoOut).key = k
    BY DEF PutOut
  <2>3. QED
    BY <2>1, <2>2
<1>3. QED
  BY <1>1, <1>2 DEF Values

(* Which step is which.                                                    *)
LEMMA QuietOuts ==
    ASSUME TypeInv, NEW d \in Devices,
           \/ Connect(d) \/ OnOpen(d) \/ OnClose(d) \/ RelayStep(d) \/ OnDeliverySkipped(d)
           \/ \E u \in Users : SendMessage(d, u)
           \/ \E j \in sending[d] : FetchFailed(d, j)
    PROVE  OutsStay
<1>1. UNCHANGED <<msgs, outs, retired, reloads, pendingAcks, db_outs, writes>>
  BY DEF Connect, OnOpen, OnClose, RelayStep, Accept, AcceptLate, OnDeliverySkipped, SendMessage,
         FetchFailed, memoryVars, boundVars, dbVars
<1>2. QED
  BY <1>1, NothingRequested DEF OutsStay

(* Sending advances the sessions it encrypts with; if send throws it only  *)
(* writes the text to IndexedDB.                                           *)
LEMMA FetchedOuts ==
    ASSUME TypeInv, NEW d \in Devices, NEW j \in sending[d],
           FetchedRecipient(d, j) \/ FetchedOwn(d, j)
    PROVE  OutsAdvance(d)
<1>1. \E fs \in Seq(Devices), sync \in BOOLEAN : Distinct(fs) /\ Sends(d, fs, sync)
  BY RecipientSends, OwnSends
<1>2. UNCHANGED <<retired, reloads, db_outs>>
  BY DEF FetchedRecipient, FetchedOwn, dbVars, boundVars
<1>3. CASE UNCHANGED writes
  BY <1>1, <1>2, <1>3, NothingRequested DEF OutsAdvance
<1>4. CASE Request(d, <<PutShown(<<"sent", j.text>>)>>)
  <2> DEFINE x == PutShown(<<"sent", j.text>>)
  <2>1. j \in Jobs
    BY TypesOf
  <2>2. <<"sent", j.text>> \in {"sent", "received"} \X Nat
    BY <2>1 DEF Jobs
  <2>3. x \in Puts /\ x.table = "messages"
    BY <2>2, PutFields
  <2> HIDE DEF x
  <2> DEFINE v == <<x>>
  <2>4. v \in Seq(Puts)
    BY <2>3, OnePut
  <2>5. \A e \in Devices : Values("outs", e, v) = {}
    BY <2>3, ValuesOfOne
  <2>6. Request(d, v)
    BY <1>4 DEF x
  <2> HIDE DEF v
  <2>7. ASSUME NEW c \in Devices, NEW e \in Devices
        PROVE  Persisted(c, e)' = Persisted(c, e) /\ LastPut(c, e)' = LastPut(c, e)
    <3> DEFINE V == IF c = d THEN Values("outs", e, v) ELSE {}
    <3>1. V = {}
      BY <2>5
    <3>2. db_outs' = db_outs
      BY <1>2
    <3>3. Persisted(c, e)' = Persisted(c, e) \cup V
      BY <2>4, <2>6, <3>2, RequestPersists
    <3>4. V = {} => LastPut(c, e)' = LastPut(c, e)
      BY <2>4, <2>6, <3>2, RequestPersists
    <3> HIDE DEF V
    <3>5. QED
      BY <3>1, <3>3, <3>4
  <2>8. QED
    BY <1>1, <1>2, <2>7 DEF OutsAdvance
<1>5. QED
  BY <1>3, <1>4 DEF FetchedRecipient, FetchedOwn, dbVars

(* An Ack writes the session that waited for it, or does nothing.          *)
LEMMA AckOuts ==
    ASSUME TypeInv, NEW d \in Devices, OnAck(d)
    PROVE  OutsStay \/ OutsPersist(d)
<1> DEFINE i == Head(acks[d])
           s == Advanced(msgs[i])
           f == msgs[i].to
           x == PutOut(f, s)
<1>1. /\ i \in 1 .. Len(msgs) /\ f \in Devices /\ s \in OutSession
      /\ x \in Puts
      /\ \A c \in Devices : pendingAcks'[c] \subseteq pendingAcks[c]
      /\ ToSet(acks[d]) = {i} \cup ToSet(acks'[d])
      /\ \/ i \in pendingAcks[d] /\ Request(d, <<x>>)
         \/ i \notin pendingAcks[d] /\ writes' = writes
  BY AckEffects
<1>2. UNCHANGED <<msgs, outs, retired, reloads, db_outs>>
  BY DEF OnAck, boundVars
<1>3. x.table = "outs" /\ x.key = f /\ x.value = s
  BY <1>1, PutFields
<1> HIDE DEF i, s, f, x
<1>4. CASE writes' = writes
  BY <1>1, <1>2, <1>4, NothingRequested DEF OutsStay
<1>5. CASE i \in pendingAcks[d] /\ Request(d, <<x>>)
  <2>1. <<x>> \in Seq(Puts)
    BY <1>1, OnePut
  <2>2. \A e \in Devices : Values("outs", e, <<x>>) = IF e = f THEN {s} ELSE {}
    BY <1>1, <1>3, ValuesOfOne
  <2>3. ASSUME NEW c \in Devices, NEW e \in Devices
        PROVE  IF c = d /\ e = f
               THEN Persisted(c, e)' = Persisted(c, e) \cup {s} /\ LastPut(c, e)' = s
               ELSE Persisted(c, e)' = Persisted(c, e) /\ LastPut(c, e)' = LastPut(c, e)
    <3> DEFINE V == IF c = d THEN Values("outs", e, <<x>>) ELSE {}
    <3>1. /\ Persisted(c, e)' = Persisted(c, e) \cup V
          /\ V = {} => LastPut(c, e)' = LastPut(c, e)
          /\ V # {} => LastPut(c, e)' \in V
      BY <1>2, <1>5, <2>1, RequestPersists
    <3>2. V = IF c = d /\ e = f THEN {s} ELSE {}
      BY <2>2
    <3> HIDE DEF V
    <3>3. QED
      BY <3>1, <3>2
  <2>4. i \in ToSet(acks[d])
    BY <1>1
  <2>5. \E k \in pendingAcks[d] :
          /\ k \in ToSet(acks[d])
          /\ \A c, e \in Devices :
                IF c = d /\ e = msgs[k].to
                THEN /\ Persisted(c, e)' = Persisted(c, e) \cup {Advanced(msgs[k])}
                     /\ LastPut(c, e)' = Advanced(msgs[k])
                ELSE Persisted(c, e)' = Persisted(c, e) /\ LastPut(c, e)' = LastPut(c, e)
    <3>1. i \in pendingAcks[d]
      BY <1>5
    <3>2. QED
      BY <2>3, <2>4, <3>1 DEF s, f
  <2>6. QED
    BY <1>1, <1>2, <2>5 DEF OutsPersist
<1>6. QED
  BY <1>1, <1>4, <1>5

(* An init from another user drops the sessions to that user's devices;    *)
(* other deliveries drop none.                                             *)
LEMMA DeliveryOuts ==
    ASSUME TypeInv, NEW d \in Devices, OnDelivery(d)
    PROVE  OutsDrop(d)
<1> DEFINE i == NextIndex(d)
           m == msgs[i]
           s == Received(ins[d][m.from], m)
           E == DroppedOn(d, m)
           v == <<PutIn(m.from, s), PutShown(<<"received", i>>)>> \o SetToSeq(Deleted(E))
           others == {PutIn(m.from, s), PutShown(<<"received", i>>)}
<1>1. /\ outs' = Without(d, E)
      /\ E \in SUBSET {e \in Devices : UserOf[e] = UserOf[m.from]}
      /\ v \in Seq(Puts) /\ Request(d, v)
      /\ ToSet(v) = others \cup Deleted(E)
  BY DeliveryEffects
<1>2. \A x \in others : x.table # "outs"
  BY DEF PutIn, PutShown
<1>3. UNCHANGED <<msgs, pendingAcks, reloads, db_outs, retired>>
  BY DEF OnDelivery, boundVars
<1>4. E \in SUBSET Devices
  BY <1>1
<1> HIDE DEF E, v, others
<1>5. \A e : Values("outs", e, v) = IF e \in E THEN {NoOut} ELSE {}
  BY <1>1, <1>2, DeletedValues
<1>6. ASSUME NEW c \in Devices, NEW e \in Devices
      PROVE  IF c = d /\ e \in E
             THEN Persisted(c, e)' = Persisted(c, e) \cup {NoOut} /\ LastPut(c, e)' = NoOut
             ELSE Persisted(c, e)' = Persisted(c, e) /\ LastPut(c, e)' = LastPut(c, e)
  <2> DEFINE V == IF c = d THEN Values("outs", e, v) ELSE {}
  <2>1. /\ Persisted(c, e)' = Persisted(c, e) \cup V
        /\ V = {} => LastPut(c, e)' = LastPut(c, e)
        /\ V # {} => LastPut(c, e)' \in V
    BY <1>1, <1>3, RequestPersists
  <2>2. V = IF c = d /\ e \in E THEN {NoOut} ELSE {}
    BY <1>5
  <2> HIDE DEF V
  <2>3. QED
    BY <2>1, <2>2
<1>7. QED
  BY <1>1, <1>3, <1>4, <1>6 DEF OutsDrop

(* A reset drops the sending sessions to the devices of its contact.       *)
LEMMA ResetOuts ==
    ASSUME TypeInv, NEW d \in Devices, NEW u \in Users, ResetSession(d, u)
    PROVE  OutsDrop(d)
<1> DEFINE E == {e \in Devices : UserOf[e] = u /\ outs[d][e] # NoOut}
           F == {e \in Devices : UserOf[e] = u /\ ins[d][e] # NoIn}
           v == SetToSeq(Deleted(E)) \o SetToSeq({PutIn(e, NoIn) : e \in F})
           others == {PutIn(e, NoIn) : e \in F}
           R == {[id |-> outs[d][e].id, awaiting |-> pendingAcks[d]] : e \in E}
<1>1. /\ outs' = Without(d, E)
      /\ v \in Seq(Puts) /\ Request(d, v)
      /\ ToSet(v) = Deleted(E) \cup others
      /\ \A c \in Devices \ {d} : retired'[c] = retired[c]
      /\ retired'[d] = retired[d] \cup R
  BY ResetEffects
<1>2. \A x \in others : x.table # "outs"
  BY DEF PutIn
<1>3. UNCHANGED <<msgs, pendingAcks, reloads, db_outs>>
  BY DEF ResetSession
<1>4. E \in SUBSET Devices
  OBVIOUS
<1>5. \A x \in R : \E e \in E : outs[d][e] # NoOut /\ x.id = outs[d][e].id
                                /\ x.awaiting = pendingAcks[d]
  OBVIOUS
<1> HIDE DEF E, v, others, R
<1>6. \A e : Values("outs", e, v) = IF e \in E THEN {NoOut} ELSE {}
  <2>1. ToSet(v) = others \cup Deleted(E)
    BY <1>1
  <2>2. QED
    BY <1>1, <1>2, <2>1, DeletedValues
<1>7. ASSUME NEW c \in Devices, NEW e \in Devices
      PROVE  IF c = d /\ e \in E
             THEN Persisted(c, e)' = Persisted(c, e) \cup {NoOut} /\ LastPut(c, e)' = NoOut
             ELSE Persisted(c, e)' = Persisted(c, e) /\ LastPut(c, e)' = LastPut(c, e)
  <2> DEFINE V == IF c = d THEN Values("outs", e, v) ELSE {}
  <2>1. /\ Persisted(c, e)' = Persisted(c, e) \cup V
        /\ V = {} => LastPut(c, e)' = LastPut(c, e)
        /\ V # {} => LastPut(c, e)' \in V
    BY <1>1, <1>3, RequestPersists
  <2>2. V = IF c = d /\ e \in E THEN {NoOut} ELSE {}
    BY <1>6
  <2> HIDE DEF V
  <2>3. QED
    BY <2>1, <2>2
<1>8. \A x \in retired'[d] :
          \/ x \in retired[d]
          \/ \E e \in E : outs[d][e] # NoOut /\ x.id = outs[d][e].id
                          /\ x.awaiting = pendingAcks[d]
  BY <1>1, <1>5
<1>9. QED
  BY <1>1, <1>3, <1>4, <1>7, <1>8 DEF OutsDrop

(* A reload goes back to the sessions that some first part of the writes   *)
(* left.                                                                   *)
LEMMA ReloadOuts ==
    ASSUME TypeInv, NEW d \in Devices, Reload(d)
    PROVE  OutsReload(d)
<1>1. reloads \in Nat /\ reloads' = reloads + 1 /\ UNCHANGED <<msgs, retired>>
  BY DEF TypeInv, MemoryTypes, Reload
<1>2. /\ outs' \in [Devices -> [Devices -> OutSession]]
      /\ \A c \in Devices \ {d} :
            outs'[c] = outs[c] /\ db_outs'[c] = db_outs[c] /\ writes'[c] = writes[c]
      /\ \A c \in Devices \ {d} : pendingAcks'[c] = pendingAcks[c]
      /\ pendingAcks'[d] = {} /\ writes'[d] = <<>>
      /\ \A e \in Devices :
            /\ db_outs'[d][e] \in {db_outs[d][e]} \cup Values("outs", e, writes[d])
            /\ outs'[d][e] = db_outs'[d][e]
  BY ReloadEffects
<1>3. \A e : Values("outs", e, <<>>) = {}
  <2>1. ToSet(<<>>) = {}
    BY DEF ToSet
  <2>2. QED
    BY <2>1 DEF Values
<1>4. ASSUME NEW c \in Devices, NEW e \in Devices
      PROVE  IF c = d
             THEN outs'[c][e] \in Persisted(c, e) /\ Persisted(c, e)' = {outs'[c][e]}
             ELSE Persisted(c, e)' = Persisted(c, e)
  <2>1. CASE c = d
    <3>1. Persisted(c, e)' = {db_outs'[d][e]} \cup Values("outs", e, <<>>)
      BY <1>2, <2>1 DEF Persisted
    <3>2. QED
      BY <1>2, <1>3, <2>1, <3>1 DEF Persisted
  <2>2. CASE c # d
    BY <1>2, <2>2 DEF Persisted
  <2>3. QED
    BY <2>1, <2>2
<1>5. QED
  BY <1>1, <1>2, <1>4 DEF OutsReload

(* Every step is one of these.                                             *)
LEMMA OutShapes ==
    ASSUME TypeInv, [Next]_vars
    PROVE  \/ OutsStay
           \/ \E d \in Devices : OutsAdvance(d) \/ OutsPersist(d) \/ OutsDrop(d) \/ OutsReload(d)
<1>1. CASE UNCHANGED vars
  <2>1. UNCHANGED <<msgs, outs, retired, reloads, pendingAcks, db_outs, writes>>
    BY <1>1 DEF vars, memoryVars, boundVars, dbVars
  <2>2. QED
    BY <2>1, NothingRequested DEF OutsStay
<1>2. CASE \E d \in Devices : DeviceStep(d) \/ RelayStep(d)
  <2>1. PICK d \in Devices : DeviceStep(d) \/ RelayStep(d)
    BY <1>2
  <2>2. CASE \/ Connect(d) \/ OnOpen(d) \/ OnClose(d) \/ RelayStep(d) \/ OnDeliverySkipped(d)
             \/ \E u \in Users : SendMessage(d, u)
             \/ \E j \in sending[d] : FetchFailed(d, j)
    BY <2>2, QuietOuts
  <2>3. CASE \E j \in sending[d] : FetchedRecipient(d, j) \/ FetchedOwn(d, j)
    BY <2>3, FetchedOuts
  <2>4. CASE OnAck(d)
    BY <2>4, AckOuts
  <2>5. CASE OnDelivery(d)
    BY <2>5, DeliveryOuts
  <2>6. CASE \E u \in Users : ResetSession(d, u)
    BY <2>6, ResetOuts
  <2>7. CASE Reload(d)
    BY <2>7, ReloadOuts
  <2>8. QED
    BY <2>1, <2>2, <2>3, <2>4, <2>5, <2>6, <2>7 DEF DeviceStep
<1>3. QED
  BY <1>1, <1>2 DEF Next

-----------------------------------------------------------------------------
(* The outbound sessions' invariant is kept by each kind of step           *)

(* The message that a sending adds for a device, and what it leaves of the *)
(* session.                                                                *)
LEMMA AddedMessage ==
    ASSUME TypeInv, NEW d \in Devices, NEW fs \in Seq(Devices), Distinct(fs),
           NEW sync \in BOOLEAN, Sends(d, fs, sync), NEW k \in 1 .. Len(fs)
    PROVE  LET i == Len(msgs) + k
               e == fs[k]
               m == msgs'[i]
           IN  /\ e \in Devices /\ i \in 1 .. Len(msgs') /\ i \in Nat
               /\ m \in Message /\ m.from = d /\ m.to = e /\ m.n = outs[d][e].n
               /\ outs[d][e] = NoOut => m.type = "init" /\ m.id = i /\ m.n = 0
               /\ outs[d][e] # NoOut => m.type = "msg" /\ m.id = outs[d][e].id
               /\ outs'[d][e] = Advanced(m)
               /\ outs'[d][e].id = m.id /\ outs'[d][e].n = m.n + 1
<1> DEFINE i == Len(msgs) + k
           e == fs[k]
           m == msgs'[i]
<1>1. /\ e \in Devices /\ i \in 1 .. Len(msgs')
      /\ m = Encrypted(d, e, i, sync) /\ outs'[d][e] = Advanced(m)
  BY SendsFields
<1>2. i \in Nat
  BY TypesOf
<1> HIDE DEF i, e
<1>3. /\ Encrypted(d, e, i, sync) \in Message
      /\ Encrypted(d, e, i, sync).from = d /\ Encrypted(d, e, i, sync).to = e
      /\ Encrypted(d, e, i, sync).n = outs[d][e].n
      /\ outs[d][e] = NoOut => /\ Encrypted(d, e, i, sync).type = "init"
                               /\ Encrypted(d, e, i, sync).id = i
                               /\ Encrypted(d, e, i, sync).n = 0
      /\ outs[d][e] # NoOut => /\ Encrypted(d, e, i, sync).type = "msg"
                               /\ Encrypted(d, e, i, sync).id = outs[d][e].id
  BY <1>1, <1>2, EncryptedFields
<1>4. Advanced(m).id = m.id /\ Advanced(m).n = m.n + 1
  BY DEF Advanced
<1> HIDE DEF m
<1>5. QED
  BY <1>1, <1>2, <1>3, <1>4 DEF i, e, m

(* A message's name and number.                                            *)
LEMMA NameFields ==
    ASSUME TypeInv, NamedAfterInit, NEW i \in 1 .. Len(msgs)
    PROVE  LET m == msgs[i] IN
           /\ m \in Message /\ m.id \in 1 .. Len(msgs) /\ m.id \in 1 .. i /\ m.id # 0
           /\ m.from \in Devices /\ m.to \in Devices /\ m.id \in Nat /\ m.n \in Nat
           /\ msgs[m.id].id = m.id /\ msgs[m.id].from = m.from /\ msgs[m.id].to = m.to
           /\ m.type = "init" => m.n = 0
<1>1. msgs \in Seq(Message) /\ Len(msgs) \in Nat
  BY TypesOf
<1>2. msgs[i] \in Message
  BY <1>1
<1>3. msgs[i].id \in 1 .. i
  BY DEF NamedAfterInit
<1>4. msgs[i].id \in 1 .. Len(msgs) /\ msgs[i].id # 0
  BY <1>1, <1>3
<1>5. QED
  BY <1>2, <1>3, <1>4, MessageFields DEF NamedAfterInit

(* Sessions keep their names when messages are added.                      *)
LEMMA SessionStays ==
    ASSUME TypeInv, NEW d \in Devices, NEW fs \in Seq(Devices), Distinct(fs),
           NEW sync \in BOOLEAN, Sends(d, fs, sync),
           NEW s, NEW c, NEW e, SessionOf(msgs, s, c, e)
    PROVE  SessionOf(msgs', s, c, e)
<1>1. \A i \in 1 .. Len(msgs) : i \in 1 .. Len(msgs') /\ msgs'[i] = msgs[i]
  BY SendsFields
<1>2. QED
  BY <1>1 DEF SessionOf

(* Messages are named after the first of their session.                    *)
LEMMA NamedStep ==
    ASSUME TypeInv, OutInv, NEW d \in Devices, OutsAdvance(d)
    PROVE  NamedAfterInit'
<1>1. PICK fs \in Seq(Devices), sync \in BOOLEAN : Distinct(fs) /\ Sends(d, fs, sync)
  BY DEF OutsAdvance
<1>2. /\ \A i \in 1 .. Len(msgs) : i \in 1 .. Len(msgs') /\ msgs'[i] = msgs[i]
      /\ \A i \in 1 .. Len(msgs') :
             i \in 1 .. Len(msgs) \/ \E k \in 1 .. Len(fs) : i = Len(msgs) + k
  BY <1>1, SendsFields
<1>3. ASSUME NEW i \in 1 .. Len(msgs')
      PROVE  /\ msgs'[i].id \in 1 .. i
             /\ msgs'[msgs'[i].id].id = msgs'[i].id
             /\ msgs'[msgs'[i].id].from = msgs'[i].from
             /\ msgs'[msgs'[i].id].to = msgs'[i].to
             /\ msgs'[i].type = "init" => msgs'[i].n = 0
  <2>1. CASE i \in 1 .. Len(msgs)
    <3>1. NamedAfterInit
      BY DEF OutInv
    <3>2. msgs'[i] = msgs[i] /\ msgs[i].id \in 1 .. Len(msgs)
      BY <1>2, <2>1, <3>1, NameFields
    <3>3. msgs'[msgs[i].id] = msgs[msgs[i].id]
      BY <1>2, <3>2
    <3>4. QED
      BY <2>1, <3>1, <3>2, <3>3 DEF NamedAfterInit
  <2>2. CASE \E k \in 1 .. Len(fs) : i = Len(msgs) + k
    <3>1. PICK k \in 1 .. Len(fs) : i = Len(msgs) + k
      BY <2>2
    <3> DEFINE e == fs[k]
               m == msgs'[i]
    <3>2. /\ e \in Devices /\ i \in Nat
          /\ m.from = d /\ m.to = e
          /\ outs[d][e] = NoOut => m.type = "init" /\ m.id = i /\ m.n = 0
          /\ outs[d][e] # NoOut => m.type = "msg" /\ m.id = outs[d][e].id
      BY <1>1, <3>1, AddedMessage
    <3> HIDE DEF e
    <3>3. CASE outs[d][e] = NoOut
      BY <3>2, <3>3
    <3>4. CASE outs[d][e] # NoOut
      <4> DEFINE s == outs[d][e]
      <4>1. SessionOf(msgs, s, d, e)
        BY <3>2 DEF OutInv, OwnSessions
      <4>2. /\ s.id \in 1 .. Len(msgs)
            /\ msgs[s.id].id = s.id /\ msgs[s.id].from = d /\ msgs[s.id].to = e
        BY <3>4, <4>1 DEF SessionOf
      <4>3. msgs'[s.id] = msgs[s.id] /\ m.id = s.id /\ m.type = "msg"
        BY <1>2, <3>2, <3>4, <4>2
      <4>4. s.id \in 1 .. i
        <5>1. Len(msgs) \in Nat
          BY TypesOf
        <5>2. QED
          BY <3>1, <4>2, <5>1
      <4> HIDE DEF s
      <4>5. QED
        BY <3>2, <4>2, <4>3, <4>4
    <3>5. QED
      BY <3>3, <3>4
  <2>3. QED
    BY <1>2, <2>1, <2>2
<1>4. QED
  BY <1>3 DEF NamedAfterInit

(* Sessions are kept under the device they go to.                          *)
LEMMA OwnStep ==
    ASSUME TypeInv, OutInv, NEW d \in Devices,
           OutsAdvance(d) \/ OutsPersist(d) \/ OutsDrop(d) \/ OutsReload(d)
    PROVE  OwnSessions'
<1>0. NamedAfterInit /\ OwnSessions /\ MemoryLeads
  BY DEF OutInv
<1>1. CASE OutsAdvance(d)
  <2>1. PICK fs \in Seq(Devices), sync \in BOOLEAN : Distinct(fs) /\ Sends(d, fs, sync)
    BY <1>1 DEF OutsAdvance
  <2>2. ASSUME NEW c \in Devices, NEW e \in Devices
        PROVE  /\ SessionOf(msgs', outs'[c][e], c, e)
               /\ \A s \in Persisted(c, e)' : SessionOf(msgs', s, c, e)
    <3>1. Persisted(c, e)' = Persisted(c, e)
      BY <1>1 DEF OutsAdvance
    <3>2. \A s \in Persisted(c, e) : SessionOf(msgs', s, c, e)
      BY <1>0, <2>1, SessionStays DEF OwnSessions
    <3>3. CASE c # d \/ \A k \in 1 .. Len(fs) : fs[k] # e
      <4>1. outs'[c][e] = outs[c][e]
        BY <2>1, <3>3, SendsFields
      <4>2. SessionOf(msgs, outs[c][e], c, e)
        BY <1>0 DEF OwnSessions
      <4>3. SessionOf(msgs', outs[c][e], c, e)
        BY <2>1, <4>2, SessionStays
      <4>4. QED
        BY <3>1, <3>2, <4>1, <4>3
    <3>4. CASE c = d /\ \E k \in 1 .. Len(fs) : fs[k] = e
      <4>1. PICK k \in 1 .. Len(fs) : fs[k] = e
        BY <3>4
      <4> DEFINE i == Len(msgs) + k
                 m == msgs'[i]
      <4>2. i \in 1 .. Len(msgs') /\ m.from = d /\ m.to = e /\ outs'[d][e].id = m.id
        BY <2>1, <4>1, AddedMessage
      <4> HIDE DEF i
      <4>3. /\ m.id \in 1 .. i /\ msgs'[m.id].id = m.id
            /\ msgs'[m.id].from = m.from /\ msgs'[m.id].to = m.to
        BY <1>1, <4>2, NamedStep DEF NamedAfterInit
      <4>4. msgs' \in Seq(Message) /\ Len(msgs') \in Nat
        BY <2>1, SendsFields
      <4>5. m.id \in 1 .. Len(msgs')
        BY <4>2, <4>3, <4>4
      <4>6. QED
        BY <3>1, <3>2, <3>4, <4>2, <4>3, <4>5 DEF SessionOf
    <3>5. QED
      BY <3>3, <3>4
  <2>3. QED
    BY <2>2 DEF OwnSessions
<1>2. CASE OutsPersist(d)
  <2>1. PICK i \in pendingAcks[d] :
          \A c, e \in Devices :
             IF c = d /\ e = msgs[i].to
             THEN Persisted(c, e)' = Persisted(c, e) \cup {Advanced(msgs[i])}
             ELSE Persisted(c, e)' = Persisted(c, e)
    BY <1>2 DEF OutsPersist
  <2>2. msgs' = msgs /\ outs' = outs
    BY <1>2 DEF OutsPersist
  <2>3. i \in 1 .. Len(msgs)
    BY DEF TypeInv, Indices
  <2>4. /\ msgs[i].id \in 1 .. Len(msgs) /\ msgs[i].to \in Devices
        /\ msgs[msgs[i].id].id = msgs[i].id /\ msgs[msgs[i].id].from = msgs[i].from
        /\ msgs[msgs[i].id].to = msgs[i].to
    BY <1>0, <2>3, NameFields
  <2>5. msgs[i].from = d
    BY <1>0 DEF MemoryLeads
  <2>6. Advanced(msgs[i]).id = msgs[i].id
    BY DEF Advanced
  <2>7. SessionOf(msgs, Advanced(msgs[i]), d, msgs[i].to)
    BY <2>4, <2>5, <2>6 DEF SessionOf
  <2>8. QED
    BY <1>0, <2>1, <2>2, <2>7 DEF OwnSessions
<1>3. CASE OutsDrop(d)
  <2>1. PICK E \in SUBSET Devices :
          /\ outs' = Without(d, E)
          /\ \A c, e \in Devices :
                \/ Persisted(c, e)' = Persisted(c, e) \cup {NoOut}
                \/ Persisted(c, e)' = Persisted(c, e)
    BY <1>3 DEF OutsDrop
  <2>2. \A c, e \in Devices : outs'[c][e] = outs[c][e] \/ outs'[c][e] = NoOut
    BY <2>1, WithoutFields
  <2>3. msgs' = msgs
    BY <1>3 DEF OutsDrop
  <2>4. \A c, e : SessionOf(msgs, NoOut, c, e)
    BY DEF SessionOf
  <2>5. QED
    BY <1>0, <2>1, <2>2, <2>3, <2>4 DEF OwnSessions
<1>4. CASE OutsReload(d)
  <2>1. /\ \A c \in Devices \ {d} : outs'[c] = outs[c]
        /\ \A c, e \in Devices :
             IF c = d
             THEN outs'[c][e] \in Persisted(c, e) /\ Persisted(c, e)' = {outs'[c][e]}
             ELSE Persisted(c, e)' = Persisted(c, e)
        /\ msgs' = msgs
    BY <1>4 DEF OutsReload
  <2>2. QED
    BY <1>0, <2>1 DEF OwnSessions
<1>5. QED
  BY <1>1, <1>2, <1>3, <1>4

(* Sessions that were named have other names than what is none.            *)
LEMMA NoneIsUnnamed ==
    ASSUME NEW M \in Seq(Message), NEW s, NEW d, NEW e, SessionOf(M, s, d, e)
    PROVE  s.id = 0 => s = NoOut
BY DEF SessionOf

(* What IndexedDB may hold stays behind memory.                            *)
LEMMA LeadsStep ==
    ASSUME TypeInv, OutInv, NEW d \in Devices,
           OutsAdvance(d) \/ OutsPersist(d) \/ OutsDrop(d) \/ OutsReload(d)
    PROVE  MemoryLeads'
<1>0. NamedAfterInit /\ OwnSessions /\ MemoryLeads
  BY DEF OutInv
<1>a. /\ msgs \in Seq(Message) /\ Len(msgs) \in Nat
      /\ outs \in [Devices -> [Devices -> OutSession]]
  BY TypesOf
<1>b. \A c \in Devices : pendingAcks[c] \subseteq 1 .. Len(msgs)
  BY DEF TypeInv, Indices
<1>c. \A c, e \in Devices : Persisted(c, e) \subseteq OutSession
  BY LastIsPersisted
<1>1. CASE OutsAdvance(d)
  <2>1. PICK fs \in Seq(Devices), sync \in BOOLEAN : Distinct(fs) /\ Sends(d, fs, sync)
    BY <1>1 DEF OutsAdvance
  <2>2. \A c, e \in Devices : Persisted(c, e)' = Persisted(c, e)
    BY <1>1 DEF OutsAdvance
  <2>3. /\ \A i \in 1 .. Len(msgs) : i \in 1 .. Len(msgs') /\ msgs'[i] = msgs[i]
        /\ \A c \in Devices \ {d} : outs'[c] = outs[c]
        /\ \A e \in Devices : (\A k \in 1 .. Len(fs) : fs[k] # e) => outs'[d][e] = outs[d][e]
        /\ Len(fs) \in Nat
    BY <2>1, SendsFields
  <2>4. /\ pendingAcks'[d] \subseteq pendingAcks[d] \cup (Len(msgs) + 1 .. Len(msgs) + Len(fs))
        /\ \A c \in Devices \ {d} : pendingAcks'[c] = pendingAcks[c]
    <3>1. PICK P \in SUBSET (Len(msgs) + 1 .. Len(msgs) + Len(fs)) :
             pendingAcks' = [pendingAcks EXCEPT ![d] = @ \cup P]
      BY <2>1 DEF Sends
    <3>2. pendingAcks \in [Devices -> SUBSET Nat]
      BY TypesOf
    <3>3. QED
      BY <3>1, <3>2
  <2>5. ASSUME NEW k \in 1 .. Len(fs)
        PROVE  LET i == Len(msgs) + k IN
               /\ fs[k] \in Devices
               /\ msgs'[i].from = d /\ msgs'[i].to = fs[k] /\ msgs'[i].n = outs[d][fs[k]].n
               /\ outs[d][fs[k]] = NoOut => msgs'[i].id = i
               /\ outs[d][fs[k]] # NoOut => msgs'[i].id = outs[d][fs[k]].id
               /\ outs'[d][fs[k]].id = msgs'[i].id /\ outs'[d][fs[k]].n = msgs'[i].n + 1
    BY <2>1, AddedMessage
  <2>7. ASSUME NEW e \in Devices, NEW x \in 0 .. Len(msgs), x = outs'[d][e].id
        PROVE  x = outs[d][e].id /\ outs[d][e].n <= outs'[d][e].n
    <3>1. outs[d][e] \in OutSession
      BY <1>a
    <3>2. outs[d][e].n \in Nat
      BY <3>1, SessionFields
    <3>3. CASE \A k \in 1 .. Len(fs) : fs[k] # e
      BY <2>3, <2>7, <3>2, <3>3
    <3>4. CASE \E k \in 1 .. Len(fs) : fs[k] = e
      <4>1. PICK k \in 1 .. Len(fs) : fs[k] = e
        BY <3>4
      <4> DEFINE i == Len(msgs) + k
      <4>2. /\ msgs'[i].n = outs[d][e].n
            /\ outs[d][e] = NoOut => msgs'[i].id = i
            /\ outs[d][e] # NoOut => msgs'[i].id = outs[d][e].id
            /\ outs'[d][e].id = msgs'[i].id /\ outs'[d][e].n = msgs'[i].n + 1
        BY <2>5, <4>1
      <4>3. i > x
        BY <1>a
      <4>4. i # x
        BY <1>a, <4>3
      <4> HIDE DEF i
      <4>5. outs[d][e] # NoOut
        BY <2>7, <4>2, <4>4
      <4>6. QED
        BY <2>7, <3>2, <4>2, <4>5
    <3>5. QED
      BY <3>3, <3>4
  <2>8. ASSUME NEW c \in Devices, NEW e \in Devices, NEW s \in Persisted(c, e)',
               s.id = outs'[c][e].id
        PROVE  s.n <= outs'[c][e].n
    <3>1. s \in Persisted(c, e) /\ s \in OutSession
      BY <1>c, <2>2
    <3>2. s.id \in Nat /\ s.n \in Nat
      BY <3>1, SessionFields
    <3>3. CASE c # d
      BY <1>0, <2>3, <2>8, <3>1, <3>3 DEF MemoryLeads
    <3>4. CASE c = d
      <4>1. SessionOf(msgs, s, c, e)
        BY <1>0, <3>1 DEF OwnSessions
      <4>2. s.id \in 0 .. Len(msgs)
        <5>1. s = NoOut \/ s.id \in 1 .. Len(msgs)
          BY <4>1 DEF SessionOf
        <5>2. Len(msgs) \in Nat /\ NoOut.id = 0
          BY <1>a, SessionFields
        <5>3. QED
          BY <5>1, <5>2
      <4>3. s.id = outs[d][e].id /\ outs[d][e].n <= outs'[d][e].n
        BY <2>7, <2>8, <3>4, <4>2
      <4>4. s.n <= outs[d][e].n
        BY <1>0, <3>1, <3>4, <4>3 DEF MemoryLeads
      <4>5. outs[d][e].n \in Nat /\ outs'[d][e].n \in Nat
        <5>1. outs[d][e] \in OutSession /\ outs'[d][e] \in OutSession
          BY <1>a, <2>1, SendsFields
        <5>2. QED
          BY <5>1, SessionFields
      <4>6. QED
        BY <3>2, <3>4, <4>3, <4>4, <4>5
    <3>5. QED
      BY <3>3, <3>4
  <2>9. ASSUME NEW c \in Devices, NEW e \in Devices, NEW i \in pendingAcks'[c]
        PROVE  /\ msgs'[i].from = c
               /\ msgs'[i].to = e /\ msgs'[i].id = outs'[c][e].id => msgs'[i].n < outs'[c][e].n
    <3>1. CASE i \in pendingAcks[c]
      <4>1. i \in 1 .. Len(msgs) /\ msgs'[i] = msgs[i]
        BY <1>b, <2>3, <3>1
      <4>2. /\ msgs[i].from = c
            /\ msgs[i].to = e /\ msgs[i].id = outs[c][e].id => msgs[i].n < outs[c][e].n
        BY <1>0, <3>1 DEF MemoryLeads
      <4>3. msgs[i].id \in 1 .. Len(msgs) /\ msgs[i].n \in Nat
        BY <1>0, <4>1, NameFields
      <4>4. CASE c # d
        BY <2>3, <4>1, <4>2, <4>4
      <4>5. CASE c = d
        <5>1. SUFFICES ASSUME msgs[i].to = e, msgs[i].id = outs'[d][e].id
                       PROVE  msgs[i].n < outs'[d][e].n
          BY <4>1, <4>2, <4>5
        <5>2. msgs[i].id \in 0 .. Len(msgs)
          BY <1>a, <4>3
        <5>3. msgs[i].id = outs[d][e].id /\ outs[d][e].n <= outs'[d][e].n
          BY <2>7, <5>1, <5>2
        <5>4. outs[d][e].n \in Nat /\ outs'[d][e].n \in Nat
          <6>1. outs[d][e] \in OutSession /\ outs'[d][e] \in OutSession
            BY <1>a, <2>1, SendsFields
          <6>2. QED
            BY <6>1, SessionFields
        <5>5. msgs[i].n < outs[d][e].n
          BY <4>2, <4>5, <5>1, <5>3
        <5>6. QED
          BY <4>3, <5>3, <5>4, <5>5
      <4>6. QED
        BY <4>4, <4>5
    <3>2. CASE i \notin pendingAcks[c]
      <4>1. c = d /\ i \in Len(msgs) + 1 .. Len(msgs) + Len(fs)
        BY <2>4, <3>2
      <4>2. i - Len(msgs) \in 1 .. Len(fs) /\ i = Len(msgs) + (i - Len(msgs))
        BY <1>a, <2>3, <4>1
      <4>3. PICK k \in 1 .. Len(fs) : i = Len(msgs) + k
        BY <4>2
      <4>4. /\ fs[k] \in Devices /\ msgs'[i].from = d /\ msgs'[i].to = fs[k]
            /\ msgs'[i].n = outs[d][fs[k]].n /\ outs'[d][fs[k]].n = msgs'[i].n + 1
        BY <2>5, <4>3
      <4>5. outs[d][fs[k]].n \in Nat
        <5>1. outs[d][fs[k]] \in OutSession
          BY <1>a, <4>4
        <5>2. QED
          BY <5>1, SessionFields
      <4>6. QED
        BY <4>1, <4>4, <4>5
    <3>3. QED
      BY <3>1, <3>2
  <2>10. QED
    BY <2>8, <2>9 DEF MemoryLeads
<1>2. CASE OutsPersist(d)
  <2>1. PICK i \in pendingAcks[d] :
          \A c, e \in Devices :
             IF c = d /\ e = msgs[i].to
             THEN Persisted(c, e)' = Persisted(c, e) \cup {Advanced(msgs[i])}
             ELSE Persisted(c, e)' = Persisted(c, e)
    BY <1>2 DEF OutsPersist
  <2>2. msgs' = msgs /\ outs' = outs /\ \A c \in Devices : pendingAcks'[c] \subseteq pendingAcks[c]
    BY <1>2 DEF OutsPersist
  <2>3. i \in 1 .. Len(msgs)
    BY <1>b
  <2>4. msgs[i].to \in Devices /\ msgs[i].n \in Nat
    BY <1>0, <2>3, NameFields
  <2> DEFINE s == Advanced(msgs[i])
             e == msgs[i].to
  <2>5. s.id = msgs[i].id /\ s.n = msgs[i].n + 1
    BY DEF Advanced
  <2>6. msgs[i].id = outs[d][e].id => msgs[i].n < outs[d][e].n
    BY <1>0, <2>4 DEF MemoryLeads
  <2>7. outs[d][e].n \in Nat
    <3>1. outs[d][e] \in OutSession
      BY <1>a, <2>4
    <3>2. QED
      BY <3>1, SessionFields
  <2>8. s.id = outs[d][e].id => s.n <= outs[d][e].n
    BY <2>4, <2>5, <2>6, <2>7
  <2> HIDE DEF s
  <2>9. ASSUME NEW c \in Devices, NEW f \in Devices, NEW x \in Persisted(c, f)',
               x.id = outs[c][f].id
        PROVE  x.n <= outs[c][f].n
    <3>1. CASE x \in Persisted(c, f)
      BY <1>0, <2>9, <3>1 DEF MemoryLeads
    <3>2. CASE x \notin Persisted(c, f)
      <4>1. c = d /\ f = e /\ x = s
        BY <2>1, <2>9, <3>2 DEF s
      <4>2. QED
        BY <2>8, <2>9, <4>1
    <3>3. QED
      BY <3>1, <3>2
  <2>10. QED
    BY <1>0, <2>2, <2>9 DEF MemoryLeads
<1>3. CASE OutsDrop(d)
  <2>1. PICK E \in SUBSET Devices :
          /\ outs' = Without(d, E)
          /\ \A c, e \in Devices :
                IF c = d /\ e \in E
                THEN Persisted(c, e)' = Persisted(c, e) \cup {NoOut}
                ELSE Persisted(c, e)' = Persisted(c, e)
    BY <1>3 DEF OutsDrop
  <2>2. /\ \A c \in Devices \ {d} : outs'[c] = outs[c]
        /\ \A e \in Devices : outs'[d][e] = IF e \in E THEN NoOut ELSE outs[d][e]
    BY <2>1, WithoutFields
  <2>3. msgs' = msgs /\ pendingAcks' = pendingAcks
    BY <1>3 DEF OutsDrop
  <2>4. ASSUME NEW c \in Devices, NEW e \in Devices, NEW s \in Persisted(c, e)',
               s.id = outs'[c][e].id
        PROVE  s.n <= outs'[c][e].n
    <3>1. CASE c = d /\ e \in E
      <4>1. outs'[c][e] = NoOut
        BY <2>2, <3>1
      <4>2. CASE s = NoOut
        BY <4>1, <4>2, SessionFields
      <4>3. CASE s # NoOut
        <5>1. SessionOf(msgs, s, c, e)
          BY <1>0, <2>1, <3>1, <4>3 DEF OwnSessions
        <5>2. s.id # 0
          BY <1>a, <4>3, <5>1, NoneIsUnnamed
        <5>3. QED
          BY <2>4, <4>1, <5>2, SessionFields
      <4>4. QED
        BY <4>2, <4>3
    <3>2. CASE ~(c = d /\ e \in E)
      <4>1. outs'[c][e] = outs[c][e] /\ s \in Persisted(c, e)
        BY <2>1, <2>2, <3>2
      <4>2. QED
        BY <1>0, <2>4, <4>1 DEF MemoryLeads
    <3>3. QED
      BY <3>1, <3>2
  <2>5. ASSUME NEW c \in Devices, NEW e \in Devices, NEW i \in pendingAcks[c],
               msgs[i].to = e, msgs[i].id = outs'[c][e].id
        PROVE  msgs[i].n < outs'[c][e].n
    <3>1. i \in 1 .. Len(msgs)
      BY <1>b
    <3>2. msgs[i].id # 0
      BY <1>0, <3>1, NameFields
    <3>3. ~(c = d /\ e \in E)
      BY <2>2, <2>5, <3>2, SessionFields
    <3>4. outs'[c][e] = outs[c][e]
      BY <2>2, <3>3
    <3>5. QED
      BY <1>0, <2>5, <3>4 DEF MemoryLeads
  <2>6. QED
    BY <1>0, <2>3, <2>4, <2>5 DEF MemoryLeads
<1>4. CASE OutsReload(d)
  <2>1. /\ \A c \in Devices \ {d} : outs'[c] = outs[c] /\ pendingAcks'[c] = pendingAcks[c]
        /\ pendingAcks'[d] = {}
        /\ \A c, e \in Devices :
             IF c = d
             THEN outs'[c][e] \in Persisted(c, e) /\ Persisted(c, e)' = {outs'[c][e]}
             ELSE Persisted(c, e)' = Persisted(c, e)
        /\ msgs' = msgs
    BY <1>4 DEF OutsReload
  <2>2. ASSUME NEW c \in Devices, NEW e \in Devices, NEW s \in Persisted(c, e)',
               s.id = outs'[c][e].id
        PROVE  s.n <= outs'[c][e].n
    <3>1. CASE c = d
      <4>1. s = outs'[c][e] /\ s \in OutSession
        BY <1>c, <2>1, <3>1
      <4>2. s.n \in Nat
        BY <4>1, SessionFields
      <4>3. QED
        BY <4>1, <4>2
    <3>2. CASE c # d
      BY <1>0, <2>1, <2>2, <3>2 DEF MemoryLeads
    <3>3. QED
      BY <3>1, <3>2
  <2>3. ASSUME NEW c \in Devices, NEW e \in Devices, NEW i \in pendingAcks'[c]
        PROVE  /\ msgs[i].from = c
               /\ msgs[i].to = e /\ msgs[i].id = outs'[c][e].id => msgs[i].n < outs'[c][e].n
    <3>1. c # d
      BY <2>1
    <3>2. QED
      BY <1>0, <2>1, <3>1 DEF MemoryLeads
  <2>4. QED
    BY <2>1, <2>2, <2>3 DEF MemoryLeads
<1>5. QED
  BY <1>1, <1>2, <1>3, <1>4

(* No key of a session in memory was used, so none is used again.          *)
LEMMA FreshStep ==
    ASSUME TypeInv, OutInv, reloads = 0, NEW d \in Devices,
           OutsAdvance(d) \/ OutsDrop(d)
    PROVE  KeysFresh'
<1>0. NamedAfterInit /\ OwnSessions /\ KeysFresh
  BY DEF OutInv
<1>a. /\ msgs \in Seq(Message) /\ Len(msgs) \in Nat
      /\ outs \in [Devices -> [Devices -> OutSession]]
  BY TypesOf
<1>1. CASE OutsAdvance(d)
  <2>1. PICK fs \in Seq(Devices), sync \in BOOLEAN : Distinct(fs) /\ Sends(d, fs, sync)
    BY <1>1 DEF OutsAdvance
  <2>2. /\ \A i \in 1 .. Len(msgs) : i \in 1 .. Len(msgs') /\ msgs'[i] = msgs[i]
        /\ \A i \in 1 .. Len(msgs') :
               i \in 1 .. Len(msgs) \/ \E k \in 1 .. Len(fs) : i = Len(msgs) + k
        /\ \A c \in Devices \ {d} : outs'[c] = outs[c]
        /\ \A e \in Devices : (\A k \in 1 .. Len(fs) : fs[k] # e) => outs'[d][e] = outs[d][e]
    BY <2>1, SendsFields
  <2>3. ASSUME NEW k \in 1 .. Len(fs)
        PROVE  LET i == Len(msgs) + k IN
               /\ fs[k] \in Devices
               /\ msgs'[i].from = d /\ msgs'[i].to = fs[k] /\ msgs'[i].n = outs[d][fs[k]].n
               /\ msgs'[i].n \in Nat
               /\ outs[d][fs[k]] = NoOut => msgs'[i].id = i
               /\ outs[d][fs[k]] # NoOut => msgs'[i].id = outs[d][fs[k]].id
               /\ outs'[d][fs[k]].id = msgs'[i].id /\ outs'[d][fs[k]].n = msgs'[i].n + 1
    <3> DEFINE i == Len(msgs) + k
    <3>1. /\ fs[k] \in Devices
          /\ msgs'[i] \in Message
          /\ msgs'[i].from = d /\ msgs'[i].to = fs[k] /\ msgs'[i].n = outs[d][fs[k]].n
          /\ outs[d][fs[k]] = NoOut => msgs'[i].id = i
          /\ outs[d][fs[k]] # NoOut => msgs'[i].id = outs[d][fs[k]].id
          /\ outs'[d][fs[k]].id = msgs'[i].id /\ outs'[d][fs[k]].n = msgs'[i].n + 1
      BY <2>1, AddedMessage
    <3> HIDE DEF i
    <3>2. msgs'[i].n \in Nat
      BY <3>1, MessageFields
    <3>3. QED
      BY <3>1, <3>2 DEF i
  <2>4. ASSUME NEW i \in 1 .. Len(msgs)
        PROVE  LET m == msgs[i] IN
               /\ m.id \in 1 .. Len(msgs) /\ m.n \in Nat /\ m.from \in Devices /\ m.to \in Devices
               /\ m.id = outs[m.from][m.to].id => m.n < outs[m.from][m.to].n
               /\ outs[m.from][m.to].n \in Nat
    <3>1. /\ msgs[i].id \in 1 .. Len(msgs) /\ msgs[i].n \in Nat /\ msgs[i].from \in Devices
          /\ msgs[i].to \in Devices
      BY <1>0, NameFields
    <3>2. outs[msgs[i].from][msgs[i].to] \in OutSession
      BY <1>a, <3>1
    <3>3. outs[msgs[i].from][msgs[i].to].n \in Nat
      BY <3>2, SessionFields
    <3>4. msgs[i].id = outs[msgs[i].from][msgs[i].to].id =>
              msgs[i].n < outs[msgs[i].from][msgs[i].to].n
      BY <1>0 DEF KeysFresh
    <3>5. QED
      BY <3>1, <3>3, <3>4
  \* An old message of a session is behind it, and no new one has its number.
  <2>5. ASSUME NEW i \in 1 .. Len(msgs), NEW k \in 1 .. Len(fs),
               msgs[i].id = msgs'[Len(msgs) + k].id
        PROVE  msgs[i].n < msgs'[Len(msgs) + k].n
    <3> DEFINE j == Len(msgs) + k
               e == fs[k]
    <3>1. /\ e \in Devices /\ msgs'[j].n = outs[d][e].n
          /\ outs[d][e] = NoOut => msgs'[j].id = j
          /\ outs[d][e] # NoOut => msgs'[j].id = outs[d][e].id
      BY <2>3
    <3>2. msgs[i].id \in 1 .. Len(msgs) /\ j > Len(msgs)
      BY <1>a, <2>4
    <3>3. outs[d][e] # NoOut /\ msgs[i].id = outs[d][e].id
      <4>1. msgs[i].id # j
        BY <1>a, <3>2
      <4> HIDE DEF j
      <4>2. QED
        BY <2>5, <3>1, <4>1 DEF j
    <3>4. msgs[msgs[i].id].from = d /\ msgs[msgs[i].id].to = e
      <4>1. SessionOf(msgs, outs[d][e], d, e)
        BY <1>0, <3>1 DEF OwnSessions
      <4>2. QED
        BY <3>3, <4>1 DEF SessionOf
    <3>5. msgs[i].from = d /\ msgs[i].to = e
      BY <1>0, <3>4, NameFields
    <3>6. QED
      BY <2>4, <3>1, <3>3, <3>5
  <2>6. ASSUME NEW i \in 1 .. Len(msgs'),
               msgs'[i].id = outs'[msgs'[i].from][msgs'[i].to].id
        PROVE  msgs'[i].n < outs'[msgs'[i].from][msgs'[i].to].n
    <3>1. CASE i \in 1 .. Len(msgs)
      <4> DEFINE m == msgs[i]
                 c == m.from
                 e == m.to
      <4>1. msgs'[i] = m
        BY <2>2, <3>1
      <4>2. /\ m.id \in 1 .. Len(msgs) /\ m.n \in Nat /\ c \in Devices /\ e \in Devices
            /\ m.id = outs[c][e].id => m.n < outs[c][e].n
        BY <2>4, <3>1
      <4>3. CASE c = d /\ \E k \in 1 .. Len(fs) : fs[k] = e
        <5>1. PICK k \in 1 .. Len(fs) : fs[k] = e
          BY <4>3
        <5> DEFINE j == Len(msgs) + k
        <5>2. /\ outs'[d][e].id = msgs'[j].id /\ outs'[d][e].n = msgs'[j].n + 1
              /\ msgs'[j].n \in Nat
          BY <2>3, <5>1
        <5>3. m.id = msgs'[j].id
          BY <2>6, <4>1, <4>3, <5>2
        <5>4. m.n < msgs'[j].n
          BY <2>5, <3>1, <5>3
        <5> HIDE DEF j, m
        <5>5. QED
          BY <4>1, <4>2, <4>3, <5>2, <5>4
      <4>4. CASE ~(c = d /\ \E k \in 1 .. Len(fs) : fs[k] = e)
        <5>1. outs'[c][e] = outs[c][e]
          BY <2>2, <4>2, <4>4
        <5>2. QED
          BY <2>6, <4>1, <4>2, <5>1
      <4>5. QED
        BY <4>3, <4>4
    <3>2. CASE \E k \in 1 .. Len(fs) : i = Len(msgs) + k
      <4>1. PICK k \in 1 .. Len(fs) : i = Len(msgs) + k
        BY <3>2
      <4>2. /\ msgs'[i].from = d /\ msgs'[i].to = fs[k] /\ msgs'[i].n \in Nat
            /\ outs'[d][fs[k]].n = msgs'[i].n + 1
        BY <2>3, <4>1
      <4>3. QED
        BY <4>2
    <3>3. QED
      BY <2>2, <3>1, <3>2
  <2>7. ASSUME NEW i \in 1 .. Len(msgs'), NEW j \in 1 .. Len(msgs'),
               msgs'[i].id = msgs'[j].id, msgs'[i].n = msgs'[j].n
        PROVE  i = j
    <3>1. CASE i \in 1 .. Len(msgs) /\ j \in 1 .. Len(msgs)
      BY <1>0, <2>2, <2>7, <3>1 DEF KeysFresh, NoKeyReuse
    <3>2. ASSUME NEW x \in 1 .. Len(msgs), NEW k \in 1 .. Len(fs),
                 msgs'[x].id = msgs'[Len(msgs) + k].id,
                 msgs'[x].n = msgs'[Len(msgs) + k].n
          PROVE  FALSE
      <4>1. msgs'[x] = msgs[x]
        BY <2>2
      <4>2. msgs[x].n < msgs'[Len(msgs) + k].n /\ msgs[x].n \in Nat
        BY <2>4, <2>5, <3>2, <4>1
      <4>3. QED
        BY <3>2, <4>1, <4>2
    <3>3. ASSUME NEW k \in 1 .. Len(fs), NEW l \in 1 .. Len(fs),
                 i = Len(msgs) + k, j = Len(msgs) + l
          PROVE  i = j
      <4>1. msgs'[i].to = fs[k] /\ msgs'[j].to = fs[l]
        BY <2>3, <3>3
      <4>2. NamedAfterInit'
        BY <1>1, NamedStep
      <4>3. msgs'[i].to = msgs'[j].to
        BY <2>7, <4>2 DEF NamedAfterInit
      <4>4. k = l
        BY <2>1, <4>1, <4>3 DEF Distinct
      <4>5. QED
        BY <3>3, <4>4
    <3>4. CASE i \in 1 .. Len(msgs) /\ \E l \in 1 .. Len(fs) : j = Len(msgs) + l
      BY <2>7, <3>2, <3>4
    <3>5. CASE j \in 1 .. Len(msgs) /\ \E l \in 1 .. Len(fs) : i = Len(msgs) + l
      BY <2>7, <3>2, <3>5
    <3>6. CASE (\E l \in 1 .. Len(fs) : i = Len(msgs) + l) /\ (\E l \in 1 .. Len(fs) : j = Len(msgs) + l)
      BY <3>3, <3>6
    <3>7. QED
      BY <2>2, <3>1, <3>4, <3>5, <3>6
  <2>8. QED
    BY <2>6, <2>7 DEF KeysFresh, NoKeyReuse
<1>2. CASE OutsDrop(d)
  <2>1. PICK E \in SUBSET Devices : outs' = Without(d, E)
    BY <1>2 DEF OutsDrop
  <2>2. \A c, e \in Devices : outs'[c][e] = outs[c][e] \/ outs'[c][e] = NoOut
    BY <2>1, WithoutFields
  <2>3. msgs' = msgs
    BY <1>2 DEF OutsDrop
  <2>4. ASSUME NEW i \in 1 .. Len(msgs), msgs[i].id = outs'[msgs[i].from][msgs[i].to].id
        PROVE  msgs[i].n < outs'[msgs[i].from][msgs[i].to].n
    <3>1. msgs[i].from \in Devices /\ msgs[i].to \in Devices /\ msgs[i].id # 0
      BY <1>0, NameFields
    <3>2. outs'[msgs[i].from][msgs[i].to] = outs[msgs[i].from][msgs[i].to]
      BY <2>2, <2>4, <3>1, SessionFields
    <3>3. QED
      BY <1>0, <2>4, <3>2 DEF KeysFresh
  <2>5. QED
    BY <1>0, <2>3, <2>4 DEF KeysFresh, NoKeyReuse
<1>3. QED
  BY <1>1, <1>2

(* What was reset stays so.                                                *)
LEMMA ResetStep ==
    ASSUME TypeInv, OutInv, reloads = 0, NEW d \in Devices,
           OutsAdvance(d) \/ OutsPersist(d) \/ OutsDrop(d)
    PROVE  ResetKept'
<1>0. NamedAfterInit /\ OwnSessions /\ MemoryLeads /\ ResetKept
  BY DEF OutInv
<1>a. /\ msgs \in Seq(Message) /\ Len(msgs) \in Nat
      /\ outs \in [Devices -> [Devices -> OutSession]]
  BY TypesOf
<1>b. \A c \in Devices : pendingAcks[c] \subseteq 1 .. Len(msgs)
      /\ \A x \in retired[c] : x.awaiting \subseteq 1 .. Len(msgs)
  BY DEF TypeInv, Indices
<1>1. CASE OutsAdvance(d)
  <2>1. PICK fs \in Seq(Devices), sync \in BOOLEAN : Distinct(fs) /\ Sends(d, fs, sync)
    BY <1>1 DEF OutsAdvance
  <2>2. retired' = retired /\ \A c, e \in Devices : LastPut(c, e)' = LastPut(c, e)
    BY <1>1 DEF OutsAdvance
  <2>3. /\ \A i \in 1 .. Len(msgs) : i \in 1 .. Len(msgs') /\ msgs'[i] = msgs[i]
        /\ \A c \in Devices \ {d} : outs'[c] = outs[c]
        /\ \A e \in Devices : (\A k \in 1 .. Len(fs) : fs[k] # e) => outs'[d][e] = outs[d][e]
        /\ Len(fs) \in Nat
    BY <2>1, SendsFields
  <2>4. /\ pendingAcks'[d] \subseteq pendingAcks[d] \cup (Len(msgs) + 1 .. Len(msgs) + Len(fs))
        /\ \A c \in Devices \ {d} : pendingAcks'[c] = pendingAcks[c]
    <3>1. PICK P \in SUBSET (Len(msgs) + 1 .. Len(msgs) + Len(fs)) :
             pendingAcks' = [pendingAcks EXCEPT ![d] = @ \cup P]
      BY <2>1 DEF Sends
    <3>2. pendingAcks \in [Devices -> SUBSET Nat]
      BY TypesOf
    <3>3. QED
      BY <3>1, <3>2
  \* A session that is sent on, or begun, is none of those reset.
  <2>5. ASSUME NEW k \in 1 .. Len(fs), NEW x \in retired[d]
        PROVE  /\ msgs'[Len(msgs) + k].id # x.id
               /\ outs'[d][fs[k]].id # x.id
    <3> DEFINE i == Len(msgs) + k
               e == fs[k]
    <3>1. /\ e \in Devices
          /\ outs[d][e] = NoOut => msgs'[i].id = i
          /\ outs[d][e] # NoOut => msgs'[i].id = outs[d][e].id
          /\ outs'[d][e].id = msgs'[i].id
      BY <2>1, AddedMessage
    <3>2. x.id \in 1 .. Len(msgs) /\ outs[d][e].id # x.id
      BY <1>0, <3>1 DEF ResetKept
    <3>3. i # x.id
      BY <1>a, <3>2
    <3> HIDE DEF i
    <3>4. QED
      BY <3>1, <3>2, <3>3 DEF i
  <2>6. ASSUME NEW c \in Devices, NEW e \in Devices, NEW x \in retired[c]
        PROVE  /\ x.id \in 1 .. Len(msgs')
               /\ outs'[c][e].id # x.id
               /\ \A i \in pendingAcks'[c] : msgs'[i].id = x.id => i \in x.awaiting
               /\ LastPut(c, e).id = x.id =>
                     \E i \in x.awaiting : LastPut(c, e) = [id |-> msgs'[i].id, n |-> msgs'[i].n + 1]
    <3>1. /\ x.id \in 1 .. Len(msgs) /\ outs[c][e].id # x.id
          /\ \A i \in pendingAcks[c] : msgs[i].id = x.id => i \in x.awaiting
          /\ LastPut(c, e).id = x.id =>
                \E i \in x.awaiting : LastPut(c, e) = [id |-> msgs[i].id, n |-> msgs[i].n + 1]
      BY <1>0 DEF ResetKept
    <3>2. outs'[c][e].id # x.id
      <4>1. CASE c = d /\ \E k \in 1 .. Len(fs) : fs[k] = e
        BY <2>5, <4>1
      <4>2. CASE ~(c = d /\ \E k \in 1 .. Len(fs) : fs[k] = e)
        <5>1. outs'[c][e] = outs[c][e]
          BY <2>3, <4>2
        <5>2. QED
          BY <3>1, <5>1
      <4>3. QED
        BY <4>1, <4>2
    <3>3. ASSUME NEW i \in pendingAcks'[c], msgs'[i].id = x.id
          PROVE  i \in x.awaiting
      <4>1. CASE i \in pendingAcks[c]
        <5>1. msgs'[i] = msgs[i]
          BY <1>b, <2>3, <4>1
        <5>2. QED
          BY <3>1, <3>3, <4>1, <5>1
      <4>2. CASE i \notin pendingAcks[c]
        <5>1. c = d /\ i \in Len(msgs) + 1 .. Len(msgs) + Len(fs)
          BY <2>4, <4>2
        <5>2. i - Len(msgs) \in 1 .. Len(fs) /\ i = Len(msgs) + (i - Len(msgs))
          BY <1>a, <2>3, <5>1
        <5>3. PICK k \in 1 .. Len(fs) : i = Len(msgs) + k
          BY <5>2
        <5>4. QED
          BY <2>5, <3>3, <5>1, <5>3
      <4>3. QED
        BY <4>1, <4>2
    <3>4. x.id \in 1 .. Len(msgs')
      BY <2>3, <3>1
    <3>5. \A i \in x.awaiting : msgs'[i] = msgs[i]
      BY <1>b, <2>3
    <3>6. QED
      BY <3>1, <3>2, <3>3, <3>4, <3>5
  <2>7. QED
    BY <2>2, <2>6 DEF ResetKept
<1>2. CASE OutsPersist(d)
  <2>1. PICK i \in pendingAcks[d] :
          \A c, e \in Devices :
             IF c = d /\ e = msgs[i].to
             THEN LastPut(c, e)' = Advanced(msgs[i])
             ELSE LastPut(c, e)' = LastPut(c, e)
    BY <1>2 DEF OutsPersist
  <2>2. UNCHANGED <<msgs, outs, retired>> /\ \A c \in Devices : pendingAcks'[c] \subseteq pendingAcks[c]
    BY <1>2 DEF OutsPersist
  <2>3. ASSUME NEW c \in Devices, NEW e \in Devices, NEW x \in retired[c], LastPut(c, e)'.id = x.id
        PROVE  \E k \in x.awaiting : LastPut(c, e)' = [id |-> msgs[k].id, n |-> msgs[k].n + 1]
    <3>1. CASE c = d /\ e = msgs[i].to
      <4>1. LastPut(c, e)' = [id |-> msgs[i].id, n |-> msgs[i].n + 1]
        BY <2>1, <3>1 DEF Advanced
      <4>2. msgs[i].id = x.id
        BY <2>3, <4>1
      <4>3. i \in x.awaiting
        BY <1>0, <3>1, <4>2 DEF ResetKept
      <4>4. QED
        BY <4>1, <4>3
    <3>2. CASE ~(c = d /\ e = msgs[i].to)
      <4>1. LastPut(c, e)' = LastPut(c, e)
        BY <2>1, <3>2
      <4>2. QED
        BY <1>0, <2>3, <4>1 DEF ResetKept
    <3>3. QED
      BY <3>1, <3>2
  <2>4. QED
    BY <1>0, <2>2, <2>3 DEF ResetKept
<1>3. CASE OutsDrop(d)
  <2>1. PICK E \in SUBSET Devices :
          /\ outs' = Without(d, E)
          /\ \A c, e \in Devices :
                IF c = d /\ e \in E THEN LastPut(c, e)' = NoOut
                ELSE LastPut(c, e)' = LastPut(c, e)
          /\ \A c \in Devices \ {d} : retired'[c] = retired[c]
          /\ \A x \in retired'[d] :
                \/ x \in retired[d]
                \/ \E e \in E : outs[d][e] # NoOut /\ x.id = outs[d][e].id
                                /\ x.awaiting = pendingAcks[d]
    BY <1>3 DEF OutsDrop
  <2>2. /\ \A c \in Devices \ {d} : outs'[c] = outs[c]
        /\ \A e \in Devices : outs'[d][e] = IF e \in E THEN NoOut ELSE outs[d][e]
    BY <2>1, WithoutFields
  <2>3. msgs' = msgs /\ pendingAcks' = pendingAcks
    BY <1>3 DEF OutsDrop
  <2>4. NoOut.id = 0
    BY SessionFields
  <2>5. ASSUME NEW c \in Devices, NEW e \in Devices, NEW x \in retired'[c]
        PROVE  /\ x.id \in 1 .. Len(msgs)
               /\ outs'[c][e].id # x.id
               /\ \A i \in pendingAcks[c] : msgs[i].id = x.id => i \in x.awaiting
               /\ LastPut(c, e)'.id = x.id =>
                     \E i \in x.awaiting : LastPut(c, e)' = [id |-> msgs[i].id, n |-> msgs[i].n + 1]
    <3>1. CASE x \in retired[c]
      <4>1. /\ x.id \in 1 .. Len(msgs) /\ outs[c][e].id # x.id
            /\ \A i \in pendingAcks[c] : msgs[i].id = x.id => i \in x.awaiting
            /\ LastPut(c, e).id = x.id =>
                  \E i \in x.awaiting : LastPut(c, e) = [id |-> msgs[i].id, n |-> msgs[i].n + 1]
        BY <1>0, <3>1 DEF ResetKept
      <4>2. x.id # 0
        BY <4>1
      <4>3. outs'[c][e] = outs[c][e] \/ outs'[c][e] = NoOut
        BY <2>2
      <4>4. LastPut(c, e)' = LastPut(c, e) \/ LastPut(c, e)' = NoOut
        BY <2>1
      <4>5. QED
        BY <2>4, <4>1, <4>2, <4>3, <4>4
    <3>2. CASE x \notin retired[c]
      <4>1. c = d
        BY <2>1, <3>2
      <4>2. PICK f \in E : outs[d][f] # NoOut /\ x.id = outs[d][f].id /\ x.awaiting = pendingAcks[d]
        BY <2>1, <3>2, <4>1
      <4>3. SessionOf(msgs, outs[d][f], d, f) /\ SessionOf(msgs, outs[d][e], d, e)
            /\ SessionOf(msgs, LastPut(d, e), d, e)
        BY <1>0, LastIsPersisted DEF OwnSessions
      <4>4. x.id \in 1 .. Len(msgs) /\ msgs[x.id].to = f /\ x.id # 0
        BY <4>2, <4>3 DEF SessionOf
      <4>5. outs'[d][e].id # x.id
        <5>1. CASE e \in E
          BY <2>2, <2>4, <4>4, <5>1
        <5>2. CASE e \notin E
          <6>1. outs'[d][e] = outs[d][e]
            BY <2>2, <5>2
          <6>2. outs[d][e].id # x.id
            BY <2>4, <4>2, <4>3, <4>4, <5>2 DEF SessionOf
          <6>3. QED
            BY <6>1, <6>2
        <5>3. QED
          BY <5>1, <5>2
      <4>6. LastPut(d, e)'.id # x.id
        <5>1. CASE e \in E
          BY <2>1, <2>4, <4>4, <5>1
        <5>2. CASE e \notin E
          <6>1. LastPut(d, e)' = LastPut(d, e)
            BY <2>1, <5>2
          <6>2. LastPut(d, e).id # x.id
            BY <2>4, <4>2, <4>3, <4>4, <5>2 DEF SessionOf
          <6>3. QED
            BY <6>1, <6>2
        <5>3. QED
          BY <5>1, <5>2
      <4>7. QED
        BY <4>1, <4>2, <4>4, <4>5, <4>6
    <3>3. QED
      BY <3>1, <3>2
  <2>6. QED
    BY <2>3, <2>5 DEF ResetKept
<1>4. QED
  BY <1>1, <1>2, <1>3

(* The outbound sessions' invariant is inductive.                          *)
LEMMA InitOuts == Init => OutInv
<1> SUFFICES ASSUME Init PROVE OutInv
  OBVIOUS
<1>1. Len(msgs) = 0 /\ 1 .. 0 = {} /\ ToSet(<<>>) = {}
  BY DEF Init, ToSet
<1>2. \A d, e \in Devices : outs[d][e] = NoOut /\ db_outs[d][e] = NoOut
  BY DEF Init
<1>3. \A d, e \in Devices : Persisted(d, e) = {NoOut}
  BY <1>1, <1>2 DEF Persisted, Values, Init
<1>4. NamedAfterInit
  BY <1>1 DEF NamedAfterInit
<1>5. OwnSessions
  BY <1>2, <1>3 DEF OwnSessions, SessionOf
<1>6. MemoryLeads
  <2>1. \A d \in Devices : pendingAcks[d] = {}
    BY DEF Init
  <2>2. QED
    BY <1>2, <1>3, <2>1, SessionFields DEF MemoryLeads
<1>7. KeysFresh /\ ResetKept
  <2>1. \A d \in Devices : retired[d] = {}
    BY DEF Init
  <2>2. QED
    BY <1>1, <2>1 DEF KeysFresh, NoKeyReuse, ResetKept
<1>8. QED
  BY <1>4, <1>5, <1>6, <1>7 DEF OutInv

(* Every step keeps what is known of the sending sessions.                 *)
LEMMA OutStep == TypeInv /\ OutInv /\ [Next]_vars => OutInv'
<1> SUFFICES ASSUME TypeInv, OutInv, [Next]_vars PROVE OutInv'
  OBVIOUS
<1>1. CASE OutsStay
  <2>1. /\ UNCHANGED <<msgs, outs, retired, reloads>>
        /\ \A c \in Devices : pendingAcks'[c] \subseteq pendingAcks[c]
        /\ \A c, e \in Devices :
              Persisted(c, e)' = Persisted(c, e) /\ LastPut(c, e)' = LastPut(c, e)
    BY <1>1 DEF OutsStay
  <2>2. NamedAfterInit'
    BY <2>1 DEF OutInv, NamedAfterInit
  <2>3. OwnSessions'
    BY <2>1 DEF OutInv, OwnSessions
  <2>4. MemoryLeads'
    BY <2>1 DEF OutInv, MemoryLeads
  <2>5. reloads = 0 => KeysFresh'
    BY <2>1 DEF OutInv, KeysFresh, NoKeyReuse
  <2>6. reloads = 0 => ResetKept'
    BY <2>1 DEF OutInv, ResetKept
  <2>7. QED
    BY <2>1, <2>2, <2>3, <2>4, <2>5, <2>6 DEF OutInv
<1>2. ASSUME NEW d \in Devices,
             OutsAdvance(d) \/ OutsPersist(d) \/ OutsDrop(d) \/ OutsReload(d)
      PROVE  OutInv'
  <2>1. NamedAfterInit'
    <3>1. CASE OutsAdvance(d)
      BY <3>1, NamedStep
    <3>2. CASE msgs' = msgs
      BY <3>2 DEF OutInv, NamedAfterInit
    <3>3. QED
      BY <1>2, <3>1, <3>2 DEF OutsPersist, OutsDrop, OutsReload
  <2>2. OwnSessions' /\ MemoryLeads'
    BY <1>2, OwnStep, LeadsStep
  <2>3. ASSUME reloads' = 0 PROVE KeysFresh' /\ ResetKept'
    <3>1. reloads = 0 /\ ~OutsReload(d)
      BY <1>2, <2>3 DEF OutsAdvance, OutsPersist, OutsDrop, OutsReload
    <3>2. ResetKept'
      BY <1>2, <3>1, ResetStep
    <3>3. CASE OutsAdvance(d) \/ OutsDrop(d)
      BY <3>1, <3>2, <3>3, FreshStep
    <3>4. CASE OutsPersist(d)
      <4>1. msgs' = msgs /\ outs' = outs
        BY <3>4 DEF OutsPersist
      <4>2. KeysFresh
        BY <3>1 DEF OutInv
      <4>3. KeysFresh'
        BY <4>1, <4>2 DEF KeysFresh, NoKeyReuse
      <4>4. QED
        BY <3>2, <4>3
    <3>5. QED
      BY <1>2, <3>1, <3>3, <3>4
  <2>4. QED
    BY <2>1, <2>2, <2>3 DEF OutInv
<1>3. QED
  BY <1>1, <1>2, OutShapes

(* Together with the types.                                                *)
LEMMA OutboundInvariant == Spec => [](TypeInv /\ OutInv)
BY InitTypes, TypeStep, InitOuts, OutStep, PTL DEF Spec

(* IndexedDB is never ahead of memory on a session they share, whatever    *)
(* sockets are lost, pages reloaded and sessions reset: a reload goes back *)
(* to keys that were used, and never skips any.                            *)
THEOREM MemoryIsAhead == Spec => []PersistedNotAhead
<1>1. TypeInv /\ OutInv => PersistedNotAhead
  BY LastIsPersisted DEF OutInv, MemoryLeads, PersistedNotAhead
<1>2. QED
  BY <1>1, OutboundInvariant, PTL

(* Unless a page was reloaded, no two messages are encrypted with the same *)
(* message key: not by overlapping sends, not after a reset or a dropped   *)
(* session, and not when sending throws between two of its steps.          *)
THEOREM KeysUsedOnce == Spec => [](reloads = 0 => NoKeyReuse)
<1>1. OutInv => (reloads = 0 => NoKeyReuse)
  BY DEF OutInv, KeysFresh
<1>2. QED
  BY <1>1, OutboundInvariant, PTL

(* Unless a page was reloaded, a session that was reset is not in memory   *)
(* again, and in IndexedDB only as the state of a message whose Ack was    *)
(* awaited at the reset.                                                   *)
THEOREM ResetLasts == Spec => [](reloads = 0 => ResetIsFinal)
<1>1. OutInv => (reloads = 0 => ResetIsFinal)
  BY DEF OutInv, ResetKept, ResetIsFinal
<1>2. QED
  BY <1>1, OutboundInvariant, PTL

-----------------------------------------------------------------------------
(* The inbound sessions                                                    *)

(* What memory and IndexedDB hold, or may come to hold, of the session to  *)
(* d from e.                                                               *)
Held(d, e) == {ins[d][e], db_ins[d][e]} \cup Values("ins", e, writes[d])

(* Of the messages M, each that chain s has passed was opened, by O, or    *)
(* its key is kept.                                                        *)
KeptBy(M, O, s) ==
    \A n \in 0 .. s.n - 1 :
        n \in s.skipped \/ \E i \in O : M[i].id = s.id /\ M[i].n = n

KeysKept == \A d, e \in Devices : \A s \in Held(d, e) : KeptBy(msgs, opened[d], s)

(* It stays so while messages are added and opened.                        *)
LEMMA KeptMore ==
    ASSUME NEW M, NEW N, NEW O, NEW P, NEW s, KeptBy(M, O, s), O \subseteq P,
           \A i \in O : N[i] = M[i]
    PROVE  KeptBy(N, P, s)
BY DEF KeptBy

(* A chain that receives a message, keeps the keys it steps over and gives *)
(* up the one it used.                                                     *)
LEMMA ReceivedKeeps ==
    ASSUME NEW s \in InSession, NEW m \in Message, NEW M, NEW O, NEW i \in O, M[i] = m,
           KeptBy(M, O, s), Decrypts(s, m), m.type = "init" => m.n = 0
    PROVE  KeptBy(M, O, Received(s, m))
<1>1. /\ m.id \in Nat /\ m.n \in Nat /\ s.id \in Nat /\ s.n \in Nat
      /\ s.skipped \in SUBSET Nat
  BY MessageFields, SessionFields
<1>2. s = [id |-> s.id, n |-> s.n, skipped |-> s.skipped]
  BY DEF InSession
<1> DEFINE r == Received(s, m)
<1>3. CASE m.type = "init"
  <2>1. r.id = m.id /\ r.n = 1
    BY <1>3 DEF Received
  <2> HIDE DEF r
  <2>2. \A n \in 0 .. r.n - 1 : n = m.n
    BY <1>3, <2>1
  <2>3. QED
    BY <2>1, <2>2 DEF KeptBy, r
<1>4. CASE m.type # "init" /\ m.n \in s.skipped
  <2>1. r = [id |-> s.id, n |-> s.n, skipped |-> s.skipped \ {m.n}] /\ m.id = s.id
    BY <1>2, <1>4 DEF Received, Decrypts
  <2>2. r.id = s.id /\ r.n = s.n /\ r.skipped = s.skipped \ {m.n}
    BY <2>1
  <2> HIDE DEF r
  <2>3. QED
    BY <2>1, <2>2 DEF KeptBy, r
<1>5. CASE m.type # "init" /\ m.n \notin s.skipped
  <2>1. /\ r = [id |-> s.id, n |-> m.n + 1, skipped |-> s.skipped \cup SkippedOnTheWay(s, m)]
        /\ m.id = s.id
    BY <1>2, <1>5 DEF Received, Decrypts
  <2>2. r.id = s.id /\ r.n = m.n + 1 /\ r.skipped = s.skipped \cup (s.n .. m.n - 1)
    BY <2>1 DEF SkippedOnTheWay
  <2> HIDE DEF r
  <2>3. ASSUME NEW n \in 0 .. r.n - 1
        PROVE  n \in r.skipped \/ \E k \in O : M[k].id = r.id /\ M[k].n = n
    <3>1. CASE n \in 0 .. s.n - 1
      BY <2>2, <3>1 DEF KeptBy
    <3>2. CASE n \in s.n .. m.n - 1
      BY <2>2, <3>2
    <3>3. CASE n = m.n
      BY <2>1, <2>2, <3>3
    <3>4. QED
      BY <1>1, <2>2, <3>1, <3>2, <3>3
  <2>4. QED
    BY <2>3 DEF KeptBy, r
<1>6. QED
  BY <1>3, <1>4, <1>5

(* What requested puts add to what is held.                                *)
LEMMA RequestHolds ==
    ASSUME TypeInv, NEW d \in Devices, NEW v \in Seq(Puts), Request(d, v),
           UNCHANGED db_ins, NEW c \in Devices, NEW e \in Devices, NEW s \in Held(c, e)'
    PROVE  \/ s = ins'[c][e] \/ s \in Held(c, e)
           \/ c = d /\ \E x \in ToSet(v) : x.table = "ins" /\ x.key = e /\ x.value = s
<1>1. /\ writes[d] \in Seq(Puts)
      /\ writes'[d] = writes[d] \o v
      /\ \A b \in Devices \ {d} : writes'[b] = writes[b]
  BY TypesOf, Requested
<1>2. s \in {ins'[c][e], db_ins[c][e]} \cup Values("ins", e, writes'[c])
  BY DEF Held
<1>3. CASE c # d
  BY <1>1, <1>2, <1>3 DEF Held
<1>4. CASE c = d
  <2>1. ToSet(writes'[d]) = ToSet(writes[d]) \cup ToSet(v)
    BY <1>1, ConcatElements
  <2>2. ASSUME s \in Values("ins", e, writes'[c])
        PROVE  \/ s \in Values("ins", e, writes[c])
               \/ \E x \in ToSet(v) : x.table = "ins" /\ x.key = e /\ x.value = s
    BY <1>4, <2>1, <2>2 DEF Values
  <2>3. QED
    BY <1>2, <1>4, <2>2 DEF Held
<1>5. QED
  BY <1>3, <1>4

(* What a step may leave: what was held, none, or a chain that keeps what  *)
(* it has to.                                                              *)
InsGrow ==
    /\ \A i \in 1 .. Len(msgs) : msgs'[i] = msgs[i]
    /\ \A c \in Devices : opened[c] \subseteq opened'[c]
    /\ \A c, e \in Devices : \A s \in Held(c, e)' :
          s \in Held(c, e) \/ s = NoIn \/ KeptBy(msgs', opened'[c], s)

(* Steps that neither encrypt, decrypt nor load leave the receiving        *)
(* sessions.                                                               *)
LEMMA QuietIns ==
    ASSUME TypeInv, NEW d \in Devices,
           \/ Connect(d) \/ OnOpen(d) \/ OnClose(d) \/ RelayStep(d) \/ OnDeliverySkipped(d)
           \/ \E u \in Users : SendMessage(d, u)
           \/ \E j \in sending[d] : FetchFailed(d, j)
    PROVE  InsGrow
<1>1. UNCHANGED <<msgs, ins, db_ins, writes, opened>>
  BY DEF Connect, OnOpen, OnClose, RelayStep, Accept, AcceptLate, OnDeliverySkipped, SendMessage,
         FetchFailed, memoryVars, dbVars
<1>2. \A c, e \in Devices : Held(c, e)' = Held(c, e)
  BY <1>1 DEF Held
<1>3. QED
  BY <1>1, <1>2 DEF InsGrow

(* Sending does not touch the receiving sessions.                          *)
LEMMA FetchedIns ==
    ASSUME TypeInv, NEW d \in Devices, NEW j \in sending[d],
           FetchedRecipient(d, j) \/ FetchedOwn(d, j)
    PROVE  InsGrow
<1>1. PICK fs \in Seq(Devices), sync \in BOOLEAN : Distinct(fs) /\ Sends(d, fs, sync)
  BY RecipientSends, OwnSends
<1>2. \A i \in 1 .. Len(msgs) : msgs'[i] = msgs[i]
  BY <1>1, SendsFields
<1>3. UNCHANGED <<ins, db_ins, opened>>
  BY DEF FetchedRecipient, FetchedOwn, dbVars
<1>4. ASSUME NEW c \in Devices, NEW e \in Devices, NEW s \in Held(c, e)'
      PROVE  s \in Held(c, e)
  <2>1. CASE UNCHANGED writes
    BY <1>3, <1>4, <2>1 DEF Held
  <2>2. CASE Request(d, <<PutShown(<<"sent", j.text>>)>>)
    <3> DEFINE x == PutShown(<<"sent", j.text>>)
               v == <<x>>
    <3>1. j \in Jobs
      BY TypesOf
    <3>2. <<"sent", j.text>> \in {"sent", "received"} \X Nat
      BY <3>1 DEF Jobs
    <3>3. x \in Puts /\ x.table = "messages"
      BY <3>2, PutFields
    <3> HIDE DEF x
    <3>4. v \in Seq(Puts) /\ ToSet(v) = {x}
      BY <3>3, OnePut
    <3>5. Request(d, v)
      BY <2>2 DEF x
    <3> HIDE DEF v
    <3>6. db_ins' = db_ins
      BY <1>3
    <3>7. \/ s = ins'[c][e] \/ s \in Held(c, e)
          \/ c = d /\ \E y \in ToSet(v) : y.table = "ins" /\ y.key = e /\ y.value = s
      BY <1>4, <3>4, <3>5, <3>6, RequestHolds
    <3>8. ins'[c][e] \in Held(c, e)
      BY <1>3 DEF Held
    <3>9. QED
      BY <3>3, <3>4, <3>7, <3>8
  <2>3. QED
    BY <2>1, <2>2 DEF FetchedRecipient, FetchedOwn, dbVars
<1>5. QED
  BY <1>2, <1>3, <1>4 DEF InsGrow

(* An Ack does not touch the receiving sessions.                           *)
LEMMA AckIns ==
    ASSUME TypeInv, NEW d \in Devices, OnAck(d)
    PROVE  InsGrow
<1> DEFINE i == Head(acks[d])
           x == PutOut(msgs[i].to, Advanced(msgs[i]))
           v == <<x>>
<1>1. x \in Puts /\ (Request(d, v) \/ writes' = writes)
  BY AckEffects
<1>2. UNCHANGED <<msgs, ins, db_ins, opened>>
  BY DEF OnAck
<1>3. x.table = "outs"
  BY DEF PutOut
<1> HIDE DEF x
<1>4. v \in Seq(Puts) /\ ToSet(v) = {x}
  BY <1>1, OnePut
<1> HIDE DEF v
<1>5. ASSUME NEW c \in Devices, NEW e \in Devices, NEW s \in Held(c, e)'
      PROVE  s \in Held(c, e)
  <2>1. CASE UNCHANGED writes
    BY <1>2, <1>5, <2>1 DEF Held
  <2>2. CASE Request(d, v)
    <3>1. db_ins' = db_ins /\ ins'[c][e] \in Held(c, e)
      BY <1>2 DEF Held
    <3>2. \/ s = ins'[c][e] \/ s \in Held(c, e)
          \/ c = d /\ \E y \in ToSet(v) : y.table = "ins" /\ y.key = e /\ y.value = s
      BY <1>4, <1>5, <2>2, <3>1, RequestHolds
    <3>3. QED
      BY <1>3, <1>4, <3>1, <3>2
  <2>3. QED
    BY <1>1, <2>1, <2>2
<1>6. QED
  BY <1>2, <1>5 DEF InsGrow

(* What arrives opens a session or moves one on, and keeps the keys passed *)
(* over.                                                                   *)
LEMMA DeliveryIns ==
    ASSUME TypeInv, NamedAfterInit, KeysKept, NEW d \in Devices, OnDelivery(d)
    PROVE  InsGrow
<1> DEFINE i == NextIndex(d)
           m == msgs[i]
           f == m.from
           r == Received(ins[d][f], m)
           E == DroppedOn(d, m)
           a == PutIn(f, r)
           b == PutShown(<<"received", i>>)
           v == <<a, b>> \o SetToSeq(Deleted(E))
<1>1. /\ i \in 1 .. Len(msgs) /\ m \in Message /\ f \in Devices
      /\ Decrypts(ins[d][f], m)
      /\ ins[d][f] \in InSession
      /\ ins'[d][f] = r
      /\ \A c, e \in Devices : c # d \/ e # f => ins'[c][e] = ins[c][e]
      /\ v \in Seq(Puts) /\ Request(d, v)
      /\ ToSet(v) = {a, b} \cup Deleted(E)
      /\ opened'[d] = opened[d] \cup {i}
      /\ \A c \in Devices \ {d} : opened'[c] = opened[c]
  BY DeliveryEffects
<1>2. UNCHANGED <<msgs, db_ins>>
  BY DEF OnDelivery
<1>3. \A x \in Deleted(E) : x.table = "outs"
  BY DEF Deleted, PutOut
<1>4. b.table = "messages" /\ a.table = "ins" /\ a.key = f /\ a.value = r
  BY DEF PutIn, PutShown
<1>5. KeptBy(msgs', opened'[d], r)
  <2>1. ins[d][f] \in Held(d, f)
    BY DEF Held
  <2>2. KeptBy(msgs, opened[d], ins[d][f])
    BY <1>1, <2>1 DEF KeysKept
  <2>3. KeptBy(msgs', opened'[d], ins[d][f])
    BY <1>1, <1>2, <2>2, KeptMore
  <2>4. m.type = "init" => m.n = 0
    BY <1>1 DEF NamedAfterInit
  <2>5. i \in opened'[d] /\ msgs'[i] = m
    BY <1>1, <1>2
  <2> HIDE DEF i, m, f
  <2>6. QED
    BY <1>1, <2>3, <2>4, <2>5, ReceivedKeeps
<1> HIDE DEF i, m, f, r, E, a, b, v
<1>6. ASSUME NEW c \in Devices, NEW e \in Devices, NEW s \in Held(c, e)'
      PROVE  s \in Held(c, e) \/ KeptBy(msgs', opened'[c], s)
  <2>1. db_ins' = db_ins
    BY <1>2
  <2>2. \/ s = ins'[c][e] \/ s \in Held(c, e)
        \/ c = d /\ \E y \in ToSet(v) : y.table = "ins" /\ y.key = e /\ y.value = s
    BY <1>1, <1>6, <2>1, RequestHolds
  <2>3. CASE s = ins'[c][e]
    <3>1. CASE c = d /\ e = f
      BY <1>1, <1>5, <2>3, <3>1
    <3>2. CASE ~(c = d /\ e = f)
      BY <1>1, <2>3, <3>2 DEF Held
    <3>3. QED
      BY <3>1, <3>2
  <2>4. CASE c = d /\ \E y \in ToSet(v) : y.table = "ins" /\ y.key = e /\ y.value = s
    <3>1. PICK y \in ToSet(v) : y.table = "ins" /\ y.value = s
      BY <2>4
    <3>2. y = a
      BY <1>1, <1>3, <1>4, <3>1
    <3>3. QED
      BY <1>4, <1>5, <2>4, <3>1, <3>2
  <2>5. QED
    BY <2>2, <2>3, <2>4
<1>7. QED
  BY <1>1, <1>2, <1>6 DEF InsGrow

(* A reset leaves no receiving session from its contact, and the others as *)
(* they are.                                                               *)
LEMMA ResetIns ==
    ASSUME TypeInv, NEW d \in Devices, NEW u \in Users, ResetSession(d, u)
    PROVE  InsGrow
<1> DEFINE E == {e \in Devices : UserOf[e] = u /\ outs[d][e] # NoOut}
           F == {e \in Devices : UserOf[e] = u /\ ins[d][e] # NoIn}
           v == SetToSeq(Deleted(E)) \o SetToSeq({PutIn(e, NoIn) : e \in F})
           I == {PutIn(e, NoIn) : e \in F}
<1>1. /\ \A c \in Devices \ {d} : ins'[c] = ins[c]
      /\ \A e \in Devices : ins'[d][e] = IF e \in F THEN NoIn ELSE ins[d][e]
      /\ v \in Seq(Puts) /\ Request(d, v)
      /\ ToSet(v) = Deleted(E) \cup I
  BY ResetEffects
<1>2. UNCHANGED <<msgs, opened, db_ins>>
  BY DEF ResetSession
<1>3. /\ \A x \in Deleted(E) : x.table = "outs"
      /\ \A x \in I : x.value = NoIn
  BY DEF Deleted, PutOut, PutIn
<1> HIDE DEF E, F, v, I
<1>4. ASSUME NEW c \in Devices, NEW e \in Devices, NEW s \in Held(c, e)'
      PROVE  s \in Held(c, e) \/ s = NoIn
  <2>1. db_ins' = db_ins
    BY <1>2
  <2>2. \/ s = ins'[c][e] \/ s \in Held(c, e)
        \/ c = d /\ \E y \in ToSet(v) : y.table = "ins" /\ y.key = e /\ y.value = s
    BY <1>1, <1>4, <2>1, RequestHolds
  <2>3. ins'[c][e] \in {ins[c][e], NoIn}
    BY <1>1
  <2>4. ins[c][e] \in Held(c, e)
    BY DEF Held
  <2>5. QED
    BY <1>1, <1>3, <2>2, <2>3, <2>4
<1>5. QED
  BY <1>2, <1>4 DEF InsGrow

(* A reload takes the receiving sessions from IndexedDB, where each kept   *)
(* the keys it had passed over.                                            *)
LEMMA ReloadIns ==
    ASSUME TypeInv, NEW d \in Devices, Reload(d)
    PROVE  InsGrow
<1>1. UNCHANGED <<msgs, opened>>
  BY DEF Reload
<1>2. /\ \A c \in Devices \ {d} :
            ins'[c] = ins[c] /\ db_ins'[c] = db_ins[c] /\ writes'[c] = writes[c]
      /\ writes'[d] = <<>>
      /\ \A e \in Devices :
            /\ db_ins'[d][e] \in {db_ins[d][e]} \cup Values("ins", e, writes[d])
            /\ ins'[d][e] = db_ins'[d][e]
  BY ReloadEffects
<1>3. \A e : Values("ins", e, <<>>) = {}
  <2>1. ToSet(<<>>) = {}
    BY DEF ToSet
  <2>2. QED
    BY <2>1 DEF Values
<1>4. ASSUME NEW c \in Devices, NEW e \in Devices, NEW s \in Held(c, e)'
      PROVE  s \in Held(c, e)
  <2>1. CASE c = d
    <3>1. s \in {ins'[d][e], db_ins'[d][e]} \cup Values("ins", e, <<>>)
      BY <1>2, <1>4, <2>1 DEF Held
    <3>2. QED
      BY <1>2, <1>3, <2>1, <3>1 DEF Held
  <2>2. CASE c # d
    BY <1>2, <1>4, <2>2 DEF Held
  <2>3. QED
    BY <2>1, <2>2
<1>5. QED
  BY <1>1, <1>4 DEF InsGrow

(* No step loses a key that was passed over.                               *)
LEMMA KeptStep == TypeInv /\ OutInv /\ KeysKept /\ [Next]_vars => KeysKept'
<1> SUFFICES ASSUME TypeInv, OutInv, KeysKept, [Next]_vars PROVE KeysKept'
  OBVIOUS
<1>1. InsGrow
  <2>1. CASE UNCHANGED vars
    <3>1. UNCHANGED <<msgs, ins, db_ins, writes, opened>>
      BY <2>1 DEF vars, memoryVars, dbVars
    <3>2. \A c, e \in Devices : Held(c, e)' = Held(c, e)
      BY <3>1 DEF Held
    <3>3. QED
      BY <3>1, <3>2 DEF InsGrow
  <2>2. CASE \E d \in Devices : DeviceStep(d) \/ RelayStep(d)
    <3>1. PICK d \in Devices : DeviceStep(d) \/ RelayStep(d)
      BY <2>2
    <3>2. CASE \/ Connect(d) \/ OnOpen(d) \/ OnClose(d) \/ RelayStep(d) \/ OnDeliverySkipped(d)
               \/ \E u \in Users : SendMessage(d, u)
               \/ \E j \in sending[d] : FetchFailed(d, j)
      BY <3>2, QuietIns
    <3>3. CASE \E j \in sending[d] : FetchedRecipient(d, j) \/ FetchedOwn(d, j)
      BY <3>3, FetchedIns
    <3>4. CASE OnAck(d)
      BY <3>4, AckIns
    <3>5. CASE OnDelivery(d)
      BY <3>5, DeliveryIns DEF OutInv
    <3>6. CASE \E u \in Users : ResetSession(d, u)
      BY <3>6, ResetIns
    <3>7. CASE Reload(d)
      BY <3>7, ReloadIns
    <3>8. QED
      BY <3>1, <3>2, <3>3, <3>4, <3>5, <3>6, <3>7 DEF DeviceStep
  <2>3. QED
    BY <2>1, <2>2 DEF Next
<1>2. ASSUME NEW c \in Devices, NEW e \in Devices, NEW s \in Held(c, e)'
      PROVE  KeptBy(msgs', opened'[c], s)
  <2>1. CASE s \in Held(c, e)
    <3>1. KeptBy(msgs, opened[c], s)
      BY <2>1 DEF KeysKept
    <3>2. opened[c] \subseteq opened'[c] /\ opened[c] \subseteq 1 .. Len(msgs)
      BY <1>1 DEF InsGrow, TypeInv, Indices
    <3>3. \A i \in opened[c] : msgs'[i] = msgs[i]
      BY <1>1, <3>2 DEF InsGrow
    <3>4. QED
      BY <3>1, <3>2, <3>3, KeptMore
  <2>2. CASE s = NoIn
    <3>1. 0 .. NoIn.n - 1 = {}
      BY SessionFields
    <3>2. QED
      BY <2>2, <3>1 DEF KeptBy
  <2>3. QED
    BY <1>1, <1>2, <2>1, <2>2 DEF InsGrow
<1>3. QED
  BY <1>2 DEF KeysKept

(* There is no session yet, so none has passed a key over.                 *)
LEMMA InitKept == Init => KeysKept
<1> SUFFICES ASSUME Init PROVE KeysKept
  OBVIOUS
<1>1. ToSet(<<>>) = {} /\ 0 .. NoIn.n - 1 = {}
  BY SessionFields DEF ToSet
<1>2. \A d, e \in Devices : Held(d, e) = {NoIn}
  BY <1>1 DEF Held, Values, Init
<1>3. QED
  BY <1>1, <1>2 DEF KeysKept, KeptBy

(* The types and both sides of the sessions.                               *)
LEMMA SessionInvariant == Spec => [](TypeInv /\ OutInv /\ KeysKept)
BY InitTypes, TypeStep, InitOuts, OutStep, InitKept, KeptStep, PTL DEF Spec

(* A receiver gives up a message key only by decrypting with it, whatever  *)
(* writes a reload loses: a chain that was put back has not passed more.   *)
THEOREM PassedKeysAreKept == Spec => []NoKeyDropped
<1>1. KeysKept => NoKeyDropped
  <2> SUFFICES ASSUME KeysKept PROVE NoKeyDropped
    OBVIOUS
  <2>1. \A d, e \in Devices : ins[d][e] \in Held(d, e)
    BY DEF Held
  <2>2. \A d, e \in Devices : KeptBy(msgs, opened[d], ins[d][e])
    BY <2>1 DEF KeysKept
  <2>3. QED
    BY <2>2 DEF KeptBy, NoKeyDropped
<1>2. QED
  BY <1>1, SessionInvariant, PTL


-----------------------------------------------------------------------------
(* What the relay has, while no socket is lost and no page reloaded        *)

Undisturbed == drops = 0 /\ reloads = 0

(* A suspended sendMessage finds its socket open.                          *)
SendingIsOpen == \A d \in Devices : sending[d] # {} => ws[d] = "open"

(* A message is on its way to the relay or stored by it.                   *)
NothingLost ==
    \A i \in 1 .. Len(msgs) :
        i \in ToSet(up[msgs[i].from]) \/ i \in ToSet(log[UserOf[msgs[i].to]])

(* Frames are on their way in the order they were sent, and what is        *)
(* acknowledged was sent before them.                                      *)
FramesInOrder ==
    \A d \in Devices :
        /\ \A p, q \in 1 .. Len(up[d]) : p < q => up[d][p] < up[d][q]
        /\ \A i \in ToSet(acks[d]), k \in ToSet(up[d]) : i < k

(* The init of a session that IndexedDB holds, or may come to hold, is     *)
(* stored.                                                                 *)
InitsStored ==
    \A d, e \in Devices : \A s \in Persisted(d, e) :
        s # NoOut => s.id \in ToSet(log[UserOf[e]])

KnownInv == Undisturbed => SendingIsOpen /\ NothingLost /\ FramesInOrder /\ InitsStored

(* The steps, as the frames see them: nothing is sent or taken, ...        *)
FramesStay ==
    /\ UNCHANGED <<msgs, up>>
    /\ \A c \in Devices : ToSet(acks'[c]) \subseteq ToSet(acks[c])
    /\ \A u \in Users : ToSet(log[u]) \subseteq ToSet(log'[u])

(* ... messages are sent, ...                                              *)
FramesSent(d) ==
    /\ \E fs \in Seq(Devices), sync \in BOOLEAN : Distinct(fs) /\ Sends(d, fs, sync)
    /\ sending[d] # {}
    /\ UNCHANGED <<acks, log>>

(* ... or one is stored; sockets are not lost.                             *)
LEMMA FrameShapes ==
    ASSUME TypeInv, [Next]_vars, Undisturbed'
    PROVE  /\ Undisturbed
           /\ FramesStay \/ \E d \in Devices : FramesSent(d) \/ Accept(d)
<1>1. drops \in Nat /\ reloads \in Nat /\ drops' = 0 /\ reloads' = 0
  BY DEF TypeInv, MemoryTypes, Undisturbed
<1>2. CASE UNCHANGED vars
  <2>1. UNCHANGED <<msgs, up, acks, log, drops, reloads>>
    BY <1>2 DEF vars, relayVars, boundVars
  <2>2. QED
    BY <1>1, <2>1 DEF FramesStay, Undisturbed
<1>3. CASE \E d \in Devices : DeviceStep(d) \/ RelayStep(d)
  <2>1. PICK d \in Devices : DeviceStep(d) \/ RelayStep(d)
    BY <1>3
  <2>2. CASE \/ Connect(d) \/ OnOpen(d) \/ OnDelivery(d) \/ OnDeliverySkipped(d)
             \/ \E u \in Users : SendMessage(d, u)
             \/ \E j \in sending[d] : FetchFailed(d, j)
             \/ \E u \in Users : ResetSession(d, u)
    <3>1. UNCHANGED <<msgs, up, acks, log, drops, reloads>>
      BY <2>2 DEF Connect, OnOpen, OnDelivery, OnDeliverySkipped, SendMessage, FetchFailed,
         ResetSession, relayVars, boundVars
    <3>2. QED
      BY <1>1, <3>1 DEF FramesStay, Undisturbed
  <2>3. CASE \E j \in sending[d] : FetchedRecipient(d, j) \/ FetchedOwn(d, j)
    <3>1. PICK j \in sending[d] : FetchedRecipient(d, j) \/ FetchedOwn(d, j)
      BY <2>3
    <3>2. \E fs \in Seq(Devices), sync \in BOOLEAN : Distinct(fs) /\ Sends(d, fs, sync)
      BY <3>1, RecipientSends, OwnSends
    <3>3. UNCHANGED <<acks, log, drops, reloads>>
      BY <3>1 DEF FetchedRecipient, FetchedOwn, boundVars
    <3>4. QED
      BY <1>1, <3>1, <3>2, <3>3 DEF FramesSent, Undisturbed
  <2>4. CASE OnAck(d)
    <3>1. UNCHANGED <<msgs, up, log, drops, reloads>>
      BY <2>4 DEF OnAck, boundVars
    <3>2. \A c \in Devices : ToSet(acks'[c]) \subseteq ToSet(acks[c])
      BY <2>4, AckEffects
    <3>3. QED
      BY <1>1, <3>1, <3>2 DEF FramesStay, Undisturbed
  <2>5. CASE Accept(d)
    <3>1. UNCHANGED <<drops, reloads>>
      BY <2>5 DEF Accept, boundVars
    <3>2. QED
      BY <1>1, <2>5, <3>1 DEF Undisturbed
  <2>6. CASE AcceptLate(d)
    <3>1. UNCHANGED <<msgs, up, acks, drops, reloads>>
      BY <2>6 DEF AcceptLate, boundVars
    <3>2. late[d] \in Seq(Nat) /\ late[d] # <<>> /\ Stored(Head(late[d]))
      BY <2>6, TypesOf DEF AcceptLate
    <3>3. Head(late[d]) \in ToSet(late[d])
      BY <3>2, TailElements
    <3>4. Head(late[d]) \in 1 .. Len(msgs)
      BY <3>3 DEF TypeInv, Indices
    <3>5. \A u \in Users : ToSet(log[u]) \subseteq ToSet(log'[u])
      BY <3>2, <3>4, StoredTypes
    <3>6. QED
      BY <1>1, <3>1, <3>5 DEF FramesStay, Undisturbed
  <2>7. ~OnClose(d)
    BY <1>1 DEF OnClose
  <2>8. ~Reload(d)
    BY <1>1 DEF Reload
  <2>9. QED
    BY <2>1, <2>2, <2>3, <2>4, <2>5, <2>6, <2>7, <2>8 DEF DeviceStep, RelayStep
<1>4. QED
  BY <1>2, <1>3 DEF Next

(* Sockets that messages wait for stay open, unless they are lost.         *)
LEMMA OpenStep ==
    ASSUME TypeInv, SendingIsOpen, [Next]_vars, Undisturbed'
    PROVE  SendingIsOpen'
<1>0. /\ ws \in [Devices -> WebSocketStates] /\ sending \in [Devices -> SUBSET Jobs]
      /\ drops \in Nat /\ reloads \in Nat /\ drops' = 0 /\ reloads' = 0
  BY TypesOf DEF TypeInv, MemoryTypes, Undisturbed
<1>1. CASE UNCHANGED vars
  BY <1>1 DEF SendingIsOpen, vars, memoryVars
<1>2. CASE \E d \in Devices : DeviceStep(d) \/ RelayStep(d)
  <2>1. PICK d \in Devices : DeviceStep(d) \/ RelayStep(d)
    BY <1>2
  <2>2. CASE \/ OnAck(d) \/ OnDelivery(d) \/ OnDeliverySkipped(d) \/ RelayStep(d)
             \/ \E u \in Users : ResetSession(d, u)
    <3>1. UNCHANGED <<ws, sending>>
      BY <2>2 DEF OnAck, OnDelivery, OnDeliverySkipped, RelayStep, Accept, AcceptLate,
         ResetSession, memoryVars
    <3>2. QED
      BY <3>1 DEF SendingIsOpen
  <2>3. CASE Connect(d) \/ OnOpen(d)
    <3>1. sending' = sending /\ (sending[d] = {} \/ ws'[d] = "open")
      BY <1>0, <2>3 DEF Connect, OnOpen, SendingIsOpen, memoryVars
    <3>2. \A c \in Devices \ {d} : ws'[c] = ws[c]
      BY <1>0, <2>3 DEF Connect, OnOpen
    <3>3. QED
      BY <3>1, <3>2 DEF SendingIsOpen
  <2>4. CASE \E u \in Users : SendMessage(d, u)
    <3>1. /\ ws[d] = "open" /\ ws' = ws
          /\ \A c \in Devices \ {d} : sending'[c] = sending[c]
      BY <1>0, <2>4 DEF SendMessage
    <3>2. QED
      BY <3>1 DEF SendingIsOpen
  <2>5. CASE \E j \in sending[d] : \/ FetchedRecipient(d, j) \/ FetchedOwn(d, j)
                                   \/ FetchFailed(d, j)
    <3>1. /\ ws[d] = "open" /\ ws' = ws
          /\ \A c \in Devices \ {d} : sending'[c] = sending[c]
      BY <1>0, <2>5 DEF FetchedRecipient, FetchedOwn, FetchFailed, SendingIsOpen
    <3>2. QED
      BY <3>1 DEF SendingIsOpen
  <2>6. ~OnClose(d)
    BY <1>0 DEF OnClose
  <2>7. ~Reload(d)
    BY <1>0 DEF Reload
  <2>8. QED
    BY <2>1, <2>2, <2>3, <2>4, <2>5, <2>6, <2>7 DEF DeviceStep
<1>3. QED
  BY <1>1, <1>2 DEF Next

(* What is sent on an open socket, is on its way after what was.           *)
LEMMA SentFrames ==
    ASSUME TypeInv, NEW d \in Devices, ws[d] = "open",
           NEW fs \in Seq(Devices), NEW sync \in BOOLEAN, Sends(d, fs, sync)
    PROVE  LET l == Len(msgs)
               h == Len(up[d])
               k == Len(fs)
           IN  /\ l \in Nat /\ h \in Nat /\ k \in Nat
               /\ up[d] \in Seq(Nat) /\ up'[d] \in Seq(Nat) /\ Len(up'[d]) = h + k
               /\ \A p \in 1 .. h : up'[d][p] = up[d][p]
               /\ \A p \in 1 .. k : up'[d][h + p] = l + p
               /\ ToSet(up'[d]) = ToSet(up[d]) \cup (l + 1 .. l + k)
               /\ \A c \in Devices \ {d} : up'[c] = up[c]
<1>0. \/ up' = [up EXCEPT ![d] = up[d] \o NewIndices(fs)]
      \/ up' = up /\ fs = <<>>
  BY DEF Sends
<1> DEFINE l == Len(msgs)
           h == Len(up[d])
           k == Len(fs)
           new == NewIndices(fs)
           x == up[d] \o new
<1>1. /\ l \in Nat /\ k \in Nat
      /\ up \in [Devices -> Seq(Nat)]
  BY TypesOf
<1>2. up[d] \in Seq(Nat) /\ h \in Nat
  BY <1>1
<1>3. new \in Seq(Nat) /\ Len(new) = k /\ \A p \in 1 .. k : new[p] = l + p
  BY <1>1 DEF NewIndices
<1>4. \/ up' = [up EXCEPT ![d] = x]
      \/ up' = up /\ fs = <<>>
  BY <1>0
<1> HIDE DEF new
<1>5. /\ x \in Seq(Nat) /\ Len(x) = h + k /\ ToSet(x) = ToSet(up[d]) \cup ToSet(new)
      /\ \A p \in 1 .. h : x[p] = up[d][p]
      /\ \A p \in 1 .. k : x[h + p] = l + p
  <2>1. /\ x \in Seq(Nat) /\ Len(x) = h + Len(new) /\ ToSet(x) = ToSet(up[d]) \cup ToSet(new)
        /\ \A p \in 1 .. h : x[p] = up[d][p]
        /\ \A p \in 1 .. Len(new) : x[h + p] = new[p]
    <3>1. up[d] \in Seq(Nat) /\ new \in Seq(Nat)
      BY <1>2, <1>3
    <3>2. QED
      BY <3>1, ConcatElements
  <2> HIDE DEF x, h, k, l
  <2>2. QED
    BY <1>3, <2>1
<1>6. ToSet(new) = l + 1 .. l + k
  <2> HIDE DEF l, k
  <2>1. \A y : y \in ToSet(new) <=> \E p \in 1 .. k : l + p = y
    BY <1>3, ElementsOf
  <2>2. \A y \in l + 1 .. l + k : y - l \in 1 .. k /\ l + (y - l) = y
    BY <1>1 DEF l, k
  <2>3. \A p \in 1 .. k : l + p \in l + 1 .. l + k
    BY <1>1 DEF l, k
  <2>4. QED
    BY <2>1, <2>2, <2>3
<1>7. CASE up' = [up EXCEPT ![d] = x]
  <2> HIDE DEF x
  <2>1. up'[d] = x /\ \A c \in Devices \ {d} : up'[c] = up[c]
    BY <1>1, <1>7
  <2>2. QED
    BY <1>1, <1>2, <1>5, <1>6, <2>1
<1>8. CASE up' = up /\ fs = <<>>
  <2>1. k = 0 /\ 1 .. k = {} /\ l + 1 .. l + k = {}
    BY <1>1, <1>8
  <2>2. QED
    BY <1>1, <1>2, <1>8, <2>1
<1>9. QED
  BY <1>4, <1>7, <1>8

(* The relay takes the frame that was sent first.                          *)
LEMMA AcceptEffects ==
    ASSUME TypeInv, NEW d \in Devices, Accept(d)
    PROVE  LET i == up[d][1] IN
           /\ i \in 1 .. Len(msgs) /\ Stored(i) /\ i \in ToSet(log'[UserOf[msgs[i].to]])
           /\ up[d] \in Seq(Nat) /\ 1 \in 1 .. Len(up[d]) /\ Len(up[d]) \in Nat
           /\ up'[d] \in Seq(Nat) /\ Len(up'[d]) = Len(up[d]) - 1
           /\ \A p \in 1 .. Len(up[d]) - 1 : up'[d][p] = up[d][p + 1]
           /\ ToSet(up[d]) = {i} \cup ToSet(up'[d])
           /\ \A c \in Devices \ {d} : up'[c] = up[c]
           /\ ToSet(acks'[d]) = ToSet(acks[d]) \cup {i}
           /\ \A c \in Devices \ {d} : acks'[c] = acks[c]
           /\ \A u \in Users : ToSet(log[u]) \subseteq ToSet(log'[u])
<1> DEFINE i == up[d][1]
           t == Tail(up[d])
           a == Append(acks[d], i)
<1>1. /\ up \in [Devices -> Seq(Nat)] /\ acks \in [Devices -> Seq(Nat)]
      /\ up[d] \in Seq(Nat) /\ acks[d] \in Seq(Nat)
  BY TypesOf
<1>2. up[d] # <<>>
  BY DEF Accept
<1>3. /\ Head(up[d]) = i /\ i \in Nat /\ 1 \in 1 .. Len(up[d])
      /\ t \in Seq(Nat) /\ Len(t) = Len(up[d]) - 1
      /\ \A p \in 1 .. Len(up[d]) - 1 : t[p] = up[d][p + 1]
      /\ ToSet(up[d]) = {i} \cup ToSet(t)
  BY <1>1, <1>2, TailElements
<1>4. /\ up' = [up EXCEPT ![d] = t] /\ Stored(i)
      /\ acks' = [acks EXCEPT ![d] = a]
  BY <1>3 DEF Accept
<1>5. a \in Seq(Nat) /\ ToSet(a) = ToSet(acks[d]) \cup {i}
  BY <1>1, <1>3, AppendElements
<1>6. i \in 1 .. Len(msgs)
  BY <1>3 DEF TypeInv, Indices
<1>7. /\ i \in ToSet(log'[UserOf[msgs[i].to]])
      /\ \A u \in Users : ToSet(log[u]) \subseteq ToSet(log'[u])
  BY <1>4, <1>6, StoredTypes
<1> HIDE DEF t, a
<1>8. /\ up'[d] = t /\ acks'[d] = a
      /\ \A c \in Devices \ {d} : up'[c] = up[c] /\ acks'[c] = acks[c]
  BY <1>1, <1>4
<1> HIDE DEF i
<1>9. Len(up[d]) \in Nat
  BY <1>1
<1>10. QED
  BY <1>1, <1>3, <1>4, <1>5, <1>6, <1>7, <1>8, <1>9 DEF i

(* Nothing is taken out of a mailbox.                                      *)
LEMMA LogsGrow ==
    ASSUME TypeInv, NEW d \in Devices, FramesStay \/ FramesSent(d) \/ Accept(d)
    PROVE  \A u \in Users : ToSet(log[u]) \subseteq ToSet(log'[u])
BY AcceptEffects DEF FramesStay, FramesSent

(* No message is lost.                                                     *)
LEMMA LostStep ==
    ASSUME TypeInv, OutInv, SendingIsOpen, NothingLost, NEW d \in Devices,
           FramesStay \/ FramesSent(d) \/ Accept(d)
    PROVE  NothingLost'
<1>1. \A i \in 1 .. Len(msgs) : /\ msgs[i].from \in Devices /\ msgs[i].to \in Devices
                                /\ UserOf[msgs[i].to] \in Users
  BY NameFields, Owners DEF OutInv
<1>2. \A u \in Users : ToSet(log[u]) \subseteq ToSet(log'[u])
  BY LogsGrow
<1>3. CASE FramesStay
  BY <1>1, <1>2, <1>3 DEF FramesStay, NothingLost
<1>4. CASE FramesSent(d)
  <2>1. PICK fs \in Seq(Devices), sync \in BOOLEAN : Distinct(fs) /\ Sends(d, fs, sync)
    BY <1>4 DEF FramesSent
  <2>2. ws[d] = "open"
    BY <1>4 DEF FramesSent, SendingIsOpen
  <2>3. /\ ToSet(up'[d]) = ToSet(up[d]) \cup (Len(msgs) + 1 .. Len(msgs) + Len(fs))
        /\ \A c \in Devices \ {d} : up'[c] = up[c]
        /\ Len(msgs) \in Nat /\ Len(fs) \in Nat
    BY <2>1, <2>2, SentFrames
  <2>4. /\ \A i \in 1 .. Len(msgs) : msgs'[i] = msgs[i]
        /\ \A i \in 1 .. Len(msgs') :
              i \in 1 .. Len(msgs) \/ \E k \in 1 .. Len(fs) : i = Len(msgs) + k
    BY <2>1, SendsFields
  <2>5. ASSUME NEW i \in 1 .. Len(msgs')
        PROVE  i \in ToSet(up'[msgs'[i].from]) \/ i \in ToSet(log'[UserOf[msgs'[i].to]])
    <3>1. CASE i \in 1 .. Len(msgs)
      <4>1. i \in ToSet(up[msgs[i].from]) \/ i \in ToSet(log[UserOf[msgs[i].to]])
        BY <3>1 DEF NothingLost
      <4>2. ToSet(up[msgs[i].from]) \subseteq ToSet(up'[msgs[i].from])
        BY <1>1, <2>3, <3>1
      <4>3. QED
        BY <1>1, <1>2, <2>4, <3>1, <4>1, <4>2
    <3>2. CASE \E k \in 1 .. Len(fs) : i = Len(msgs) + k
      <4>1. PICK k \in 1 .. Len(fs) : i = Len(msgs) + k
        BY <3>2
      <4>2. msgs'[i].from = d
        BY <2>1, <4>1, AddedMessage
      <4>3. i \in Len(msgs) + 1 .. Len(msgs) + Len(fs)
        BY <2>3, <4>1
      <4>4. QED
        BY <2>3, <4>2, <4>3
    <3>3. QED
      BY <2>4, <3>1, <3>2
  <2>6. QED
    BY <2>5 DEF NothingLost
<1>5. CASE Accept(d)
  <2> DEFINE h == up[d][1]
  <2>1. /\ h \in ToSet(log'[UserOf[msgs[h].to]])
        /\ ToSet(up[d]) = {h} \cup ToSet(up'[d])
        /\ \A c \in Devices \ {d} : up'[c] = up[c]
    BY <1>5, AcceptEffects
  <2>2. msgs' = msgs
    BY <1>5 DEF Accept
  <2> HIDE DEF h
  <2>3. ASSUME NEW i \in 1 .. Len(msgs)
        PROVE  i \in ToSet(up'[msgs[i].from]) \/ i \in ToSet(log'[UserOf[msgs[i].to]])
    <3>1. i \in ToSet(up[msgs[i].from]) \/ i \in ToSet(log[UserOf[msgs[i].to]])
      BY DEF NothingLost
    <3>2. QED
      BY <1>1, <1>2, <2>1, <3>1
  <2>4. QED
    BY <2>2, <2>3 DEF NothingLost
<1>6. QED
  BY <1>3, <1>4, <1>5

(* Frames stay in order.                                                   *)
LEMMA OrderStep ==
    ASSUME TypeInv, SendingIsOpen, FramesInOrder, NEW d \in Devices,
           FramesStay \/ FramesSent(d) \/ Accept(d)
    PROVE  FramesInOrder'
<1>1. CASE FramesStay
  BY <1>1 DEF FramesStay, FramesInOrder
<1>2. CASE FramesSent(d)
  <2> DEFINE l == Len(msgs)
             h == Len(up[d])
  <2>1. PICK fs \in Seq(Devices), sync \in BOOLEAN : Sends(d, fs, sync)
    BY <1>2 DEF FramesSent
  <2>2. ws[d] = "open" /\ acks' = acks
    BY <1>2 DEF FramesSent, SendingIsOpen
  <2> DEFINE k == Len(fs)
  <2>3. /\ l \in Nat /\ h \in Nat /\ k \in Nat
        /\ up[d] \in Seq(Nat) /\ Len(up'[d]) = h + k
        /\ \A p \in 1 .. h : up'[d][p] = up[d][p]
        /\ \A p \in 1 .. k : up'[d][h + p] = l + p
        /\ ToSet(up'[d]) = ToSet(up[d]) \cup (l + 1 .. l + k)
        /\ \A c \in Devices \ {d} : up'[c] = up[c]
    BY <2>1, <2>2, SentFrames
  <2>4. ToSet(up[d]) \subseteq 1 .. l /\ ToSet(acks[d]) \subseteq 1 .. l
    BY DEF TypeInv, Indices
  <2>5. \A p \in 1 .. h : up[d][p] \in 1 .. l
    BY <2>3, <2>4, ElementsOf
  <2>6. \A p, q \in 1 .. h : p < q => up[d][p] < up[d][q]
    BY DEF FramesInOrder
  <2> HIDE DEF l, h, k
  <2>7. ASSUME NEW p \in 1 .. h + k, NEW q \in 1 .. h + k, p < q
        PROVE  up'[d][p] < up'[d][q]
    <3>1. CASE q <= h
      <4>1. p \in 1 .. h /\ q \in 1 .. h
        BY <2>3, <2>7, <3>1
      <4>2. QED
        BY <2>3, <2>6, <2>7, <4>1
    <3>2. CASE q > h
      <4>1. q - h \in 1 .. k /\ h + (q - h) = q
        BY <2>3, <3>2
      <4>2. up'[d][q] = l + (q - h)
        BY <2>3, <4>1
      <4>3. CASE p <= h
        <5>1. p \in 1 .. h
          BY <2>3, <4>3
        <5>2. up'[d][p] \in 1 .. l
          BY <2>3, <2>5, <5>1
        <5>3. QED
          BY <2>3, <4>1, <4>2, <5>2
      <4>4. CASE p > h
        <5>1. p - h \in 1 .. k /\ h + (p - h) = p
          BY <2>3, <4>4
        <5>2. up'[d][p] = l + (p - h)
          BY <2>3, <5>1
        <5>3. QED
          BY <2>3, <2>7, <4>2, <5>2
      <4>5. QED
        BY <2>3, <4>3, <4>4
    <3>3. QED
      BY <2>3, <3>1, <3>2
  <2>8. ASSUME NEW i \in ToSet(acks[d]), NEW j \in ToSet(up'[d])
        PROVE  i < j
    <3>1. CASE j \in ToSet(up[d])
      BY <3>1 DEF FramesInOrder
    <3>2. CASE j \in l + 1 .. l + k
      BY <2>3, <2>4, <3>2
    <3>3. QED
      BY <2>3, <3>1, <3>2
  <2>9. QED
    BY <2>2, <2>3, <2>7, <2>8 DEF FramesInOrder
<1>3. CASE Accept(d)
  <2> DEFINE h == up[d][1]
             n == Len(up[d])
  <2>1. /\ up[d] \in Seq(Nat) /\ 1 \in 1 .. n /\ n \in Nat
        /\ up'[d] \in Seq(Nat) /\ Len(up'[d]) = n - 1
        /\ \A p \in 1 .. n - 1 : up'[d][p] = up[d][p + 1]
        /\ ToSet(up[d]) = {h} \cup ToSet(up'[d])
        /\ \A c \in Devices \ {d} : up'[c] = up[c]
        /\ ToSet(acks'[d]) = ToSet(acks[d]) \cup {h}
        /\ \A c \in Devices \ {d} : acks'[c] = acks[c]
    BY <1>3, AcceptEffects
  <2>2. \A p, q \in 1 .. n : p < q => up[d][p] < up[d][q]
    BY DEF FramesInOrder
  <2> HIDE DEF n
  <2>3. ASSUME NEW p \in 1 .. n - 1, NEW q \in 1 .. n - 1, p < q
        PROVE  up'[d][p] < up'[d][q]
    <3>1. p + 1 \in 1 .. n /\ q + 1 \in 1 .. n /\ p + 1 < q + 1
      BY <2>1, <2>3
    <3>2. QED
      BY <2>1, <2>2, <3>1
  <2>4. ASSUME NEW j \in ToSet(up'[d])
        PROVE  h < j
    <3> DEFINE t == up'[d]
    <3>0. t \in Seq(Nat) /\ Len(t) = n - 1 /\ j \in ToSet(t)
      BY <2>1
    <3> HIDE DEF t
    <3>1. PICK p \in 1 .. n - 1 : t[p] = j
      BY <3>0, ElementsOf
    <3>2. p + 1 \in 1 .. n /\ 1 < p + 1 /\ 1 \in 1 .. n
      BY <2>1
    <3>3. QED
      BY <2>1, <2>2, <3>1, <3>2 DEF t
  <2>5. \A i \in ToSet(acks[d]), j \in ToSet(up'[d]) : i < j
    BY <2>1 DEF FramesInOrder
  <2> HIDE DEF h
  <2>6. QED
    BY <2>1, <2>3, <2>4, <2>5 DEF FramesInOrder
<1>4. QED
  BY <1>1, <1>2, <1>3

(* A state is persisted when the relay has its session's init: that was    *)
(* sent before the message whose Ack has come, which all frames still on   *)
(* their way follow.                                                       *)
LEMMA StoredStep ==
    ASSUME TypeInv, OutInv, NothingLost, FramesInOrder, InitsStored, [Next]_vars, reloads' = 0,
           \A u \in Users : ToSet(log[u]) \subseteq ToSet(log'[u])
    PROVE  InitsStored'
<1>1. \A c, e \in Devices : \A s \in Persisted(c, e) :
          s # NoOut => s.id \in ToSet(log'[UserOf[e]])
  BY Owners DEF InitsStored
<1>2. CASE OutsStay
  BY <1>1, <1>2 DEF OutsStay, InitsStored
<1>3. ASSUME NEW d \in Devices,
             OutsAdvance(d) \/ OutsPersist(d) \/ OutsDrop(d) \/ OutsReload(d)
      PROVE  InitsStored'
  <2>1. CASE OutsAdvance(d)
    BY <1>1, <2>1 DEF OutsAdvance, InitsStored
  <2>2. CASE OutsPersist(d)
    <3>1. PICK i \in pendingAcks[d] :
            /\ i \in ToSet(acks[d])
            /\ \A c, e \in Devices :
                 IF c = d /\ e = msgs[i].to
                 THEN Persisted(c, e)' = Persisted(c, e) \cup {Advanced(msgs[i])}
                 ELSE Persisted(c, e)' = Persisted(c, e)
      BY <2>2 DEF OutsPersist
    <3>2. i \in 1 .. Len(msgs)
      BY DEF TypeInv, Indices
    <3> DEFINE k == msgs[i].id
               e == msgs[i].to
    <3>3. /\ k \in 1 .. Len(msgs) /\ k \in 1 .. i /\ e \in Devices
          /\ msgs[k].from = msgs[i].from /\ msgs[k].to = e
      BY <3>2, NameFields DEF OutInv
    <3>4. msgs[i].from = d
      BY DEF OutInv, MemoryLeads
    <3>5. k \notin ToSet(up[d])
      <4>1. k \in ToSet(up[d]) => i < k
        BY <3>1 DEF FramesInOrder
      <4>2. QED
        BY <3>2, <3>3, <4>1
    <3>6. k \in ToSet(log[UserOf[e]])
      BY <3>3, <3>4, <3>5 DEF NothingLost
    <3>7. k \in ToSet(log'[UserOf[e]])
      BY <3>3, <3>6, Owners
    <3>8. Advanced(msgs[i]).id = k
      BY DEF Advanced
    <3>9. QED
      BY <1>1, <3>1, <3>7, <3>8 DEF InitsStored
  <2>3. CASE OutsDrop(d)
    <3>1. \A c, e \in Devices : Persisted(c, e)' \subseteq Persisted(c, e) \cup {NoOut}
      BY <2>3 DEF OutsDrop
    <3>2. QED
      BY <1>1, <3>1 DEF InitsStored
  <2>4. ~OutsReload(d)
    BY DEF OutsReload
  <2>5. QED
    BY <1>3, <2>1, <2>2, <2>3, <2>4
<1>4. QED
  BY <1>2, <1>3, OutShapes

(* What the relay has is inductive.                                        *)
LEMMA KnownStep == TypeInv /\ OutInv /\ KnownInv /\ [Next]_vars => KnownInv'
<1> SUFFICES ASSUME TypeInv, OutInv, KnownInv, [Next]_vars, Undisturbed'
             PROVE  (SendingIsOpen /\ NothingLost /\ FramesInOrder /\ InitsStored)'
  BY DEF KnownInv
<1>1. Undisturbed /\ (FramesStay \/ \E d \in Devices : FramesSent(d) \/ Accept(d))
  BY FrameShapes
<1>2. SendingIsOpen /\ NothingLost /\ FramesInOrder /\ InitsStored
  BY <1>1 DEF KnownInv
<1>3. SendingIsOpen'
  BY <1>2, OpenStep
<1>4. reloads' = 0
  BY DEF Undisturbed
<1>5. CASE \E d \in Devices : FramesStay \/ FramesSent(d) \/ Accept(d)
  <2>1. PICK d \in Devices : FramesStay \/ FramesSent(d) \/ Accept(d)
    BY <1>5
  <2>2. \A u \in Users : ToSet(log[u]) \subseteq ToSet(log'[u])
    BY <2>1, LogsGrow
  <2>3. QED
    BY <1>2, <1>3, <1>4, <2>1, <2>2, LostStep, OrderStep, StoredStep
<1>6. CASE FramesStay
  <2>1. \A u \in Users : ToSet(log[u]) \subseteq ToSet(log'[u])
    BY <1>6 DEF FramesStay
  <2>2. InitsStored'
    BY <1>2, <1>4, <2>1, StoredStep
  <2>3. \A i \in 1 .. Len(msgs) : msgs[i].to \in Devices /\ UserOf[msgs[i].to] \in Users
    BY NameFields, Owners DEF OutInv
  <2>4. NothingLost' /\ FramesInOrder'
    BY <1>2, <1>6, <2>1, <2>3 DEF FramesStay, NothingLost, FramesInOrder
  <2>5. QED
    BY <1>3, <2>2, <2>4
<1>7. QED
  BY <1>1, <1>5, <1>6

(* Nothing is sent or kept at first.                                       *)
LEMMA InitKnown == Init => KnownInv
<1> SUFFICES ASSUME Init PROVE KnownInv
  OBVIOUS
<1>1. ToSet(<<>>) = {} /\ 1 .. Len(<<>>) = {}
  BY DEF ToSet
<1>2. \A d, e \in Devices : Persisted(d, e) = {NoOut}
  BY <1>1 DEF Persisted, Values, Init
<1>3. QED
  BY <1>1, <1>2 DEF KnownInv, SendingIsOpen, NothingLost, FramesInOrder, InitsStored, Init

(* As long as no socket was lost and no page reloaded, every session that  *)
(* IndexedDB has kept is one whose init the relay has stored for the peer: *)
(* a state is persisted on an Ack only, and Acks come in the order of the  *)
(* frames.                                                                 *)
THEOREM KeptSessionsAreKnown == Spec => [](drops = 0 /\ reloads = 0 => PersistedIsKnown)
<1>1. TypeInv /\ KnownInv => (drops = 0 /\ reloads = 0 => PersistedIsKnown)
  BY LastIsPersisted DEF KnownInv, Undisturbed, InitsStored, PersistedIsKnown
<1>2. Spec => [](TypeInv /\ OutInv /\ KnownInv)
  BY InitTypes, TypeStep, InitOuts, OutStep, InitKnown, KnownStep, PTL DEF Spec
<1>3. QED
  BY <1>1, <1>2, PTL

-----------------------------------------------------------------------------
(* Each message is stored once and passed once                             *)

(* Frames on their way to the relay.                                       *)
FramesOnce ==
    \A d \in Devices :
        /\ \A i \in ToSet(up[d]) \cup ToSet(late[d]) : msgs[i].from = d
        /\ Distinct(up[d]) /\ Distinct(late[d])
        /\ ToSet(up[d]) \cap ToSet(late[d]) = {}

(* Mailboxes hold what is for their user, once, and what is no longer on   *)
(* its way.                                                                *)
StoredOnce ==
    \A u \in Users :
        /\ Distinct(log[u])
        /\ \A i \in ToSet(log[u]) :
              /\ UserOf[msgs[i].to] = u
              /\ \A d \in Devices : i \notin ToSet(up[d]) \cup ToSet(late[d])

(* What a device opened is behind its cursor.                              *)
OpenedPassed ==
    \A d \in Devices : \A i \in opened[d] :
        \E p \in 1 .. cursor[d] : log[UserOf[d]][p] = i

OnceInv == FramesOnce /\ StoredOnce /\ OpenedPassed

(* The first element of distinct ones is not among the others.             *)
LEMMA DistinctTail ==
    ASSUME NEW s \in Seq(Nat), s # <<>>, Distinct(s)
    PROVE  Distinct(Tail(s)) /\ Head(s) \in ToSet(s) /\ Head(s) \notin ToSet(Tail(s))
           /\ ToSet(Tail(s)) \subseteq ToSet(s)
<1> DEFINE t == Tail(s)
           h == Head(s)
<1>1. /\ h = s[1] /\ 1 \in 1 .. Len(s) /\ Len(s) \in Nat
      /\ t \in Seq(Nat) /\ Len(t) = Len(s) - 1
      /\ \A i \in 1 .. Len(s) - 1 : t[i] = s[i + 1]
      /\ ToSet(s) = {h} \cup ToSet(t)
  BY TailElements
<1> HIDE DEF t, h
<1>2. \A i \in 1 .. Len(t) : i + 1 \in 1 .. Len(s) /\ t[i] = s[i + 1] /\ i + 1 # 1
  BY <1>1
<1>3. Distinct(t)
  <2>1. ASSUME NEW i \in 1 .. Len(t), NEW j \in 1 .. Len(t), t[i] = t[j]
        PROVE  i = j
    <3>1. i + 1 = j + 1
      BY <1>2, <2>1 DEF Distinct
    <3>2. QED
      BY <1>1, <3>1
  <2>2. QED
    BY <2>1 DEF Distinct
<1>4. \A i \in 1 .. Len(t) : t[i] # h
  BY <1>1, <1>2 DEF Distinct
<1>5. h \notin ToSet(t)
  BY <1>1, <1>4, ElementsOf
<1>6. QED
  BY <1>1, <1>3, <1>5 DEF t, h

(* Distinct elements, followed by distinct others.                         *)
LEMMA DistinctConcat ==
    ASSUME NEW s \in Seq(Nat), NEW t \in Seq(Nat), Distinct(s), Distinct(t),
           ToSet(s) \cap ToSet(t) = {}
    PROVE  Distinct(s \o t)
<1> DEFINE x == s \o t
           a == Len(s)
           b == Len(t)
<1>1. /\ Len(x) = a + b /\ a \in Nat /\ b \in Nat
      /\ \A i \in 1 .. a : x[i] = s[i]
      /\ \A i \in 1 .. b : x[a + i] = t[i]
  BY ConcatElements
<1>2. /\ \A i \in 1 .. a : s[i] \in ToSet(s)
      /\ \A i \in 1 .. b : t[i] \in ToSet(t)
  BY ElementsOf
<1>3. \A i, j \in 1 .. a : s[i] = s[j] => i = j
  BY DEF Distinct
<1>4. \A i, j \in 1 .. b : t[i] = t[j] => i = j
  BY DEF Distinct
<1> HIDE DEF x, a, b
<1>5. ASSUME NEW i \in 1 .. a + b
      PROVE  \/ i \in 1 .. a /\ x[i] = s[i] /\ x[i] \in ToSet(s)
             \/ i - a \in 1 .. b /\ x[i] = t[i - a] /\ x[i] \in ToSet(t)
  <2>1. CASE i <= a
    BY <1>1, <1>2, <2>1
  <2>2. CASE i > a
    <3>1. i - a \in 1 .. b /\ a + (i - a) = i
      BY <1>1, <2>2
    <3>2. x[i] = t[i - a]
      BY <1>1, <3>1
    <3>3. QED
      BY <1>2, <3>1, <3>2
  <2>3. QED
    BY <1>1, <2>1, <2>2
<1>6. ASSUME NEW i \in 1 .. a + b, NEW j \in 1 .. a + b, x[i] = x[j]
      PROVE  i = j
  <2>1. CASE i \in 1 .. a /\ x[i] = s[i] /\ x[i] \in ToSet(s)
    <3>1. j \in 1 .. a /\ x[j] = s[j]
      BY <1>5, <1>6, <2>1
    <3>2. QED
      BY <1>3, <1>6, <2>1, <3>1
  <2>2. CASE i - a \in 1 .. b /\ x[i] = t[i - a] /\ x[i] \in ToSet(t)
    <3>1. j - a \in 1 .. b /\ x[j] = t[j - a]
      BY <1>5, <1>6, <2>2
    <3>2. i - a = j - a
      BY <1>4, <1>6, <2>2, <3>1
    <3>3. QED
      BY <1>1, <3>2
  <2>3. QED
    BY <1>5, <2>1, <2>2
<1>7. Distinct(x)
  BY <1>1, <1>6 DEF Distinct
<1>8. QED
  BY <1>7 DEF x

(* One more.                                                               *)
LEMMA DistinctAppend ==
    ASSUME NEW s \in Seq(Nat), NEW x \in Nat, Distinct(s), x \notin ToSet(s)
    PROVE  Distinct(Append(s, x))
<1> DEFINE t == Append(s, x)
           a == Len(s)
<1>1. /\ Len(t) = a + 1 /\ a \in Nat /\ t[a + 1] = x
      /\ \A i \in 1 .. a : t[i] = s[i]
  BY AppendElements
<1>2. \A i \in 1 .. a : s[i] # x
  BY ElementsOf
<1>3. \A i, j \in 1 .. a : s[i] = s[j] => i = j
  BY DEF Distinct
<1> HIDE DEF t, a
<1>4. \A i, j \in 1 .. a + 1 : t[i] = t[j] => i = j
  <2>1. \A i \in 1 .. a + 1 : i \in 1 .. a \/ i = a + 1
    BY <1>1
  <2>2. QED
    BY <1>1, <1>2, <1>3, <2>1
<1>5. Distinct(t)
  BY <1>1, <1>4 DEF Distinct
<1>6. QED
  BY <1>5 DEF t

(* Fewer.                                                                  *)
LEMMA DistinctPrefix ==
    ASSUME NEW s \in Seq(Nat), NEW n \in 0 .. Len(s), Distinct(s)
    PROVE  Distinct(SubSeq(s, 1, n))
<1>1. /\ Len(SubSeq(s, 1, n)) = n
      /\ \A i \in 1 .. n : SubSeq(s, 1, n)[i] = s[i] /\ i \in 1 .. Len(s)
  BY PrefixElements
<1>2. QED
  BY <1>1 DEF Distinct

(* What one sending puts on its way.                                       *)
LEMMA SentOnce ==
    ASSUME TypeInv, NEW d \in Devices,
           NEW fs \in Seq(Devices), NEW sync \in BOOLEAN, Sends(d, fs, sync)
    PROVE  /\ \A c \in Devices \ {d} : up'[c] = up[c]
           /\ \/ up'[d] = up[d]
              \/ \E new \in Seq(Nat) :
                    /\ Distinct(new) /\ up'[d] = up[d] \o new
                    /\ ToSet(new) \subseteq Len(msgs) + 1 .. Len(msgs) + Len(fs)
<1> DEFINE l == Len(msgs)
           k == Len(fs)
           new == NewIndices(fs)
           x == up[d] \o new
<1>1. l \in Nat /\ k \in Nat /\ up \in [Devices -> Seq(Nat)]
  BY TypesOf
<1>2. new \in Seq(Nat) /\ Len(new) = k /\ \A p \in 1 .. k : new[p] = l + p
  BY <1>1 DEF NewIndices
<1>3. \/ up' = [up EXCEPT ![d] = x]
      \/ up' = up
  BY DEF Sends
<1> HIDE DEF l, k, new
<1>4. Distinct(new)
  <2>1. ASSUME NEW i \in 1 .. k, NEW j \in 1 .. k, l + i = l + j
        PROVE  i = j
    BY <1>1, <2>1
  <2>2. QED
    BY <1>2, <2>1 DEF Distinct
<1>5. ToSet(new) \subseteq l + 1 .. l + k
  <2>1. \A p \in 1 .. k : l + p \in l + 1 .. l + k
    BY <1>1
  <2>2. QED
    BY <1>2, <2>1, ElementsOf
<1>6. \A c \in Devices \ {d} : up'[c] = up[c]
  BY <1>1, <1>3
<1>7. up'[d] = x \/ up'[d] = up[d]
  BY <1>1, <1>3
<1>8. QED
  BY <1>2, <1>4, <1>5, <1>6, <1>7 DEF l, k

(* A frame that the relay takes is stored once.                            *)
LEMMA TakenOnce ==
    ASSUME TypeInv, FramesOnce, StoredOnce, NEW d \in Devices,
           NEW i \in ToSet(up[d]) \cup ToSet(late[d]), Stored(i), msgs' = msgs,
           \A c \in Devices :
               /\ ToSet(up'[c]) \subseteq ToSet(up[c]) /\ ToSet(late'[c]) \subseteq ToSet(late[c])
               /\ Distinct(up'[c]) /\ Distinct(late'[c]),
           i \notin ToSet(up'[d]) \cup ToSet(late'[d])
    PROVE  FramesOnce' /\ StoredOnce'
<1>1. i \in 1 .. Len(msgs)
  BY DEF TypeInv, Indices
<1>2. FramesOnce'
  BY DEF FramesOnce
<1>3. /\ \A u \in Users :
            \/ log'[u] = log[u] /\ u # UserOf[msgs[i].to]
            \/ log'[u] = Append(log[u], i) /\ u = UserOf[msgs[i].to]
      /\ \A u \in Users : ToSet(log'[u]) \subseteq ToSet(log[u]) \cup {i}
  BY <1>1, StoredTypes
<1>4. \A c \in Devices : i \notin ToSet(up'[c]) \cup ToSet(late'[c])
  BY DEF FramesOnce
<1>5. ASSUME NEW u \in Users
      PROVE  /\ Distinct(log'[u])
             /\ \A k \in ToSet(log'[u]) :
                   /\ UserOf[msgs[k].to] = u
                   /\ \A c \in Devices : k \notin ToSet(up'[c]) \cup ToSet(late'[c])
  <2>1. /\ Distinct(log[u])
        /\ \A k \in ToSet(log[u]) :
              /\ UserOf[msgs[k].to] = u
              /\ \A c \in Devices : k \notin ToSet(up[c]) \cup ToSet(late[c])
    BY DEF StoredOnce
  <2>2. \A k \in ToSet(log[u]), c \in Devices : k \notin ToSet(up'[c]) \cup ToSet(late'[c])
    BY <2>1
  <2>3. CASE log'[u] = log[u]
    BY <2>1, <2>2, <2>3
  <2>4. CASE log'[u] = Append(log[u], i) /\ u = UserOf[msgs[i].to]
    <3>1. log[u] \in Seq(Nat) /\ i \in Nat /\ i \notin ToSet(log[u])
      BY <1>1, <2>1, TypesOf
    <3>2. Distinct(log'[u])
      BY <2>1, <2>4, <3>1, DistinctAppend
    <3>3. ASSUME NEW k \in ToSet(log'[u])
          PROVE  /\ UserOf[msgs[k].to] = u
                 /\ \A c \in Devices : k \notin ToSet(up'[c]) \cup ToSet(late'[c])
      <4>1. k \in ToSet(log[u]) \/ k = i
        BY <1>3
      <4>2. CASE k \in ToSet(log[u])
        BY <2>1, <2>2, <4>2
      <4>3. CASE k = i
        BY <1>4, <2>4, <4>3
      <4>4. QED
        BY <4>1, <4>2, <4>3
    <3>4. QED
      BY <3>2, <3>3
  <2>5. QED
    BY <1>3, <2>3, <2>4
<1>6. StoredOnce'
  BY <1>5 DEF StoredOnce
<1>7. QED
  BY <1>2, <1>6

(* The frames of each kind of step.                                        *)
LEMMA QuietOnce ==
    ASSUME FramesOnce, StoredOnce, UNCHANGED <<msgs, up, late, log>>
    PROVE  FramesOnce' /\ StoredOnce'
BY DEF FramesOnce, StoredOnce

(* New messages are nowhere yet.                                           *)
LEMMA SendingOnce ==
    ASSUME TypeInv, FramesOnce, StoredOnce, NEW d \in Devices,
           NEW fs \in Seq(Devices), Distinct(fs), NEW sync \in BOOLEAN, Sends(d, fs, sync),
           UNCHANGED <<late, log>>
    PROVE  FramesOnce' /\ StoredOnce'
<1> DEFINE l == Len(msgs)
           N == l + 1 .. l + Len(fs)
<1>1. /\ l \in Nat /\ Len(fs) \in Nat
      /\ up \in [Devices -> Seq(Nat)] /\ late \in [Devices -> Seq(Nat)]
  BY TypesOf
<1>2. \A i \in 1 .. l : msgs'[i] = msgs[i]
  BY SendsFields
<1>3. \A i \in N : msgs'[i].from = d
  <2>1. ASSUME NEW i \in N
        PROVE  i - l \in 1 .. Len(fs) /\ i = l + (i - l)
    BY <1>1
  <2>2. \A k \in 1 .. Len(fs) : msgs'[l + k].from = d
    BY AddedMessage
  <2>3. QED
    BY <2>1, <2>2
<1>4. /\ \A c \in Devices : ToSet(up[c]) \subseteq 1 .. l /\ ToSet(late[c]) \subseteq 1 .. l
      /\ \A u \in Users : ToSet(log[u]) \subseteq 1 .. l
  BY DEF TypeInv, Indices
<1>5. \A i \in N : i \notin 1 .. l
  BY <1>1
<1>6. /\ \A c \in Devices \ {d} : up'[c] = up[c]
      /\ ToSet(up'[d]) \subseteq ToSet(up[d]) \cup N
      /\ Distinct(up'[d])
  <2>1. /\ \A c \in Devices \ {d} : up'[c] = up[c]
        /\ \/ up'[d] = up[d]
           \/ \E new \in Seq(Nat) :
                 Distinct(new) /\ up'[d] = up[d] \o new /\ ToSet(new) \subseteq N
    BY SentOnce
  <2> HIDE DEF N, l
  <2>2. Distinct(up[d]) /\ up[d] \in Seq(Nat)
    BY <1>1 DEF FramesOnce
  <2>3. CASE up'[d] = up[d]
    BY <2>1, <2>2, <2>3
  <2>4. ASSUME NEW new \in Seq(Nat), Distinct(new), up'[d] = up[d] \o new, ToSet(new) \subseteq N
        PROVE  ToSet(up'[d]) \subseteq ToSet(up[d]) \cup N /\ Distinct(up'[d])
    <3>1. ToSet(up[d] \o new) = ToSet(up[d]) \cup ToSet(new)
      BY <2>2, ConcatElements
    <3>2. ToSet(up[d]) \cap ToSet(new) = {}
      BY <1>4, <1>5, <2>4
    <3>3. Distinct(up[d] \o new)
      BY <2>2, <2>4, <3>2, DistinctConcat
    <3>4. QED
      BY <2>4, <3>1, <3>3
  <2>5. QED
    BY <2>1, <2>3, <2>4
<1> HIDE DEF N, l
<1>7. \A c \in Devices : ToSet(up'[c]) \subseteq ToSet(up[c]) \cup N
  BY <1>6
<1>8. ASSUME NEW c \in Devices
      PROVE  /\ \A i \in ToSet(up'[c]) \cup ToSet(late[c]) : msgs'[i].from = c
             /\ Distinct(up'[c]) /\ Distinct(late[c])
             /\ ToSet(up'[c]) \cap ToSet(late[c]) = {}
  <2>1. /\ \A i \in ToSet(up[c]) \cup ToSet(late[c]) : msgs[i].from = c
        /\ Distinct(up[c]) /\ Distinct(late[c])
        /\ ToSet(up[c]) \cap ToSet(late[c]) = {}
    BY DEF FramesOnce
  <2>2. \A i \in ToSet(up[c]) \cup ToSet(late[c]) : msgs'[i].from = c
    BY <1>2, <1>4, <2>1
  <2>3. CASE c = d
    BY <1>3, <1>4, <1>5, <1>6, <2>1, <2>2, <2>3
  <2>4. CASE c # d
    BY <1>6, <2>1, <2>2, <2>4
  <2>5. QED
    BY <2>3, <2>4
<1>9. FramesOnce'
  BY <1>8 DEF FramesOnce
<1>10. ASSUME NEW u \in Users
       PROVE  /\ Distinct(log[u])
              /\ \A i \in ToSet(log[u]) :
                    /\ UserOf[msgs'[i].to] = u
                    /\ \A c \in Devices : i \notin ToSet(up'[c]) \cup ToSet(late[c])
  <2>1. ASSUME NEW i \in ToSet(log[u])
        PROVE  /\ UserOf[msgs'[i].to] = u
               /\ \A c \in Devices : i \notin ToSet(up'[c]) \cup ToSet(late[c])
    <3>1. i \in 1 .. l /\ msgs'[i] = msgs[i] /\ i \notin N
      BY <1>2, <1>4, <1>5
    <3>2. QED
      BY <1>7, <3>1 DEF StoredOnce
  <2>2. QED
    BY <2>1 DEF StoredOnce
<1>11. StoredOnce'
  BY <1>10 DEF StoredOnce
<1>12. QED
  BY <1>9, <1>11

(* The frames of a lost socket come late, or never.                        *)
LEMMA LossOnce ==
    ASSUME TypeInv, FramesOnce, StoredOnce, NEW d \in Devices, SocketLost(d),
           UNCHANGED <<msgs, log>>
    PROVE  FramesOnce' /\ StoredOnce'
<1>1. /\ up \in [Devices -> Seq(Nat)] /\ late \in [Devices -> Seq(Nat)]
      /\ up[d] \in Seq(Nat) /\ late[d] \in Seq(Nat)
  BY TypesOf
<1>2. PICK n \in 0 .. Len(up[d]) : late' = [late EXCEPT ![d] = late[d] \o SubSeq(up[d], 1, n)]
  BY DEF SocketLost
<1> DEFINE p == SubSeq(up[d], 1, n)
           x == late[d] \o p
           none == <<>>
<1>3. p \in Seq(Nat) /\ ToSet(p) \subseteq ToSet(up[d])
  BY <1>1, PrefixElements
<1>4. Distinct(p)
  BY <1>1, DistinctPrefix DEF FramesOnce
<1>5. late' = [late EXCEPT ![d] = x] /\ up' = [up EXCEPT ![d] = none]
  BY <1>2 DEF SocketLost
<1>6. ToSet(none) = {} /\ Distinct(none)
  BY DEF ToSet, Distinct
<1> HIDE DEF p, none
<1>7. ToSet(x) = ToSet(late[d]) \cup ToSet(p)
  BY <1>1, <1>3, ConcatElements
<1>8. Distinct(x)
  BY <1>1, <1>3, <1>4, DistinctConcat DEF FramesOnce
<1> HIDE DEF x
<1>9. /\ late'[d] = x /\ up'[d] = none
      /\ \A c \in Devices \ {d} : late'[c] = late[c] /\ up'[c] = up[c]
  BY <1>1, <1>5
<1>10. ASSUME NEW c \in Devices
       PROVE  /\ \A i \in ToSet(up'[c]) \cup ToSet(late'[c]) : msgs[i].from = c
              /\ Distinct(up'[c]) /\ Distinct(late'[c])
              /\ ToSet(up'[c]) \cap ToSet(late'[c]) = {}
              /\ ToSet(up'[c]) \cup ToSet(late'[c]) \subseteq ToSet(up[c]) \cup ToSet(late[c])
  <2>1. /\ \A i \in ToSet(up[c]) \cup ToSet(late[c]) : msgs[i].from = c
        /\ Distinct(up[c]) /\ Distinct(late[c])
        /\ ToSet(up[c]) \cap ToSet(late[c]) = {}
    BY DEF FramesOnce
  <2>2. CASE c = d
    BY <1>3, <1>6, <1>7, <1>8, <1>9, <2>1, <2>2
  <2>3. CASE c # d
    BY <1>9, <2>1, <2>3
  <2>4. QED
    BY <2>2, <2>3
<1>11. FramesOnce'
  BY <1>10 DEF FramesOnce
<1>12. StoredOnce'
  BY <1>10 DEF StoredOnce
<1>13. QED
  BY <1>11, <1>12

(* The relay takes the first frame of a socket, or of a lost one.          *)
LEMMA AcceptOnce ==
    ASSUME TypeInv, FramesOnce, StoredOnce, NEW d \in Devices, Accept(d) \/ AcceptLate(d)
    PROVE  FramesOnce' /\ StoredOnce'
<1>1. /\ up \in [Devices -> Seq(Nat)] /\ late \in [Devices -> Seq(Nat)]
      /\ up[d] \in Seq(Nat) /\ late[d] \in Seq(Nat)
  BY TypesOf
<1>2. \A c \in Devices : Distinct(up[c]) /\ Distinct(late[c])
  BY DEF FramesOnce
<1>3. CASE Accept(d)
  <2> DEFINE t == Tail(up[d])
             i == Head(up[d])
  <2>1. Distinct(t) /\ i \in ToSet(up[d]) /\ i \notin ToSet(t) /\ ToSet(t) \subseteq ToSet(up[d])
    BY <1>1, <1>2, <1>3, DistinctTail DEF Accept
  <2>2. /\ up' = [up EXCEPT ![d] = t] /\ late' = late /\ msgs' = msgs /\ Stored(i)
    BY <1>3 DEF Accept
  <2> HIDE DEF t, i
  <2>3. up'[d] = t /\ \A c \in Devices \ {d} : up'[c] = up[c]
    BY <1>1, <2>2
  <2>4. i \notin ToSet(late[d])
    BY <2>1 DEF FramesOnce
  <2>5. \A c \in Devices :
            /\ ToSet(up'[c]) \subseteq ToSet(up[c]) /\ ToSet(late'[c]) \subseteq ToSet(late[c])
            /\ Distinct(up'[c]) /\ Distinct(late'[c])
    BY <1>2, <2>1, <2>2, <2>3
  <2>6. i \notin ToSet(up'[d]) \cup ToSet(late'[d]) /\ i \in ToSet(up[d]) \cup ToSet(late[d])
    BY <2>1, <2>2, <2>3, <2>4
  <2>7. QED
    BY <2>2, <2>5, <2>6, TakenOnce
<1>4. CASE AcceptLate(d)
  <2> DEFINE t == Tail(late[d])
             i == Head(late[d])
  <2>1. /\ Distinct(t) /\ i \in ToSet(late[d]) /\ i \notin ToSet(t)
        /\ ToSet(t) \subseteq ToSet(late[d])
    BY <1>1, <1>2, <1>4, DistinctTail DEF AcceptLate
  <2>2. /\ late' = [late EXCEPT ![d] = t] /\ up' = up /\ msgs' = msgs /\ Stored(i)
    BY <1>4 DEF AcceptLate
  <2> HIDE DEF t, i
  <2>3. late'[d] = t /\ \A c \in Devices \ {d} : late'[c] = late[c]
    BY <1>1, <2>2
  <2>4. i \notin ToSet(up[d])
    BY <2>1 DEF FramesOnce
  <2>5. \A c \in Devices :
            /\ ToSet(up'[c]) \subseteq ToSet(up[c]) /\ ToSet(late'[c]) \subseteq ToSet(late[c])
            /\ Distinct(up'[c]) /\ Distinct(late'[c])
    BY <1>2, <2>1, <2>2, <2>3
  <2>6. i \notin ToSet(up'[d]) \cup ToSet(late'[d]) /\ i \in ToSet(up[d]) \cup ToSet(late[d])
    BY <2>1, <2>2, <2>3, <2>4
  <2>7. QED
    BY <2>2, <2>5, <2>6, TakenOnce
<1>5. QED
  BY <1>3, <1>4

(* What was opened stays behind the cursor: mailboxes only grow.           *)
LEMMA PassedStep ==
    ASSUME TypeInv, OpenedPassed,
           /\ \A u \in Users : /\ Len(log[u]) <= Len(log'[u])
                               /\ \A p \in 1 .. Len(log[u]) : log'[u][p] = log[u][p],
           NEW d \in Devices, cursor'[d] \in Nat, cursor[d] <= cursor'[d],
           \/ opened'[d] = opened[d]
           \/ /\ opened'[d] = opened[d] \cup {NextIndex(d)} /\ cursor'[d] = cursor[d] + 1
              /\ cursor'[d] <= Len(log[UserOf[d]]),
           \A c \in Devices \ {d} : cursor'[c] = cursor[c] /\ opened'[c] = opened[c]
    PROVE  OpenedPassed'
<1>1. /\ \A c \in Devices : cursor[c] \in Nat /\ UserOf[c] \in Users
      /\ \A c \in Devices : Len(log[UserOf[c]]) \in Nat
      /\ \A c \in Devices : cursor[c] <= Len(log[UserOf[c]])
  <2>1. \A c \in Devices : UserOf[c] \in Users
    BY Owners
  <2>2. log \in [Users -> Seq(Nat)] /\ cursor \in [Devices -> Nat]
    BY TypesOf
  <2>3. \A c \in Devices : log[UserOf[c]] \in Seq(Nat)
    BY <2>1, <2>2
  <2>4. \A c \in Devices : cursor[c] <= Len(log[UserOf[c]])
    BY DEF TypeInv, Indices
  <2>5. QED
    BY <2>1, <2>2, <2>3, <2>4
<1>2. ASSUME NEW c \in Devices, NEW i \in opened[c]
      PROVE  \E p \in 1 .. cursor'[c] : log'[UserOf[c]][p] = i
  <2>1. PICK p \in 1 .. cursor[c] : log[UserOf[c]][p] = i
    BY <1>2 DEF OpenedPassed
  <2>2. p \in 1 .. Len(log[UserOf[c]])
    BY <1>1
  <2>3. log'[UserOf[c]][p] = i
    BY <1>1, <2>1, <2>2
  <2>4. p \in 1 .. cursor'[c]
    <3>1. cursor[c] <= cursor'[c] /\ cursor'[c] \in Nat
      BY <1>1
    <3>2. QED
      BY <1>1, <3>1
  <2>5. QED
    BY <2>3, <2>4
<1>3. ASSUME opened'[d] = opened[d] \cup {NextIndex(d)}, cursor'[d] = cursor[d] + 1,
             cursor'[d] <= Len(log[UserOf[d]])
      PROVE  \E p \in 1 .. cursor'[d] : log'[UserOf[d]][p] = NextIndex(d)
  <2>1. cursor[d] + 1 \in 1 .. Len(log[UserOf[d]]) /\ cursor[d] + 1 \in 1 .. cursor'[d]
    BY <1>1, <1>3
  <2>2. log'[UserOf[d]][cursor[d] + 1] = NextIndex(d)
    BY <1>1, <2>1 DEF NextIndex
  <2>3. QED
    BY <2>1, <2>2
<1>4. \A c \in Devices : \A i \in opened'[c] :
          \E p \in 1 .. cursor'[c] : log'[UserOf[c]][p] = i
  BY <1>2, <1>3
<1>5. QED
  BY <1>4 DEF OpenedPassed

(* Each step keeps it so.                                                  *)
LEMMA OnceStep == TypeInv /\ OnceInv /\ [Next]_vars => OnceInv'
<1> SUFFICES ASSUME TypeInv, OnceInv, [Next]_vars PROVE OnceInv'
  OBVIOUS
<1>0. FramesOnce /\ StoredOnce /\ OpenedPassed
  BY DEF OnceInv
<1>a. /\ cursor \in [Devices -> Nat]
      /\ \A c \in Devices : cursor[c] \in Nat /\ cursor[c] <= cursor[c]
  BY TypesOf
<1>b. ASSUME UNCHANGED <<log, cursor, opened>>
      PROVE  OpenedPassed'
  BY <1>0, <1>b DEF OpenedPassed
<1>1. CASE UNCHANGED vars
  <2>1. UNCHANGED <<msgs, up, late, log, cursor, opened>>
    BY <1>1 DEF vars, relayVars
  <2>2. QED
    BY <1>0, <1>b, <2>1, QuietOnce DEF OnceInv
<1>2. CASE \E d \in Devices : DeviceStep(d) \/ RelayStep(d)
  <2>1. PICK d \in Devices : DeviceStep(d) \/ RelayStep(d)
    BY <1>2
  <2>2. CASE \/ Connect(d) \/ OnOpen(d) \/ OnAck(d)
             \/ \E u \in Users : SendMessage(d, u)
             \/ \E j \in sending[d] : FetchFailed(d, j)
             \/ \E u \in Users : ResetSession(d, u)
    <3>1. UNCHANGED <<msgs, up, late, log, cursor, opened>>
      BY <2>2 DEF Connect, OnOpen, OnAck, SendMessage, FetchFailed, ResetSession, relayVars
    <3>2. QED
      BY <1>0, <1>b, <3>1, QuietOnce DEF OnceInv
  <2>3. CASE \E j \in sending[d] : FetchedRecipient(d, j) \/ FetchedOwn(d, j)
    <3>1. PICK j \in sending[d] : FetchedRecipient(d, j) \/ FetchedOwn(d, j)
      BY <2>3
    <3>2. PICK fs \in Seq(Devices), sync \in BOOLEAN : Distinct(fs) /\ Sends(d, fs, sync)
      BY <3>1, RecipientSends, OwnSends
    <3>3. UNCHANGED <<late, log, cursor, opened>>
      BY <3>1 DEF FetchedRecipient, FetchedOwn
    <3>4. FramesOnce' /\ StoredOnce'
      BY <1>0, <3>2, <3>3, SendingOnce
    <3>5. OpenedPassed'
      BY <1>b, <3>3
    <3>6. QED
      BY <3>4, <3>5 DEF OnceInv
  <2>4. CASE OnClose(d) \/ Reload(d)
    <3>1. SocketLost(d) /\ UNCHANGED <<msgs, log, cursor, opened>>
      BY <2>4 DEF OnClose, Reload
    <3>2. FramesOnce' /\ StoredOnce'
      BY <1>0, <3>1, LossOnce
    <3>3. QED
      BY <1>b, <3>1, <3>2 DEF OnceInv
  <2>5. CASE Accept(d) \/ AcceptLate(d)
    <3>1. FramesOnce' /\ StoredOnce'
      BY <1>0, <2>5, AcceptOnce
    <3>2. UNCHANGED <<cursor, opened>>
      BY <2>5 DEF Accept, AcceptLate
    <3>3. \E i \in 1 .. Len(msgs) : Stored(i)
      <4>1. up[d] \in Seq(Nat) /\ late[d] \in Seq(Nat)
        BY TypesOf
      <4>2. CASE Accept(d)
        <5>1. Head(up[d]) \in ToSet(up[d])
          BY <4>1, <4>2, TailElements DEF Accept
        <5>2. Head(up[d]) \in 1 .. Len(msgs)
          BY <5>1 DEF TypeInv, Indices
        <5>3. QED
          BY <4>2, <5>2 DEF Accept
      <4>3. CASE AcceptLate(d)
        <5>1. Head(late[d]) \in ToSet(late[d])
          BY <4>1, <4>3, TailElements DEF AcceptLate
        <5>2. Head(late[d]) \in 1 .. Len(msgs)
          BY <5>1 DEF TypeInv, Indices
        <5>3. QED
          BY <4>3, <5>2 DEF AcceptLate
      <4>4. QED
        BY <2>5, <4>2, <4>3
    <3>4. \A u \in Users : /\ Len(log[u]) <= Len(log'[u])
                           /\ \A p \in 1 .. Len(log[u]) : log'[u][p] = log[u][p]
      BY <3>3, StoredTypes
    <3>5. OpenedPassed'
      BY <1>0, <1>a, <3>2, <3>4, PassedStep
    <3>6. QED
      BY <3>1, <3>5 DEF OnceInv
  <2>6. CASE OnDelivery(d) \/ OnDeliverySkipped(d)
    <3>1. UNCHANGED <<msgs, up, late, log>>
      BY <2>6 DEF OnDelivery, OnDeliverySkipped, relayVars
    <3>2. FramesOnce' /\ StoredOnce'
      BY <1>0, <3>1, QuietOnce
    <3>3. /\ cursor' = [cursor EXCEPT ![d] = @ + 1]
          /\ cursor[d] < Len(log[UserOf[d]])
      BY <2>6 DEF OnDelivery, OnDeliverySkipped, HasNext
    <3>4. Len(log[UserOf[d]]) \in Nat
      <4>1. UserOf[d] \in Users /\ log \in [Users -> Seq(Nat)]
        BY Owners, TypesOf
      <4>2. log[UserOf[d]] \in Seq(Nat)
        BY <4>1
      <4>3. QED
        BY <4>2
    <3>5. /\ cursor'[d] = cursor[d] + 1 /\ cursor'[d] \in Nat /\ cursor[d] <= cursor'[d]
          /\ cursor'[d] <= Len(log[UserOf[d]])
          /\ \A c \in Devices \ {d} : cursor'[c] = cursor[c]
      BY <1>a, <3>3, <3>4
    <3>6. /\ opened'[d] = opened[d] \/ opened'[d] = opened[d] \cup {NextIndex(d)}
          /\ \A c \in Devices \ {d} : opened'[c] = opened[c]
      <4>1. opened \in [Devices -> SUBSET Nat]
        BY TypesOf
      <4>2. QED
        BY <2>6, <4>1 DEF OnDelivery, OnDeliverySkipped
    <3>7. \A u \in Users : Len(log[u]) <= Len(log[u])
      <4>1. log \in [Users -> Seq(Nat)]
        BY TypesOf
      <4>2. \A u \in Users : Len(log[u]) \in Nat
        BY <4>1
      <4>3. QED
        BY <4>2
    <3>8. OpenedPassed'
      BY <1>0, <3>1, <3>5, <3>6, <3>7, PassedStep
    <3>9. QED
      BY <3>2, <3>8 DEF OnceInv
  <2>7. QED
    BY <2>1, <2>2, <2>3, <2>4, <2>5, <2>6 DEF DeviceStep, RelayStep
<1>3. QED
  BY <1>1, <1>2 DEF Next

(* Nothing is on its way at first.                                         *)
LEMMA InitOnce == Init => OnceInv
<1> SUFFICES ASSUME Init PROVE OnceInv
  OBVIOUS
<1>1. ToSet(<<>>) = {} /\ Distinct(<<>>)
  BY DEF ToSet, Distinct
<1>2. FramesOnce
  BY <1>1 DEF FramesOnce, Init
<1>3. StoredOnce
  BY <1>1 DEF StoredOnce, Init
<1>4. OpenedPassed
  BY DEF OpenedPassed, Init
<1>5. QED
  BY <1>2, <1>3, <1>4 DEF OnceInv

(* What the device still has to read of a session it holds: message m of   *)
(* session s.                                                              *)
Awaits(d, p) ==
    LET m == msgs[log[UserOf[d]][p]] IN
    m.to = d /\ m.type = "msg" /\ m.id = ins[d][m.from].id

(* Its key is still to be had: kept from a skip, or ahead in the chain.    *)
HasKey(s, m) == s # NoIn /\ (m.n \in s.skipped \/ m.n >= s.n)

KeysAhead ==
    \A d \in Devices : \A p \in cursor[d] + 1 .. Len(log[UserOf[d]]) :
        LET m == msgs[log[UserOf[d]][p]] IN
        Awaits(d, p) => HasKey(ins[d][m.from], m)

(* An entry of a mailbox is a message.                                     *)
LEMMA EntryFields ==
    ASSUME TypeInv, NEW d \in Devices, NEW p \in cursor[d] + 1 .. Len(log[UserOf[d]])
    PROVE  LET i == log[UserOf[d]][p] IN
           /\ p \in 1 .. Len(log[UserOf[d]])
           /\ i \in 1 .. Len(msgs) /\ msgs[i] \in Message /\ msgs[i].from \in Devices
           /\ ins[d][msgs[i].from] \in InSession
<1> DEFINE u == UserOf[d]
           i == log[u][p]
<1>1. u \in Users /\ log \in [Users -> Seq(Nat)] /\ cursor[d] \in Nat /\ msgs \in Seq(Message)
      /\ ins \in [Devices -> [Devices -> InSession]]
  BY Owners, TypesOf
<1>2. log[u] \in Seq(Nat) /\ ToSet(log[u]) \subseteq 1 .. Len(msgs)
  BY <1>1 DEF TypeInv, Indices
<1> HIDE DEF u
<1>3. p \in 1 .. Len(log[u])
  BY <1>1, <1>2 DEF u
<1>4. i \in ToSet(log[u])
  BY <1>2, <1>3, ElementsOf
<1>5. i \in 1 .. Len(msgs)
  BY <1>2, <1>4
<1> HIDE DEF i
<1>6. msgs[i] \in Message
  BY <1>1, <1>5
<1>7. msgs[i].from \in Devices
  BY <1>6, MessageFields
<1>8. QED
  BY <1>1, <1>3, <1>5, <1>6, <1>7 DEF i, u

(* Unless a page was reloaded, the key of a message that a device has      *)
(* still to read of a session it holds has not been used or given up,      *)
(* whatever frames were lost, came late or were read before it: only a gap *)
(* of more than MAX_SKIP can keep it from being opened.                    *)
THEOREM KeysStayAhead == Spec => [](reloads = 0 => KeysAhead)
<1>1. TypeInv /\ OutInv /\ KeysKept /\ OnceInv => (reloads = 0 => KeysAhead)
  <2> SUFFICES ASSUME TypeInv, OutInv, KeysKept, OnceInv, reloads = 0,
                      NEW d \in Devices, NEW p \in cursor[d] + 1 .. Len(log[UserOf[d]]),
                      Awaits(d, p)
               PROVE  HasKey(ins[d][msgs[log[UserOf[d]][p]].from], msgs[log[UserOf[d]][p]])
    BY DEF KeysAhead
  <2> DEFINE u == UserOf[d]
             i == log[u][p]
             m == msgs[i]
             s == ins[d][m.from]
  <2>1. /\ p \in 1 .. Len(log[u]) /\ i \in 1 .. Len(msgs) /\ m \in Message
        /\ m.from \in Devices /\ s \in InSession
    BY EntryFields
  <2>2. m.id = s.id /\ m.id # 0 /\ m.n \in Nat
    BY <2>1, NameFields DEF Awaits, OutInv
  <2>3. s # NoIn
    BY <2>2, SessionFields
  <2>4. s.n \in Nat
    BY <2>1, SessionFields
  <2>5. KeptBy(msgs, opened[d], s)
    <3>1. s \in Held(d, m.from)
      BY DEF Held
    <3>2. QED
      BY <2>1, <3>1 DEF KeysKept
  <2>6. ~\E k \in opened[d] : msgs[k].id = s.id /\ msgs[k].n = m.n
    <3>1. SUFFICES ASSUME NEW k \in opened[d], msgs[k].id = s.id, msgs[k].n = m.n
                   PROVE  FALSE
      OBVIOUS
    <3>2. k \in 1 .. Len(msgs)
      BY DEF TypeInv, Indices
    <3>3. NoKeyReuse
      BY DEF OutInv, KeysFresh
    <3>4. k = i
      BY <2>1, <2>2, <3>1, <3>2, <3>3 DEF NoKeyReuse
    <3>5. PICK q \in 1 .. cursor[d] : log[u][q] = i
      BY <3>4 DEF OnceInv, OpenedPassed
    <3>6. u \in Users /\ cursor[d] \in Nat /\ log \in [Users -> Seq(Nat)]
      BY Owners, TypesOf
    <3>7. Distinct(log[u])
      BY <3>6 DEF OnceInv, StoredOnce
    <3>8. Len(log[u]) \in Nat
      BY <3>6
    <3>9. q \in 1 .. Len(log[u]) /\ q # p
      BY <2>1, <3>6, <3>8
    <3> HIDE DEF u, m, s
    <3>10. QED
      BY <2>1, <3>5, <3>7, <3>9 DEF Distinct
  <2> HIDE DEF s, m, i, u
  <2>7. m.n \in s.skipped \/ m.n >= s.n
    <3>1. CASE m.n \in 0 .. s.n - 1
      BY <2>5, <2>6, <3>1 DEF KeptBy
    <3>2. CASE m.n \notin 0 .. s.n - 1
      BY <2>2, <2>4, <3>2
    <3>3. QED
      BY <3>1, <3>2
  <2>8. HasKey(s, m)
    BY <2>3, <2>7 DEF HasKey
  <2>9. QED
    BY <2>8 DEF s, m, i, u
<1>2. Spec => []OnceInv
  BY InitTypes, TypeStep, SessionTypes, InitOnce, OnceStep, PTL DEF Spec
<1>3. QED
  BY <1>1, <1>2, SessionInvariant, PTL

-----------------------------------------------------------------------------
(* A session has no more messages than its device sent texts               *)

(* The calls of sendMessage among S that have still to encrypt for device  *)
(* e.                                                                      *)
Goes(S, d, e) ==
    {j \in S : UserOf[e] = UserOf[d] \/ (UserOf[e] = j.to /\ j.awaits = "recipient")}

Calls ==
    \A d \in Devices : IsFiniteSet(sending[d]) /\ \A j \in sending[d] : j.to # UserOf[d]

SessionsCounted ==
    \A d, e \in Devices :
        outs[d][e].n + Cardinality(Goes(sending[d], d, e)) <= texts[d]

MessagesCounted == \A i \in 1 .. Len(msgs) : msgs[i].n < texts[msgs[i].from]

CountInv == reloads = 0 => Calls /\ SessionsCounted /\ MessagesCounted

(* One call less, at least.                                                *)
LEMMA FewerCalls ==
    ASSUME NEW S, IsFiniteSet(S), NEW j \in S, NEW T \in SUBSET (S \ {j})
    PROVE  /\ IsFiniteSet(T) /\ Cardinality(T) \in Nat /\ Cardinality(S) \in Nat
           /\ Cardinality(T) + 1 <= Cardinality(S)
<1>1. IsFiniteSet(S \ {j}) /\ Cardinality(S \ {j}) = Cardinality(S) - 1
  BY FS_RemoveElement
<1>2. IsFiniteSet(T) /\ Cardinality(T) <= Cardinality(S \ {j})
  BY <1>1, FS_Subset
<1>3. Cardinality(T) \in Nat /\ Cardinality(S) \in Nat
  BY <1>2, FS_CardinalityType
<1>4. QED
  BY <1>1, <1>2, <1>3

(* One in the place of another.                                            *)
LEMMA OtherCall ==
    ASSUME NEW S, IsFiniteSet(S), NEW j \in S, NEW k
    PROVE  /\ IsFiniteSet((S \ {j}) \cup {k})
           /\ Cardinality((S \ {j}) \cup {k}) <= Cardinality(S)
           /\ Cardinality((S \ {j}) \cup {k}) \in Nat /\ Cardinality(S) \in Nat
<1> DEFINE T == S \ {j}
<1>1. IsFiniteSet(T) /\ Cardinality(T) \in Nat /\ Cardinality(S) \in Nat
      /\ Cardinality(T) + 1 <= Cardinality(S)
  BY FewerCalls
<1> HIDE DEF T
<1>2. /\ IsFiniteSet(T \cup {k})
      /\ Cardinality(T \cup {k}) = IF k \in T THEN Cardinality(T) ELSE Cardinality(T) + 1
  BY <1>1, FS_AddElement
<1>3. QED
  BY <1>1, <1>2 DEF T

(* Fewer calls.                                                            *)
LEMMA NoMoreCalls ==
    ASSUME NEW S, IsFiniteSet(S), NEW T \in SUBSET S
    PROVE  /\ IsFiniteSet(T) /\ Cardinality(T) \in Nat /\ Cardinality(S) \in Nat
           /\ Cardinality(T) <= Cardinality(S)
<1>1. IsFiniteSet(T) /\ Cardinality(T) <= Cardinality(S)
  BY FS_Subset
<1>2. QED
  BY <1>1, FS_CardinalityType

(* Those that have to encrypt for a device are among all.                  *)
LEMMA GoesAmong ==
    ASSUME NEW S, IsFiniteSet(S), NEW d, NEW e
    PROVE  /\ Goes(S, d, e) \in SUBSET S /\ IsFiniteSet(Goes(S, d, e))
           /\ Cardinality(Goes(S, d, e)) \in Nat
<1>1. Goes(S, d, e) \in SUBSET S
  BY DEF Goes
<1>2. QED
  BY <1>1, NoMoreCalls

(* No call is added, and chains do not get longer.                         *)
CountsStay ==
    /\ UNCHANGED <<msgs, texts, reloads>>
    /\ \A c \in Devices : sending'[c] \subseteq sending[c]
    /\ \A c, e \in Devices : outs'[c][e] = outs[c][e] \/ outs'[c][e] = NoOut

(* Then counts hold.                                                       *)
LEMMA StayCounts ==
    ASSUME TypeInv, CountInv, reloads = 0, CountsStay
    PROVE  CountInv'
<1>0. Calls /\ SessionsCounted /\ MessagesCounted
  BY DEF CountInv
<1>1. Calls'
  <2>1. ASSUME NEW c \in Devices
        PROVE  IsFiniteSet(sending'[c])
    BY <1>0, NoMoreCalls DEF Calls, CountsStay
  <2>2. \A c \in Devices : \A j \in sending'[c] : j \in sending[c]
    BY DEF CountsStay
  <2>3. QED
    BY <1>0, <2>1, <2>2 DEF Calls
<1>2. ASSUME NEW c \in Devices, NEW e \in Devices
      PROVE  outs'[c][e].n + Cardinality(Goes(sending'[c], c, e)) <= texts'[c]
  <2>1. /\ IsFiniteSet(sending[c]) /\ sending'[c] \subseteq sending[c] /\ texts'[c] = texts[c]
        /\ outs'[c][e] = outs[c][e] \/ outs'[c][e] = NoOut
    BY <1>0 DEF Calls, CountsStay
  <2>2. Goes(sending'[c], c, e) \subseteq Goes(sending[c], c, e)
    BY <2>1 DEF Goes
  <2>3. IsFiniteSet(Goes(sending[c], c, e))
    BY <2>1, GoesAmong
  <2>4. /\ Cardinality(Goes(sending'[c], c, e)) <= Cardinality(Goes(sending[c], c, e))
        /\ Cardinality(Goes(sending'[c], c, e)) \in Nat
        /\ Cardinality(Goes(sending[c], c, e)) \in Nat
    BY <2>2, <2>3, NoMoreCalls
  <2>5. outs[c][e].n \in Nat /\ texts[c] \in Nat
    <3>1. outs \in [Devices -> [Devices -> OutSession]] /\ texts \in [Devices -> Nat]
      BY TypesOf
    <3>2. outs[c][e] \in OutSession
      BY <3>1
    <3>3. QED
      BY <3>1, <3>2, SessionFields
  <2>6. outs[c][e].n + Cardinality(Goes(sending[c], c, e)) <= texts[c]
    BY <1>0 DEF SessionsCounted
  <2>7. outs'[c][e].n \in Nat /\ outs'[c][e].n <= outs[c][e].n
    BY <2>1, <2>5, SessionFields
  <2>8. QED
    BY <2>1, <2>4, <2>5, <2>6, <2>7
<1>3. MessagesCounted'
  BY <1>0 DEF CountsStay, MessagesCounted
<1>4. QED
  BY <1>1, <1>2, <1>3 DEF CountInv, SessionsCounted

(* One more text, and a call for it.                                       *)
LEMMA CallCounts ==
    ASSUME TypeInv, OutInv, CountInv, reloads = 0,
           NEW d \in Devices, NEW u \in Users, SendMessage(d, u)
    PROVE  CountInv'
<1>0. Calls /\ SessionsCounted /\ MessagesCounted
  BY DEF CountInv
<1> DEFINE new == [text |-> texts'[d], to |-> u, awaits |-> "recipient"]
<1>1. /\ texts \in [Devices -> Nat] /\ sending \in [Devices -> SUBSET Jobs]
      /\ outs \in [Devices -> [Devices -> OutSession]]
  BY TypesOf
<1>2. /\ sending' = [sending EXCEPT ![d] = @ \cup {new}]
      /\ texts' = [texts EXCEPT ![d] = @ + 1]
      /\ UNCHANGED <<msgs, outs, reloads>>
      /\ u # UserOf[d] /\ new.to = u
  BY DEF SendMessage
<1> HIDE DEF new
<1>3. /\ sending'[d] = sending[d] \cup {new} /\ texts'[d] = texts[d] + 1
      /\ \A c \in Devices \ {d} : sending'[c] = sending[c] /\ texts'[c] = texts[c]
  BY <1>1, <1>2
<1>4. IsFiniteSet(sending[d]) /\ IsFiniteSet(sending'[d])
  BY <1>0, <1>3, FS_AddElement DEF Calls
<1>5. Calls'
  BY <1>0, <1>2, <1>3, <1>4 DEF Calls
<1>6. ASSUME NEW c \in Devices, NEW e \in Devices
      PROVE  outs[c][e].n + Cardinality(Goes(sending'[c], c, e)) <= texts'[c]
  <2>1. CASE c # d
    BY <1>0, <1>3, <2>1 DEF SessionsCounted
  <2>2. CASE c = d
    <3> DEFINE G == Goes(sending[d], d, e)
               H == Goes(sending'[d], d, e)
    <3>1. H \subseteq G \cup {new}
      BY <1>3 DEF Goes
    <3>2. IsFiniteSet(G) /\ Cardinality(G) \in Nat
      BY <1>4, GoesAmong
    <3>3. outs[d][e].n + Cardinality(G) <= texts[d]
      BY <1>0 DEF SessionsCounted
    <3> HIDE DEF G, H
    <3>4. /\ IsFiniteSet(G \cup {new})
          /\ Cardinality(G \cup {new}) = IF new \in G THEN Cardinality(G) ELSE Cardinality(G) + 1
      BY <3>2, FS_AddElement
    <3>5. /\ Cardinality(H) <= Cardinality(G \cup {new}) /\ Cardinality(H) \in Nat
          /\ Cardinality(G \cup {new}) \in Nat
      BY <3>1, <3>4, NoMoreCalls
    <3>6. outs[d][e].n \in Nat /\ texts[d] \in Nat
      <4>1. outs[d][e] \in OutSession
        BY <1>1
      <4>2. QED
        BY <1>1, <4>1, SessionFields
    <3>7. outs[d][e].n + Cardinality(H) <= texts[d] + 1
      BY <3>2, <3>3, <3>4, <3>5, <3>6
    <3>8. QED
      BY <1>3, <2>2, <3>7 DEF H
  <2>3. QED
    BY <2>1, <2>2
<1>7. SessionsCounted'
  BY <1>2, <1>6 DEF SessionsCounted
<1>8. MessagesCounted'
  <2>1. ASSUME NEW i \in 1 .. Len(msgs)
        PROVE  msgs[i].n < texts'[msgs[i].from]
    <3>1. msgs[i].from \in Devices /\ msgs[i].n \in Nat
      BY NameFields DEF OutInv
    <3>2. msgs[i].n < texts[msgs[i].from]
      BY <1>0 DEF MessagesCounted
    <3>3. texts[msgs[i].from] \in Nat /\ texts[d] \in Nat
      BY <1>1, <3>1
    <3>4. QED
      BY <1>3, <3>1, <3>2, <3>3
  <2>2. QED
    BY <1>2, <2>1 DEF MessagesCounted
<1>9. QED
  BY <1>5, <1>7, <1>8 DEF CountInv

(* What a fetch leaves of the calls: for a device that is sent to, one     *)
(* less has to encrypt for it; for the others, not more.                   *)
LEMMA FetchedCalls ==
    ASSUME TypeInv, Calls, NEW d \in Devices, NEW j \in sending[d],
           FetchedRecipient(d, j) \/ FetchedOwn(d, j)
    PROVE  \E fs \in Seq(Devices), sync \in BOOLEAN :
               /\ Distinct(fs) /\ Sends(d, fs, sync)
               /\ \A c \in Devices \ {d} : sending'[c] = sending[c]
               /\ IsFiniteSet(sending'[d]) /\ \A k \in sending'[d] : k.to # UserOf[d]
               /\ \A e \in Devices :
                     LET g == Cardinality(Goes(sending[d], d, e))
                         h == Cardinality(Goes(sending'[d], d, e))
                     IN  /\ g \in Nat /\ h \in Nat /\ h <= g
                         /\ e \in ToSet(fs) => h + 1 <= g
<1>1. sending \in [Devices -> SUBSET Jobs] /\ j \in Jobs
  BY TypesOf
<1>2. IsFiniteSet(sending[d]) /\ j.to # UserOf[d]
  BY DEF Calls
<1> DEFINE S == sending[d]
           k == [j EXCEPT !.awaits = "own"]
<1>3. k.to = j.to /\ k.awaits = "own"
  BY <1>1 DEF Jobs
<1>4. ASSUME NEW T, T \subseteq S \ {j}
      PROVE  /\ IsFiniteSet(T) /\ \A x \in T : x.to # UserOf[d]
             /\ \A e \in Devices :
                   LET g == Cardinality(Goes(S, d, e))
                       h == Cardinality(Goes(T, d, e))
                   IN  /\ g \in Nat /\ h \in Nat /\ h <= g
                       /\ j \in Goes(S, d, e) => h + 1 <= g
  <2>1. IsFiniteSet(T)
    BY <1>2, <1>4, FewerCalls
  <2>2. ASSUME NEW e \in Devices
        PROVE  LET g == Cardinality(Goes(S, d, e))
                   h == Cardinality(Goes(T, d, e))
               IN  /\ g \in Nat /\ h \in Nat /\ h <= g
                   /\ j \in Goes(S, d, e) => h + 1 <= g
    <3> DEFINE G == Goes(S, d, e)
               H == Goes(T, d, e)
    <3>1. H \subseteq G \ {j}
      BY <1>4 DEF Goes
    <3>2. IsFiniteSet(G)
      BY <1>2, GoesAmong
    <3> HIDE DEF G, H
    <3>3. H \in SUBSET G
      BY <3>1
    <3>4. Cardinality(G) \in Nat /\ Cardinality(H) \in Nat /\ Cardinality(H) <= Cardinality(G)
      BY <3>2, <3>3, NoMoreCalls
    <3>5. j \in G => Cardinality(H) + 1 <= Cardinality(G)
      BY <3>1, <3>2, FewerCalls
    <3>6. QED
      BY <3>4, <3>5 DEF G, H
  <2>3. QED
    BY <1>4, <2>1, <2>2 DEF Calls
<1>5. CASE FetchedRecipient(d, j)
  <2>1. PICK fs \in Seq(Devices) :
            /\ Distinct(fs) /\ Sends(d, fs, FALSE)
            /\ ToSet(fs) \subseteq {e \in Devices : UserOf[e] = j.to}
    BY <1>5, RecipientSends
  <2>2. j.awaits = "recipient"
    BY <1>5 DEF FetchedRecipient
  <2>3. \/ sending' = [sending EXCEPT ![d] = (S \ {j}) \cup {k}]
        \/ sending' = [sending EXCEPT ![d] = S \ {j}]
    BY <1>5 DEF FetchedRecipient
  <2>4. ASSUME NEW e \in ToSet(fs)
        PROVE  e \in Devices /\ UserOf[e] = j.to /\ UserOf[e] # UserOf[d] /\ j \in Goes(S, d, e)
    BY <1>2, <2>1, <2>2 DEF Goes
  <2> HIDE DEF k
  <2>5. CASE sending' = [sending EXCEPT ![d] = S \ {j}]
    <3>1. sending'[d] = S \ {j} /\ \A c \in Devices \ {d} : sending'[c] = sending[c]
      BY <1>1, <2>5
    <3> DEFINE T == S \ {j}
    <3>2. /\ IsFiniteSet(T) /\ \A x \in T : x.to # UserOf[d]
          /\ \A e \in Devices :
                LET g == Cardinality(Goes(S, d, e))
                    h == Cardinality(Goes(T, d, e))
                IN  /\ g \in Nat /\ h \in Nat /\ h <= g
                    /\ j \in Goes(S, d, e) => h + 1 <= g
      BY <1>4
    <3> HIDE DEF T
    <3>3. sending'[d] = T
      BY <3>1 DEF T
    <3>4. QED
      BY <2>1, <2>4, <3>1, <3>2, <3>3
  <2>6. CASE sending' = [sending EXCEPT ![d] = (S \ {j}) \cup {k}]
    <3> DEFINE T == (S \ {j}) \cup {k}
    <3>1. sending'[d] = T /\ \A c \in Devices \ {d} : sending'[c] = sending[c]
      BY <1>1, <2>6
    <3>2. IsFiniteSet(T) /\ Cardinality(T) <= Cardinality(S)
          /\ Cardinality(T) \in Nat /\ Cardinality(S) \in Nat
      BY <1>2, OtherCall
    <3>3. \A x \in T : x.to # UserOf[d]
      BY <1>2, <1>3 DEF Calls
    <3>4. ASSUME NEW e \in Devices
          PROVE  LET g == Cardinality(Goes(S, d, e))
                     h == Cardinality(Goes(T, d, e))
                 IN  /\ g \in Nat /\ h \in Nat /\ h <= g
                     /\ e \in ToSet(fs) => h + 1 <= g
      <4>1. CASE UserOf[e] = UserOf[d]
        <5>1. Goes(S, d, e) = S /\ Goes(T, d, e) = T
          BY <4>1 DEF Goes
        <5>2. e \notin ToSet(fs)
          BY <2>4, <4>1
        <5>3. QED
          BY <3>2, <5>1, <5>2
      <4>2. CASE UserOf[e] # UserOf[d]
        <5>1. Goes(T, d, e) = Goes(S \ {j}, d, e)
          BY <1>3, <4>2 DEF Goes
        <5> DEFINE U == S \ {j}
        <5>2. LET g == Cardinality(Goes(S, d, e))
                  h == Cardinality(Goes(U, d, e))
              IN  /\ g \in Nat /\ h \in Nat /\ h <= g
                  /\ j \in Goes(S, d, e) => h + 1 <= g
          BY <1>4
        <5> HIDE DEF U, T
        <5>3. Goes(T, d, e) = Goes(U, d, e)
          BY <5>1 DEF U
        <5>4. QED
          BY <2>4, <5>2, <5>3
      <4>3. QED
        BY <4>1, <4>2
    <3> HIDE DEF T
    <3>5. QED
      BY <2>1, <3>1, <3>2, <3>3, <3>4
  <2>7. QED
    BY <2>3, <2>5, <2>6
<1>6. CASE FetchedOwn(d, j)
  <2>1. PICK fs \in Seq(Devices) :
            /\ Distinct(fs) /\ Sends(d, fs, TRUE)
            /\ ToSet(fs) \subseteq {e \in Devices : UserOf[e] = UserOf[d] /\ e # d}
    BY <1>6, OwnSends
  <2>2. sending' = [sending EXCEPT ![d] = S \ {j}]
    BY <1>6 DEF FetchedOwn
  <2>3. sending'[d] = S \ {j} /\ \A c \in Devices \ {d} : sending'[c] = sending[c]
    BY <1>1, <2>2
  <2>4. \A e \in ToSet(fs) : j \in Goes(S, d, e)
    BY <2>1 DEF Goes
  <2> DEFINE T == S \ {j}
  <2>5. /\ IsFiniteSet(T) /\ \A x \in T : x.to # UserOf[d]
        /\ \A e \in Devices :
              LET g == Cardinality(Goes(S, d, e))
                  h == Cardinality(Goes(T, d, e))
              IN  /\ g \in Nat /\ h \in Nat /\ h <= g
                  /\ j \in Goes(S, d, e) => h + 1 <= g
    BY <1>4
  <2> HIDE DEF T
  <2>6. sending'[d] = T
    BY <2>3 DEF T
  <2>7. QED
    BY <2>1, <2>3, <2>4, <2>5, <2>6
<1>7. QED
  BY <1>5, <1>6

(* A call that goes on sends at most a message to each device it had to.   *)
LEMMA SentCounts ==
    ASSUME TypeInv, OutInv, CountInv, reloads = 0, NEW d \in Devices, NEW j \in sending[d],
           FetchedRecipient(d, j) \/ FetchedOwn(d, j)
    PROVE  CountInv'
<1>0. Calls /\ SessionsCounted /\ MessagesCounted
  BY DEF CountInv
<1>1. UNCHANGED <<texts, reloads>>
  BY DEF FetchedRecipient, FetchedOwn, boundVars
<1>2. PICK fs \in Seq(Devices), sync \in BOOLEAN :
          /\ Distinct(fs) /\ Sends(d, fs, sync)
          /\ \A c \in Devices \ {d} : sending'[c] = sending[c]
          /\ IsFiniteSet(sending'[d]) /\ \A k \in sending'[d] : k.to # UserOf[d]
          /\ \A e \in Devices :
                LET g == Cardinality(Goes(sending[d], d, e))
                    h == Cardinality(Goes(sending'[d], d, e))
                IN  /\ g \in Nat /\ h \in Nat /\ h <= g
                    /\ e \in ToSet(fs) => h + 1 <= g
  BY <1>0, FetchedCalls
<1>3. /\ \A i \in 1 .. Len(msgs) : msgs'[i] = msgs[i]
      /\ \A i \in 1 .. Len(msgs') :
            i \in 1 .. Len(msgs) \/ \E k \in 1 .. Len(fs) : i = Len(msgs) + k
      /\ \A c \in Devices \ {d} : outs'[c] = outs[c]
      /\ \A e \in Devices :
            (\A k \in 1 .. Len(fs) : fs[k] # e) => outs'[d][e] = outs[d][e]
  BY <1>2, SendsFields
<1>4. ASSUME NEW k \in 1 .. Len(fs)
      PROVE  LET m == msgs'[Len(msgs) + k] IN
             /\ fs[k] \in Devices /\ fs[k] \in ToSet(fs)
             /\ m.from = d /\ m.n = outs[d][fs[k]].n
             /\ outs'[d][fs[k]].n = outs[d][fs[k]].n + 1
  <2>1. fs[k] \in ToSet(fs)
    BY ElementsOf
  <2>2. LET m == msgs'[Len(msgs) + k] IN
        /\ fs[k] \in Devices /\ m.from = d /\ m.n = outs[d][fs[k]].n
        /\ outs'[d][fs[k]].n = m.n + 1
    BY <1>2, AddedMessage
  <2>3. QED
    BY <2>1, <2>2
<1>5. /\ texts \in [Devices -> Nat] /\ texts[d] \in Nat
      /\ outs \in [Devices -> [Devices -> OutSession]]
      /\ \A e \in Devices : outs[d][e].n \in Nat
  <2>1. texts \in [Devices -> Nat] /\ outs \in [Devices -> [Devices -> OutSession]]
    BY TypesOf
  <2>2. \A e \in Devices : outs[d][e] \in OutSession
    BY <2>1
  <2>3. QED
    BY <2>1, <2>2, SessionFields
<1>6. Calls'
  BY <1>0, <1>2 DEF Calls
<1>7. ASSUME NEW e \in Devices
      PROVE  outs'[d][e].n + Cardinality(Goes(sending'[d], d, e)) <= texts[d]
  <2> DEFINE g == Cardinality(Goes(sending[d], d, e))
             h == Cardinality(Goes(sending'[d], d, e))
  <2>1. g \in Nat /\ h \in Nat /\ h <= g /\ (e \in ToSet(fs) => h + 1 <= g)
    BY <1>2
  <2>2. outs[d][e].n + g <= texts[d]
    BY <1>0 DEF SessionsCounted
  <2>3. outs[d][e].n \in Nat
    BY <1>5
  <2> HIDE DEF g, h
  <2>4. CASE \A k \in 1 .. Len(fs) : fs[k] # e
    <3>1. outs'[d][e] = outs[d][e]
      BY <1>3, <2>4
    <3>2. outs[d][e].n + h <= texts[d]
      BY <1>5, <2>1, <2>2, <2>3
    <3>3. QED
      BY <3>1, <3>2 DEF h
  <2>5. CASE \E k \in 1 .. Len(fs) : fs[k] = e
    <3>1. e \in ToSet(fs) /\ outs'[d][e].n = outs[d][e].n + 1
      BY <1>4, <2>5
    <3>2. outs[d][e].n + 1 + h <= texts[d]
      BY <1>5, <2>1, <2>2, <2>3, <3>1
    <3>3. QED
      BY <3>1, <3>2 DEF h
  <2>6. QED
    BY <2>4, <2>5
<1>8. ASSUME NEW c \in Devices, c # d, NEW e \in Devices
      PROVE  outs'[c][e].n + Cardinality(Goes(sending'[c], c, e)) <= texts[c]
  <2>1. outs'[c] = outs[c] /\ sending'[c] = sending[c]
    BY <1>2, <1>3, <1>8
  <2>2. QED
    BY <1>0, <2>1 DEF SessionsCounted
<1>9. SessionsCounted'
  BY <1>1, <1>7, <1>8 DEF SessionsCounted
<1>10. ASSUME NEW i \in 1 .. Len(msgs')
       PROVE  msgs'[i].n < texts[msgs'[i].from]
  <2>1. CASE i \in 1 .. Len(msgs)
    BY <1>0, <1>3, <2>1 DEF MessagesCounted
  <2>2. CASE \E k \in 1 .. Len(fs) : i = Len(msgs) + k
    <3>1. PICK k \in 1 .. Len(fs) : i = Len(msgs) + k
      BY <2>2
    <3> DEFINE e == fs[k]
    <3>2. /\ e \in Devices /\ e \in ToSet(fs)
          /\ msgs'[i].from = d /\ msgs'[i].n = outs[d][e].n
      BY <1>4, <3>1
    <3> HIDE DEF e
    <3> DEFINE g == Cardinality(Goes(sending[d], d, e))
               h == Cardinality(Goes(sending'[d], d, e))
    <3>3. g \in Nat /\ h \in Nat /\ h + 1 <= g
      BY <1>2, <3>2
    <3>4. outs[d][e].n + g <= texts[d] /\ outs[d][e].n \in Nat
      BY <1>0, <1>5, <3>2 DEF SessionsCounted
    <3> HIDE DEF g, h
    <3>5. outs[d][e].n < texts[d]
      BY <1>5, <3>3, <3>4
    <3>6. QED
      BY <3>2, <3>5
  <2>3. QED
    BY <1>3, <2>1, <2>2
<1>11. MessagesCounted'
  BY <1>1, <1>10 DEF MessagesCounted
<1>12. QED
  BY <1>6, <1>9, <1>11 DEF CountInv

(* The counts hold over every step, reloads aside.                         *)
LEMMA CountStep == TypeInv /\ OutInv /\ CountInv /\ [Next]_vars => CountInv'
<1> SUFFICES ASSUME TypeInv, OutInv, CountInv, [Next]_vars PROVE CountInv'
  OBVIOUS
<1>0. /\ sending \in [Devices -> SUBSET Jobs] /\ reloads \in Nat
      /\ outs \in [Devices -> [Devices -> OutSession]]
  BY TypesOf DEF TypeInv, MemoryTypes
<1>1. CASE reloads' # 0
  BY <1>1 DEF CountInv
<1>2. CASE reloads' = 0 /\ UNCHANGED vars
  <2>1. CountsStay /\ reloads = 0
    BY <1>2 DEF CountsStay, vars, memoryVars, boundVars
  <2>2. QED
    BY <2>1, StayCounts
<1>3. CASE reloads' = 0 /\ \E d \in Devices : DeviceStep(d) \/ RelayStep(d)
  <2>1. PICK d \in Devices : DeviceStep(d) \/ RelayStep(d)
    BY <1>3
  <2>2. CASE Connect(d) \/ OnOpen(d) \/ OnClose(d) \/ RelayStep(d) \/ OnDeliverySkipped(d) \/ OnAck(d)
    <3>1. UNCHANGED <<msgs, texts, reloads, sending, outs>>
      BY <2>2 DEF Connect, OnOpen, OnClose, RelayStep, Accept, AcceptLate, OnDeliverySkipped,
         OnAck, memoryVars, boundVars
    <3>2. CountsStay /\ reloads = 0
      BY <1>3, <3>1 DEF CountsStay
    <3>3. QED
      BY <3>2, StayCounts
  <2>3. CASE \E j \in sending[d] : FetchFailed(d, j)
    <3>1. UNCHANGED <<msgs, texts, reloads, outs>>
      BY <2>3 DEF FetchFailed
    <3>2. PICK j : sending' = [sending EXCEPT ![d] = @ \ {j}]
      BY <2>3 DEF FetchFailed
    <3>3. \A c \in Devices : sending'[c] \subseteq sending[c]
      BY <1>0, <3>2
    <3>4. CountsStay /\ reloads = 0
      BY <1>3, <3>1, <3>3 DEF CountsStay
    <3>5. QED
      BY <3>4, StayCounts
  <2>4. CASE OnDelivery(d) \/ \E u \in Users : ResetSession(d, u)
    <3>1. UNCHANGED <<msgs, texts, reloads, sending>>
      BY <2>4 DEF OnDelivery, ResetSession, boundVars
    <3>2. PICK E : outs' = Without(d, E)
      BY <2>4 DEF OnDelivery, ResetSession
    <3>3. \A c, e \in Devices : outs'[c][e] = outs[c][e] \/ outs'[c][e] = NoOut
      BY <3>2, WithoutFields
    <3>4. CountsStay /\ reloads = 0
      BY <1>3, <3>1, <3>3 DEF CountsStay
    <3>5. QED
      BY <3>4, StayCounts
  <2>5. CASE \E u \in Users : SendMessage(d, u)
    <3>1. reloads = 0
      BY <1>3, <2>5 DEF SendMessage
    <3>2. QED
      BY <2>5, <3>1, CallCounts
  <2>6. CASE \E j \in sending[d] : FetchedRecipient(d, j) \/ FetchedOwn(d, j)
    <3>1. reloads = 0
      BY <1>3, <2>6 DEF FetchedRecipient, FetchedOwn, boundVars
    <3>2. QED
      BY <2>6, <3>1, SentCounts
  <2>7. ~Reload(d)
    BY <1>0, <1>3 DEF Reload
  <2>8. QED
    BY <2>1, <2>2, <2>3, <2>4, <2>5, <2>6, <2>7 DEF DeviceStep
<1>4. QED
  BY <1>1, <1>2, <1>3 DEF Next

(* Nothing is counted at first.                                            *)
LEMMA InitCount == Init => CountInv
<1> SUFFICES ASSUME Init PROVE CountInv
  OBVIOUS
<1>1. IsFiniteSet({}) /\ Cardinality({}) = 0
  BY FS_EmptySet
<1>2. Calls
  BY <1>1 DEF Calls, Init
<1>3. SessionsCounted
  <2>1. ASSUME NEW d \in Devices, NEW e \in Devices
        PROVE  outs[d][e].n + Cardinality(Goes(sending[d], d, e)) <= texts[d]
    <3>1. Goes(sending[d], d, e) = {}
      BY DEF Goes, Init
    <3>2. outs[d][e].n = 0 /\ texts[d] = 0
      BY SessionFields DEF Init
    <3>3. QED
      BY <1>1, <3>1, <3>2
  <2>2. QED
    BY <2>1 DEF SessionsCounted
<1>4. MessagesCounted
  BY DEF MessagesCounted, Init
<1>5. QED
  BY <1>2, <1>3, <1>4 DEF CountInv

-----------------------------------------------------------------------------
(* A session to receive on has passed its init                             *)

Begun(s) == s.id # 0 => s.n >= 1

InsBegun == reloads = 0 => \A c, e \in Devices : Begun(ins[c][e])

(* What a delivery makes of a session has.                                 *)
LEMMA ReceivedBegins ==
    ASSUME NEW s \in InSession, NEW m \in Message, Begun(s)
    PROVE  Begun(Received(s, m))
<1>1. m.n \in Nat /\ s = [id |-> s.id, n |-> s.n, skipped |-> s.skipped]
  BY MessageFields DEF InSession
<1>2. CASE m.type = "init"
  BY <1>2 DEF Begun, Received
<1>3. CASE m.type # "init" /\ m.n \in s.skipped
  <2>1. Received(s, m) = [id |-> s.id, n |-> s.n, skipped |-> s.skipped \ {m.n}]
    BY <1>1, <1>3 DEF Received
  <2>2. QED
    BY <2>1 DEF Begun
<1>4. CASE m.type # "init" /\ m.n \notin s.skipped
  <2>1. Received(s, m) =
            [id |-> s.id, n |-> m.n + 1, skipped |-> s.skipped \cup SkippedOnTheWay(s, m)]
    BY <1>1, <1>4 DEF Received
  <2>2. QED
    BY <1>1, <2>1 DEF Begun
<1>5. QED
  BY <1>2, <1>3, <1>4

LEMMA BegunStep == TypeInv /\ InsBegun /\ [Next]_vars => InsBegun'
<1> SUFFICES ASSUME TypeInv, InsBegun, [Next]_vars PROVE InsBegun'
  OBVIOUS
<1>1. CASE UNCHANGED <<ins, reloads>>
  BY <1>1 DEF InsBegun
<1>2. CASE UNCHANGED vars
  BY <1>1, <1>2 DEF vars, memoryVars, boundVars
<1>3. CASE \E d \in Devices : DeviceStep(d) \/ RelayStep(d)
  <2>1. PICK d \in Devices : DeviceStep(d) \/ RelayStep(d)
    BY <1>3
  <2>2. CASE \/ Connect(d) \/ OnOpen(d) \/ OnClose(d) \/ RelayStep(d) \/ OnDeliverySkipped(d)
             \/ \E u \in Users : SendMessage(d, u)
             \/ \E j \in sending[d] : FetchFailed(d, j)
             \/ OnAck(d)
    <3>1. UNCHANGED <<ins, reloads>>
      BY <2>2 DEF Connect, OnOpen, OnClose, RelayStep, Accept, AcceptLate, OnDeliverySkipped,
         SendMessage, FetchFailed, OnAck, memoryVars, boundVars
    <3>2. QED
      BY <1>1, <3>1
  <2>3. CASE \E j \in sending[d] : FetchedRecipient(d, j) \/ FetchedOwn(d, j)
    <3>1. UNCHANGED <<ins, reloads>>
      BY <2>3 DEF FetchedRecipient, FetchedOwn, boundVars
    <3>2. QED
      BY <1>1, <3>1
  <2>4. CASE OnDelivery(d)
    <3> DEFINE m == msgs[NextIndex(d)]
    <3>1. reloads' = reloads
      BY <2>4 DEF OnDelivery, boundVars
    <3>2. /\ m \in Message /\ m.from \in Devices /\ ins[d][m.from] \in InSession
          /\ ins'[d][m.from] = Received(ins[d][m.from], m)
          /\ \A c, e \in Devices : c # d \/ e # m.from => ins'[c][e] = ins[c][e]
      BY <2>4, DeliveryEffects
    <3> HIDE DEF m
    <3>3. ASSUME reloads = 0, NEW c \in Devices, NEW e \in Devices
          PROVE  Begun(ins'[c][e])
      <4>1. CASE c = d /\ e = m.from
        <5>1. Begun(ins[d][m.from])
          BY <3>2, <3>3 DEF InsBegun
        <5>2. QED
          BY <3>2, <4>1, <5>1, ReceivedBegins
      <4>2. CASE c # d \/ e # m.from
        BY <3>2, <3>3, <4>2 DEF InsBegun
      <4>3. QED
        BY <4>1, <4>2
    <3>4. QED
      BY <3>1, <3>3 DEF InsBegun
  <2>5. CASE \E u \in Users : ResetSession(d, u)
    <3>1. PICK u \in Users : ResetSession(d, u)
      BY <2>5
    <3>2. reloads' = reloads
      BY <3>1 DEF ResetSession
    <3>3. ASSUME NEW c \in Devices, NEW e \in Devices
          PROVE  ins'[c][e] \in {ins[c][e], NoIn}
      <4> DEFINE E == {x \in Devices : UserOf[x] = u /\ outs[d][x] # NoOut}
                 F == {x \in Devices : UserOf[x] = u /\ ins[d][x] # NoIn}
                 v == SetToSeq(Deleted(E)) \o SetToSeq({PutIn(x, NoIn) : x \in F})
      <4>1. /\ \A x \in Devices \ {d} : ins'[x] = ins[x]
            /\ \A x \in Devices : ins'[d][x] = IF x \in F THEN NoIn ELSE ins[d][x]
        BY <3>1, ResetEffects
      <4> HIDE DEF E, F, v
      <4>2. QED
        BY <4>1
    <3>4. Begun(NoIn)
      BY SessionFields DEF Begun
    <3>5. QED
      BY <3>2, <3>3, <3>4 DEF InsBegun
  <2>6. CASE Reload(d)
    <3>1. reloads' = reloads + 1
      BY <2>6 DEF Reload
    <3>2. reloads \in Nat
      BY DEF TypeInv, MemoryTypes
    <3>3. QED
      BY <3>1, <3>2 DEF InsBegun
  <2>7. QED
    BY <2>1, <2>2, <2>3, <2>4, <2>5, <2>6 DEF DeviceStep
<1>4. QED
  BY <1>2, <1>3 DEF Next

LEMMA InitBegun == Init => InsBegun
BY SessionFields DEF Init, InsBegun, Begun

-----------------------------------------------------------------------------
(* Unless a page was reloaded, what a device has still to read of a        *)
(* session it holds will decrypt, whatever frames are lost or come late,   *)
(* as long as no device has sent more than MAX_SKIP + 2 texts: a session's *)
(* messages are no more than its device's texts, and a receiver that has   *)
(* its init is never more than MAX_SKIP behind the last.                   *)
THEOREM SessionsStayInStep ==
    Spec => []((\A d \in Devices : texts[d] <= MAX_SKIP + 2) => InStep)
<1>1. ASSUME TypeInv, OutInv, CountInv, InsBegun, reloads = 0 => KeysAhead,
             \A d \in Devices : texts[d] <= MAX_SKIP + 2
      PROVE  InStep
  <2> SUFFICES ASSUME reloads = 0, NEW d \in Devices,
                      NEW p \in cursor[d] + 1 .. Len(log[UserOf[d]]),
                      Awaits(d, p)
               PROVE  Decrypts(ins[d][msgs[log[UserOf[d]][p]].from], msgs[log[UserOf[d]][p]])
    BY DEF InStep, Awaits
  <2> DEFINE i == log[UserOf[d]][p]
             m == msgs[i]
             s == ins[d][m.from]
  <2>1. i \in 1 .. Len(msgs) /\ m \in Message /\ m.from \in Devices /\ s \in InSession
    BY <1>1, EntryFields
  <2>2. HasKey(s, m)
    BY <1>1 DEF KeysAhead
  <2>3. m.id = s.id
    BY DEF Awaits
  <2>4. m.n < texts[m.from]
    BY <1>1, <2>1 DEF CountInv, MessagesCounted
  <2>5. m.n \in Nat /\ s.n \in Nat /\ texts[m.from] \in Nat /\ MAX_SKIP \in Nat
    <3>1. texts \in [Devices -> Nat]
      BY <1>1, TypesOf
    <3>2. QED
      BY <2>1, <3>1, MessageFields, SessionFields, SessionAssumption
  <2>6. texts[m.from] <= MAX_SKIP + 2
    BY <1>1, <2>1
  <2>7. Begun(s) /\ m.id # 0
    BY <1>1, <2>1, NameFields DEF InsBegun, OutInv
  <2>8. s.n >= 1
    BY <2>3, <2>7 DEF Begun
  <2> HIDE DEF s, m, i
  <2>9. m.n - s.n <= MAX_SKIP
    BY <2>4, <2>5, <2>6, <2>8
  <2>10. Decrypts(s, m)
    BY <2>2, <2>3, <2>9 DEF HasKey, Decrypts
  <2>11. QED
    BY <2>10 DEF s, m, i
<1>2. TypeInv /\ OutInv /\ CountInv /\ InsBegun /\ (reloads = 0 => KeysAhead)
          => ((\A d \in Devices : texts[d] <= MAX_SKIP + 2) => InStep)
  BY <1>1
<1>3. Spec => []CountInv
  BY InitTypes, TypeStep, SessionTypes, InitOuts, OutStep, OutboundInvariant, InitCount,
     CountStep, PTL DEF Spec
<1>4. Spec => []InsBegun
  BY InitTypes, TypeStep, SessionTypes, InitBegun, BegunStep, PTL DEF Spec
<1>5. QED
  BY <1>2, <1>3, <1>4, SessionInvariant, KeysStayAhead, PTL
=============================================================================
