---------------------------- MODULE RatchetProofs ----------------------------
(***************************************************************************)
(* Proofs about the double ratchet: for any MAX_SKIP and any number of     *)
(* messages, over a network that loses, reorders and repeats them, no      *)
(* message key is derived twice, a key is gone once it was used, and every *)
(* message not yet opened still opens unless the gap is too large.         *)
(*                                                                         *)
(* What is known of a party is stated about its state s, its peer's state  *)
(* t, the sequence o of the messages it opened, and the sets of messages   *)
(* sent (own, theirs), so that each lemma serves for both parties and for  *)
(* the states before and after a step.                                     *)
(***************************************************************************)
EXTENDS Ratchet, TLAPS

-----------------------------------------------------------------------------
(* Types                                                                   *)

Pairs == {"initiator", "responder", "none"} \X Nat
Roots == Seq(SUBSET Pairs)
ChainKeys == [root : Roots, at : Nat]
SkippedKeys == [dh : Pairs, n : Nat, key : ChainKeys]
Messages == [dh : Pairs, n : Nat, pn : Nat, key : ChainKeys]
RatchetStates ==
    [RK : Roots, CKs : ChainKeys, CKr : ChainKeys, DHs : Pairs, DHr : Pairs,
     Ns : Nat, Nr : Nat, PN : Nat, skippedKeys : SUBSET SkippedKeys]

TypeOK ==
    /\ state \in [Parties -> RatchetStates]
    /\ sent \in [Parties -> SUBSET Messages]
    /\ opened \in [Parties -> Seq(Messages)]

-----------------------------------------------------------------------------
(* The inductive invariant                                                 *)

(* The parties' key pairs take turns: initiator 0, responder 1, initiator  *)
(* 1, responder 2, ...  Own(s) is the number of a party's pair, Seen(p, s) *)
(* that of the peer's pair it received with (none yet: the responder's -1).*)
Own(s) == s.DHs[2]
Seen(p, s) == IF p = "initiator" THEN Own(s) ELSE Own(s) - 1

(* The length of the root key of the chain that party p sends with its     *)
(* pair j: root keys grow by one output a turn.                            *)
Place(p, j) == IF p = "initiator" THEN 2 * j + 1 ELSE 2 * j

(* The messages of a sequence.                                             *)
In(o) == {o[i] : i \in 1 .. Len(o)}

(* What a party knows of itself.                                           *)
StateOK(p, s, o) ==
    /\ s.DHs[1] = p
    /\ Len(s.RK) = Place(p, Own(s))
    /\ s.CKs = IF Len(s.RK) = 0 THEN NoChain ELSE [root |-> s.RK, at |-> s.Ns]
    /\ Len(s.RK) = 0 => s.Ns = 0
    /\ Own(s) = 0 =>
           /\ s.CKr = NoChain /\ s.Nr = 0 /\ s.PN = 0
           /\ s.DHr = IF p = "initiator" THEN SignedPreKey ELSE NoPair
           /\ s.skippedKeys = {} /\ o = <<>>
    /\ Own(s) > 0 =>
           /\ s.DHr = <<Peer(p), Seen(p, s)>>
           /\ s.CKr.at = s.Nr
           /\ Len(s.CKr.root) = Place(Peer(p), Seen(p, s))

(* What p has sent: with the pair and at the position that its key says.   *)
SentOK(p, s, own) ==
    \A m \in own :
        /\ m.dh[1] = p /\ m.dh[2] <= Own(s)
        /\ m.key.at = m.n
        /\ Len(m.key.root) = Place(p, m.dh[2]) /\ m.key.root # <<>>
        /\ m.dh[2] = Own(s) => m.n < s.Ns /\ m.pn = s.PN /\ m.key.root = s.RK
        /\ m.dh[2] = Own(s) - 1 => m.n < s.PN
        /\ \A l \in own : l.dh = m.dh => l.pn = m.pn /\ l.key.root = m.key.root

(* What p keeps: keys of positions that its chains have passed, of nothing *)
(* that was opened.                                                        *)
KeptOK(p, s, o) ==
    \A k \in s.skippedKeys :
        /\ k.dh[1] = Peer(p) /\ k.dh[2] <= Seen(p, s)
        /\ k.key.at = k.n
        /\ Len(k.key.root) = Place(Peer(p), k.dh[2])
        /\ k.dh[2] = Seen(p, s) => k.n < s.Nr
        /\ \A m \in In(o) : k.key # m.key

(* What p has opened: each message of the peer once, behind its chain.     *)
OpenedOK(p, s, o, theirs) ==
    /\ \A m \in In(o) :
           /\ m \in theirs
           /\ m.dh[2] <= Seen(p, s)
           /\ m.dh[2] = Seen(p, s) => m.n < s.Nr
    /\ \A i, j \in 1 .. Len(o) : o[i] = o[j] => i = j

(* How the chains of p and of its peer fit: the peer sends on the chain    *)
(* that p receives on, or on the next one.                                 *)
InTurn(p, s, t, theirs) ==
    /\ Own(t) \in {Seen(p, s), Seen(p, s) + 1}
    /\ Own(t) = Seen(p, s) /\ Own(s) > 0 =>
           s.Nr <= t.Ns /\ s.CKr.root = t.RK
    /\ Own(t) = Seen(p, s) + 1 =>
           s.Nr <= t.PN /\ t.RK = NewRK(s.RK, s.DHs, t.DHs)
    /\ Own(s) > 0 =>
           \A m \in theirs : m.dh[2] = Seen(p, s) => m.key.root = s.CKr.root

(* A message passed over is opened or its key is kept.                     *)
NothingMissing(p, s, o, theirs) ==
    \A m \in theirs :
        m.dh[2] < Seen(p, s) \/ (m.dh[2] = Seen(p, s) /\ m.n < s.Nr) =>
            \/ m \in In(o)
            \/ \E k \in SkippedFor(s, m) : k.key = m.key

PartyOK(p, s, t, o, own, theirs) ==
    /\ StateOK(p, s, o)
    /\ SentOK(p, s, own)
    /\ KeptOK(p, s, o)
    /\ OpenedOK(p, s, o, theirs)
    /\ InTurn(p, s, t, theirs)
    /\ NothingMissing(p, s, o, theirs)

RatchetOK ==
    \A p \in Parties :
        PartyOK(p, state[p], state[Peer(p)], opened[p], sent[p], sent[Peer(p)])

IInv == TypeOK /\ RatchetOK

-----------------------------------------------------------------------------
(* Parties, pairs, turns and root keys                                     *)

(* There are two parties, each the other's peer.                           *)
LEMMA PartyFacts ==
    ASSUME NEW p \in Parties
    PROVE  /\ Peer(p) \in Parties /\ Peer(p) # p /\ Peer(Peer(p)) = p
           /\ \A r \in Parties : r = p \/ r = Peer(p)
           /\ p # "none"
BY DEF Parties, Peer

(* A pair is its owner and its number.                                     *)
LEMMA PairFacts ==
    ASSUME NEW x \in Pairs
    PROVE  /\ x[2] \in Nat /\ x = <<x[1], x[2]>>
           /\ \A y \in Pairs : x[1] = y[1] /\ x[2] = y[2] => x = y
BY DEF Pairs

(* No two pairs have a root key of one length.                             *)
LEMMA PlacesDiffer ==
    ASSUME NEW p \in Parties, NEW q \in Parties, NEW i \in Int, NEW j \in Int,
           Place(p, i) = Place(q, j)
    PROVE  p = q /\ i = j
BY DEF Place, Parties

(* The peer's number says whose turn it is, for both alike.                *)
LEMMA Turns ==
    ASSUME NEW p \in Parties, NEW s \in RatchetStates, NEW t \in RatchetStates
    PROVE  /\ Own(s) \in Nat /\ Own(t) \in Nat
           /\ Seen(p, s) \in Int /\ Seen(p, s) + 1 \in Nat
           /\ Own(t) = Seen(p, s) <=> Own(s) = Seen(Peer(p), t) + 1
           /\ Own(t) = Seen(p, s) + 1 <=> Own(s) = Seen(Peer(p), t)
           /\ Place(p, Own(s)) + 1 = Place(Peer(p), Seen(p, s) + 1)
           /\ Place(p, Own(s)) + 2 = Place(p, Own(s) + 1)
<1>1. s.DHs \in Pairs /\ t.DHs \in Pairs
  BY DEF RatchetStates
<1>2. Own(s) \in Nat /\ Own(t) \in Nat
  BY <1>1, PairFacts DEF Own
<1>3. QED
  BY <1>2 DEF Seen, Place, Peer, Parties

(* A root key grows by one output.                                         *)
LEMMA RootGrows ==
    ASSUME NEW rk \in Roots, NEW x \in Pairs, NEW y \in Pairs
    PROVE  /\ NewRK(rk, x, y) \in Roots
           /\ Len(NewRK(rk, x, y)) = Len(rk) + 1
           /\ Len(rk) \in Nat
           /\ NewRK(rk, x, y) = NewRK(rk, y, x)
<1>1. {x, y} \in SUBSET Pairs /\ {x, y} = {y, x}
  OBVIOUS
<1>2. QED
  BY <1>1 DEF NewRK, Roots

(* Only the empty root key has length 0.                                   *)
LEMMA RootLengths ==
    ASSUME NEW rk \in Roots
    PROVE  Len(rk) \in Nat /\ (Len(rk) = 0 <=> rk = <<>>)
BY DEF Roots

(* A chain key is its root key and its position.                           *)
LEMMA ChainKeyFacts ==
    ASSUME NEW ck \in ChainKeys
    PROVE  /\ ck.root \in Roots /\ ck.at \in Nat
           /\ ck = [root |-> ck.root, at |-> ck.at]
           /\ NextCK(ck) = [root |-> ck.root, at |-> ck.at + 1]
           /\ NextCK(ck) \in ChainKeys
           /\ NoChain \in ChainKeys
BY DEF ChainKeys, NextCK, NoChain, Roots

(* The messages of a longer sequence.                                      *)
LEMMA InAppend ==
    ASSUME NEW o \in Seq(Messages), NEW m \in Messages
    PROVE  /\ Append(o, m) \in Seq(Messages)
           /\ Append(o, m) # <<>>
           /\ In(Append(o, m)) = In(o) \cup {m}
           /\ (\A i, j \in 1 .. Len(o) : o[i] = o[j] => i = j) /\ m \notin In(o) =>
                  \A i, j \in 1 .. Len(Append(o, m)) :
                      Append(o, m)[i] = Append(o, m)[j] => i = j
<1> DEFINE a == Append(o, m)
<1>1. /\ a \in Seq(Messages) /\ Len(a) = Len(o) + 1 /\ Len(o) \in Nat
      /\ \A i \in 1 .. Len(o) : a[i] = o[i]
      /\ a[Len(o) + 1] = m
      /\ a # <<>>
  OBVIOUS
<1> HIDE DEF a
<1>2. \A i \in 1 .. Len(a) : i \in 1 .. Len(o) \/ i = Len(o) + 1
  BY <1>1
<1>3. \A i \in 1 .. Len(o) : i \in 1 .. Len(a)
  BY <1>1
<1>4. Len(o) + 1 \in 1 .. Len(a)
  BY <1>1
<1>5. In(a) = In(o) \cup {m}
  <2>1. ASSUME NEW x \in In(a) PROVE x \in In(o) \cup {m}
    <3>1. PICK i \in 1 .. Len(a) : x = a[i]
      BY <2>1 DEF In
    <3>2. QED
      BY <3>1, <1>1, <1>2 DEF In
  <2>2. ASSUME NEW x \in In(o) PROVE x \in In(a)
    <3>1. PICK i \in 1 .. Len(o) : x = o[i]
      BY <2>2 DEF In
    <3>2. x = a[i] /\ i \in 1 .. Len(a)
      BY <3>1, <1>1, <1>3
    <3>3. QED
      BY <3>2 DEF In
  <2>3. m \in In(a)
    BY <1>1, <1>4 DEF In
  <2>4. QED
    BY <2>1, <2>2, <2>3
<1>6. ASSUME \A i, j \in 1 .. Len(o) : o[i] = o[j] => i = j, m \notin In(o),
             NEW i \in 1 .. Len(a), NEW j \in 1 .. Len(a), a[i] = a[j]
      PROVE  i = j
  <2>1. \A l \in 1 .. Len(o) : o[l] # m
    BY <1>6 DEF In
  <2>2. QED
    BY <1>6, <1>1, <1>2, <2>1
<1>7. QED
  BY <1>1, <1>5, <1>6 DEF a

(* Nothing is in the empty sequence.                                       *)
LEMMA InNothing == In(<<>>) = {}
BY DEF In

-----------------------------------------------------------------------------
(* What ratchetDecrypt does to a state                                     *)

(* The fields of a state.                                                  *)
LEMMA StateFields ==
    ASSUME NEW s \in RatchetStates
    PROVE  /\ s.RK \in Roots /\ s.CKs \in ChainKeys /\ s.CKr \in ChainKeys
           /\ s.DHs \in Pairs /\ s.DHr \in Pairs
           /\ s.Ns \in Nat /\ s.Nr \in Nat /\ s.PN \in Nat
           /\ s.skippedKeys \in SUBSET SkippedKeys
BY DEF RatchetStates

(* The fields of a message.                                                *)
LEMMA MessageFields ==
    ASSUME NEW m \in Messages
    PROVE  /\ m.dh \in Pairs /\ m.n \in Nat /\ m.pn \in Nat /\ m.key \in ChainKeys
           /\ m = [dh |-> m.dh, n |-> m.n, pn |-> m.pn, key |-> m.key]
BY DEF Messages

(* The keys of the positions from .. to - 1 of a chain.                    *)
Passed(dh, root, from, to) ==
    {[dh |-> dh, n |-> i, key |-> [root |-> root, at |-> i]] : i \in from .. to - 1}

(* They are typed, and each position's key is among them.                  *)
LEMMA PassedFacts ==
    ASSUME NEW dh \in Pairs, NEW root \in Roots, NEW from \in Nat, NEW to \in Nat
    PROVE  /\ Passed(dh, root, from, to) \in SUBSET SkippedKeys
           /\ \A k \in Passed(dh, root, from, to) :
                  /\ k.dh = dh /\ k.n \in Nat /\ from <= k.n /\ k.n < to
                  /\ k.key.root = root /\ k.key.at = k.n
           /\ \A n \in Nat : from <= n /\ n < to =>
                  [dh |-> dh, n |-> n, key |-> [root |-> root, at |-> n]]
                      \in Passed(dh, root, from, to)
<1>1. \A i \in from .. to - 1 : i \in Nat /\ from <= i /\ i < to
  OBVIOUS
<1>2. \A n \in Nat : from <= n /\ n < to => n \in from .. to - 1
  OBVIOUS
<1>3. QED
  BY <1>1, <1>2 DEF Passed, SkippedKeys, ChainKeys

(* skipMessageKeys moves the receiving chain and keeps the keys it passes. *)
LEMMA SkipFields ==
    ASSUME NEW s \in RatchetStates, NEW until \in Nat, s.Nr <= until, s.CKr.at = s.Nr
    PROVE  SkipMessageKeys(s, until) =
               [s EXCEPT
                   !.skippedKeys = s.skippedKeys
                       \cup Passed(s.DHr, s.CKr.root, s.Nr, until),
                   !.CKr = [root |-> s.CKr.root, at |-> until],
                   !.Nr = until]
<1> DEFINE keys == {[dh |-> s.DHr, n |-> i,
                     key |-> MessageKey([s.CKr EXCEPT !.at = @ + i - s.Nr])]
                       : i \in s.Nr .. until - 1}
<1>1. s.CKr \in ChainKeys /\ s.Nr \in Nat /\ s.skippedKeys \in SUBSET SkippedKeys
  BY StateFields
<1>2. s.CKr = [root |-> s.CKr.root, at |-> s.Nr]
  BY <1>1, ChainKeyFacts
<1>3. keys = Passed(s.DHr, s.CKr.root, s.Nr, until)
  <2>1. ASSUME NEW i \in s.Nr .. until - 1
        PROVE  MessageKey([s.CKr EXCEPT !.at = @ + i - s.Nr]) = [root |-> s.CKr.root, at |-> i]
    <3>1. s.Nr + i - s.Nr = i
      BY <1>1
    <3>2. QED
      BY <1>2, <3>1 DEF MessageKey
  <2>2. QED
    BY <2>1 DEF Passed
<1>4. CASE s.Nr < until
  <2>1. s.Nr + until - s.Nr = until
    BY <1>1
  <2>2. ~(until <= s.Nr)
    BY <1>1, <1>4
  <2> HIDE DEF keys
  <2>3. SkipMessageKeys(s, until) =
            [s EXCEPT !.skippedKeys = @ \cup keys, !.CKr.at = @ + until - s.Nr, !.Nr = until]
    BY <2>2 DEF SkipMessageKeys, keys
  <2>4. [s.CKr EXCEPT !.at = @ + until - s.Nr] = [root |-> s.CKr.root, at |-> until]
    BY <1>2, <2>1
  <2>5. QED
    BY <1>3, <2>3, <2>4 DEF RatchetStates
<1>5. CASE s.Nr = until
  <2>1. Passed(s.DHr, s.CKr.root, s.Nr, until) = {}
    BY <1>1, <1>5 DEF Passed
  <2>2. SkipMessageKeys(s, until) = s
    BY <1>1, <1>5 DEF SkipMessageKeys
  <2>3. QED
    BY <1>2, <1>5, <2>1, <2>2 DEF RatchetStates
<1>6. QED
  BY <1>1, <1>4, <1>5

(* Whatever the positions, it yields a state and touches nothing else.     *)
LEMMA SkipKeeps ==
    ASSUME NEW s \in RatchetStates, NEW until \in Nat
    PROVE  LET r == SkipMessageKeys(s, until) IN
           /\ r \in RatchetStates
           /\ r.RK = s.RK /\ r.CKs = s.CKs /\ r.DHs = s.DHs /\ r.DHr = s.DHr
           /\ r.Ns = s.Ns /\ r.PN = s.PN /\ r.CKr.root = s.CKr.root
<1> DEFINE keys == {[dh |-> s.DHr, n |-> i,
                     key |-> MessageKey([s.CKr EXCEPT !.at = @ + i - s.Nr])]
                       : i \in s.Nr .. until - 1}
<1>1. s.CKr \in ChainKeys /\ s.Nr \in Nat /\ s.DHr \in Pairs
      /\ s.skippedKeys \in SUBSET SkippedKeys
  BY StateFields
<1>2. s.CKr = [root |-> s.CKr.root, at |-> s.CKr.at] /\ s.CKr.at \in Nat /\ s.CKr.root \in Roots
  BY <1>1, ChainKeyFacts
<1>3. CASE until <= s.Nr
  BY <1>3 DEF SkipMessageKeys
<1>4. CASE ~(until <= s.Nr)
  <2>1. keys \in SUBSET SkippedKeys
    <3>1. ASSUME NEW i \in s.Nr .. until - 1
          PROVE  [s.CKr EXCEPT !.at = @ + i - s.Nr] \in ChainKeys
      <4>1. s.CKr.at + i - s.Nr \in Nat
        BY <1>1, <1>2
      <4>2. QED
        BY <1>2, <4>1 DEF ChainKeys
    <3>2. \A i \in s.Nr .. until - 1 : i \in Nat
      BY <1>1
    <3>3. QED
      BY <1>1, <3>1, <3>2 DEF MessageKey, SkippedKeys
  <2>2. s.CKr.at + until - s.Nr \in Nat
    BY <1>1, <1>2, <1>4
  <2>3. [s.CKr EXCEPT !.at = @ + until - s.Nr] = [root |-> s.CKr.root, at |-> s.CKr.at + until - s.Nr]
    BY <1>2
  <2>4. [root |-> s.CKr.root, at |-> s.CKr.at + until - s.Nr] \in ChainKeys
    BY <1>2, <2>2 DEF ChainKeys
  <2> HIDE DEF keys
  <2>5. SkipMessageKeys(s, until) =
            [s EXCEPT !.skippedKeys = @ \cup keys, !.CKr.at = @ + until - s.Nr, !.Nr = until]
    BY <1>4 DEF SkipMessageKeys, keys
  <2>6. SkipMessageKeys(s, until) =
            [s EXCEPT !.skippedKeys = s.skippedKeys \cup keys,
                      !.CKr = [root |-> s.CKr.root, at |-> s.CKr.at + until - s.Nr],
                      !.Nr = until]
    BY <2>5, <2>3 DEF RatchetStates
  <2> DEFINE sk == s.skippedKeys \cup keys
             ck == [root |-> s.CKr.root, at |-> s.CKr.at + until - s.Nr]
  <2>7. sk \in SUBSET SkippedKeys /\ ck \in ChainKeys /\ ck.root = s.CKr.root
    BY <1>1, <2>1, <2>4
  <2> HIDE DEF sk, ck
  <2>8. SkipMessageKeys(s, until) = [s EXCEPT !.skippedKeys = sk, !.CKr = ck, !.Nr = until]
    BY <2>6 DEF sk, ck
  <2>9. QED
    BY <2>7, <2>8 DEF RatchetStates
<1>5. QED
  BY <1>3, <1>4

(* The root keys of the two chains that a DH ratchet step makes.           *)
Fresh(s) == <<s.DHs[1], s.DHs[2] + 1>>
Received(s, dh) == NewRK(s.RK, s.DHs, dh)
Sending(s, dh) == NewRK(Received(s, dh), Fresh(s), dh)

(* The DH ratchet step takes the peer's pair and a new one of its own.     *)
LEMMA RatchetFields ==
    ASSUME NEW s \in RatchetStates, NEW dh \in Pairs
    PROVE  LET r == DHRatchet(s, dh) IN
           /\ r \in RatchetStates
           /\ Received(s, dh) \in Roots /\ Sending(s, dh) \in Roots
           /\ Fresh(s) \in Pairs
           /\ r.RK = Sending(s, dh) /\ r.CKs = [root |-> Sending(s, dh), at |-> 0]
           /\ r.DHs = Fresh(s) /\ r.DHr = dh
           /\ r.CKr = [root |-> Received(s, dh), at |-> 0]
           /\ r.Ns = 0 /\ r.Nr = 0 /\ r.PN = s.Ns
           /\ r.skippedKeys = s.skippedKeys
<1>1. s.DHs \in Pairs /\ s.RK \in Roots /\ s.Ns \in Nat /\ s.skippedKeys \in SUBSET SkippedKeys
  BY StateFields
<1>2. Fresh(s) \in Pairs
  BY <1>1 DEF Fresh, Pairs
<1>3. Received(s, dh) \in Roots /\ Sending(s, dh) \in Roots
  BY <1>1, <1>2, RootGrows DEF Received, Sending
<1> DEFINE f == Fresh(s)
           r1 == Received(s, dh)
           r2 == Sending(s, dh)
           c1 == [root |-> r1, at |-> 0]
           c2 == [root |-> r2, at |-> 0]
<1>4. c1 \in ChainKeys /\ c2 \in ChainKeys
  BY <1>3 DEF ChainKeys
<1>5. DHRatchet(s, dh) =
          [s EXCEPT !.PN = s.Ns, !.Ns = 0, !.Nr = 0, !.CKr = c1, !.DHr = dh,
                    !.RK = r2, !.CKs = c2, !.DHs = f]
  BY DEF DHRatchet, NewCK, Fresh, Received, Sending
<1>6. f \in Pairs /\ r1 \in Roots /\ r2 \in Roots
  BY <1>2, <1>3
<1> DEFINE r == DHRatchet(s, dh)
<1>7. /\ r \in RatchetStates
      /\ r.RK = r2 /\ r.CKs = c2 /\ r.DHs = f /\ r.DHr = dh /\ r.CKr = c1
      /\ r.Ns = 0 /\ r.Nr = 0 /\ r.PN = s.Ns /\ r.skippedKeys = s.skippedKeys
  <2> HIDE DEF f, r1, r2, c1, c2
  <2>1. r = [RK |-> r2, CKs |-> c2, CKr |-> c1, DHs |-> f, DHr |-> dh,
             Ns |-> 0, Nr |-> 0, PN |-> s.Ns, skippedKeys |-> s.skippedKeys]
    BY <1>5 DEF RatchetStates
  <2> HIDE DEF r
  <2>2. r \in RatchetStates
    BY <1>1, <1>4, <1>6, <2>1 DEF RatchetStates
  <2>3. QED
    BY <2>1, <2>2
<1>8. QED
  BY <1>6, <1>7

(* The state in which a key is derived, and the state after, are states.   *)
LEMMA AfterTyped ==
    ASSUME NEW s \in RatchetStates, NEW m \in Messages
    PROVE  ReadyFor(s, m) \in RatchetStates /\ After(s, m) \in RatchetStates
<1>1. m.dh \in Pairs /\ m.n \in Nat /\ m.pn \in Nat
  BY MessageFields
<1>2. OldChainSkipped(s, m) \in RatchetStates
  BY <1>1, SkipKeeps DEF OldChainSkipped
<1>3. DHRatchet(OldChainSkipped(s, m), m.dh) \in RatchetStates
  BY <1>1, <1>2, RatchetFields
<1>4. ReadyFor(s, m) \in RatchetStates
  BY <1>1, <1>3, SkipKeeps DEF ReadyFor
<1>5. CASE SkippedFor(s, m) # {}
  <2>1. WithoutUsed(s, m) \in SUBSET SkippedKeys
    BY StateFields DEF WithoutUsed
  <2>2. After(s, m) = [s EXCEPT !.skippedKeys = WithoutUsed(s, m)]
    BY <1>5 DEF After
  <2>3. QED
    BY <1>4, <2>1, <2>2 DEF RatchetStates
<1>6. CASE SkippedFor(s, m) = {}
  <2> DEFINE r == ReadyFor(s, m)
  <2>1. r \in RatchetStates /\ r.CKr \in ChainKeys /\ r.Nr + 1 \in Nat
    BY <1>4, StateFields
  <2>2. NextCK(r.CKr) \in ChainKeys
    BY <2>1, ChainKeyFacts
  <2>3. After(s, m) = [r EXCEPT !.CKr = NextCK(@), !.Nr = @ + 1]
    BY <1>6 DEF After
  <2> HIDE DEF r
  <2>4. After(s, m) \in RatchetStates
    BY <2>1, <2>2, <2>3 DEF RatchetStates
  <2>5. QED
    BY <1>4, <2>4
<1>7. QED
  BY <1>5, <1>6

(* The chain a message's key is taken from.                                *)
LEMMA ReadyChain ==
    ASSUME NEW s \in RatchetStates, NEW m \in Messages
    PROVE  /\ m.dh = s.DHr => ReadyFor(s, m).CKr.root = s.CKr.root
           /\ m.dh = s.DHr /\ m.n < s.Nr => ReadyFor(s, m) = s
           /\ m.dh # s.DHr => ReadyFor(s, m).CKr.root = Received(s, m.dh)
<1>1. m.dh \in Pairs /\ m.n \in Nat /\ m.pn \in Nat /\ s.Nr \in Nat
  BY MessageFields, StateFields
<1>2. CASE m.dh = s.DHr
  <2>1. ReadyFor(s, m) = SkipMessageKeys(s, m.n)
    BY <1>2 DEF ReadyFor, NewKey
  <2>2. m.n < s.Nr => SkipMessageKeys(s, m.n) = s
    BY <1>1 DEF SkipMessageKeys
  <2>3. QED
    BY <1>1, <1>2, <2>1, <2>2, SkipKeeps
<1>3. CASE m.dh # s.DHr
  <2> DEFINE o == OldChainSkipped(s, m)
             d == DHRatchet(o, m.dh)
  <2>1. o \in RatchetStates /\ o.RK = s.RK /\ o.DHs = s.DHs
    BY <1>1, SkipKeeps DEF OldChainSkipped
  <2>2. ReadyFor(s, m) = SkipMessageKeys(d, m.n)
    BY <1>3 DEF ReadyFor, NewKey
  <2> HIDE DEF o
  <2>3. d \in RatchetStates /\ d.CKr = [root |-> Received(o, m.dh), at |-> 0]
    BY <1>1, <2>1, RatchetFields
  <2> HIDE DEF d
  <2>4. SkipMessageKeys(d, m.n).CKr.root = d.CKr.root
    BY <1>1, <2>3, SkipKeeps
  <2>5. Received(o, m.dh) = Received(s, m.dh)
    BY <2>1 DEF Received
  <2>6. QED
    BY <1>3, <2>2, <2>3, <2>4, <2>5
<1>4. QED
  BY <1>2, <1>3

(* A late message: its kept key is used up, nothing else changes.          *)
LEMMA AfterLate ==
    ASSUME NEW s \in RatchetStates, NEW m \in Messages, SkippedFor(s, m) # {}
    PROVE  LET u == After(s, m) IN
           /\ u.RK = s.RK /\ u.CKs = s.CKs /\ u.DHs = s.DHs /\ u.DHr = s.DHr
           /\ u.CKr = s.CKr /\ u.Ns = s.Ns /\ u.Nr = s.Nr /\ u.PN = s.PN
           /\ u.skippedKeys = s.skippedKeys \ SkippedFor(s, m)
BY DEF After, WithoutUsed, RatchetStates

(* A message of the receiving chain, at its position or ahead of it.       *)
LEMMA AfterOnChain ==
    ASSUME NEW s \in RatchetStates, NEW m \in Messages, SkippedFor(s, m) = {},
           m.dh = s.DHr, s.CKr.at = s.Nr, s.Nr <= m.n
    PROVE  LET u == After(s, m) IN
           /\ ReadyFor(s, m).CKr = [root |-> s.CKr.root, at |-> m.n]
           /\ u.RK = s.RK /\ u.CKs = s.CKs /\ u.DHs = s.DHs /\ u.DHr = s.DHr
           /\ u.CKr = [root |-> s.CKr.root, at |-> m.n + 1]
           /\ u.Ns = s.Ns /\ u.Nr = m.n + 1 /\ u.PN = s.PN
           /\ u.skippedKeys = s.skippedKeys \cup Passed(s.DHr, s.CKr.root, s.Nr, m.n)
<1> DEFINE r == ReadyFor(s, m)
           sk == s.skippedKeys \cup Passed(s.DHr, s.CKr.root, s.Nr, m.n)
           ck == [root |-> s.CKr.root, at |-> m.n]
<1>1. m.n \in Nat
  BY MessageFields
<1>2. r = SkipMessageKeys(s, m.n)
  BY DEF ReadyFor, NewKey
<1>3. r = [s EXCEPT !.skippedKeys = sk, !.CKr = ck, !.Nr = m.n]
  BY <1>1, <1>2, SkipFields
<1>4. After(s, m) = [r EXCEPT !.CKr = NextCK(@), !.Nr = @ + 1]
  BY DEF After
<1>5. r \in RatchetStates
  BY AfterTyped
<1>6. /\ r.RK = s.RK /\ r.CKs = s.CKs /\ r.DHs = s.DHs /\ r.DHr = s.DHr
      /\ r.CKr = ck /\ r.Ns = s.Ns /\ r.Nr = m.n /\ r.PN = s.PN /\ r.skippedKeys = sk
  <2> HIDE DEF r, sk, ck
  <2>1. QED
    BY <1>3 DEF RatchetStates
<1>7. NextCK(ck) = [root |-> s.CKr.root, at |-> m.n + 1]
  BY DEF NextCK
<1> HIDE DEF r, ck, sk
<1> DEFINE u == After(s, m)
<1>8. /\ u.RK = r.RK /\ u.CKs = r.CKs /\ u.DHs = r.DHs /\ u.DHr = r.DHr
      /\ u.CKr = NextCK(r.CKr) /\ u.Ns = r.Ns /\ u.Nr = r.Nr + 1 /\ u.PN = r.PN
      /\ u.skippedKeys = r.skippedKeys
  BY <1>4, <1>5 DEF RatchetStates
<1>9. QED
  BY <1>6, <1>7, <1>8 DEF r, ck, sk

(* The keys kept of the chain given up, if there was one.                  *)
OldKeys(s, m) == IF s.CKr = NoChain THEN {} ELSE Passed(s.DHr, s.CKr.root, s.Nr, m.pn)

(* The first message to arrive of the peer's new chain.                    *)
LEMMA AfterNewChain ==
    ASSUME NEW s \in RatchetStates, NEW m \in Messages, SkippedFor(s, m) = {},
           m.dh # s.DHr, s.CKr # NoChain => s.CKr.at = s.Nr /\ s.Nr <= m.pn
    PROVE  LET u == After(s, m) IN
           /\ ReadyFor(s, m).CKr = [root |-> Received(s, m.dh), at |-> m.n]
           /\ u.RK = Sending(s, m.dh) /\ u.CKs = [root |-> Sending(s, m.dh), at |-> 0]
           /\ u.DHs = Fresh(s) /\ u.DHr = m.dh
           /\ u.CKr = [root |-> Received(s, m.dh), at |-> m.n + 1]
           /\ u.Ns = 0 /\ u.Nr = m.n + 1 /\ u.PN = s.Ns
           /\ u.skippedKeys = s.skippedKeys \cup OldKeys(s, m)
                                  \cup Passed(m.dh, Received(s, m.dh), 0, m.n)
<1> DEFINE o == OldChainSkipped(s, m)
           d == DHRatchet(o, m.dh)
           r == ReadyFor(s, m)
<1>1. m.n \in Nat /\ m.pn \in Nat /\ m.dh \in Pairs
  BY MessageFields
<1>2. /\ o \in RatchetStates /\ o.RK = s.RK /\ o.DHs = s.DHs /\ o.Ns = s.Ns
      /\ o.skippedKeys = s.skippedKeys \cup OldKeys(s, m)
  <2>1. CASE s.CKr = NoChain
    BY <2>1 DEF OldChainSkipped, OldKeys
  <2>2. CASE s.CKr # NoChain
    <3> DEFINE sk == s.skippedKeys \cup Passed(s.DHr, s.CKr.root, s.Nr, m.pn)
               ck == [root |-> s.CKr.root, at |-> m.pn]
    <3>1. o = SkipMessageKeys(s, m.pn)
      BY <2>2 DEF OldChainSkipped
    <3>2. o = [s EXCEPT !.skippedKeys = sk, !.CKr = ck, !.Nr = m.pn]
      BY <1>1, <2>2, <3>1, SkipFields
    <3>3. o \in RatchetStates /\ o.RK = s.RK /\ o.DHs = s.DHs /\ o.Ns = s.Ns
      BY <1>1, <3>1, SkipKeeps
    <3>4. o.skippedKeys = sk
      <4> HIDE DEF sk, ck, o
      <4>1. QED
        BY <3>2 DEF RatchetStates
    <3>5. QED
      BY <2>2, <3>3, <3>4 DEF OldKeys
  <2>3. QED
    BY <2>1, <2>2
<1>3. Received(o, m.dh) = Received(s, m.dh) /\ Sending(o, m.dh) = Sending(s, m.dh)
      /\ Fresh(o) = Fresh(s)
  BY <1>2 DEF Received, Sending, Fresh
<1>4. r = SkipMessageKeys(d, m.n)
  BY DEF ReadyFor, NewKey
<1> HIDE DEF o
<1>5. /\ d \in RatchetStates
      /\ d.RK = Sending(s, m.dh) /\ d.CKs = [root |-> Sending(s, m.dh), at |-> 0]
      /\ d.DHs = Fresh(s) /\ d.DHr = m.dh /\ d.CKr = [root |-> Received(s, m.dh), at |-> 0]
      /\ d.Ns = 0 /\ d.Nr = 0 /\ d.PN = s.Ns
      /\ d.skippedKeys = s.skippedKeys \cup OldKeys(s, m)
  BY <1>1, <1>2, <1>3, RatchetFields
<1> HIDE DEF d
<1> DEFINE sk == s.skippedKeys \cup OldKeys(s, m) \cup Passed(m.dh, Received(s, m.dh), 0, m.n)
           ck == [root |-> Received(s, m.dh), at |-> m.n]
<1>6. r = [d EXCEPT !.skippedKeys = sk, !.CKr = ck, !.Nr = m.n]
  <2>1. d.CKr.at = d.Nr /\ d.Nr <= m.n /\ d.CKr.root = Received(s, m.dh)
    BY <1>1, <1>5
  <2>2. QED
    BY <1>1, <1>4, <1>5, <2>1, SkipFields
<1>7. r \in RatchetStates
  BY AfterTyped
<1>8. /\ r.RK = d.RK /\ r.CKs = d.CKs /\ r.DHs = d.DHs /\ r.DHr = d.DHr
      /\ r.CKr = ck /\ r.Ns = d.Ns /\ r.Nr = m.n /\ r.PN = d.PN /\ r.skippedKeys = sk
  <2> HIDE DEF r, sk, ck
  <2>1. QED
    BY <1>5, <1>6 DEF RatchetStates
<1>9. After(s, m) = [r EXCEPT !.CKr = NextCK(@), !.Nr = @ + 1]
  BY DEF After
<1>10. NextCK(ck) = [root |-> Received(s, m.dh), at |-> m.n + 1]
  BY DEF NextCK
<1> HIDE DEF r, ck, sk
<1> DEFINE u == After(s, m)
<1>11. /\ u.RK = r.RK /\ u.CKs = r.CKs /\ u.DHs = r.DHs /\ u.DHr = r.DHr
       /\ u.CKr = NextCK(r.CKr) /\ u.Ns = r.Ns /\ u.Nr = r.Nr + 1 /\ u.PN = r.PN
       /\ u.skippedKeys = r.skippedKeys
  BY <1>7, <1>9 DEF RatchetStates
<1>12. QED
  BY <1>5, <1>8, <1>10, <1>11 DEF r, ck, sk

-----------------------------------------------------------------------------
(* ratchetEncrypt keeps the invariant                                      *)

(* What ratchetEncrypt sends and what it leaves.                           *)
LEMMA EncryptFields ==
    ASSUME NEW p \in Parties, NEW s \in RatchetStates, NEW o,
           StateOK(p, s, o), s.CKs # NoChain
    PROVE  LET u == [s EXCEPT !.CKs = NextCK(@), !.Ns = @ + 1]
               e == Envelope(s)
           IN  /\ u \in RatchetStates /\ e \in Messages
               /\ u.RK = s.RK /\ u.CKs = [root |-> s.RK, at |-> s.Ns + 1]
               /\ u.CKr = s.CKr /\ u.DHs = s.DHs /\ u.DHr = s.DHr
               /\ u.Ns = s.Ns + 1 /\ u.Nr = s.Nr /\ u.PN = s.PN
               /\ u.skippedKeys = s.skippedKeys
               /\ e.dh = s.DHs /\ e.n = s.Ns /\ e.pn = s.PN
               /\ e.key.root = s.RK /\ e.key.at = s.Ns
               /\ Len(s.RK) # 0
<1>1. s.CKs \in ChainKeys /\ s.Ns \in Nat /\ s.DHs \in Pairs /\ s.PN \in Nat
  BY StateFields
<1>2. s.CKs = [root |-> s.RK, at |-> s.Ns] /\ Len(s.RK) # 0
  BY DEF StateOK
<1> DEFINE ck == NextCK(s.CKs)
           u == [s EXCEPT !.CKs = NextCK(@), !.Ns = @ + 1]
<1>3. ck = [root |-> s.RK, at |-> s.Ns + 1] /\ ck \in ChainKeys
  BY <1>1, <1>2, ChainKeyFacts
<1>4. u = [s EXCEPT !.CKs = ck, !.Ns = s.Ns + 1]
  BY DEF RatchetStates
<1>5. /\ u \in RatchetStates
      /\ u.RK = s.RK /\ u.CKs = ck
      /\ u.CKr = s.CKr /\ u.DHs = s.DHs /\ u.DHr = s.DHr
      /\ u.Ns = s.Ns + 1 /\ u.Nr = s.Nr /\ u.PN = s.PN
      /\ u.skippedKeys = s.skippedKeys
  <2>1. s.Ns + 1 \in Nat
    BY <1>1
  <2> HIDE DEF u, ck
  <2>2. QED
    BY <2>1, <1>3, <1>4 DEF RatchetStates
<1>6. Envelope(s) = [dh |-> s.DHs, n |-> s.Ns, pn |-> s.PN, key |-> s.CKs]
  BY DEF Envelope, MessageKey
<1>7. Envelope(s) \in Messages
  BY <1>1, <1>6 DEF Messages
<1>8. QED
  BY <1>2, <1>3, <1>5, <1>6, <1>7

(* The message takes the next position of its chain, and the peer's chain  *)
(* is not past it.                                                         *)
LEMMA EncryptKeeps ==
    ASSUME NEW p \in Parties, NEW s \in RatchetStates, NEW t \in RatchetStates,
           NEW o \in Seq(Messages), NEW oq \in Seq(Messages),
           NEW own \in SUBSET Messages, NEW theirs \in SUBSET Messages,
           PartyOK(p, s, t, o, own, theirs), PartyOK(Peer(p), t, s, oq, theirs, own),
           s.CKs # NoChain
    PROVE  LET u == [s EXCEPT !.CKs = NextCK(@), !.Ns = @ + 1]
               more == own \cup {Envelope(s)}
           IN  PartyOK(p, u, t, o, more, theirs) /\ PartyOK(Peer(p), t, u, oq, theirs, more)
<1> DEFINE u == [s EXCEPT !.CKs = NextCK(@), !.Ns = @ + 1]
           e == Envelope(s)
           more == own \cup {e}
           q == Peer(p)
<1>1. /\ StateOK(p, s, o) /\ SentOK(p, s, own) /\ KeptOK(p, s, o) /\ OpenedOK(p, s, o, theirs)
      /\ InTurn(p, s, t, theirs) /\ NothingMissing(p, s, o, theirs)
  BY DEF PartyOK
<1>2. /\ StateOK(q, t, oq) /\ SentOK(q, t, theirs) /\ KeptOK(q, t, oq) /\ OpenedOK(q, t, oq, own)
      /\ InTurn(q, t, s, own) /\ NothingMissing(q, t, oq, own)
  BY DEF PartyOK
<1>3. /\ u \in RatchetStates /\ e \in Messages
      /\ u.RK = s.RK /\ u.CKs = [root |-> s.RK, at |-> s.Ns + 1]
      /\ u.CKr = s.CKr /\ u.DHs = s.DHs /\ u.DHr = s.DHr
      /\ u.Ns = s.Ns + 1 /\ u.Nr = s.Nr /\ u.PN = s.PN
      /\ u.skippedKeys = s.skippedKeys
      /\ e.dh = s.DHs /\ e.n = s.Ns /\ e.pn = s.PN
      /\ e.key.root = s.RK /\ e.key.at = s.Ns
      /\ Len(s.RK) # 0
  BY <1>1, EncryptFields
<1> HIDE DEF u, e
<1>4. q \in Parties /\ q # p /\ Peer(q) = p
  BY PartyFacts
<1> HIDE DEF q
<1>5. Own(u) = Own(s) /\ Seen(p, u) = Seen(p, s)
  BY <1>3 DEF Own, Seen
<1>6. /\ s.Ns \in Nat /\ s.Nr \in Nat /\ s.PN \in Nat /\ s.RK \in Roots /\ s.DHs \in Pairs
      /\ t.Nr \in Nat /\ t.PN \in Nat /\ t.Ns \in Nat
  BY StateFields
<1>7. Own(s) \in Nat /\ Own(t) \in Nat /\ Seen(p, s) \in Int /\ Seen(q, t) \in Int
  BY <1>4, Turns
<1>8. \A m \in more : m \in Messages /\ (m \in own \/ m = e)
  BY <1>3
<1>9. \A m \in own : m.n \in Nat /\ m.dh \in Pairs /\ m.dh[2] \in Nat
  BY MessageFields, PairFacts
<1>10. s.DHs[1] = p /\ e.dh[2] = Own(s)
  BY <1>1, <1>3 DEF StateOK, Own
<1>11. StateOK(p, u, o)
  BY <1>1, <1>3, <1>5, <1>6 DEF StateOK
<1>12. SentOK(p, u, more)
  <2>1. ASSUME NEW m \in own, NEW l \in own, l.dh = m.dh
        PROVE  l.pn = m.pn /\ l.key.root = m.key.root
    BY <1>1, <2>1 DEF SentOK
  <2>2. ASSUME NEW m \in own, m.dh = e.dh
        PROVE  m.pn = e.pn /\ m.key.root = e.key.root
    BY <1>1, <1>3, <1>10, <2>2 DEF SentOK
  <2>3. ASSUME NEW m \in own
        PROVE  /\ m.dh[1] = p /\ m.dh[2] <= Own(u)
               /\ m.key.at = m.n
               /\ Len(m.key.root) = Place(p, m.dh[2]) /\ m.key.root # <<>>
               /\ m.dh[2] = Own(u) => m.n < u.Ns /\ m.pn = u.PN /\ m.key.root = u.RK
               /\ m.dh[2] = Own(u) - 1 => m.n < u.PN
    <3>1. m.dh[2] = Own(s) => m.n < s.Ns /\ m.pn = s.PN /\ m.key.root = s.RK
      BY <1>1 DEF SentOK
    <3>2. m.n < s.Ns => m.n < s.Ns + 1
      BY <1>6, <1>9
    <3>3. QED
      BY <1>1, <1>3, <1>5, <3>1, <3>2 DEF SentOK
  <2>4. /\ e.dh[1] = p /\ e.dh[2] <= Own(u)
        /\ e.key.at = e.n
        /\ Len(e.key.root) = Place(p, e.dh[2]) /\ e.key.root # <<>>
        /\ e.dh[2] = Own(u) => e.n < u.Ns /\ e.pn = u.PN /\ e.key.root = u.RK
        /\ e.dh[2] = Own(u) - 1 => e.n < u.PN
    <3>1. s.RK # <<>>
      BY <1>3, <1>6, RootLengths
    <3>2. Len(s.RK) = Place(p, Own(s))
      BY <1>1 DEF StateOK
    <3>3. QED
      BY <1>3, <1>5, <1>6, <1>7, <1>10, <3>1, <3>2
  <2>5. QED
    BY <1>8, <2>1, <2>2, <2>3, <2>4 DEF SentOK
<1>13. KeptOK(p, u, o)
  BY <1>1, <1>3, <1>5 DEF KeptOK
<1>14. OpenedOK(p, u, o, theirs)
  BY <1>1, <1>3, <1>5 DEF OpenedOK
<1>15. InTurn(p, u, t, theirs)
  BY <1>1, <1>3, <1>5 DEF InTurn
<1>16. NothingMissing(p, u, o, theirs)
  BY <1>1, <1>3, <1>5 DEF NothingMissing, SkippedFor
<1>17. OpenedOK(q, t, oq, more)
  BY <1>2 DEF OpenedOK
<1>18. InTurn(q, t, u, more)
  <2>1. Own(t) > 0 =>
            \A m \in more : m.dh[2] = Seen(q, t) => m.key.root = t.CKr.root
    BY <1>2, <1>3, <1>8, <1>10 DEF InTurn
  <2>2. Own(u) = Seen(q, t) /\ Own(t) > 0 => t.Nr <= u.Ns /\ t.CKr.root = u.RK
    <3>1. Own(s) = Seen(q, t) /\ Own(t) > 0 => t.Nr <= s.Ns /\ t.CKr.root = s.RK
      BY <1>2 DEF InTurn
    <3>2. QED
      BY <1>3, <1>5, <1>6, <3>1
  <2>3. QED
    BY <1>2, <1>3, <1>5, <2>1, <2>2 DEF InTurn
<1>19. NothingMissing(q, t, oq, more)
  <2>1. ~(e.dh[2] < Seen(q, t) \/ (e.dh[2] = Seen(q, t) /\ e.n < t.Nr))
    <3>1. Own(s) \in {Seen(q, t), Seen(q, t) + 1}
      BY <1>2 DEF InTurn
    <3>2. Own(s) = Seen(q, t) /\ Own(t) > 0 => t.Nr <= s.Ns
      BY <1>2 DEF InTurn
    <3>3. Own(t) = 0 => t.Nr = 0
      BY <1>2 DEF StateOK
    <3>4. QED
      BY <1>3, <1>6, <1>7, <1>10, <3>1, <3>2, <3>3
  <2>2. QED
    BY <1>2, <1>8, <2>1 DEF NothingMissing
<1>20. PartyOK(p, u, t, o, more, theirs)
  BY <1>11, <1>12, <1>13, <1>14, <1>15, <1>16 DEF PartyOK
<1>21. PartyOK(q, t, u, oq, theirs, more)
  BY <1>2, <1>17, <1>18, <1>19 DEF PartyOK
<1>22. QED
  BY <1>20, <1>21 DEF u, e, q

-----------------------------------------------------------------------------
(* ratchetDecrypt keeps the invariant                                      *)

(* A pair and a position make one message, and so does a key.              *)
LEMMA OneMessage ==
    ASSUME NEW q \in Parties, NEW t \in RatchetStates, NEW theirs \in SUBSET Messages,
           SentOK(q, t, theirs), NEW m \in theirs, NEW x \in theirs,
           \/ x.dh = m.dh /\ x.n = m.n
           \/ x.key = m.key
    PROVE  x = m
<1>1. /\ m \in Messages /\ x \in Messages
      /\ m.key.at = m.n /\ x.key.at = x.n
      /\ m.dh[1] = q /\ x.dh[1] = q
      /\ Len(m.key.root) = Place(q, m.dh[2]) /\ Len(x.key.root) = Place(q, x.dh[2])
      /\ x.dh = m.dh => x.pn = m.pn /\ x.key.root = m.key.root
  BY DEF SentOK
<1>2. /\ m.dh \in Pairs /\ x.dh \in Pairs /\ m.dh[2] \in Int /\ x.dh[2] \in Int
      /\ m.key \in ChainKeys /\ x.key \in ChainKeys
  BY <1>1, MessageFields, PairFacts
<1>3. x.dh = m.dh /\ x.n = m.n
  <2>1. CASE x.key = m.key
    <3>1. Place(q, x.dh[2]) = Place(q, m.dh[2])
      BY <1>1, <2>1
    <3>2. x.dh[2] = m.dh[2]
      BY <1>2, <3>1, PlacesDiffer
    <3>3. x.dh = m.dh
      BY <1>1, <1>2, <3>2, PairFacts
    <3>4. QED
      BY <1>1, <2>1, <3>3
  <2>2. QED
    BY <2>1
<1>4. x.key = m.key
  <2>1. x.key = [root |-> x.key.root, at |-> x.key.at] /\ m.key = [root |-> m.key.root, at |-> m.key.at]
    BY <1>2, ChainKeyFacts
  <2>2. QED
    BY <1>1, <1>3, <2>1
<1>5. QED
  BY <1>1, <1>3, <1>4, MessageFields

(* What of a party's state its peer's invariant speaks of.                 *)
LEMMA PeerKeeps ==
    ASSUME NEW q, NEW t, NEW s, NEW u, NEW oq, NEW theirs, NEW own,
           PartyOK(q, t, s, oq, theirs, own),
           u.RK = s.RK, u.DHs = s.DHs, u.Ns = s.Ns, u.PN = s.PN
    PROVE  PartyOK(q, t, u, oq, theirs, own)
<1>1. Own(u) = Own(s)
  BY DEF Own
<1>2. InTurn(q, t, s, own)
  BY DEF PartyOK
<1>3. InTurn(q, t, u, own)
  BY <1>1, <1>2 DEF InTurn
<1>4. QED
  BY <1>3 DEF PartyOK

(* A message whose key is kept was not opened before, and afterwards the   *)
(* key is gone.                                                            *)
LEMMA LateKeeps ==
    ASSUME NEW p \in Parties, NEW s \in RatchetStates, NEW t \in RatchetStates,
           NEW o \in Seq(Messages), NEW oq \in Seq(Messages),
           NEW own \in SUBSET Messages, NEW theirs \in SUBSET Messages,
           PartyOK(p, s, t, o, own, theirs), PartyOK(Peer(p), t, s, oq, theirs, own),
           NEW m \in theirs, NEW k0 \in SkippedFor(s, m), k0.key = m.key
    PROVE  /\ PartyOK(p, After(s, m), t, Append(o, m), own, theirs)
           /\ PartyOK(Peer(p), t, After(s, m), oq, theirs, own)
<1> DEFINE u == After(s, m)
           a == Append(o, m)
           q == Peer(p)
<1>1. /\ StateOK(p, s, o) /\ SentOK(p, s, own) /\ KeptOK(p, s, o) /\ OpenedOK(p, s, o, theirs)
      /\ InTurn(p, s, t, theirs) /\ NothingMissing(p, s, o, theirs)
  BY DEF PartyOK
<1>2. SentOK(q, t, theirs)
  BY DEF PartyOK
<1>3. m \in Messages
  OBVIOUS
<1>4. /\ u.RK = s.RK /\ u.CKs = s.CKs /\ u.DHs = s.DHs /\ u.DHr = s.DHr
      /\ u.CKr = s.CKr /\ u.Ns = s.Ns /\ u.Nr = s.Nr /\ u.PN = s.PN
      /\ u.skippedKeys = s.skippedKeys \ SkippedFor(s, m)
  BY AfterLate
<1> HIDE DEF u
<1>5. q \in Parties
  BY PartyFacts
<1> HIDE DEF q
<1>6. Own(u) = Own(s) /\ Seen(p, u) = Seen(p, s)
  BY <1>4 DEF Own, Seen
<1>7. k0 \in s.skippedKeys /\ k0.dh = m.dh /\ k0.n = m.n
  BY DEF SkippedFor
<1>8. /\ \A x \in In(o) : k0.key # x.key
      /\ m.dh[2] <= Seen(p, s)
      /\ m.dh[2] = Seen(p, s) => m.n < s.Nr
  BY <1>1, <1>7 DEF KeptOK
<1>9. m \notin In(o)
  BY <1>8
<1>10. /\ In(a) = In(o) \cup {m}
       /\ \A i, j \in 1 .. Len(a) : a[i] = a[j] => i = j
  BY <1>1, <1>3, <1>9, InAppend DEF OpenedOK
<1> HIDE DEF a
<1>11. StateOK(p, u, a)
  <2>1. Own(s) # 0
    BY <1>1, <1>7 DEF StateOK
  <2>2. QED
    BY <1>1, <1>4, <1>6, <2>1 DEF StateOK
<1>12. SentOK(p, u, own)
  BY <1>1, <1>4, <1>6 DEF SentOK
<1>13. KeptOK(p, u, a)
  <2>1. ASSUME NEW k \in u.skippedKeys PROVE k.key # m.key
    <3>1. SUFFICES ASSUME k.key = m.key PROVE FALSE
      OBVIOUS
    <3>2. k \in s.skippedKeys /\ k \notin SkippedFor(s, m)
      BY <1>4
    <3>3. /\ k.dh[1] = q /\ k.key.at = k.n /\ Len(k.key.root) = Place(q, k.dh[2])
      BY <1>1, <3>2 DEF KeptOK, q
    <3>4. /\ m.dh[1] = q /\ m.key.at = m.n /\ Len(m.key.root) = Place(q, m.dh[2])
      BY <1>2 DEF SentOK
    <3>5. k \in SkippedKeys
      BY <3>2, StateFields
    <3>6. k.dh \in Pairs /\ m.dh \in Pairs
      BY <1>3, <3>5, MessageFields DEF SkippedKeys
    <3>7. k.dh[2] \in Int /\ m.dh[2] \in Int
      BY <3>6, PairFacts
    <3>8. k.dh[2] = m.dh[2]
      BY <1>5, <3>1, <3>3, <3>4, <3>7, PlacesDiffer
    <3>9. k.dh = m.dh
      BY <3>3, <3>4, <3>6, <3>8, PairFacts
    <3>10. QED
      BY <3>1, <3>2, <3>3, <3>4, <3>9 DEF SkippedFor
  <2>2. \A k \in u.skippedKeys : k \in s.skippedKeys
    BY <1>4
  <2>3. QED
    BY <1>1, <1>4, <1>6, <1>10, <2>1, <2>2 DEF KeptOK
<1>14. OpenedOK(p, u, a, theirs)
  BY <1>1, <1>4, <1>6, <1>8, <1>10 DEF OpenedOK
<1>15. InTurn(p, u, t, theirs)
  BY <1>1, <1>4, <1>6 DEF InTurn
<1>16. NothingMissing(p, u, a, theirs)
  <2>1. SUFFICES ASSUME NEW x \in theirs,
                        x.dh[2] < Seen(p, s) \/ (x.dh[2] = Seen(p, s) /\ x.n < s.Nr),
                        x \notin In(o), x # m
                 PROVE  \E k \in SkippedFor(u, x) : k.key = x.key
    BY <1>4, <1>6, <1>10 DEF NothingMissing
  <2>2. PICK k \in SkippedFor(s, x) : k.key = x.key
    BY <1>1, <2>1 DEF NothingMissing
  <2>3. k \notin SkippedFor(s, m)
    <3>1. SUFFICES ASSUME k \in SkippedFor(s, m) PROVE FALSE
      OBVIOUS
    <3>2. x.dh = m.dh /\ x.n = m.n
      BY <2>2, <3>1 DEF SkippedFor
    <3>3. QED
      BY <1>2, <1>5, <2>1, <3>2, OneMessage
  <2>4. QED
    BY <1>4, <2>2, <2>3 DEF SkippedFor
<1>17. PartyOK(p, u, t, a, own, theirs)
  BY <1>11, <1>12, <1>13, <1>14, <1>15, <1>16 DEF PartyOK
<1>18. PartyOK(q, t, u, oq, theirs, own)
  BY <1>4, PeerKeeps DEF q
<1>19. QED
  BY <1>17, <1>18 DEF u, a, q

(* A message of the peer's pair that a party received with last is of the  *)
(* party's receiving chain.                                                *)
LEMMA OnChain ==
    ASSUME NEW p \in Parties, NEW s \in RatchetStates, NEW t \in RatchetStates,
           NEW o, NEW theirs \in SUBSET Messages,
           StateOK(p, s, o), InTurn(p, s, t, theirs), SentOK(Peer(p), t, theirs),
           NEW m \in theirs
    PROVE  /\ m.dh = s.DHr <=> m.dh[2] = Seen(p, s)
           /\ m.dh[2] = Seen(p, s) =>
                  Own(s) > 0 /\ s.CKr.at = s.Nr /\ m.key.root = s.CKr.root
<1> DEFINE q == Peer(p)
<1>1. /\ m.dh[1] = q /\ Len(m.key.root) = Place(q, m.dh[2]) /\ m.key.root # <<>>
  BY DEF SentOK
<1>2. m.dh \in Pairs /\ m.dh[2] \in Nat /\ m.key.root \in Roots
  BY MessageFields, PairFacts, ChainKeyFacts
<1>3. Place(q, m.dh[2]) # 0
  BY <1>1, <1>2, RootLengths
<1>4. Own(s) \in Nat /\ Seen(p, s) \in Int
  BY Turns
<1>5. CASE Own(s) = 0
  <2>1. s.DHr = IF p = "initiator" THEN SignedPreKey ELSE NoPair
    BY <1>5 DEF StateOK
  <2>2. CASE p = "initiator"
    <3>1. Seen(p, s) = 0 /\ q = "responder"
      BY <1>5, <2>2 DEF Seen, Peer
    <3>2. m.dh[2] # 0
      BY <1>2, <1>3, <3>1 DEF Place
    <3>3. s.DHr[2] = 0
      BY <2>1, <2>2 DEF SignedPreKey
    <3>4. QED
      BY <3>1, <3>2, <3>3
  <2>3. CASE p # "initiator"
    <3>1. Seen(p, s) = 0 - 1
      BY <1>5, <2>3 DEF Seen
    <3>2. s.DHr[1] = "none"
      BY <2>1, <2>3 DEF NoPair
    <3>3. q # "none"
      BY PartyFacts
    <3>4. m.dh # s.DHr
      BY <1>1, <3>2, <3>3
    <3>5. m.dh[2] # Seen(p, s)
      BY <1>2, <3>1
    <3>6. QED
      BY <3>4, <3>5
  <2>4. QED
    BY <2>2, <2>3
<1>6. CASE Own(s) > 0
  <2>1. s.DHr = <<q, Seen(p, s)>> /\ s.CKr.at = s.Nr
    BY <1>6 DEF StateOK
  <2>2. m.dh = <<m.dh[1], m.dh[2]>>
    BY <1>2, PairFacts
  <2>3. m.dh[2] = Seen(p, s) => m.key.root = s.CKr.root
    BY <1>6 DEF InTurn
  <2>4. QED
    BY <1>1, <1>6, <2>1, <2>2, <2>3
<1>7. QED
  BY <1>4, <1>5, <1>6

(* A message of the peer's next pair: the two ends make the same root key, *)
(* and its pn is the end of the chain before.                              *)
LEMMA OnNextChain ==
    ASSUME NEW p \in Parties, NEW s \in RatchetStates, NEW t \in RatchetStates,
           NEW o, NEW theirs \in SUBSET Messages,
           StateOK(p, s, o), InTurn(p, s, t, theirs), SentOK(Peer(p), t, theirs),
           t.DHs[1] = Peer(p),
           NEW m \in theirs, m.dh[2] = Seen(p, s) + 1
    PROVE  /\ Own(t) = Seen(p, s) + 1
           /\ m.dh = t.DHs /\ m.pn = t.PN /\ m.n < t.Ns
           /\ m.key.root = t.RK /\ t.RK = Received(s, m.dh)
           /\ s.Nr <= m.pn
           /\ s.CKr # NoChain => s.CKr.at = s.Nr
           /\ s.CKr = NoChain <=> Own(s) = 0
           /\ m.dh # s.DHr
<1> DEFINE q == Peer(p)
<1>1. q \in Parties
  BY PartyFacts
<1>2. Own(s) \in Nat /\ Own(t) \in Nat /\ Seen(p, s) \in Int
  BY Turns
<1>3. /\ m.dh[1] = q /\ m.dh[2] <= Own(t)
      /\ m.dh[2] = Own(t) => m.n < t.Ns /\ m.pn = t.PN /\ m.key.root = t.RK
  BY DEF SentOK
<1>4. Own(t) = Seen(p, s) + 1
  <2>1. Own(t) \in {Seen(p, s), Seen(p, s) + 1}
    BY DEF InTurn
  <2>2. QED
    BY <1>2, <1>3, <2>1
<1>5. m.dh \in Pairs /\ t.DHs \in Pairs
  BY MessageFields, StateFields
<1>6. t.DHs[1] = q
  OBVIOUS
<1>7. m.dh = t.DHs
  BY <1>3, <1>4, <1>5, <1>6, PairFacts DEF Own
<1>8. s.Nr <= t.PN /\ t.RK = NewRK(s.RK, s.DHs, t.DHs)
  BY <1>4 DEF InTurn
<1>9. s.CKr # NoChain => s.CKr.at = s.Nr
  <2>1. Own(s) = 0 \/ Own(s) > 0
    BY <1>2
  <2>2. QED
    BY <2>1 DEF StateOK
<1>10. s.CKr = NoChain <=> Own(s) = 0
  <2>1. CASE Own(s) = 0
    BY <2>1 DEF StateOK
  <2>2. CASE Own(s) > 0
    <3>1. Len(s.CKr.root) = Place(q, Seen(p, s))
      BY <2>2 DEF StateOK
    <3>2. Place(q, Seen(p, s)) # 0
      BY <1>2, <2>2 DEF Place, Seen, Peer
    <3>3. Len(NoChain.root) = 0
      BY DEF NoChain
    <3>4. s.CKr # NoChain
      BY <3>1, <3>2, <3>3
    <3>5. QED
      BY <1>2, <2>2, <3>4
  <2>3. QED
    BY <1>2, <2>1, <2>2
<1>11. m.dh # s.DHr
  <2>1. m.dh[2] # Seen(p, s)
    BY <1>2
  <2>2. QED
    BY <2>1, OnChain
<1>12. QED
  BY <1>3, <1>4, <1>7, <1>8, <1>9, <1>10, <1>11 DEF Received

(* A message that opens without a kept key is of the receiving chain and   *)
(* not behind it, or of the peer's next pair.                              *)
LEMMA WhereItOpens ==
    ASSUME NEW p \in Parties, NEW s \in RatchetStates, NEW t \in RatchetStates,
           NEW o, NEW theirs \in SUBSET Messages,
           StateOK(p, s, o), InTurn(p, s, t, theirs), SentOK(Peer(p), t, theirs),
           NEW m \in theirs, Opens(s, m), SkippedFor(s, m) = {}
    PROVE  \/ m.dh[2] = Seen(p, s) /\ s.Nr <= m.n
           \/ m.dh[2] = Seen(p, s) + 1
<1> DEFINE q == Peer(p)
<1>1. ReadyFor(s, m).CKr = m.key
  BY DEF Opens, MessageKey
<1>2. m \in Messages /\ q \in Parties
  BY PartyFacts
<1>3. m.n \in Nat /\ m.dh \in Pairs /\ s.Nr \in Nat /\ s.RK \in Roots /\ s.DHs \in Pairs
  BY <1>2, MessageFields, StateFields
<1>4. m.dh[2] \in Int
  BY <1>3, PairFacts
<1>5. m.key.at = m.n /\ Len(m.key.root) = Place(q, m.dh[2])
  BY DEF SentOK
<1>6. CASE m.dh = s.DHr
  <2>1. m.dh[2] = Seen(p, s) /\ s.CKr.at = s.Nr
    BY <1>6, OnChain
  <2>2. ~(m.n < s.Nr)
    <3>1. SUFFICES ASSUME m.n < s.Nr PROVE FALSE
      OBVIOUS
    <3>2. s.CKr = m.key
      BY <1>1, <1>2, <1>6, <3>1, ReadyChain
    <3>3. QED
      BY <1>3, <1>5, <2>1, <3>1, <3>2
  <2>3. QED
    BY <1>3, <2>1, <2>2
<1>7. CASE m.dh # s.DHr
  <2>1. m.key.root = Received(s, m.dh)
    BY <1>1, <1>2, <1>7, ReadyChain
  <2>2. Len(m.key.root) = Len(s.RK) + 1
    BY <1>3, <2>1, RootGrows DEF Received
  <2>3. Len(s.RK) = Place(p, Own(s))
    BY DEF StateOK
  <2>4. Place(p, Own(s)) + 1 = Place(q, Seen(p, s) + 1) /\ Seen(p, s) + 1 \in Int
    BY Turns
  <2>5. m.dh[2] = Seen(p, s) + 1
    <3>1. Place(q, m.dh[2]) = Place(q, Seen(p, s) + 1)
      BY <1>5, <2>2, <2>3, <2>4
    <3> DEFINE i == m.dh[2]
               j == Seen(p, s) + 1
    <3>2. q \in Parties /\ i \in Int /\ j \in Int /\ Place(q, i) = Place(q, j)
      BY <1>2, <1>4, <2>4, <3>1
    <3> HIDE DEF q, i, j
    <3>3. i = j
      BY <3>2, PlacesDiffer
    <3>4. QED
      BY <3>3 DEF i, j
  <2>6. QED
    BY <2>5
<1>8. QED
  BY <1>6, <1>7

(* A message of the receiving chain: the keys it passes over are kept, its *)
(* own is neither kept nor derived again.                                  *)
LEMMA OnChainKeeps ==
    ASSUME NEW p \in Parties, NEW s \in RatchetStates, NEW t \in RatchetStates,
           NEW o \in Seq(Messages), NEW oq \in Seq(Messages),
           NEW own \in SUBSET Messages, NEW theirs \in SUBSET Messages,
           PartyOK(p, s, t, o, own, theirs), PartyOK(Peer(p), t, s, oq, theirs, own),
           NEW m \in theirs, SkippedFor(s, m) = {},
           m.dh[2] = Seen(p, s), s.Nr <= m.n
    PROVE  /\ PartyOK(p, After(s, m), t, Append(o, m), own, theirs)
           /\ PartyOK(Peer(p), t, After(s, m), oq, theirs, own)
<1> DEFINE u == After(s, m)
           a == Append(o, m)
           q == Peer(p)
           passed == Passed(s.DHr, s.CKr.root, s.Nr, m.n)
<1>1. /\ StateOK(p, s, o) /\ SentOK(p, s, own) /\ KeptOK(p, s, o) /\ OpenedOK(p, s, o, theirs)
      /\ InTurn(p, s, t, theirs) /\ NothingMissing(p, s, o, theirs)
  BY DEF PartyOK
<1>2. SentOK(q, t, theirs) /\ StateOK(q, t, oq)
  BY DEF PartyOK
<1>3. m \in Messages
  OBVIOUS
<1>4. q \in Parties
  BY PartyFacts
<1>5. m.dh = s.DHr /\ Own(s) > 0 /\ s.CKr.at = s.Nr /\ m.key.root = s.CKr.root
  BY <1>1, <1>2, OnChain
<1>6. /\ m.n \in Nat /\ s.Nr \in Nat /\ s.DHr \in Pairs /\ s.CKr \in ChainKeys
      /\ s.CKr.root \in Roots /\ s.skippedKeys \in SUBSET SkippedKeys /\ t.Ns \in Nat
      /\ t.PN \in Nat
  BY <1>3, MessageFields, StateFields, ChainKeyFacts
<1>7. /\ u.RK = s.RK /\ u.CKs = s.CKs /\ u.DHs = s.DHs /\ u.DHr = s.DHr
      /\ u.CKr = [root |-> s.CKr.root, at |-> m.n + 1]
      /\ u.Ns = s.Ns /\ u.Nr = m.n + 1 /\ u.PN = s.PN
      /\ u.skippedKeys = s.skippedKeys \cup passed
  BY <1>5, AfterOnChain
<1>8. /\ \A k \in passed : /\ k.dh = s.DHr /\ k.n \in Nat /\ s.Nr <= k.n /\ k.n < m.n
                           /\ k.key.root = s.CKr.root /\ k.key.at = k.n
      /\ \A n \in Nat : s.Nr <= n /\ n < m.n =>
             [dh |-> s.DHr, n |-> n, key |-> [root |-> s.CKr.root, at |-> n]] \in passed
  BY <1>6, PassedFacts
<1> HIDE DEF u, q, passed
<1>9. Own(u) = Own(s) /\ Seen(p, u) = Seen(p, s)
  BY <1>7 DEF Own, Seen
<1>10. Own(s) \in Nat /\ Own(t) \in Nat /\ Seen(p, s) \in Int
  BY Turns
<1>11. \A x \in theirs : /\ x \in Messages /\ x.n \in Nat /\ x.dh[2] \in Nat
                         /\ x.key.at = x.n /\ x.dh[1] = q
                         /\ Len(x.key.root) = Place(q, x.dh[2])
  BY <1>2, MessageFields, PairFacts DEF SentOK
<1>12. \A x \in In(o) : /\ x \in theirs
                        /\ x.dh[2] <= Seen(p, s)
                        /\ x.dh[2] = Seen(p, s) => x.n < s.Nr
  BY <1>1 DEF OpenedOK
<1>13. m \notin In(o)
  BY <1>6, <1>12
<1>14. /\ In(a) = In(o) \cup {m} /\ a # <<>>
       /\ \A i, j \in 1 .. Len(a) : a[i] = a[j] => i = j
  BY <1>1, <1>3, <1>13, InAppend DEF OpenedOK
<1> HIDE DEF a
<1>15. StateOK(p, u, a)
  BY <1>1, <1>5, <1>7, <1>9 DEF StateOK
<1>16. SentOK(p, u, own)
  BY <1>1, <1>7, <1>9 DEF SentOK
<1>17. KeptOK(p, u, a)
  <2>1. ASSUME NEW k \in s.skippedKeys
        PROVE  /\ k.dh[1] = q /\ k.dh[2] <= Seen(p, s) /\ k.key.at = k.n
               /\ Len(k.key.root) = Place(q, k.dh[2])
               /\ k.dh[2] = Seen(p, s) => k.n < u.Nr
               /\ \A x \in In(a) : k.key # x.key
    <3>1. /\ k.dh[1] = q /\ k.dh[2] <= Seen(p, s) /\ k.key.at = k.n
          /\ Len(k.key.root) = Place(q, k.dh[2])
          /\ k.dh[2] = Seen(p, s) => k.n < s.Nr
          /\ \A x \in In(o) : k.key # x.key
      BY <1>1 DEF KeptOK, q
    <3>2. k \in SkippedKeys
      BY <1>6
    <3>3. k.n \in Nat /\ k.dh \in Pairs
      BY <3>2 DEF SkippedKeys
    <3>4. k.dh[2] \in Int
      BY <3>3, PairFacts
    <3>5. k.key # m.key
      <4>1. SUFFICES ASSUME k.key = m.key PROVE FALSE
        OBVIOUS
      <4>2. k.n = m.n /\ Place(q, k.dh[2]) = Place(q, m.dh[2])
        BY <1>11, <3>1, <4>1
      <4>3. k.dh[2] = m.dh[2]
        BY <1>4, <1>11, <3>4, <4>2, PlacesDiffer
      <4>4. QED
        BY <1>6, <3>1, <3>3, <4>2, <4>3
    <3>6. k.n < s.Nr => k.n < u.Nr
      BY <1>6, <1>7, <3>3
    <3>7. QED
      BY <1>14, <3>1, <3>5, <3>6
  <2>2. ASSUME NEW k \in passed
        PROVE  /\ k.dh[1] = q /\ k.dh[2] <= Seen(p, s) /\ k.key.at = k.n
               /\ Len(k.key.root) = Place(q, k.dh[2])
               /\ k.dh[2] = Seen(p, s) => k.n < u.Nr
               /\ \A x \in In(a) : k.key # x.key
    <3>1. /\ k.dh = m.dh /\ k.n \in Nat /\ s.Nr <= k.n /\ k.n < m.n
          /\ k.key.root = m.key.root /\ k.key.at = k.n
      BY <1>5, <1>8
    <3>2. ASSUME NEW x \in In(o) PROVE k.key # x.key
      <4>1. SUFFICES ASSUME k.key = x.key PROVE FALSE
        OBVIOUS
      <4>2. x \in theirs
        BY <1>12
      <4>3. x.n = k.n /\ Place(q, x.dh[2]) = Place(q, m.dh[2])
        BY <1>11, <3>1, <4>1, <4>2
      <4>4. x.dh[2] = m.dh[2]
        BY <1>4, <1>11, <4>2, <4>3, PlacesDiffer
      <4>5. QED
        BY <1>6, <1>12, <3>1, <4>3, <4>4
    <3>3. k.key # m.key
      BY <1>6, <1>11, <3>1
    <3>4. k.n < u.Nr
      BY <1>6, <1>7, <3>1
    <3>5. k.dh[2] <= Seen(p, s)
      BY <1>10, <3>1
    <3>6. QED
      BY <1>11, <1>14, <3>1, <3>2, <3>3, <3>4, <3>5
  <2>3. QED
    BY <1>7, <1>9, <2>1, <2>2 DEF KeptOK, q
<1>18. OpenedOK(p, u, a, theirs)
  <2>1. m.n < u.Nr /\ m.dh[2] <= Seen(p, s)
    BY <1>6, <1>7, <1>10
  <2>2. ASSUME NEW x \in In(o) PROVE x.dh[2] = Seen(p, s) => x.n < u.Nr
    BY <1>6, <1>7, <1>11, <1>12
  <2>3. QED
    BY <1>9, <1>12, <1>14, <2>1, <2>2 DEF OpenedOK
<1>19. InTurn(p, u, t, theirs)
  <2>1. /\ m.dh[2] = Own(t) => m.n < t.Ns
        /\ m.dh[2] = Own(t) - 1 => m.n < t.PN
    BY <1>2 DEF SentOK
  <2>2. Own(t) = Seen(p, s) => u.Nr <= t.Ns
    BY <1>6, <1>7, <2>1
  <2>3. Own(t) = Seen(p, s) + 1 => u.Nr <= t.PN
    BY <1>6, <1>7, <1>10, <2>1
  <2>4. u.CKr.root = s.CKr.root
    BY <1>7
  <2>5. QED
    BY <1>1, <1>7, <1>9, <2>2, <2>3, <2>4 DEF InTurn
<1>20. NothingMissing(p, u, a, theirs)
  <2>1. SUFFICES ASSUME NEW x \in theirs,
                        x.dh[2] < Seen(p, s) \/ (x.dh[2] = Seen(p, s) /\ x.n < u.Nr),
                        x \notin In(o), x # m
                 PROVE  \E k \in SkippedFor(u, x) : k.key = x.key
    BY <1>9, <1>14 DEF NothingMissing
  <2>2. CASE x.dh[2] < Seen(p, s) \/ x.n < s.Nr
    <3>1. x.dh[2] < Seen(p, s) \/ (x.dh[2] = Seen(p, s) /\ x.n < s.Nr)
      BY <2>1, <2>2
    <3>2. PICK k \in SkippedFor(s, x) : k.key = x.key
      BY <1>1, <2>1, <3>1 DEF NothingMissing
    <3>3. QED
      BY <1>7, <3>2 DEF SkippedFor
  <2>3. CASE x.dh[2] = Seen(p, s) /\ s.Nr <= x.n
    <3>1. x.dh = s.DHr /\ x.key.root = s.CKr.root
      BY <1>1, <1>2, <2>3, OnChain DEF q
    <3>2. x.n # m.n
      BY <1>2, <1>4, <1>5, <2>1, <3>1, OneMessage
    <3>3. x.n \in Nat /\ x.n < m.n
      BY <1>6, <1>7, <1>11, <2>1, <2>3, <3>2
    <3> DEFINE k == [dh |-> s.DHr, n |-> x.n, key |-> [root |-> s.CKr.root, at |-> x.n]]
    <3>4. k \in u.skippedKeys
      BY <1>7, <1>8, <2>3, <3>3
    <3>5. x.key = [root |-> x.key.root, at |-> x.key.at]
      BY <1>11, MessageFields, ChainKeyFacts
    <3>6. k.key = x.key
      BY <1>11, <3>1, <3>5
    <3>7. k \in SkippedFor(u, x)
      BY <3>1, <3>4 DEF SkippedFor
    <3>8. QED
      BY <3>6, <3>7
  <2>4. QED
    BY <1>6, <1>11, <2>1, <2>2, <2>3
<1>21. PartyOK(p, u, t, a, own, theirs)
  BY <1>15, <1>16, <1>17, <1>18, <1>19, <1>20 DEF PartyOK
<1>22. PartyOK(q, t, u, oq, theirs, own)
  BY <1>7, PeerKeeps DEF q
<1>23. QED
  BY <1>21, <1>22 DEF u, a, q

(* A message of the peer's next pair: what is left of the old chain and    *)
(* what is passed over of the new one is kept, and the turn goes on.       *)
LEMMA NextChainKeeps ==
    ASSUME NEW p \in Parties, NEW s \in RatchetStates, NEW t \in RatchetStates,
           NEW o \in Seq(Messages), NEW oq \in Seq(Messages),
           NEW own \in SUBSET Messages, NEW theirs \in SUBSET Messages,
           PartyOK(p, s, t, o, own, theirs), PartyOK(Peer(p), t, s, oq, theirs, own),
           NEW m \in theirs, SkippedFor(s, m) = {}, m.dh[2] = Seen(p, s) + 1
    PROVE  /\ PartyOK(p, After(s, m), t, Append(o, m), own, theirs)
           /\ PartyOK(Peer(p), t, After(s, m), oq, theirs, own)
<1> DEFINE u == After(s, m)
           a == Append(o, m)
           q == Peer(p)
           old == OldKeys(s, m)
           new == Passed(m.dh, Received(s, m.dh), 0, m.n)
<1>1. /\ StateOK(p, s, o) /\ SentOK(p, s, own) /\ KeptOK(p, s, o) /\ OpenedOK(p, s, o, theirs)
      /\ InTurn(p, s, t, theirs) /\ NothingMissing(p, s, o, theirs)
  BY DEF PartyOK
<1>2. SentOK(q, t, theirs) /\ StateOK(q, t, oq) /\ InTurn(q, t, s, own)
  BY DEF PartyOK
<1>3. m \in Messages
  OBVIOUS
<1>4. q \in Parties /\ q # p /\ Peer(q) = p
  BY PartyFacts
<1>5. /\ Own(t) = Seen(p, s) + 1
      /\ m.dh = t.DHs /\ m.pn = t.PN /\ m.n < t.Ns
      /\ m.key.root = t.RK /\ t.RK = Received(s, m.dh)
      /\ s.Nr <= m.pn
      /\ s.CKr # NoChain => s.CKr.at = s.Nr
      /\ s.CKr = NoChain <=> Own(s) = 0
      /\ m.dh # s.DHr
  <2>1. t.DHs[1] = q
    BY <1>2 DEF StateOK
  <2>2. QED
    BY <1>1, <1>2, <2>1, OnNextChain
<1>6. /\ m.n \in Nat /\ m.pn \in Nat /\ m.dh \in Pairs
      /\ s.Nr \in Nat /\ s.Ns \in Nat /\ s.DHr \in Pairs /\ s.DHs \in Pairs
      /\ s.RK \in Roots /\ s.CKr \in ChainKeys
      /\ s.CKr.root \in Roots /\ s.skippedKeys \in SUBSET SkippedKeys /\ t.Ns \in Nat
      /\ t.PN \in Nat /\ t.RK \in Roots /\ t.Nr \in Nat
  BY <1>3, MessageFields, StateFields, ChainKeyFacts
<1>7. /\ u.RK = Sending(s, m.dh) /\ u.CKs = [root |-> Sending(s, m.dh), at |-> 0]
      /\ u.DHs = Fresh(s) /\ u.DHr = m.dh
      /\ u.CKr = [root |-> Received(s, m.dh), at |-> m.n + 1]
      /\ u.Ns = 0 /\ u.Nr = m.n + 1 /\ u.PN = s.Ns
      /\ u.skippedKeys = s.skippedKeys \cup old \cup new
  BY <1>5, AfterNewChain
<1>8. /\ Own(s) \in Nat /\ Own(t) \in Nat /\ Seen(p, s) \in Int
      /\ Own(s) = Seen(q, t)
      /\ Place(p, Own(s)) + 1 = Place(q, Seen(p, s) + 1)
      /\ Place(p, Own(s)) + 2 = Place(p, Own(s) + 1)
  BY <1>5, Turns
<1>9. s.DHs[1] = p /\ Len(s.RK) = Place(p, Own(s))
  BY <1>1 DEF StateOK
<1>10. /\ Own(u) = Own(s) + 1 /\ Seen(p, u) = Seen(p, s) + 1
       /\ u.DHs[1] = p /\ u.DHs \in Pairs
  <2>1. u.DHs = <<p, Own(s) + 1>>
    BY <1>7, <1>9 DEF Fresh, Own
  <2>2. u.DHs \in Pairs
    BY <1>6, <1>7, RatchetFields
  <2>3. Own(u) = Own(s) + 1
    BY <2>1 DEF Own
  <2>4. QED
    BY <1>8, <2>1, <2>2, <2>3 DEF Seen
<1>11. /\ Len(Sending(s, m.dh)) = Place(p, Own(u))
       /\ Len(Received(s, m.dh)) = Place(q, Seen(p, u))
       /\ Sending(s, m.dh) = NewRK(t.RK, t.DHs, u.DHs)
       /\ Received(s, m.dh) \in Roots
  <2>1. /\ Received(s, m.dh) \in Roots /\ Len(Received(s, m.dh)) = Len(s.RK) + 1
    BY <1>6, RootGrows DEF Received
  <2>2. Fresh(s) \in Pairs
    BY <1>7, <1>10
  <2>3. Len(Sending(s, m.dh)) = Len(Received(s, m.dh)) + 1
    BY <1>6, <2>1, <2>2, RootGrows DEF Sending
  <2>4. Sending(s, m.dh) = NewRK(t.RK, u.DHs, t.DHs)
    BY <1>5, <1>7 DEF Sending
  <2>5. NewRK(t.RK, u.DHs, t.DHs) = NewRK(t.RK, t.DHs, u.DHs)
    BY <1>6, <1>5, <1>10, RootGrows
  <2>6. Len(s.RK) \in Nat
    BY <1>6, RootLengths
  <2>7. QED
    BY <1>8, <1>9, <1>10, <2>1, <2>3, <2>4, <2>5, <2>6
<1>12. /\ \A k \in new : /\ k.dh = m.dh /\ k.n \in Nat /\ k.n < m.n
                         /\ k.key.root = m.key.root /\ k.key.at = k.n
       /\ \A n \in Nat : n < m.n =>
              [dh |-> m.dh, n |-> n, key |-> [root |-> m.key.root, at |-> n]] \in new
  BY <1>5, <1>6, <1>11, PassedFacts
<1>13. /\ \A k \in old : /\ Own(s) > 0
                         /\ k.dh = s.DHr /\ k.n \in Nat /\ s.Nr <= k.n /\ k.n < m.pn
                         /\ k.key.root = s.CKr.root /\ k.key.at = k.n
       /\ Own(s) > 0 => \A n \in Nat : s.Nr <= n /\ n < m.pn =>
              [dh |-> s.DHr, n |-> n, key |-> [root |-> s.CKr.root, at |-> n]] \in old
  <2>1. CASE s.CKr = NoChain
    BY <1>5, <1>8, <2>1 DEF OldKeys
  <2>2. CASE s.CKr # NoChain
    <3>1. Own(s) > 0
      BY <1>5, <1>8, <2>2
    <3>2. old = Passed(s.DHr, s.CKr.root, s.Nr, m.pn)
      BY <2>2 DEF OldKeys
    <3>3. QED
      BY <1>6, <3>1, <3>2, PassedFacts
  <2>3. QED
    BY <2>1, <2>2
<1> HIDE DEF u, q, old, new
<1>14. \A x \in theirs : /\ x \in Messages /\ x.n \in Nat /\ x.dh[2] \in Nat
                         /\ x.key.at = x.n /\ x.dh[1] = q
                         /\ Len(x.key.root) = Place(q, x.dh[2])
                         /\ x.dh[2] <= Own(t)
  BY <1>2, MessageFields, PairFacts DEF SentOK
<1>15. \A x \in In(o) : /\ x \in theirs
                        /\ x.dh[2] <= Seen(p, s)
                        /\ x.dh[2] = Seen(p, s) => x.n < s.Nr
  BY <1>1 DEF OpenedOK
<1>16. m \notin In(o)
  BY <1>8, <1>15
<1>17. /\ In(a) = In(o) \cup {m} /\ a # <<>>
       /\ \A i, j \in 1 .. Len(a) : a[i] = a[j] => i = j
  BY <1>1, <1>3, <1>16, InAppend DEF OpenedOK
<1> HIDE DEF a
<1>18. StateOK(p, u, a)
  <2>1. Own(u) > 0 /\ Len(u.RK) # 0
    <3>1. Own(u) > 0
      BY <1>8, <1>10
    <3>2. Place(p, Own(u)) # 0
      BY <3>1, <1>8, <1>10 DEF Place
    <3>3. QED
      BY <1>7, <1>11, <3>1, <3>2
  <2>2. u.DHr = <<q, Seen(p, u)>>
    <3>1. m.dh = <<m.dh[1], m.dh[2]>>
      BY <1>6, PairFacts
    <3>2. m.dh[1] = q
      BY <1>14
    <3>3. QED
      BY <1>7, <1>10, <3>1, <3>2
  <2>3. u.CKr.at = u.Nr /\ Len(u.CKr.root) = Place(q, Seen(p, u))
    BY <1>7, <1>11
  <2>4. u.CKs = [root |-> u.RK, at |-> u.Ns] /\ Len(u.RK) = Place(p, Own(u))
    BY <1>7, <1>11
  <2>5. QED
    BY <1>10, <2>1, <2>2, <2>3, <2>4 DEF StateOK, q
<1>19. SentOK(p, u, own)
  <2>1. \A x \in own : x.dh[2] \in Nat /\ x.dh[2] <= Own(s)
    BY <1>1, MessageFields, PairFacts DEF SentOK
  <2>2. \A x \in own : x.dh[2] # Own(u) /\ x.dh[2] <= Own(u)
    BY <1>8, <1>10, <2>1
  <2>3. \A x \in own : x.dh[2] = Own(u) - 1 => x.n < u.PN
    <3>1. Own(u) - 1 = Own(s)
      BY <1>8, <1>10
    <3>2. QED
      BY <1>1, <1>7, <3>1 DEF SentOK
  <2>4. QED
    BY <1>1, <2>2, <2>3 DEF SentOK
<1>20. KeptOK(p, u, a)
  <2>1. ASSUME NEW k \in s.skippedKeys
        PROVE  /\ k.dh[1] = q /\ k.dh[2] <= Seen(p, u) /\ k.key.at = k.n
               /\ Len(k.key.root) = Place(q, k.dh[2])
               /\ k.dh[2] = Seen(p, u) => k.n < u.Nr
               /\ \A x \in In(a) : k.key # x.key
    <3>1. /\ k.dh[1] = q /\ k.dh[2] <= Seen(p, s) /\ k.key.at = k.n
          /\ Len(k.key.root) = Place(q, k.dh[2])
          /\ \A x \in In(o) : k.key # x.key
      BY <1>1 DEF KeptOK, q
    <3>2. k.dh \in Pairs
      BY <1>6 DEF SkippedKeys
    <3>3. k.dh[2] \in Int
      BY <3>2, PairFacts
    <3>4. k.dh[2] <= Seen(p, u) /\ k.dh[2] # Seen(p, u) /\ k.dh[2] # m.dh[2]
      BY <1>8, <1>10, <3>1, <3>3
    <3>5. k.key # m.key
      <4>1. SUFFICES ASSUME k.key = m.key PROVE FALSE
        OBVIOUS
      <4>2. Place(q, k.dh[2]) = Place(q, m.dh[2])
        BY <1>14, <3>1, <4>1
      <4>3. k.dh[2] = m.dh[2]
        BY <1>4, <1>14, <3>3, <4>2, PlacesDiffer
      <4>4. QED
        BY <3>4, <4>3
    <3>6. QED
      BY <1>17, <3>1, <3>4, <3>5
  <2>2. ASSUME NEW k \in old
        PROVE  /\ k.dh[1] = q /\ k.dh[2] <= Seen(p, u) /\ k.key.at = k.n
               /\ Len(k.key.root) = Place(q, k.dh[2])
               /\ k.dh[2] = Seen(p, u) => k.n < u.Nr
               /\ \A x \in In(a) : k.key # x.key
    <3>1. /\ Own(s) > 0
          /\ k.dh = s.DHr /\ k.n \in Nat /\ s.Nr <= k.n
          /\ k.key.root = s.CKr.root /\ k.key.at = k.n
      BY <1>13
    <3>2. s.DHr = <<q, Seen(p, s)>> /\ Len(s.CKr.root) = Place(q, Seen(p, s))
      BY <1>1, <3>1 DEF StateOK, q
    <3>3. k.dh[1] = q /\ k.dh[2] = Seen(p, s)
      BY <3>1, <3>2
    <3>4. k.dh[2] <= Seen(p, u) /\ k.dh[2] # Seen(p, u)
      BY <1>8, <1>10, <3>3
    <3>5. ASSUME NEW x \in theirs, k.key = x.key PROVE x.dh[2] = Seen(p, s) /\ x.n = k.n
      <4>1. Place(q, x.dh[2]) = Place(q, Seen(p, s)) /\ x.n = k.n
        BY <1>14, <3>1, <3>2, <3>5
      <4>2. x.dh[2] = Seen(p, s)
        BY <1>4, <1>8, <1>14, <4>1, PlacesDiffer
      <4>3. QED
        BY <4>1, <4>2
    <3>6. k.key # m.key
      BY <1>8, <3>5
    <3>7. \A x \in In(o) : k.key # x.key
      BY <1>6, <1>14, <1>15, <3>1, <3>5
    <3>8. QED
      BY <1>17, <3>1, <3>2, <3>3, <3>4, <3>6, <3>7
  <2>3. ASSUME NEW k \in new
        PROVE  /\ k.dh[1] = q /\ k.dh[2] <= Seen(p, u) /\ k.key.at = k.n
               /\ Len(k.key.root) = Place(q, k.dh[2])
               /\ k.dh[2] = Seen(p, u) => k.n < u.Nr
               /\ \A x \in In(a) : k.key # x.key
    <3>1. /\ k.dh = m.dh /\ k.n \in Nat /\ k.n < m.n
          /\ k.key.root = m.key.root /\ k.key.at = k.n
      BY <1>12
    <3>2. ASSUME NEW x \in In(o) PROVE k.key # x.key
      <4>1. SUFFICES ASSUME k.key = x.key PROVE FALSE
        OBVIOUS
      <4>2. x \in theirs
        BY <1>15
      <4>3. Place(q, x.dh[2]) = Place(q, m.dh[2])
        BY <1>14, <3>1, <4>1, <4>2
      <4>4. x.dh[2] = m.dh[2]
        BY <1>4, <1>14, <4>2, <4>3, PlacesDiffer
      <4>5. QED
        BY <1>8, <1>15, <4>4
    <3>3. k.key # m.key
      BY <1>6, <1>14, <3>1
    <3>4. k.n < u.Nr
      BY <1>6, <1>7, <3>1
    <3>5. k.dh[2] <= Seen(p, u)
      BY <1>8, <1>10, <3>1
    <3>6. QED
      BY <1>14, <1>17, <3>1, <3>2, <3>3, <3>4, <3>5
  <2>4. \A k \in u.skippedKeys : k \in s.skippedKeys \/ k \in old \/ k \in new
    BY <1>7
  <2>5. QED
    BY <2>1, <2>2, <2>3, <2>4 DEF KeptOK, q
<1>21. OpenedOK(p, u, a, theirs)
  <2>1. m.n < u.Nr /\ m.dh[2] <= Seen(p, u)
    BY <1>6, <1>7, <1>8, <1>10
  <2>2. ASSUME NEW x \in In(o) PROVE x.dh[2] <= Seen(p, u) /\ x.dh[2] # Seen(p, u)
    BY <1>8, <1>10, <1>14, <1>15
  <2>3. QED
    BY <1>15, <1>17, <2>1, <2>2 DEF OpenedOK
<1>22. InTurn(p, u, t, theirs)
  <2>1. Own(t) = Seen(p, u)
    BY <1>5, <1>10
  <2>2. u.Nr <= t.Ns /\ u.CKr.root = t.RK
    BY <1>5, <1>6, <1>7
  <2>3. \A x \in theirs : x.dh[2] = Seen(p, u) => x.key.root = u.CKr.root
    BY <1>2, <2>1, <2>2 DEF SentOK
  <2>4. Own(t) # Seen(p, u) + 1
    BY <1>8, <2>1
  <2>5. QED
    BY <2>1, <2>2, <2>3, <2>4 DEF InTurn
<1>23. NothingMissing(p, u, a, theirs)
  <2>1. SUFFICES ASSUME NEW x \in theirs,
                        x.dh[2] < Seen(p, u) \/ (x.dh[2] = Seen(p, u) /\ x.n < u.Nr),
                        x \notin In(o), x # m
                 PROVE  \E k \in SkippedFor(u, x) : k.key = x.key
    BY <1>17 DEF NothingMissing
  <2>2. x.key = [root |-> x.key.root, at |-> x.n]
    <3>1. x.key \in ChainKeys
      BY <1>14, MessageFields
    <3>2. QED
      BY <1>14, <3>1, ChainKeyFacts
  <2>3. CASE x.dh[2] < Seen(p, s) \/ (x.dh[2] = Seen(p, s) /\ x.n < s.Nr)
    <3>1. PICK k \in SkippedFor(s, x) : k.key = x.key
      BY <1>1, <2>1, <2>3 DEF NothingMissing
    <3>2. QED
      BY <1>7, <3>1 DEF SkippedFor
  <2>4. CASE x.dh[2] = Seen(p, s) /\ s.Nr <= x.n
    <3>1. x.dh = s.DHr /\ x.key.root = s.CKr.root /\ Own(s) > 0
      BY <1>1, <1>2, <2>4, OnChain DEF q
    <3>2. x.n < m.pn
      <4>1. Own(t) - 1 = x.dh[2]
        BY <1>5, <1>8, <2>4
      <4>2. QED
        BY <1>2, <1>5, <4>1 DEF SentOK
    <3> DEFINE k == [dh |-> s.DHr, n |-> x.n, key |-> [root |-> s.CKr.root, at |-> x.n]]
    <3>3. k \in u.skippedKeys
      BY <1>7, <1>13, <1>14, <2>4, <3>1, <3>2
    <3>4. k.key = x.key
      BY <2>2, <3>1
    <3>5. k \in SkippedFor(u, x)
      BY <3>1, <3>3 DEF SkippedFor
    <3>6. QED
      BY <3>4, <3>5
  <2>5. CASE x.dh[2] = Seen(p, u) /\ x.n < u.Nr
    <3>1. x.dh[1] = m.dh[1] /\ x.dh[2] = m.dh[2]
      BY <1>10, <1>14, <2>5
    <3>2. x.dh \in Pairs
      BY <1>14, MessageFields
    <3>3. x.dh = m.dh
      BY <1>6, <3>1, <3>2, PairFacts
    <3>4. x.n # m.n
      BY <1>2, <1>4, <2>1, <3>3, OneMessage
    <3>5. x.n \in Nat /\ x.n < m.n
      BY <1>6, <1>7, <1>14, <2>5, <3>4
    <3>6. x.key.root = m.key.root
      BY <1>2, <3>3 DEF SentOK
    <3> DEFINE k == [dh |-> m.dh, n |-> x.n, key |-> [root |-> m.key.root, at |-> x.n]]
    <3>7. k \in u.skippedKeys
      BY <1>7, <1>12, <3>5
    <3>8. k.key = x.key
      BY <2>2, <3>6
    <3>9. k \in SkippedFor(u, x)
      BY <3>3, <3>7 DEF SkippedFor
    <3>10. QED
      BY <3>8, <3>9
  <2>6. x.dh[2] \in Int /\ x.n \in Int
    BY <1>14
  <2>7. QED
    BY <1>6, <1>8, <1>10, <2>1, <2>3, <2>4, <2>5, <2>6
<1>24. InTurn(q, t, u, own)
  <2>1. Own(u) = Seen(q, t) + 1
    BY <1>8, <1>10
  <2>2. t.Nr <= s.Ns
    <3>1. CASE Own(t) = 0
      <4>1. t.Nr = 0
        BY <1>2, <3>1 DEF StateOK
      <4>2. QED
        BY <1>6, <4>1
    <3>2. CASE Own(t) > 0
      BY <1>2, <1>8, <3>2 DEF InTurn
    <3>3. QED
      BY <1>8, <3>1, <3>2
  <2>3. t.Nr <= u.PN /\ u.RK = NewRK(t.RK, t.DHs, u.DHs)
    BY <1>7, <1>11, <2>2
  <2>4. Own(u) # Seen(q, t)
    BY <1>8, <2>1
  <2>5. QED
    BY <1>2, <2>1, <2>3, <2>4 DEF InTurn
<1>25. PartyOK(p, u, t, a, own, theirs)
  BY <1>18, <1>19, <1>20, <1>21, <1>22, <1>23 DEF PartyOK
<1>26. PartyOK(q, t, u, oq, theirs, own)
  BY <1>24 DEF PartyOK, q
<1>27. QED
  BY <1>25, <1>26 DEF u, a, q

-----------------------------------------------------------------------------
(* The invariant                                                           *)

(* A session begins with both ends' states of the key agreement.           *)
LEMMA InitOK == Init => IInv
<1> SUFFICES ASSUME Init PROVE IInv
  OBVIOUS
<1>1. Ephemeral \in Pairs /\ SignedPreKey \in Pairs /\ NoPair \in Pairs
  BY DEF Ephemeral, SignedPreKey, NoPair, Pairs
<1>2. MasterSecret \in Roots /\ Len(MasterSecret) = 0 /\ Len(NoChain.root) = 0
  BY DEF MasterSecret, Roots, NoChain
<1> DEFINE rk == NewRK(MasterSecret, Ephemeral, SignedPreKey)
           i == InitRatchetSender
           r == InitRatchetReceiver
<1>3. rk \in Roots /\ Len(rk) = 1
  <2>1. rk \in Roots /\ Len(rk) = Len(MasterSecret) + 1
    BY <1>1, <1>2, RootGrows
  <2>2. QED
    BY <1>2, <2>1
<1>4. i = [RK |-> rk, CKs |-> [root |-> rk, at |-> 0], CKr |-> NoChain,
           DHs |-> Ephemeral, DHr |-> SignedPreKey,
           Ns |-> 0, Nr |-> 0, PN |-> 0, skippedKeys |-> {}]
  BY DEF InitRatchetSender, NewCK
<1>5. NoChain \in ChainKeys
  BY DEF NoChain, ChainKeys, Roots
<1> HIDE DEF rk
<1>6. [root |-> rk, at |-> 0] \in ChainKeys
  BY <1>3 DEF ChainKeys
<1>7. i \in RatchetStates
  BY <1>1, <1>3, <1>4, <1>5, <1>6 DEF RatchetStates
<1>8. r \in RatchetStates
  BY <1>1, <1>2, <1>5 DEF InitRatchetReceiver, RatchetStates
<1>9. TypeOK
  <2>1. state \in [Parties -> RatchetStates]
    BY <1>7, <1>8 DEF Init
  <2>2. sent \in [Parties -> SUBSET Messages] /\ opened \in [Parties -> Seq(Messages)]
    BY DEF Init
  <2>3. QED
    BY <2>1, <2>2 DEF TypeOK
<1>10. /\ state["initiator"] = i /\ state["responder"] = r
       /\ \A p \in Parties : sent[p] = {} /\ opened[p] = <<>>
  BY DEF Init, Parties
<1>11. /\ Own(i) = 0 /\ Own(r) = 0
       /\ Place("initiator", 0) = 1 /\ Place("responder", 0) = 0
  BY <1>4 DEF InitRatchetReceiver, Own, Ephemeral, SignedPreKey, Place
<1>12. StateOK("initiator", i, <<>>)
  <2>1. i.DHs[1] = "initiator"
    BY <1>4 DEF Ephemeral
  <2>2. Len(i.RK) = Place("initiator", Own(i)) /\ Len(i.RK) # 0
    BY <1>3, <1>4, <1>11
  <2>3. QED
    BY <1>4, <1>11, <2>1, <2>2 DEF StateOK
<1>13. StateOK("responder", r, <<>>)
  <2>1. r.DHs[1] = "responder"
    BY DEF InitRatchetReceiver, SignedPreKey
  <2>2. Len(r.RK) = Place("responder", Own(r)) /\ Len(r.RK) = 0
    BY <1>2, <1>11 DEF InitRatchetReceiver
  <2>3. QED
    BY <1>11, <2>1, <2>2 DEF StateOK, InitRatchetReceiver
<1>14. Seen("initiator", i) = 0 /\ Seen("responder", r) = 0 - 1
  BY <1>11 DEF Seen
<1>15. InTurn("initiator", i, r, {})
  BY <1>11, <1>14 DEF InTurn
<1>16. InTurn("responder", r, i, {})
  <2>1. i.RK = NewRK(r.RK, r.DHs, i.DHs)
    <3>1. NewRK(MasterSecret, Ephemeral, SignedPreKey) = NewRK(MasterSecret, SignedPreKey, Ephemeral)
      BY <1>1, <1>2, RootGrows
    <3>2. QED
      BY <1>4, <3>1 DEF InitRatchetReceiver, rk
  <2>2. r.Nr <= i.PN
    BY <1>4 DEF InitRatchetReceiver
  <2>3. QED
    BY <1>11, <1>14, <2>1, <2>2 DEF InTurn
<1>17. \A p, q : /\ SentOK(p, i, {}) /\ SentOK(p, r, {})
                 /\ NothingMissing(p, i, <<>>, {}) /\ NothingMissing(p, r, <<>>, {})
  BY DEF SentOK, NothingMissing
<1>18. i.skippedKeys = {} /\ r.skippedKeys = {}
  BY <1>4 DEF InitRatchetReceiver
<1>19. \A p : KeptOK(p, i, <<>>) /\ KeptOK(p, r, <<>>)
  BY <1>18 DEF KeptOK
<1>20. \A p : OpenedOK(p, i, <<>>, {}) /\ OpenedOK(p, r, <<>>, {})
  BY InNothing DEF OpenedOK
<1>21. PartyOK("initiator", i, r, <<>>, {}, {}) /\ PartyOK("responder", r, i, <<>>, {}, {})
  BY <1>12, <1>13, <1>15, <1>16, <1>17, <1>19, <1>20 DEF PartyOK
<1>22. RatchetOK
  <2> HIDE DEF i, r
  <2>1. Peer("initiator") = "responder" /\ Peer("responder") = "initiator"
    BY DEF Peer
  <2>2. QED
    BY <1>10, <1>21, <2>1 DEF RatchetOK, Parties
<1>23. QED
  BY <1>9, <1>22 DEF IInv

(* A party sends: EncryptKeeps for it and for its peer.                    *)
LEMMA EncryptStep ==
    ASSUME IInv, NEW p \in Parties, RatchetEncrypt(p)
    PROVE  IInv'
<1> DEFINE q == Peer(p)
           s == state[p]
           t == state[q]
           u == [s EXCEPT !.CKs = NextCK(@), !.Ns = @ + 1]
           e == Envelope(s)
<1>1. q \in Parties /\ q # p /\ Peer(q) = p /\ \A r \in Parties : r = p \/ r = q
  BY PartyFacts
<1>2. /\ state \in [Parties -> RatchetStates]
      /\ sent \in [Parties -> SUBSET Messages]
      /\ opened \in [Parties -> Seq(Messages)]
  BY DEF IInv, TypeOK
<1>3. /\ s \in RatchetStates /\ t \in RatchetStates
      /\ sent[p] \in SUBSET Messages /\ sent[q] \in SUBSET Messages
      /\ opened[p] \in Seq(Messages) /\ opened[q] \in Seq(Messages)
  BY <1>1, <1>2
<1>4. /\ PartyOK(p, s, t, opened[p], sent[p], sent[q])
      /\ PartyOK(q, t, s, opened[q], sent[q], sent[p])
  BY <1>1 DEF IInv, RatchetOK
<1>5. s.CKs # NoChain
  BY DEF RatchetEncrypt
<1>6. /\ state' = [state EXCEPT ![p] = u]
      /\ sent' = [sent EXCEPT ![p] = sent[p] \cup {e}]
      /\ opened' = opened
  BY DEF RatchetEncrypt
<1>7. u \in RatchetStates /\ e \in Messages
  <2>1. StateOK(p, s, opened[p])
    BY <1>4 DEF PartyOK
  <2>2. QED
    BY <1>3, <1>5, <2>1, EncryptFields
<1>8. /\ PartyOK(p, u, t, opened[p], sent[p] \cup {e}, sent[q])
      /\ PartyOK(q, t, u, opened[q], sent[q], sent[p] \cup {e})
  BY <1>1, <1>3, <1>4, <1>5, EncryptKeeps
<1> HIDE DEF q, s, u, e
<1>9. /\ state'[p] = u /\ state'[q] = t
      /\ sent'[p] = sent[p] \cup {e} /\ sent'[q] = sent[q]
      /\ opened'[p] = opened[p] /\ opened'[q] = opened[q]
  BY <1>1, <1>2, <1>6
<1>10. TypeOK'
  <2>1. state' \in [Parties -> RatchetStates]
    BY <1>2, <1>6, <1>7
  <2>2. sent[p] \cup {e} \in SUBSET Messages
    BY <1>3, <1>7
  <2>3. sent' \in [Parties -> SUBSET Messages]
    BY <1>2, <1>6, <2>2
  <2>4. QED
    BY <1>2, <1>6, <2>1, <2>3 DEF TypeOK
<1>11. RatchetOK'
  <2>1. PartyOK(p, state'[p], state'[q], opened'[p], sent'[p], sent'[q])
    BY <1>8, <1>9
  <2>2. PartyOK(q, state'[q], state'[p], opened'[q], sent'[q], sent'[p])
    BY <1>8, <1>9
  <2>3. \A r \in Parties :
            PartyOK(r, state'[r], state'[Peer(r)], opened'[r], sent'[r], sent'[Peer(r)])
    BY <1>1, <2>1, <2>2 DEF q
  <2>4. QED
    BY <2>3 DEF RatchetOK
<1>12. QED
  BY <1>10, <1>11 DEF IInv

(* A message opens in one of three ways: with a kept key, on the receiving *)
(* chain, or on the peer's next chain.                                     *)
LEMMA DecryptStep ==
    ASSUME IInv, NEW p \in Parties, NEW m \in sent[Peer(p)], RatchetDecrypt(p, m)
    PROVE  IInv'
<1> DEFINE q == Peer(p)
           s == state[p]
           t == state[q]
           u == After(s, m)
           a == Append(opened[p], m)
<1>1. q \in Parties /\ q # p /\ Peer(q) = p /\ \A r \in Parties : r = p \/ r = q
  BY PartyFacts
<1>2. /\ state \in [Parties -> RatchetStates]
      /\ sent \in [Parties -> SUBSET Messages]
      /\ opened \in [Parties -> Seq(Messages)]
  BY DEF IInv, TypeOK
<1>3. /\ s \in RatchetStates /\ t \in RatchetStates
      /\ sent[p] \in SUBSET Messages /\ sent[q] \in SUBSET Messages
      /\ opened[p] \in Seq(Messages) /\ opened[q] \in Seq(Messages)
      /\ m \in Messages
  BY <1>1, <1>2
<1>4. /\ PartyOK(p, s, t, opened[p], sent[p], sent[q])
      /\ PartyOK(q, t, s, opened[q], sent[q], sent[p])
  BY <1>1 DEF IInv, RatchetOK
<1>5. Opens(s, m)
  BY DEF RatchetDecrypt
<1>6. /\ state' = [state EXCEPT ![p] = u]
      /\ opened' = [opened EXCEPT ![p] = a]
      /\ sent' = sent
  BY DEF RatchetDecrypt
<1>7. u \in RatchetStates /\ a \in Seq(Messages)
  BY <1>3, AfterTyped
<1>8. /\ PartyOK(p, u, t, a, sent[p], sent[q])
      /\ PartyOK(q, t, u, opened[q], sent[q], sent[p])
  <2>1. CASE SkippedFor(s, m) # {}
    <3>1. PICK k \in SkippedFor(s, m) : k.key = m.key
      BY <1>5, <2>1 DEF Opens
    <3>2. QED
      BY <1>3, <1>4, <3>1, LateKeeps
  <2>2. CASE SkippedFor(s, m) = {}
    <3>1. \/ m.dh[2] = Seen(p, s) /\ s.Nr <= m.n
          \/ m.dh[2] = Seen(p, s) + 1
      <4>1. StateOK(p, s, opened[p]) /\ InTurn(p, s, t, sent[q]) /\ SentOK(q, t, sent[q])
        BY <1>4 DEF PartyOK
      <4>2. QED
        BY <1>3, <1>5, <2>2, <4>1, WhereItOpens
    <3>2. CASE m.dh[2] = Seen(p, s) /\ s.Nr <= m.n
      BY <1>3, <1>4, <2>2, <3>2, OnChainKeeps
    <3>3. CASE m.dh[2] = Seen(p, s) + 1
      BY <1>3, <1>4, <2>2, <3>3, NextChainKeeps
    <3>4. QED
      BY <3>1, <3>2, <3>3
  <2>3. QED
    BY <2>1, <2>2
<1> HIDE DEF q, s, u, a
<1>9. /\ state'[p] = u /\ state'[q] = t
      /\ opened'[p] = a /\ opened'[q] = opened[q]
  BY <1>1, <1>2, <1>6
<1>10. TypeOK'
  BY <1>2, <1>6, <1>7 DEF TypeOK
<1>11. RatchetOK'
  <2>1. PartyOK(p, state'[p], state'[q], opened'[p], sent'[p], sent'[q])
    BY <1>6, <1>8, <1>9
  <2>2. PartyOK(q, state'[q], state'[p], opened'[q], sent'[q], sent'[p])
    BY <1>6, <1>8, <1>9
  <2>3. \A r \in Parties :
            PartyOK(r, state'[r], state'[Peer(r)], opened'[r], sent'[r], sent'[Peer(r)])
    BY <1>1, <2>1, <2>2 DEF q
  <2>4. QED
    BY <2>3 DEF RatchetOK
<1>12. QED
  BY <1>10, <1>11 DEF IInv

(* The invariant holds in every state, whatever the network does.          *)
THEOREM RatchetInvariant == Spec => []IInv
<1>1. IInv /\ [Next]_vars => IInv'
  <2> SUFFICES ASSUME IInv, [Next]_vars PROVE IInv'
    OBVIOUS
  <2>1. CASE \E p \in Parties : RatchetEncrypt(p)
    BY <2>1, EncryptStep
  <2>2. CASE \E p \in Parties : \E m \in sent[Peer(p)] : RatchetDecrypt(p, m)
    BY <2>2, DecryptStep
  <2>3. CASE UNCHANGED vars
    BY <2>3 DEF vars, IInv, TypeOK, RatchetOK
  <2>4. QED
    BY <2>1, <2>2, <2>3 DEF Next
<1>2. QED
  BY <1>1, InitOK, PTL DEF Spec

-----------------------------------------------------------------------------
(* What it gives                                                           *)

(* The messages of a sequence, as module Ratchet writes it.                *)
LEMMA OpenedIsIn == \A p : Opened(p) = In(opened[p])
BY DEF Opened, In

(* UsedKeysAreGone: ratchetDecrypt deletes a kept key on its use and moves *)
(* the chain past a derived one, so a repeated frame never decrypts.       *)
THEOREM RepeatsNeverOpen == Spec => []UsedKeysAreGone
<1>1. IInv => UsedKeysAreGone
  <2> SUFFICES ASSUME IInv, NEW p \in Parties
               PROVE  /\ \A i, j \in 1 .. Len(opened[p]) : opened[p][i] = opened[p][j] => i = j
                      /\ \A m \in Opened(p) :
                          /\ \A k \in state[p].skippedKeys : k.key # m.key
                          /\ state[p].CKr.root = m.key.root => state[p].CKr.at > m.key.at
    BY DEF UsedKeysAreGone
  <2> DEFINE q == Peer(p)
             s == state[p]
             t == state[q]
             o == opened[p]
  <2>1. q \in Parties
    BY PartyFacts
  <2>2. s \in RatchetStates /\ t \in RatchetStates /\ sent[q] \in SUBSET Messages
    BY <2>1 DEF IInv, TypeOK
  <2>3. PartyOK(p, s, t, o, sent[p], sent[q])
    BY DEF IInv, RatchetOK
  <2>4. PartyOK(q, t, s, opened[q], sent[q], sent[p])
    BY <2>1, PartyFacts DEF IInv, RatchetOK
  <2>5. /\ StateOK(p, s, o) /\ KeptOK(p, s, o) /\ OpenedOK(p, s, o, sent[q])
        /\ SentOK(q, t, sent[q])
    BY <2>3, <2>4 DEF PartyOK
  <2>6. Own(s) \in Nat /\ Seen(p, s) \in Int
    BY <2>2, Turns
  <2>7. ASSUME NEW m \in In(o)
        PROVE  /\ \A k \in s.skippedKeys : k.key # m.key
               /\ s.CKr.root = m.key.root => s.CKr.at > m.key.at
    <3>1. \A k \in s.skippedKeys : k.key # m.key
      BY <2>5 DEF KeptOK
    <3>2. m \in sent[q] /\ (m.dh[2] = Seen(p, s) => m.n < s.Nr)
      BY <2>5 DEF OpenedOK
    <3>3. Own(s) > 0
      <4>1. o # <<>>
        BY InNothing DEF In
      <4>2. QED
        BY <2>5, <2>6, <4>1 DEF StateOK
    <3>4. s.CKr.at = s.Nr /\ Len(s.CKr.root) = Place(q, Seen(p, s))
      BY <2>5, <3>3 DEF StateOK
    <3>5. /\ m.key.at = m.n /\ Len(m.key.root) = Place(q, m.dh[2])
          /\ m.n \in Nat /\ m.dh[2] \in Int /\ s.Nr \in Nat
      BY <2>2, <2>5, <3>2, MessageFields, PairFacts, StateFields DEF SentOK
    <3>6. ASSUME s.CKr.root = m.key.root PROVE s.CKr.at > m.key.at
      <4>1. Place(q, m.dh[2]) = Place(q, Seen(p, s))
        BY <3>4, <3>5, <3>6
      <4>2. m.dh[2] = Seen(p, s)
        BY <2>1, <2>6, <3>5, <4>1, PlacesDiffer
      <4>3. QED
        BY <3>2, <3>4, <3>5, <4>2
    <3>7. QED
      BY <3>1, <3>6
  <2>8. \A i, j \in 1 .. Len(o) : o[i] = o[j] => i = j
    BY <2>5 DEF OpenedOK
  <2>9. QED
    BY <2>7, <2>8, OpenedIsIn
<1>2. QED
  BY <1>1, RatchetInvariant, PTL

(* KeysAreFresh: KDF_RK and KDF_CK give the two parties a key for each     *)
(* message and never the same for two.                                     *)
THEOREM NoKeyTwice == Spec => []KeysAreFresh
<1>1. IInv => KeysAreFresh
  <2> SUFFICES ASSUME IInv, NEW p \in Parties, NEW q \in Parties,
                      NEW m \in sent[p], NEW l \in sent[q], m.key = l.key
               PROVE  p = q /\ m = l
    BY DEF KeysAreFresh
  <2>1. \A r \in Parties : state[r] \in RatchetStates /\ sent[r] \in SUBSET Messages
    BY DEF IInv, TypeOK
  <2>2. SentOK(p, state[p], sent[p]) /\ SentOK(q, state[q], sent[q])
    BY DEF IInv, RatchetOK, PartyOK
  <2>3. /\ Len(m.key.root) = Place(p, m.dh[2]) /\ Len(l.key.root) = Place(q, l.dh[2])
        /\ m \in Messages /\ l \in Messages
    BY <2>1, <2>2 DEF SentOK
  <2>4. m.dh[2] \in Int /\ l.dh[2] \in Int
    BY <2>3, MessageFields, PairFacts
  <2>5. Place(p, m.dh[2]) = Place(q, l.dh[2])
    BY <2>3
  <2>6. p = q
    BY <2>4, <2>5, PlacesDiffer
  <2>7. QED
    BY <2>1, <2>2, <2>6, OneMessage
<1>2. QED
  BY <1>1, RatchetInvariant, PTL

(* LateMessagesOpen: skipMessageKeys keeps every key the chains pass over, *)
(* so what has not arrived yet still decrypts, in any order.               *)
THEOREM NothingIsLost == Spec => []LateMessagesOpen
<1>1. IInv => LateMessagesOpen
  <2> SUFFICES ASSUME IInv, NEW p \in Parties, NEW m \in sent[Peer(p)] \ Opened(p),
                      ~(SkippedFor(state[p], m) = {} /\ Throws(state[p], m))
               PROVE  Opens(state[p], m)
    BY DEF LateMessagesOpen
  <2> DEFINE q == Peer(p)
             s == state[p]
             t == state[q]
             o == opened[p]
  <2>1. q \in Parties /\ Peer(q) = p
    BY PartyFacts
  <2>2. s \in RatchetStates /\ t \in RatchetStates /\ sent[q] \in SUBSET Messages
    BY <2>1 DEF IInv, TypeOK
  <2>3. PartyOK(p, s, t, o, sent[p], sent[q])
    BY DEF IInv, RatchetOK
  <2>4. PartyOK(q, t, s, opened[q], sent[q], sent[p])
    BY <2>1 DEF IInv, RatchetOK
  <2>5. /\ StateOK(p, s, o) /\ KeptOK(p, s, o) /\ InTurn(p, s, t, sent[q])
        /\ NothingMissing(p, s, o, sent[q])
        /\ SentOK(q, t, sent[q]) /\ StateOK(q, t, opened[q])
    BY <2>3, <2>4 DEF PartyOK
  <2>6. Own(s) \in Nat /\ Own(t) \in Nat /\ Seen(p, s) \in Int
    BY <2>2, Turns
  <2>7. m \in sent[q] /\ m \in Messages /\ m \notin In(o)
    BY <2>2, OpenedIsIn
  <2>8. m.dh[2] \in Nat /\ m.n \in Nat /\ s.Nr \in Nat /\ m.key \in ChainKeys
    BY <2>2, <2>7, MessageFields, PairFacts, StateFields
  <2>9. m.key = [root |-> m.key.root, at |-> m.n]
    BY <2>5, <2>7, <2>8, ChainKeyFacts DEF SentOK
  <2>10. CASE m.dh[2] < Seen(p, s) \/ (m.dh[2] = Seen(p, s) /\ m.n < s.Nr)
    BY <2>5, <2>7, <2>10 DEF NothingMissing, Opens
  <2>11. ASSUME SkippedFor(s, m) = {}, ReadyFor(s, m).CKr = m.key
         PROVE  Opens(s, m)
    BY <2>11 DEF Opens, MessageKey
  <2>12. CASE m.dh[2] = Seen(p, s) /\ s.Nr <= m.n
    <3>1. m.dh = s.DHr /\ s.CKr.at = s.Nr /\ m.key.root = s.CKr.root
      BY <2>2, <2>5, <2>7, <2>12, OnChain
    <3>2. SkippedFor(s, m) = {}
      <4>1. SUFFICES ASSUME NEW k \in s.skippedKeys, k.dh = m.dh, k.n = m.n PROVE FALSE
        BY DEF SkippedFor
      <4>2. k.n < s.Nr
        BY <2>5, <2>12, <4>1 DEF KeptOK
      <4>3. QED
        BY <2>8, <2>12, <4>1, <4>2
    <3>3. ReadyFor(s, m).CKr = [root |-> s.CKr.root, at |-> m.n]
      BY <2>2, <2>7, <2>12, <3>1, <3>2, AfterOnChain
    <3>4. QED
      BY <2>9, <2>11, <3>1, <3>2, <3>3
  <2>13. CASE m.dh[2] = Seen(p, s) + 1
    <3>1. t.DHs[1] = q
      BY <2>5 DEF StateOK
    <3>2. /\ m.key.root = t.RK /\ t.RK = Received(s, m.dh) /\ s.Nr <= m.pn
          /\ s.CKr # NoChain => s.CKr.at = s.Nr
          /\ m.dh # s.DHr
      BY <2>2, <2>5, <2>7, <2>13, <3>1, OnNextChain
    <3>3. SkippedFor(s, m) = {}
      <4>1. SUFFICES ASSUME NEW k \in s.skippedKeys, k.dh = m.dh PROVE FALSE
        BY DEF SkippedFor
      <4>2. k.dh[2] <= Seen(p, s)
        BY <2>5 DEF KeptOK
      <4>3. QED
        BY <2>6, <2>13, <4>1, <4>2
    <3>4. ReadyFor(s, m).CKr = [root |-> Received(s, m.dh), at |-> m.n]
      BY <2>2, <2>7, <3>2, <3>3, AfterNewChain
    <3>5. QED
      BY <2>9, <2>11, <3>2, <3>3, <3>4
  <2>14. m.dh[2] <= Seen(p, s) + 1
    <3>1. m.dh[2] <= Own(t) /\ Own(t) \in {Seen(p, s), Seen(p, s) + 1}
      BY <2>5, <2>7 DEF SentOK, InTurn
    <3>2. QED
      BY <2>6, <2>8, <3>1
  <2>15. QED
    BY <2>6, <2>8, <2>10, <2>12, <2>13, <2>14
<1>2. QED
  BY <1>1, RatchetInvariant, PTL

(* The states, messages and keys are of their types.                       *)
THEOREM RatchetTypeCorrect == Spec => []TypeOK
<1>1. IInv => TypeOK
  BY DEF IInv
<1>2. QED
  BY <1>1, RatchetInvariant, PTL

=============================================================================
