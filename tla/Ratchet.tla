------------------------------ MODULE Ratchet -------------------------------
(***************************************************************************)
(* The double ratchet of web_client_2/src/crypto/ratchet.ts between two    *)
(* parties, over a network that loses, reorders and repeats messages.      *)
(* useChat.ts uses a session in one direction only (module Session); this  *)
(* module has both parties send, as the functions of the crypto layer are  *)
(* offered ("portable", README:42).                                        *)
(*                                                                         *)
(* Keys are symbols: a ratchet key pair is its owner and its number, a     *)
(* Diffie-Hellman output the set of the two pairs, a root key the sequence *)
(* of the outputs mixed into it, a chain key the root key it began with    *)
(* and its position, and the message key at a position is that chain key.  *)
(* A ciphertext opens with the key it was sealed with and no other.        *)
(***************************************************************************)
EXTENDS Integers, Sequences, FiniteSets

CONSTANTS
    MAX_SKIP,
    MaxSent       \* bound: messages each party sends

(* What the constants must be.                                             *)
ASSUME RatchetAssumption == MAX_SKIP \in Nat /\ MaxSent \in Nat

VARIABLES
    state,        \* the RatchetState of each party
    sent,         \* messages each party has sent
    opened        \* messages each party has decrypted, once for each time

vars == <<state, sent, opened>>

Parties == {"initiator", "responder"}
Peer(p) == IF p = "initiator" THEN "responder" ELSE "initiator"

NoPair == <<"none", 0>>
NoChain == [root |-> <<>>, at |-> 0]     \* a chain key is null
MasterSecret == <<>>

-----------------------------------------------------------------------------
(* KDF_RK and KDF_CK                                                       *)

NewRK(rk, x, y) == Append(rk, {x, y})
NewCK(rk, x, y) == [root |-> NewRK(rk, x, y), at |-> 0]

(* Mutant: the chain stays where it is.                                    *)
StaleChain(ck) == ck

NextCK(ck) == [ck EXCEPT !.at = @ + 1]

MessageKey(ck) == ck

(* initRatchetSender: with the ephemeral key of X3DH and the responder's   *)
(* signed prekey.                                                          *)
SignedPreKey == <<"responder", 0>>
Ephemeral == <<"initiator", 0>>

InitRatchetSender ==
    [RK |-> NewRK(MasterSecret, Ephemeral, SignedPreKey),
     CKs |-> NewCK(MasterSecret, Ephemeral, SignedPreKey), CKr |-> NoChain,
     DHs |-> Ephemeral, DHr |-> SignedPreKey,
     Ns |-> 0, Nr |-> 0, PN |-> 0, skippedKeys |-> {}]

InitRatchetReceiver ==
    [RK |-> MasterSecret, CKs |-> NoChain, CKr |-> NoChain,
     DHs |-> SignedPreKey, DHr |-> NoPair,
     Ns |-> 0, Nr |-> 0, PN |-> 0, skippedKeys |-> {}]

Init ==
    /\ state = [p \in Parties |-> IF p = "initiator" THEN InitRatchetSender
                                                     ELSE InitRatchetReceiver]
    /\ sent = [p \in Parties |-> {}]
    /\ opened = [p \in Parties |-> <<>>]

-----------------------------------------------------------------------------
(* ratchetEncrypt                                                          *)

Envelope(s) == [dh |-> s.DHs, n |-> s.Ns, pn |-> s.PN, key |-> MessageKey(s.CKs)]

(* The receiving end has no sending chain before its first message.        *)
RatchetEncrypt(p) ==
    LET s == state[p] IN
    /\ s.CKs # NoChain
    /\ Cardinality(sent[p]) < MaxSent
    /\ sent' = [sent EXCEPT ![p] = @ \cup {Envelope(s)}]
    /\ state' = [state EXCEPT ![p] = [s EXCEPT !.CKs = NextCK(@), !.Ns = @ + 1]]
    /\ UNCHANGED opened

-----------------------------------------------------------------------------
(* ratchetDecrypt                                                          *)

(* skipMessageKeys throws.                                                 *)
TooMany(s, until) == until - s.Nr > MAX_SKIP

(* skipMessageKeys: the chain moves to `until`, the keys are kept.         *)
SkipMessageKeys(s, until) ==
    IF until <= s.Nr THEN s
    ELSE [s EXCEPT
        !.skippedKeys = @ \cup
            {[dh |-> s.DHr, n |-> i,
              key |-> MessageKey([s.CKr EXCEPT !.at = @ + i - s.Nr])] : i \in s.Nr .. until - 1},
        !.CKr.at = @ + until - s.Nr,
        !.Nr = until]

(* The DH ratchet step for the peer's new key dh.                          *)
DHRatchet(s, dh) ==
    LET fresh == <<s.DHs[1], s.DHs[2] + 1>>
        rk1 == NewRK(s.RK, s.DHs, dh)
    IN  [s EXCEPT
            !.PN = s.Ns, !.Ns = 0, !.Nr = 0,
            !.CKr = NewCK(s.RK, s.DHs, dh), !.DHr = dh,
            !.RK = NewRK(rk1, fresh, dh), !.CKs = NewCK(rk1, fresh, dh),
            !.DHs = fresh]

(* Mutant: the rest of the old receiving chain is not kept.                *)
ChainAbandoned(s, m) == s

(* What is skipped of the old receiving chain before it is given up.       *)
OldChainSkipped(s, m) == IF s.CKr = NoChain THEN s ELSE SkipMessageKeys(s, m.pn)

(* The key that was skipped for m, if there is one.                        *)
SkippedFor(s, m) == {k \in s.skippedKeys : k.dh = m.dh /\ k.n = m.n}

NewKey(s, m) == m.dh # s.DHr

(* The state with which m's message key is derived.                        *)
ReadyFor(s, m) ==
    SkipMessageKeys(IF NewKey(s, m) THEN DHRatchet(OldChainSkipped(s, m), m.dh) ELSE s,
                    m.n)

Throws(s, m) ==
    IF NewKey(s, m)
    THEN (s.CKr # NoChain /\ TooMany(s, m.pn)) \/ m.n > MAX_SKIP
    ELSE TooMany(s, m.n)

(* Whether m decrypts in state s.                                          *)
Opens(s, m) ==
    \/ \E k \in SkippedFor(s, m) : k.key = m.key
    \/ /\ SkippedFor(s, m) = {}
       /\ ~Throws(s, m)
       /\ MessageKey(ReadyFor(s, m).CKr) = m.key

(* Mutant: a skipped key stays after its use.                              *)
KeptAfterUse(s, m) == s.skippedKeys

(* newSkipped.delete(skippedKey)                                           *)
WithoutUsed(s, m) == s.skippedKeys \ SkippedFor(s, m)

(* The newState.                                                           *)
After(s, m) ==
    IF SkippedFor(s, m) # {}
    THEN [s EXCEPT !.skippedKeys = WithoutUsed(s, m)]
    ELSE LET r == ReadyFor(s, m) IN [r EXCEPT !.CKr = NextCK(@), !.Nr = @ + 1]

(* A message of the peer, new, late or again, decrypts; one that does not  *)
(* changes nothing (the caller keeps its state).                           *)
RatchetDecrypt(p, m) ==
    /\ Len(opened[p]) < MaxSent + 1
    /\ Opens(state[p], m)
    /\ state' = [state EXCEPT ![p] = After(state[p], m)]
    /\ opened' = [opened EXCEPT ![p] = Append(@, m)]
    /\ UNCHANGED sent

Next ==
    \/ \E p \in Parties : RatchetEncrypt(p)
    \/ \E p \in Parties : \E m \in sent[Peer(p)] : RatchetDecrypt(p, m)

Spec == Init /\ [][Next]_vars

-----------------------------------------------------------------------------
(* Properties                                                              *)

Opened(p) == {opened[p][i] : i \in 1 .. Len(opened[p])}

(* "out-of-order and late-arriving messages decrypt correctly without      *)
(* breaking the chain" (README:39): whatever was decrypted before, every   *)
(* message of the peer not yet decrypted does, unless it has no key kept   *)
(* and the gap before it is more than MAX_SKIP.                            *)
LateMessagesOpen ==
    \A p \in Parties : \A m \in sent[Peer(p)] \ Opened(p) :
        \/ Opens(state[p], m)
        \/ SkippedFor(state[p], m) = {} /\ Throws(state[p], m)

(* Once a message is decrypted its key is neither kept nor derivable from  *)
(* the receiving chain, over rotations and late arrivals: a repeated frame *)
(* never decrypts.                                                         *)
UsedKeysAreGone ==
    \A p \in Parties :
        /\ \A i, j \in 1 .. Len(opened[p]) : opened[p][i] = opened[p][j] => i = j
        /\ \A m \in Opened(p) :
            /\ \A k \in state[p].skippedKeys : k.key # m.key
            /\ state[p].CKr.root = m.key.root => state[p].CKr.at > m.key.at

(* Both ends never derive the same message key for two messages.           *)
KeysAreFresh ==
    \A p, q \in Parties : \A m \in sent[p] : \A l \in sent[q] :
        m.key = l.key => p = q /\ m = l
=============================================================================
