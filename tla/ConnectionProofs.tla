-------------------------- MODULE ConnectionProofs --------------------------
(***************************************************************************)
(* Proofs, for any delays and any number of logins and visits, of the      *)
(* invariants of module Connection.                                        *)
(***************************************************************************)
EXTENDS Connection, TLAPS

-----------------------------------------------------------------------------
(* The inductive invariant                                                 *)

(* A mount has a socket or a scheduled reconnection, not both, and neither *)
(* before its load is done.                                                *)
Slim(c) ==
    /\ c.load # "done" => c.sockets = <<>> /\ c.timers = 0
    /\ Len(c.sockets) + c.timers <= 1

(* What is mounted means to stay connected.                                *)
OnPage(c) ==
    /\ ~c.intentional
    /\ c.load = "done" => Len(c.sockets) + c.timers = 1

(* What is not mounted was never rendered, is left to itself because it    *)
(* was left during its load, or is closing its socket.                     *)
OffPage(c) ==
    /\ c.load = "opening" => c.token = 0
    /\ c.load = "loading" => c.leftEarly
    /\ c.load = "done" /\ ~c.leftEarly =>
           /\ c.intentional
           /\ c.timers = 0
           /\ \A i \in DOMAIN c.sockets : c.sockets[i] = "closing"

MountsInv ==
    \A m \in Mounts :
        Slim(chat[m]) /\ IF m = current THEN OnPage(chat[m]) ELSE OffPage(chat[m])

IInv == TypeOK /\ MountsInv

SocketState == {"connecting", "open", "answered", "closing"}

(* The state of every mount after a step that leaves the page is as good   *)
(* as it was before.                                                       *)
Fine(chats) ==
    /\ chats \in [Mounts -> Chat]
    /\ \A m \in Mounts : Slim(chats[m]) /\ (m # current => OffPage(chats[m]))

-----------------------------------------------------------------------------
(* Lemmas about the operators of the model                                 *)

(* The only element of a sequence is removed.                              *)
LEMMA RemoveOnly ==
    ASSUME NEW S, NEW s \in Seq(S), Len(s) <= 1, NEW i \in DOMAIN s
    PROVE  RemoveAt(s, i) = <<>> /\ Len(s) = 1
  <1>0. Len(s) \in Nat /\ DOMAIN s = 1 .. Len(s)
    OBVIOUS
  <1>1. Len(s) = 1 /\ i = 1
    BY <1>0
  <1> QED
    BY <1>1 DEF RemoveAt

(* close() is called on the only socket there may be.                      *)
LEMMA ClosesSocket ==
    ASSUME NEW c \in Chat
    PROVE  LET ss == [i \in DOMAIN c.sockets |->
                         IF i = Len(c.sockets) THEN "closing" ELSE c.sockets[i]]
           IN  /\ ss \in Seq(SocketState)
               /\ Len(ss) = Len(c.sockets)
               /\ Len(c.sockets) <= 1 => \A i \in DOMAIN ss : ss[i] = "closing"
  <1> DEFINE ss == [i \in DOMAIN c.sockets |->
                       IF i = Len(c.sockets) THEN "closing" ELSE c.sockets[i]]
  <1>1. c.sockets \in Seq(SocketState)
    BY DEF Chat, SocketState
  <1>2. /\ DOMAIN c.sockets = 1 .. Len(c.sockets)
        /\ Len(c.sockets) \in Nat
        /\ \A i \in DOMAIN c.sockets : c.sockets[i] \in SocketState
    BY <1>1
  <1>3. \A i \in 1 .. Len(c.sockets) : ss[i] \in SocketState
    BY <1>2 DEF SocketState
  <1>4. ss \in [1 .. Len(c.sockets) -> SocketState]
    BY <1>2, <1>3
  <1>5. ss \in Seq(SocketState) /\ Len(ss) = Len(c.sockets)
    BY <1>2, <1>4
  <1>6. Len(c.sockets) <= 1 => \A i \in DOMAIN ss : ss[i] = "closing"
    BY <1>2
  <1> QED
    BY <1>5, <1>6

(* disconnect leaves at most a socket that is closing.                     *)
LEMMA DisconnectedIsQuiet ==
    ASSUME NEW c \in Chat, Slim(c)
    PROVE  LET d == Disconnected(c) IN
           /\ d \in Chat
           /\ Slim(d)
           /\ d.intentional /\ d.timers = 0
           /\ \A i \in DOMAIN d.sockets : d.sockets[i] = "closing"
           /\ d.load = c.load /\ d.token = c.token
  <1> DEFINE ss == [i \in DOMAIN c.sockets |->
                       IF i = Len(c.sockets) THEN "closing" ELSE c.sockets[i]]
             left == IF c.timers > 0 THEN c.timers - 1 ELSE 0
             d == Disconnected(c)
  <1>1. /\ ss \in Seq(SocketState)
        /\ Len(ss) = Len(c.sockets)
        /\ Len(c.sockets) <= 1 => \A i \in DOMAIN ss : ss[i] = "closing"
    BY ClosesSocket
  <1>2. d = [c EXCEPT !.intentional = TRUE,
                      !.timers = left,
                      !.sockets = ss]
    BY DEF Disconnected
  <1>3. /\ d.sockets = ss
        /\ d.timers = left
        /\ d.intentional = TRUE
        /\ d.load = c.load /\ d.token = c.token
    BY <1>2 DEF Chat
  <1>4. c.timers \in Nat /\ Len(c.sockets) \in Nat
    BY DEF Chat
  <1>5. d \in Chat
    <2>1. left \in Nat
      BY <1>4
    <2> HIDE DEF ss, left
    <2> QED
      BY <1>1, <1>2, <2>1 DEF Chat, SocketState
  <1>6. d.timers = 0 /\ Len(c.sockets) <= 1 /\ Len(c.sockets) + d.timers <= 1
    BY <1>3, <1>4 DEF Slim
  <1>7. c.load # "done" => d.sockets = <<>>
    <2> SUFFICES ASSUME c.load # "done" PROVE ss = <<>>
      BY <1>3
    <2>1. Len(ss) = 0
      BY <1>1 DEF Slim
    <2> QED
      BY <1>1, <2>1
  <1>8. Slim(d)
    BY <1>1, <1>3, <1>6, <1>7 DEF Slim
  <1> QED
    BY <1>1, <1>3, <1>5, <1>6, <1>8

(* The cleanup of the effect makes a mount fit to be left.                 *)
LEMMA UnmountedIsOff ==
    ASSUME NEW c \in Chat, Slim(c)
    PROVE  Unmounted(c) \in Chat /\ Slim(Unmounted(c)) /\ OffPage(Unmounted(c))
  <1>1. CASE c.load = "opening"
    BY <1>1 DEF Unmounted, Chat, Slim, OffPage
  <1>2. CASE c.load # "opening"
    <2> DEFINE d == Disconnected(c)
               u == [d EXCEPT !.leftEarly = c.load = "loading"]
    <2>1. /\ d \in Chat
          /\ Slim(d)
          /\ d.intentional /\ d.timers = 0
          /\ \A i \in DOMAIN d.sockets : d.sockets[i] = "closing"
          /\ d.load = c.load
      BY DisconnectedIsQuiet
    <2>2. Unmounted(c) = u
      BY <1>2 DEF Unmounted
    <2> HIDE DEF d
    <2>3. /\ u \in Chat
          /\ u.sockets = d.sockets /\ u.timers = d.timers /\ u.load = d.load
          /\ u.intentional = d.intentional
          /\ u.leftEarly = (c.load = "loading")
      BY <2>1 DEF Chat
    <2>4. Slim(u) /\ OffPage(u)
      BY <1>2, <2>1, <2>3 DEF Slim, OffPage
    <2> QED
      BY <2>2, <2>3, <2>4
  <1> QED
    BY <1>1, <1>2

(* Leaving the page establishes what is said of pages that are left.       *)
LEMMA UnmountKeeps ==
    ASSUME TypeOK, NEW chats, Fine(chats), Unmount(chats)
    PROVE  /\ current' = 0
           /\ chat' \in [Mounts -> Chat]
           /\ \A m \in Mounts : Slim(chat'[m]) /\ OffPage(chat'[m])
  <1>1. CASE current = 0
    BY <1>1 DEF Unmount, Fine, Mounts
  <1>2. CASE current # 0
    <2>1. current \in Mounts
      BY <1>2, ConnectionAssumption DEF TypeOK, Mounts
    <2>2. chat' = [chats EXCEPT ![current] = Unmounted(chats[current])]
      BY <1>2 DEF Unmount
    <2>3. /\ Unmounted(chats[current]) \in Chat
          /\ Slim(Unmounted(chats[current]))
          /\ OffPage(Unmounted(chats[current]))
      BY <2>1, UnmountedIsOff DEF Fine
    <2> QED
      BY <2>1, <2>2, <2>3 DEF Fine, Unmount
  <1> QED
    BY <1>1, <1>2

(* With other variables in order, that is the invariant.                   *)
LEMMA LeavingKeeps ==
    ASSUME IInv, NEW chats, Fine(chats), Unmount(chats),
           login' \in {0, login}, UNCHANGED <<logins, expired, mounts>>
    PROVE  IInv'
  <1>1. /\ current' = 0
        /\ chat' \in [Mounts -> Chat]
        /\ \A m \in Mounts : Slim(chat'[m]) /\ OffPage(chat'[m])
    BY UnmountKeeps DEF IInv
  <1>2. TypeOK'
    <2>1. /\ logins \in 0 .. MaxLogins /\ login \in 0 .. logins
          /\ mounts \in 0 .. MaxMounts
          /\ login' = 0 \/ login' = login
      BY DEF IInv, TypeOK
    <2>2. login' \in 0 .. logins /\ current' \in 0 .. mounts
      BY <1>1, <2>1
    <2> QED
      BY <1>1, <2>2 DEF IInv, TypeOK, Mounts
  <1>3. MountsInv'
    BY <1>1 DEF MountsInv, Mounts
  <1> QED
    BY <1>2, <1>3 DEF IInv

(* A step of one mount that stays where it is: its new state must be as    *)
(* good as the old one.                                                    *)
LEMMA MountStepKeeps ==
    ASSUME IInv, NEW m \in Mounts, NEW c \in Chat,
           chat' = [chat EXCEPT ![m] = c],
           c.token = chat[m].token,
           Slim(c), IF m = current THEN OnPage(c) ELSE OffPage(c),
           UNCHANGED <<logins, login, expired, mounts, current>>
    PROVE  IInv'
  <1>1. TypeOK'
    BY DEF IInv, TypeOK, Mounts
  <1>2. MountsInv'
    BY DEF IInv, TypeOK, MountsInv
  <1> QED
    BY <1>1, <1>2 DEF IInv

(* A step of mount m, to c, that may find the token expired: then the page *)
(* is left.                                                                *)
LEMMA AuthFailureKeeps ==
    ASSUME IInv, NEW m \in Mounts, NEW c \in Chat,
           Slim(c), m # current => OffPage(c),
           AuthFailure([chat EXCEPT ![m] = c]),
           UNCHANGED <<logins, expired, mounts>>
    PROVE  IInv'
  <1>1. Fine([chat EXCEPT ![m] = c])
    BY DEF IInv, TypeOK, MountsInv, Fine
  <1>2. Unmount([chat EXCEPT ![m] = c]) /\ login' = 0
    BY DEF AuthFailure
  <1> QED
    BY <1>1, <1>2, LeavingKeeps

(* connect: from a state in which nothing else is under way.               *)
LEMMA ConnectKeeps ==
    ASSUME IInv, NEW m \in Mounts, NEW c \in Chat,
           c.token = chat[m].token,
           c.load = "done", c.sockets = <<>>, c.timers = 0,
           m # current => c.leftEarly,
           Connect(m, c), UNCHANGED <<logins, expired, mounts>>
    PROVE  IInv'
  <1> DEFINE w == [c EXCEPT !.intentional = FALSE]
             n == [w EXCEPT !.sockets = Append(c.sockets, "connecting")]
  <1>1. /\ w \in Chat /\ w.load = "done" /\ w.sockets = <<>> /\ w.timers = 0
        /\ w.token = c.token /\ w.leftEarly = c.leftEarly /\ w.intentional = FALSE
    BY DEF Chat
  <1>2. CASE isJwtExpired(c.token)
    <2>1. Slim(w) /\ (m # current => OffPage(w))
      BY <1>1 DEF Slim, OffPage
    <2>2. AuthFailure([chat EXCEPT ![m] = w])
      BY <1>2 DEF Connect
    <2> HIDE DEF w
    <2> QED
      BY <1>1, <2>1, <2>2, AuthFailureKeeps
  <1>3. CASE ~isJwtExpired(c.token)
    <2>1. Append(c.sockets, "connecting") = <<"connecting">>
      OBVIOUS
    <2>2. n = [w EXCEPT !.sockets = <<"connecting">>]
      BY <2>1
    <2> HIDE DEF w
    <2>3. /\ n \in Chat /\ n.load = "done" /\ Len(n.sockets) = 1 /\ n.timers = 0
          /\ n.token = c.token /\ n.leftEarly = c.leftEarly /\ n.intentional = FALSE
      <3>1. /\ <<"connecting">> \in Seq(SocketState)
            /\ Len(<<"connecting">>) = 1
        BY DEF SocketState
      <3> DEFINE q == <<"connecting">>
      <3> HIDE DEF q
      <3>2. n = [w EXCEPT !.sockets = q] /\ q \in Seq(SocketState) /\ Len(q) = 1
        BY <2>2, <3>1 DEF q
      <3> HIDE DEF n
      <3> QED
        BY <1>1, <3>2 DEF Chat, SocketState
    <2>4. Slim(n) /\ IF m = current THEN OnPage(n) ELSE OffPage(n)
      BY <2>3 DEF Slim, OnPage, OffPage
    <2>5. chat' = [chat EXCEPT ![m] = n] /\ UNCHANGED <<login, current>>
      BY <1>1, <1>3 DEF Connect, w
    <2> HIDE DEF n
    <2> QED
      BY <2>3, <2>4, <2>5, MountStepKeeps
  <1> QED
    BY <1>2, <1>3

-----------------------------------------------------------------------------
(* The steps                                                               *)

(* Steps of a mount's load.                                                *)
LEMMA LoadSteps ==
    ASSUME IInv, NEW m \in Mounts, DatabaseOpened(m) \/ Loaded(m)
    PROVE  IInv'
  <1>1. /\ chat[m] \in Chat /\ Slim(chat[m])
        /\ IF m = current THEN OnPage(chat[m]) ELSE OffPage(chat[m])
    BY DEF IInv, TypeOK, MountsInv
  <1>2. CASE DatabaseOpened(m)
    <2> DEFINE c == [chat[m] EXCEPT !.load = "loading"]
    <2>1. chat' = [chat EXCEPT ![m] = c]
      BY <1>2 DEF DatabaseOpened, IInv, TypeOK
    <2>2. m = current
      BY <1>1, <1>2 DEF OffPage, DatabaseOpened
    <2>3. /\ c \in Chat /\ c.token = chat[m].token /\ c.load = "loading"
          /\ c.sockets = chat[m].sockets /\ c.timers = chat[m].timers
          /\ c.intentional = chat[m].intentional
      BY <1>1 DEF Chat
    <2>4. Slim(c) /\ OnPage(c)
      BY <1>1, <1>2, <2>2, <2>3 DEF Slim, OnPage, DatabaseOpened
    <2> HIDE DEF c
    <2> QED
      BY <1>2, <2>1, <2>2, <2>3, <2>4, MountStepKeeps DEF DatabaseOpened
  <1>3. CASE Loaded(m)
    <2>1. chat[m].load = "loading" /\ UNCHANGED <<logins, expired, mounts>>
      BY <1>3 DEF Loaded
    <2>2. chat[m].sockets = <<>> /\ chat[m].timers = 0
      BY <1>1, <2>1 DEF Slim
    <2>3. m # current => chat[m].leftEarly
      BY <1>1, <2>1 DEF OffPage
    <2>4. CASE Connect(m, [chat[m] EXCEPT !.load = "done"])
      <3> DEFINE c == [chat[m] EXCEPT !.load = "done"]
      <3>1. /\ c \in Chat /\ c.token = chat[m].token /\ c.load = "done"
            /\ c.sockets = <<>> /\ c.timers = 0 /\ c.leftEarly = chat[m].leftEarly
        BY <1>1, <2>2 DEF Chat
      <3>2. Connect(m, c)
        BY <2>4
      <3> HIDE DEF c
      <3> QED
        BY <2>1, <2>3, <3>1, <3>2, ConnectKeeps
    <2>5. CASE /\ chat' = [chat EXCEPT ![m].load = "nothing"]
               /\ UNCHANGED <<login, current>>
      <3> DEFINE c == [chat[m] EXCEPT !.load = "nothing"]
      <3>1. chat' = [chat EXCEPT ![m] = c]
        BY <2>5 DEF IInv, TypeOK
      <3>2. /\ c \in Chat /\ c.token = chat[m].token /\ c.load = "nothing"
            /\ c.sockets = <<>> /\ c.timers = 0
            /\ c.intentional = chat[m].intentional
        BY <1>1, <2>2 DEF Chat
      <3>3. Slim(c) /\ IF m = current THEN OnPage(c) ELSE OffPage(c)
        BY <1>1, <3>2 DEF Slim, OnPage, OffPage
      <3> HIDE DEF c
      <3> QED
        BY <2>1, <2>5, <3>1, <3>2, <3>3, MountStepKeeps
    <2> QED
      BY <1>3, <2>4, <2>5 DEF Loaded
  <1> QED
    BY <1>2, <1>3

(* A reconnection is due.                                                  *)
LEMMA TimerStep ==
    ASSUME IInv, NEW m \in Mounts, TimerFires(m)
    PROVE  IInv'
  <1> DEFINE c == [chat[m] EXCEPT !.timers = @ - 1]
  <1>1. /\ chat[m] \in Chat /\ Slim(chat[m])
        /\ IF m = current THEN OnPage(chat[m]) ELSE OffPage(chat[m])
    BY DEF IInv, TypeOK, MountsInv
  <1>2. chat[m].timers > 0 /\ Connect(m, c) /\ UNCHANGED <<logins, expired, mounts>>
    BY DEF TimerFires
  <1>3. chat[m].timers \in Nat /\ chat[m].sockets \in Seq(SocketState)
    BY <1>1 DEF Chat, SocketState
  <1>4. chat[m].load = "done" /\ chat[m].timers = 1 /\ Len(chat[m].sockets) = 0
    BY <1>1, <1>2, <1>3 DEF Slim
  <1>5. chat[m].sockets = <<>>
    BY <1>3, <1>4
  <1>6. m # current => chat[m].leftEarly
    BY <1>1, <1>4 DEF OffPage
  <1>7. /\ c \in Chat /\ c.token = chat[m].token /\ c.load = "done"
        /\ c.sockets = <<>> /\ c.timers = 0 /\ c.leftEarly = chat[m].leftEarly
    BY <1>1, <1>4, <1>5 DEF Chat
  <1> HIDE DEF c
  <1> QED
    BY <1>2, <1>6, <1>7, ConnectKeeps

(* The server's or the network's part: a socket opens or is answered.      *)
LEMMA SocketAdvances ==
    ASSUME IInv, NEW m \in Mounts, NEW i \in DOMAIN chat[m].sockets,
           OnOpen(m, i) \/ OnAnswer(m, i)
    PROVE  IInv'
  <1>1. /\ chat[m] \in Chat /\ Slim(chat[m])
        /\ IF m = current THEN OnPage(chat[m]) ELSE OffPage(chat[m])
    BY DEF IInv, TypeOK, MountsInv
  <1>2. chat[m].sockets \in Seq(SocketState)
    BY <1>1 DEF Chat, SocketState
  <1>3. chat[m].load = "done"
    BY <1>1, <1>2 DEF Slim
  <1>4. chat[m].sockets[i] # "closing"
    BY DEF OnOpen, OnAnswer
  <1>5. m # current => chat[m].leftEarly
    BY <1>1, <1>3, <1>4 DEF OffPage
  <1>6. \A st \in SocketState : \A dl \in FirstDelay .. MaxDelay :
            LET c == [chat[m] EXCEPT !.sockets = [@ EXCEPT ![i] = st], !.delay = dl] IN
            /\ c \in Chat /\ c.token = chat[m].token
            /\ Slim(c) /\ IF m = current THEN OnPage(c) ELSE OffPage(c)
    <2> TAKE st \in SocketState
    <2> TAKE dl \in FirstDelay .. MaxDelay
    <2> DEFINE ss == [chat[m].sockets EXCEPT ![i] = st]
               c == [chat[m] EXCEPT !.sockets = ss, !.delay = dl]
    <2>1. ss \in Seq(SocketState) /\ Len(ss) = Len(chat[m].sockets)
      BY <1>2
    <2> HIDE DEF ss
    <2>2. /\ c \in Chat /\ c.token = chat[m].token /\ c.load = chat[m].load
          /\ c.sockets = ss /\ c.timers = chat[m].timers
          /\ c.intentional = chat[m].intentional /\ c.leftEarly = chat[m].leftEarly
      BY <1>1, <2>1 DEF Chat, SocketState
    <2> HIDE DEF c
    <2>3. Slim(c) /\ IF m = current THEN OnPage(c) ELSE OffPage(c)
      BY <1>1, <1>3, <1>5, <2>1, <2>2 DEF Slim, OnPage, OffPage
    <2> QED
      BY <2>2, <2>3 DEF ss, c
  <1>7. chat[m].delay \in FirstDelay .. MaxDelay /\ FirstDelay \in FirstDelay .. MaxDelay
    BY <1>1, ConnectionAssumption DEF Chat
  <1>8. CASE OnOpen(m, i)
    <2> DEFINE c == [chat[m] EXCEPT !.sockets = [@ EXCEPT ![i] = "open"], !.delay = FirstDelay]
    <2>1. /\ c \in Chat /\ c.token = chat[m].token
          /\ Slim(c) /\ IF m = current THEN OnPage(c) ELSE OffPage(c)
      BY <1>6, <1>7 DEF SocketState
    <2>2. chat' = [chat EXCEPT ![m] = c]
      BY <1>1, <1>8 DEF OnOpen, IInv, TypeOK, Chat
    <2> HIDE DEF c
    <2> QED
      BY <1>8, <2>1, <2>2, MountStepKeeps DEF OnOpen
  <1>9. CASE OnAnswer(m, i)
    <2> DEFINE c == [chat[m] EXCEPT !.sockets = [@ EXCEPT ![i] = "answered"],
                                    !.delay = chat[m].delay]
               cs == [chat EXCEPT ![m].sockets[i] = "answered"]
    <2>1. /\ c \in Chat /\ c.token = chat[m].token
          /\ Slim(c) /\ IF m = current THEN OnPage(c) ELSE OffPage(c)
      BY <1>6, <1>7 DEF SocketState
    <2>2. c = [chat[m] EXCEPT !.sockets = [@ EXCEPT ![i] = "answered"]]
      BY <1>1 DEF Chat
    <2>3. cs = [chat EXCEPT ![m] = c]
      BY <2>2 DEF IInv, TypeOK
    <2>4. \/ AuthFailure(cs)
          \/ chat' = cs /\ UNCHANGED <<login, current>>
      BY <1>9 DEF OnAnswer
    <2>5. UNCHANGED <<logins, expired, mounts>>
      BY <1>9 DEF OnAnswer
    <2>6. \/ AuthFailure([chat EXCEPT ![m] = c])
          \/ chat' = [chat EXCEPT ![m] = c] /\ UNCHANGED <<login, current>>
      BY <2>3, <2>4
    <2> HIDE DEF c
    <2>7. CASE AuthFailure([chat EXCEPT ![m] = c])
      BY <2>1, <2>5, <2>7, AuthFailureKeeps
    <2>8. CASE chat' = [chat EXCEPT ![m] = c] /\ UNCHANGED <<login, current>>
      BY <2>1, <2>5, <2>8, MountStepKeeps
    <2> QED
      BY <2>6, <2>7, <2>8
  <1> QED
    BY <1>8, <1>9

(* A socket closes.                                                        *)
LEMMA SocketCloses ==
    ASSUME IInv, NEW m \in Mounts, NEW i \in DOMAIN chat[m].sockets, OnClose(m, i)
    PROVE  IInv'
  <1> DEFINE c == [chat[m] EXCEPT !.sockets = RemoveAt(chat[m].sockets, i)]
             d == Scheduled(c)
  <1>1. /\ chat[m] \in Chat /\ Slim(chat[m])
        /\ IF m = current THEN OnPage(chat[m]) ELSE OffPage(chat[m])
    BY DEF IInv, TypeOK, MountsInv
  <1>2. chat[m].sockets \in Seq(SocketState) /\ chat[m].timers \in Nat
    BY <1>1 DEF Chat, SocketState
  <1>3. Len(chat[m].sockets) <= 1
    BY <1>1, <1>2 DEF Slim
  <1>4. RemoveAt(chat[m].sockets, i) = <<>> /\ Len(chat[m].sockets) = 1
    BY <1>2, <1>3, RemoveOnly
  <1>5. chat[m].load = "done" /\ chat[m].timers = 0
    BY <1>1, <1>2, <1>4 DEF Slim
  <1>6. c = [chat[m] EXCEPT !.sockets = <<>>]
    BY <1>4
  <1>7. /\ c \in Chat /\ c.token = chat[m].token /\ c.load = "done"
        /\ c.sockets = <<>> /\ c.timers = 0
        /\ c.intentional = chat[m].intentional /\ c.leftEarly = chat[m].leftEarly
    <2> HIDE DEF c
    <2>1. <<>> \in Seq(SocketState)
      OBVIOUS
    <2> QED
      BY <1>1, <1>5, <1>6, <2>1 DEF Chat, SocketState
  <1>8. Slim(c) /\ (m # current => OffPage(c))
    BY <1>1, <1>5, <1>7 DEF Slim, OffPage
  <1>9. /\ UNCHANGED <<logins, expired, mounts>>
        /\ \/ AuthFailure([chat EXCEPT ![m] = c])
           \/ /\ chat' = [chat EXCEPT ![m] = IF c.intentional THEN c ELSE d]
              /\ UNCHANGED <<login, current>>
    BY DEF OnClose
  <1> HIDE DEF c
  <1>10. CASE AuthFailure([chat EXCEPT ![m] = c])
    BY <1>7, <1>8, <1>9, <1>10, AuthFailureKeeps
  <1>11. CASE /\ chat' = [chat EXCEPT ![m] = IF c.intentional THEN c ELSE d]
              /\ UNCHANGED <<login, current>>
    <2>1. CASE c.intentional
      <3>1. m # current
        BY <1>1, <1>7, <2>1 DEF OnPage
      <3> QED
        BY <1>7, <1>8, <1>9, <1>11, <2>1, <3>1, MountStepKeeps
    <2>2. CASE ~c.intentional
      <3>1. m # current => chat[m].leftEarly
        BY <1>1, <1>5, <1>7, <2>2 DEF OffPage
      <3>2. Doubled(c.delay) \in FirstDelay .. MaxDelay
        BY <1>7, ConnectionAssumption DEF Chat, Doubled
      <3>3. d = [c EXCEPT !.timers = 1, !.delay = Doubled(c.delay)]
        BY <1>7 DEF Scheduled
      <3> DEFINE dl == Doubled(c.delay)
      <3> HIDE DEF dl
      <3>4. d = [c EXCEPT !.timers = 1, !.delay = dl] /\ dl \in FirstDelay .. MaxDelay
        BY <3>2, <3>3 DEF dl
      <3> HIDE DEF d
      <3>5. /\ d \in Chat /\ d.token = c.token /\ d.load = "done"
            /\ d.sockets = <<>> /\ d.timers = 1
            /\ d.intentional = c.intentional /\ d.leftEarly = c.leftEarly
        BY <1>7, <3>4 DEF Chat
      <3>6. Slim(d) /\ IF m = current THEN OnPage(d) ELSE OffPage(d)
        BY <1>7, <2>2, <3>1, <3>5 DEF Slim, OnPage, OffPage
      <3>7. chat' = [chat EXCEPT ![m] = d]
        BY <1>11, <2>2
      <3> QED
        BY <1>7, <1>9, <1>11, <3>5, <3>6, <3>7, MountStepKeeps
    <2> QED
      BY <2>1, <2>2
  <1> QED
    BY <1>9, <1>10, <1>11

(* ChatPage is rendered.                                                   *)
LEMMA MountStep ==
    ASSUME IInv, Mount
    PROVE  IInv'
  <1> DEFINE c == Fresh(login)
  <1>1. /\ mounts' = mounts + 1 /\ mounts' \in Mounts
        /\ current' = mounts' /\ current = 0 /\ login # 0
        /\ UNCHANGED <<logins, login, expired>>
    BY ConnectionAssumption DEF IInv, TypeOK, Mount, Mounts
  <1>2. <<>> \in Seq(SocketState) /\ Len(<<>>) = 0
    OBVIOUS
  <1>3. login \in 0 .. MaxLogins /\ FirstDelay \in FirstDelay .. MaxDelay
    BY ConnectionAssumption DEF IInv, TypeOK
  <1>4. c \in Chat /\ Slim(c) /\ OnPage(c) /\ c.token = login
    BY <1>2, <1>3 DEF Fresh, Chat, SocketState, Slim, OnPage
  <1>5. chat' = [chat EXCEPT ![mounts'] = c]
    BY DEF Mount
  <1> HIDE DEF c
  <1>6. TypeOK'
    <2>1. chat' \in [Mounts -> Chat] /\ chat'[mounts'] = c
      BY <1>1, <1>4, <1>5 DEF IInv, TypeOK
    <2>2. mounts' \in 0 .. MaxMounts /\ current' \in 0 .. mounts'
      BY <1>1, ConnectionAssumption DEF IInv, TypeOK, Mounts
    <2>3. current' # 0 => login' # 0 /\ chat'[current'].token = login'
      BY <1>1, <1>4, <2>1
    <2> QED
      BY <1>1, <2>1, <2>2, <2>3 DEF IInv, TypeOK
  <1>7. MountsInv'
    <2> SUFFICES ASSUME NEW m \in Mounts
                 PROVE  /\ Slim(chat'[m])
                        /\ IF m = current' THEN OnPage(chat'[m]) ELSE OffPage(chat'[m])
      BY DEF MountsInv, Mounts
    <2>1. CASE m = mounts'
      BY <1>1, <1>4, <1>5, <2>1 DEF IInv, TypeOK
    <2>2. CASE m # mounts'
      <3>1. chat'[m] = chat[m] /\ m # current
        BY <1>1, <1>5, <2>2 DEF IInv, TypeOK, Mounts
      <3> QED
        BY <1>1, <2>2, <3>1 DEF IInv, MountsInv
    <2> QED
      BY <2>1, <2>2
  <1> QED
    BY <1>6, <1>7 DEF IInv

(* The page is left: by navigation, by logging out, or because a message   *)
(* is to be sent with an expired token.                                    *)
LEMMA LeaveSteps ==
    ASSUME IInv, Leave \/ HandleLogout \/ SendExpired
    PROVE  IInv'
  <1>1. Fine(chat)
    BY DEF IInv, TypeOK, MountsInv, Fine
  <1>2. current # 0
    BY DEF Leave, HandleLogout, SendExpired
  <1>3. current \in Mounts
    BY <1>2, ConnectionAssumption DEF IInv, TypeOK, Mounts
  <1>4. CASE Leave
    BY <1>1, <1>4, LeavingKeeps DEF Leave
  <1>5. CASE HandleLogout
    <2> DEFINE c == Disconnected(chat[current])
    <2>1. chat[current] \in Chat /\ Slim(chat[current])
      BY <1>1, <1>3 DEF Fine
    <2>2. c \in Chat /\ Slim(c)
      BY <2>1, DisconnectedIsQuiet
    <2>3. Unmount([chat EXCEPT ![current] = c])
      BY <1>5 DEF HandleLogout
    <2> HIDE DEF c
    <2>4. Fine([chat EXCEPT ![current] = c])
      BY <1>1, <1>3, <2>2 DEF Fine
    <2>5. login' \in {0, login} /\ UNCHANGED <<logins, expired, mounts>>
      BY <1>5 DEF HandleLogout
    <2> QED
      BY <2>3, <2>4, <2>5, LeavingKeeps
  <1>6. CASE SendExpired
    <2>1. Unmount(chat) /\ login' = 0 /\ UNCHANGED <<logins, expired, mounts>>
      BY <1>6 DEF SendExpired, AuthFailure
    <2> QED
      BY <1>1, <2>1, LeavingKeeps
  <1> QED
    BY <1>4, <1>5, <1>6

(* Steps that touch no mount.                                              *)
LEMMA OtherSteps ==
    ASSUME IInv, LogIn \/ (\E tok \in Logins : Expire(tok)) \/ UNCHANGED vars
    PROVE  IInv'
  <1>1. UNCHANGED <<mounts, current, chat>>
    BY DEF LogIn, Expire, vars
  <1>2. MountsInv'
    BY <1>1 DEF IInv, MountsInv
  <1>3. CASE LogIn
    <2>1. current = 0
      BY <1>3 DEF IInv, TypeOK, LogIn
    <2>2. /\ logins' \in 0 .. MaxLogins /\ login' \in 0 .. logins'
          /\ 1 .. logins \subseteq 1 .. logins' /\ expired' = expired
      BY <1>3, ConnectionAssumption DEF IInv, TypeOK, LogIn
    <2> QED
      BY <1>1, <1>2, <2>1, <2>2 DEF IInv, TypeOK
  <1>4. CASE \E tok \in Logins : Expire(tok)
    BY <1>1, <1>2, <1>4 DEF IInv, TypeOK, Expire
  <1>5. CASE UNCHANGED vars
    BY <1>2, <1>5 DEF IInv, TypeOK, vars
  <1> QED
    BY <1>3, <1>4, <1>5

(* The invariant holds at the start ...                                    *)
LEMMA InitHolds == Init => IInv
  <1> SUFFICES ASSUME Init PROVE IInv
    OBVIOUS
  <1>1. Fresh(0) \in Chat
    <2>1. <<>> \in Seq(SocketState)
      OBVIOUS
    <2>2. 0 \in 0 .. MaxLogins /\ FirstDelay \in FirstDelay .. MaxDelay
      BY ConnectionAssumption
    <2> QED
      BY <2>1, <2>2 DEF Fresh, Chat, SocketState
  <1>2. TypeOK
    BY <1>1, ConnectionAssumption DEF Init, TypeOK
  <1>3. Slim(Fresh(0)) /\ OffPage(Fresh(0))
    BY DEF Fresh, Slim, OffPage
  <1>4. MountsInv
    BY <1>3 DEF Init, MountsInv, Mounts
  <1> QED
    BY <1>2, <1>4 DEF IInv

(* ... and every step keeps it.                                            *)
LEMMA NextKeeps == IInv /\ [Next]_vars => IInv'
  <1> SUFFICES ASSUME IInv, [Next]_vars PROVE IInv'
    OBVIOUS
  <1>1. CASE \E m \in Mounts : DatabaseOpened(m) \/ Loaded(m)
    BY <1>1, LoadSteps
  <1>2. CASE \E m \in Mounts : TimerFires(m)
    BY <1>2, TimerStep
  <1>3. CASE \E m \in Mounts : \E i \in DOMAIN chat[m].sockets : SocketStep(m, i)
    BY <1>3, SocketAdvances, SocketCloses DEF SocketStep
  <1>4. CASE Mount
    BY <1>4, MountStep
  <1>5. CASE Leave \/ HandleLogout \/ SendExpired
    BY <1>5, LeaveSteps
  <1>6. CASE LogIn \/ (\E tok \in Logins : Expire(tok)) \/ UNCHANGED vars
    BY <1>6, OtherSteps
  <1> QED
    BY <1>1, <1>2, <1>3, <1>4, <1>5, <1>6 DEF Next

-----------------------------------------------------------------------------
(* The theorems                                                            *)

(* The inductive invariant, of which the rest are consequences.            *)
LEMMA Inductive == Spec => []IInv
  BY InitHolds, NextKeeps, PTL DEF Spec

(* Every variable keeps its shape: the delay of reconnections stays        *)
(* between its first value and its cap, whatever these are.                *)
THEOREM ConnectionTypeCorrect == Spec => []TypeOK
  <1>1. IInv => TypeOK
    BY DEF IInv
  <1> QED
    BY <1>1, Inductive, PTL

(* However sockets fail and pages come and go, a mount has one thing under *)
(* way at most, and exactly one while it is on the screen with its keys.   *)
THEOREM OneThingUnderWay == Spec => []OneContinuation
  <1>1. IInv => OneContinuation
    <2> SUFFICES ASSUME IInv, NEW m \in Mounts
                 PROVE  LET n == Continuations(chat[m]) IN
                        /\ n <= 1
                        /\ m = current /\ chat[m].load \in {"loading", "done"} => n = 1
      BY DEF OneContinuation
    <2>1. /\ Slim(chat[m]) /\ (m = current => OnPage(chat[m]))
          /\ chat[m].sockets \in Seq(SocketState) /\ chat[m].timers \in Nat
      BY DEF IInv, TypeOK, MountsInv, Chat, SocketState
    <2>2. Len(chat[m].sockets) \in Nat /\ Len(<<>>) = 0
      BY <2>1
    <2>3. CASE chat[m].load = "loading"
      <3>1. Continuations(chat[m]) = 1
        BY <2>1, <2>2, <2>3 DEF Slim, Continuations
      <3> QED
        BY <3>1
    <2>4. CASE chat[m].load # "loading"
      <3>1. Continuations(chat[m]) = Len(chat[m].sockets) + chat[m].timers
        BY <2>1, <2>2, <2>4 DEF Continuations
      <3> QED
        BY <2>1, <2>4, <3>1 DEF Slim, OnPage
    <2> QED
      BY <2>3, <2>4
  <1> QED
    BY <1>1, Inductive, PTL

(* Nothing connects behind a page that was left after its load.            *)
THEOREM LeftPagesAreQuiet == Spec => []QuietAfterUnmount
  <1>1. IInv => QuietAfterUnmount
    BY DEF IInv, MountsInv, OffPage, QuietAfterUnmount
  <1> QED
    BY <1>1, Inductive, PTL
=============================================================================
