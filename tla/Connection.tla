----------------------------- MODULE Connection -----------------------------
(***************************************************************************)
(* The connection of a tab over mounts of ChatPage, logins and expired     *)
(* tokens: connect, disconnect and the callbacks of the WebSocket in       *)
(* useChat.ts, the effect that loads IndexedDB first, and ChatPage's ways  *)
(* back to the login page.                                                 *)
(*                                                                         *)
(* The refs and callbacks of a mount outlive it, so each mount has a       *)
(* record of its own; `current` is the one on the screen.  A token is the  *)
(* number of the login that obtained it.                                   *)
(***************************************************************************)
EXTENDS Integers, Sequences, SequencesExt

CONSTANTS
    FirstDelay, MaxDelay,   \* of a reconnection: 1 s and 30 s
    MaxLogins,              \* bound: logins
    MaxMounts               \* bound: visits of ChatPage

(* What the constants must be.                                             *)
ASSUME ConnectionAssumption ==
    /\ FirstDelay \in Nat \ {0} /\ MaxDelay \in Nat /\ FirstDelay <= MaxDelay
    /\ MaxLogins \in Nat /\ MaxMounts \in Nat

VARIABLES
    logins,    \* how many there have been
    login,     \* AuthContext's token: 0 is none
    expired,   \* tokens that have expired
    mounts,    \* how many there have been
    current,   \* the one that is mounted, or 0
    chat       \* the state of each

vars == <<logins, login, expired, mounts, current, chat>>

Mounts == 1 .. MaxMounts
Logins == 1 .. MaxLogins

(* useChat as first rendered.                                              *)
Fresh(tok) ==
    [token |-> tok,
     load |-> "opening",      \* the effect: until isDBConnecting, then reading
     sockets |-> <<>>,        \* those not closed; socketRef is the last
     timers |-> 0,            \* reconnections scheduled
     delay |-> FirstDelay,    \* reconnectDelayRef
     intentional |-> FALSE,   \* intentionalDisconnectRef
     leftEarly |-> FALSE]     \* history: unmounted during the load

Init ==
    /\ logins = 0
    /\ login = 0
    /\ expired = {}
    /\ mounts = 0
    /\ current = 0
    /\ chat = [m \in Mounts |-> Fresh(0)]

-----------------------------------------------------------------------------
(* Leaving                                                                 *)

(* Mutant: a reconnection that is scheduled stays so.                      *)
KeepsTimer(c) ==
    [c EXCEPT
        !.intentional = TRUE,
        !.sockets = [i \in DOMAIN @ |-> IF i = Len(@) THEN "closing" ELSE @[i]]]

(* disconnect                                                              *)
Disconnected(c) ==
    [c EXCEPT
        !.intentional = TRUE,
        !.timers = IF @ > 0 THEN @ - 1 ELSE 0,
        !.sockets = [i \in DOMAIN @ |-> IF i = Len(@) THEN "closing" ELSE @[i]]]

(* The cleanup of the effect, which has none before the database is open.  *)
Unmounted(c) ==
    IF c.load = "opening" THEN [c EXCEPT !.load = "abandoned"]
    ELSE [Disconnected(c) EXCEPT !.leftEarly = c.load = "loading"]

(* The page is left, with the mounts' state otherwise as in `chats`.       *)
Unmount(chats) ==
    /\ current' = 0
    /\ chat' = IF current = 0 THEN chats ELSE [chats EXCEPT ![current] = Unmounted(@)]

(* handleAuthFailure: log out, whatever login it is by now, and go to the  *)
(* login page.                                                             *)
AuthFailure(chats) ==
    /\ login' = 0
    /\ Unmount(chats)

(* Mutant: a token is never taken for expired.                             *)
NeverExpired(tok) == FALSE

isJwtExpired(tok) == tok \in expired

-----------------------------------------------------------------------------
(* Connecting                                                              *)

(* connect, with c the state of mount m so far.                            *)
Connect(m, c) ==
    LET willing == [c EXCEPT !.intentional = FALSE] IN
    IF isJwtExpired(c.token)
    THEN AuthFailure([chat EXCEPT ![m] = willing])
    ELSE /\ chat' = [chat EXCEPT ![m] = [willing EXCEPT !.sockets = Append(@, "connecting")]]
         /\ UNCHANGED <<login, current>>

DatabaseOpened(m) ==
    /\ chat[m].token # 0
    /\ chat[m].load = "opening"
    /\ chat' = [chat EXCEPT ![m].load = "loading"]
    /\ UNCHANGED <<logins, login, expired, mounts, current>>

(* The load ends, mounted or not: there are keys, or no keys or an error.  *)
Loaded(m) ==
    /\ chat[m].load = "loading"
    /\ \/ Connect(m, [chat[m] EXCEPT !.load = "done"])
       \/ /\ chat' = [chat EXCEPT ![m].load = "nothing"]
          /\ UNCHANGED <<login, current>>
    /\ UNCHANGED <<logins, expired, mounts>>

OnOpen(m, i) ==
    /\ chat[m].sockets[i] = "connecting"
    /\ chat' = [chat EXCEPT ![m].sockets[i] = "open", ![m].delay = FirstDelay]
    /\ UNCHANGED <<logins, login, expired, mounts, current>>

(* The server answers `authenticate`.  An error with a token that has      *)
(* expired leads to the login page; any other answer, one that was sent    *)
(* before the token expired too, leaves the connection established.        *)
OnAnswer(m, i) ==
    LET answered == [chat EXCEPT ![m].sockets[i] = "answered"] IN
    /\ chat[m].sockets[i] = "open"
    /\ \/ isJwtExpired(chat[m].token) /\ AuthFailure(answered)
       \/ chat' = answered /\ UNCHANGED <<login, current>>
    /\ UNCHANGED <<logins, expired, mounts>>

(* Mutant: the delay grows for ever.                                       *)
Twice(delay) == 2 * delay

Doubled(delay) == IF 2 * delay > MaxDelay THEN MaxDelay ELSE 2 * delay

(* Mutant: onerror schedules a reconnection too.                           *)
ScheduledTwice(c) == [c EXCEPT !.timers = @ + 2]

(* setTimeout(() => connect(), delay)                                      *)
Scheduled(c) == [c EXCEPT !.timers = @ + 1, !.delay = Doubled(@)]

(* A socket closes: the server or the network, or close() is done.         *)
OnClose(m, i) ==
    LET c == [chat[m] EXCEPT !.sockets = RemoveAt(@, i)] IN
    /\ IF ~c.intentional /\ isJwtExpired(c.token)
       THEN AuthFailure([chat EXCEPT ![m] = c])
       ELSE /\ chat' = [chat EXCEPT ![m] =
                           IF c.intentional THEN c ELSE Scheduled(c)]
            /\ UNCHANGED <<login, current>>
    /\ UNCHANGED <<logins, expired, mounts>>

TimerFires(m) ==
    /\ chat[m].timers > 0
    /\ Connect(m, [chat[m] EXCEPT !.timers = @ - 1])
    /\ UNCHANGED <<logins, expired, mounts>>

-----------------------------------------------------------------------------
(* The user, and time                                                      *)

LogIn ==
    /\ login = 0
    /\ logins < MaxLogins
    /\ logins' = logins + 1
    /\ login' = logins'
    /\ UNCHANGED <<expired, mounts, current, chat>>

Mount ==
    /\ login # 0
    /\ current = 0
    /\ mounts < MaxMounts
    /\ mounts' = mounts + 1
    /\ current' = mounts'
    /\ chat' = [chat EXCEPT ![mounts'] = Fresh(login)]
    /\ UNCHANGED <<logins, login, expired>>

(* The user goes to another page ...                                       *)
Leave ==
    /\ current # 0
    /\ Unmount(chat)
    /\ UNCHANGED <<logins, login, expired, mounts>>

(* ... or logs out: handleLogout disconnects, and so does unmounting.      *)
HandleLogout ==
    /\ current # 0
    /\ login' = 0
    /\ Unmount([chat EXCEPT ![current] = Disconnected(@)])
    /\ UNCHANGED <<logins, expired, mounts>>

(* sendMessage with an expired token                                       *)
SendExpired ==
    /\ current # 0
    /\ isJwtExpired(chat[current].token)
    /\ AuthFailure(chat)
    /\ UNCHANGED <<logins, expired, mounts>>

Expire(tok) ==
    /\ tok \in 1 .. logins \ expired
    /\ expired' = expired \cup {tok}
    /\ UNCHANGED <<logins, login, mounts, current, chat>>

SocketStep(m, i) == OnOpen(m, i) \/ OnAnswer(m, i) \/ OnClose(m, i)

Next ==
    \/ \E m \in Mounts :
           \/ DatabaseOpened(m)
           \/ Loaded(m)
           \/ TimerFires(m)
           \/ \E i \in DOMAIN chat[m].sockets : SocketStep(m, i)
    \/ LogIn
    \/ Mount
    \/ Leave
    \/ HandleLogout
    \/ SendExpired
    \/ \E tok \in Logins : Expire(tok)

Spec == Init /\ [][Next]_vars

(* Fairness: IndexedDB answers, timers fire, and a socket that is          *)
(* connecting, waiting for the server's answer or closing gets further or  *)
(* closes.  Nothing closes a connection that is established.               *)
Unsettled(m) ==
    \E i \in DOMAIN chat[m].sockets :
        chat[m].sockets[i] # "answered" /\ SocketStep(m, i)

FairSpec ==
    /\ Spec
    /\ \A m \in Mounts :
           WF_vars(DatabaseOpened(m) \/ Loaded(m) \/ TimerFires(m) \/ Unsettled(m))

-----------------------------------------------------------------------------
(* Properties                                                              *)

Chat ==
    [token : 0 .. MaxLogins,
     load : {"opening", "loading", "done", "nothing", "abandoned"},
     sockets : Seq({"connecting", "open", "answered", "closing"}),
     timers : Nat, delay : FirstDelay .. MaxDelay,
     intentional : BOOLEAN, leftEarly : BOOLEAN]

(* Every variable keeps its shape: a delay stays below its cap, and what   *)
(* is mounted has the token of the login.                                  *)
TypeOK ==
    /\ logins \in 0 .. MaxLogins /\ login \in 0 .. logins
    /\ expired \subseteq 1 .. logins
    /\ mounts \in 0 .. MaxMounts /\ current \in 0 .. mounts
    /\ chat \in [Mounts -> Chat]
    /\ current # 0 => login # 0 /\ chat[current].token = login

Continuations(c) ==
    Len(c.sockets) + c.timers + (IF c.load = "loading" THEN 1 ELSE 0)

(* A mount has one thing under way at most: its load, a reconnection that  *)
(* is scheduled or a socket; and while it is on the screen and has keys,   *)
(* exactly one.  So the page neither opens two connections at once,        *)
(* however sockets fail, nor gives up on connecting.                       *)
OneContinuation ==
    \A m \in Mounts :
        LET n == Continuations(chat[m]) IN
        n <= 1 /\ (m = current /\ chat[m].load \in {"loading", "done"} => n = 1)

(* A page that was left after its load has no reconnection scheduled and   *)
(* no socket but one that is closing, so nothing connects behind the login *)
(* page or the next mount.                                                 *)
QuietAfterUnmount ==
    \A m \in Mounts :
        m # current /\ chat[m].load = "done" /\ ~chat[m].leftEarly =>
            /\ chat[m].timers = 0
            /\ \A i \in DOMAIN chat[m].sockets : chat[m].sockets[i] = "closing"

OnScreen(m) == m = current /\ chat[m].load = "done"
SocketIs(m, S) == \E i \in DOMAIN chat[m].sockets : chat[m].sockets[i] \in S

(* As long as the page is on the screen there will be another attempt to   *)
(* connect, however often sockets close; but once its token has expired it *)
(* does not try for ever: unless its connection was established, the user  *)
(* gets to the login page.                                                 *)
RetriesUntilExpired ==
    \A m \in Mounts :
        /\ OnScreen(m) ~> ~OnScreen(m) \/ SocketIs(m, {"connecting", "open", "answered"})
        /\ (OnScreen(m) /\ chat[m].token \in expired)
               ~> ~OnScreen(m) \/ SocketIs(m, {"answered"})

=============================================================================
