---------------------------- MODULE DeviceSetup -----------------------------
(***************************************************************************)
(* How a browser comes to have a device: logging in (LoginPage,            *)
(* AuthContext), registering the device's keys with the auth service and   *)
(* keeping the private ones (DeviceSetupPage), and loading them to chat    *)
(* (useChat), in the tabs of one browser.                                  *)
(*                                                                         *)
(* Tabs share localStorage and IndexedDB, each has its own React state.    *)
(* A key pair is the number of the submission that generated it.  A tab    *)
(* has one form under way at most; it goes on when its page is left.       *)
(***************************************************************************)
EXTENDS Integers, Sequences, FiniteSets

CONSTANTS
    Tabs,
    Users,
    Names,        \* what a user may call a device
    Nobody,       \* not a user
    MaxSubmits,   \* bound: device forms submitted
    MaxFailures,  \* bound: requests and writes that fail
    MaxReloads,   \* bound: page reloads
    MaxLogins     \* bound: login forms submitted

(* What the constants must be.                                             *)
ASSUME DeviceSetupAssumption ==
    /\ Nobody \notin Users
    /\ MaxSubmits \in Nat /\ MaxFailures \in Nat /\ MaxReloads \in Nat /\ MaxLogins \in Nat

VARIABLES
    devices,      \* the auth service's table: a device's id is its index
    keys_table,   \* IndexedDB's keys-table, in the order of its rows' ids
    stored,       \* localStorage's userId and authToken
    \* --- a tab
    user,         \* AuthContext's userId and token
    page,         \* the route
    db,           \* isDBConnecting: "opening" or "open"
    checking,     \* DeviceSetupPage's effect awaits checkHasKeys
    form,         \* the login or device form under way
    loading,      \* ChatPage's effect has still to read keys-table
    keysRef,      \* what it found there
    \* --- history
    ended,        \* keys of setups that ended with an error or a reload
    \* --- counters
    submits, failures, reloads, logins

tabVars == <<user, page, db, checking, form, loading, keysRef>>
boundVars == <<submits, failures, reloads, logins>>
vars == <<devices, keys_table, stored, tabVars, ended, boundVars>>

Idle == [step |-> "idle"]
NoRow == [keys |-> 0, device |-> 0]

Init ==
    /\ devices = <<>>
    /\ keys_table = <<>>
    /\ stored = Nobody
    /\ user = [t \in Tabs |-> Nobody]
    /\ page = [t \in Tabs |-> "login"]
    /\ db = [t \in Tabs |-> "opening"]
    /\ checking = [t \in Tabs |-> FALSE]
    /\ form = [t \in Tabs |-> Idle]
    /\ loading = [t \in Tabs |-> FALSE]
    /\ keysRef = [t \in Tabs |-> NoRow]
    /\ ended = {}
    /\ submits = 0
    /\ failures = 0
    /\ reloads = 0
    /\ logins = 0

-----------------------------------------------------------------------------
(* Pages                                                                   *)

(* Mutant: the routes ask for no login.                                    *)
Anywhere(u, p) == p

(* The route p of App, for user u: only /login is open to nobody.          *)
Routed(u, p) == IF u = Nobody THEN "login" ELSE p

(* Tab t renders page p as user u.  ChatPage begins with a load, ...       *)
Show(t, u, p) ==
    LET q == Routed(u, p) IN
    /\ page' = [page EXCEPT ![t] = q]
    /\ loading' = [loading EXCEPT ![t] = q = "chat" /\ (page[t] = "chat" => @)]
    /\ keysRef' = [keysRef EXCEPT ![t] = IF q = "chat" /\ page[t] = "chat" THEN @ ELSE NoRow]

(* ... and DeviceSetupPage with a check, if the database is open.          *)
ChecksOnMount(t, u, p) ==
    Routed(u, p) = "setup" /\ page[t] # "setup" /\ db[t] = "open"

Goto(t, u, p) ==
    /\ Show(t, u, p)
    /\ checking' = [checking EXCEPT ![t] = @ \/ ChecksOnMount(t, u, p)]

(* Mutant: the effect runs on mounting only.                               *)
NeverChecks(t) == FALSE

(* The effect runs again when isDBConnecting changes.                      *)
ChecksWhenOpened(t) == page[t] = "setup"

OpenDB(t) ==
    /\ db[t] = "opening"
    /\ db' = [db EXCEPT ![t] = "open"]
    /\ checking' = [checking EXCEPT ![t] = @ \/ ChecksWhenOpened(t)]
    /\ UNCHANGED <<devices, keys_table, stored, user, page, form, loading, keysRef,
                   ended, boundVars>>

(* The effect's checkHasKeys is answered: a device that exists goes on to  *)
(* chat, whatever page the tab shows by now.                               *)
CheckHasKeys(t) ==
    /\ checking[t]
    /\ checking' = [checking EXCEPT ![t] = FALSE]
    /\ IF keys_table # <<>> THEN Show(t, user[t], "chat")
       ELSE UNCHANGED <<page, loading, keysRef>>
    /\ UNCHANGED <<devices, keys_table, stored, user, db, form, ended, boundVars>>

(* Mutant: the keys stored last are used.                                  *)
LastRow == keys_table[Len(keys_table)]

(* dbKeys[0]                                                               *)
TheRow == keys_table[1]

(* The load of useChat takes the first row; without one it ends there.     *)
LoadKeys(t) ==
    /\ loading[t]
    /\ loading' = [loading EXCEPT ![t] = FALSE]
    /\ keysRef' = [keysRef EXCEPT ![t] = IF keys_table = <<>> THEN NoRow ELSE TheRow]
    /\ UNCHANGED <<devices, keys_table, stored, user, page, db, checking, form, ended,
                   boundVars>>

(* The user goes back, forward, or follows a link within the application.  *)
Navigate(t, p) ==
    /\ p # page[t]
    /\ Goto(t, user[t], p)
    /\ UNCHANGED <<devices, keys_table, stored, user, db, form, ended, boundVars>>

-----------------------------------------------------------------------------
(* Login and logout                                                        *)

(* handleLogin: it will check with the isDBConnecting of this moment.      *)
HandleLogin(t, u) ==
    /\ page[t] = "login"
    /\ form[t] = Idle
    /\ logins < MaxLogins
    /\ logins' = logins + 1
    /\ form' = [form EXCEPT ![t] = [step |-> "login", user |-> u, db |-> db[t]]]
    /\ UNCHANGED <<devices, keys_table, stored, user, page, db, checking, loading,
                   keysRef, ended, submits, failures, reloads>>

(* login is answered: state first, localStorage by the effect after it.    *)
LoginAnswered(t) ==
    /\ form[t].step = "login"
    /\ user' = [user EXCEPT ![t] = form[t].user]
    /\ stored' = form[t].user
    /\ form' = [form EXCEPT ![t].step = "check"]
    /\ UNCHANGED <<devices, keys_table, page, db, checking, loading, keysRef, ended,
                   boundVars>>

(* Login failed: the user may try again.                                   *)
LoginFailed(t) ==
    /\ form[t].step = "login"
    /\ form' = [form EXCEPT ![t] = Idle]
    /\ UNCHANGED <<devices, keys_table, stored, user, page, db, checking, loading,
                   keysRef, ended, boundVars>>

(* Its checkHasKeys is answered.                                           *)
LoginChecked(t) ==
    LET hasKeys == form[t].db = "open" /\ keys_table # <<>> IN
    /\ form[t].step = "check"
    /\ form' = [form EXCEPT ![t] = Idle]
    /\ Goto(t, user[t], IF hasKeys THEN "chat" ELSE "setup")
    /\ UNCHANGED <<devices, keys_table, stored, user, db, ended, boundVars>>

Logout(t) ==
    /\ page[t] = "chat"
    /\ user' = [user EXCEPT ![t] = Nobody]
    /\ stored' = Nobody
    /\ Goto(t, Nobody, "login")
    /\ UNCHANGED <<devices, keys_table, db, form, ended, boundVars>>

-----------------------------------------------------------------------------
(* The device form                                                         *)

(* handleSubmit: fresh keys, the user and the name of this moment.         *)
HandleSubmit(t, n) ==
    /\ page[t] = "setup"
    /\ db[t] = "open"
    /\ form[t] = Idle
    /\ submits < MaxSubmits
    /\ submits' = submits + 1
    /\ form' = [form EXCEPT ![t] =
                   [step |-> "uploading", user |-> user[t], name |-> n, keys |-> submits']]
    /\ UNCHANGED <<devices, keys_table, stored, user, page, db, checking, loading,
                   keysRef, ended, failures, reloads, logins>>

(* UNIQUE (user_id, device_name)                                           *)
Refused(f) == \E i \in DOMAIN devices : devices[i].user = f.user /\ devices[i].name = f.name

(* upload_device inserts the device and answers with its id.               *)
UploadDevice(t) ==
    LET f == form[t] IN
    /\ f.step = "uploading"
    /\ ~Refused(f)
    /\ devices' = Append(devices, [user |-> f.user, name |-> f.name, keys |-> f.keys])
    /\ form' = [form EXCEPT ![t] =
                   [step |-> "answered", keys |-> f.keys, device |-> Len(devices')]]
    /\ UNCHANGED <<keys_table, stored, user, page, db, checking, loading, keysRef,
                   ended, boundVars>>

(* Failed to register device.  Please try again.                           *)
GiveUp(t) ==
    /\ form' = [form EXCEPT ![t] = Idle]
    /\ ended' = ended \cup {form[t].keys}
    /\ UNCHANGED <<devices, keys_table, stored, user, page, db, checking, loading, keysRef,
                   submits, reloads, logins>>

UploadRefused(t) ==
    /\ form[t].step = "uploading"
    /\ Refused(form[t])
    /\ GiveUp(t)
    /\ UNCHANGED failures

(* The request or its answer is lost, or the write to IndexedDB fails.     *)
SubmitFails(t) ==
    /\ form[t].step \in {"uploading", "answered"}
    /\ failures < MaxFailures
    /\ failures' = failures + 1
    /\ GiveUp(t)

(* Mutant: every row has the same key.                                     *)
Overwritten(row) == <<row>>

(* putValue: the table's rows have automatic ids.                          *)
WithRow(row) == Append(keys_table, row)

(* putKeys, and on to chat.                                                *)
PutKeys(t) ==
    /\ form[t].step = "answered"
    /\ keys_table' = WithRow([keys |-> form[t].keys, device |-> form[t].device])
    /\ form' = [form EXCEPT ![t] = Idle]
    /\ Goto(t, user[t], "chat")
    /\ UNCHANGED <<devices, stored, user, db, ended, boundVars>>

(* A reload starts over with what localStorage has and the same route.     *)
Reload(t) ==
    /\ reloads < MaxReloads
    /\ reloads' = reloads + 1
    /\ user' = [user EXCEPT ![t] = stored]
    /\ page' = [page EXCEPT ![t] = Routed(stored, @)]
    /\ db' = [db EXCEPT ![t] = "opening"]
    /\ checking' = [checking EXCEPT ![t] = FALSE]
    /\ loading' = [loading EXCEPT ![t] = page'[t] = "chat"]
    /\ keysRef' = [keysRef EXCEPT ![t] = NoRow]
    /\ form' = [form EXCEPT ![t] = Idle]
    /\ ended' = IF "keys" \in DOMAIN form[t] THEN ended \cup {form[t].keys} ELSE ended
    /\ UNCHANGED <<devices, keys_table, stored, submits, failures, logins>>

TabStep(t) ==
    \/ OpenDB(t)
    \/ CheckHasKeys(t)
    \/ LoadKeys(t)
    \/ \E p \in {"login", "setup", "chat"} : Navigate(t, p)
    \/ \E u \in Users : HandleLogin(t, u)
    \/ LoginAnswered(t)
    \/ LoginFailed(t)
    \/ LoginChecked(t)
    \/ Logout(t)
    \/ \E n \in Names : HandleSubmit(t, n)
    \/ UploadRefused(t)
    \/ SubmitFails(t)
    \/ PutKeys(t)
    \/ Reload(t)

Next == \E t \in Tabs : TabStep(t) \/ UploadDevice(t)

Spec == Init /\ [][Next]_vars

(* Fairness: the database opens and IndexedDB answers.  Users need do      *)
(* nothing, and requests may take for ever.                                *)
FairSpec == Spec /\ \A t \in Tabs : WF_vars(OpenDB(t)) /\ WF_vars(CheckHasKeys(t))

-----------------------------------------------------------------------------
(* Properties                                                              *)

Keys == 1 .. MaxSubmits
DeviceIds == Nat \ {0}
Row == [keys : Keys, device : DeviceIds]
Form ==
    {Idle}
    \cup [step : {"login", "check"}, user : Users, db : {"opening", "open"}]
    \cup [step : {"uploading"}, user : Users, name : Names, keys : Keys]
    \cup [step : {"answered"}, keys : Keys, device : DeviceIds]

(* Every variable keeps its shape; a page but /login has a user.           *)
TypeOK ==
    /\ devices \in Seq([user : Users, name : Names, keys : Keys])
    /\ keys_table \in Seq(Row)
    /\ stored \in Users \cup {Nobody}
    /\ user \in [Tabs -> Users \cup {Nobody}]
    /\ page \in [Tabs -> {"login", "setup", "chat"}]
    /\ \A t \in Tabs : user[t] = Nobody => page[t] = "login"
    /\ db \in [Tabs -> {"opening", "open"}]
    /\ form \in [Tabs -> Form]
    /\ checking \in [Tabs -> BOOLEAN] /\ loading \in [Tabs -> BOOLEAN]
    /\ keysRef \in [Tabs -> Row \cup {NoRow}]
    /\ ended \subseteq Keys
    /\ submits \in 0 .. MaxSubmits /\ failures \in 0 .. MaxFailures
    /\ reloads \in 0 .. MaxReloads /\ logins \in 0 .. MaxLogins

(* A device the auth service hands out has its private keys in the         *)
(* browser, unless its setup is under way, the user was told that it       *)
(* failed, or the page was left.                                           *)
NoSilentOrphan ==
    \A i \in DOMAIN devices :
        LET k == devices[i].keys IN
        \/ \E r \in DOMAIN keys_table : keys_table[r] = [keys |-> k, device |-> i]
        \/ \E t \in Tabs : form[t].step \in {"uploading", "answered"} /\ form[t].keys = k
        \/ k \in ended

(* The tabs of a browser chat as one device, whichever tab registered it,  *)
(* also when two tabs registered one each or a device was set up again.    *)
OneDevicePerBrowser ==
    \A t, s \in Tabs : keysRef[t] # NoRow /\ keysRef[s] # NoRow => keysRef[t] = keysRef[s]

(* "If keys already exist (returning device), skip straight to chat"       *)
(* (DeviceSetupPage.tsx:34): also when the database opens after the page.  *)
SkipsToChat ==
    \A t \in Tabs :
        (page[t] = "setup" /\ (db[t] = "opening" \/ checking[t]) /\ keys_table # <<>>)
            ~> page[t] # "setup"

=============================================================================
