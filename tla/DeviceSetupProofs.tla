------------------------- MODULE DeviceSetupProofs --------------------------
(***************************************************************************)
(* Proofs, for any tabs, users and device names and any number of logins,  *)
(* submissions, failures and reloads, of the invariants of module          *)
(* DeviceSetup.                                                            *)
(***************************************************************************)
EXTENDS DeviceSetup, TLAPS

-----------------------------------------------------------------------------
(* Types                                                                   *)

Pages == {"login", "setup", "chat"}

(* What the forms are made of.                                             *)
LEMMA FormFields ==
    ASSUME NEW f \in Form
    PROVE  /\ f.step \in {"idle", "login", "check", "uploading", "answered"}
           /\ f.step = "login" => f.user \in Users /\ [f EXCEPT !.step = "check"] \in Form
           /\ f.step = "uploading" => /\ f.user \in Users /\ f.name \in Names
                                      /\ f.keys \in Keys /\ "keys" \in DOMAIN f
           /\ f.step = "answered" => /\ f.keys \in Keys /\ f.device \in DeviceIds
                                     /\ "keys" \in DOMAIN f
           /\ "keys" \in DOMAIN f => f.keys \in Keys
  <1>1. CASE f = Idle
    BY <1>1 DEF Idle
  <1>2. CASE f \in [step : {"login", "check"}, user : Users, db : {"opening", "open"}]
    BY <1>2 DEF Form
  <1>3. CASE f \in [step : {"uploading"}, user : Users, name : Names, keys : Keys]
    BY <1>3
  <1>4. CASE f \in [step : {"answered"}, keys : Keys, device : DeviceIds]
    BY <1>4
  <1> QED
    BY <1>1, <1>2, <1>3, <1>4 DEF Form

(* What a tab is put to is one of its pages, with nobody the login page.   *)
LEMMA ShowType ==
    ASSUME TypeOK, NEW t \in Tabs, NEW u \in Users \cup {Nobody}, NEW p \in Pages,
           Show(t, u, p), user' = [user EXCEPT ![t] = u]
    PROVE  /\ page' \in [Tabs -> Pages]
           /\ loading' \in [Tabs -> BOOLEAN]
           /\ keysRef' \in [Tabs -> Row \cup {NoRow}]
           /\ \A s \in Tabs : user'[s] = Nobody => page'[s] = "login"
  <1> DEFINE q == Routed(u, p)
             b == q = "chat" /\ (page[t] = "chat" => loading[t])
  <1>1. q \in Pages /\ (u = Nobody => q = "login")
    BY DEF Routed, Pages
  <1>2. page' = [page EXCEPT ![t] = q] /\ loading' = [loading EXCEPT ![t] = b]
    BY DEF Show
  <1>3. b \in BOOLEAN
    OBVIOUS
  <1> HIDE DEF q, b
  <1>4. page' \in [Tabs -> Pages] /\ loading' \in [Tabs -> BOOLEAN]
    BY <1>1, <1>2, <1>3 DEF TypeOK, Pages
  <1>5. keysRef' \in [Tabs -> Row \cup {NoRow}]
    BY DEF TypeOK, Show
  <1>6. \A s \in Tabs : user'[s] = Nobody => page'[s] = "login"
    BY <1>1, <1>2 DEF TypeOK
  <1> QED
    BY <1>4, <1>5, <1>6

(* Going to a page may begin a check.                                      *)
LEMMA GotoType ==
    ASSUME TypeOK, NEW t \in Tabs, NEW u \in Users \cup {Nobody}, NEW p \in Pages,
           Goto(t, u, p), user' = [user EXCEPT ![t] = u]
    PROVE  /\ page' \in [Tabs -> Pages]
           /\ loading' \in [Tabs -> BOOLEAN]
           /\ keysRef' \in [Tabs -> Row \cup {NoRow}]
           /\ checking' \in [Tabs -> BOOLEAN]
           /\ \A s \in Tabs : user'[s] = Nobody => page'[s] = "login"
  <1> DEFINE b == checking[t] \/ ChecksOnMount(t, u, p)
  <1>1. checking' = [checking EXCEPT ![t] = b] /\ b \in BOOLEAN
    BY DEF Goto, TypeOK, ChecksOnMount
  <1> HIDE DEF b
  <1>2. checking' \in [Tabs -> BOOLEAN]
    BY <1>1 DEF TypeOK
  <1> QED
    BY <1>2, ShowType DEF Goto

(* Steps that leave form, keys and devices alone.                          *)
LEMMA PageStepsType ==
    ASSUME TypeOK, NEW t \in Tabs,
           \/ OpenDB(t) \/ CheckHasKeys(t) \/ LoadKeys(t)
           \/ \E p \in Pages : Navigate(t, p)
           \/ Logout(t)
    PROVE  TypeOK'
  <1>1. CASE OpenDB(t)
    <2> DEFINE b == checking[t] \/ ChecksWhenOpened(t)
    <2>1. checking' = [checking EXCEPT ![t] = b] /\ b \in BOOLEAN
      BY <1>1 DEF OpenDB, TypeOK, ChecksWhenOpened
    <2> HIDE DEF b
    <2>2. checking' \in [Tabs -> BOOLEAN]
      BY <2>1 DEF TypeOK
    <2> QED
      BY <1>1, <2>2 DEF TypeOK, OpenDB, boundVars
  <1>2. CASE CheckHasKeys(t)
    <2>1. checking' \in [Tabs -> BOOLEAN] /\ user' = [user EXCEPT ![t] = user[t]]
      BY <1>2 DEF CheckHasKeys, TypeOK
    <2>2. /\ page' \in [Tabs -> Pages]
          /\ loading' \in [Tabs -> BOOLEAN]
          /\ keysRef' \in [Tabs -> Row \cup {NoRow}]
          /\ \A s \in Tabs : user'[s] = Nobody => page'[s] = "login"
      <3>1. CASE Show(t, user[t], "chat")
        <4>1. user[t] \in Users \cup {Nobody} /\ "chat" \in Pages
          BY DEF TypeOK, Pages
        <4> QED
          BY <2>1, <3>1, <4>1, ShowType
      <3>2. CASE UNCHANGED <<page, loading, keysRef>>
        BY <1>2, <3>2 DEF TypeOK, Pages, CheckHasKeys
      <3> QED
        BY <1>2, <3>1, <3>2 DEF CheckHasKeys
    <2> QED
      BY <1>2, <2>1, <2>2 DEF TypeOK, CheckHasKeys, boundVars, Pages
  <1>3. CASE LoadKeys(t)
    <2>1. keys_table # <<>> => TheRow \in Row
      BY DEF TypeOK, TheRow
    <2>2. keysRef' \in [Tabs -> Row \cup {NoRow}]
      BY <1>3, <2>1 DEF LoadKeys, TypeOK
    <2>3. loading' \in [Tabs -> BOOLEAN]
      BY <1>3 DEF LoadKeys, TypeOK
    <2> QED
      BY <1>3, <2>2, <2>3 DEF TypeOK, LoadKeys, boundVars
  <1>4. CASE \E p \in Pages : Navigate(t, p)
    <2>1. PICK p \in Pages : Navigate(t, p)
      BY <1>4
    <2>2. user[t] \in Users \cup {Nobody} /\ user' = [user EXCEPT ![t] = user[t]]
      BY <2>1 DEF TypeOK, Navigate
    <2>3. Goto(t, user[t], p)
      BY <2>1 DEF Navigate
    <2>4. /\ page' \in [Tabs -> Pages]
          /\ loading' \in [Tabs -> BOOLEAN]
          /\ keysRef' \in [Tabs -> Row \cup {NoRow}]
          /\ checking' \in [Tabs -> BOOLEAN]
          /\ \A s \in Tabs : user'[s] = Nobody => page'[s] = "login"
      BY <2>2, <2>3, GotoType
    <2> QED
      BY <2>1, <2>4 DEF TypeOK, Navigate, boundVars, Pages
  <1>5. CASE Logout(t)
    <2>1. Goto(t, Nobody, "login") /\ user' = [user EXCEPT ![t] = Nobody]
      BY <1>5 DEF Logout
    <2>2. Nobody \in Users \cup {Nobody} /\ "login" \in Pages
      BY DEF Pages
    <2>3. user' \in [Tabs -> Users \cup {Nobody}]
      BY <2>1 DEF TypeOK
    <2> QED
      BY <1>5, <2>1, <2>2, <2>3, GotoType DEF TypeOK, Logout, boundVars, Pages
  <1> QED
    BY <1>1, <1>2, <1>3, <1>4, <1>5

(* The login form.                                                         *)
LEMMA LoginStepsType ==
    ASSUME TypeOK, NEW t \in Tabs,
           \/ \E u \in Users : HandleLogin(t, u)
           \/ LoginAnswered(t) \/ LoginFailed(t) \/ LoginChecked(t)
    PROVE  TypeOK'
  <1>1. form[t] \in Form /\ Idle \in Form
    BY DEF TypeOK, Form
  <1>2. CASE \E u \in Users : HandleLogin(t, u)
    <2>1. PICK u \in Users : HandleLogin(t, u)
      BY <1>2
    <2> DEFINE f == [step |-> "login", user |-> u, db |-> db[t]]
    <2>2. f \in Form
      BY DEF TypeOK, Form
    <2>3. form' = [form EXCEPT ![t] = f]
      BY <2>1 DEF HandleLogin
    <2> HIDE DEF f
    <2>4. form' \in [Tabs -> Form]
      BY <2>2, <2>3 DEF TypeOK
    <2>5. logins' \in 0 .. MaxLogins
      BY <2>1, DeviceSetupAssumption DEF TypeOK, HandleLogin
    <2> QED
      BY <2>1, <2>4, <2>5 DEF TypeOK, HandleLogin
  <1>3. CASE LoginAnswered(t)
    <2> DEFINE f == [form[t] EXCEPT !.step = "check"]
    <2>1. form[t].user \in Users /\ f \in Form
      BY <1>1, <1>3, FormFields DEF LoginAnswered
    <2>2. form' = [form EXCEPT ![t] = f]
      BY <1>3 DEF LoginAnswered
    <2> HIDE DEF f
    <2>3. form' \in [Tabs -> Form] /\ user' \in [Tabs -> Users \cup {Nobody}]
      BY <1>3, <2>1, <2>2 DEF TypeOK, LoginAnswered
    <2>4. \A s \in Tabs : user'[s] = Nobody => page'[s] = "login"
      BY <1>3, <2>1, DeviceSetupAssumption DEF TypeOK, LoginAnswered
    <2> QED
      BY <1>3, <2>1, <2>3, <2>4 DEF TypeOK, LoginAnswered, boundVars
  <1>4. CASE LoginFailed(t)
    <2>1. form' \in [Tabs -> Form]
      BY <1>1, <1>4 DEF TypeOK, LoginFailed
    <2> QED
      BY <1>4, <2>1 DEF TypeOK, LoginFailed, boundVars
  <1>5. CASE LoginChecked(t)
    <2>1. form' \in [Tabs -> Form]
      BY <1>1, <1>5 DEF TypeOK, LoginChecked
    <2>2. /\ page' \in [Tabs -> Pages]
          /\ loading' \in [Tabs -> BOOLEAN]
          /\ keysRef' \in [Tabs -> Row \cup {NoRow}]
          /\ checking' \in [Tabs -> BOOLEAN]
          /\ \A s \in Tabs : user'[s] = Nobody => page'[s] = "login"
      <3>1. PICK p \in Pages : Goto(t, user[t], p)
        BY <1>5 DEF LoginChecked, Pages
      <3>2. user[t] \in Users \cup {Nobody} /\ user' = [user EXCEPT ![t] = user[t]]
        BY <1>5 DEF TypeOK, LoginChecked
      <3> QED
        BY <3>1, <3>2, GotoType
    <2> QED
      BY <1>5, <2>1, <2>2 DEF TypeOK, LoginChecked, boundVars, Pages
  <1> QED
    BY <1>2, <1>3, <1>4, <1>5

(* The device form.                                                        *)
LEMMA DeviceStepsType ==
    ASSUME TypeOK, NEW t \in Tabs,
           \/ \E n \in Names : HandleSubmit(t, n)
           \/ UploadDevice(t) \/ UploadRefused(t) \/ SubmitFails(t) \/ PutKeys(t)
    PROVE  TypeOK'
  <1>1. form[t] \in Form /\ Idle \in Form
    BY DEF TypeOK, Form
  <1>2. CASE \E n \in Names : HandleSubmit(t, n)
    <2>1. PICK n \in Names : HandleSubmit(t, n)
      BY <1>2
    <2> DEFINE f == [step |-> "uploading", user |-> user[t], name |-> n, keys |-> submits']
    <2>2. submits' \in 0 .. MaxSubmits /\ submits' \in Keys
      BY <2>1, DeviceSetupAssumption DEF TypeOK, HandleSubmit, Keys
    <2>3. user[t] \in Users
      BY <2>1 DEF TypeOK, HandleSubmit
    <2>4. f \in Form
      BY <2>2, <2>3 DEF Form
    <2>5. form' = [form EXCEPT ![t] = f]
      BY <2>1 DEF HandleSubmit
    <2> HIDE DEF f
    <2>6. form' \in [Tabs -> Form]
      BY <2>4, <2>5 DEF TypeOK
    <2> QED
      BY <2>1, <2>2, <2>6 DEF TypeOK, HandleSubmit
  <1>3. CASE UploadDevice(t)
    <2> DEFINE d == [user |-> form[t].user, name |-> form[t].name, keys |-> form[t].keys]
               f == [step |-> "answered", keys |-> form[t].keys, device |-> Len(devices')]
               Device == [user : Users, name : Names, keys : Keys]
    <2>1. form[t].user \in Users /\ form[t].name \in Names /\ form[t].keys \in Keys
      BY <1>1, <1>3, FormFields DEF UploadDevice
    <2>2. d \in Device
      BY <2>1
    <2>3. devices' = Append(devices, d) /\ form' = [form EXCEPT ![t] = f]
      BY <1>3 DEF UploadDevice
    <2>4. devices \in Seq(Device)
      BY DEF TypeOK
    <2> HIDE DEF d, Device
    <2>5. devices' \in Seq(Device) /\ Len(devices') = Len(devices) + 1
      BY <2>2, <2>3, <2>4
    <2>6. Len(devices') \in DeviceIds
      BY <2>4, <2>5 DEF DeviceIds
    <2>7. f \in Form
      BY <2>1, <2>6 DEF Form
    <2> HIDE DEF f
    <2>8. form' \in [Tabs -> Form]
      BY <2>3, <2>7 DEF TypeOK
    <2> QED
      BY <1>3, <2>5, <2>8 DEF TypeOK, UploadDevice, boundVars, Device
  <1>4. CASE UploadRefused(t) \/ SubmitFails(t)
    <2>1. form[t].keys \in Keys /\ GiveUp(t)
      BY <1>1, <1>4, FormFields DEF UploadRefused, SubmitFails
    <2>2. failures' \in 0 .. MaxFailures
      BY <1>4, DeviceSetupAssumption DEF TypeOK, UploadRefused, SubmitFails
    <2>3. form' \in [Tabs -> Form]
      BY <1>1, <2>1 DEF TypeOK, GiveUp
    <2> QED
      BY <2>1, <2>2, <2>3 DEF TypeOK, GiveUp
  <1>5. CASE PutKeys(t)
    <2> DEFINE r == [keys |-> form[t].keys, device |-> form[t].device]
    <2>1. r \in Row
      BY <1>1, <1>5, FormFields DEF PutKeys, Row
    <2>2. keys_table' = Append(keys_table, r)
      BY <1>5 DEF PutKeys, WithRow
    <2> HIDE DEF r
    <2>3. keys_table' \in Seq(Row)
      BY <2>1, <2>2 DEF TypeOK
    <2>4. form' \in [Tabs -> Form]
      BY <1>1, <1>5 DEF TypeOK, PutKeys
    <2>5. /\ page' \in [Tabs -> Pages]
          /\ loading' \in [Tabs -> BOOLEAN]
          /\ keysRef' \in [Tabs -> Row \cup {NoRow}]
          /\ checking' \in [Tabs -> BOOLEAN]
          /\ \A s \in Tabs : user'[s] = Nobody => page'[s] = "login"
      <3>1. Goto(t, user[t], "chat") /\ "chat" \in Pages
        BY <1>5 DEF PutKeys, Pages
      <3>2. user[t] \in Users \cup {Nobody} /\ user' = [user EXCEPT ![t] = user[t]]
        BY <1>5 DEF TypeOK, PutKeys
      <3> QED
        BY <3>1, <3>2, GotoType
    <2> QED
      BY <1>5, <2>3, <2>4, <2>5 DEF TypeOK, PutKeys, boundVars, Pages
  <1> QED
    BY <1>2, <1>3, <1>4, <1>5

(* A reload.                                                               *)
LEMMA ReloadType ==
    ASSUME TypeOK, NEW t \in Tabs, Reload(t)
    PROVE  TypeOK'
  <1>1. form[t] \in Form /\ Idle \in Form
    BY DEF TypeOK, Form
  <1>2. ended' \subseteq Keys
    BY <1>1, FormFields DEF TypeOK, Reload
  <1>3. form' \in [Tabs -> Form] /\ reloads' \in 0 .. MaxReloads
    BY <1>1, DeviceSetupAssumption DEF TypeOK, Reload
  <1>4. user' \in [Tabs -> Users \cup {Nobody}] /\ page' \in [Tabs -> Pages]
    BY DEF TypeOK, Reload, Routed, Pages
  <1>5. \A s \in Tabs : user'[s] = Nobody => page'[s] = "login"
    BY DEF TypeOK, Reload, Routed
  <1>6. keysRef' \in [Tabs -> Row \cup {NoRow}] /\ db' \in [Tabs -> {"opening", "open"}]
    BY DEF TypeOK, Reload
  <1>7. checking' \in [Tabs -> BOOLEAN]
    BY DEF TypeOK, Reload
  <1>8. loading' \in [Tabs -> BOOLEAN]
    <2> DEFINE b == page'[t] = "chat"
    <2>1. loading' = [loading EXCEPT ![t] = b] /\ b \in BOOLEAN
      BY DEF Reload
    <2> HIDE DEF b
    <2> QED
      BY <2>1 DEF TypeOK
  <1> QED
    BY <1>2, <1>3, <1>4, <1>5, <1>6, <1>7, <1>8 DEF TypeOK, Reload, Pages

(* Every variable keeps its shape, and whoever is not logged in is on the  *)
(* login page, in every tab and through every reload.                      *)
THEOREM SetupTypeCorrect == Spec => []TypeOK
  <1>1. Init => TypeOK
    <2>1. Idle \in Form
      BY DEF Form
    <2> QED
      BY <2>1, DeviceSetupAssumption DEF Init, TypeOK
  <1>2. TypeOK /\ [Next]_vars => TypeOK'
    <2> SUFFICES ASSUME TypeOK, [Next]_vars PROVE TypeOK'
      OBVIOUS
    <2>1. CASE \E t \in Tabs : TabStep(t) \/ UploadDevice(t)
      BY <2>1, PageStepsType, LoginStepsType, DeviceStepsType, ReloadType
         DEF TabStep, Pages
    <2>2. CASE UNCHANGED vars
      BY <2>2 DEF TypeOK, vars, tabVars, boundVars
    <2> QED
      BY <2>1, <2>2 DEF Next
  <1> QED
    BY <1>1, <1>2, PTL DEF Spec

-----------------------------------------------------------------------------
(* One device for all tabs                                                 *)

(* What a tab has loaded is the first row, which nothing ever replaces.    *)
FirstRow == \A t \in Tabs :
    keysRef[t] = NoRow \/ (keys_table # <<>> /\ keysRef[t] = keys_table[1])

(* A step shows a tab nothing but the first row, or no row.                *)
LEMMA StepsOfKeysRef ==
    ASSUME TypeOK, [Next]_vars, NEW s \in Tabs
    PROVE  \/ keysRef'[s] \in {keysRef[s], NoRow}
           \/ keys_table # <<>> /\ keysRef'[s] = keys_table[1]
  <1> USE DEF TypeOK
  <1>1. CASE UNCHANGED vars
    BY <1>1 DEF vars, tabVars
  <1>2. ASSUME NEW t \in Tabs, TabStep(t) \/ UploadDevice(t)
        PROVE  \/ keysRef'[s] \in {keysRef[s], NoRow}
               \/ keys_table # <<>> /\ keysRef'[s] = keys_table[1]
    <2>1. \A u, p : Show(t, u, p) => keysRef'[s] \in {keysRef[s], NoRow}
      BY DEF Show
    <2>2. CASE \/ CheckHasKeys(t) \/ LoginChecked(t) \/ Logout(t) \/ PutKeys(t)
               \/ \E p \in Pages : Navigate(t, p)
      BY <2>1, <2>2 DEF CheckHasKeys, LoginChecked, Logout, PutKeys, Navigate, Goto
    <2>3. CASE LoadKeys(t)
      BY <2>3 DEF LoadKeys, TheRow
    <2>4. CASE Reload(t)
      BY <2>4 DEF Reload
    <2>5. CASE \/ OpenDB(t) \/ LoginAnswered(t) \/ LoginFailed(t)
               \/ \E u \in Users : HandleLogin(t, u)
      BY <2>5 DEF OpenDB, LoginAnswered, LoginFailed, HandleLogin
    <2>6. CASE \/ UploadDevice(t) \/ UploadRefused(t) \/ SubmitFails(t)
               \/ \E n \in Names : HandleSubmit(t, n)
      BY <2>6 DEF UploadDevice, UploadRefused, SubmitFails, GiveUp, HandleSubmit
    <2> QED
      BY <1>2, <2>2, <2>3, <2>4, <2>5, <2>6 DEF TabStep, Pages
  <1> QED
    BY <1>1, <1>2 DEF Next

(* Rows are only ever added behind the others.                             *)
LEMMA StepsOfKeysTable ==
    ASSUME TypeOK, [Next]_vars
    PROVE  \/ keys_table' = keys_table
           \/ \E t \in Tabs :
                  /\ PutKeys(t)
                  /\ keys_table' = Append(keys_table, [keys |-> form[t].keys,
                                                       device |-> form[t].device])
  <1>1. CASE UNCHANGED vars
    BY <1>1 DEF vars
  <1>2. ASSUME NEW t \in Tabs, TabStep(t) \/ UploadDevice(t), ~PutKeys(t)
        PROVE  keys_table' = keys_table
    BY <1>2 DEF TabStep, OpenDB, CheckHasKeys, LoadKeys, Navigate, HandleLogin,
                LoginAnswered, LoginFailed, LoginChecked, Logout, HandleSubmit,
                UploadDevice, UploadRefused, SubmitFails, GiveUp, Reload
  <1>3. ASSUME NEW t \in Tabs, PutKeys(t)
        PROVE  keys_table' = Append(keys_table, [keys |-> form[t].keys,
                                                 device |-> form[t].device])
    BY <1>3 DEF PutKeys, WithRow
  <1> QED
    BY <1>1, <1>2, <1>3 DEF Next

(* All tabs of a browser that chat do so as the same device, whatever they *)
(* registered, however often they were reloaded.                           *)
THEOREM TabsAreOneDevice == Spec => []OneDevicePerBrowser
  <1>1. Init => FirstRow
    BY DEF Init, FirstRow
  <1>2. TypeOK /\ FirstRow /\ [Next]_vars => FirstRow'
    <2> SUFFICES ASSUME TypeOK, FirstRow, [Next]_vars, NEW s \in Tabs
                 PROVE  \/ keysRef'[s] = NoRow
                        \/ keys_table' # <<>> /\ keysRef'[s] = keys_table'[1]
      BY DEF FirstRow
    <2>1. keys_table # <<>> => keys_table' # <<>> /\ keys_table'[1] = keys_table[1]
      <3>1. CASE keys_table' = keys_table
        BY <3>1
      <3>2. ASSUME NEW r \in Row, keys_table' = Append(keys_table, r), keys_table # <<>>
            PROVE  keys_table' # <<>> /\ keys_table'[1] = keys_table[1]
        <4>1. keys_table \in Seq(Row) /\ Len(keys_table) \in Nat \ {0}
          BY <3>2 DEF TypeOK
        <4> QED
          BY <3>2, <4>1
      <3>3. \A t \in Tabs : PutKeys(t) =>
                [keys |-> form[t].keys, device |-> form[t].device] \in Row
        BY FormFields DEF TypeOK, PutKeys, Row
      <3> QED
        BY <3>1, <3>2, <3>3, StepsOfKeysTable
    <2>2. keysRef[s] = NoRow \/ (keys_table # <<>> /\ keysRef[s] = keys_table[1])
      BY DEF FirstRow
    <2> QED
      BY <2>1, <2>2, StepsOfKeysRef
  <1>3. FirstRow => OneDevicePerBrowser
    BY DEF FirstRow, OneDevicePerBrowser
  <1> QED
    BY <1>1, <1>2, <1>3, SetupTypeCorrect, PTL DEF Spec

-----------------------------------------------------------------------------
(* No device without keys, unnoticed                                       *)

UnderWay(f) == f.step \in {"uploading", "answered"}

(* A key pair belongs to one submission, and to one device once it is      *)
(* uploaded: the setup that then waits to store it knows which.            *)
KeysAreApart ==
    /\ \A t \in Tabs : UnderWay(form[t]) => form[t].keys <= submits
    /\ \A t, s \in Tabs :
           UnderWay(form[t]) /\ UnderWay(form[s]) /\ form[t].keys = form[s].keys => t = s
    /\ \A i \in DOMAIN devices : devices[i].keys <= submits
    /\ \A i, j \in DOMAIN devices : devices[i].keys = devices[j].keys => i = j
    /\ \A t \in Tabs : form[t].step = "uploading" =>
           \A i \in DOMAIN devices : devices[i].keys # form[t].keys
    /\ \A t \in Tabs : form[t].step = "answered" =>
           /\ form[t].device \in DOMAIN devices
           /\ devices[form[t].device].keys = form[t].keys

OrphanInv == TypeOK /\ KeysAreApart /\ NoSilentOrphan

(* A form ends, or is a login: the keys of a setup that ended are noticed. *)
LEMMA FormEnds ==
    ASSUME OrphanInv, NEW t \in Tabs, NEW f, ~UnderWay(f),
           form' = [form EXCEPT ![t] = f],
           ended \subseteq ended', UnderWay(form[t]) => form[t].keys \in ended',
           UNCHANGED <<devices, keys_table, submits>>
    PROVE  (KeysAreApart /\ NoSilentOrphan)'
  <1>1. form'[t] = f /\ \A s \in Tabs : s # t => form'[s] = form[s]
    BY DEF OrphanInv, TypeOK
  <1>2. \A s \in Tabs : UnderWay(form'[s]) => s # t /\ form'[s] = form[s]
    BY <1>1
  <1>3. KeysAreApart'
    BY <1>1, <1>2 DEF OrphanInv, KeysAreApart, UnderWay
  <1>4. NoSilentOrphan'
    <2> SUFFICES ASSUME NEW i \in DOMAIN devices, devices[i].keys \notin ended'
                 PROVE  \/ \E r \in DOMAIN keys_table :
                               keys_table[r] = [keys |-> devices[i].keys, device |-> i]
                        \/ \E s \in Tabs : /\ form'[s].step \in {"uploading", "answered"}
                                           /\ form'[s].keys = devices[i].keys
      BY DEF NoSilentOrphan
    <2>1. CASE \E r \in DOMAIN keys_table :
                   keys_table[r] = [keys |-> devices[i].keys, device |-> i]
      BY <2>1
    <2>2. CASE \E s \in Tabs : /\ form[s].step \in {"uploading", "answered"}
                               /\ form[s].keys = devices[i].keys
      <3>1. PICK s \in Tabs : /\ form[s].step \in {"uploading", "answered"}
                              /\ form[s].keys = devices[i].keys
        BY <2>2
      <3>2. s # t
        BY <3>1 DEF UnderWay
      <3> QED
        BY <1>1, <3>1, <3>2
    <2> QED
      BY <2>1, <2>2 DEF OrphanInv, NoSilentOrphan
  <1> QED
    BY <1>3, <1>4

(* A submission has keys of its own.                                       *)
LEMMA SubmitKeeps ==
    ASSUME OrphanInv, NEW t \in Tabs, NEW n \in Names, HandleSubmit(t, n)
    PROVE  (KeysAreApart /\ NoSilentOrphan)'
  <1> DEFINE f == [step |-> "uploading", user |-> user[t], name |-> n, keys |-> submits']
  <1>1. /\ form' = [form EXCEPT ![t] = f] /\ submits' = submits + 1
        /\ UNCHANGED <<devices, keys_table, ended>>
        /\ form[t] = Idle
    BY DEF HandleSubmit
  <1>2. f.step = "uploading" /\ f.keys = submits'
    OBVIOUS
  <1> HIDE DEF f
  <1>3. form'[t] = f /\ \A s \in Tabs : s # t => form'[s] = form[s]
    BY <1>1 DEF OrphanInv, TypeOK
  <1>4. submits \in Nat
    BY DEF OrphanInv, TypeOK
  <1>5. \A s \in Tabs : UnderWay(form[s]) => form[s].keys \in Nat /\ form[s].keys <= submits
    <2>1. \A s \in Tabs : UnderWay(form[s]) => form[s].keys \in Keys
      BY FormFields DEF OrphanInv, TypeOK, UnderWay
    <2> QED
      BY <2>1 DEF OrphanInv, KeysAreApart, Keys
  <1>6. \A i \in DOMAIN devices : devices[i].keys \in Nat /\ devices[i].keys <= submits
    <2> DEFINE Device == [user : Users, name : Names, keys : Keys]
    <2>1. devices \in Seq(Device)
      BY DEF OrphanInv, TypeOK
    <2> HIDE DEF Device
    <2>2. \A i \in DOMAIN devices : devices[i] \in Device
      BY <2>1
    <2>3. \A i \in DOMAIN devices : devices[i].keys \in Nat
      BY <2>2 DEF Device, Keys
    <2> QED
      BY <2>3 DEF OrphanInv, KeysAreApart
  <1>7. KeysAreApart'
    <2>1. \A s \in Tabs : UnderWay(form'[s]) => form'[s].keys <= submits'
      BY <1>1, <1>2, <1>3, <1>4, <1>5
    <2>2. \A r, s \in Tabs :
             UnderWay(form'[r]) /\ UnderWay(form'[s]) /\ form'[r].keys = form'[s].keys => r = s
      BY <1>1, <1>2, <1>3, <1>4, <1>5 DEF OrphanInv, KeysAreApart
    <2>3. /\ \A i \in DOMAIN devices' : devices'[i].keys <= submits'
          /\ \A i, j \in DOMAIN devices' : devices'[i].keys = devices'[j].keys => i = j
      BY <1>1, <1>4, <1>6 DEF OrphanInv, KeysAreApart
    <2>4. \A s \in Tabs : form'[s].step = "uploading" =>
              \A i \in DOMAIN devices' : devices'[i].keys # form'[s].keys
      BY <1>1, <1>2, <1>3, <1>4, <1>6 DEF OrphanInv, KeysAreApart
    <2>5. \A s \in Tabs : form'[s].step = "answered" =>
              /\ form'[s].device \in DOMAIN devices'
              /\ devices'[form'[s].device].keys = form'[s].keys
      BY <1>1, <1>2, <1>3 DEF OrphanInv, KeysAreApart
    <2> QED
      BY <2>1, <2>2, <2>3, <2>4, <2>5 DEF KeysAreApart, UnderWay
  <1>8. NoSilentOrphan'
    <2>1. \A s \in Tabs : form[s].step \in {"uploading", "answered"} => form'[s] = form[s]
      BY <1>1, <1>3 DEF Idle
    <2> QED
      BY <1>1, <2>1 DEF OrphanInv, NoSilentOrphan
  <1> QED
    BY <1>7, <1>8

(* A device is uploaded; its setup goes on.                                *)
LEMMA UploadKeeps ==
    ASSUME OrphanInv, NEW t \in Tabs, UploadDevice(t)
    PROVE  (KeysAreApart /\ NoSilentOrphan)'
  <1> DEFINE d == [user |-> form[t].user, name |-> form[t].name, keys |-> form[t].keys]
             n == Len(devices) + 1
             f == [step |-> "answered", keys |-> form[t].keys, device |-> Len(devices')]
             Device == [user : Users, name : Names, keys : Keys]
  <1>1. /\ form[t].step = "uploading"
        /\ devices' = Append(devices, d) /\ form' = [form EXCEPT ![t] = f]
        /\ UNCHANGED <<keys_table, ended, submits>>
    BY DEF UploadDevice, boundVars
  <1>2. devices \in Seq(Device)
    BY DEF OrphanInv, TypeOK
  <1>3. d \in Device /\ d.keys = form[t].keys
    BY <1>1, FormFields DEF OrphanInv, TypeOK
  <1> HIDE DEF d, Device
  <1>4. /\ Len(devices) \in Nat /\ DOMAIN devices = 1 .. Len(devices)
        /\ Len(devices') = n /\ DOMAIN devices' = 1 .. n
        /\ devices'[n] = d /\ \A i \in 1 .. Len(devices) : devices'[i] = devices[i]
    BY <1>1, <1>2, <1>3
  <1>5. DOMAIN devices' = DOMAIN devices \cup {n} /\ n \notin DOMAIN devices
    BY <1>4
  <1>6. f.step = "answered" /\ f.keys = form[t].keys /\ f.device = n
    BY <1>4
  <1> HIDE DEF f, n
  <1>7. form'[t] = f /\ \A s \in Tabs : s # t => form'[s] = form[s]
    BY <1>1 DEF OrphanInv, TypeOK
  <1>8. \A s \in Tabs : /\ UnderWay(form'[s]) <=> UnderWay(form[s])
                        /\ UnderWay(form[s]) => form'[s].keys = form[s].keys
    BY <1>1, <1>6, <1>7 DEF UnderWay
  <1>9. \A i \in DOMAIN devices : devices'[i] = devices[i] /\ devices[i].keys # form[t].keys
    BY <1>1, <1>4 DEF OrphanInv, KeysAreApart
  <1>10. KeysAreApart'
    <2>1. /\ \A s \in Tabs : UnderWay(form'[s]) => form'[s].keys <= submits'
          /\ \A r, s \in Tabs :
             UnderWay(form'[r]) /\ UnderWay(form'[s]) /\ form'[r].keys = form'[s].keys => r = s
      BY <1>1, <1>8 DEF OrphanInv, KeysAreApart
    <2>2. \A i \in DOMAIN devices' : devices'[i].keys <= submits'
      BY <1>1, <1>3, <1>4, <1>5, <1>9 DEF OrphanInv, KeysAreApart, UnderWay
    <2>3. \A i, j \in DOMAIN devices' : devices'[i].keys = devices'[j].keys => i = j
      <3>1. \A i, j \in DOMAIN devices : devices[i].keys = devices[j].keys => i = j
        BY DEF OrphanInv, KeysAreApart
      <3>2. devices'[n].keys = form[t].keys
        BY <1>3, <1>4
      <3> QED
        BY <1>5, <1>9, <3>1, <3>2
    <2>4. \A s \in Tabs : form'[s].step = "uploading" =>
              \A i \in DOMAIN devices' : devices'[i].keys # form'[s].keys
      <3> SUFFICES ASSUME NEW s \in Tabs, form'[s].step = "uploading"
                   PROVE  \A i \in DOMAIN devices' : devices'[i].keys # form'[s].keys
        OBVIOUS
      <3>1. s # t /\ form'[s] = form[s]
        BY <1>6, <1>7
      <3>2. form[s].keys # form[t].keys
        BY <1>1, <3>1 DEF OrphanInv, KeysAreApart, UnderWay
      <3>3. \A i \in DOMAIN devices : devices[i].keys # form[s].keys
        BY <3>1 DEF OrphanInv, KeysAreApart
      <3> QED
        BY <1>3, <1>4, <1>5, <1>9, <3>1, <3>2, <3>3
    <2>5. \A s \in Tabs : form'[s].step = "answered" =>
              /\ form'[s].device \in DOMAIN devices'
              /\ devices'[form'[s].device].keys = form'[s].keys
      <3> SUFFICES ASSUME NEW s \in Tabs, form'[s].step = "answered"
                   PROVE  /\ form'[s].device \in DOMAIN devices'
                          /\ devices'[form'[s].device].keys = form'[s].keys
        OBVIOUS
      <3>1. CASE s = t
        <4>1. devices'[n].keys = form[t].keys
          BY <1>3, <1>4
        <4> QED
          BY <1>5, <1>6, <1>7, <3>1, <4>1
      <3>2. CASE s # t
        <4>1. /\ form[s].device \in DOMAIN devices
              /\ devices[form[s].device].keys = form[s].keys
          BY <1>7, <3>2 DEF OrphanInv, KeysAreApart
        <4> QED
          BY <1>5, <1>7, <1>9, <3>2, <4>1
      <3> QED
        BY <3>1, <3>2
    <2> QED
      BY <2>1, <2>2, <2>3, <2>4, <2>5 DEF KeysAreApart, UnderWay
  <1>11. NoSilentOrphan'
    <2> SUFFICES ASSUME NEW i \in DOMAIN devices'
                 PROVE  LET k == devices'[i].keys IN
                        \/ \E r \in DOMAIN keys_table : keys_table[r] = [keys |-> k, device |-> i]
                        \/ \E s \in Tabs : UnderWay(form'[s]) /\ form'[s].keys = k
                        \/ k \in ended
      BY <1>1 DEF NoSilentOrphan, UnderWay
    <2>1. CASE i = n
      BY <1>1, <1>3, <1>4, <1>8, <2>1 DEF UnderWay
    <2>2. CASE i \in DOMAIN devices
      <3>1. LET k == devices[i].keys IN
            \/ \E r \in DOMAIN keys_table : keys_table[r] = [keys |-> k, device |-> i]
            \/ \E s \in Tabs : UnderWay(form[s]) /\ form[s].keys = k
            \/ k \in ended
        BY <2>2 DEF OrphanInv, NoSilentOrphan, UnderWay
      <3> QED
        BY <1>8, <1>9, <2>2, <3>1
    <2> QED
      BY <1>5, <2>1, <2>2
  <1> QED
    BY <1>10, <1>11

(* The private keys are stored, under the device that has them.            *)
LEMMA PutKeysKeeps ==
    ASSUME OrphanInv, NEW t \in Tabs, PutKeys(t)
    PROVE  (KeysAreApart /\ NoSilentOrphan)'
  <1> DEFINE row == [keys |-> form[t].keys, device |-> form[t].device]
             n == Len(keys_table) + 1
  <1>1. /\ form[t].step = "answered"
        /\ keys_table' = Append(keys_table, row) /\ form' = [form EXCEPT ![t] = Idle]
        /\ UNCHANGED <<devices, ended, submits>>
    BY DEF PutKeys, WithRow, boundVars
  <1>2. keys_table \in Seq(Row) /\ row \in Row
    BY <1>1, FormFields DEF OrphanInv, TypeOK, Row
  <1> HIDE DEF row
  <1>3. /\ n \in DOMAIN keys_table' /\ keys_table'[n] = row
        /\ \A r \in DOMAIN keys_table : r \in DOMAIN keys_table' /\ keys_table'[r] = keys_table[r]
    BY <1>1, <1>2
  <1> HIDE DEF n
  <1>4. form'[t] = Idle /\ \A s \in Tabs : s # t => form'[s] = form[s]
    BY <1>1 DEF OrphanInv, TypeOK
  <1>5. \A s \in Tabs : form'[s].step # "idle" => s # t /\ form'[s] = form[s]
    BY <1>4 DEF Idle
  <1>6. KeysAreApart'
    <2>1. \A s \in Tabs : UnderWay(form'[s]) => form'[s] = form[s]
      BY <1>5 DEF UnderWay
    <2> QED
      BY <1>1, <1>5, <2>1 DEF OrphanInv, KeysAreApart, UnderWay
  <1>7. NoSilentOrphan'
    <2> SUFFICES ASSUME NEW i \in DOMAIN devices
                 PROVE  LET k == devices[i].keys IN
                        \/ \E r \in DOMAIN keys_table' : keys_table'[r] = [keys |-> k, device |-> i]
                        \/ \E s \in Tabs : UnderWay(form'[s]) /\ form'[s].keys = k
                        \/ k \in ended
      BY <1>1 DEF NoSilentOrphan, UnderWay
    <2>1. LET k == devices[i].keys IN
          \/ \E r \in DOMAIN keys_table : keys_table[r] = [keys |-> k, device |-> i]
          \/ \E s \in Tabs : UnderWay(form[s]) /\ form[s].keys = k
          \/ k \in ended
      BY DEF OrphanInv, NoSilentOrphan, UnderWay
    <2>2. CASE devices[i].keys = form[t].keys
      <3>1. i = form[t].device
        BY <1>1, <2>2 DEF OrphanInv, KeysAreApart
      <3>2. row = [keys |-> devices[i].keys, device |-> i]
        BY <2>2, <3>1 DEF row
      <3> QED
        BY <1>3, <3>2
    <2>3. CASE devices[i].keys # form[t].keys
      BY <1>3, <1>4, <2>1, <2>3
    <2> QED
      BY <2>2, <2>3
  <1> QED
    BY <1>6, <1>7

(* Every step keeps what is known of keys and orphans.                     *)
LEMMA NextOrphans ==
    ASSUME OrphanInv, [Next]_vars
    PROVE  (KeysAreApart /\ NoSilentOrphan)'
  <1>1. CASE UNCHANGED <<devices, keys_table, form, ended, submits>>
    BY <1>1 DEF OrphanInv, KeysAreApart, NoSilentOrphan
  <1>2. ASSUME NEW t \in Tabs,
               \/ OpenDB(t) \/ CheckHasKeys(t) \/ LoadKeys(t)
               \/ \E p \in Pages : Navigate(t, p)
               \/ Logout(t)
        PROVE  UNCHANGED <<devices, keys_table, form, ended, submits>>
    BY <1>2 DEF OpenDB, CheckHasKeys, LoadKeys, Navigate, Logout, boundVars
  <1>3. ASSUME NEW t \in Tabs,
               \/ \E u \in Users : HandleLogin(t, u)
               \/ LoginAnswered(t) \/ LoginFailed(t) \/ LoginChecked(t)
        PROVE  (KeysAreApart /\ NoSilentOrphan)'
    <2>1. ~UnderWay(form[t]) /\ form[t] \in Form
      BY <1>3 DEF HandleLogin, LoginAnswered, LoginFailed, LoginChecked, UnderWay, Idle,
                  OrphanInv, TypeOK
    <2>2. UNCHANGED <<devices, keys_table, submits, ended>>
      BY <1>3 DEF HandleLogin, LoginAnswered, LoginFailed, LoginChecked, boundVars
    <2>3. \E f : ~UnderWay(f) /\ form' = [form EXCEPT ![t] = f]
      <3>1. CASE \E u \in Users : HandleLogin(t, u)
        <4>1. PICK u \in Users : HandleLogin(t, u)
          BY <3>1
        <4>2. ~UnderWay([step |-> "login", user |-> u, db |-> db[t]])
          BY DEF UnderWay
        <4> QED
          BY <4>1, <4>2 DEF HandleLogin
      <3>2. CASE LoginAnswered(t)
        <4>1. [form[t] EXCEPT !.step = "check"].step = "check"
          <5>1. form[t] \in [step : {"login", "check"}, user : Users, db : {"opening", "open"}]
            BY <2>1, <3>2 DEF LoginAnswered, Form, Idle
          <5> QED
            BY <5>1
        <4> DEFINE f == [form[t] EXCEPT !.step = "check"]
        <4>2. ~UnderWay(f)
          BY <4>1 DEF UnderWay
        <4>3. form' = [form EXCEPT ![t] = f]
          BY <3>2 DEF LoginAnswered
        <4> HIDE DEF f
        <4> QED
          BY <4>2, <4>3
      <3>3. CASE LoginFailed(t) \/ LoginChecked(t)
        <4>1. ~UnderWay(Idle)
          BY DEF UnderWay, Idle
        <4> QED
          BY <3>3, <4>1 DEF LoginFailed, LoginChecked
      <3> QED
        BY <1>3, <3>1, <3>2, <3>3
    <2> QED
      BY <2>1, <2>2, <2>3, FormEnds
  <1>4. ASSUME NEW t \in Tabs, UploadRefused(t) \/ SubmitFails(t) \/ Reload(t)
        PROVE  (KeysAreApart /\ NoSilentOrphan)'
    <2>1. ~UnderWay(Idle) /\ form[t] \in Form
      BY DEF UnderWay, Idle, OrphanInv, TypeOK
    <2>2. form' = [form EXCEPT ![t] = Idle] /\ UNCHANGED <<devices, keys_table, submits>>
      BY <1>4 DEF UploadRefused, SubmitFails, GiveUp, Reload
    <2>3. UnderWay(form[t]) => "keys" \in DOMAIN form[t]
      BY <2>1, FormFields DEF UnderWay
    <2>4. ended \subseteq ended' /\ (UnderWay(form[t]) => form[t].keys \in ended')
      BY <1>4, <2>3 DEF UploadRefused, SubmitFails, GiveUp, Reload
    <2> QED
      BY <2>1, <2>2, <2>4, FormEnds
  <1>5. CASE UNCHANGED vars
    BY <1>1, <1>5 DEF vars, tabVars, boundVars
  <1> QED
    BY <1>1, <1>2, <1>3, <1>4, <1>5, SubmitKeeps, UploadKeeps, PutKeysKeeps
       DEF Next, TabStep, Pages

(* A device that the auth service hands out has its private keys in the    *)
(* browser, or its setup is under way, or was seen to fail: with any       *)
(* number of tabs that set up devices at once, and any failures.           *)
THEOREM NoOrphanUnnoticed == Spec => []NoSilentOrphan
  <1>1. Init => KeysAreApart /\ NoSilentOrphan
    BY DEF Init, KeysAreApart, NoSilentOrphan, UnderWay, Idle
  <1>2. TypeOK /\ KeysAreApart /\ NoSilentOrphan /\ [Next]_vars
            => (KeysAreApart /\ NoSilentOrphan)'
    BY NextOrphans DEF OrphanInv
  <1> QED
    BY <1>1, <1>2, SetupTypeCorrect, PTL DEF Spec
=============================================================================
