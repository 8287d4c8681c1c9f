------------------------------ MODULE ChatView ------------------------------
(***************************************************************************)
(* What the chat page shows, and what its user's typing shows to others:   *)
(* the conversation on the screen (useChat.ts) while texts are sent,       *)
(* received and the contact is changed, the timers of MessageInput, and    *)
(* the typing indicator at the contacts.                                   *)
(*                                                                         *)
(* The module follows one page from its load on, and of some contacts the  *)
(* indicator for the user of that page.  Time is in seconds; frames arrive *)
(* within the second they are sent in, in order.  A text is a number.      *)
(***************************************************************************)
EXTENDS Integers, Sequences, SequencesExt, FiniteSets

CONSTANTS
    Contacts,
    Watched,     \* contacts whose side is followed
    Known,       \* contacts there is a stored text of and a session with
    None,        \* no contact
    MaxTexts     \* bound: texts sent or received

(* What the constants must be.                                             *)
ASSUME ChatViewAssumption ==
    /\ Known \cup Watched \subseteq Contacts /\ IsFiniteSet(Known)
    /\ None \notin Contacts
    /\ MaxTexts \in Nat

(* Mutant: a heartbeat slower than the receiver's timer.                   *)
SlowHeartbeat == 5

(* MessageInput's setInterval and idle timer.                              *)
Heartbeat == 3

Idle == 2

(* A timer that is not set.                                                *)
Off == -1

(* Mutant: no timer is set.                                                *)
NoAutoClear == Off

(* setTypingForUser's timer.                                               *)
AutoClear == 4

VARIABLES
    \* --- the page
    loaded,          \* the load has ended
    up,              \* the socket is open
    recipient,       \* recipientIdRef
    conversations,   \* conversationsRef
    messages,        \* on the screen
    sidebar,         \* conversations, the latest first
    sends,           \* calls of sendMessage under way
    session,         \* sessionsRef has sessions to a contact (a watched one)
    \* --- its MessageInput
    value,           \* there is text in the field
    isTyping,        \* isTypingRef
    heartbeat, idle, \* seconds to go of typingHeartbeat, stopTypingTimeout
    \* --- a contact
    wire,            \* frames on their way to it
    knows,           \* it has the session we use, and knows us
    shows, clear,    \* typingUsers and typingTimeoutsRef, of us
    \* --- history
    texts,           \* how many there have been
    received,        \* those delivered for a contact's conversation, or stored
    sent,            \* those whose frames were given to the socket
    unshown,         \* of these, the ones whose sendMessage failed afterwards
    early,           \* the contact shown was chosen before the load
    told             \* since its last typing frame nothing spoke against it

pageVars == <<loaded, up, recipient, conversations, messages, sidebar, sends, session>>
inputVars == <<value, isTyping, heartbeat, idle>>
contactVars == <<knows, shows, clear>>
exchangeVars == <<received, sent, unshown>>
historyVars == <<texts, exchangeVars, early>>
vars == <<pageVars, inputVars, wire, contactVars, historyVars, told>>

All(v) == [r \in Watched |-> v]

(* What messages-table holds.                                              *)
Stored == [r \in Contacts |-> IF r \in Known THEN <<0>> ELSE <<>>]

Init ==
    /\ loaded = FALSE
    /\ up = FALSE
    /\ recipient = None
    /\ conversations = [r \in Contacts |-> <<>>]
    /\ messages = <<>>
    /\ sidebar = <<>>
    /\ sends = {}
    /\ session = [r \in Watched |-> r \in Known]
    /\ value = FALSE
    /\ isTyping = FALSE
    /\ heartbeat = Off
    /\ idle = Off
    /\ wire = All(<<>>)
    /\ knows = session
    /\ shows = All(FALSE)
    /\ clear = All(Off)
    /\ texts = 0
    /\ received = [r \in Contacts |-> ToSet(Stored[r])]
    /\ sent = [r \in Contacts |-> {}]
    /\ unshown = sent
    /\ early = FALSE
    /\ told = All(FALSE)

-----------------------------------------------------------------------------
(* The conversation                                                        *)

ConversationOf(r) == IF r = None THEN <<>> ELSE conversations[r]

(* setRecipientId: a contact of the sidebar or the search, or none.        *)
Select(r) ==
    /\ r # recipient
    /\ recipient' = r
    /\ messages' = ConversationOf(r)
    /\ early' = ~loaded
    /\ told' = All(FALSE)
    /\ UNCHANGED <<loaded, up, conversations, sidebar, sends, session, inputVars, wire,
                   contactVars, texts, exchangeVars>>

(* The load of IndexedDB; connect follows.                                 *)
Load ==
    /\ ~loaded
    /\ loaded' = TRUE
    /\ conversations' = Stored
    /\ \E s \in [1 .. Cardinality(Known) -> Known] :
           /\ \A r \in Known : \E i \in DOMAIN s : s[i] = r
           /\ sidebar' = s
    /\ UNCHANGED <<up, recipient, messages, sends, session, inputVars, wire, contactVars,
                   historyVars, told>>

Opened ==
    /\ loaded
    /\ ~up
    /\ up' = TRUE
    /\ UNCHANGED <<loaded, recipient, conversations, messages, sidebar, sends, session,
                   inputVars, wire, contactVars, historyVars, told>>

Closed ==
    /\ up
    /\ up' = FALSE
    /\ told' = All(FALSE)
    /\ UNCHANGED <<loaded, recipient, conversations, messages, sidebar, sends, session,
                   inputVars, wire, contactVars, historyVars>>

(* conversationId === recipientIdRef.current                               *)
OnScreen(r) == r = recipient

(* appendMessage.  The sidebar lists each contact once, so that filtering  *)
(* one out removes its first entry.                                        *)
AppendMessage(r, t) ==
    /\ conversations' = [conversations EXCEPT ![r] = Append(@, t)]
    /\ messages' = IF OnScreen(r) THEN conversations'[r] ELSE messages
    /\ sidebar' = <<r>> \o RemoveFirst(sidebar, r)

(* The frame of a text for contact x.  A socket that is not open swallows  *)
(* it: then the contact lacks the session, and its key, of later frames.   *)
TextFrame(x) ==
    IF up THEN <<IF session[x] THEN "msg" ELSE "init">>
    ELSE IF session[x] THEN <<>> ELSE <<"no init">>

(* Our sessions to contact r are deleted.                                  *)
DropSession(r) ==
    /\ session' = [x \in Watched |-> session[x] /\ x # r]
    /\ told' = [x \in Watched |-> told[x] /\ x # r]

(* onmessage, delivery, of a contact's text, or of a copy of one that      *)
(* another of our devices sent to it; an init drops our sessions.          *)
Receive(r) ==
    /\ up
    /\ DropSession(r) \/ UNCHANGED <<session, told>>
    /\ texts < MaxTexts
    /\ texts' = texts + 1
    /\ AppendMessage(r, texts')
    /\ received' = [received EXCEPT ![r] = @ \cup {texts'}]
    /\ UNCHANGED <<loaded, up, recipient, sends, inputVars, wire, contactVars, sent,
                   unshown, early>>

(* resetSession, of the contact on the screen (followed for watched ones). *)
ResetSession ==
    /\ recipient \in Watched
    /\ session[recipient]
    /\ DropSession(recipient)
    /\ UNCHANGED <<loaded, up, recipient, conversations, messages, sidebar, sends,
                   inputVars, wire, contactVars, historyVars>>

(* The recipient's devices are fetched: the text is given to the socket    *)
(* for each of them (one that has closed swallows it).                     *)
Fetched(s) ==
    /\ s.awaits = "recipient"
    /\ sends' = (sends \ {s}) \cup {[s EXCEPT !.awaits = "own"]}
    /\ session' = [x \in Watched |-> session[x] \/ x = s.to]
    /\ wire' = [x \in Watched |-> IF x = s.to THEN wire[x] \o TextFrame(x) ELSE wire[x]]
    /\ sent' = [sent EXCEPT ![s.to] = @ \cup {s.text}]
    /\ UNCHANGED <<loaded, up, recipient, conversations, messages, sidebar, inputVars,
                   contactVars, texts, received, unshown, early, told>>

(* Mutant: who is the recipient is read after the fetches.                 *)
RecipientNow(s) == IF recipient = None THEN s.to ELSE recipient

(* const rid = recipientIdRef.current, before them                         *)
Rid(s) == s.to

(* Our own devices are fetched: the text goes into the conversation.       *)
Sent(s) ==
    /\ s.awaits = "own"
    /\ sends' = sends \ {s}
    /\ AppendMessage(Rid(s), s.text)
    /\ UNCHANGED <<loaded, up, recipient, session, inputVars, wire, contactVars,
                   historyVars, told>>

(* A fetch fails, or a socket that is connecting throws: sendMessage ends  *)
(* without appendMessage, though the recipient may have been sent to.      *)
SendFails(s) ==
    /\ sends' = sends \ {s}
    /\ unshown' = IF s.awaits = "own" THEN [unshown EXCEPT ![s.to] = @ \cup {s.text}]
                  ELSE unshown
    /\ UNCHANGED <<loaded, up, recipient, conversations, messages, sidebar, session,
                   inputVars, wire, contactVars, texts, received, sent, early, told>>

-----------------------------------------------------------------------------
(* Typing                                                                  *)

(* notifyTyping: to a recipient there is a session with                    *)
NotifyTyping(frame) ==
    wire' = [x \in Watched |->
                IF up /\ x = recipient /\ session[x] THEN Append(wire[x], frame) ELSE wire[x]]

(* The field takes input with a connection and a recipient only.           *)
Enabled == up /\ recipient # None

(* handleChange: a key is pressed that leaves text in the field.           *)
HandleChange ==
    /\ Enabled
    /\ value' = TRUE
    /\ isTyping' = TRUE
    /\ idle' = Idle
    /\ IF isTyping THEN UNCHANGED <<heartbeat, wire>>
       ELSE heartbeat' = Heartbeat /\ NotifyTyping("typing")
    /\ UNCHANGED <<pageVars, contactVars, historyVars, told>>

HeartbeatFires ==
    /\ heartbeat = 0
    /\ heartbeat' = Heartbeat
    /\ NotifyTyping("typing")
    /\ UNCHANGED <<pageVars, value, isTyping, idle, contactVars, historyVars, told>>

(* Mutant: the interval is not cleared.                                    *)
GoesOn == heartbeat

Cleared == Off

(* stopTyping                                                              *)
StopTyping ==
    /\ isTyping' = FALSE
    /\ heartbeat' = Cleared
    /\ idle' = Off
    /\ told' = All(FALSE)
    /\ IF isTyping THEN NotifyTyping("stop_typing") ELSE UNCHANGED wire

IdleFires ==
    /\ idle = 0
    /\ StopTyping
    /\ UNCHANGED <<pageVars, value, contactVars, historyVars>>

(* handleSubmit, and sendMessage up to its first await.                    *)
HandleSubmit ==
    /\ Enabled
    /\ value
    /\ texts < MaxTexts
    /\ texts' = texts + 1
    /\ StopTyping
    /\ sends' = sends \cup {[to |-> recipient, text |-> texts', awaits |-> "recipient"]}
    /\ value' = FALSE
    /\ UNCHANGED <<loaded, up, recipient, conversations, messages, sidebar, session,
                   contactVars, exchangeVars, early>>

-----------------------------------------------------------------------------
(* The contact's side                                                      *)

(* setTypingForUser                                                        *)
SetTyping(r, b) ==
    /\ shows' = [shows EXCEPT ![r] = b]
    /\ clear' = [clear EXCEPT ![r] = IF b THEN AutoClear ELSE Off]

TypingTo(r) == isTyping /\ recipient = r /\ up /\ session[r]

Arrives(r, frames) ==
    /\ wire[r] # <<>>
    /\ Head(wire[r]) \in frames
    /\ wire' = [wire EXCEPT ![r] = Tail(@)]

(* onmessage: a typing frame of a session it has, ...                      *)
OnTyping(r) ==
    LET b == Head(wire[r]) = "typing" IN
    /\ Arrives(r, {"typing", "stop_typing"})
    /\ IF knows[r] THEN SetTyping(r, b) ELSE UNCHANGED <<shows, clear>>
    /\ told' = [told EXCEPT ![r] = knows[r] /\ b /\ TypingTo(r)]
    /\ UNCHANGED <<pageVars, inputVars, knows, historyVars>>

(* ... or a text, which turns the indicator off if it decrypts.            *)
OnText(r) ==
    /\ Arrives(r, {"init", "msg"})
    /\ knows' = [knows EXCEPT ![r] = @ \/ Head(wire[r]) = "init"]
    /\ IF knows'[r] THEN SetTyping(r, FALSE) ELSE UNCHANGED <<shows, clear>>
    /\ told' = [told EXCEPT ![r] = FALSE]
    /\ UNCHANGED <<pageVars, inputVars, historyVars>>

(* A typing frame reaches nobody: the contact is offline.  Or there was    *)
(* none: a socket had swallowed it.                                        *)
FrameLost(r) ==
    /\ Arrives(r, {"typing", "stop_typing", "no init"})
    /\ knows' = [knows EXCEPT ![r] = @ /\ Head(wire[r]) # "no init"]
    /\ told' = [told EXCEPT ![r] = FALSE]
    /\ UNCHANGED <<pageVars, inputVars, shows, clear, historyVars>>

ClearFires(r) ==
    /\ clear[r] = 0
    /\ SetTyping(r, FALSE)
    /\ UNCHANGED <<pageVars, inputVars, wire, knows, historyVars, told>>

(* A second passes, once what is due has been done.                        *)
Less(t) == IF t = Off THEN Off ELSE t - 1

Tick ==
    /\ wire = All(<<>>)
    /\ heartbeat # 0 /\ idle # 0 /\ \A r \in Watched : clear[r] # 0
    /\ heartbeat' = Less(heartbeat)
    /\ idle' = Less(idle)
    /\ clear' = [r \in Watched |-> Less(clear[r])]
    /\ UNCHANGED <<pageVars, value, isTyping, wire, knows, shows, historyVars, told>>

-----------------------------------------------------------------------------
PageStep ==
    \/ \E r \in Contacts \cup {None} : Select(r)
    \/ Load
    \/ Opened
    \/ Closed
    \/ \E r \in Contacts : Receive(r)
    \/ ResetSession
    \/ \E s \in sends : Fetched(s) \/ Sent(s) \/ SendFails(s)
    \/ HandleChange
    \/ HandleSubmit

Due == HeartbeatFires \/ IdleFires

ContactStep(r) == OnTyping(r) \/ OnText(r) \/ FrameLost(r)

Next ==
    \/ PageStep
    \/ Due
    \/ \E r \in Watched : ContactStep(r) \/ ClearFires(r)
    \/ Tick

Spec == Init /\ [][Next]_vars

(* Fairness: time passes, timers fire and frames arrive or are lost.       *)
FairSpec ==
    /\ Spec
    /\ WF_vars(Tick) /\ WF_vars(HeartbeatFires) /\ WF_vars(IdleFires)
    /\ \A r \in Watched : WF_vars(ContactStep(r)) /\ WF_vars(ClearFires(r))

-----------------------------------------------------------------------------
(* Properties                                                              *)

Send == [to : Contacts, text : 0 .. MaxTexts, awaits : {"recipient", "own"}]
Frame == {"typing", "stop_typing", "init", "msg", "no init"}

(* Every variable keeps its shape: the timers of the field run exactly     *)
(* while it counts as typing, an indicator has a timer, and the sidebar    *)
(* lists each conversation once.                                           *)
TypeOK ==
    /\ recipient \in Contacts \cup {None}
    /\ {loaded, up, value, isTyping, early} \subseteq BOOLEAN
    /\ conversations \in [Contacts -> Seq(0 .. MaxTexts)]
    /\ messages \in Seq(0 .. MaxTexts)
    /\ sends \subseteq Send
    /\ Len(sidebar) = Cardinality({r \in Contacts : conversations[r] # <<>>})
    /\ \A r \in Contacts : conversations[r] # <<>> => \E i \in DOMAIN sidebar : sidebar[i] = r
    /\ isTyping <=> heartbeat \in 0 .. Heartbeat
    /\ isTyping <=> idle \in 0 .. Idle
    /\ session \in [Watched -> BOOLEAN] /\ knows \in [Watched -> BOOLEAN]
    /\ shows \in [Watched -> BOOLEAN] /\ told \in [Watched -> BOOLEAN]
    /\ wire \in [Watched -> Seq(Frame)]
    /\ \A r \in Watched : shows[r] <=> clear[r] \in 0 .. AutoClear
    /\ texts \in 0 .. MaxTexts
    /\ \A r \in Contacts :
           received[r] \subseteq 0 .. texts /\ sent[r] \subseteq 1 .. texts
           /\ unshown[r] \subseteq sent[r]

(* Texts that went to contact r and whose sendMessage goes on.             *)
UnderWay(r) == {s.text : s \in {x \in sends : x.to = r /\ x.awaits = "own"}}

(* A contact's conversation has what came from it, and what went to it     *)
(* except by a call of sendMessage that goes on or that failed afterwards  *)
(* (useChat.ts:315): each text once, nothing that went to another contact  *)
(* or did not go out, and what came in the order it came.                  *)
RightConversation(r) ==
    LET c == conversations[r] IN
    /\ IsInjective(c)
    /\ ToSet(c) = received[r] \cup (sent[r] \ (UnderWay(r) \cup unshown[r]))
    /\ \A i, j \in DOMAIN c : i < j /\ {c[i], c[j]} \subseteq received[r] => c[i] < c[j]

(* Every conversation is right and the screen shows that of the contact    *)
(* chosen, however the user changes contacts while texts are on their way; *)
(* but for a contact chosen before the load.                               *)
ShownIsTheConversation ==
    loaded => /\ \A r \in Contacts : RightConversation(r)
              /\ early \/ messages = ConversationOf(recipient)

(* "re-send every 3s so the receiver's 4s auto-clear doesn't fire          *)
(* mid-sentence" (MessageInput.tsx:31): a contact that was told stays told *)
(* while the user types on, nothing is lost and no text comes in between.  *)
NoFlicker ==
    \A r \in Watched : told[r] => shows[r]

(* "Auto-clear if stop_typing is never received" (useChat.ts:82): no       *)
(* indicator stays on for a user who does not type to that contact.        *)
IndicatorGoesOff ==
    \A r \in Watched : shows[r] ~> ~shows[r] \/ TypingTo(r)

=============================================================================
