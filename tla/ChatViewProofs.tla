--------------------------- MODULE ChatViewProofs ---------------------------
(***************************************************************************)
(* Proofs, for any contacts and any number of texts, that the screen of    *)
(* module ChatView shows the right conversation of the contact chosen, and *)
(* of the sidebar's list and the typing indicators.                        *)
(***************************************************************************)
EXTENDS ChatView, SequenceLemmas

-----------------------------------------------------------------------------
(* The conversations                                                       *)

(* Before the load nothing can be sent or received, and a contact chosen   *)
(* then is marked so.                                                      *)
BeforeLoad ==
    ~loaded => /\ ~up
               /\ sends = {}
               /\ received = [r \in Contacts |-> ToSet(Stored[r])]
               /\ sent = [r \in Contacts |-> {}]
               /\ unshown = [r \in Contacts |-> {}]
               /\ recipient = None \/ early
               /\ recipient = None => messages = <<>>

(* The texts of a contact have had their numbers.                          *)
Numbered ==
    /\ received \in [Contacts -> SUBSET (0 .. texts)]
    /\ sent \in [Contacts -> SUBSET (1 .. texts)]
    /\ unshown \in [Contacts -> SUBSET (1 .. texts)]
    /\ \A r \in Contacts : unshown[r] \subseteq sent[r]

(* A text under way has one call of sendMessage, was not received, and has *)
(* gone out exactly if the call awaits the own devices.                    *)
SendOK(s) ==
    /\ s.text \in 1 .. texts
    /\ \A x \in sends : x.text = s.text => x = s
    /\ \A r \in Contacts :
           /\ s.text \notin received[r]
           /\ s.awaits = "recipient" => s.text \notin sent[r]
    /\ s.awaits = "own" => s.text \in sent[s.to] /\ s.text \notin unshown[s.to]

ScreenInv ==
    /\ recipient \in Contacts \cup {None}
    /\ sends \subseteq Send /\ texts \in 0 .. MaxTexts
    /\ conversations \in [Contacts -> Seq(0 .. MaxTexts)]
    /\ messages \in Seq(0 .. MaxTexts)
    /\ BeforeLoad /\ Numbered
    /\ \A s \in sends : SendOK(s)
    /\ ShownIsTheConversation

(* The elements of R ascend in c.                                          *)
Ascend(c, R) == \A i, j \in DOMAIN c : i < j /\ {c[i], c[j]} \subseteq R => c[i] < c[j]

(* A new element at the end of a sequence without repetition in which the  *)
(* elements of a set ascend.                                               *)
LEMMA AppendRight ==
    ASSUME NEW c \in Seq(0 .. MaxTexts), NEW t \in 0 .. MaxTexts, NEW R, NEW Q,
           IsInjective(c), t \notin ToSet(c),
           Ascend(c, R),
           Q \subseteq R \cup {t},
           t \in Q => \A x \in ToSet(c) : x < t
    PROVE  IsInjective(Append(c, t)) /\ Ascend(Append(c, t), Q)
<1> DEFINE a == Append(c, t)
           n == Len(c)
<1>1. /\ a \in Seq(0 .. MaxTexts) /\ Len(a) = n + 1 /\ n \in Nat
      /\ \A i \in 1 .. n : a[i] = c[i]
      /\ a[n + 1] = t
  BY AppendElements
<1>2. DOMAIN c = 1 .. n /\ DOMAIN a = 1 .. n + 1
  BY <1>1
<1>3. \A i \in 1 .. n : c[i] \in ToSet(c)
  BY ElementsOf
<1> HIDE DEF a, n
<1>4. ASSUME NEW i \in 1 .. n + 1, NEW j \in 1 .. n + 1, a[i] = a[j]
      PROVE  i = j
  <2>1. i \in 1 .. n \/ i = n + 1
    BY <1>1
  <2>2. j \in 1 .. n \/ j = n + 1
    BY <1>1
  <2>3. CASE i \in 1 .. n /\ j \in 1 .. n
    BY <1>1, <1>2, <1>4, <2>3 DEF IsInjective
  <2>4. CASE i = n + 1 \/ j = n + 1
    BY <1>1, <1>3, <1>4, <2>1, <2>2, <2>4
  <2>5. QED
    BY <2>1, <2>2, <2>3, <2>4
<1>5. ASSUME NEW i \in 1 .. n + 1, NEW j \in 1 .. n + 1, i < j, a[i] \in Q, a[j] \in Q
      PROVE  a[i] < a[j]
  <2>1. i \in 1 .. n /\ a[i] = c[i] /\ c[i] \in ToSet(c)
    BY <1>1, <1>3, <1>5
  <2>2. c[i] \in R
    BY <1>5, <2>1
  <2>3. CASE j = n + 1
    BY <1>1, <1>5, <2>1, <2>3
  <2>4. CASE j \in 1 .. n
    <3>1. c[j] \in R
      BY <1>1, <1>3, <1>5, <2>4
    <3>2. QED
      BY <1>1, <1>2, <1>5, <2>1, <2>2, <2>4, <3>1 DEF Ascend
  <2>5. QED
    BY <1>1, <2>3, <2>4
<1>6. QED
  BY <1>2, <1>4, <1>5 DEF IsInjective, Ascend, a

(* A text that is appended to its conversation: one that has just come,    *)
(* or one whose call of sendMessage ends.                                  *)
LEMMA AppendKeeps ==
    ASSUME ScreenInv, loaded, NEW r \in Contacts, NEW t \in 0 .. MaxTexts,
           AppendMessage(r, t), t \notin ToSet(conversations[r]),
           UNCHANGED <<loaded, recipient, early>>,
           \A x \in Contacts \ {r} :
               ToSet(conversations[x])
                   = received'[x] \cup (sent'[x] \ (UnderWay(x)' \cup unshown'[x])),
           ToSet(conversations[r]) \cup {t}
               = received'[r] \cup (sent'[r] \ (UnderWay(r)' \cup unshown'[r])),
           \A x \in Contacts \ {r} : received'[x] = received[x],
           received'[r] \subseteq received[r] \cup {t},
           t \in received'[r] => \A y \in ToSet(conversations[r]) : y < t
    PROVE  /\ conversations' \in [Contacts -> Seq(0 .. MaxTexts)]
           /\ messages' \in Seq(0 .. MaxTexts)
           /\ ShownIsTheConversation'
<1>1. /\ conversations' = [conversations EXCEPT ![r] = Append(conversations[r], t)]
      /\ messages' = IF r = recipient THEN conversations'[r] ELSE messages
  BY DEF AppendMessage, OnScreen
<1>2. /\ conversations \in [Contacts -> Seq(0 .. MaxTexts)]
      /\ conversations[r] \in Seq(0 .. MaxTexts)
      /\ messages \in Seq(0 .. MaxTexts)
  BY DEF ScreenInv
<1>3. /\ conversations'[r] = Append(conversations[r], t)
      /\ \A x \in Contacts \ {r} : conversations'[x] = conversations[x]
  BY <1>1, <1>2
<1>4. /\ Append(conversations[r], t) \in Seq(0 .. MaxTexts)
      /\ ToSet(Append(conversations[r], t)) = ToSet(conversations[r]) \cup {t}
  <2> DEFINE c == conversations[r]
             S == 0 .. MaxTexts
  <2>1. c \in Seq(S) /\ t \in S
    BY <1>2
  <2> HIDE DEF c, S
  <2>2. Append(c, t) \in Seq(S) /\ ToSet(Append(c, t)) = ToSet(c) \cup {t}
    BY <2>1, AppendElements
  <2>3. QED
    BY <2>2 DEF c, S
<1>5. conversations' \in [Contacts -> Seq(0 .. MaxTexts)] /\ messages' \in Seq(0 .. MaxTexts)
  BY <1>1, <1>2, <1>3, <1>4
<1>6. \A x \in Contacts : RightConversation(x)
  BY DEF ScreenInv, ShownIsTheConversation
<1>7. ASSUME NEW x \in Contacts \ {r} PROVE RightConversation(x)'
  BY <1>3, <1>6 DEF RightConversation
<1>8. RightConversation(r)'
  <2> DEFINE c == conversations[r]
             Q == received'[r]
             R == received[r]
  <2>1. IsInjective(c) /\ Ascend(c, R)
    BY <1>6 DEF RightConversation, Ascend
  <2>2. c \in Seq(0 .. MaxTexts) /\ t \notin ToSet(c)
    BY <1>2
  <2>3. Q \subseteq R \cup {t} /\ (t \in Q => \A y \in ToSet(c) : y < t)
    OBVIOUS
  <2> HIDE DEF c, Q, R
  <2>4. IsInjective(Append(c, t)) /\ Ascend(Append(c, t), Q)
    BY <2>1, <2>2, <2>3, AppendRight
  <2>5. conversations'[r] = Append(c, t)
    BY <1>3 DEF c
  <2>6. ToSet(conversations'[r])
            = received'[r] \cup (sent'[r] \ (UnderWay(r)' \cup unshown'[r]))
    BY <1>3, <1>4
  <2>7. QED
    BY <2>4, <2>5, <2>6 DEF RightConversation, Ascend, Q
<1>9. early' \/ messages' = ConversationOf(recipient)'
  <2>1. CASE r = recipient
    BY <1>1, <2>1, ChatViewAssumption DEF ConversationOf
  <2>2. CASE r # recipient
    BY <1>1, <1>3, <2>2 DEF ScreenInv, ShownIsTheConversation, ConversationOf
  <2>3. QED
    BY <2>1, <2>2
<1>10. QED
  BY <1>5, <1>7, <1>8, <1>9 DEF ShownIsTheConversation

(* What the screen depends on besides the texts.                           *)
screenVars == <<loaded, recipient, conversations, messages, early>>

(* Steps that append nothing and change neither the contact nor the load.  *)
LEMMA ScreenKeeps ==
    ASSUME ScreenInv, UNCHANGED <<screenVars, received>>,
           loaded => \A r \in Contacts :
               sent'[r] \ (UnderWay(r)' \cup unshown'[r]) = sent[r] \ (UnderWay(r) \cup unshown[r])
    PROVE  ShownIsTheConversation'
<1>1. UNCHANGED <<loaded, recipient, conversations, messages, early, received>>
  BY DEF screenVars
<1>2. ASSUME loaded, NEW r \in Contacts PROVE RightConversation(r)'
  <2>1. RightConversation(r)
    BY <1>2 DEF ScreenInv, ShownIsTheConversation
  <2>2. QED
    BY <1>1, <1>2, <2>1 DEF RightConversation
<1>3. QED
  BY <1>1, <1>2 DEF ScreenInv, ShownIsTheConversation, ConversationOf

(* Steps that have nothing to do with texts.                               *)
textVars == <<texts, sends, exchangeVars>>

LEMMA QuietScreen ==
    ASSUME ScreenInv, UNCHANGED <<screenVars, textVars>>, loaded \/ up' = up
    PROVE  ScreenInv'
<1>1. UNCHANGED <<loaded, recipient, conversations, messages, early, texts, sends, received,
                  sent, unshown>>
  BY DEF screenVars, textVars, exchangeVars
<1>2. \A r \in Contacts : UnderWay(r)' = UnderWay(r)
  BY <1>1 DEF UnderWay
<1>3. ShownIsTheConversation'
  BY <1>1, <1>2, ScreenKeeps
<1>4. BeforeLoad'
  BY <1>1 DEF ScreenInv, BeforeLoad
<1>5. Numbered' /\ \A s \in sends' : SendOK(s)'
  BY <1>1 DEF ScreenInv, Numbered, SendOK
<1>6. QED
  BY <1>1, <1>3, <1>4, <1>5 DEF ScreenInv

(* Another contact is chosen.                                              *)
LEMMA SelectKeeps ==
    ASSUME ScreenInv, NEW r \in Contacts \cup {None}, Select(r)
    PROVE  ScreenInv'
<1>1. /\ recipient' = r /\ messages' = ConversationOf(r) /\ early' = ~loaded
      /\ UNCHANGED <<loaded, up, conversations, sends, texts, received, sent, unshown>>
  BY DEF Select, exchangeVars
<1>2. messages' \in Seq(0 .. MaxTexts)
  <2>1. conversations \in [Contacts -> Seq(0 .. MaxTexts)]
    BY DEF ScreenInv
  <2>2. <<>> \in Seq(0 .. MaxTexts)
    OBVIOUS
  <2>3. ConversationOf(r) \in Seq(0 .. MaxTexts)
    BY <2>1, <2>2 DEF ConversationOf
  <2>4. QED
    BY <1>1, <2>3
<1>3. BeforeLoad'
  BY <1>1 DEF ScreenInv, BeforeLoad, ConversationOf
<1>4. Numbered' /\ \A s \in sends' : SendOK(s)'
  BY <1>1 DEF ScreenInv, Numbered, SendOK
<1>5. \A x \in Contacts : UnderWay(x)' = UnderWay(x)
  BY <1>1 DEF UnderWay
<1>6. ASSUME loaded, NEW x \in Contacts PROVE RightConversation(x)'
  <2>1. RightConversation(x)
    BY <1>6 DEF ScreenInv, ShownIsTheConversation
  <2>2. QED
    BY <1>1, <1>5, <2>1 DEF RightConversation
<1>7. ShownIsTheConversation'
  BY <1>1, <1>6 DEF ShownIsTheConversation, ConversationOf
<1>8. QED
  BY <1>1, <1>2, <1>3, <1>4, <1>7 DEF ScreenInv

(* The load: the texts that were stored, each contact's once.              *)
LEMMA LoadKeeps ==
    ASSUME ScreenInv, Load
    PROVE  ScreenInv'
<1>1. /\ ~loaded /\ loaded' /\ conversations' = Stored
      /\ UNCHANGED <<up, recipient, messages, sends, texts, received, sent, unshown, early>>
  BY DEF Load, historyVars, exchangeVars
<1>2. /\ sends = {} /\ received = [r \in Contacts |-> ToSet(Stored[r])]
      /\ sent = [r \in Contacts |-> {}] /\ unshown = [r \in Contacts |-> {}]
      /\ recipient = None \/ early
      /\ recipient = None => messages = <<>>
  BY <1>1 DEF ScreenInv, BeforeLoad
<1>3. conversations' \in [Contacts -> Seq(0 .. MaxTexts)]
  <2>1. <<0>> \in Seq(0 .. MaxTexts) /\ <<>> \in Seq(0 .. MaxTexts)
    BY ChatViewAssumption
  <2>2. QED
    BY <1>1, <2>1 DEF Stored
<1>4. BeforeLoad'
  BY <1>1 DEF BeforeLoad
<1>5. Numbered' /\ \A s \in sends' : SendOK(s)'
  BY <1>1, <1>2 DEF ScreenInv, Numbered, SendOK
<1>6. ASSUME NEW r \in Contacts PROVE RightConversation(r)'
  <2> DEFINE c == Stored[r]
  <2>1. c = IF r \in Known THEN <<0>> ELSE <<>>
    BY DEF Stored
  <2>2. IsInjective(c) /\ \A i, j \in DOMAIN c : ~(i < j)
    BY <2>1 DEF IsInjective
  <2>3. conversations'[r] = c /\ ToSet(c) = received'[r] /\ sent'[r] = {}
    BY <1>1, <1>2
  <2> HIDE DEF c
  <2>4. QED
    BY <2>2, <2>3 DEF RightConversation
<1>7. early' \/ messages' = ConversationOf(recipient)'
  BY <1>1, <1>2 DEF ConversationOf
<1>8. ShownIsTheConversation'
  BY <1>6, <1>7 DEF ShownIsTheConversation
<1>9. QED
  BY <1>1, <1>3, <1>4, <1>5, <1>8 DEF ScreenInv

(* A text comes: it has a new number.                                      *)
LEMMA ReceiveKeeps ==
    ASSUME ScreenInv, NEW r \in Contacts, Receive(r)
    PROVE  ScreenInv'
<1> DEFINE t == texts'
<1>1. /\ up /\ texts < MaxTexts /\ t = texts + 1 /\ AppendMessage(r, t)
      /\ received' = [received EXCEPT ![r] = received[r] \cup {t}]
      /\ UNCHANGED <<loaded, up, recipient, sends, sent, unshown, early>>
  BY DEF Receive
<1>2. /\ texts \in 0 .. MaxTexts /\ loaded /\ Numbered
      /\ \A s \in sends : SendOK(s)
      /\ conversations[r] \in Seq(0 .. MaxTexts)
  BY <1>1 DEF ScreenInv, BeforeLoad
<1>3. /\ texts \in Nat /\ t \in 1 .. MaxTexts /\ t \in 0 .. MaxTexts /\ texts < t
      /\ 0 .. texts \subseteq 0 .. t /\ 1 .. texts \subseteq 1 .. t /\ t \in 0 .. t
      /\ t \notin 0 .. texts
  BY <1>1, <1>2, ChatViewAssumption
<1> HIDE DEF t
<1>4. /\ received \in [Contacts -> SUBSET (0 .. texts)]
      /\ sent \in [Contacts -> SUBSET (1 .. texts)]
      /\ unshown \in [Contacts -> SUBSET (1 .. texts)]
      /\ \A x \in Contacts : unshown[x] \subseteq sent[x]
  BY <1>2 DEF Numbered
<1>5. /\ received'[r] = received[r] \cup {t}
      /\ \A x \in Contacts \ {r} : received'[x] = received[x]
  BY <1>1, <1>4
<1>6. Numbered'
  <2>1. received' \in [Contacts -> SUBSET (0 .. t)]
    BY <1>1, <1>3, <1>4
  <2>2. sent \in [Contacts -> SUBSET (1 .. t)] /\ unshown \in [Contacts -> SUBSET (1 .. t)]
    BY <1>3, <1>4
  <2>3. QED
    BY <1>1, <1>4, <2>1, <2>2 DEF Numbered, t
<1>7. \A x \in Contacts : UnderWay(x)' = UnderWay(x)
  BY <1>1 DEF UnderWay
<1>8. \A x \in Contacts :
          ToSet(conversations[x]) = received[x] \cup (sent[x] \ (UnderWay(x) \cup unshown[x]))
  BY <1>2 DEF ScreenInv, ShownIsTheConversation, RightConversation
<1>9. ASSUME NEW y \in ToSet(conversations[r]) PROVE y < t
  <2>1. y \in 0 .. texts
    BY <1>3, <1>4, <1>8
  <2>2. QED
    BY <1>1, <1>2, <2>1
<1>10. t \notin ToSet(conversations[r])
  BY <1>3, <1>9
<1>11. ASSUME NEW s \in sends' PROVE SendOK(s)'
  <2>1. SendOK(s) /\ s \in sends
    BY <1>1, <1>2
  <2>2. s.text \in 1 .. texts /\ s.text # t
    BY <1>1, <1>2, <2>1 DEF SendOK
  <2>3. s.text \in 1 .. t
    BY <1>3, <2>2
  <2>4. \A x \in Contacts : s.text \notin received'[x]
    BY <1>5, <2>1, <2>2 DEF SendOK
  <2>5. QED
    BY <1>1, <2>1, <2>3, <2>4 DEF SendOK, t
<1>12. /\ conversations' \in [Contacts -> Seq(0 .. MaxTexts)]
       /\ messages' \in Seq(0 .. MaxTexts)
       /\ ShownIsTheConversation'
  <2>1. \A x \in Contacts \ {r} :
            ToSet(conversations[x])
                = received'[x] \cup (sent'[x] \ (UnderWay(x)' \cup unshown'[x]))
    BY <1>1, <1>5, <1>7, <1>8
  <2>2. ToSet(conversations[r]) \cup {t}
            = received'[r] \cup (sent'[r] \ (UnderWay(r)' \cup unshown'[r]))
    BY <1>1, <1>5, <1>7, <1>8
  <2>3. UNCHANGED <<loaded, recipient, early>> /\ AppendMessage(r, t)
    BY <1>1
  <2>4. QED
    BY <1>2, <1>3, <1>5, <1>9, <1>10, <2>1, <2>2, <2>3, AppendKeeps
<1>13. BeforeLoad'
  BY <1>1, <1>2 DEF BeforeLoad
<1>14. texts' \in 0 .. MaxTexts
  BY <1>3 DEF t
<1>15. QED
  BY <1>1, <1>6, <1>11, <1>12, <1>13, <1>14 DEF ScreenInv

(* The text of a call is under way exactly if the call is among those that *)
(* await the own devices.                                                  *)
LEMMA UnderWayOf ==
    ASSUME ScreenInv, NEW s \in sends, NEW r \in Contacts, s.text \in UnderWay(r)
    PROVE  s.to = r /\ s.awaits = "own"
<1>1. PICK x \in sends : x.to = r /\ x.awaits = "own" /\ x.text = s.text
  BY DEF UnderWay
<1>2. x = s
  BY <1>1 DEF ScreenInv, SendOK
<1>3. QED
  BY <1>1, <1>2

(* A call fetches the devices of its recipient: its text goes out.         *)
LEMMA FetchedKeeps ==
    ASSUME ScreenInv, NEW s \in sends, Fetched(s)
    PROVE  ScreenInv'
<1> DEFINE n == [s EXCEPT !.awaits = "own"]
           t == s.text
<1>1. /\ s.awaits = "recipient" /\ sends' = (sends \ {s}) \cup {n}
      /\ sent' = [sent EXCEPT ![s.to] = sent[s.to] \cup {t}]
      /\ UNCHANGED <<loaded, up, recipient, conversations, messages, texts, received,
                     unshown, early>>
  BY DEF Fetched
<1>2. /\ s \in Send /\ SendOK(s) /\ Numbered /\ loaded
      /\ \A x \in sends : x \in Send /\ SendOK(x)
  BY DEF ScreenInv, BeforeLoad
<1>3. /\ n \in Send /\ n.text = t /\ n.to = s.to /\ n.awaits = "own"
      /\ s.to \in Contacts
  BY <1>2 DEF Send
<1> HIDE DEF n
<1>4. /\ t \in 1 .. texts
      /\ \A x \in sends : x.text = t => x = s
      /\ \A r \in Contacts : t \notin received[r] /\ t \notin sent[r] /\ t \notin unshown[r]
  BY <1>1, <1>2 DEF SendOK, Numbered
<1> HIDE DEF t
<1>5. /\ sent'[s.to] = sent[s.to] \cup {t}
      /\ \A r \in Contacts \ {s.to} : sent'[r] = sent[r]
  BY <1>1, <1>2, <1>3 DEF Numbered
<1>6. Numbered'
  BY <1>1, <1>2, <1>3, <1>4, <1>5 DEF Numbered
<1>7. /\ UnderWay(s.to)' = UnderWay(s.to) \cup {t}
      /\ \A r \in Contacts \ {s.to} : UnderWay(r)' = UnderWay(r)
  BY <1>1, <1>3 DEF UnderWay
<1>8. \A r \in Contacts :
          sent'[r] \ (UnderWay(r)' \cup unshown'[r]) = sent[r] \ (UnderWay(r) \cup unshown[r])
  BY <1>1, <1>4, <1>5, <1>7
<1>9. UNCHANGED <<screenVars, received>>
  BY <1>1 DEF screenVars
<1>10. ShownIsTheConversation'
  BY <1>8, <1>9, ScreenKeeps
<1>11. ASSUME NEW x \in sends' PROVE SendOK(x)'
  <2>1. CASE x = n
    <3>1. \A y \in sends' : y.text = t => y = n
      BY <1>1, <1>4
    <3>2. n.text \in 1 .. texts' /\ \A r \in Contacts : n.text \notin received'[r]
      BY <1>1, <1>3, <1>4
    <3>3. n.text \in sent'[n.to] /\ n.text \notin unshown'[n.to]
      BY <1>1, <1>3, <1>4, <1>5
    <3>4. QED
      BY <1>3, <2>1, <3>1, <3>2, <3>3 DEF SendOK
  <2>2. CASE x \in sends /\ x # s
    <3>1. SendOK(x) /\ x.to \in Contacts
      BY <1>2, <2>2 DEF Send
    <3>2. x.text # t
      BY <1>4, <2>2
    <3>3. \A y \in sends' : y.text = x.text => y = x
      BY <1>1, <1>3, <3>1, <3>2 DEF SendOK
    <3>4. \A r \in Contacts : x.text \in sent'[r] <=> x.text \in sent[r]
      BY <1>5, <3>2
    <3>5. QED
      BY <1>1, <3>1, <3>3, <3>4 DEF SendOK
  <2>3. QED
    BY <1>1, <2>1, <2>2
<1>12. sends' \subseteq Send /\ BeforeLoad'
  BY <1>1, <1>2, <1>3 DEF BeforeLoad
<1>13. QED
  BY <1>1, <1>6, <1>10, <1>11, <1>12 DEF ScreenInv

(* A call that ends leaves the others as they were.                        *)
LEMMA EndKeeps ==
    ASSUME ScreenInv, NEW s \in sends, sends' = sends \ {s},
           UNCHANGED <<loaded, texts, received, sent>>,
           Numbered',
           \A r \in Contacts : unshown'[r] \subseteq unshown[r] \cup {s.text}
    PROVE  /\ sends' \subseteq Send /\ BeforeLoad' /\ \A x \in sends' : SendOK(x)'
           /\ s \in Send /\ loaded /\ SendOK(s)
           /\ \A r \in Contacts :
                  UnderWay(r)' = UnderWay(r) \ {s.text}
<1>1. /\ s \in Send /\ loaded /\ SendOK(s) /\ sends \subseteq Send
      /\ \A x \in sends : SendOK(x)
  BY DEF ScreenInv, BeforeLoad
<1>2. \A x \in sends : x.text = s.text => x = s
  BY <1>1 DEF SendOK
<1>3. ASSUME NEW x \in sends' PROVE SendOK(x)'
  <2>1. x \in sends /\ x # s /\ SendOK(x) /\ x.text # s.text
    BY <1>1, <1>2
  <2>2. x.to \in Contacts
    BY <1>1, <2>1 DEF Send
  <2>3. QED
    BY <2>1, <2>2 DEF SendOK
<1>4. ASSUME NEW r \in Contacts
      PROVE  UnderWay(r)' = UnderWay(r) \ {s.text}
  BY <1>2 DEF UnderWay
<1>5. QED
  BY <1>1, <1>3, <1>4 DEF BeforeLoad

(* A call ends well: its text is appended.                                 *)
LEMMA SentKeeps ==
    ASSUME ScreenInv, NEW s \in sends, Sent(s)
    PROVE  ScreenInv'
<1> DEFINE t == s.text
<1>1. /\ s.awaits = "own" /\ sends' = sends \ {s} /\ AppendMessage(s.to, t)
      /\ UNCHANGED <<loaded, up, recipient, texts, received, sent, unshown, early>>
  BY DEF Sent, Rid, historyVars, exchangeVars
<1>2. Numbered'
  BY <1>1 DEF ScreenInv, Numbered
<1>3. /\ sends' \subseteq Send /\ BeforeLoad' /\ \A x \in sends' : SendOK(x)'
      /\ s \in Send /\ loaded /\ SendOK(s)
      /\ \A r \in Contacts : UnderWay(r)' = UnderWay(r) \ {t}
  BY <1>1, <1>2, EndKeeps
<1>4. /\ s.to \in Contacts /\ t \in 0 .. MaxTexts
      /\ t \in sent[s.to] /\ t \notin unshown[s.to] /\ t \notin received[s.to]
      /\ t \in UnderWay(s.to)
      /\ \A r \in Contacts \ {s.to} : t \notin UnderWay(r)
  <2>1. s.to \in Contacts /\ t \in 0 .. MaxTexts
    BY <1>3 DEF Send
  <2>2. \A r \in Contacts \ {s.to} : t \notin UnderWay(r)
    BY UnderWayOf
  <2>3. QED
    BY <1>1, <1>3, <2>1, <2>2 DEF SendOK, UnderWay
<1> HIDE DEF t
<1>5. \A x \in Contacts :
          ToSet(conversations[x]) = received[x] \cup (sent[x] \ (UnderWay(x) \cup unshown[x]))
  BY <1>3 DEF ScreenInv, ShownIsTheConversation, RightConversation
<1>6. t \notin ToSet(conversations[s.to])
  BY <1>4, <1>5
<1>7. \A x \in Contacts \ {s.to} :
          ToSet(conversations[x]) = received'[x] \cup (sent'[x] \ (UnderWay(x)' \cup unshown'[x]))
  BY <1>1, <1>3, <1>4, <1>5
<1>8. ToSet(conversations[s.to]) \cup {t}
          = received'[s.to] \cup (sent'[s.to] \ (UnderWay(s.to)' \cup unshown'[s.to]))
  BY <1>1, <1>3, <1>4, <1>5
<1>9. /\ conversations' \in [Contacts -> Seq(0 .. MaxTexts)]
      /\ messages' \in Seq(0 .. MaxTexts)
      /\ ShownIsTheConversation'
  BY <1>1, <1>3, <1>4, <1>6, <1>7, <1>8, AppendKeeps
<1>10. QED
  BY <1>1, <1>2, <1>3, <1>9 DEF ScreenInv

(* A call fails, before or after its text went out.                        *)
LEMMA FailsKeeps ==
    ASSUME ScreenInv, NEW s \in sends, SendFails(s)
    PROVE  ScreenInv'
<1> DEFINE t == s.text
<1>1. /\ sends' = sends \ {s}
      /\ unshown' = IF s.awaits = "own" THEN [unshown EXCEPT ![s.to] = unshown[s.to] \cup {t}]
                    ELSE unshown
      /\ UNCHANGED <<loaded, up, recipient, conversations, messages, texts, received, sent,
                     early>>
  BY DEF SendFails
<1>2. /\ Numbered /\ s \in Send /\ SendOK(s)
      /\ s.awaits = "own" => t \in sent[s.to]
  BY DEF ScreenInv, SendOK
<1>3. s.to \in Contacts
  BY <1>2 DEF Send
<1>4. \A r \in Contacts :
          unshown'[r] = IF s.awaits = "own" /\ r = s.to THEN unshown[r] \cup {t} ELSE unshown[r]
  BY <1>1, <1>2, <1>3 DEF Numbered
<1>5. Numbered'
  BY <1>1, <1>2, <1>3 DEF Numbered
<1>6. /\ sends' \subseteq Send /\ BeforeLoad' /\ \A x \in sends' : SendOK(x)'
      /\ \A r \in Contacts : UnderWay(r)' = UnderWay(r) \ {t}
  BY <1>1, <1>4, <1>5, EndKeeps
<1>7. \A r \in Contacts : t \in UnderWay(r) => s.awaits = "own" /\ r = s.to
  BY UnderWayOf
<1>8. s.awaits = "own" => t \in UnderWay(s.to)
  BY DEF UnderWay
<1> HIDE DEF t
<1>9. \A r \in Contacts :
          sent'[r] \ (UnderWay(r)' \cup unshown'[r]) = sent[r] \ (UnderWay(r) \cup unshown[r])
  BY <1>1, <1>4, <1>6, <1>7, <1>8
<1>10. ShownIsTheConversation'
  BY <1>1, <1>9, ScreenKeeps DEF screenVars
<1>11. QED
  BY <1>1, <1>5, <1>6, <1>10 DEF ScreenInv

(* A call begins: its text has a new number.                               *)
LEMMA SubmitKeeps ==
    ASSUME ScreenInv, HandleSubmit
    PROVE  ScreenInv'
<1> DEFINE t == texts'
           n == [to |-> recipient, text |-> t, awaits |-> "recipient"]
<1>1. /\ up /\ recipient # None /\ texts < MaxTexts /\ t = texts + 1
      /\ sends' = sends \cup {n}
      /\ UNCHANGED <<loaded, up, recipient, conversations, messages, received, sent,
                     unshown, early>>
  BY DEF HandleSubmit, Enabled, exchangeVars
<1>2. /\ texts \in 0 .. MaxTexts /\ loaded /\ Numbered /\ recipient \in Contacts
      /\ sends \subseteq Send /\ \A s \in sends : SendOK(s)
  BY <1>1 DEF ScreenInv, BeforeLoad
<1>3. /\ texts \in Nat /\ t \in 1 .. t /\ t \in 0 .. MaxTexts
      /\ 0 .. texts \subseteq 0 .. t /\ 1 .. texts \subseteq 1 .. t
      /\ t \notin 0 .. texts /\ t \notin 1 .. texts
  BY <1>1, <1>2, ChatViewAssumption
<1> HIDE DEF t
<1>4. n \in Send /\ n.text = t /\ n.awaits = "recipient" /\ n.to = recipient
  BY <1>2, <1>3 DEF Send
<1> HIDE DEF n
<1>5. Numbered'
  <2>1. /\ received \in [Contacts -> SUBSET (0 .. t)]
        /\ sent \in [Contacts -> SUBSET (1 .. t)]
        /\ unshown \in [Contacts -> SUBSET (1 .. t)]
    BY <1>2, <1>3 DEF Numbered
  <2>2. QED
    BY <1>1, <1>2, <2>1 DEF Numbered, t
<1>6. \A x \in sends : x.text \in 1 .. texts /\ x.text # t /\ x.text \in 1 .. t
  BY <1>2, <1>3 DEF SendOK
<1>7. ASSUME NEW s \in sends' PROVE SendOK(s)'
  <2>1. CASE s = n
    <3>1. \A r \in Contacts : t \notin received[r] /\ t \notin sent[r]
      BY <1>2, <1>3 DEF Numbered
    <3>2. \A x \in sends' : x.text = t => x = n
      BY <1>1, <1>6
    <3>3. s.text = t /\ s.awaits = "recipient"
      BY <1>4, <2>1
    <3>4. QED
      BY <1>1, <1>3, <2>1, <3>1, <3>2, <3>3 DEF SendOK, t
  <2>2. CASE s \in sends
    <3>1. SendOK(s) /\ s.text # t /\ s.text \in 1 .. t
      BY <1>2, <1>6, <2>2
    <3>2. \A x \in sends' : x.text = s.text => x = s
      BY <1>1, <1>4, <3>1 DEF SendOK
    <3>3. QED
      BY <1>1, <3>1, <3>2 DEF SendOK, t
  <2>3. QED
    BY <1>1, <2>1, <2>2
<1>8. \A r \in Contacts : UnderWay(r)' = UnderWay(r)
  BY <1>1, <1>4 DEF UnderWay
<1>9. ShownIsTheConversation'
  BY <1>1, <1>8, ScreenKeeps DEF screenVars
<1>10. sends' \subseteq Send /\ BeforeLoad' /\ texts' \in 0 .. MaxTexts
  BY <1>1, <1>2, <1>3, <1>4 DEF BeforeLoad, t
<1>11. QED
  BY <1>1, <1>5, <1>7, <1>9, <1>10 DEF ScreenInv

(* Every step of the page keeps the conversations right.                   *)
LEMMA PageKeeps ==
    ASSUME ScreenInv, PageStep
    PROVE  ScreenInv'
<1>1. CASE Opened \/ Closed \/ ResetSession \/ HandleChange
  <2>1. UNCHANGED <<screenVars, textVars>> /\ (loaded \/ up' = up)
    <3>1. CASE Opened
      BY <3>1 DEF Opened, screenVars, textVars, historyVars
    <3>2. CASE Closed
      BY <3>2 DEF Closed, screenVars, textVars, historyVars, ScreenInv, BeforeLoad
    <3>3. CASE ResetSession
      BY <3>3 DEF ResetSession, screenVars, textVars, historyVars
    <3>4. CASE HandleChange
      BY <3>4 DEF HandleChange, screenVars, textVars, historyVars, pageVars
    <3>5. QED
      BY <1>1, <3>1, <3>2, <3>3, <3>4
  <2>2. QED
    BY <2>1, QuietScreen
<1>2. QED
  BY <1>1, SelectKeeps, LoadKeeps, ReceiveKeeps, FetchedKeeps, SentKeeps, FailsKeeps,
     SubmitKeeps DEF PageStep

(* Timers, frames and the contacts leave the screen alone.                 *)
LEMMA OthersKeep ==
    ASSUME ScreenInv,
           \/ Due \/ Tick
           \/ \E r \in Watched : ContactStep(r) \/ ClearFires(r)
           \/ UNCHANGED vars
    PROVE  ScreenInv'
<1>1. UNCHANGED <<pageVars, historyVars>>
  BY DEF Due, HeartbeatFires, IdleFires, Tick, ContactStep, OnTyping, OnText, FrameLost,
         ClearFires, vars
<1>2. UNCHANGED <<screenVars, textVars>> /\ up' = up
  BY <1>1 DEF pageVars, historyVars, screenVars, textVars
<1>3. QED
  BY <1>2, QuietScreen

(* At first there is nothing but what is stored.                           *)
LEMMA InitScreen == Init => ScreenInv
<1> SUFFICES ASSUME Init PROVE ScreenInv
  OBVIOUS
<1>1. /\ ~loaded /\ ~up /\ recipient = None /\ messages = <<>> /\ sends = {} /\ texts = 0
      /\ conversations = [r \in Contacts |-> <<>>]
      /\ received = [r \in Contacts |-> ToSet(Stored[r])]
      /\ sent = [r \in Contacts |-> {}] /\ unshown = sent
  BY DEF Init
<1>2. \A r \in Contacts : ToSet(Stored[r]) \subseteq {0}
  <2>1. ToSet(<<0>>) = {0} /\ ToSet(<<>>) = {}
    BY DEF ToSet
  <2>2. QED
    BY <2>1 DEF Stored
<1>3. 0 .. 0 = {0} /\ 0 \in 0 .. MaxTexts /\ <<>> \in Seq(0 .. MaxTexts)
  BY ChatViewAssumption
<1>4. Numbered
  BY <1>1, <1>2, <1>3 DEF Numbered
<1>5. BeforeLoad /\ ShownIsTheConversation
  BY <1>1 DEF BeforeLoad, ShownIsTheConversation
<1>6. QED
  BY <1>1, <1>3, <1>4, <1>5 DEF ScreenInv, Send

(* Whatever contact the user changes to while texts are on their way, in   *)
(* either direction, and whichever fetches fail, every conversation has    *)
(* exactly what came and what went out to its contact, but for the texts   *)
(* whose sendMessage goes on or failed after they went out; and the screen *)
(* shows the conversation of the contact chosen.                           *)
THEOREM ScreenShowsConversation == Spec => []ShownIsTheConversation
<1>1. ScreenInv /\ [Next]_vars => ScreenInv'
  BY PageKeeps, OthersKeep DEF Next
<1>2. ScreenInv => ShownIsTheConversation
  BY DEF ScreenInv
<1>3. QED
  BY <1>1, <1>2, InitScreen, PTL DEF Spec

-----------------------------------------------------------------------------
(* The sidebar                                                             *)

(* The contacts there is a text of.                                        *)
Talked == {r \in Contacts : conversations[r] # <<>>}

(* Texts are numbered within the bound, the sidebar has exactly the        *)
(* contacts there is a text of, and as many entries as there are.          *)
SidebarInv ==
    /\ texts \in 0 .. MaxTexts
    /\ \A s \in sends : s.text \in 0 .. MaxTexts
    /\ conversations \in [Contacts -> Seq(0 .. MaxTexts)]
    /\ sidebar \in Seq(Contacts)
    /\ ToSet(sidebar) = Talked
    /\ IsFiniteSet(Talked)
    /\ Len(sidebar) = Cardinality(Talked)

(* A text that is appended brings its contact to the top.                  *)
LEMMA AppendSidebar ==
    ASSUME SidebarInv, NEW r \in Contacts, NEW t \in 0 .. MaxTexts, AppendMessage(r, t),
           texts' \in 0 .. MaxTexts, \A s \in sends' : s.text \in 0 .. MaxTexts
    PROVE  SidebarInv'
<1> DEFINE c == conversations
           q == RemoveFirst(sidebar, r)
<1>1. /\ c \in [Contacts -> Seq(0 .. MaxTexts)]
      /\ sidebar \in Seq(Contacts) /\ ToSet(sidebar) = Talked
      /\ IsFiniteSet(Talked) /\ Len(sidebar) = Cardinality(Talked)
  BY DEF SidebarInv
<1>2. /\ conversations' = [c EXCEPT ![r] = Append(c[r], t)]
      /\ sidebar' = <<r>> \o q
  BY DEF AppendMessage
<1>3. c[r] \in Seq(0 .. MaxTexts)
  BY <1>1
<1>4. Append(c[r], t) \in Seq(0 .. MaxTexts) /\ Append(c[r], t) # <<>>
  BY <1>3
<1>5. conversations' \in [Contacts -> Seq(0 .. MaxTexts)]
  BY <1>1, <1>2, <1>4
<1>6. Talked' = Talked \cup {r}
  BY <1>1, <1>2, <1>4 DEF Talked
<1>7. /\ q \in Seq(Contacts)
      /\ ToSet(sidebar) \ {r} \subseteq ToSet(q) /\ ToSet(q) \subseteq ToSet(sidebar)
      /\ Len(q) = IF r \in ToSet(sidebar) THEN Len(sidebar) - 1 ELSE Len(sidebar)
  BY <1>1, RemoveFirstLength
<1> HIDE DEF q
<1>8. /\ <<r>> \in Seq(Contacts) /\ Len(<<r>>) = 1 /\ ToSet(<<r>>) = {r}
  BY DEF ToSet
<1>9. /\ sidebar' \in Seq(Contacts)
      /\ Len(sidebar') = 1 + Len(q)
      /\ ToSet(sidebar') = {r} \cup ToSet(q)
  <2> DEFINE h == <<r>>
  <2> HIDE DEF h
  <2>1. Len(h) = 1 /\ ToSet(h) = {r}
    BY <1>8 DEF h
  <2>0. h \in Seq(Contacts)
    BY <1>8 DEF h
  <2>4. q \in Seq(Contacts)
    BY <1>7
  <2>2. /\ h \o q \in Seq(Contacts)
        /\ Len(h \o q) = Len(h) + Len(q)
        /\ ToSet(h \o q) = ToSet(h) \cup ToSet(q)
    BY <2>0, <2>4, ConcatElements
  <2>3. QED
    BY <1>2, <2>1, <2>2 DEF h
<1>10. ToSet(sidebar') = Talked'
  BY <1>1, <1>6, <1>7, <1>9
<1>11. /\ IsFiniteSet(Talked')
       /\ Cardinality(Talked') = IF r \in Talked THEN Cardinality(Talked)
                                 ELSE Cardinality(Talked) + 1
  BY <1>1, <1>6, FS_AddElement
<1>12. Cardinality(Talked) \in Nat
  BY <1>1, FS_CardinalityType
<1>13. Len(sidebar') = Cardinality(Talked')
  BY <1>1, <1>7, <1>9, <1>11, <1>12
<1>14. QED
  BY <1>5, <1>9, <1>10, <1>11, <1>13 DEF SidebarInv

(* The load lists the contacts of the stored texts.                        *)
LEMMA LoadSidebar ==
    ASSUME SidebarInv, Load
    PROVE  SidebarInv'
<1> DEFINE n == Cardinality(Known)
<1>1. PICK s \in [1 .. n -> Known] :
          /\ \A r \in Known : \E i \in DOMAIN s : s[i] = r
          /\ sidebar' = s
  BY DEF Load
<1>2. n \in Nat /\ IsFiniteSet(Known) /\ Known \subseteq Contacts
  BY FS_CardinalityType, ChatViewAssumption
<1>3. /\ sidebar' \in Seq(Contacts) /\ Len(sidebar') = n
      /\ \A i \in 1 .. n : sidebar'[i] \in Known
      /\ \A r \in Known : \E i \in 1 .. n : sidebar'[i] = r
  BY <1>1, <1>2
<1>4. \A r \in Contacts : conversations'[r] = IF r \in Known THEN <<0>> ELSE <<>>
  BY DEF Load, Stored
<1>5. conversations' \in [Contacts -> Seq(0 .. MaxTexts)]
  <2>1. <<0>> \in Seq(0 .. MaxTexts) /\ <<>> \in Seq(0 .. MaxTexts)
    BY ChatViewAssumption
  <2>2. QED
    BY <2>1 DEF Load, Stored
<1>6. Talked' = Known
  BY <1>2, <1>4 DEF Talked
<1>7. ToSet(sidebar') = Known
  <2> DEFINE q == sidebar'
  <2> HIDE DEF q
  <2>1. q \in Seq(Contacts) /\ Len(q) = n
    BY <1>3 DEF q
  <2>2. \A x : x \in ToSet(q) <=> \E i \in 1 .. Len(q) : q[i] = x
    BY <2>1, ElementsOf
  <2>3. \A x : x \in ToSet(q) <=> x \in Known
    BY <1>3, <2>1, <2>2 DEF q
  <2>4. QED
    BY <2>3 DEF q
<1>8. texts' = texts /\ sends' = sends
  BY DEF Load, historyVars
<1>9. QED
  BY <1>2, <1>3, <1>5, <1>6, <1>7, <1>8 DEF SidebarInv

(* The steps that append nothing.                                          *)
LEMMA OthersSidebar ==
    ASSUME SidebarInv, UNCHANGED <<conversations, sidebar>>, texts' \in 0 .. MaxTexts,
           \A s \in sends' : s.text \in 0 .. MaxTexts
    PROVE  SidebarInv'
BY DEF SidebarInv, Talked

(* Every step keeps the sidebar and the conversations together.            *)
LEMMA SidebarStep == ScreenInv /\ SidebarInv /\ [Next]_vars => SidebarInv'
<1> SUFFICES ASSUME ScreenInv, SidebarInv, [Next]_vars PROVE SidebarInv'
  OBVIOUS
<1>0. texts \in 0 .. MaxTexts /\ \A s \in sends : s.text \in 0 .. MaxTexts
  BY DEF SidebarInv
<1>1. CASE UNCHANGED <<conversations, sidebar, texts, sends>>
  BY <1>0, <1>1, OthersSidebar
<1>2. CASE Load
  BY <1>2, LoadSidebar
<1>3. ASSUME NEW r \in Contacts, Receive(r) PROVE SidebarInv'
  <2>1. texts' \in 0 .. MaxTexts /\ AppendMessage(r, texts') /\ sends' = sends
    BY <1>0, <1>3, ChatViewAssumption DEF Receive
  <2>2. QED
    BY <1>0, <2>1, AppendSidebar
<1>4. ASSUME NEW s \in sends, Fetched(s) PROVE SidebarInv'
  <2>1. UNCHANGED <<conversations, sidebar, texts>>
    BY <1>4 DEF Fetched, historyVars
  <2>2. s \in Send
    BY DEF ScreenInv
  <2>3. [s EXCEPT !.awaits = "own"].text = s.text
    BY <2>2 DEF Send
  <2>4. \A x \in sends' : x.text \in 0 .. MaxTexts
    BY <1>0, <1>4, <2>3 DEF Fetched
  <2>5. QED
    BY <1>0, <2>1, <2>4, OthersSidebar
<1>5. ASSUME NEW s \in sends, Sent(s) PROVE SidebarInv'
  <2>1. s.to \in Contacts
    BY DEF ScreenInv, Send
  <2>2. AppendMessage(s.to, s.text) /\ texts' = texts /\ sends' \subseteq sends
    BY <1>5 DEF Sent, Rid, historyVars
  <2>3. QED
    BY <1>0, <2>1, <2>2, AppendSidebar
<1>6. ASSUME NEW s \in sends, SendFails(s) PROVE SidebarInv'
  <2>1. UNCHANGED <<conversations, sidebar, texts>> /\ sends' \subseteq sends
    BY <1>6 DEF SendFails, historyVars
  <2>2. QED
    BY <1>0, <2>1, OthersSidebar
<1>7. CASE HandleSubmit
  <2> DEFINE x == [to |-> recipient, text |-> texts', awaits |-> "recipient"]
  <2>1. texts' \in 0 .. MaxTexts /\ sends' = sends \cup {x}
    BY <1>0, <1>7, ChatViewAssumption DEF HandleSubmit
  <2>2. x.text = texts'
    OBVIOUS
  <2>3. UNCHANGED <<conversations, sidebar>>
    BY <1>7 DEF HandleSubmit
  <2> HIDE DEF x
  <2>4. QED
    BY <1>0, <2>1, <2>2, <2>3, OthersSidebar
<1>8. ASSUME NEW r \in Contacts \cup {None}, Select(r)
      PROVE  UNCHANGED <<conversations, sidebar, texts, sends>>
  BY <1>8 DEF Select
<1>9. CASE Opened \/ Closed \/ ResetSession \/ HandleChange
  <2>1. UNCHANGED <<conversations, sidebar, texts, sends>>
    BY <1>9 DEF Opened, Closed, ResetSession, HandleChange, pageVars, historyVars
  <2>2. QED
    BY <1>1, <2>1
<1>10. CASE Due \/ Tick \/ \E r \in Watched : ContactStep(r) \/ ClearFires(r)
  <2>1. UNCHANGED <<conversations, sidebar, texts, sends>>
    BY <1>10 DEF Due, HeartbeatFires, IdleFires, Tick, ContactStep, OnTyping, OnText,
           FrameLost, ClearFires, pageVars, historyVars
  <2>2. QED
    BY <1>1, <2>1
<1>11. CASE UNCHANGED vars
  BY <1>1, <1>11 DEF vars, pageVars, historyVars
<1>12. QED
  BY <1>1, <1>2, <1>3, <1>4, <1>5, <1>6, <1>7, <1>8, <1>9, <1>10, <1>11 DEF Next, PageStep

-----------------------------------------------------------------------------
(* Typing                                                                  *)

Timer(n) == {Off} \cup 0 .. n

(* The timers of the field run exactly while it counts as typing, and each *)
(* indicator that is on has a timer.                                       *)
TimersOK ==
    /\ heartbeat \in Timer(Heartbeat) /\ idle \in Timer(Idle)
    /\ isTyping \in BOOLEAN /\ value \in BOOLEAN
    /\ isTyping <=> heartbeat # Off
    /\ isTyping <=> idle # Off
    /\ clear \in [Watched -> Timer(AutoClear)]
    /\ DOMAIN shows = Watched
    /\ \A r \in Watched : shows[r] <=> clear[r] # Off
    /\ wire \in [Watched -> Seq(Frame)]

(* A contact that was told has an indicator whose timer outlasts the       *)
(* heartbeat, or the next typing frame is on its way.                      *)
ToldOK ==
    \A r \in Watched : told[r] =>
        /\ TypingTo(r) /\ shows[r]
        /\ clear[r] > heartbeat \/ (clear[r] > 0 /\ wire[r] # <<>>)

TypingInv == TimersOK /\ DOMAIN told = Watched /\ DOMAIN session = Watched /\ ToldOK

(* Steps of the page that leave the field alone: sessions are kept or the  *)
(* contact counts as told no more, and frames are only added.              *)
LEMMA PageTyping ==
    ASSUME TypingInv, UNCHANGED <<inputVars, shows, clear>>,
           wire' \in [Watched -> Seq(Frame)],
           DOMAIN told' = Watched, DOMAIN session' = Watched,
           \A r \in Watched : wire[r] # <<>> => wire'[r] # <<>>,
           \A r \in Watched : told'[r] =>
               /\ told[r]
               /\ recipient' = recipient /\ up' = up
               /\ session[r] => session'[r]
    PROVE  TypingInv'
BY DEF TypingInv, TimersOK, ToldOK, TypingTo, inputVars

(* notifyTyping adds a frame for the recipient, if any is to be told.      *)
LEMMA NotifyAdds ==
    ASSUME TimersOK, NEW f \in Frame, NotifyTyping(f)
    PROVE  /\ wire' \in [Watched -> Seq(Frame)]
           /\ \A r \in Watched : wire[r] # <<>> => wire'[r] # <<>>
           /\ \A r \in Watched : up /\ r = recipient /\ session[r] => wire'[r] # <<>>
<1>1. ASSUME NEW r \in Watched
      PROVE  /\ wire[r] \in Seq(Frame) /\ Append(wire[r], f) \in Seq(Frame)
             /\ Append(wire[r], f) # <<>>
  <2>1. wire[r] \in Seq(Frame)
    BY DEF TimersOK
  <2>2. QED
    BY <2>1
<1>2. \A r \in Watched :
          wire'[r] = IF up /\ r = recipient /\ session[r] THEN Append(wire[r], f) ELSE wire[r]
  BY DEF NotifyTyping
<1>3. wire' = [r \in Watched |-> wire'[r]]
  BY DEF NotifyTyping
<1>4. \A r \in Watched : wire'[r] \in Seq(Frame)
  BY <1>1, <1>2
<1>5. wire' \in [Watched -> Seq(Frame)]
  BY <1>3, <1>4
<1>6. QED
  BY <1>1, <1>2, <1>5

(* Dropping a session, or not.                                             *)
LEMMA DropTyping ==
    ASSUME TypingInv, NEW r, DropSession(r) \/ UNCHANGED <<session, told>>,
           UNCHANGED <<inputVars, shows, clear, wire, recipient, up>>
    PROVE  TypingInv'
<1>1. wire' \in [Watched -> Seq(Frame)]
  BY DEF TypingInv, TimersOK
<1>2. DOMAIN told' = Watched /\ DOMAIN session' = Watched
  BY DEF TypingInv, DropSession
<1>3. \A x \in Watched : told'[x] => told[x] /\ (session[x] => session'[x])
  BY DEF DropSession
<1>4. QED
  BY <1>1, <1>2, <1>3, PageTyping

(* The page's steps.                                                       *)
LEMMA PageStepTyping ==
    ASSUME TypingInv, ScreenInv, PageStep
    PROVE  TypingInv'
<1>0. wire \in [Watched -> Seq(Frame)] /\ DOMAIN told = Watched /\ DOMAIN session = Watched
  BY DEF TypingInv, TimersOK
<1>1. ASSUME NEW r \in Contacts \cup {None}, Select(r) PROVE TypingInv'
  <2>1. DOMAIN told' = Watched /\ \A x \in Watched : ~told'[x]
    BY <1>1 DEF Select, All
  <2>2. QED
    BY <1>0, <1>1, <2>1, PageTyping DEF Select, contactVars
<1>2. CASE Load \/ Opened
  <2>1. UNCHANGED <<recipient, session, inputVars, wire, shows, clear, told>>
    BY <1>2 DEF Load, Opened, contactVars
  <2>2. \A r \in Watched : told[r] => up
    BY DEF TypingInv, ToldOK, TypingTo
  <2>3. Opened => ~up
    BY DEF Opened
  <2>4. Load => up' = up
    BY DEF Load
  <2>5. QED
    BY <1>0, <1>2, <2>1, <2>2, <2>3, <2>4, PageTyping
<1>3. CASE Closed
  <2>1. DOMAIN told' = Watched /\ \A x \in Watched : ~told'[x]
    BY <1>3 DEF Closed, All
  <2>2. QED
    BY <1>0, <1>3, <2>1, PageTyping DEF Closed, contactVars
<1>4. ASSUME NEW r \in Contacts, Receive(r) PROVE TypingInv'
  BY <1>4, DropTyping DEF Receive, contactVars
<1>5. CASE ResetSession
  BY <1>5, DropTyping DEF ResetSession, contactVars
<1>6. ASSUME NEW s \in sends, Fetched(s) PROVE TypingInv'
  <2>1. ASSUME NEW x \in Watched
        PROVE  /\ wire'[x] \in Seq(Frame)
               /\ wire[x] # <<>> => wire'[x] # <<>>
    <3>0. wire[x] \in Seq(Frame)
      BY <1>0
    <3>1. TextFrame(x) \in Seq(Frame)
      <4>1. TextFrame(x) \in {<<"msg">>, <<"init">>, <<>>, <<"no init">>}
        BY DEF TextFrame
      <4>2. \A f \in Frame : <<f>> \in Seq(Frame)
        OBVIOUS
      <4>3. QED
        <5>1. "msg" \in Frame /\ "init" \in Frame /\ "no init" \in Frame
          BY DEF Frame
        <5>2. <<"msg">> \in Seq(Frame)
          BY <4>2, <5>1
        <5>3. <<"init">> \in Seq(Frame)
          BY <4>2, <5>1
        <5>4. <<"no init">> \in Seq(Frame)
          BY <4>2, <5>1
        <5>5. <<>> \in Seq(Frame)
          OBVIOUS
        <5>6. QED
          BY <4>1, <5>2, <5>3, <5>4, <5>5
    <3>2. wire'[x] = IF x = s.to THEN wire[x] \o TextFrame(x) ELSE wire[x]
      BY <1>6 DEF Fetched
    <3> DEFINE t == TextFrame(x)
               w == wire[x]
    <3> HIDE DEF t, w
    <3>3. t \in Seq(Frame) /\ w \in Seq(Frame)
      BY <3>0, <3>1 DEF t, w
    <3>4. /\ w \o t \in Seq(Frame)
          /\ w # <<>> => w \o t # <<>>
      BY <3>3
    <3>5. QED
      BY <3>2, <3>3, <3>4 DEF t, w
  <2>2. wire' = [x \in Watched |-> wire'[x]]
    BY <1>6 DEF Fetched
  <2>3. wire' \in [Watched -> Seq(Frame)]
    BY <2>1, <2>2
  <2>4. DOMAIN session' = Watched /\ \A x \in Watched : session[x] => session'[x]
    BY <1>6 DEF Fetched
  <2>5. UNCHANGED <<recipient, up, inputVars, shows, clear, told>>
    BY <1>6 DEF Fetched, contactVars
  <2>6. QED
    BY <1>0, <2>1, <2>3, <2>4, <2>5, PageTyping
<1>7. ASSUME NEW s \in sends, Sent(s) \/ SendFails(s) PROVE TypingInv'
  <2>1. UNCHANGED <<recipient, up, session, inputVars, wire, shows, clear, told>>
    BY <1>7 DEF Sent, SendFails, contactVars
  <2>2. QED
    BY <1>0, <2>1, PageTyping
<1>8. CASE HandleChange
  <2>1. CASE isTyping
    BY <1>8, <2>1 DEF HandleChange, TypingInv, TimersOK, ToldOK, TypingTo, Timer, Idle,
                      pageVars, contactVars, Off
  <2>2. CASE ~isTyping
    <3>1. \A r \in Watched : ~told[r]
      BY <2>2 DEF TypingInv, ToldOK, TypingTo
    <3>2. wire' \in [Watched -> Seq(Frame)]
      BY <1>8, <2>2, NotifyAdds DEF HandleChange, Frame, TypingInv
    <3>3. QED
      BY <1>8, <2>2, <3>1, <3>2
      DEF HandleChange, TypingInv, TimersOK, ToldOK, Timer, Idle, Heartbeat, Off,
          pageVars, contactVars
  <2>3. QED
    BY <2>1, <2>2
<1>9. CASE HandleSubmit
  <2>1. wire' \in [Watched -> Seq(Frame)]
    BY <1>0, <1>9, NotifyAdds DEF HandleSubmit, StopTyping, Frame, TypingInv
  <2>2. DOMAIN told' = Watched /\ \A x \in Watched : ~told'[x]
    BY <1>9 DEF HandleSubmit, StopTyping, All
  <2>3. QED
    BY <1>9, <2>1, <2>2
    DEF HandleSubmit, StopTyping, Cleared, TypingInv, TimersOK, ToldOK, Timer, Off, contactVars
<1>10. QED
  BY <1>1, <1>2, <1>3, <1>4, <1>5, <1>6, <1>7, <1>8, <1>9 DEF PageStep

(* The field's timers.                                                     *)
LEMMA DueTyping ==
    ASSUME TypingInv, Due
    PROVE  TypingInv'
<1>1. CASE HeartbeatFires
  <2>1. /\ wire' \in [Watched -> Seq(Frame)]
        /\ \A r \in Watched : up /\ r = recipient /\ session[r] => wire'[r] # <<>>
    BY <1>1, NotifyAdds DEF HeartbeatFires, Frame, TypingInv
  <2>2. \A r \in Watched : told[r] => clear[r] > 0 /\ wire'[r] # <<>>
    <3>1. ASSUME NEW r \in Watched, told[r] PROVE clear[r] > 0
      BY <1>1, <3>1 DEF HeartbeatFires, TypingInv, ToldOK
    <3>2. QED
      BY <2>1, <3>1 DEF TypingInv, ToldOK, TypingTo
  <2>3. QED
    BY <1>1, <2>1, <2>2
    DEF HeartbeatFires, TypingInv, TimersOK, ToldOK, TypingTo, Timer, Heartbeat, Off,
        pageVars, contactVars
<1>2. CASE IdleFires
  <2>1. wire' \in [Watched -> Seq(Frame)]
    BY <1>2, NotifyAdds DEF IdleFires, StopTyping, Frame, TypingInv, TimersOK
  <2>2. DOMAIN told' = Watched /\ \A x \in Watched : ~told'[x]
    BY <1>2 DEF IdleFires, StopTyping, All
  <2>3. QED
    BY <1>2, <2>1, <2>2
    DEF IdleFires, StopTyping, Cleared, TypingInv, TimersOK, ToldOK, Timer, Off, pageVars,
        contactVars
<1>3. QED
  BY <1>1, <1>2 DEF Due

(* A contact's indicator is set.                                           *)
LEMMA SetTypingTimer ==
    ASSUME TimersOK, NEW r \in Watched, NEW b \in BOOLEAN, SetTyping(r, b)
    PROVE  /\ clear' \in [Watched -> Timer(AutoClear)]
           /\ DOMAIN shows' = Watched
           /\ \A x \in Watched : shows'[x] <=> clear'[x] # Off
           /\ b => shows'[r] /\ clear'[r] = AutoClear
           /\ \A x \in Watched \ {r} : clear'[x] = clear[x] /\ shows'[x] = shows[x]
BY DEF TimersOK, SetTyping, Timer, AutoClear, Off

(* What the contacts do.                                                   *)
LEMMA ContactTyping ==
    ASSUME TypingInv, NEW r \in Watched, ContactStep(r) \/ ClearFires(r)
    PROVE  TypingInv'
<1>0. /\ UNCHANGED <<pageVars, inputVars>>
      /\ DOMAIN told' = Watched
      /\ \A x \in Watched \ {r} : told'[x] = told[x]
  BY DEF ContactStep, OnTyping, OnText, FrameLost, ClearFires, TypingInv
<1>1. ASSUME NEW frames, Arrives(r, frames)
      PROVE  /\ wire' \in [Watched -> Seq(Frame)]
             /\ \A x \in Watched \ {r} : wire'[x] = wire[x]
  <2>1. wire \in [Watched -> Seq(Frame)]
    BY DEF TypingInv, TimersOK
  <2>2. wire[r] \in Seq(Frame)
    BY <2>1
  <2>3. Tail(wire[r]) \in Seq(Frame)
    BY <1>1, <2>2 DEF Arrives
  <2>4. wire' = [wire EXCEPT ![r] = Tail(wire[r])]
    BY <1>1 DEF Arrives
  <2>5. QED
    BY <2>1, <2>3, <2>4
<1>2. ASSUME \/ UNCHANGED <<shows, clear>>
             \/ SetTyping(r, FALSE)
             \/ SetTyping(r, TRUE),
             wire' \in [Watched -> Seq(Frame)],
             \A x \in Watched \ {r} : wire'[x] = wire[x],
             told'[r] => /\ TypingTo(r) /\ shows'[r]
                         /\ clear'[r] > heartbeat \/ (clear'[r] > 0 /\ wire'[r] # <<>>)
      PROVE  TypingInv'
  <2>1. /\ clear' \in [Watched -> Timer(AutoClear)]
        /\ DOMAIN shows' = Watched
        /\ \A x \in Watched : shows'[x] <=> clear'[x] # Off
        /\ \A x \in Watched \ {r} : clear'[x] = clear[x] /\ shows'[x] = shows[x]
    BY <1>2, SetTypingTimer DEF TypingInv, TimersOK
  <2>2. TimersOK'
    BY <1>0, <1>2, <2>1 DEF TypingInv, TimersOK, inputVars
  <2>3. UNCHANGED <<isTyping, recipient, up, session, heartbeat>>
    BY <1>0 DEF pageVars, inputVars
  <2>4. ASSUME NEW x \in Watched, told'[x]
        PROVE  /\ TypingTo(x)' /\ shows'[x]
               /\ clear'[x] > heartbeat' \/ (clear'[x] > 0 /\ wire'[x] # <<>>)
    <3>1. CASE x = r
      BY <1>2, <2>3, <2>4, <3>1 DEF TypingTo
    <3>2. CASE x # r
      BY <1>0, <1>2, <2>1, <2>3, <2>4, <3>2 DEF TypingInv, ToldOK, TypingTo
    <3>3. QED
      BY <3>1, <3>2
  <2>5. QED
    BY <1>0, <2>2, <2>3, <2>4 DEF TypingInv, ToldOK
<1>3. CASE OnTyping(r)
  <2> DEFINE b == Head(wire[r]) = "typing"
  <2>1. /\ wire' \in [Watched -> Seq(Frame)]
        /\ \A x \in Watched \ {r} : wire'[x] = wire[x]
    BY <1>1, <1>3 DEF OnTyping
  <2>2. IF knows[r] THEN SetTyping(r, b) ELSE UNCHANGED <<shows, clear>>
    BY <1>3 DEF OnTyping
  <2>3. told'[r] <=> (knows[r] /\ b /\ TypingTo(r))
    BY <1>3 DEF OnTyping, TypingInv
  <2>4. b \in BOOLEAN
    OBVIOUS
  <2> HIDE DEF b
  <2>5. \/ UNCHANGED <<shows, clear>> \/ SetTyping(r, FALSE) \/ SetTyping(r, TRUE)
    BY <2>2, <2>4
  <2>6. told'[r] => shows'[r] /\ clear'[r] = AutoClear
    BY <2>2, <2>3, <2>4, SetTypingTimer DEF TypingInv
  <2>7. AutoClear > heartbeat
    BY DEF TypingInv, TimersOK, Timer, AutoClear, Heartbeat, Off
  <2>8. QED
    BY <1>2, <2>1, <2>3, <2>5, <2>6, <2>7
<1>4. CASE OnText(r)
  <2>1. /\ wire' \in [Watched -> Seq(Frame)]
        /\ \A x \in Watched \ {r} : wire'[x] = wire[x]
    BY <1>1, <1>4 DEF OnText
  <2>2. ~told'[r]
    BY <1>4 DEF OnText, TypingInv
  <2>3. SetTyping(r, FALSE) \/ UNCHANGED <<shows, clear>>
    BY <1>4 DEF OnText
  <2>4. QED
    BY <1>2, <2>1, <2>2, <2>3
<1>5. CASE FrameLost(r)
  <2>1. /\ wire' \in [Watched -> Seq(Frame)]
        /\ \A x \in Watched \ {r} : wire'[x] = wire[x]
    BY <1>1, <1>5 DEF FrameLost
  <2>2. ~told'[r]
    BY <1>5 DEF FrameLost, TypingInv
  <2>3. UNCHANGED <<shows, clear>>
    BY <1>5 DEF FrameLost
  <2>4. QED
    BY <1>2, <2>1, <2>2, <2>3
<1>6. CASE ClearFires(r)
  <2>1. wire' = wire /\ told' = told /\ SetTyping(r, FALSE) /\ clear[r] = 0
    BY <1>6 DEF ClearFires
  <2>2. ~told[r]
    BY <2>1 DEF TypingInv, ToldOK, TypingTo, TimersOK, Timer, Off
  <2>3. wire' \in [Watched -> Seq(Frame)]
    BY <2>1 DEF TypingInv, TimersOK
  <2>4. QED
    BY <1>2, <2>1, <2>2, <2>3
<1>7. QED
  BY <1>3, <1>4, <1>5, <1>6 DEF ContactStep

(* A second passes.                                                        *)
LEMMA TickTyping ==
    ASSUME TypingInv, Tick
    PROVE  TypingInv'
<1>1. /\ heartbeat # 0 /\ idle # 0 /\ \A r \in Watched : clear[r] # 0
      /\ heartbeat' = Less(heartbeat) /\ idle' = Less(idle)
      /\ clear' = [r \in Watched |-> Less(clear[r])]
      /\ UNCHANGED <<recipient, up, session, value, isTyping, wire, shows, told>>
      /\ \A r \in Watched : wire[r] = <<>>
  BY DEF Tick, All, pageVars
<1>2. ASSUME NEW n \in {Heartbeat, Idle, AutoClear}, NEW t \in Timer(n), t # 0
      PROVE  Less(t) \in Timer(n) /\ (Less(t) = Off <=> t = Off) /\ (t # Off => Less(t) = t - 1)
  BY <1>2 DEF Timer, Less, Off, Heartbeat, Idle, AutoClear
<1>3. heartbeat \in Timer(Heartbeat) /\ idle \in Timer(Idle)
      /\ \A r \in Watched : clear[r] \in Timer(AutoClear)
  BY DEF TypingInv, TimersOK
<1>4. TimersOK'
  BY <1>1, <1>2, <1>3 DEF TypingInv, TimersOK
<1>5. ASSUME NEW r \in Watched, told[r] PROVE clear'[r] > heartbeat'
  <2>1. TypingTo(r) /\ clear[r] > heartbeat
    BY <1>1, <1>5 DEF TypingInv, ToldOK
  <2>2. heartbeat # Off /\ heartbeat \in Int /\ clear[r] \in Int /\ clear[r] # Off
    BY <1>3, <2>1 DEF TypingInv, TimersOK, TypingTo, Timer, Off
  <2>3. heartbeat' = heartbeat - 1 /\ clear'[r] = clear[r] - 1
    BY <1>1, <2>2 DEF Less
  <2>4. QED
    BY <2>1, <2>2, <2>3
<1>6. QED
  BY <1>1, <1>4, <1>5 DEF TypingInv, ToldOK, TypingTo

(* Every step keeps the timers in order and the contacts told.             *)
LEMMA TypingStep == ScreenInv /\ TypingInv /\ [Next]_vars => TypingInv'
<1>1. TypingInv /\ UNCHANGED vars => TypingInv'
  BY DEF TypingInv, TimersOK, ToldOK, TypingTo, vars, pageVars, inputVars, contactVars
<1>2. QED
  BY <1>1, PageStepTyping, DueTyping, ContactTyping, TickTyping DEF Next

-----------------------------------------------------------------------------
(* The theorems                                                            *)

(* What is on or off, of the page and of the contacts.                     *)
FlagsOK ==
    /\ loaded \in BOOLEAN /\ up \in BOOLEAN /\ early \in BOOLEAN
    /\ session \in [Watched -> BOOLEAN] /\ knows \in [Watched -> BOOLEAN]
    /\ shows \in [Watched -> BOOLEAN] /\ told \in [Watched -> BOOLEAN]

LEMMA FlagsStep == FlagsOK /\ [Next]_vars => FlagsOK'
<1> SUFFICES ASSUME FlagsOK, [Next]_vars PROVE FlagsOK'
  OBVIOUS
<1>1. /\ {loaded, up, early} \subseteq BOOLEAN
      /\ session \in [Watched -> BOOLEAN] /\ knows \in [Watched -> BOOLEAN]
      /\ shows \in [Watched -> BOOLEAN] /\ told \in [Watched -> BOOLEAN]
      /\ All(FALSE) \in [Watched -> BOOLEAN]
  BY DEF FlagsOK, All
<1>2. ASSUME NEW r, DropSession(r) \/ UNCHANGED <<session, told>>
      PROVE  session' \in [Watched -> BOOLEAN] /\ told' \in [Watched -> BOOLEAN]
  BY <1>1, <1>2 DEF DropSession
<1>3. CASE PageStep
  <2>1. UNCHANGED <<knows, shows>>
    BY <1>3 DEF PageStep, Select, Load, Opened, Closed, Receive, ResetSession, Fetched, Sent,
                SendFails, HandleChange, HandleSubmit, contactVars
  <2>2. {loaded', up', early'} \subseteq BOOLEAN
    BY <1>1, <1>3 DEF PageStep, Select, Load, Opened, Closed, Receive, ResetSession, Fetched,
                      Sent, SendFails, HandleChange, HandleSubmit, pageVars, historyVars
  <2>3. session' \in [Watched -> BOOLEAN] /\ told' \in [Watched -> BOOLEAN]
    <3>1. CASE ResetSession \/ \E r \in Contacts : Receive(r)
      BY <1>2, <3>1 DEF ResetSession, Receive
    <3>2. ASSUME NEW s \in sends, Fetched(s)
          PROVE  session' \in [Watched -> BOOLEAN] /\ told' \in [Watched -> BOOLEAN]
      BY <1>1, <3>2 DEF Fetched
    <3>3. ASSUME NEW s \in sends, Sent(s) \/ SendFails(s)
          PROVE  session' \in [Watched -> BOOLEAN] /\ told' \in [Watched -> BOOLEAN]
      BY <1>1, <3>3 DEF Sent, SendFails
    <3>4. ASSUME NEW r \in Contacts \cup {None}, Select(r)
          PROVE  session' \in [Watched -> BOOLEAN] /\ told' \in [Watched -> BOOLEAN]
      BY <1>1, <3>4 DEF Select
    <3>5. CASE Load \/ Opened \/ Closed \/ HandleChange \/ HandleSubmit
      BY <1>1, <3>5 DEF Load, Opened, Closed, HandleChange, HandleSubmit, StopTyping, pageVars
    <3>6. QED
      BY <1>3, <3>1, <3>2, <3>3, <3>4, <3>5 DEF PageStep
  <2>4. QED
    BY <1>1, <2>1, <2>2, <2>3 DEF FlagsOK
<1>4. CASE ~PageStep
  <2>1. UNCHANGED <<loaded, up, early, session>>
    BY <1>4 DEF Next, Due, HeartbeatFires, IdleFires, Tick, ContactStep, OnTyping, OnText,
                FrameLost, ClearFires, vars, pageVars, historyVars
  <2>2. knows' \in [Watched -> BOOLEAN]
    BY <1>1, <1>4 DEF Next, Due, HeartbeatFires, IdleFires, Tick, ContactStep, OnTyping,
                      OnText, FrameLost, ClearFires, vars, contactVars
  <2>3. told' \in [Watched -> BOOLEAN]
    BY <1>1, <1>4 DEF Next, Due, HeartbeatFires, IdleFires, StopTyping, Tick, ContactStep,
                      OnTyping, OnText, FrameLost, ClearFires, vars
  <2>4. shows' \in [Watched -> BOOLEAN]
    <3>1. ASSUME NEW r \in Watched, NEW b \in BOOLEAN, SetTyping(r, b)
          PROVE  shows' \in [Watched -> BOOLEAN]
      BY <1>1, <3>1 DEF SetTyping
    <3>2. \A r \in Watched : (Head(wire[r]) = "typing") \in BOOLEAN
      OBVIOUS
    <3>3. ASSUME NEW r \in Watched, ContactStep(r) \/ ClearFires(r)
          PROVE  shows' \in [Watched -> BOOLEAN]
      BY <1>1, <3>1, <3>2, <3>3 DEF ContactStep, OnTyping, OnText, FrameLost, ClearFires
    <3>4. QED
      BY <1>1, <1>4, <3>3 DEF Next, Due, HeartbeatFires, IdleFires, Tick, vars, contactVars
  <2>5. QED
    BY <1>1, <2>1, <2>2, <2>3, <2>4 DEF FlagsOK
<1>5. QED
  BY <1>3, <1>4

(* Nothing is sent, received or typed before the load.                     *)
LEMMA InitInvs == Init => ScreenInv /\ FlagsOK /\ SidebarInv /\ TypingInv
<1> SUFFICES ASSUME Init PROVE ScreenInv /\ FlagsOK /\ SidebarInv /\ TypingInv
  OBVIOUS
<1>1. ScreenInv
  BY InitScreen
<1>2. SidebarInv
  <2>1. Talked = {}
    BY DEF Init, Talked
  <2>2. ToSet(<<>>) = {} /\ Len(<<>>) = 0 /\ <<>> \in Seq(Contacts) /\ <<>> \in Seq(0 .. MaxTexts)
    BY DEF ToSet
  <2>3. QED
    BY <2>1, <2>2, FS_EmptySet, ChatViewAssumption DEF Init, SidebarInv
<1>3. TypingInv
  <2>1. clear = [r \in Watched |-> Off] /\ shows = [r \in Watched |-> FALSE]
        /\ told = [r \in Watched |-> FALSE] /\ wire = [r \in Watched |-> <<>>]
    BY DEF Init, All
  <2>2. <<>> \in Seq(Frame) /\ Off \in Timer(AutoClear)
    BY DEF Timer
  <2>3. wire \in [Watched -> Seq(Frame)] /\ clear \in [Watched -> Timer(AutoClear)]
    BY <2>1, <2>2
  <2>4. TimersOK
    BY <2>1, <2>3 DEF Init, TimersOK, Timer
  <2>5. QED
    BY <2>1, <2>4 DEF Init, TypingInv, ToldOK
<1>4. FlagsOK
  <2>1. /\ session = [r \in Watched |-> r \in Known] /\ knows = session
        /\ shows = [r \in Watched |-> FALSE] /\ told = [r \in Watched |-> FALSE]
        /\ loaded = FALSE /\ up = FALSE /\ early = FALSE
    BY DEF Init, All
  <2>2. \A r \in Watched : (r \in Known) \in BOOLEAN
    OBVIOUS
  <2>3. session \in [Watched -> BOOLEAN]
    BY <2>1, <2>2
  <2>4. QED
    BY <2>1, <2>3 DEF FlagsOK
<1>5. QED
  BY <1>1, <1>2, <1>3, <1>4

(* The invariants hold in every state.                                     *)
LEMMA ChatViewInvariant == Spec => [](ScreenInv /\ FlagsOK /\ SidebarInv /\ TypingInv)
<1>1. ScreenInv /\ [Next]_vars => ScreenInv'
  BY PageKeeps, OthersKeep DEF Next
<1>2. QED
  BY <1>1, InitInvs, FlagsStep, SidebarStep, TypingStep, PTL DEF Spec

(* Every variable keeps its shape, for any contacts: the field's timers    *)
(* and the indicators run as they should, and the sidebar has each         *)
(* conversation that has begun once.                                       *)
THEOREM ChatViewTypeCorrect == Spec => []TypeOK
<1>1. ASSUME ScreenInv, FlagsOK, SidebarInv, TypingInv PROVE TypeOK
  <2>1. /\ recipient \in Contacts \cup {None}
        /\ {loaded, up, value, isTyping, early} \subseteq BOOLEAN
        /\ conversations \in [Contacts -> Seq(0 .. MaxTexts)]
        /\ messages \in Seq(0 .. MaxTexts)
        /\ sends \subseteq Send /\ texts \in 0 .. MaxTexts
        /\ wire \in [Watched -> Seq(Frame)]
    BY <1>1 DEF ScreenInv, FlagsOK, TypingInv, TimersOK
  <2>2. /\ sidebar \in Seq(Contacts) /\ ToSet(sidebar) = Talked
        /\ Len(sidebar) = Cardinality(Talked)
    BY <1>1 DEF SidebarInv
  <2>3. \A r \in Talked : \E i \in 1 .. Len(sidebar) : sidebar[i] = r
    BY <2>2, ElementsOf
  <2>4. DOMAIN sidebar = 1 .. Len(sidebar)
    BY <2>2
  <2>5. /\ isTyping <=> heartbeat \in 0 .. Heartbeat
        /\ isTyping <=> idle \in 0 .. Idle
        /\ \A r \in Watched : shows[r] <=> clear[r] \in 0 .. AutoClear
    BY <1>1 DEF TypingInv, TimersOK, Timer, Off
  <2>6. /\ session \in [Watched -> BOOLEAN] /\ knows \in [Watched -> BOOLEAN]
        /\ shows \in [Watched -> BOOLEAN] /\ told \in [Watched -> BOOLEAN]
    BY <1>1 DEF FlagsOK
  <2>7. \A r \in Contacts :
            received[r] \subseteq 0 .. texts /\ sent[r] \subseteq 1 .. texts
            /\ unshown[r] \subseteq sent[r]
    BY <1>1 DEF ScreenInv, Numbered
  <2>8. Len(sidebar) = Cardinality({r \in Contacts : conversations[r] # <<>>})
    BY <2>2 DEF Talked
  <2>9. \A r \in Contacts : conversations[r] # <<>> => \E i \in DOMAIN sidebar : sidebar[i] = r
    BY <2>3, <2>4 DEF Talked
  <2>10. QED
    BY <2>1, <2>5, <2>6, <2>7, <2>8, <2>9 DEF TypeOK
<1>2. QED
  BY <1>1, ChatViewInvariant, PTL

(* A contact that was told its peer is typing stays told while the peer    *)
(* types on: the timer that would turn the indicator off (setTypingForUser,*)
(* 4 s) is always longer than the time to the next heartbeat (3 s), or the *)
(* frame that restarts it is on its way.                                   *)
THEOREM IndicatorIsSteady == Spec => []NoFlicker
<1>1. TypingInv => NoFlicker
  BY DEF TypingInv, ToldOK, NoFlicker
<1>2. QED
  BY <1>1, ChatViewInvariant, PTL
=============================================================================
