------------------------------ MODULE Mailbox -------------------------------
(***************************************************************************)
(* What the relay promises a user's devices: a mailbox is a log; a message *)
(* is accepted once, at the end of its mailbox's log, and every device     *)
(* gets the log from its beginning, in order, each message once, none left *)
(* out, and in the end all of it.                                          *)
(***************************************************************************)
EXTENDS Naturals, Sequences, SequencesExt

CONSTANTS Mailboxes, Clients, Messages, MailboxOf, To

VARIABLES log,     \* [Mailboxes -> Seq(Messages)]
          shown    \* [Clients -> Seq(Messages)]: what each device was given

vars == <<log, shown>>

Init ==
    /\ log = [mb \in Mailboxes |-> <<>>]
    /\ shown = [k \in Clients |-> <<>>]

Accept(m) ==
    /\ m \notin ToSet(log[To[m]])
    /\ log' = [log EXCEPT ![To[m]] = Append(@, m)]
    /\ UNCHANGED shown

Show(k) ==
    LET l == log[MailboxOf[k]]
        n == Len(shown[k]) + 1
    IN  /\ n <= Len(l)
        /\ shown' = [shown EXCEPT ![k] = Append(@, l[n])]
        /\ UNCHANGED log

Next == (\E m \in Messages : Accept(m)) \/ (\E k \in Clients : Show(k))

(* What holds at every moment; Spec adds that all is shown in the end.     *)
Safety == Init /\ [][Next]_vars

Spec == Safety /\ \A k \in Clients : WF_vars(Show(k))
=============================================================================
