------------------------------- MODULE Tickets -------------------------------
(***************************************************************************)
(* What a confirmation gate promises, without caches, tokens or tags: each *)
(* preview issues at most one ticket; a ticket is used at most once and by *)
(* one confirm; one that lapsed, because it expired, was superseded or was *)
(* lost in a restart, never comes back; and one step uses at most one.     *)
(***************************************************************************)

CONSTANTS Ticket, Holder

VARIABLE ticket   \* what became of each ticket, and who used it

State == [state : {"unissued", "open", "used", "lapsed"}, by : SUBSET Holder]

TypeOK == ticket \in [Ticket -> State]

Init == ticket = [t \in Ticket |-> [state |-> "unissued", by |-> {}]]

Turns(t, to, by) == ticket'[t] = [state |-> to, by |-> by]

Issued(t) == ticket[t].state = "unissued" /\ Turns(t, "open", {})

Used(t) == /\ ticket[t].state = "open"
           /\ \E h \in Holder : Turns(t, "used", {h})

Lapsed(t) == ticket[t].state \in {"unissued", "open"} /\ Turns(t, "lapsed", {})

Kept(t) == ticket'[t] = ticket[t]

\* Issuing one ticket may supersede another, and a restart makes many lapse.
Next ==
    /\ ticket' \in [Ticket -> State]
    /\ \A t \in Ticket : Issued(t) \/ Used(t) \/ Lapsed(t) \/ Kept(t)
    /\ \A s, t \in Ticket : Used(s) /\ Used(t) => s = t

Spec == Init /\ [][Next]_ticket
=============================================================================
