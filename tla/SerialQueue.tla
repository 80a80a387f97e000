----------------------------- MODULE SerialQueue -----------------------------
(***************************************************************************)
(* The class SerialQueue (embed/vizState/serialQueue.ts), used by any      *)
(* number of callers at once.                                              *)
(*                                                                         *)
(* The queue holds no list and no lock.  Each entry is chained with then   *)
(* on the promise that was the tail when it was enqueued, and that promise *)
(* is the RACED one: it settles when the call answers or when its timer    *)
(* fires, whichever comes first.  That at most one call is live at a time, *)
(* and in which order calls run, follows from the chain alone.             *)
(*                                                                         *)
(* An entry's status is that of the promise enqueue returned:              *)
(*   new      not enqueued yet                                             *)
(*   queued   chained, its predecessor has not settled or its reaction has *)
(*            not run yet                                                  *)
(*   live     fn was invoked, call and timer race                          *)
(*   settled  answered, failed or timed out                                *)
(*   refused  rejected without invoking fn                                 *)
(***************************************************************************)
EXTENDS Naturals, FiniteSets

CONSTANTS
    Call,    \* the calls the callers will enqueue
    Final,   \* those enqueued with runFinal
    None

Reason == {"call-timeout", "overall-timeout", "disposed"}

ASSUME FinalAssumption == Final \subseteq Call
ASSUME NoneAssumption == None \notin Call \cup Reason

VARIABLES
    tail,      \* the entry the queue's tail promise belongs to
    pred,      \* the entry each entry is chained on
    status,
    hung,      \* abandoned calls whose own promise has not settled
    reason,    \* why the queue aborted
    overallTimer,
    position   \* history: the how-manieth entry of the queue each call is

queueVars == <<tail, pred, status, hung, reason, overallTimer, position>>

Status == {"new", "queued", "live", "settled", "refused"}

TypeOK ==
    /\ tail \in Call \cup {None}
    /\ pred \in [Call -> Call \cup {None}]
    /\ status \in [Call -> Status]
    /\ hung \subseteq {c \in Call : status[c] = "settled"}
    /\ reason \in Reason \cup {None}
    /\ overallTimer \in BOOLEAN
    /\ position \in [Call -> Nat]

Init ==
    /\ tail = None
    /\ pred = [c \in Call |-> None]
    /\ status = [c \in Call |-> "new"]
    /\ hung = {}
    /\ reason = None
    /\ overallTimer = TRUE
    /\ position = [c \in Call |-> 0]

Settled(c) == status[c] \in {"settled", "refused"}

Refuses(c) == c \notin Final /\ reason # None

-----------------------------------------------------------------------------

\* abort(why): the first reason wins and stops the timer of the whole capture.
Abort(why) ==
    \/ /\ reason = None
       /\ reason' = why
       /\ overallTimer' = FALSE
    \/ /\ reason # None
       /\ UNCHANGED <<reason, overallTimer>>

\* enqueue, refused at once when the queue is aborted.
EnqueueRefused(c) ==
    /\ status[c] = "new"
    /\ Refuses(c)
    /\ status' = [status EXCEPT ![c] = "refused"]
    /\ UNCHANGED <<tail, pred, hung, reason, overallTimer, position>>

NextPlace == IF tail = None THEN 1 ELSE position[tail] + 1

\* Mutant: the tail is not moved.
Chain_KeepsTail(c) ==
    /\ pred' = [pred EXCEPT ![c] = tail]
    /\ position' = [position EXCEPT ![c] = NextPlace]
    /\ UNCHANGED tail

Chain(c) ==
    /\ pred' = [pred EXCEPT ![c] = tail]
    /\ tail' = c
    /\ position' = [position EXCEPT ![c] = NextPlace]

Enqueue(c) ==
    /\ status[c] = "new"
    /\ ~Refuses(c)
    /\ status' = [status EXCEPT ![c] = "queued"]
    /\ Chain(c)
    /\ UNCHANGED <<hung, reason, overallTimer>>

\* Mutant: chained on the call's own promise, not on the raced one.
Turn_AfterAnswer(c) == pred[c] # None => Settled(pred[c]) /\ pred[c] \notin hung

Turn(c) == pred[c] # None => Settled(pred[c])

\* Mutant: the reason is only looked at when the call is enqueued.
Dequeue_NoRecheck(c) ==
    /\ status[c] = "queued"
    /\ Turn(c)
    /\ status' = [status EXCEPT ![c] = "live"]
    /\ UNCHANGED <<tail, pred, hung, reason, overallTimer, position>>

\* The reaction on the predecessor's promise runs: it checks the abort again
\* and invokes fn under the timer of the call.
Dequeue(c) ==
    /\ status[c] = "queued"
    /\ Turn(c)
    /\ status' = [status EXCEPT ![c] = IF Refuses(c) THEN "refused" ELSE "live"]
    /\ UNCHANGED <<tail, pred, hung, reason, overallTimer, position>>

\* fn's promise wins the race, with a value or an error.
Answer(c) ==
    /\ status[c] = "live"
    /\ status' = [status EXCEPT ![c] = "settled"]
    /\ UNCHANGED <<tail, pred, hung, reason, overallTimer, position>>

\* The timer of the call wins the race: the call is abandoned, not cancelled.
CallTimeout(c) ==
    /\ status[c] = "live"
    /\ status' = [status EXCEPT ![c] = "settled"]
    /\ hung' = hung \cup {c}
    /\ Abort("call-timeout")
    /\ UNCHANGED <<tail, pred, position>>

\* An abandoned call settles after all; nobody listens any more.
LateAnswer(c) ==
    /\ c \in hung
    /\ hung' = hung \ {c}
    /\ UNCHANGED <<tail, pred, status, reason, overallTimer, position>>

OverallTimeout ==
    /\ overallTimer
    /\ Abort("overall-timeout")
    /\ UNCHANGED <<tail, pred, status, hung, position>>

\* The owner ends the capture.
Disposed ==
    /\ Abort("disposed")
    /\ UNCHANGED <<tail, pred, status, hung, position>>

Next == \/ \E c \in Call : \/ EnqueueRefused(c)
                           \/ Enqueue(c)
                           \/ Dequeue(c)
                           \/ Answer(c)
                           \/ CallTimeout(c)
                           \/ LateAnswer(c)
        \/ OverallTimeout
        \/ Disposed

SafetySpec == Init /\ [][Next]_queueVars

\* Reactions run and timers fire; calls need not answer.
Fairness == \A c \in Call : WF_queueVars(Dequeue(c)) /\ WF_queueVars(CallTimeout(c))

Spec == SafetySpec /\ Fairness

-----------------------------------------------------------------------------
(* Properties.                                                             *)

\* Never two live calls, although every caller only knows the tail it found:
\* a settled tail of an abandoned call does not let a later entry overtake an
\* earlier one (serialQueue.ts:8-12, 93-107).
OneLiveCall == \A c, d \in Call : status[c] = "live" /\ status[d] = "live" => c = d

\* Calls are invoked in the order they were enqueued.
InOrder ==
    \A c, d \in Call :
        /\ 0 < position[d] /\ position[d] < position[c]
        /\ status[c] \in {"live", "settled"}
        => Settled(d)

\* After an abort only runFinal calls are invoked, also those that were
\* already waiting in the queue (serialQueue.ts:93-97).
OnlyFinalAfterAbort ==
    [][\A c \in Call : status[c] # "live" /\ status'[c] = "live" /\ reason # None
                           => c \in Final]_queueVars

\* A call that was not aborted away at the door gets a settled promise, however
\* many calls before it hang (serialQueue.ts:102-105).
EveryCallSettles == \A c \in Call : status[c] = "queued" ~> Settled(c)

\* A queue with a hung call refuses further work: the wedged channel is never
\* tried again but for the final calls.
HungMeansAborted == hung # {} => reason # None /\ ~overallTimer

\* What holds of the queue at all times, together (serialQueue.ts:8-12, 61-132).
SerialDiscipline == /\ OneLiveCall
                    /\ InOrder
                    /\ HungMeansAborted
=============================================================================
