----------------------------- MODULE CallsProofs -----------------------------
(***************************************************************************)
(* Proofs about SerialQueue, for every set of calls.  The queue has no     *)
(* lock: that only one call is live at a time is a property of the chain   *)
(* of promises.  The invariant numbers the entries along the chain and     *)
(* says that whatever stands before an invoked entry has settled.          *)
(*                                                                         *)
(* And proofs about DesktopCalls, for every number of overlapping calls,   *)
(* of process ids and of runs, attempts and events: what a call answers    *)
(* rests on its commands having run one after the other, and on a session  *)
(* staying with the run of the instance it was first used for.             *)
(***************************************************************************)
EXTENDS SerialQueue, DesktopCalls, FiniteSetTheorems, TLAPS

Left(c) == status[c] \in {"live", "settled", "refused"}

\* An entry has a place in the chain from the moment it is enqueued.
PlacedOnce ==
    /\ \A c \in Call : status[c] = "new" => position[c] = 0
    /\ \A c \in Call : status[c] \in {"queued", "live", "settled"} => position[c] > 0
    /\ \A c, d \in Call : position[c] = position[d] /\ position[c] > 0 => c = d

\* The tail is the last entry.
TailIsLast ==
    /\ tail = None => \A c \in Call : position[c] = 0
    /\ tail # None => /\ position[tail] > 0
                      /\ \A c \in Call : position[c] <= position[tail]

\* Every entry is chained on the one before it.
ChainedInTurn ==
    \A c \in Call : position[c] > 0 =>
        IF pred[c] = None THEN position[c] = 1
        ELSE position[pred[c]] > 0 /\ position[c] = position[pred[c]] + 1

\* Whatever stands before an entry that left the chain has settled.
EarlierSettled ==
    \A c, d \in Call :
        0 < position[d] /\ position[d] < position[c] /\ Left(c) => Settled(d)

\* The timer of the capture runs until the queue aborts, and a call is only
\* abandoned by aborting.
TimerUntilAbort == /\ overallTimer <=> reason = None
                   /\ hung # {} => reason # None

IInv == /\ TypeOK
        /\ PlacedOnce
        /\ TailIsLast
        /\ ChainedInTurn
        /\ EarlierSettled
        /\ TimerUntilAbort

LEMMA InitInv == Init => IInv
BY NoneAssumption, FinalAssumption
   DEF Init, IInv, TypeOK, Status, PlacedOnce, TailIsLast, ChainedInTurn,
       EarlierSettled, TimerUntilAbort, Left, Settled

-----------------------------------------------------------------------------
\* The predecessor of an entry whose turn it is was the last one unsettled.
LEMMA EarlierThanTurn ==
    ASSUME IInv, NEW c \in Call, status[c] = "queued",
           pred[c] # None => Settled(pred[c]),
           NEW d \in Call, 0 < position[d], position[d] < position[c]
    PROVE  Settled(d)
<1> USE DEF IInv, TypeOK
<1>1. position[c] \in Nat /\ position[d] \in Nat /\ position[c] > 0
  BY DEF PlacedOnce
<1>2. pred[c] # None
  BY <1>1 DEF ChainedInTurn
<1>3. /\ pred[c] \in Call
      /\ position[pred[c]] \in Nat
      /\ position[c] = position[pred[c]] + 1
      /\ Settled(pred[c])
  BY <1>1, <1>2 DEF ChainedInTurn
<1>4. CASE position[d] = position[pred[c]]
  BY <1>1, <1>3, <1>4 DEF PlacedOnce
<1>5. CASE position[d] < position[pred[c]]
  BY <1>3, <1>5 DEF EarlierSettled, Left, Settled
<1>6. QED
  BY <1>1, <1>3, <1>4, <1>5

\* The step of an entry that only moves on in the chain keeps the order.
LEMMA MoveOn ==
    ASSUME IInv, NEW c \in Call, NEW s \in {"live", "settled", "refused"},
           status' = [status EXCEPT ![c] = s],
           position[c] > 0,
           status[c] \in {"queued", "live"},
           status[c] = "live" => s = "settled",
           status[c] = "queued" => (pred[c] # None => Settled(pred[c])),
           UNCHANGED <<tail, pred, position>>
    PROVE  (PlacedOnce /\ TailIsLast /\ ChainedInTurn /\ EarlierSettled)'
<1> USE DEF IInv, TypeOK
<1>1. PlacedOnce'
  BY DEF PlacedOnce
<1>2. TailIsLast' /\ ChainedInTurn'
  BY DEF TailIsLast, ChainedInTurn
<1>3. ASSUME NEW e \in Call, NEW d \in Call,
             0 < position[d], position[d] < position[e], Left(e)'
      PROVE  Settled(d)'
  <2>1. Settled(d)
    <3>1. CASE e = c /\ status[c] = "queued"
      BY <1>3, <3>1, EarlierThanTurn
    <3>2. CASE e = c /\ status[c] = "live"
      BY <1>3, <3>2 DEF EarlierSettled, Left
    <3>3. CASE e # c
      BY <1>3, <3>3 DEF EarlierSettled, Left
    <3>4. QED
      BY <3>1, <3>2, <3>3
  <2>2. d # c
    BY <2>1 DEF Settled
  <2>3. QED
    BY <2>1, <2>2 DEF Settled
<1>4. EarlierSettled'
  BY <1>3 DEF EarlierSettled
<1>5. QED
  BY <1>1, <1>2, <1>4

\* Aborting leaves the queue with a reason and its timer stopped.
LEMMA AbortStops ==
    ASSUME reason \in Reason \cup {None}, overallTimer \in BOOLEAN,
           overallTimer <=> reason = None,
           NEW why \in Reason, Abort(why)
    PROVE  reason' \in Reason /\ reason' # None /\ ~overallTimer' /\ overallTimer' \in BOOLEAN
<1>1. CASE reason = None /\ reason' = why /\ overallTimer' = FALSE
  BY <1>1, NoneAssumption
<1>2. CASE reason # None /\ UNCHANGED <<reason, overallTimer>>
  <2>1. reason' = reason /\ overallTimer' = overallTimer /\ reason # None
    BY <1>2
  <2>2. ~overallTimer
    BY <2>1
  <2>3. ~overallTimer' /\ overallTimer' \in BOOLEAN
    BY <2>1, <2>2
  <2>4. reason' \in Reason /\ reason' # None
    BY <2>1
  <2>5. QED
    BY <2>3, <2>4
<1>3. QED
  BY <1>1, <1>2 DEF Abort

LEMMA StepInv == IInv /\ [Next]_queueVars => IInv'
<1> SUFFICES ASSUME IInv, [Next]_queueVars PROVE IInv'
  OBVIOUS
<1> USE NoneAssumption, FinalAssumption DEF IInv
<1>1. ASSUME NEW c \in Call, EnqueueRefused(c) PROVE IInv'
  <2> USE <1>1 DEF EnqueueRefused, TypeOK, Status
  <2>1. TypeOK' /\ TimerUntilAbort'
    BY DEF TimerUntilAbort
  <2>2. position[c] = 0 /\ position' = position
    BY DEF PlacedOnce
  <2>3. PlacedOnce' /\ TailIsLast' /\ ChainedInTurn'
    BY <2>2 DEF PlacedOnce, TailIsLast, ChainedInTurn
  <2>4. EarlierSettled'
    BY <2>2 DEF EarlierSettled, Left, Settled
  <2>5. QED
    BY <2>1, <2>3, <2>4
<1>2. ASSUME NEW c \in Call, Enqueue(c) PROVE IInv'
  <2> USE <1>2 DEF Enqueue, Chain, NextPlace, TypeOK
  <2> DEFINE place == IF tail = None THEN 1 ELSE position[tail] + 1
  <2>1. place \in Nat /\ place > 0 /\ \A d \in Call : position[d] < place
    BY DEF TailIsLast
  <2>2. position' = [position EXCEPT ![c] = place] /\ position[c] = 0
    BY DEF PlacedOnce
  <2>3. TypeOK' /\ TimerUntilAbort'
    BY <2>1, <2>2 DEF TimerUntilAbort, Status
  <2>4. PlacedOnce' /\ TailIsLast'
    BY <2>1, <2>2 DEF PlacedOnce, TailIsLast, Status
  <2>5. ChainedInTurn'
    <3>1. tail # c
      BY <2>2 DEF TailIsLast
    <3>2. ASSUME NEW d \in Call, d # c, position[d] > 0
          PROVE  pred'[d] = pred[d] /\ pred[d] # c
      BY <2>2, <3>2 DEF ChainedInTurn
    <3>3. ASSUME NEW d \in Call, d # c, position'[d] > 0
          PROVE  IF pred'[d] = None THEN position'[d] = 1
                 ELSE position'[pred'[d]] > 0 /\ position'[d] = position'[pred'[d]] + 1
      BY <2>2, <3>2, <3>3 DEF ChainedInTurn
    <3>4. IF pred'[c] = None THEN position'[c] = 1
          ELSE position'[pred'[c]] > 0 /\ position'[c] = position'[pred'[c]] + 1
      BY <2>1, <2>2, <3>1 DEF TailIsLast
    <3>5. QED
      BY <3>3, <3>4 DEF ChainedInTurn
  <2>6. EarlierSettled'
    <3>1. \A d \in Call : d # c => position'[d] = position[d] /\ status'[d] = status[d]
      BY <2>2
    <3>2. ~Left(c)' /\ position'[c] = place
      BY <2>2 DEF Left
    <3>3. QED
      BY <2>1, <3>1, <3>2 DEF EarlierSettled, Left, Settled
  <2>7. QED
    BY <2>3, <2>4, <2>5, <2>6
<1>3. ASSUME NEW c \in Call, Dequeue(c) PROVE IInv'
  <2> USE <1>3 DEF Dequeue, Turn, TypeOK
  <2>1. position[c] > 0
    BY DEF PlacedOnce
  <2>2. TypeOK' /\ TimerUntilAbort'
    BY DEF TimerUntilAbort, Status
  <2>3. (PlacedOnce /\ TailIsLast /\ ChainedInTurn /\ EarlierSettled)'
    BY <2>1, MoveOn
  <2>4. QED
    BY <2>2, <2>3
<1>4. ASSUME NEW c \in Call, Answer(c) PROVE IInv'
  <2> USE <1>4 DEF Answer, TypeOK
  <2>1. position[c] > 0
    BY DEF PlacedOnce
  <2>2. TypeOK' /\ TimerUntilAbort'
    BY DEF TimerUntilAbort, Status
  <2>3. (PlacedOnce /\ TailIsLast /\ ChainedInTurn /\ EarlierSettled)'
    BY <2>1, MoveOn
  <2>4. QED
    BY <2>2, <2>3
<1>5. ASSUME NEW c \in Call, CallTimeout(c) PROVE IInv'
  <2> USE <1>5 DEF CallTimeout, TypeOK
  <2>1. position[c] > 0
    BY DEF PlacedOnce
  <2> HIDE DEF Abort
  <2>2. reason' \in Reason /\ reason' # None /\ ~overallTimer' /\ overallTimer' \in BOOLEAN
    BY AbortStops DEF TimerUntilAbort, Reason
  <2>3. TypeOK' /\ TimerUntilAbort'
    <3>1. status' \in [Call -> Status] /\ hung' \subseteq Call
      BY DEF Status
    <3>2. TypeOK'
      BY <2>2, <3>1
    <3>3. TimerUntilAbort'
      BY <2>2 DEF TimerUntilAbort
    <3>4. QED
      BY <3>2, <3>3
  <2>4. (PlacedOnce /\ TailIsLast /\ ChainedInTurn /\ EarlierSettled)'
    BY <2>1, MoveOn
  <2>5. QED
    BY <2>3, <2>4
<1>6. ASSUME NEW c \in Call, LateAnswer(c) PROVE IInv'
  BY <1>6 DEF LateAnswer, TypeOK, PlacedOnce, TailIsLast, ChainedInTurn,
              EarlierSettled, TimerUntilAbort, Left, Settled
<1>7. CASE OverallTimeout \/ Disposed
  <2> USE <1>7 DEF OverallTimeout, Disposed
  <2>1. UNCHANGED <<tail, pred, status, hung, position>>
    OBVIOUS
  <2>2. reason' \in Reason /\ reason' # None /\ ~overallTimer' /\ overallTimer' \in BOOLEAN
    <3>1. Abort("overall-timeout") \/ Abort("disposed")
      OBVIOUS
    <3>2. QED
      BY <3>1, AbortStops DEF TypeOK, TimerUntilAbort, Reason
  <2>3. TypeOK'
    BY <2>1, <2>2 DEF TypeOK
  <2>4. TimerUntilAbort'
    BY <2>2 DEF TimerUntilAbort
  <2>5. (PlacedOnce /\ TailIsLast /\ ChainedInTurn /\ EarlierSettled)'
    BY <2>1 DEF PlacedOnce, TailIsLast, ChainedInTurn, EarlierSettled, Left, Settled
  <2>6. QED
    BY <2>3, <2>4, <2>5
<1>8. CASE UNCHANGED queueVars
  BY <1>8 DEF queueVars, TypeOK, PlacedOnce, TailIsLast, ChainedInTurn,
              EarlierSettled, TimerUntilAbort, Left, Settled
<1>9. QED
  BY <1>1, <1>2, <1>3, <1>4, <1>5, <1>6, <1>7, <1>8 DEF Next

\* The inductive invariant holds throughout.
THEOREM InvariantHolds == SafetySpec => []IInv
<1>1. QED
  BY InitInv, StepInv, PTL DEF SafetySpec

-----------------------------------------------------------------------------
\* TypeOK: every variable keeps its type, an abort its reason.
THEOREM TypeCorrect == SafetySpec => []TypeOK
<1>1. IInv => TypeOK
  BY DEF IInv
<1>2. QED
  BY <1>1, InvariantHolds, PTL

\* Two calls are never live together, whoever enqueued them and whatever
\* timed out before (serialQueue.ts:8-12, 93-107).
THEOREM Serial == SafetySpec => []OneLiveCall
<1>1. IInv => OneLiveCall
  <2> SUFFICES ASSUME IInv, NEW c \in Call, NEW d \in Call,
                      status[c] = "live", status[d] = "live", c # d
               PROVE  FALSE
    BY DEF OneLiveCall
  <2>1. /\ position[c] \in Nat /\ position[d] \in Nat
        /\ position[c] > 0 /\ position[d] > 0
        /\ position[c] # position[d]
    BY DEF IInv, TypeOK, PlacedOnce
  <2>2. CASE position[d] < position[c]
    BY <2>1, <2>2 DEF IInv, EarlierSettled, Left, Settled
  <2>3. CASE position[c] < position[d]
    BY <2>1, <2>3 DEF IInv, EarlierSettled, Left, Settled
  <2>4. QED
    BY <2>1, <2>2, <2>3
<1>2. QED
  BY <1>1, InvariantHolds, PTL

\* Calls are invoked in the order in which they were enqueued.
THEOREM FirstComeFirstServed == SafetySpec => []InOrder
<1>1. IInv => InOrder
  BY DEF IInv, InOrder, EarlierSettled, Left
<1>2. QED
  BY <1>1, InvariantHolds, PTL

\* While an abandoned call may still be in flight the queue is aborted and
\* its overall timer stopped.
THEOREM WedgedIsAborted == SafetySpec => []HungMeansAborted
<1>1. IInv => HungMeansAborted
  BY DEF IInv, HungMeansAborted, TimerUntilAbort
<1>2. QED
  BY <1>1, InvariantHolds, PTL

\* The three together (serialQueue.ts:61-132).
THEOREM Disciplined == SafetySpec => []SerialDiscipline
<1>1. QED
  BY Serial, FirstComeFirstServed, WedgedIsAborted, PTL DEF SerialDiscipline

-----------------------------------------------------------------------------
\* After an abort only runFinal calls are invoked (serialQueue.ts:93-97).
THEOREM Refusal == SafetySpec => OnlyFinalAfterAbort
<1>1. IInv /\ [Next]_queueVars
      => [\A c \in Call : status[c] # "live" /\ status'[c] = "live" /\ reason # None
                             => c \in Final]_queueVars
  <2> SUFFICES ASSUME IInv, Next, NEW c \in Call,
                      status[c] # "live", status'[c] = "live", reason # None
               PROVE  c \in Final
    OBVIOUS
  <2> USE DEF IInv, TypeOK
  <2>1. ASSUME NEW d \in Call, Dequeue(d) PROVE c \in Final
    BY <2>1 DEF Dequeue, Turn, Refuses
  <2>2. ASSUME NEW d \in Call,
               EnqueueRefused(d) \/ Enqueue(d) \/ Answer(d) \/ CallTimeout(d) \/ LateAnswer(d)
        PROVE  c \in Final
    BY <2>2 DEF EnqueueRefused, Enqueue, Chain, NextPlace, Answer, CallTimeout, LateAnswer
  <2>3. CASE OverallTimeout \/ Disposed
    BY <2>3 DEF OverallTimeout, Disposed
  <2>4. QED
    BY <2>1, <2>2, <2>3 DEF Next
<1>2. QED
  BY <1>1, InvariantHolds, PTL DEF SafetySpec, OnlyFinalAfterAbort


-----------------------------------------------------------------------------
(* Desktop: types.                                                         *)

Checkpoint == [seq : Nat, run : Nat]

Tools == Reads \cup {"check-for-user-changes", "apply-workbook"}

CallRecord ==
    [at : {"idle", "submit", "wait", "done"},
     how : {Nothing, "ok", "error", "bad arguments", "no instance", "invalid xml", "checkpoint",
            "changes", "no changes", "command-failed", "command-timed-out"},
     tool : Tools \cup {Nothing, "list-instances"},
     pid : Pid \cup {Nothing},
     args : {Nothing, "missing", "no xml", "xml", "odd xml"} \cup Checkpoint,
     run : Nat, tries : Nat, edited : BOOLEAN, listed : SUBSET Pid]

CommandStates == {"queued", "completed", "failed"}

Instance == [up : BOOLEAN, run : Nat, events : Nat, edits : SUBSET Nat]

DesktopTypes ==
    /\ desktop \in [Pid -> Instance]
    /\ manifest \in [Pid -> Nat]
    /\ sessions \in [Pid -> Nat \cup {Nothing}]
    /\ call \in [ToolCall -> CallRecord]
    /\ command \in [ToolCall -> Seq(CommandStates)]
    /\ known \in [Pid -> {Nothing} \cup Checkpoint]

LEMMA DesktopTypesInit == DesktopInit => DesktopTypes
BY DEF DesktopInit, DesktopTypes, Idle, CallRecord, Tools, Instance

LEMMA UpdatedSeq ==
    ASSUME NEW S, NEW s \in Seq(S), NEW n, NEW x \in S
    PROVE  [s EXCEPT ![n] = x] \in Seq(S) /\ Len([s EXCEPT ![n] = x]) = Len(s)
<1> DEFINE t == [s EXCEPT ![n] = x]
<1>1. Len(s) \in Nat /\ s \in [1 .. Len(s) -> S]
  OBVIOUS
<1>2. t \in [1 .. Len(s) -> S]
  BY <1>1, Zenon
<1> HIDE DEF t
<1>3. t \in Seq(S)
  BY <1>1, <1>2
<1>4. DOMAIN t = 1 .. Len(s)
  BY <1>2
<1>5. Len(t) = Len(s)
  BY <1>1, <1>3, <1>4
<1>6. QED
  BY <1>3, <1>5 DEF t

LEMMA Typed ==
    ASSUME DesktopTypes
    PROVE  /\ \A c \in ToolCall : call[c] \in CallRecord /\ command[c] \in Seq(CommandStates)
           /\ \A p \in Pid : desktop[p] \in Instance
BY DEF DesktopTypes

\* What a step may do to calls and commands.
LEMMA AnsweredIsTyped ==
    ASSUME DesktopTypes, NEW c \in ToolCall,
           NEW how \in {"ok", "error", "command-failed", "command-timed-out"},
           Answered(c, how) \/ Conclude(c, how)
    PROVE  call' \in [ToolCall -> CallRecord]
<1>1. call[c] \in CallRecord
  BY DEF DesktopTypes
<1>2. [call[c] EXCEPT !.at = "done", !.how = how] \in CallRecord
  BY <1>1 DEF CallRecord
<1>3. [call[c] EXCEPT !.at = "submit"] \in CallRecord
  BY <1>1 DEF CallRecord
<1>4. QED
  BY <1>2, <1>3 DEF DesktopTypes, Answered, Conclude

\* What a call is for once it has begun.
LEMMA BegunFor ==
    ASSUME DesktopTypes, NEW c \in ToolCall, NEW tool, NEW p \in Pid, NEW args,
           Begin(c, tool, p, args)
    PROVE  /\ \A d \in ToolCall \ {c} : call'[d] = call[d]
           /\ call'[c].pid = p
           /\ call'[c].args = args
           /\ call'[c].run = Executor(p)
<1>1. PICK at, how :
        call' = [call EXCEPT ![c].at = at, ![c].how = how, ![c].tool = tool,
                             ![c].pid = p, ![c].args = args, ![c].run = Executor(p)]
  BY DEF Begin
<1> DEFINE r == [call[c] EXCEPT !.at = at, !.how = how, !.tool = tool, !.pid = p,
                                !.args = args, !.run = Executor(p)]
<1>2. r.pid = p /\ r.args = args /\ r.run = Executor(p)
  BY Typed DEF CallRecord
<1>3. call' = [call EXCEPT ![c] = r]
  BY <1>1 DEF DesktopTypes
<1> HIDE DEF r
<1>4. QED
  BY <1>2, <1>3 DEF DesktopTypes

\* How far it is, and whether its session keeps the address.
LEMMA BegunAs ==
    ASSUME DesktopTypes, NEW c \in ToolCall, NEW tool, NEW p \in Pid, NEW args,
           Begin(c, tool, p, args)
    PROVE  /\ call'[c].tool = tool
           /\ \/ call'[c].at = "submit"
              \/ /\ call'[c].at = "done"
                 /\ call'[c].how \in {"bad arguments", "no instance", "invalid xml"}
<1>1. PICK at, how :
        /\ call' = [call EXCEPT ![c].at = at, ![c].how = how, ![c].tool = tool,
                                ![c].pid = p, ![c].args = args, ![c].run = Executor(p)]
        /\ \/ at = "submit"
           \/ at = "done" /\ how \in {"bad arguments", "no instance", "invalid xml"}
  BY DEF Begin
<1> DEFINE r == [call[c] EXCEPT !.at = at, !.how = how, !.tool = tool, !.pid = p,
                                !.args = args, !.run = Executor(p)]
<1>2. r.at = at /\ r.how = how /\ r.tool = tool
  BY Typed DEF CallRecord
<1>3. call' = [call EXCEPT ![c] = r]
  BY <1>1 DEF DesktopTypes
<1> HIDE DEF r
<1>4. call'[c] = r
  BY <1>3 DEF DesktopTypes
<1>5. QED
  BY <1>1, <1>2, <1>4

LEMMA BegunIn ==
    ASSUME DesktopTypes, NEW c \in ToolCall, NEW tool, NEW p \in Pid, NEW args,
           Begin(c, tool, p, args), call'[c].at # "done"
    PROVE  sessions'[p] = Executor(p)
<1>1. PICK at, how :
        /\ call' = [call EXCEPT ![c].at = at, ![c].how = how, ![c].tool = tool,
                                ![c].pid = p, ![c].args = args, ![c].run = Executor(p)]
        /\ at = "done" \/ sessions' = [sessions EXCEPT ![p] = Executor(p)]
  BY DEF Begin
<1> DEFINE r == [call[c] EXCEPT !.at = at, !.how = how, !.tool = tool, !.pid = p,
                                !.args = args, !.run = Executor(p)]
<1>2. r.at = at
  BY Typed DEF CallRecord
<1>3. call' = [call EXCEPT ![c] = r]
  BY <1>1 DEF DesktopTypes
<1> HIDE DEF r
<1>4. call'[c].at = at
  BY <1>2, <1>3 DEF DesktopTypes
<1>5. QED
  BY <1>1, <1>4 DEF DesktopTypes

LEMMA DesktopTypesStep == DesktopTypes /\ [DesktopNext]_desktopVars => DesktopTypes'
<1> SUFFICES ASSUME DesktopTypes, [DesktopNext]_desktopVars PROVE DesktopTypes'
  OBVIOUS
<1>1. ASSUME NEW p \in Pid, Starts(p) PROVE DesktopTypes'
  <2>1. [up |-> TRUE, run |-> desktop[p].run + 1, events |-> 0, edits |-> {}] \in Instance
    BY Typed DEF Instance
  <2>2. desktop' \in [Pid -> Instance]
    BY <1>1, <2>1 DEF Starts, DesktopTypes
  <2>3. manifest' \in [Pid -> Nat]
    BY <1>1, Typed DEF Starts, DesktopTypes, Instance
  <2>4. QED
    BY <1>1, <2>2, <2>3 DEF Starts, DesktopTypes
<1>2. ASSUME NEW p \in Pid, Stops(p) PROVE DesktopTypes'
  <2>1. [desktop[p] EXCEPT !.up = FALSE] \in Instance
    BY Typed DEF Instance
  <2>2. desktop' \in [Pid -> Instance] /\ manifest' \in [Pid -> Nat]
    BY <1>2, <2>1 DEF Stops, DesktopTypes
  <2>3. QED
    BY <1>2, <2>2 DEF Stops, DesktopTypes
<1>3. ASSUME NEW p \in Pid, UserEdits(p) PROVE DesktopTypes'
  <2> DEFINE d == desktop[p]
  <2>1. d \in Instance
    BY Typed
  <2>2. [d EXCEPT !.events = d.events + 1, !.edits = d.edits \cup {d.events + 1}] \in Instance
    <3> HIDE DEF d
    <3>1. d.events + 1 \in Nat
      BY <2>1 DEF Instance
    <3>2. d.edits \cup {d.events + 1} \in SUBSET Nat
      BY <2>1, <3>1 DEF Instance
    <3>3. QED
      BY <2>1, <3>1, <3>2 DEF Instance
  <2>3. desktop' \in [Pid -> Instance]
    <3>1. desktop' = [desktop EXCEPT ![p] = [d EXCEPT !.events = d.events + 1,
                                                      !.edits = d.edits \cup {d.events + 1}]]
      BY <1>3 DEF UserEdits, DesktopTypes
    <3>2. QED
      BY <2>2, <3>1 DEF DesktopTypes
  <2>4. QED
    BY <1>3, <2>3 DEF UserEdits, DesktopTypes
<1>4. ASSUME NEW c \in ToolCall, Runs(c) PROVE DesktopTypes'
  <2>1. command' \in [ToolCall -> Seq(CommandStates)]
    <3>1. PICK end \in {"completed", "failed"} :
            command' = [command EXCEPT ![c][Len(command[c])] = end]
      BY <1>4 DEF Runs
    <3>2. end \in CommandStates /\ command[c] \in Seq(CommandStates)
      BY DEF CommandStates, DesktopTypes
    <3>3. [command[c] EXCEPT ![Len(command[c])] = end] \in Seq(CommandStates)
      BY <3>2, UpdatedSeq
    <3>4. QED
      BY <3>1, <3>3 DEF DesktopTypes
  <2>2. desktop' \in [Pid -> Instance]
    <3>1. CASE UNCHANGED desktop
      BY <3>1 DEF DesktopTypes
    <3>2. CASE desktop' = [desktop EXCEPT ![call[c].pid].events = @ + 1]
      <4>1. \A p \in Pid : [desktop[p] EXCEPT !.events = @ + 1] \in Instance
        BY Typed DEF Instance
      <4>2. QED
        BY <3>2, <4>1 DEF DesktopTypes
    <3>3. QED
      BY <1>4, <3>1, <3>2 DEF Runs
  <2>3. QED
    BY <1>4, <2>1, <2>2 DEF Runs, DesktopTypes
<1>5. ASSUME NEW c \in ToolCall, ListInstances(c) PROVE DesktopTypes'
  <2>1. call[c] \in CallRecord
    BY DEF DesktopTypes
  <2>2. [call[c] EXCEPT !.at = "done", !.tool = "list-instances", !.how = "ok",
                        !.listed = {p \in Pid : manifest[p] # 0}] \in CallRecord
    BY <2>1 DEF CallRecord
  <2>3. QED
    BY <1>5, <2>2 DEF ListInstances, DesktopTypes
<1>6. ASSUME NEW c \in ToolCall, NEW tool \in Tools, NEW p \in Pid, NEW args \in Args(tool, p),
             Begin(c, tool, p, args)
      PROVE  DesktopTypes'
  <2>1. call[c] \in CallRecord /\ Executor(p) \in Nat
    BY DEF DesktopTypes, Executor
  <2>2. args \in {Nothing, "missing", "no xml", "xml", "odd xml"} \cup Checkpoint
    BY DEF DesktopTypes, Args
  <2>3. PICK at \in {"submit", "done"},
             how \in {Nothing, "bad arguments", "no instance", "invalid xml"} :
          call' = [call EXCEPT ![c].at = at, ![c].how = how, ![c].tool = tool, ![c].pid = p,
                               ![c].args = args, ![c].run = Executor(p)]
    BY <1>6 DEF Begin
  <2> DEFINE r == [call[c] EXCEPT !.at = at, !.how = how, !.tool = tool, !.pid = p,
                                  !.args = args, !.run = Executor(p)]
  <2>4. r \in CallRecord
    <3>1. call[c] \in CallRecord
      BY Typed
    <3>2. QED
      BY <2>1, <2>2, <3>1, ZenonT(30) DEF CallRecord
  <2>5. call' \in [ToolCall -> CallRecord]
    <3>1. call' = [call EXCEPT ![c] = r]
      BY <2>3 DEF DesktopTypes
    <3> HIDE DEF r
    <3>2. QED
      BY <2>4, <3>1 DEF DesktopTypes
  <2>6. sessions' \in [Pid -> Nat \cup {Nothing}]
    <3>1. sessions' \in {sessions, [sessions EXCEPT ![p] = Executor(p)]}
      BY <1>6 DEF Begin
    <3>2. QED
      BY <2>1, <3>1 DEF DesktopTypes
  <2>7. QED
    BY <1>6, <2>5, <2>6 DEF Begin, DesktopTypes
<1>7. ASSUME NEW c \in ToolCall, CheckForUserChanges(c) PROVE DesktopTypes'
  <2>1. CASE Answered(c, "error") /\ UNCHANGED known
    BY <1>7, <2>1, AnsweredIsTyped DEF CheckForUserChanges, DesktopTypes
  <2>2. CASE ~(Answered(c, "error") /\ UNCHANGED known)
    <3> DEFINE p == call[c].pid
               d == desktop[p]
               since == call[c].args
               told == IF ~Given(since) THEN "checkpoint"
                       ELSE IF d.events > since.seq THEN "changes" ELSE "no changes"
               edited == Given(since) /\ Edited(d, since)
    <3>1. /\ known' = [known EXCEPT ![p] = [seq |-> d.events, run |-> d.run]]
          /\ call' = [call EXCEPT ![c].at = "done", ![c].how = told, ![c].edited = edited]
      BY <1>7, <2>2 DEF CheckForUserChanges
    <3>2. told \in {"checkpoint", "changes", "no changes"} /\ edited \in BOOLEAN
      BY DEF Edited, Given
    <3> HIDE DEF told, edited
    <3>3. [call[c] EXCEPT !.at = "done", !.how = told, !.edited = edited] \in CallRecord
      <4>1. call[c] \in CallRecord
        BY Typed
      <4>2. QED
        BY <3>2, <4>1, ZenonT(30) DEF CallRecord
    <3>4. call' \in [ToolCall -> CallRecord]
      BY <3>1, <3>3 DEF DesktopTypes
    <3>5. known' \in [Pid -> {Nothing} \cup Checkpoint]
      <4>1. p \in Pid => [seq |-> d.events, run |-> d.run] \in Checkpoint
        BY Typed DEF Instance, Checkpoint
      <4>2. QED
        BY <3>1, <4>1 DEF DesktopTypes
    <3>6. QED
      BY <1>7, <3>4, <3>5 DEF CheckForUserChanges, DesktopTypes
  <2>3. QED
    BY <2>1, <2>2
<1>8. ASSUME NEW c \in ToolCall, Submit(c) PROVE DesktopTypes'
  <2>1. command' \in [ToolCall -> Seq(CommandStates)]
    <3>1. Append(command[c], "queued") \in Seq(CommandStates)
      BY Typed DEF CommandStates
    <3>2. QED
      BY <1>8, <3>1 DEF Submit, DesktopTypes
  <2>2. [call[c] EXCEPT !.at = "wait", !.tries = 0] \in CallRecord
    <3>1. call[c] \in CallRecord
      BY Typed
    <3>2. QED
      BY <3>1 DEF CallRecord
  <2>3. call' \in [ToolCall -> CallRecord]
    BY <1>8, <2>2, AnsweredIsTyped DEF Submit, DesktopTypes
  <2>4. QED
    BY <1>8, <2>1, <2>3 DEF Submit, DesktopTypes
<1>9. ASSUME NEW c \in ToolCall, Poll(c) PROVE DesktopTypes'
  <2>1. [call[c] EXCEPT !.tries = Tried(c)] \in CallRecord
    <3>1. call[c].tries \in Nat
      BY Typed DEF CallRecord
    <3>2. Tried(c) \in Nat
      BY <3>1 DEF Tried
    <3>3. QED
      BY <3>2, Typed DEF CallRecord
  <2>2. call' \in [ToolCall -> CallRecord]
    BY <1>9, <2>1, AnsweredIsTyped DEF Poll, DesktopTypes
  <2>3. QED
    BY <1>9, <2>2 DEF Poll, DesktopTypes
<1>10. ASSUME NEW c \in ToolCall, PollFails(c) \/ TimesOut(c) \/ Cancelled(c)
       PROVE  DesktopTypes'
  <2>1. call' \in [ToolCall -> CallRecord]
    BY <1>10, AnsweredIsTyped DEF PollFails, TimesOut, Cancelled
  <2>2. QED
    BY <1>10, <2>1 DEF PollFails, TimesOut, Cancelled, DesktopTypes
<1>11. CASE UNCHANGED desktopVars
  BY <1>11 DEF desktopVars, DesktopTypes
<1>12. QED
  BY <1>1, <1>2, <1>3, <1>4, <1>5, <1>6, <1>7, <1>8, <1>9, <1>10, <1>11 DEF DesktopNext, Tools

-----------------------------------------------------------------------------
(* What calls answer is honest.                                            *)

\* The user's edits are among the events logged.
EditsAreEvents == \A p \in Pid : desktop[p].edits \subseteq 1 .. desktop[p].events

\* A session stays with the run of its instance it was first used for: so do the
\* calls that are under way, and the checkpoints the client was given.
RunsAreKept ==
    /\ \A p \in Pid : known[p] # Nothing => known[p].run = sessions[p]
    /\ \A c \in ToolCall : At(c, "submit") \/ At(c, "wait") =>
          /\ call[c].pid \in Pid
          /\ call[c].run = sessions[call[c].pid]
          /\ call[c].tool = "check-for-user-changes" /\ call[c].args # Nothing =>
                call[c].args \in Checkpoint /\ call[c].args.run = call[c].run

AllFailed(s) == \A n \in 1 .. Len(s) : s[n] = "failed"

\* The commands of a call ran one after the other, each after the failure of the
\* one before it.
InTurn(r, s) ==
    /\ \A n \in 1 .. Len(s) : n < Len(s) => s[n] = "failed"
    /\ r.at = "idle" => s = <<>>
    /\ r.at = "submit" => AllFailed(s)
    /\ r.at = "wait" => Len(s) > 0
    /\ r.at = "done" /\ r.tool = "apply-workbook" /\ r.how = "ok" =>
          Len(s) > 0 /\ s[Len(s)] = "completed"
    /\ r.at = "done" /\ r.tool = "apply-workbook"
          /\ r.how \in {"bad arguments", "no instance", "invalid xml", "command-failed"} =>
          AllFailed(s)

CommandsInTurn == \A c \in ToolCall : InTurn(call[c], command[c])

AnswersInv == /\ DesktopTypes
              /\ EditsAreEvents
              /\ RunsAreKept
              /\ CommandsInTurn
              /\ ChangesAreReported

LEMMA AnswersInvInit == DesktopInit => AnswersInv
<1> SUFFICES ASSUME DesktopInit PROVE AnswersInv
  OBVIOUS
<1>1. EditsAreEvents
  BY DEF DesktopInit, EditsAreEvents
<1>2. RunsAreKept
  BY DEF DesktopInit, RunsAreKept, At, Idle
<1>3. CommandsInTurn
  BY DEF DesktopInit, CommandsInTurn, InTurn, AllFailed, Idle
<1>4. ChangesAreReported
  BY DEF DesktopInit, ChangesAreReported, Done, At, Idle
<1>5. QED
  BY <1>1, <1>2, <1>3, <1>4, DesktopTypesInit DEF AnswersInv

\* An event is logged, or the instance starts anew; edits are events at once.
LEMMA EditsStep == AnswersInv /\ [DesktopNext]_desktopVars => EditsAreEvents'
<1> SUFFICES ASSUME AnswersInv, [DesktopNext]_desktopVars PROVE EditsAreEvents'
  OBVIOUS
<1> USE DEF AnswersInv
<1>1. ASSUME NEW p \in Pid, Starts(p) \/ Stops(p) PROVE EditsAreEvents'
  <2>1. PICK d : /\ desktop' = [desktop EXCEPT ![p] = d]
                 /\ \/ d.edits = {}
                    \/ d.edits = desktop[p].edits /\ d.events = desktop[p].events
    <3>1. CASE Starts(p)
      <4> DEFINE d == [up |-> TRUE, run |-> desktop[p].run + 1, events |-> 0, edits |-> {}]
      <4>1. desktop' = [desktop EXCEPT ![p] = d] /\ d.edits = {}
        BY <3>1 DEF Starts
      <4> HIDE DEF d
      <4>2. QED
        BY <4>1
    <3>2. CASE Stops(p)
      <4>1. desktop' = [desktop EXCEPT ![p] = [desktop[p] EXCEPT !.up = FALSE]]
        BY <3>2 DEF Stops
      <4>2. /\ [desktop[p] EXCEPT !.up = FALSE].edits = desktop[p].edits
            /\ [desktop[p] EXCEPT !.up = FALSE].events = desktop[p].events
        BY Typed DEF Instance
      <4>3. QED
        BY <4>1, <4>2
    <3>3. QED
      BY <1>1, <3>1, <3>2
  <2>2. QED
    BY <2>1 DEF EditsAreEvents, DesktopTypes
<1>2. ASSUME NEW p \in Pid, UserEdits(p) PROVE EditsAreEvents'
  <2>1. \A q \in Pid : desktop[q].events \in Nat
    BY Typed DEF Instance
  <2>2. desktop'[p].events = desktop[p].events + 1
        /\ desktop'[p].edits = desktop[p].edits \cup {desktop[p].events + 1}
    BY <1>2, Typed DEF UserEdits, DesktopTypes, Instance
  <2>3. \A q \in Pid \ {p} : desktop'[q] = desktop[q]
    BY <1>2 DEF UserEdits, DesktopTypes
  <2>4. QED
    BY <2>1, <2>2, <2>3 DEF EditsAreEvents
<1>3. ASSUME NEW c \in ToolCall, Runs(c) PROVE EditsAreEvents'
  <2>1. CASE UNCHANGED desktop
    BY <2>1 DEF EditsAreEvents
  <2>2. CASE desktop' = [desktop EXCEPT ![call[c].pid].events = @ + 1]
    <3>1. \A q \in Pid : desktop[q].events \in Nat
      BY Typed DEF Instance
    <3>2. \A q \in Pid : /\ desktop'[q].edits = desktop[q].edits
                         /\ desktop'[q].events \in {desktop[q].events, desktop[q].events + 1}
      BY <2>2, Typed DEF DesktopTypes, Instance
    <3>3. QED
      BY <3>1, <3>2 DEF EditsAreEvents
  <2>3. QED
    BY <1>3, <2>1, <2>2 DEF Runs
<1>4. CASE UNCHANGED desktop
  BY <1>4 DEF EditsAreEvents
<1>5. ASSUME NEW c \in ToolCall,
             \/ ListInstances(c) \/ CheckForUserChanges(c) \/ Submit(c) \/ Poll(c)
             \/ PollFails(c) \/ TimesOut(c) \/ Cancelled(c)
             \/ \E tool \in Tools, p \in Pid : \E args \in Args(tool, p) : Begin(c, tool, p, args)
      PROVE  UNCHANGED desktop
  <2>1. CASE ListInstances(c) \/ CheckForUserChanges(c) \/ Submit(c)
    BY <2>1 DEF ListInstances, CheckForUserChanges, Submit
  <2>2. CASE Poll(c) \/ PollFails(c) \/ TimesOut(c) \/ Cancelled(c)
    BY <2>2 DEF Poll, PollFails, TimesOut, Cancelled
  <2>3. CASE \E tool \in Tools, p \in Pid : \E args \in Args(tool, p) : Begin(c, tool, p, args)
    <3>1. PICK tool \in Tools, p \in Pid : \E args \in Args(tool, p) : Begin(c, tool, p, args)
      BY <2>3
    <3>2. PICK args \in Args(tool, p) : Begin(c, tool, p, args)
      BY <3>1
    <3>3. QED
      BY <3>2 DEF Begin
  <2>4. QED
    BY <1>5, <2>1, <2>2, <2>3
<1>6. QED
  BY <1>1, <1>2, <1>3, <1>4, <1>5 DEF DesktopNext, desktopVars, Tools

\* A call that is under way keeps what it was begun with.
LEMMA GoesOnAsBegun ==
    ASSUME DesktopTypes, NEW c \in ToolCall,
           \/ Submit(c) \/ Poll(c) \/ PollFails(c) \/ TimesOut(c) \/ Cancelled(c)
    PROVE  /\ At(c, "submit") \/ At(c, "wait")
           /\ \A d \in ToolCall \ {c} : call'[d] = call[d]
           /\ call'[c].pid = call[c].pid
           /\ call'[c].run = call[c].run
           /\ call'[c].tool = call[c].tool
           /\ call'[c].args = call[c].args
           /\ call'[c].edited = call[c].edited
<1> USE DEF CallRecord, DesktopTypes
<1>1. call[c] \in CallRecord
  OBVIOUS
<1>2. \/ \E how : Answered(c, how)
      \/ ByFile(c) /\ call' = [call EXCEPT ![c].at = "submit"]
      \/ call' = [call EXCEPT ![c].at = "wait", ![c].tries = 0]
      \/ At(c, "wait") /\ call' = [call EXCEPT ![c].tries = Tried(c)]
  BY DEF Submit, Poll, PollFails, TimesOut, Cancelled, Conclude, FallsBack
<1>3. At(c, "submit") \/ At(c, "wait")
  BY DEF Submit, Poll, PollFails, TimesOut, Cancelled
<1>4. CASE \E how : Answered(c, how)
  <2>1. PICK how : call' = [call EXCEPT ![c] = [call[c] EXCEPT !.at = "done", !.how = how]]
    BY <1>4 DEF Answered
  <2>2. QED
    BY <1>1, <1>3, <2>1
<1>5. CASE ByFile(c) /\ call' = [call EXCEPT ![c].at = "submit"]
  BY <1>1, <1>3, <1>5
<1>6. CASE call' = [call EXCEPT ![c].at = "wait", ![c].tries = 0]
  BY <1>1, <1>3, <1>6
<1>7. CASE At(c, "wait") /\ call' = [call EXCEPT ![c].tries = Tried(c)]
  BY <1>1, <1>3, <1>7
<1>8. QED
  BY <1>2, <1>4, <1>5, <1>6, <1>7

LEMMA ChecksEnd ==
    ASSUME DesktopTypes, NEW c \in ToolCall, CheckForUserChanges(c)
    PROVE  /\ call'[c].at = "done"
           /\ call'[c].tool = "check-for-user-changes"
           /\ \A d \in ToolCall \ {c} : call'[d] = call[d]
<1>0. call[c].tool = "check-for-user-changes"
  BY DEF CheckForUserChanges
<1> DEFINE since == call[c].args
           d == desktop[call[c].pid]
           told == IF ~Given(since) THEN "checkpoint"
                   ELSE IF d.events > since.seq THEN "changes" ELSE "no changes"
           edited == Given(since) /\ Edited(d, since)
<1>1. CASE call' = [call EXCEPT ![c] = [call[c] EXCEPT !.at = "done", !.how = "error"]]
  BY <1>0, <1>1, Typed DEF CallRecord, DesktopTypes
<1>2. CASE call' = [call EXCEPT ![c] = [call[c] EXCEPT !.at = "done", !.how = told,
                                                       !.edited = edited]]
  <2> HIDE DEF told, edited
  <2>1. QED
    BY <1>0, <1>2, Typed DEF CallRecord, DesktopTypes
<1>3. QED
  BY <1>1, <1>2 DEF CheckForUserChanges, Answered

LEMMA RunsStep == AnswersInv /\ [DesktopNext]_desktopVars => RunsAreKept'
<1> SUFFICES ASSUME AnswersInv, [DesktopNext]_desktopVars PROVE RunsAreKept'
  OBVIOUS
<1> USE DEF AnswersInv
<1>1. CASE UNCHANGED <<known, sessions, call>>
  BY <1>1 DEF RunsAreKept, At
<1>2. ASSUME NEW c \in ToolCall, ListInstances(c) PROVE RunsAreKept'
  <2>1. call'[c].at = "done" /\ \A d \in ToolCall \ {c} : call'[d] = call[d]
    BY <1>2, Typed DEF ListInstances, CallRecord, DesktopTypes
  <2>2. UNCHANGED <<known, sessions>>
    BY <1>2 DEF ListInstances
  <2>3. QED
    BY <2>1, <2>2 DEF RunsAreKept, At
<1>3. ASSUME NEW c \in ToolCall, NEW tool \in Tools, NEW p \in Pid, NEW args \in Args(tool, p),
             Begin(c, tool, p, args)
      PROVE  RunsAreKept'
  <2>1. \A d \in ToolCall \ {c} : call'[d] = call[d]
    BY <1>3, BegunFor
  <2>2. \A q \in Pid : sessions'[q] = sessions[q] \/ sessions[q] = Nothing
    <3>1. sessions' \in {sessions, [sessions EXCEPT ![p] = Executor(p)]}
      BY <1>3 DEF Begin
    <3>2. QED
      BY <3>1 DEF DesktopTypes, Executor
  <2>3. \A q \in Pid : known[q] # Nothing => known[q].run # Nothing
    BY DesktopAssumption DEF DesktopTypes, Checkpoint
  <2>4. \A q \in Pid : known'[q] # Nothing => known'[q].run = sessions'[q]
    BY <1>3, <2>2, <2>3 DEF Begin, RunsAreKept
  <2>5. \A d \in ToolCall : call[d].run # Nothing
    BY Typed, DesktopAssumption DEF CallRecord
  <2>6. CASE call'[c].at = "done"
    BY <1>3, <2>1, <2>2, <2>4, <2>5, <2>6 DEF RunsAreKept, At
  <2>7. CASE call'[c].at # "done"
    <3>1. call'[c].pid = p /\ call'[c].args = args /\ call'[c].run = Executor(p)
      BY <1>3, BegunFor
    <3>2. sessions'[p] = Executor(p)
      BY <1>3, <2>7, BegunIn
    <3>3. call'[c].tool = tool
      BY <1>3, BegunAs
    <3>4. tool = "check-for-user-changes" /\ args # Nothing =>
             args \in Checkpoint /\ args.run = Executor(p)
      <4>1. SUFFICES ASSUME tool = "check-for-user-changes", args # Nothing
                     PROVE  args \in Checkpoint /\ args.run = Executor(p)
        OBVIOUS
      <4>2. args = known[p]
        BY <4>1 DEF Args
      <4>3. known[p] \in Checkpoint /\ known[p].run = sessions[p]
        BY <4>1, <4>2 DEF DesktopTypes, RunsAreKept
      <4>4. sessions[p] # Nothing
        BY <2>3, <4>1, <4>2, <4>3
      <4>5. QED
        BY <4>2, <4>3, <4>4 DEF Executor
    <3>5. QED
      BY <2>1, <2>2, <2>4, <2>5, <3>1, <3>2, <3>3, <3>4 DEF RunsAreKept, At
  <2>8. QED
    BY <2>6, <2>7
<1>4. ASSUME NEW c \in ToolCall, CheckForUserChanges(c) PROVE RunsAreKept'
  <2>1. call'[c].at = "done" /\ \A d \in ToolCall \ {c} : call'[d] = call[d]
    BY <1>4, ChecksEnd
  <2>2. \A q \in Pid : known'[q] # Nothing => known'[q].run = sessions'[q]
    <3>1. CASE UNCHANGED known
      BY <1>4, <3>1 DEF CheckForUserChanges, RunsAreKept
    <3>2. CASE known' # known
      <4>1. /\ desktop[call[c].pid].run = call[c].run
            /\ known' = [known EXCEPT ![call[c].pid] =
                           [seq |-> desktop[call[c].pid].events, run |-> desktop[call[c].pid].run]]
        BY <1>4, <3>2 DEF CheckForUserChanges, Reaches
      <4>2. call[c].run = sessions[call[c].pid]
        BY <1>4 DEF CheckForUserChanges, RunsAreKept
      <4>3. QED
        BY <1>4, <4>1, <4>2 DEF CheckForUserChanges, RunsAreKept, DesktopTypes
    <3>3. QED
      BY <3>1, <3>2
  <2>3. UNCHANGED sessions
    BY <1>4 DEF CheckForUserChanges
  <2>4. QED
    BY <2>1, <2>2, <2>3 DEF RunsAreKept, At
<1>5. ASSUME NEW c \in ToolCall,
             Submit(c) \/ Poll(c) \/ PollFails(c) \/ TimesOut(c) \/ Cancelled(c)
      PROVE  RunsAreKept'
  <2>1. UNCHANGED <<known, sessions>>
    BY <1>5 DEF Submit, Poll, PollFails, TimesOut, Cancelled
  <2>2. /\ At(c, "submit") \/ At(c, "wait")
        /\ \A d \in ToolCall \ {c} : call'[d] = call[d]
        /\ call'[c].pid = call[c].pid
        /\ call'[c].run = call[c].run
        /\ call'[c].tool = call[c].tool
        /\ call'[c].args = call[c].args
    BY <1>5, GoesOnAsBegun
  <2>3. QED
    BY <2>1, <2>2 DEF RunsAreKept, At
<1>6. QED
  BY <1>1, <1>2, <1>3, <1>4, <1>5
     DEF DesktopNext, desktopVars, Starts, Stops, UserEdits, Runs, Tools

\* What a call ends with that has submitted its command, or was about to.
LEMMA EndsWith ==
    ASSUME DesktopTypes, NEW c \in ToolCall,
           \/ Submit(c) \/ Poll(c) \/ PollFails(c) \/ TimesOut(c) \/ Cancelled(c),
           call'[c].at = "done"
    PROVE  /\ call'[c].how \in {"ok", "error", "command-failed", "command-timed-out"}
           /\ call'[c].how = "ok" => At(c, "wait") /\ CommandStatus(c) = "completed"
           /\ call'[c].how = "command-failed" => At(c, "wait") /\ CommandStatus(c) = "failed"
           /\ call'[c].how \in {"ok", "command-failed"} => UNCHANGED command
<1> USE DEF CallRecord, DesktopTypes
<1>1. call[c] \in CallRecord
  OBVIOUS
<1>2. \A how : Answered(c, how) => call'[c].how = how
  <2> SUFFICES ASSUME NEW how, Answered(c, how) PROVE call'[c].how = how
    OBVIOUS
  <2>1. call' = [call EXCEPT ![c] = [call[c] EXCEPT !.at = "done", !.how = how]]
    BY DEF Answered
  <2>2. QED
    BY <1>1, <2>1
<1>3. \A how : Conclude(c, how) => call'[c].how = how
  <2> SUFFICES ASSUME NEW how, Conclude(c, how) PROVE call'[c].how = how
    OBVIOUS
  <2>1. call' # [call EXCEPT ![c].at = "submit"]
    BY <1>1
  <2>2. QED
    BY <1>2, <2>1 DEF Conclude
<1>4. CASE Submit(c)
  <2>1. call' # [call EXCEPT ![c].at = "wait", ![c].tries = 0]
    BY <1>1
  <2>2. Answered(c, "error")
    BY <1>4, <2>1 DEF Submit
  <2>3. QED
    BY <1>2, <2>2
<1>5. CASE Poll(c)
  <2>1. At(c, "wait") /\ call' # [call EXCEPT ![c].tries = Tried(c)] /\ UNCHANGED command
    BY <1>1, <1>5 DEF Poll, At
  <2>2. \/ Answered(c, "ok") /\ CommandStatus(c) = "completed"
        \/ Answered(c, "error")
        \/ Conclude(c, "command-failed") /\ CommandStatus(c) = "failed"
        \/ Conclude(c, "error")
    <3>1. CASE CommandStatus(c) = "completed"
      BY <1>5, <3>1 DEF Poll
    <3>2. CASE CommandStatus(c) = "failed"
      BY <1>5, <3>2 DEF Poll
    <3>3. CASE CommandStatus(c) \notin {"completed", "failed"}
      BY <1>5, <2>1, <3>3 DEF Poll
    <3>4. QED
      BY <3>1, <3>2, <3>3
  <2>3. QED
    BY <1>2, <1>3, <2>1, <2>2
<1>6. CASE PollFails(c) \/ TimesOut(c) \/ Cancelled(c)
  <2>1. \E how \in {"error", "command-timed-out"} : Answered(c, how) \/ Conclude(c, how)
    BY <1>6 DEF PollFails, TimesOut, Cancelled
  <2>2. QED
    BY <1>2, <1>3, <2>1
<1>7. QED
  BY <1>4, <1>5, <1>6

\* One that does not end waits on, or tries again what failed.
LEMMA WaitsOrRetries ==
    ASSUME DesktopTypes, NEW c \in ToolCall,
           Poll(c) \/ PollFails(c) \/ TimesOut(c) \/ Cancelled(c),
           call'[c].at # "done"
    PROVE  /\ At(c, "wait")
           /\ \/ call'[c].at = "wait"
              \/ call'[c].at = "submit" /\ CommandStatus(c) = "failed"
<1> USE DEF CallRecord, DesktopTypes
<1>1. call[c] \in CallRecord
  OBVIOUS
<1>2. \A how : ~Answered(c, how)
  <2> SUFFICES ASSUME NEW how, Answered(c, how) PROVE FALSE
    OBVIOUS
  <2>1. call' = [call EXCEPT ![c] = [call[c] EXCEPT !.at = "done", !.how = how]]
    BY DEF Answered
  <2>2. QED
    BY <1>1, <2>1
<1>3. \A how : Conclude(c, how) =>
          how = "command-failed" /\ call' = [call EXCEPT ![c].at = "submit"]
  BY <1>2 DEF Conclude, FallsBack
<1>4. ~Conclude(c, "error") /\ ~Conclude(c, "command-timed-out") /\ ~Answered(c, "error")
  <2>1. \A how : how # "command-failed" => ~Conclude(c, how)
    BY <1>3
  <2>2. "error" # "command-failed" /\ "command-timed-out" # "command-failed"
    OBVIOUS
  <2>3. ~Conclude(c, "error")
    BY <2>1, <2>2
  <2>4. ~Conclude(c, "command-timed-out")
    BY <2>1, <2>2
  <2>5. QED
    BY <1>2, <2>3, <2>4
<1>5. Poll(c)
  BY <1>4 DEF PollFails, TimesOut, Cancelled
<1>6. Reaches(call[c].pid, call[c].run)
  BY <1>4, <1>5 DEF Poll
<1>7. \/ call' = [call EXCEPT ![c].tries = Tried(c)]
      \/ CommandStatus(c) = "failed" /\ call' = [call EXCEPT ![c].at = "submit"]
  <2>1. CASE CommandStatus(c) = "completed"
    BY <1>2, <1>5, <1>6, <2>1 DEF Poll
  <2>2. CASE CommandStatus(c) = "failed"
    BY <1>3, <1>5, <1>6, <2>2 DEF Poll
  <2>3. CASE CommandStatus(c) \notin {"completed", "failed"}
    BY <1>5, <1>6, <2>3 DEF Poll
  <2>4. QED
    BY <2>1, <2>2, <2>3
<1>8. At(c, "wait")
  BY <1>5 DEF Poll
<1>9. CASE call' = [call EXCEPT ![c].tries = Tried(c)]
  BY <1>1, <1>8, <1>9 DEF At
<1>10. CASE call' = [call EXCEPT ![c].at = "submit"]
  BY <1>1, <1>7, <1>8, <1>9, <1>10
<1>11. QED
  BY <1>7, <1>9, <1>10

\* A call that ends with another answer than those InTurn speaks of.
LEMMA EndsInTurn ==
    ASSUME NEW r, NEW s, InTurn(r, s), NEW q, q.at = "done",
           \/ q.tool # "apply-workbook"
           \/ q.how \notin {"ok", "bad arguments", "no instance", "invalid xml",
                            "command-failed"}
    PROVE  InTurn(q, s)
BY DEF InTurn

LEMMA CommandsStep == AnswersInv /\ [DesktopNext]_desktopVars => CommandsInTurn'
<1> SUFFICES ASSUME AnswersInv, [DesktopNext]_desktopVars PROVE CommandsInTurn'
  OBVIOUS
<1> USE DEF AnswersInv
<1>1. CASE UNCHANGED <<call, command>>
  BY <1>1 DEF CommandsInTurn
<1>2. ASSUME NEW c \in ToolCall,
             \A d \in ToolCall \ {c} : call'[d] = call[d] /\ command'[d] = command[d],
             InTurn(call'[c], command'[c])
      PROVE  CommandsInTurn'
  BY <1>2 DEF CommandsInTurn
<1>3. ASSUME NEW c \in ToolCall, Runs(c) PROVE CommandsInTurn'
  <2> DEFINE s == command[c]
             n == Len(s)
  <2>1. s \in Seq(CommandStates) /\ InTurn(call[c], s) /\ n \in Nat
    BY Typed DEF CommandsInTurn
  <2>2. n > 0 /\ s[n] = "queued" /\ call' = call
    BY <1>3 DEF Runs
  <2>3. PICK end \in {"completed", "failed"} : command' = [command EXCEPT ![c] = [s EXCEPT ![n] = end]]
    BY <1>3 DEF Runs
  <2> DEFINE t == [s EXCEPT ![n] = end]
  <2>4. Len(t) = n /\ \A m \in 1 .. n : m < n => t[m] = s[m]
    BY <2>1, UpdatedSeq DEF CommandStates
  <2>5. command'[c] = t /\ \A d \in ToolCall \ {c} : command'[d] = command[d]
    BY <2>3 DEF DesktopTypes
  <2> HIDE DEF t, n, s
  <2>6. n \in 1 .. n
    BY <2>1, <2>2
  <2>7. InTurn(call[c], t)
    <3>1. \A m \in 1 .. n : m < n => t[m] = "failed"
      BY <2>1, <2>4 DEF InTurn, n
    <3>2. ~AllFailed(s) /\ s # <<>> /\ s[n] # "completed"
      BY <2>2, <2>6 DEF AllFailed, n
    <3>3. QED
      BY <2>1, <2>2, <2>4, <3>1, <3>2 DEF InTurn, n
  <2>8. QED
    BY <1>2, <2>2, <2>5, <2>7
<1>4. ASSUME NEW c \in ToolCall, ListInstances(c) PROVE CommandsInTurn'
  <2>1. /\ call'[c].at = "done" /\ call'[c].tool = "list-instances"
        /\ \A d \in ToolCall \ {c} : call'[d] = call[d]
    BY <1>4, Typed DEF ListInstances, CallRecord, DesktopTypes
  <2>2. command' = command
    BY <1>4 DEF ListInstances
  <2>3. QED
    BY <1>2, <2>1, <2>2, EndsInTurn DEF CommandsInTurn
<1>5. ASSUME NEW c \in ToolCall, NEW tool \in Tools, NEW p \in Pid, NEW args \in Args(tool, p),
             Begin(c, tool, p, args)
      PROVE  CommandsInTurn'
  <2>1. command' = command /\ command[c] = <<>>
    BY <1>5 DEF Begin, At, CommandsInTurn, InTurn
  <2>2. /\ \A d \in ToolCall \ {c} : call'[d] = call[d]
        /\ \/ call'[c].at = "submit"
           \/ /\ call'[c].at = "done"
              /\ call'[c].how \in {"bad arguments", "no instance", "invalid xml"}
    BY <1>5, BegunFor, BegunAs
  <2>4. InTurn(call'[c], command'[c])
    <3>1. command'[c] = <<>> /\ AllFailed(<<>>)
          /\ \A n \in 1 .. Len(<<>>) : <<>>[n] = "failed"
      BY <2>1 DEF AllFailed
    <3>2. QED
      BY <2>2, <3>1 DEF InTurn
  <2>5. QED
    BY <1>2, <2>1, <2>2, <2>4
<1>6. ASSUME NEW c \in ToolCall, CheckForUserChanges(c) PROVE CommandsInTurn'
  <2>1. /\ call'[c].at = "done" /\ call'[c].tool = "check-for-user-changes"
        /\ \A d \in ToolCall \ {c} : call'[d] = call[d]
    BY <1>6, ChecksEnd
  <2>2. command' = command
    BY <1>6 DEF CheckForUserChanges
  <2>3. QED
    BY <1>2, <2>1, <2>2, EndsInTurn DEF CommandsInTurn
<1>7. ASSUME NEW c \in ToolCall, Submit(c) PROVE CommandsInTurn'
  <2> DEFINE s == command[c]
             t == command'[c]
  <2>1. s \in Seq(CommandStates) /\ Len(s) \in Nat /\ AllFailed(s)
    <3>1. call[c].at = "submit" /\ InTurn(call[c], s)
      BY <1>7 DEF Submit, At, CommandsInTurn
    <3>2. AllFailed(s)
      BY <3>1 DEF InTurn
    <3>3. QED
      BY <3>2, Typed
  <2>2. /\ t = s \/ t = Append(s, "queued")
        /\ \A d \in ToolCall \ {c} : command'[d] = command[d]
    BY <1>7 DEF Submit, DesktopTypes
  <2>3. \A m \in 1 .. Len(t) : m < Len(t) => t[m] = "failed"
    BY <2>1, <2>2 DEF AllFailed
  <2>4. \A d \in ToolCall \ {c} : call'[d] = call[d]
    BY <1>7, GoesOnAsBegun
  <2>5. CASE Answered(c, "error")
    <3>1. call'[c].at = "done" /\ call'[c].how = "error"
      BY <2>5, Typed DEF Answered, CallRecord, DesktopTypes
    <3>2. InTurn(call'[c], t)
      BY <2>3, <3>1 DEF InTurn
    <3>3. QED
      BY <1>2, <2>2, <2>4, <3>2
  <2>6. CASE ~Answered(c, "error")
    <3>1. call'[c].at = "wait"
      <4>1. call' = [call EXCEPT ![c].at = "wait", ![c].tries = 0]
        BY <1>7, <2>6 DEF Submit
      <4>2. QED
        BY <4>1, Typed DEF CallRecord, DesktopTypes
    <3>2. t = Append(s, "queued")
      BY <1>7, <2>6 DEF Submit, DesktopTypes
    <3>3. Len(t) > 0
      BY <2>1, <3>2
    <3>4. InTurn(call'[c], t)
      BY <2>3, <3>1, <3>3 DEF InTurn
    <3>5. QED
      BY <1>2, <2>2, <2>4, <3>4
  <2>7. QED
    BY <2>5, <2>6
<1>8. ASSUME NEW c \in ToolCall, Poll(c) \/ PollFails(c) \/ TimesOut(c) \/ Cancelled(c)
      PROVE  CommandsInTurn'
  <2> DEFINE s == command[c]
  <2>1. command' = command /\ InTurn(call[c], s) /\ Len(s) \in Nat
    BY <1>8, Typed DEF Poll, PollFails, TimesOut, Cancelled, CommandsInTurn
  <2>2. \A d \in ToolCall \ {c} : call'[d] = call[d]
    BY <1>8, GoesOnAsBegun
  <2>3. InTurn(call'[c], s)
    <3>1. CASE call'[c].at = "done"
      <4>1. /\ call'[c].how \in {"ok", "error", "command-failed", "command-timed-out"}
            /\ call'[c].how = "ok" => At(c, "wait") /\ s[Len(s)] = "completed"
            /\ call'[c].how = "command-failed" => At(c, "wait") /\ s[Len(s)] = "failed"
        BY <1>8, <3>1, EndsWith DEF CommandStatus
      <4>2. CASE call'[c].how = "ok"
        BY <2>1, <3>1, <4>1, <4>2 DEF InTurn, At
      <4>3. CASE call'[c].how = "command-failed"
        <5>1. s[Len(s)] = "failed"
          BY <4>1, <4>3
        <5>2. \A n \in 1 .. Len(s) : n < Len(s) => s[n] = "failed"
          BY <2>1 DEF InTurn
        <5>3. AllFailed(s)
          BY <2>1, <5>1, <5>2 DEF AllFailed
        <5>4. QED
          BY <2>1, <3>1, <4>3, <5>3 DEF InTurn
      <4>4. CASE call'[c].how \in {"error", "command-timed-out"}
        BY <2>1, <3>1, <4>4, EndsInTurn
      <4>5. QED
        BY <4>1, <4>2, <4>3, <4>4
    <3>2. CASE call'[c].at # "done"
      <4>1. /\ At(c, "wait")
            /\ \/ call'[c].at = "wait"
               \/ call'[c].at = "submit" /\ s[Len(s)] = "failed"
        BY <1>8, <3>2, WaitsOrRetries DEF CommandStatus
      <4>2. Len(s) > 0 /\ (s[Len(s)] = "failed" => AllFailed(s))
        BY <2>1, <4>1 DEF InTurn, AllFailed, At
      <4>3. QED
        BY <2>1, <4>1, <4>2 DEF InTurn
    <3>3. QED
      BY <3>1, <3>2
  <2>4. QED
    BY <1>2, <2>1, <2>2, <2>3
<1>9. QED
  BY <1>1, <1>3, <1>4, <1>5, <1>6, <1>7, <1>8
     DEF DesktopNext, desktopVars, Starts, Stops, UserEdits, Tools
\* Only check-for-user-changes says what the user did, and says it of the run the
\* checkpoint was taken of: every edit after the checkpoint is an event after it.
LEMMA ReportedStep == AnswersInv /\ [DesktopNext]_desktopVars => ChangesAreReported'
<1> SUFFICES ASSUME AnswersInv, [DesktopNext]_desktopVars PROVE ChangesAreReported'
  OBVIOUS
<1> USE DEF AnswersInv
<1>1. CASE UNCHANGED call
  BY <1>1 DEF ChangesAreReported, Done, At
<1>2. ASSUME NEW c \in ToolCall,
             \A d \in ToolCall \ {c} : call'[d] = call[d],
             \/ call'[c].at # "done"
             \/ call'[c].tool # "check-for-user-changes"
             \/ call'[c].how \notin {"no changes", "checkpoint"}
             \/ ~call'[c].edited
      PROVE  ChangesAreReported'
  BY <1>2 DEF ChangesAreReported, Done, At
<1>3. ASSUME NEW c \in ToolCall, ListInstances(c) PROVE ChangesAreReported'
  <2>1. /\ call'[c].tool = "list-instances"
        /\ \A d \in ToolCall \ {c} : call'[d] = call[d]
    BY <1>3, Typed DEF ListInstances, CallRecord, DesktopTypes
  <2>2. QED
    BY <1>2, <2>1
<1>4. ASSUME NEW c \in ToolCall, NEW tool \in Tools, NEW p \in Pid, NEW args \in Args(tool, p),
             Begin(c, tool, p, args)
      PROVE  ChangesAreReported'
  <2>1. /\ \A d \in ToolCall \ {c} : call'[d] = call[d]
        /\ \/ call'[c].at = "submit"
           \/ call'[c].how \in {"bad arguments", "no instance", "invalid xml"}
    BY <1>4, BegunFor, BegunAs
  <2>2. QED
    BY <1>2, <2>1
<1>5. ASSUME NEW c \in ToolCall, CheckForUserChanges(c) PROVE ChangesAreReported'
  <2> DEFINE since == call[c].args
             d == desktop[call[c].pid]
             told == IF ~Given(since) THEN "checkpoint"
                     ELSE IF d.events > since.seq THEN "changes" ELSE "no changes"
             edited == Given(since) /\ Edited(d, since)
  <2>1. \A b \in ToolCall \ {c} : call'[b] = call[b]
    BY <1>5, ChecksEnd
  <2>2. CASE call' = [call EXCEPT ![c] = [call[c] EXCEPT !.at = "done", !.how = "error"]]
    <3>1. call'[c].how = "error"
      BY <2>2, Typed DEF CallRecord, DesktopTypes
    <3>2. QED
      BY <1>2, <2>1, <3>1
  <2>3. CASE /\ Reaches(call[c].pid, call[c].run)
             /\ call' = [call EXCEPT ![c] = [call[c] EXCEPT !.at = "done", !.how = told,
                                                           !.edited = edited]]
    <3>1. told \in {"no changes", "checkpoint"} => ~edited
      <4>1. SUFFICES ASSUME told = "no changes", Given(since) PROVE ~edited
        BY DEF Given
      <4>2. /\ call[c].pid \in Pid
            /\ since \in Checkpoint
            /\ since.run = call[c].run
        BY <1>5, <4>1 DEF CheckForUserChanges, RunsAreKept, Given
      <4>3. d.run = since.run
        BY <2>3, <4>2 DEF Reaches
      <4>4. d.edits \subseteq 1 .. d.events /\ d.events \in Nat /\ since.seq \in Nat
        BY <4>2, Typed DEF EditsAreEvents, Instance, Checkpoint
      <4>5. ~(d.events > since.seq)
        BY <4>1
      <4> HIDE DEF d, since
      <4>6. QED
        BY <4>3, <4>4, <4>5 DEF Edited
    <3> HIDE DEF told, edited
    <3>2. call'[c].how = told /\ call'[c].edited = edited
      BY <2>3, Typed DEF CallRecord, DesktopTypes
    <3>3. QED
      BY <1>2, <2>1, <3>1, <3>2
  <2>4. QED
    BY <1>5, <2>2, <2>3 DEF CheckForUserChanges, Answered
<1>6. ASSUME NEW c \in ToolCall,
             Submit(c) \/ Poll(c) \/ PollFails(c) \/ TimesOut(c) \/ Cancelled(c)
      PROVE  ChangesAreReported'
  <2>1. \A d \in ToolCall \ {c} : call'[d] = call[d]
    BY <1>6, GoesOnAsBegun
  <2>2. CASE call'[c].at = "done"
    BY <1>2, <1>6, <2>1, <2>2, EndsWith
  <2>3. CASE call'[c].at # "done"
    BY <1>2, <2>1, <2>3
  <2>4. QED
    BY <2>2, <2>3
<1>7. QED
  BY <1>1, <1>3, <1>4, <1>5, <1>6
     DEF DesktopNext, desktopVars, Starts, Stops, UserEdits, Runs, Tools

LEMMA AnswersInvariant == DesktopSafetySpec => []AnswersInv
<1>1. AnswersInv /\ [DesktopNext]_desktopVars => AnswersInv'
  BY DesktopTypesStep, EditsStep, RunsStep, CommandsStep, ReportedStep DEF AnswersInv
<1>2. QED
  BY AnswersInvInit, <1>1, PTL DEF DesktopSafetySpec

\* However many calls overlap, and whatever instances, the user and the network do:
\* what apply-workbook answers is what happened to the workbook, and the user's
\* changes since the checkpoint are never said not to be there
\* (loadWorkbookXml.ts:101, checkForUserChanges.ts:84).
THEOREM AnswersStayHonest == DesktopSafetySpec => []AnswersAreHonest
<1>1. AnswersInv => AppliedOnce
  <2> SUFFICES ASSUME AnswersInv, NEW c \in ToolCall
               PROVE  LET loaded == {n \in 1 .. Len(command[c]) : command[c][n] # "failed"} IN
                      /\ Cardinality(loaded) <= 1
                      /\ Done(c, {"apply-workbook"}, {"ok"}) =>
                            \E n \in loaded : command[c][n] = "completed"
                      /\ Done(c, {"apply-workbook"}, {"bad arguments", "no instance",
                                                     "invalid xml", "command-failed"}) =>
                            loaded = {}
    BY DEF AppliedOnce
  <2> DEFINE s == command[c]
             loaded == {n \in 1 .. Len(s) : s[n] # "failed"}
  <2>1. InTurn(call[c], s) /\ Len(s) \in Nat
    BY Typed DEF AnswersInv, CommandsInTurn
  <2>2. loaded \subseteq {Len(s)}
    <3>1. \A n \in 1 .. Len(s) : n < Len(s) => s[n] = "failed"
      BY <2>1 DEF InTurn
    <3> HIDE DEF s
    <3>2. \A n \in 1 .. Len(s) : s[n] # "failed" => n = Len(s)
      BY <2>1, <3>1
    <3>3. QED
      BY <3>2
  <2>3. Cardinality(loaded) <= 1
    <3>1. loaded = {} \/ loaded = {Len(s)}
      BY <2>2
    <3> HIDE DEF loaded
    <3>2. Cardinality(loaded) \in {0, 1}
      BY <3>1, FS_EmptySet, FS_Singleton, Zenon
    <3>3. QED
      BY <3>2
  <2>4. Done(c, {"apply-workbook"}, {"ok"}) => \E n \in loaded : s[n] = "completed"
    <3>1. SUFFICES ASSUME Done(c, {"apply-workbook"}, {"ok"})
                   PROVE  \E n \in loaded : s[n] = "completed"
      OBVIOUS
    <3>2. Len(s) > 0 /\ s[Len(s)] = "completed"
      BY <2>1, <3>1 DEF Done, At, InTurn
    <3> HIDE DEF s
    <3>3. Len(s) \in 1 .. Len(s) /\ s[Len(s)] # "failed"
      BY <2>1, <3>2
    <3>4. QED
      BY <3>2, <3>3
  <2>5. Done(c, {"apply-workbook"}, {"bad arguments", "no instance", "invalid xml",
                                     "command-failed"}) => loaded = {}
    BY <2>1 DEF Done, At, InTurn, AllFailed
  <2>6. QED
    BY <2>3, <2>4, <2>5
<1>2. AnswersInv => AnswersAreHonest
  BY <1>1 DEF AnswersInv, AnswersAreHonest
<1>3. QED
  BY AnswersInvariant, <1>2, PTL

=============================================================================
