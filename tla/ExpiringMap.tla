----------------------------- MODULE ExpiringMap -----------------------------
(***************************************************************************)
(* ExpiringMap (utils/expiringMap.ts), the cache under the admin gate, the *)
(* evidence registries, the site settings and the pass-through sessions:   *)
(* a Map whose entries delete themselves, and setLongTimeout, the timer    *)
(* the authorization server puts its grants on.  Both stand on setTimeout, *)
(* which takes a delay of more than MAX_DELAY for one of 1.  Time is       *)
(* counted in ticks; a timer fires at some point after it is due.  Up to   *)
(* MaxTime it may be late by any number of ticks; from then on time passes *)
(* only while nothing is due, so that every timer gets its turn.           *)
(***************************************************************************)
EXTENDS Naturals, Sequences, SequencesExt

CONSTANTS
    Key,
    MAX_DELAY,    \* 2^31 - 1 ms
    MaxSize,      \* the maxSize option, or 0 for none
    Delay,        \* expiration times set() is called with
    LongDelay,    \* delays setLongTimeout is called with
    MaxSets,      \* bound: calls of set
    MaxTime,      \* bound: ticks while a timer is due; calls of setLongTimeout
    None

\* What the constants are assumed to be.
TimeAssumption == /\ MAX_DELAY \in Nat \ {0}
                  /\ MaxSize \in Nat
                  /\ Delay \subseteq Nat
                  /\ LongDelay \subseteq Nat \ {0}
                  /\ MaxSets \in Nat
                  /\ MaxTime \in Nat
                  /\ None \notin Nat

VARIABLES
    order,     \* the keys of the Map, in insertion order
    timeouts,  \* the id of each key's timer
    timers,    \* the timers that are set: [id, key, at]
    life,      \* history: when the entry of a key may go at the earliest
    nextId,
    long,      \* the long timer: [at, rest], rest the delay still to come
    wish,      \* history: when the callback that is still owed is wanted
    now

mapVars == <<order, timeouts, timers, life, nextId>>
longVars == <<long, wish>>
vars == <<mapVars, longVars, now>>

Init == /\ order = <<>>
        /\ timeouts = [k \in Key |-> None]
        /\ timers = {}
        /\ life = [k \in Key |-> 0]
        /\ nextId = 1
        /\ long = None
        /\ wish = None
        /\ now = 0

\* When a setTimeout of this delay is due.
Due(delay) == now + IF delay > MAX_DELAY THEN 1 ELSE delay

WithoutTimer(k, pending) == {t \in pending : t.id # timeouts[k]}

\* clearTimeout(currentTimeout) of the key.
CurrentTimers(k) == WithoutTimer(k, timers)

\* Beyond the cap the oldest inserted key goes, with its timer.
Evicted(keys) == IF MaxSize > 0 /\ Len(keys) > MaxSize THEN {Head(keys)} ELSE {}

\* set throws unless 0 < ms <= MAX_DELAY.
Set(k, ms) ==
    /\ nextId <= MaxSets
    /\ ms > 0
    /\ ms <= MAX_DELAY
    /\ LET keys == IF k \in ToSet(order) THEN order ELSE Append(order, k)
           gone == Evicted(keys)
           left == {t \in CurrentTimers(k) : \A g \in gone : t.id # timeouts[g]}
       IN  /\ order' = IF gone = {} THEN keys ELSE Tail(keys)
           /\ timers' = left \cup {[id |-> nextId, key |-> k, at |-> Due(ms)]}
           /\ timeouts' = [x \in Key |-> IF x = k THEN nextId
                                         ELSE IF x \in gone THEN None
                                         ELSE timeouts[x]]
    /\ life' = [life EXCEPT ![k] = now + ms]
    /\ nextId' = nextId + 1
    /\ UNCHANGED <<longVars, now>>

\* delete: the entry and its timer.
Unset(k, pending) ==
    /\ order' = RemoveFirst(order, k)
    /\ timeouts' = [timeouts EXCEPT ![k] = None]
    /\ timers' = WithoutTimer(k, pending)

Delete(k) == /\ Unset(k, timers)
             /\ UNCHANGED <<life, nextId, longVars, now>>

\* clear: also when the map is disposed of.
Clear == /\ order # <<>>
         /\ order' = <<>>
         /\ timeouts' = [k \in Key |-> None]
         /\ timers' = {t \in timers : t.id \notin {timeouts[k] : k \in Key}}
         /\ UNCHANGED <<life, nextId, longVars, now>>

\* The callback of a timer deletes its key.
Expire(t) == /\ t.at <= now
             /\ Unset(t.key, timers \ {t})
             /\ UNCHANGED <<life, nextId, longVars, now>>

-----------------------------------------------------------------------------
\* setLongTimeout: a delay that is too long is served in legs.
Leg(delay) == IF delay > MAX_DELAY
              THEN [at |-> Due(MAX_DELAY), rest |-> delay - MAX_DELAY]
              ELSE [at |-> Due(delay), rest |-> 0]

SetLongTimeout(delay) ==
    /\ wish = None
    /\ now < MaxTime
    /\ long' = Leg(delay)
    /\ wish' = now + delay
    /\ UNCHANGED <<mapVars, now>>

\* Mutant: the rest of the delay is forgotten when a leg ends.
NextLeg_Lost == /\ long # None
                /\ long.at <= now
                /\ long.rest > 0
                /\ long' = None
                /\ UNCHANGED <<mapVars, wish, now>>

NextLeg == /\ long # None
           /\ long.at <= now
           /\ long.rest > 0
           /\ long' = Leg(long.rest)
           /\ UNCHANGED <<mapVars, wish, now>>

Callback == /\ long # None
            /\ long.at <= now
            /\ long.rest = 0
            /\ long' = None
            /\ wish' = None
            /\ UNCHANGED <<mapVars, now>>

\* When the timers that are set are due.
Pending == {t.at : t \in timers} \cup (IF long = None THEN {} ELSE {long.at})

\* There is something to wait for, and nothing that is due.
NothingDue == Pending # {} /\ \A at \in Pending : now < at

Tick == /\ now < MaxTime \/ NothingDue
        /\ now' = now + 1
        /\ UNCHANGED <<mapVars, longVars>>

Expiry == \E t \in timers : Expire(t)

Next == \/ \E k \in Key : \/ \E ms \in Delay : Set(k, ms)
                          \/ Delete(k)
        \/ Clear
        \/ Expiry
        \/ \E delay \in LongDelay : SetLongTimeout(delay)
        \/ NextLeg
        \/ Callback
        \/ Tick

\* Time goes on, and setTimeout calls back what is due.
Fairness == /\ WF_vars(Tick)
            /\ WF_vars(Expiry)
            /\ WF_vars(NextLeg)
            /\ WF_vars(Callback)

Spec == Init /\ [][Next]_vars /\ Fairness

-----------------------------------------------------------------------------
(* Properties.                                                             *)

\* An entry lives as long as its last set asked for: no timer of an earlier
\* set, of an evicted or of a deleted entry of the same key takes it away
\* (expiringMap.ts:52-78).
NoEarlyExpiry == [][\A t \in timers : Expire(t) /\ t.key \in ToSet(order)
                                          => life[t.key] <= now]_vars

\* No entry is forgotten: each is watched by a timer of its own, whatever was
\* overwritten, evicted or deleted before (expiringMap.ts:52-78).
EveryEntryIsTimed ==
    \A k \in ToSet(order) : \E t \in timers : t.id = timeouts[k] /\ t.key = k

\* No entry expires early, and none is without a timer.
EntriesExpireOnTime == []EveryEntryIsTimed /\ NoEarlyExpiry

\* Entries do not stay: the sets being bounded, the map is empty again and
\* again (expiringMap.ts:69-74).
EntriesGo == []<>(order = <<>>)

\* A delay beyond what setTimeout can take is served in full
\* (setLongTimeout.ts:6-22).
LongTimerNotEarly == [][Callback => wish <= now]_vars

\* Whatever was asked of setLongTimeout is called back, after however many
\* legs (setLongTimeout.ts:13-19).
LongTimerFires == []<>(wish = None)

LongTimerOnTime == LongTimerNotEarly /\ LongTimerFires

\* The map's timers and the long ones (expiringMap.ts, setLongTimeout.ts).
TimersAreOnTime == EntriesExpireOnTime /\ EntriesGo /\ LongTimerOnTime
=============================================================================
