---------------------------- MODULE SingleFlight ----------------------------
(***************************************************************************)
(* What a state bridge promises, without its timers and flags: changes of  *)
(* the watched element are coalesced into one pending request, at most one *)
(* capture is in flight, a request made while a capture runs is kept for   *)
(* the next one, and once the bridge is closed nothing starts any more.    *)
(***************************************************************************)

VARIABLES
    wanted,  \* a change has not been picked up by a capture yet
    flying,  \* a capture, or the push of its snapshot, is in flight
    closed   \* the bridge has been disposed of

vars == <<wanted, flying, closed>>

TypeOK == /\ wanted \in BOOLEAN
          /\ flying \in BOOLEAN
          /\ closed \in BOOLEAN

Init == /\ ~wanted
        /\ ~flying
        /\ ~closed

Request == /\ ~closed
           /\ wanted' = TRUE
           /\ UNCHANGED <<flying, closed>>

Launch == /\ wanted
          /\ ~flying
          /\ ~closed
          /\ wanted' = FALSE
          /\ flying' = TRUE
          /\ UNCHANGED closed

Land == /\ flying
        /\ flying' = FALSE
        /\ UNCHANGED <<wanted, closed>>

\* Closing forgets the pending request; the bridge may close itself while it
\* lands its last flight.
Close == /\ ~closed
         /\ closed' = TRUE
         /\ wanted' = FALSE
         /\ flying' \in {flying, FALSE}

Next == Request \/ Launch \/ Land \/ Close

SafetySpec == Init /\ [][Next]_vars

Spec == /\ SafetySpec
        /\ WF_vars(Launch)
        /\ WF_vars(Land)
=============================================================================
