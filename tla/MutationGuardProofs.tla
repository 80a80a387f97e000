------------------------- MODULE MutationGuardProofs -------------------------
(***************************************************************************)
(* Proofs about MutationGuard, for every set of calls, users, operations   *)
(* and tags, with mcp-apps on or off.  Single use does not follow from the *)
(* deletion of an entry alone: the invariant says that whatever stands in  *)
(* a cache was put there by a preview that was shown, and has not been the *)
(* basis of any confirm.                                                   *)
(***************************************************************************)
EXTENDS MutationGuard, TLAPS

\* A call that began asks for something, and a confirm goes by the way that
\* the feature gate leaves open for its operation.
WellRequested ==
    \A c \in Call : pc[c] # "idle" =>
        /\ req[c] \in Request
        /\ req[c].phase = "confirm" =>
              (req[c].via = "app" <=> ModelClosed(req[c].op))

\* What a call's stage says of it.
Staged ==
    \A c \in Call :
        /\ pc[c] = "establish" => req[c].phase = "preview"
        /\ pc[c] \in {"tag", "oneshot", "mutate"} => req[c].phase = "confirm"
        /\ pc[c] = "tag" => req[c].op \in ContentOp
        /\ Authorized(c) => /\ pc[c] \in {"mutate", "done", "dead"}
                            /\ req[c].phase = "confirm"

\* Only an ended call has a record.
Unrecorded == \A c \in Call : pc[c] # "done" => audit[c] = <<>>

ShownFor(p, k) == /\ p \in Call
                  /\ Shown(p)
                  /\ req[p].phase = "preview"
                  /\ KeyOf(p) = k

\* What stands in a cache is unspent evidence of a preview that was shown.
Unspent(p, k) == /\ ShownFor(p, k)
                 /\ \A c \in Call : basis[c] # p

ApprovalsUnspent ==
    \A k \in Key, p \in Call : approvals[k] = p =>
        ModelClosed(k[2]) /\ Unspent(p, k)

\* Where the model cannot confirm, a nonce is minted but never asked for.
NoncesUnspent ==
    \A k \in Key, p \in Call : nonces[k] = p =>
        ShownFor(p, k) /\ (~ModelClosed(k[2]) => Unspent(p, k))

BasisShown ==
    \A c, p \in Call : basis[c] = p => ShownBefore(p, c)

\* A label on a target was put there by a preview that named it.
TagsPut ==
    \A o \in ContentOp : \A t \in tags[o] : \E p \in Call : PutBy(p, o, t)

\* A confirm that got past the gate without spending anything had the tag.
TagIsTheBasis ==
    \A c \in Call : Authorized(c) /\ basis[c] = None =>
        /\ req[c].op \in ContentOp /\ ~McpApps
        /\ \E p \in Call : PutBy(p, req[c].op, req[c].tag)

IInv == /\ TypeOK
        /\ OneMutationPerApproval
        /\ WellRequested
        /\ Staged
        /\ Unrecorded
        /\ ApprovalsUnspent
        /\ NoncesUnspent
        /\ BasisShown
        /\ TagsPut
        /\ TagIsTheBasis

LEMMA InitInv == Init => IInv
BY NoneAssumption
   DEF Init, IInv, TypeOK, OneMutationPerApproval, WellRequested, Staged,
       Unrecorded, ApprovalsUnspent, NoncesUnspent, BasisShown, TagsPut,
       TagIsTheBasis, Authorized, KeptFor, PutBy, Key, Op, Stage, InFlight

-----------------------------------------------------------------------------
(* The order of the checks.                                                 *)

\* The one-shot evidence is the last thing asked for.
LEMMA OneShotIsLast == \A c : After(c, "oneshot") = "mutate"
<1>1. /\ Len(<<"oneshot">>) = 1 /\ Len(<<"tag">>) = 1
      /\ <<"tag", "oneshot">>[1] = "tag"
  OBVIOUS
<1>2. QED
  BY <1>1 DEF After, Evidence

\* After the tag comes the approval of a panel, and nothing for the model.
LEMMA TagThen ==
    ASSUME NEW c, req[c].op \in ContentOp
    PROVE  After(c, "tag") = IF req[c].via = "app" THEN "oneshot" ELSE "mutate"
<1>1. /\ Len(<<"tag">>) = 1 /\ Len(<<"tag", "oneshot">>) = 2
      /\ <<"tag", "oneshot">>[1] = "tag" /\ <<"tag", "oneshot">>[2] = "oneshot"
  OBVIOUS
<1>2. QED
  BY <1>1 DEF After, Evidence

\* No check ends a call that passes it.
LEMMA GoesOn ==
    \A c : /\ Head(Evidence(c)) \in {"tag", "oneshot"}
           /\ \A check : After(c, check) \in {"tag", "oneshot", "mutate"}
<1>1. /\ Head(<<"tag">>) = "tag" /\ Head(<<"oneshot">>) = "oneshot"
      /\ Head(<<"tag", "oneshot">>) = "tag"
      /\ Len(<<"tag">>) = 1 /\ Len(<<"oneshot">>) = 1
      /\ <<"tag", "oneshot">>[2] = "oneshot"
  OBVIOUS
<1>2. QED
  BY <1>1 DEF Evidence, After

\* Where the checks begin.
LEMMA FirstCheck ==
    \A c : Head(Evidence(c)) = IF req[c].op \in ContentOp THEN "tag" ELSE "oneshot"
<1>1. /\ Head(<<"tag">>) = "tag" /\ Head(<<"oneshot">>) = "oneshot"
      /\ Head(<<"tag", "oneshot">>) = "tag"
  OBVIOUS
<1>2. QED
  BY <1>1 DEF Evidence

\* However a call arrives, it begins.
LEMMA ArriveBegins == ASSUME NEW c, Arrive(c) PROVE \E r : Begin(c, r)
BY DEF Arrive, Preview, ConfirmByModel, ConfirmInPanel, ConfirmDirectly

LEMMA ArriveFacts ==
    ASSUME NEW c, Arrive(c)
    PROVE  /\ pc[c] = "idle" /\ pc' = [pc EXCEPT ![c] = "open"]
           /\ \E r : req' = [req EXCEPT ![c] = r]
           /\ UNCHANGED <<audit, adminCache, nonces, approvals, role, wasAdmin, tags,
                          mutated, basis>>
<1>1. PICK r : Begin(c, r)
  BY ArriveBegins
<1>2. QED
  BY <1>1 DEF Begin, caches, roles

-----------------------------------------------------------------------------
\* A call that begins disturbs nothing: no evidence rests on an idle call.
LEMMA BeginInv ==
    ASSUME IInv, NEW c \in Call, NEW r \in Request, Begin(c, r),
           r.phase = "confirm" => (r.via = "app" <=> ModelClosed(r.op))
    PROVE  IInv'
<1> USE DEF IInv, Begin, caches, site, roles
<1>1. TypeOK'
  BY NoneAssumption DEF TypeOK, Stage, InFlight, KeptFor, KeyOf, ApprovalsUnspent,
     NoncesUnspent, ShownFor, Shown, Unspent
<1>2. OneMutationPerApproval'
  BY DEF OneMutationPerApproval
<1>3. WellRequested' /\ Staged' /\ Unrecorded'
  BY DEF TypeOK, WellRequested, Staged, Unrecorded, Authorized, ModelClosed
<1>4. ApprovalsUnspent' /\ NoncesUnspent'
  BY DEF TypeOK, ApprovalsUnspent, NoncesUnspent, Unspent, ShownFor, Shown,
     KeyOf, ModelClosed
<1>5. BasisShown'
  <2> SUFFICES ASSUME NEW d \in Call, NEW p \in Call, basis[d] = p
               PROVE  ShownBefore(p, d)'
    BY DEF BasisShown
  <2>1. Authorized(d) /\ ShownBefore(p, d)
    BY NoneAssumption DEF BasisShown, Authorized
  <2>2. d # c /\ p # c
    BY <2>1 DEF Staged, ShownBefore, Shown
  <2>3. QED
    BY <2>1, <2>2 DEF TypeOK, ShownBefore, Shown
<1>a. ASSUME NEW p \in Call, NEW o, NEW t, PutBy(p, o, t)
      PROVE  PutBy(p, o, t)'
  BY <1>a DEF TypeOK, PutBy
<1>6. TagsPut'
  BY <1>a DEF TagsPut
<1>b. ASSUME NEW d \in Call, Authorized(d)'
      PROVE  Authorized(d) /\ req'[d] = req[d] /\ basis'[d] = basis[d]
  BY <1>b DEF TypeOK, Authorized, Staged
<1>7. TagIsTheBasis'
  BY <1>a, <1>b DEF TagIsTheBasis
<1>8. QED
  BY <1>1, <1>2, <1>3, <1>4, <1>5, <1>6, <1>7

\* A call moves on, or ends, without touching any evidence: no evidence rests
\* on a call in flight, and a call past the gate can only end.
LEMMA MoveInv ==
    ASSUME IInv, TypeOK', NEW c \in Call, NEW s \in Stage,
           pc[c] \in InFlight,
           pc' = [pc EXCEPT ![c] = s],
           s \notin {"idle", "mutate", "dead"},
           s = "establish" => req[c].phase = "preview",
           s \in {"tag", "oneshot"} => req[c].phase = "confirm",
           s = "tag" => req[c].op \in ContentOp,
           pc[c] \in {"establish", "mutate"} => s = "done",
           \A d \in Call : d # c \/ s # "done" => audit'[d] = audit[d],
           \/ mutated' = mutated
           \/ pc[c] = "mutate" /\ mutated' = mutated \cup {c},
           UNCHANGED <<req, tags, nonces, approvals, basis>>
    PROVE  IInv'
<1> USE DEF IInv
<1>1. OneMutationPerApproval'
  BY DEF OneMutationPerApproval
<1>2. WellRequested' /\ Staged' /\ Unrecorded'
  BY DEF TypeOK, WellRequested, Staged, Unrecorded, Authorized, ModelClosed,
     InFlight
<1>3. ASSUME NEW p, NEW k, ShownFor(p, k)
      PROVE  ShownFor(p, k)'
  BY <1>3 DEF TypeOK, ShownFor, Shown, KeyOf, InFlight
<1>4. ApprovalsUnspent' /\ NoncesUnspent' /\ BasisShown'
  BY <1>3 DEF TypeOK, ApprovalsUnspent, NoncesUnspent, Unspent, BasisShown,
     ShownBefore, Shown, ModelClosed, InFlight
<1>5. ASSUME NEW p \in Call, NEW o, NEW t, PutBy(p, o, t)
      PROVE  PutBy(p, o, t)'
  BY <1>5 DEF TypeOK, PutBy, InFlight
<1>6. TagsPut'
  BY <1>5 DEF TagsPut
<1>7. ASSUME NEW d \in Call, Authorized(d)'
      PROVE  Authorized(d)
  BY <1>7 DEF TypeOK, Authorized
<1>8. TagIsTheBasis'
  BY <1>5, <1>7 DEF TagIsTheBasis
<1>9. QED
  BY <1>1, <1>2, <1>4, <1>6, <1>8

\* Evidence that goes away leaves nothing behind.
LEMMA LossInv ==
    ASSUME IInv, TypeOK',
           \A k \in Key : approvals'[k] \in {approvals[k], None},
           \A k \in Key : nonces'[k] \in {nonces[k], None},
           \A o \in ContentOp : tags'[o] \subseteq tags[o],
           UNCHANGED <<pc, req, audit, mutated, basis>>
    PROVE  IInv'
<1> USE DEF IInv
<1>1. OneMutationPerApproval' /\ WellRequested' /\ Staged' /\ Unrecorded'
  BY DEF OneMutationPerApproval, WellRequested, Staged, Unrecorded, Authorized,
     ModelClosed
<1>2. ASSUME NEW p, NEW k, ShownFor(p, k)
      PROVE  ShownFor(p, k)'
  BY <1>2 DEF ShownFor, Shown, KeyOf
<1>3. ApprovalsUnspent'
  BY <1>2, NoneAssumption DEF ApprovalsUnspent, Unspent, ModelClosed
<1>4. NoncesUnspent'
  BY <1>2, NoneAssumption DEF NoncesUnspent, Unspent, ModelClosed
<1>5. BasisShown'
  BY DEF BasisShown, ShownBefore, Shown
<1>6. TagsPut' /\ TagIsTheBasis'
  BY DEF TagsPut, TagIsTheBasis, PutBy, Authorized
<1>7. QED
  BY <1>1, <1>3, <1>4, <1>5, <1>6

\* The gate spends the evidence: what it rests on was unspent, and is gone
\* from the cache it was looked up in.
LEMMA VerifyOneShotInv ==
    ASSUME IInv, NEW c \in Call, VerifyOneShot(c)
    PROVE  IInv'
<1> USE DEF IInv, VerifyOneShot, site, roles
<1>1. /\ req[c] \in Request
      /\ req[c].phase = "confirm"
      /\ KeyOf(c) \in Key
      /\ basis[c] = None /\ c \notin mutated
  BY DEF TypeOK, WellRequested, Staged, Authorized, KeyOf, Key, Request
<1>0. pc' = [pc EXCEPT ![c] = "mutate"]
  BY OneShotIsLast
<1> DEFINE e == OneShot(c)
           k == KeyOf(c)
<1>2. TypeOK'
  BY <1>0, <1>1, NoneAssumption
     DEF TypeOK, Consume, OneShot, Stage, InFlight, KeptFor, KeyOf, Request
<1>3. WellRequested' /\ Staged' /\ Unrecorded'
  BY <1>0, <1>1 DEF TypeOK, WellRequested, Staged, Unrecorded, Authorized, ModelClosed
<1>4. ASSUME NEW p, NEW l, ShownFor(p, l)
      PROVE  ShownFor(p, l)'
  BY <1>0, <1>4 DEF TypeOK, ShownFor, Shown, KeyOf
<1>5. ASSUME NEW p \in Call, NEW o, NEW t, PutBy(p, o, t)
      PROVE  PutBy(p, o, t)'
  BY <1>0, <1>5 DEF TypeOK, PutBy
<1>6. TagsPut'
  BY <1>5 DEF TagsPut
<1>7. e # None /\ basis' = [basis EXCEPT ![c] = e]
  OBVIOUS
<1>8. ASSUME req[c].via = "app"
      PROVE  Unspent(e, k) /\ ApprovalsUnspent' /\ NoncesUnspent'
  <2>1. e = approvals[k] /\ Unspent(e, k) /\ ModelClosed(req[c].op)
    BY <1>1, <1>7, <1>8 DEF OneShot, ApprovalsUnspent, KeyOf, WellRequested, TypeOK
  <2>2. approvals' = [approvals EXCEPT ![k] = None] /\ nonces' = nonces
    BY <1>8 DEF Consume
  <2>3. \A l \in Key : approvals'[l] # None =>
           approvals'[l] = approvals[l] /\ l # k
    BY <1>1, <2>2 DEF TypeOK
  <2>4. ApprovalsUnspent'
    BY <1>4, <1>7, <2>1, <2>3, NoneAssumption
       DEF ApprovalsUnspent, Unspent, ShownFor, ModelClosed, TypeOK
  <2>5. NoncesUnspent'
    BY <1>1, <1>4, <1>7, <2>1, <2>2
       DEF NoncesUnspent, Unspent, ShownFor, ModelClosed, TypeOK, KeyOf
  <2>6. QED
    BY <2>1, <2>4, <2>5
<1>9. ASSUME req[c].via # "app"
      PROVE  Unspent(e, k) /\ ApprovalsUnspent' /\ NoncesUnspent'
  <2>1. req[c].via = "model" /\ ~ModelClosed(req[c].op)
    BY <1>1, <1>9 DEF WellRequested, Request
  <2>2. e = nonces[k] /\ Unspent(e, k)
    BY <1>1, <1>7, <2>1 DEF OneShot, NoncesUnspent, KeyOf, TypeOK
  <2>3. nonces' = [nonces EXCEPT ![k] = None] /\ approvals' = approvals
    BY <2>1 DEF Consume
  <2>4. \A l \in Key : nonces'[l] # None => nonces'[l] = nonces[l] /\ l # k
    BY <1>1, <2>3 DEF TypeOK
  <2>5. NoncesUnspent'
    BY <1>4, <1>7, <2>2, <2>4, NoneAssumption
       DEF NoncesUnspent, Unspent, ShownFor, ModelClosed, TypeOK
  <2>6. ApprovalsUnspent'
    BY <1>1, <1>4, <1>7, <2>1, <2>2, <2>3
       DEF ApprovalsUnspent, Unspent, ShownFor, ModelClosed, TypeOK, KeyOf
  <2>7. QED
    BY <2>2, <2>5, <2>6
<1>10. Unspent(e, k) /\ ApprovalsUnspent' /\ NoncesUnspent'
  BY <1>8, <1>9
<1>11. OneMutationPerApproval'
  BY <1>7, <1>10 DEF OneMutationPerApproval, Unspent, TypeOK
<1>12. BasisShown'
  <2>1. ShownBefore(e, c)
    BY <1>10 DEF Unspent, ShownFor, ShownBefore, KeyOf
  <2>2. QED
    BY <1>0, <1>7, <2>1 DEF BasisShown, ShownBefore, Shown, TypeOK
<1>13. TagIsTheBasis'
  <2>1. \A d \in Call : Authorized(d)' /\ basis'[d] = None =>
           Authorized(d) /\ basis[d] = None
    BY <1>0, <1>7 DEF Authorized, TypeOK
  <2>2. QED
    BY <1>5, <2>1 DEF TagIsTheBasis
<1>14. QED
  BY <1>2, <1>3, <1>6, <1>10, <1>11, <1>12, <1>13

\* The tag is all that a confirm needs which the model may send: it rests on
\* a preview that put it there.
LEMMA VerifyTagInv ==
    ASSUME IInv, NEW c \in Call, VerifyTag(c), req[c].via # "app"
    PROVE  IInv'
<1> USE DEF IInv, VerifyTag, site, roles, caches
<1>1. /\ req[c] \in Request
      /\ req[c].phase = "confirm"
      /\ req[c].op \in ContentOp
      /\ basis[c] = None /\ c \notin mutated
  BY DEF TypeOK, WellRequested, Staged, Authorized
<1>2. pc' = [pc EXCEPT ![c] = "mutate"]
  BY <1>1, TagThen
<1>3. ~McpApps
  BY <1>1, KindsAssumption DEF WellRequested, Request, ModelClosed
<1>4. TypeOK'
  BY <1>2 DEF TypeOK, Stage, InFlight, KeptFor, KeyOf
<1>5. WellRequested' /\ Staged' /\ Unrecorded'
  BY <1>1, <1>2 DEF TypeOK, WellRequested, Staged, Unrecorded, Authorized, ModelClosed
<1>6. ASSUME NEW p, NEW k, ShownFor(p, k)
      PROVE  ShownFor(p, k)'
  BY <1>2, <1>6 DEF TypeOK, ShownFor, Shown, KeyOf
<1>7. ASSUME NEW p \in Call, NEW o, NEW t, PutBy(p, o, t)
      PROVE  PutBy(p, o, t)'
  BY <1>2, <1>7 DEF TypeOK, PutBy
<1>8. TagsPut'
  BY <1>7 DEF TagsPut
<1>9. OneMutationPerApproval' /\ BasisShown'
  BY <1>2 DEF OneMutationPerApproval, BasisShown, ShownBefore, Shown, TypeOK
<1>10. ApprovalsUnspent' /\ NoncesUnspent'
  BY <1>6 DEF ApprovalsUnspent, NoncesUnspent, Unspent, ModelClosed
<1>11. \E p \in Call : PutBy(p, req[c].op, req[c].tag)
  BY <1>1 DEF TagOn, Carries, TagsPut
<1>12. \A d \in Call : Authorized(d)' => Authorized(d) \/ d = c
  BY <1>2 DEF Authorized, TypeOK
<1>13. TagIsTheBasis'
  BY <1>1, <1>3, <1>7, <1>11, <1>12 DEF TagIsTheBasis
<1>14. QED
  BY <1>4, <1>5, <1>8, <1>9, <1>10, <1>13

\* A preview puts evidence of its own, and is no confirm's basis yet.
LEMMA EstablishInv ==
    ASSUME IInv, NEW c \in Call, Establish(c)
    PROVE  IInv'
<1> USE DEF IInv, Establish, Emit, roles
<1>1. /\ req[c] \in Request
      /\ req[c].phase = "preview"
      /\ KeyOf(c) \in Key
      /\ audit[c] = <<>>
      /\ \A d \in Call : basis[d] # c
  BY DEF TypeOK, WellRequested, Staged, Unrecorded, BasisShown, ShownBefore,
         Shown, KeyOf, Key, Request
<1>2. /\ audit' = [audit EXCEPT ![c] = <<"allowed">>]
      /\ pc' = [pc EXCEPT ![c] = "done"]
      /\ UNCHANGED <<req, basis, mutated, adminCache, role, wasAdmin>>
  BY <1>1 DEF TypeOK
<1>3. /\ \A k \in Key : approvals'[k] = IF ModelClosed(req[c].op) /\ k = KeyOf(c)
                                        THEN c ELSE approvals[k]
      /\ \A k \in Key : nonces'[k] = IF req[c].op \notin ContentOp /\ k = KeyOf(c)
                                     THEN c ELSE nonces[k]
      /\ approvals' \in [Key -> Call \cup {None}]
      /\ nonces' \in [Key -> Call \cup {None}]
  BY <1>1 DEF TypeOK, ApprovalPut, NoncePut
<1>4. TypeOK'
  <2>1. tags' \in [ContentOp -> SUBSET Tag]
    BY <1>1 DEF TypeOK, TagPut, Request
  <2>2. \A k \in Key : (KeptFor(nonces[k], k) /\ KeptFor(approvals[k], k))'
    <3>1. \A p, k : KeptFor(p, k) => KeptFor(p, k)'
      BY <1>2 DEF KeptFor, KeyOf
    <3>2. KeptFor(c, KeyOf(c))
      BY <1>1 DEF KeptFor
    <3>3. \A k \in Key : KeptFor(nonces'[k], k) /\ KeptFor(approvals'[k], k)
      BY <1>3, <3>2 DEF TypeOK
    <3>4. QED
      BY <1>2, <3>3 DEF KeptFor, KeyOf
  <2>3. pc' \in [Call -> Stage] /\ audit' \in [Call -> Seq(Record)]
    BY <1>2 DEF TypeOK, Stage, Record
  <2>4. \A d \in Call : (req'[d] = None) <=> (pc'[d] = "idle")
    BY <1>2 DEF TypeOK
  <2>5. QED
    BY <1>2, <1>3, <2>1, <2>2, <2>3, <2>4 DEF TypeOK, Relabel, Confirming
<1>5. OneMutationPerApproval' /\ WellRequested' /\ Staged' /\ Unrecorded'
  BY <1>1, <1>2 DEF TypeOK, OneMutationPerApproval, WellRequested, Staged,
     Unrecorded, Authorized, ModelClosed
<1>6. ASSUME NEW p, NEW k, ShownFor(p, k)
      PROVE  ShownFor(p, k)'
  BY <1>2, <1>6 DEF TypeOK, ShownFor, Shown, KeyOf
<1>7. Unspent(c, KeyOf(c))'
  BY <1>1, <1>2 DEF TypeOK, Unspent, ShownFor, Shown, KeyOf
<1>8. ApprovalsUnspent'
  <2> SUFFICES ASSUME NEW k \in Key, NEW p \in Call, approvals'[k] = p
               PROVE  ModelClosed(k[2]) /\ Unspent(p, k)'
    BY DEF ApprovalsUnspent, ModelClosed
  <2>1. CASE approvals[k] = p
    BY <1>2, <1>6, <2>1 DEF ApprovalsUnspent, Unspent
  <2>2. CASE approvals[k] # p
    <3>1. p = c /\ k = KeyOf(c) /\ ModelClosed(req[c].op)
      BY <1>3, <2>2
    <3>2. k[2] = req[c].op
      BY <3>1 DEF KeyOf
    <3>3. QED
      BY <1>2, <1>7, <3>1, <3>2 DEF Unspent, ShownFor, Shown, KeyOf
  <2>3. QED
    BY <2>1, <2>2
<1>9. NoncesUnspent'
  <2> SUFFICES ASSUME NEW k \in Key, NEW p \in Call, nonces'[k] = p
               PROVE  ShownFor(p, k)' /\ (~ModelClosed(k[2]) => Unspent(p, k)')
    BY DEF NoncesUnspent, ModelClosed
  <2>1. CASE nonces[k] = p
    BY <1>2, <1>6, <2>1 DEF NoncesUnspent, Unspent
  <2>2. CASE nonces[k] # p
    <3>1. p = c /\ k = KeyOf(c)
      BY <1>3, <2>2
    <3>2. QED
      BY <1>2, <1>7, <3>1 DEF Unspent, ShownFor, Shown, KeyOf
  <2>3. QED
    BY <2>1, <2>2
<1>10. BasisShown'
  BY <1>2 DEF TypeOK, BasisShown, ShownBefore, Shown
<1>11. ASSUME NEW p \in Call, NEW o, NEW t, PutBy(p, o, t)
       PROVE  PutBy(p, o, t)'
  BY <1>2, <1>11 DEF TypeOK, PutBy
<1>12. TagsPut'
  <2>1. PutBy(c, req[c].op, req[c].tag)
    BY <1>1 DEF PutBy
  <2>2. ASSUME NEW o \in ContentOp, NEW t \in tags'[o]
        PROVE  t \in tags[o] \/ (o = req[c].op /\ t = req[c].tag)
    BY <2>2 DEF TypeOK, TagPut
  <2>3. QED
    BY <1>11, <2>1, <2>2 DEF TagsPut
<1>13. TagIsTheBasis'
  BY <1>2, <1>11 DEF TagIsTheBasis, Authorized, TypeOK
<1>14. QED
  BY <1>4, <1>5, <1>8, <1>9, <1>10, <1>12, <1>13

\* A tag may be put by a request that fails for the client.
LEMMA EstablishThrowsInv ==
    ASSUME IInv, NEW c \in Call, EstablishThrows(c)
    PROVE  IInv'
<1> USE DEF IInv, EstablishThrows, EndUnaudited, caches, roles
<1>1. /\ req[c] \in Request
      /\ req[c].phase = "preview"
  BY DEF TypeOK, WellRequested, Staged
<1>2. TypeOK'
  <2>1. TagPut(c) \in [ContentOp -> SUBSET Tag]
    BY <1>1 DEF TypeOK, TagPut, Request
  <2>2. \A k \in Key : (KeptFor(nonces[k], k) /\ KeptFor(approvals[k], k))'
    BY DEF TypeOK, KeptFor, KeyOf
  <2>3. QED
    BY <2>1, <2>2 DEF TypeOK, Stage, Relabel, Confirming
<1>3. OneMutationPerApproval' /\ WellRequested' /\ Staged' /\ Unrecorded'
  BY DEF TypeOK, OneMutationPerApproval, WellRequested, Staged, Unrecorded,
     Authorized, ModelClosed
<1>4. ASSUME NEW p, NEW k, ShownFor(p, k)
      PROVE  ShownFor(p, k)'
  BY <1>4 DEF TypeOK, ShownFor, Shown, KeyOf
<1>5. ApprovalsUnspent' /\ NoncesUnspent' /\ BasisShown'
  BY <1>4 DEF TypeOK, ApprovalsUnspent, NoncesUnspent, Unspent, BasisShown,
     ShownBefore, Shown, ModelClosed
<1>6. ASSUME NEW p \in Call, NEW o, NEW t, PutBy(p, o, t)
      PROVE  PutBy(p, o, t)'
  BY <1>6 DEF TypeOK, PutBy
<1>7. TagsPut'
  <2>1. PutBy(c, req[c].op, req[c].tag)
    BY <1>1 DEF PutBy
  <2>2. ASSUME NEW o \in ContentOp, NEW t \in tags'[o]
        PROVE  t \in tags[o] \/ (o = req[c].op /\ t = req[c].tag)
    BY <2>2 DEF TypeOK, TagPut
  <2>3. QED
    BY <1>6, <2>1, <2>2 DEF TagsPut
<1>8. TagIsTheBasis'
  BY <1>6 DEF TagIsTheBasis, Authorized, TypeOK
<1>9. QED
  BY <1>2, <1>3, <1>5, <1>7, <1>8

\* A restart forgets evidence and ends the calls in flight.
LEMMA RestartInv ==
    ASSUME IInv, Restart
    PROVE  IInv'
<1> USE DEF IInv, Restart
<1>1. /\ \A k \in Key : approvals'[k] = None /\ nonces'[k] = None
      /\ \A c \in mutated' : c \in mutated \/ pc[c] = "mutate"
      /\ \A c \in Call : pc'[c] = IF pc[c] \in InFlight THEN "dead" ELSE pc[c]
  OBVIOUS
<1>2. TypeOK'
  <2>1. pc' \in [Call -> Stage] /\ mutated' \subseteq Call
    BY DEF TypeOK, Stage
  <2>2. \A k \in Key : (KeptFor(nonces[k], k) /\ KeptFor(approvals[k], k))'
    BY <1>1 DEF KeptFor
  <2>3. \A c \in Call : (req'[c] = None) <=> (pc'[c] = "idle")
    BY <1>1 DEF TypeOK, InFlight
  <2>4. /\ adminCache' \in [User -> {"admin", "member", None}]
        /\ nonces' \in [Key -> Call \cup {None}]
        /\ approvals' \in [Key -> Call \cup {None}]
    OBVIOUS
  <2>5. QED
    BY <2>1, <2>2, <2>3, <2>4 DEF TypeOK, roles
<1>3. OneMutationPerApproval' /\ WellRequested' /\ Staged' /\ Unrecorded'
  BY <1>1 DEF TypeOK, OneMutationPerApproval, WellRequested, Staged, Unrecorded,
     Authorized, ModelClosed, InFlight
<1>4. ApprovalsUnspent' /\ NoncesUnspent'
  BY <1>1, NoneAssumption DEF ApprovalsUnspent, NoncesUnspent
<1>5. BasisShown'
  BY <1>1 DEF BasisShown, ShownBefore, Shown, InFlight
<1>6. ASSUME NEW p \in Call, NEW o, NEW t, PutBy(p, o, t)
      PROVE  PutBy(p, o, t)'
  BY <1>1, <1>6 DEF PutBy, InFlight
<1>7. TagsPut'
  BY <1>6 DEF TagsPut
<1>8. \A c \in Call : Authorized(c)' => Authorized(c)
  BY <1>1 DEF Authorized, InFlight
<1>9. TagIsTheBasis'
  BY <1>6, <1>8 DEF TagIsTheBasis
<1>10. QED
  BY <1>2, <1>3, <1>4, <1>5, <1>7, <1>9

-----------------------------------------------------------------------------
\* A call in flight moves on without touching its request or the evidence.
LEMMA MoveTypeOK ==
    ASSUME TypeOK, NEW c \in Call, pc[c] \in InFlight,
           NEW s \in Stage, s # "idle", pc' = [pc EXCEPT ![c] = s],
           \/ UNCHANGED audit
           \/ \E r \in Record : audit' = [audit EXCEPT ![c] = Append(@, r)],
           UNCHANGED <<req, role, tags, nonces, approvals, basis, labelled, wasAdmin>>,
           adminCache' \in [User -> {"admin", "member", None}],
           mutated' \subseteq Call
    PROVE  TypeOK'
<1>1. pc' \in [Call -> Stage]
  BY DEF TypeOK
<1>2. audit' \in [Call -> Seq(Record)]
  <2>1. CASE UNCHANGED audit
    BY <2>1 DEF TypeOK
  <2>2. ASSUME NEW r \in Record, audit' = [audit EXCEPT ![c] = Append(@, r)]
        PROVE  audit' \in [Call -> Seq(Record)]
    <3>1. audit[c] \in Seq(Record)
      BY DEF TypeOK
    <3>2. Append(audit[c], r) \in Seq(Record)
      BY <3>1
    <3>3. QED
      BY <2>2, <3>2 DEF TypeOK
  <2>3. QED
    BY <2>1, <2>2
<1>3. \A d \in Call : (req'[d] = None) <=> (pc'[d] = "idle")
  BY DEF TypeOK, InFlight
<1>4. \A k \in Key : (KeptFor(nonces[k], k) /\ KeptFor(approvals[k], k))'
  BY DEF TypeOK, KeptFor, KeyOf
<1>5. QED
  BY <1>1, <1>2, <1>3, <1>4 DEF TypeOK

LEMMA GuardInv ==
    ASSUME IInv, NEW c \in Call, Guard(c)
    PROVE  IInv'
<1> USE DEF caches, site, roles
<1>t. TypeOK
  BY DEF IInv
<1>q. ASSUME NEW s \in {"denying", "resolve", "tag", "oneshot", "establish", "done"},
             pc[c] \in InFlight,
             pc' = [pc EXCEPT ![c] = s],
             s = "establish" => req[c].phase = "preview",
             s \in {"tag", "oneshot"} => req[c].phase = "confirm",
             s = "tag" => req[c].op \in ContentOp,
             pc[c] \in {"establish", "mutate"} => s = "done",
             \/ UNCHANGED audit
             \/ s = "done" /\ \E r \in Record : audit' = [audit EXCEPT ![c] = Append(@, r)],
             adminCache' \in [User -> {"admin", "member", None}],
             \/ mutated' = mutated
             \/ pc[c] = "mutate" /\ mutated' = mutated \cup {c},
             UNCHANGED <<req, role, wasAdmin, tags, labelled, nonces, approvals, basis>>
      PROVE  IInv'
  <2>1. s \in Stage /\ s \notin {"idle", "mutate", "dead"}
    BY DEF Stage, InFlight
  <2>2. mutated' \subseteq Call
    BY <1>t, <1>q DEF TypeOK
  <2>3. TypeOK'
    BY <1>t, <1>q, <2>1, <2>2, MoveTypeOK
  <2>4. \A d \in Call : d # c \/ s # "done" => audit'[d] = audit[d]
    BY <1>t, <1>q DEF TypeOK
  <2>5. QED
    BY <1>q, <2>1, <2>3, <2>4, MoveInv
<1>e. ASSUME pc[c] \in InFlight, EndUnaudited(c),
             UNCHANGED <<req, role, wasAdmin, tags, labelled, adminCache, nonces,
                         approvals, mutated, basis>>
      PROVE  IInv'
  BY <1>e, <1>q, <1>t DEF EndUnaudited, TypeOK
<1>m. ASSUME pc[c] \in InFlight, NEW r \in Record, Emit(c, r),
             \/ mutated' = mutated
             \/ pc[c] = "mutate" /\ mutated' = mutated \cup {c},
             UNCHANGED <<req, role, wasAdmin, tags, labelled, adminCache, nonces,
                         approvals, basis>>
      PROVE  IInv'
  BY <1>m, <1>q, <1>t DEF Emit, TypeOK
<1>1. CASE TurnedAway(c)
  BY <1>1, <1>e DEF TurnedAway, InFlight
<1>2. CASE AssertAdmin(c)
  <2>1. req[c] \in Request
    BY <1>2, <1>t DEF AssertAdmin, IInv, WellRequested
  <2>a. req[c].user \in User
    BY <2>1 DEF Request
  <2>2. adminCache' \in [User -> {"admin", "member", None}]
    BY <1>2, <1>t, <2>a DEF AssertAdmin, TypeOK
  <2>3. \E s \in {"denying", "resolve"} : pc' = [pc EXCEPT ![c] = s]
    BY <1>2 DEF AssertAdmin, AfterGate
  <2>4. QED
    BY <1>2, <1>q, <2>2, <2>3 DEF AssertAdmin, InFlight
<1>3. CASE AssertAdminThrows(c)
  BY <1>3, <1>e DEF AssertAdminThrows, InFlight
<1>4. CASE DenyNonAdmin(c)
  BY <1>4, <1>m DEF DenyNonAdmin, InFlight, Record
<1>5. CASE Resolve(c)
  <2>1. req[c] \in Request
    BY <1>5, <1>t DEF Resolve, IInv, WellRequested
  <2>2. req[c].phase \in {"preview", "confirm"}
    BY <2>1 DEF Request
  <2>3. CASE req[c].phase = "confirm"
    <3>1. CASE req[c].op \in ContentOp
      <4>1. pc' = [pc EXCEPT ![c] = "tag"]
        BY <1>5, <2>3, <3>1, FirstCheck DEF Resolve
      <4>2. QED
        BY <1>5, <1>q, <1>t, <2>3, <3>1, <4>1 DEF Resolve, InFlight, TypeOK
    <3>2. CASE req[c].op \notin ContentOp
      <4>1. pc' = [pc EXCEPT ![c] = "oneshot"]
        BY <1>5, <2>3, <3>2, FirstCheck DEF Resolve
      <4>2. QED
        BY <1>5, <1>q, <1>t, <2>3, <4>1 DEF Resolve, InFlight, TypeOK
    <3>3. QED
      BY <3>1, <3>2
  <2>4. CASE req[c].phase = "preview"
    BY <1>5, <1>q, <1>t, <2>4 DEF Resolve, InFlight, TypeOK
  <2>5. QED
    BY <2>2, <2>3, <2>4
<1>6. CASE ResolveThrows(c)
  BY <1>6, <1>e DEF ResolveThrows, InFlight
<1>7. CASE VerifyTag(c)
  <2>1. CASE req[c].via # "app"
    BY <1>7, <2>1, VerifyTagInv
  <2>2. CASE req[c].via = "app"
    <3>1. req[c].phase = "confirm" /\ req[c].op \in ContentOp
      BY <1>7 DEF VerifyTag, IInv, Staged
    <3>2. pc' = [pc EXCEPT ![c] = "oneshot"]
      BY <1>7, <2>2, <3>1, TagThen DEF VerifyTag
    <3>3. QED
      BY <1>7, <1>q, <1>t, <3>1, <3>2 DEF VerifyTag, InFlight, TypeOK
  <2>3. QED
    BY <2>1, <2>2
<1>15. CASE VerifyOneShot(c)
  BY <1>15, VerifyOneShotInv
<1>8. CASE Reject(c)
  BY <1>8, <1>m DEF Reject, InFlight, Record
<1>9. CASE VerifyThrows(c)
  BY <1>9, <1>e DEF VerifyThrows, InFlight
<1>10. CASE Establish(c)
  BY <1>10, EstablishInv
<1>11. CASE EstablishThrows(c)
  BY <1>11, EstablishThrowsInv
<1>12. CASE MutationAnswers(c)
  BY <1>12, <1>m DEF MutationAnswers, InFlight, Record
<1>13. CASE MutationFails(c)
  BY <1>13, <1>m DEF MutationFails, InFlight, Record
<1>14. QED
  BY <1>1, <1>2, <1>3, <1>4, <1>5, <1>6, <1>7, <1>8, <1>9, <1>10, <1>11, <1>12,
     <1>13, <1>15 DEF Guard

\* The ways a call arrives.
LEMMA ArriveInv ==
    ASSUME IInv, NEW c \in Call, Arrive(c)
    PROVE  IInv'
<1>1. ASSUME NEW u \in User, NEW op \in Op, NEW tag \in TagsFor(op),
             \/ Preview(c, u, op, tag)
             \/ ConfirmDirectly(c, u, op, tag)
             \/ \E from \in TokensFor(op) : ConfirmByModel(c, u, op, tag, from)
      PROVE  IInv'
  <2>1. tag \in Tag
    BY TagAssumption DEF TagsFor
  <2>2. CASE Preview(c, u, op, tag)
    BY <2>1, <2>2, BeginInv DEF Preview, Request
  <2>3. CASE ConfirmDirectly(c, u, op, tag)
    BY <2>1, <2>3, BeginInv DEF ConfirmDirectly, Request
  <2>4. ASSUME NEW from \in TokensFor(op), ConfirmByModel(c, u, op, tag, from)
        PROVE  IInv'
    BY <2>1, <2>4, BeginInv DEF ConfirmByModel, Request, TokensFor
  <2>5. QED
    BY <1>1, <2>2, <2>3, <2>4
<1>2. ASSUME NEW p \in Call, ConfirmInPanel(c, p)
      PROVE  IInv'
  <2>1. req[p] \in Request
    BY <1>2 DEF ConfirmInPanel, Panel, Shown, IInv, WellRequested
  <2>2. req[p].user \in User /\ req[p].op \in Op
    BY <2>1 DEF Request
  <2>3. QED
    BY <1>2, <2>2, TagAssumption, BeginInv DEF ConfirmInPanel, Panel, Request
<1>3. QED
  BY <1>1, <1>2 DEF Arrive

LEMMA SurroundingsInv ==
    ASSUME IInv, Surroundings
    PROVE  IInv'
<1> USE DEF caches, site, roles
<1>t. TypeOK
  BY DEF IInv
<1>1. ASSUME NEW k \in Key, NonceExpires(k) \/ ApprovalExpires(k)
      PROVE  IInv'
  <2>1. TypeOK'
    BY <1>1, <1>t DEF NonceExpires, ApprovalExpires, TypeOK, KeptFor, KeyOf
  <2>2. QED
    BY <1>1, <1>t, <2>1, LossInv DEF NonceExpires, ApprovalExpires, TypeOK
<1>2. ASSUME NEW u \in User, RoleExpires(u) \/ RoleChanges(u)
      PROVE  IInv'
  <2>1. TypeOK'
    <3>1. CASE RoleExpires(u)
      BY <1>t, <3>1 DEF RoleExpires, TypeOK, KeptFor, KeyOf
    <3>2. CASE RoleChanges(u)
      BY <1>t, <3>2 DEF RoleChanges, TypeOK, KeptFor, KeyOf
    <3>3. QED
      BY <1>2, <3>1, <3>2
  <2>2. UNCHANGED <<approvals, nonces, tags, pc, req, audit, mutated, basis>>
    BY <1>2 DEF RoleExpires, RoleChanges
  <2>3. tags \in [ContentOp -> SUBSET Tag]
    BY <1>t DEF TypeOK
  <2>4. QED
    BY <2>1, <2>2, <2>3, LossInv
<1>3. ASSUME NEW op \in ContentOp, NEW tag \in Tag, OwnerUntags(op, tag)
      PROVE  IInv'
  <2>1. TypeOK'
    BY <1>3, <1>t DEF OwnerUntags, TypeOK, KeptFor, KeyOf
  <2>2. QED
    BY <1>3, <1>t, <2>1, LossInv DEF OwnerUntags, TypeOK
<1>4. CASE Restart
  BY <1>4, RestartInv
<1>5. QED
  BY <1>1, <1>2, <1>3, <1>4 DEF Surroundings

LEMMA StutterInv ==
    ASSUME IInv, UNCHANGED vars
    PROVE  IInv'
<1>1. TypeOK'
  BY DEF IInv, vars, roles, TypeOK, KeptFor, KeyOf
<1>2. QED
  BY <1>1, LossInv DEF vars, IInv, TypeOK

LEMMA StepInv == IInv /\ [Next]_vars => IInv'
BY ArriveInv, GuardInv, SurroundingsInv, StutterInv DEF Next

LEMMA InvHolds == Spec => []IInv
BY InitInv, StepInv, PTL DEF Spec

-----------------------------------------------------------------------------
(* The safety properties.                                                   *)

\* The state keeps its types, and every cached piece of evidence stands under
\* the key of the preview that put it there (nonceKey, approvalKey).
THEOREM TypeCorrect == Spec => []TypeOK
BY InvHolds, PTL DEF IInv

\* At most one mutation per approval, for any number of overlapping calls of
\* any number of users.
THEOREM ApprovedOnce == Spec => []OneMutationPerApproval
BY InvHolds, PTL DEF IInv

\* No confirm gets past the gate without a preview of its own operation.
THEOREM AlwaysPreviewed == Spec => []NothingUnpreviewed
<1>1. IInv => NothingUnpreviewed
  BY DEF IInv, TypeOK, NothingUnpreviewed, BasisShown, TagIsTheBasis
<1>2. QED
  BY <1>1, InvHolds, PTL

\* A step of one call leaves the stage of the others alone, except a restart.
LEMMA OthersStay ==
    ASSUME IInv, NEW c \in Call, NEW d \in Call, c # d, Arrive(d) \/ Guard(d)
    PROVE  pc'[c] = pc[c]
<1>1. CASE Arrive(d)
  BY <1>1, ArriveFacts DEF IInv, TypeOK
<1>2. CASE Guard(d)
  BY <1>2 DEF Guard, TurnedAway, AssertAdmin, AssertAdminThrows, DenyNonAdmin,
     Resolve, ResolveThrows, VerifyTag, VerifyOneShot, Reject, VerifyThrows, Establish,
     EstablishThrows, MutationAnswers, MutationFails, Emit, EndUnaudited, IInv,
     TypeOK
<1>3. QED
  BY <1>1, <1>2

\* What is known of the labels: a confirm under way has met the one on its
\* target, and one that is past its tag has met it.
LabelSeen ==
    /\ \A c \in Confirming : Carries(req[c], tags) => c \in labelled
    /\ \A c \in Call : pc[c] = "oneshot" /\ req[c].op \in ContentOp => c \in labelled

\* Calls that stay where they are keep what is known of them.
LEMMA LabelKept ==
    ASSUME LabelSeen, ObjectionsHold, labelled \subseteq labelled',
           UNCHANGED req,
           \A c \in Confirming' : Carries(req[c], tags') => c \in labelled',
           \A c \in Call : /\ pc'[c] = "oneshot" => \/ pc[c] = "oneshot"
                                                    \/ req[c].op \notin ContentOp
                                                    \/ c \in labelled'
                           /\ Authorized(c)' => \/ Authorized(c)
                                                \/ req[c].op \notin ContentOp
                                                \/ c \in labelled'
    PROVE  LabelSeen' /\ ObjectionsHold'
<1>1. LabelSeen'
  BY DEF LabelSeen, Carries
<1>2. ObjectionsHold'
  BY DEF ObjectionsHold
<1>3. QED
  BY <1>1, <1>2

LEMMA LabelArrive ==
    ASSUME IInv, LabelSeen, ObjectionsHold, NEW c \in Call, Arrive(c)
    PROVE  LabelSeen' /\ ObjectionsHold'
<1>1. PICK r : Begin(c, r)
  BY ArriveBegins
<1>2. /\ pc[c] = "idle" /\ pc' = [pc EXCEPT ![c] = "open"]
      /\ req' = [req EXCEPT ![c] = r]
      /\ UNCHANGED <<tags, mutated, basis>>
  BY <1>1 DEF Begin
<1>3. req'[c] = r /\ pc'[c] = "open" /\ \A d \in Call : d # c => req'[d] = req[d] /\ pc'[d] = pc[d]
  BY <1>2 DEF IInv, TypeOK
<1>4. labelled \subseteq labelled' /\ (r.phase = "confirm" /\ Carries(r, tags) => c \in labelled')
  BY <1>1 DEF Begin
<1>5. ~Authorized(c)'
  BY <1>2, <1>3 DEF Authorized, IInv, Staged
<1>6. LabelSeen'
  <2>1. ASSUME NEW d \in Confirming', Carries(req[d], tags)' PROVE d \in labelled'
    BY <1>2, <1>3, <1>4, <2>1 DEF LabelSeen, Confirming, Carries
  <2>2. QED
    BY <1>3, <1>4, <2>1 DEF LabelSeen, Carries
<1>7. ObjectionsHold'
  <2> SUFFICES ASSUME NEW d \in Call, Authorized(d)', req'[d].op \in ContentOp
               PROVE  d \in labelled'
    BY DEF ObjectionsHold
  <2>1. d # c /\ Authorized(d)
    BY <1>2, <1>3, <1>5 DEF Authorized
  <2>2. QED
    BY <1>3, <1>4, <2>1 DEF ObjectionsHold
<1>8. QED
  BY <1>6, <1>7

LEMMA LabelGuard ==
    ASSUME IInv, LabelSeen, ObjectionsHold, NEW c \in Call, Guard(c)
    PROVE  LabelSeen' /\ ObjectionsHold'
<1>0. UNCHANGED req /\ pc[c] \in InFlight
  BY DEF Guard, TurnedAway, AssertAdmin, AssertAdminThrows, DenyNonAdmin,
     Resolve, ResolveThrows, VerifyTag, VerifyOneShot, Reject, VerifyThrows, Establish,
     EstablishThrows, MutationAnswers, MutationFails, InFlight
<1>1. \A d \in Call : d # c => pc'[d] = pc[d] /\ (Authorized(d)' <=> Authorized(d))
  BY DEF Guard, TurnedAway, AssertAdmin, AssertAdminThrows, DenyNonAdmin,
     Resolve, ResolveThrows, VerifyTag, VerifyOneShot, Reject, VerifyThrows, Establish,
     EstablishThrows, MutationAnswers, MutationFails, Emit, EndUnaudited,
     Authorized, IInv, TypeOK, site, roles
<1>2. /\ labelled \subseteq labelled'
      /\ \A d \in Confirming : Carries(req[d], tags') => d \in labelled'
  <2>1. CASE Establish(c) \/ EstablishThrows(c)
    BY <2>1 DEF Establish, EstablishThrows, Relabel
  <2>2. CASE ~(Establish(c) \/ EstablishThrows(c))
    <3>1. UNCHANGED <<tags, labelled>>
      BY <2>2 DEF Guard, TurnedAway, AssertAdmin, AssertAdminThrows, DenyNonAdmin,
         Resolve, ResolveThrows, VerifyTag, VerifyOneShot, Reject, VerifyThrows,
         MutationAnswers, MutationFails, site
    <3>2. QED
      BY <3>1 DEF LabelSeen
  <2>3. QED
    BY <2>1, <2>2
<1>3. \A d \in Confirming' : Carries(req[d], tags') => d \in labelled'
  <2>1. \A d \in Confirming' : d \in Confirming
    BY <1>0, <1>1 DEF Confirming
  <2>2. QED
    BY <1>2, <2>1
<1>4. /\ pc'[c] = "oneshot" => req[c].op \notin ContentOp \/ c \in labelled'
      /\ Authorized(c)' => Authorized(c) \/ req[c].op \notin ContentOp \/ c \in labelled'
  <2>1. CASE VerifyTag(c)
    <3>1. c \in Confirming
      BY <1>0, <2>1 DEF VerifyTag, Confirming, IInv, Staged
    <3>2. c \in labelled'
      BY <1>2, <2>1, <3>1 DEF VerifyTag, TagOn, LabelSeen
    <3>3. QED
      BY <3>2
  <2>2. CASE VerifyOneShot(c)
    BY <1>2, <2>2, OneShotIsLast DEF VerifyOneShot, LabelSeen, IInv, TypeOK
  <2>3. CASE Resolve(c)
    BY <2>3, FirstCheck DEF Resolve, Authorized, IInv, TypeOK, Staged, site
  <2>4. CASE ~VerifyTag(c) /\ ~VerifyOneShot(c) /\ ~Resolve(c)
    <3>1. pc'[c] \in {"denying", "resolve", "done"} /\ UNCHANGED basis
      BY <2>4 DEF Guard, TurnedAway, AssertAdmin, AssertAdminThrows, DenyNonAdmin,
         ResolveThrows, Reject, VerifyThrows, Establish, EstablishThrows,
         MutationAnswers, MutationFails, Emit, EndUnaudited, AfterGate, IInv, TypeOK
    <3>2. c \in mutated' => c \in mutated \/ pc[c] = "mutate"
      BY <2>4 DEF Guard, TurnedAway, AssertAdmin, AssertAdminThrows, DenyNonAdmin,
         ResolveThrows, Reject, VerifyThrows, Establish, EstablishThrows,
         MutationAnswers, MutationFails, site
    <3>3. QED
      BY <3>1, <3>2 DEF Authorized
  <2>5. QED
    BY <2>1, <2>2, <2>3, <2>4
<1>5. QED
  BY <1>0, <1>1, <1>2, <1>3, <1>4, LabelKept

LEMMA LabelStep ==
    ASSUME IInv, LabelSeen, ObjectionsHold, [Next]_vars
    PROVE  LabelSeen' /\ ObjectionsHold'
<1>1. CASE UNCHANGED vars
  <2>1. \A c \in Call : Authorized(c)' <=> Authorized(c)
    BY <1>1 DEF vars, Authorized
  <2>2. \A c \in Confirming' : Carries(req[c], tags') => c \in labelled'
    BY <1>1 DEF vars, Confirming, LabelSeen
  <2>3. QED
    BY <1>1, <2>1, <2>2, LabelKept DEF vars
<1>2. CASE Surroundings
  <2>1. /\ UNCHANGED <<req, labelled, basis>>
        /\ \A o \in ContentOp : tags'[o] \subseteq tags[o]
    BY <1>2 DEF Surroundings, NonceExpires, ApprovalExpires, RoleExpires, RoleChanges,
       OwnerUntags, Restart, site, roles, IInv, TypeOK
  <2>2. \A c \in Call : /\ pc'[c] \in {pc[c], "dead"}
                        /\ c \in mutated' => c \in mutated \/ pc[c] = "mutate"
    BY <1>2 DEF Surroundings, NonceExpires, ApprovalExpires, RoleExpires, RoleChanges,
       OwnerUntags, Restart, site, InFlight, IInv, TypeOK
  <2>3. \A c \in Confirming' : c \in Confirming
    BY <2>1, <2>2 DEF Confirming, InFlight
  <2>4. \A c \in Confirming' : Carries(req[c], tags') => c \in labelled'
    BY <2>1, <2>3 DEF LabelSeen, Carries
  <2>5. QED
    BY <2>1, <2>2, <2>4, LabelKept DEF Authorized
<1>3. QED
  BY <1>1, <1>2, LabelArrive, LabelGuard DEF Next

\* The owner's objection holds: content is mutated only if the label was on it
\* at some moment after the confirm began, for any number of overlapping
\* previews and confirms (evidence.ts:87-102).
THEOREM ObjectionsAreHeard == Spec => []ObjectionsHold
<1>1. Init => LabelSeen /\ ObjectionsHold
  BY NoneAssumption DEF Init, LabelSeen, Confirming, InFlight, ObjectionsHold, Authorized
<1>2. IInv /\ LabelSeen /\ ObjectionsHold /\ [Next]_vars => LabelSeen' /\ ObjectionsHold'
  BY LabelStep
<1>3. QED
  BY <1>1, <1>2, InvHolds, PTL DEF Spec

\* A confirm that holds one-shot evidence is past all checks, so that only the
\* mutation and a stop of the server can end it.
LEMMA WasteStep ==
    ASSUME IInv, NothingWasted, [Next]_vars
    PROVE  NothingWasted'
<1> USE DEF NothingWasted
<1>1. ASSUME UNCHANGED basis,
             \A c \in Call : basis[c] # None =>
                 \/ pc'[c] = pc[c] /\ audit'[c] = audit[c]
                 \/ pc'[c] = "dead"
      PROVE  NothingWasted'
  BY <1>1
<1>2. CASE UNCHANGED vars
  BY <1>1, <1>2 DEF vars
<1>3. CASE Surroundings
  BY <1>1, <1>3 DEF Surroundings, NonceExpires, ApprovalExpires, RoleExpires, RoleChanges,
     OwnerUntags, Restart, InFlight, IInv, TypeOK
<1>4. ASSUME NEW c \in Call, Arrive(c)
      PROVE  NothingWasted'
  <2>1. /\ pc[c] = "idle" /\ pc' = [pc EXCEPT ![c] = "open"]
        /\ UNCHANGED <<audit, basis>>
    BY <1>4, ArriveFacts
  <2>2. basis[c] = None
    BY <2>1
  <2>3. QED
    BY <1>1, <2>1, <2>2 DEF IInv, TypeOK
<1>5. ASSUME NEW c \in Call, Guard(c)
      PROVE  NothingWasted'
  <2>1. \A d \in Call : d # c => pc'[d] = pc[d] /\ audit'[d] = audit[d] /\ basis'[d] = basis[d]
    BY <1>5 DEF Guard, TurnedAway, AssertAdmin, AssertAdminThrows, DenyNonAdmin,
       Resolve, ResolveThrows, VerifyTag, VerifyOneShot, Reject, VerifyThrows, Establish,
       EstablishThrows, MutationAnswers, MutationFails, Emit, EndUnaudited, IInv, TypeOK
  <2>2. CASE VerifyOneShot(c)
    <3>1. pc'[c] = "mutate"
      BY <2>2, OneShotIsLast DEF VerifyOneShot, IInv, TypeOK
    <3>2. QED
      BY <2>1, <3>1
  <2>3. CASE MutationAnswers(c) \/ MutationFails(c)
    <3>1. PICK r \in {"completed", "failed"} : Emit(c, r)
      BY <2>3 DEF MutationAnswers, MutationFails
    <3>2. audit[c] = <<>> /\ pc[c] # "done"
      BY <2>3 DEF MutationAnswers, MutationFails, IInv, Unrecorded
    <3>3. pc'[c] = "done" /\ audit'[c] = <<r>>
      BY <3>1, <3>2 DEF Emit, IInv, TypeOK
    <3>4. audit'[c] \in {<<"completed">>, <<"failed">>}
      <4>1. CASE r = "completed"
        BY <3>3, <4>1, Zenon
      <4>2. CASE r = "failed"
        BY <3>3, <4>2, Zenon
      <4>3. QED
        BY <4>1, <4>2
    <3>5. QED
      BY <2>1, <3>3, <3>4
  <2>4. CASE ~VerifyOneShot(c) /\ ~MutationAnswers(c) /\ ~MutationFails(c)
    <3>1. pc[c] \in InFlight \ {"mutate"} /\ UNCHANGED basis
      BY <1>5, <2>4 DEF Guard, TurnedAway, AssertAdmin, AssertAdminThrows, DenyNonAdmin,
         Resolve, ResolveThrows, VerifyTag, Reject, VerifyThrows, Establish,
         EstablishThrows, InFlight
    <3>2. basis[c] = None
      BY <3>1 DEF InFlight
    <3>3. QED
      BY <1>1, <2>1, <3>1, <3>2
  <2>5. QED
    BY <2>2, <2>3, <2>4
<1>6. QED
  BY <1>2, <1>3, <1>4, <1>5 DEF Next

\* No approval and no nonce is used up by a confirm that the gate turns away or
\* that fails at it, for any number of overlapping calls (evidence.ts:281-313).
THEOREM ApprovalsAreNotWasted == Spec => []NothingWasted
<1>1. Init => NothingWasted
  BY DEF Init, NothingWasted
<1>2. IInv /\ NothingWasted /\ [Next]_vars => NothingWasted'
  BY WasteStep
<1>3. QED
  BY <1>1, <1>2, InvHolds, PTL DEF Spec

\* Both hold of the gate (mutationGuard.ts:160-213, evidence.ts:281-313).
THEOREM SoundGate == Spec => []GateIsSound
BY ObjectionsAreHeard, ApprovalsAreNotWasted, PTL DEF GateIsSound

-----------------------------------------------------------------------------
\* What is mutated is accounted for: a call that has no record yet adds one
\* record when it ends past the gate, and none goes past it after it ended.
LEMMA AuditStep ==
    ASSUME IInv, MutationsAreAudited, [Next]_vars
    PROVE  MutationsAreAudited'
<1> USE DEF IInv, MutationsAreAudited
<1>1. ASSUME UNCHANGED <<audit, mutated>>,
             \A c \in Call : pc'[c] = "done" /\ c \in mutated => pc[c] = "done"
      PROVE  MutationsAreAudited'
  BY <1>1
<1>2. ASSUME NEW c \in Call, NEW r \in Record, pc[c] \in InFlight, Emit(c, r),
             \/ r \in {"denied", "allowed"} /\ mutated' = mutated /\ pc[c] # "mutate"
             \/ r \in {"completed", "failed"} /\ mutated' \in {mutated, mutated \cup {c}},
             r = "completed" => c \in mutated'
      PROVE  MutationsAreAudited'
  <2>1. audit[c] = <<>> /\ (pc[c] # "mutate" => c \notin mutated)
    BY <1>2 DEF Unrecorded, Staged, Authorized, InFlight
  <2>2. audit' = [audit EXCEPT ![c] = <<r>>] /\ pc' = [pc EXCEPT ![c] = "done"]
    BY <1>2, <2>1 DEF Emit, TypeOK
  <2>3. ASSUME NEW d \in Call, d # c
        PROVE  audit'[d] = audit[d] /\ pc'[d] = pc[d] /\ (d \in mutated' <=> d \in mutated)
    BY <1>2, <2>2, <2>3 DEF TypeOK
  <2>4. audit'[c] = <<r>> /\ pc'[c] = "done"
    BY <2>2 DEF TypeOK
  <2>5. ASSUME NEW d \in Call
        PROVE  /\ d \in mutated' /\ pc'[d] = "done" =>
                      audit'[d] \in {<<"completed">>, <<"failed">>}
               /\ audit'[d] = <<"completed">> => d \in mutated'
               /\ Len(audit'[d]) <= 1
    <3>1. CASE d # c
      BY <2>3, <3>1
    <3>2. CASE d = c
      <4>1. Len(<<r>>) <= 1 /\ (<<r>> = <<"completed">> => r = "completed")
        OBVIOUS
      <4>2. c \in mutated' => r = "completed" \/ r = "failed"
        BY <1>2, <2>1
      <4>3. c \in mutated' => <<r>> \in {<<"completed">>, <<"failed">>}
        BY <4>2, Zenon
      <4>4. <<r>> = <<"completed">> => c \in mutated'
        BY <1>2, <4>1, Zenon
      <4>5. QED
        BY <2>4, <3>2, <4>1, <4>3, <4>4, Zenon
    <3>3. QED
      BY <3>1, <3>2
  <2>6. QED
    BY <2>5
<1>3. ASSUME NEW c \in Call, pc[c] \in InFlight, EndUnaudited(c), mutated' = mutated,
             pc[c] # "mutate"
      PROVE  MutationsAreAudited'
  <2>1. c \notin mutated
    BY <1>3 DEF Staged, Authorized, InFlight
  <2>2. QED
    BY <1>1, <1>3, <2>1 DEF EndUnaudited, TypeOK
<1>4. CASE UNCHANGED vars
  BY <1>1, <1>4 DEF vars
<1>5. ASSUME NEW c \in Call, Arrive(c)
      PROVE  MutationsAreAudited'
  BY <1>1, <1>5, ArriveFacts DEF TypeOK
<1>6. ASSUME NEW c \in Call, Guard(c)
      PROVE  MutationsAreAudited'
  <2>1. CASE AssertAdmin(c) \/ Resolve(c) \/ VerifyTag(c) \/ VerifyOneShot(c)
    <3>1. \E s \in Stage \ {"done"} : pc' = [pc EXCEPT ![c] = s]
      BY <2>1, GoesOn DEF AssertAdmin, AfterGate, Resolve, VerifyTag, VerifyOneShot,
         Stage, InFlight
    <3>2. QED
      BY <1>1, <2>1, <3>1 DEF AssertAdmin, Resolve, VerifyTag, VerifyOneShot, site, TypeOK
  <2>2. CASE TurnedAway(c) \/ AssertAdminThrows(c) \/ ResolveThrows(c) \/ VerifyThrows(c)
             \/ EstablishThrows(c)
    BY <1>3, <2>2 DEF TurnedAway, AssertAdminThrows, ResolveThrows, VerifyThrows,
       EstablishThrows, InFlight, site
  <2>3. CASE DenyNonAdmin(c) \/ Reject(c) \/ Establish(c)
    BY <1>2, <2>3 DEF DenyNonAdmin, Reject, Establish, InFlight, Record, site
  <2>4. CASE MutationAnswers(c) \/ MutationFails(c)
    BY <1>2, <2>4 DEF MutationAnswers, MutationFails, InFlight, Record
  <2>5. QED
    BY <1>6, <2>1, <2>2, <2>3, <2>4 DEF Guard
<1>7. CASE Surroundings
  <2>1. CASE Restart
    <3>1. \A c \in mutated' : c \in mutated \/ pc'[c] = "dead"
      BY <2>1 DEF Restart, InFlight, TypeOK
    <3>2. audit' = audit /\ mutated \subseteq mutated'
          /\ \A c \in Call : pc'[c] = "done" => pc[c] = "done"
      BY <2>1 DEF Restart, InFlight, TypeOK
    <3>3. QED
      BY <3>1, <3>2
  <2>2. CASE ~Restart
    BY <1>1, <1>7, <2>2 DEF Surroundings, NonceExpires, ApprovalExpires, RoleExpires,
       RoleChanges, OwnerUntags, site
  <2>3. QED
    BY <2>1, <2>2
<1>8. QED
  BY <1>4, <1>5, <1>6, <1>7 DEF Next

\* Every mutation that was authorized is recorded as completed or as failed,
\* unless the server stops.
THEOREM EveryMutationAudited == Spec => []MutationsAreAudited
<1>1. Init => MutationsAreAudited
  <2>1. <<>> # <<"completed">> /\ Len(<<>>) <= 1
    OBVIOUS
  <2>2. ASSUME Init, NEW c \in Call
        PROVE  audit[c] = <<>> /\ c \notin mutated
    BY <2>2 DEF Init
  <2>3. QED
    <3> SUFFICES ASSUME Init, NEW c \in Call
                 PROVE  /\ c \notin mutated
                        /\ audit[c] # <<"completed">>
                        /\ Len(audit[c]) <= 1
      BY DEF MutationsAreAudited
    <3>1. c \notin mutated /\ audit[c] = <<>>
      BY <2>2
    <3>2. QED
      BY <2>1, <3>1, Zenon
<1>2. IInv /\ MutationsAreAudited /\ [Next]_vars => MutationsAreAudited'
  BY AuditStep
<1>3. QED
  BY <1>1, <1>2, InvHolds, PTL DEF Spec

\* A role is only cached for the user who has it in Tableau at that moment.
RolesKnown ==
    \A u \in User : "admin" \in {role[u], adminCache[u]} => u \in wasAdmin

LEMMA RoleStep ==
    ASSUME IInv, NonAdminsNeverPass, RolesKnown, [Next]_vars
    PROVE  NonAdminsNeverPass' /\ RolesKnown'
<1> USE DEF IInv, NonAdminsNeverPass, RolesKnown, roles, caches, site
<1>1. ASSUME UNCHANGED <<role, adminCache, wasAdmin>>
      PROVE  RolesKnown'
  BY <1>1
<1>2. ASSUME NEW c \in Call,
             UNCHANGED wasAdmin,
             \A d \in Call : d # c =>
                 (Authorized(d)' <=> Authorized(d)) /\ pc'[d] = pc[d] /\ req'[d] = req[d],
             pc'[c] \in PastTheGate \/ Authorized(c)' => req'[c].user \in wasAdmin
      PROVE  NonAdminsNeverPass'
  BY <1>2
<1>3. CASE UNCHANGED vars
  BY <1>3 DEF vars, Authorized
<1>4. ASSUME NEW c \in Call, Arrive(c)
      PROVE  NonAdminsNeverPass' /\ RolesKnown'
  <2>1. /\ UNCHANGED <<role, adminCache, wasAdmin, mutated, basis>>
        /\ pc[c] = "idle" /\ pc' = [pc EXCEPT ![c] = "open"]
        /\ \E r : req' = [req EXCEPT ![c] = r]
    BY <1>4, ArriveFacts
  <2>2. ~Authorized(c)' /\ pc'[c] \notin PastTheGate
    BY <2>1 DEF Authorized, Staged, PastTheGate, TypeOK
  <2>3. \A d \in Call : d # c =>
            (Authorized(d)' <=> Authorized(d)) /\ pc'[d] = pc[d] /\ req'[d] = req[d]
    BY <2>1 DEF Authorized, TypeOK
  <2>4. QED
    BY <1>1, <1>2, <2>1, <2>2, <2>3
<1>5. ASSUME NEW c \in Call, Guard(c)
      PROVE  NonAdminsNeverPass' /\ RolesKnown'
  <2>1. /\ UNCHANGED <<role, wasAdmin, req>>
        /\ \A d \in Call : d # c => (Authorized(d)' <=> Authorized(d)) /\ pc'[d] = pc[d]
    BY <1>5 DEF Guard, TurnedAway, AssertAdmin, AssertAdminThrows, DenyNonAdmin,
       Resolve, ResolveThrows, VerifyTag, VerifyOneShot, Reject, VerifyThrows, Establish,
       EstablishThrows, MutationAnswers, MutationFails, Emit, EndUnaudited,
       Authorized, TypeOK
  <2>2. CASE AssertAdmin(c)
    <3>1. req[c].user \in User
      BY <2>2 DEF AssertAdmin, WellRequested, Request
    <3>2. RolesKnown'
      BY <2>2, <3>1, NoneAssumption DEF AssertAdmin, TypeOK
    <3>3. ~Authorized(c)'
      BY <2>2 DEF AssertAdmin, AfterGate, Authorized, Staged, TypeOK
    <3>4. pc'[c] \in PastTheGate => req[c].user \in wasAdmin
      BY <2>2, <3>1 DEF AssertAdmin, AfterGate, CachedRole, PastTheGate, TypeOK
    <3>5. QED
      BY <1>2, <2>1, <3>2, <3>3, <3>4
  <2>3. CASE ~AssertAdmin(c)
    <3>1. UNCHANGED adminCache
      BY <1>5, <2>3 DEF Guard, TurnedAway, AssertAdminThrows, DenyNonAdmin,
         Resolve, ResolveThrows, VerifyTag, VerifyOneShot, Reject, VerifyThrows, Establish,
         EstablishThrows, MutationAnswers, MutationFails
    <3>2. pc'[c] \in PastTheGate \/ Authorized(c)' => pc[c] \in PastTheGate \/ Authorized(c)
      BY <1>5, <2>3 DEF Guard, TurnedAway, AssertAdminThrows, DenyNonAdmin,
         Resolve, ResolveThrows, VerifyTag, VerifyOneShot, Reject, VerifyThrows, Establish,
         EstablishThrows, MutationAnswers, MutationFails, Emit, EndUnaudited,
         Authorized, PastTheGate, TypeOK
    <3>3. QED
      BY <1>1, <1>2, <2>1, <3>1, <3>2
  <2>4. QED
    BY <2>2, <2>3
<1>6. CASE Surroundings
  <2>1. \A c \in Call : pc'[c] \in PastTheGate \/ Authorized(c)' =>
            (pc[c] \in PastTheGate \/ Authorized(c)) /\ req'[c] = req[c]
    BY <1>6 DEF Surroundings, NonceExpires, ApprovalExpires, RoleExpires, RoleChanges,
       OwnerUntags, Restart, Authorized, PastTheGate, InFlight
  <2>2. wasAdmin \subseteq wasAdmin'
    BY <1>6 DEF Surroundings, NonceExpires, ApprovalExpires, RoleExpires, RoleChanges,
       OwnerUntags, Restart
  <2>3. RolesKnown'
    <3>1. CASE \E u \in User : RoleChanges(u)
      BY <3>1 DEF RoleChanges, TypeOK
    <3>2. CASE Restart
      BY <3>2, NoneAssumption DEF Restart
    <3>3. ASSUME NEW u \in User, RoleExpires(u)
          PROVE  RolesKnown'
      BY <3>3, NoneAssumption DEF RoleExpires, TypeOK
    <3>4. CASE \/ \E k \in Key : NonceExpires(k) \/ ApprovalExpires(k)
               \/ \E op \in ContentOp, tag \in Tag : OwnerUntags(op, tag)
      BY <1>1, <3>4 DEF NonceExpires, ApprovalExpires, OwnerUntags
    <3>5. QED
      BY <1>6, <3>1, <3>2, <3>3, <3>4 DEF Surroundings
  <2>4. QED
    BY <2>1, <2>2, <2>3
<1>7. QED
  BY <1>3, <1>4, <1>5, <1>6 DEF Next

\* A user who never was a site administrator never gets past the admin gate.
THEOREM AdminsOnly == Spec => []NonAdminsNeverPass
<1>1. Init => NonAdminsNeverPass /\ RolesKnown
  <2>1. Init => NonAdminsNeverPass
    BY DEF Init, NonAdminsNeverPass, PastTheGate, Authorized
  <2>2. Init => RolesKnown
    BY NoneAssumption DEF Init, RolesKnown
  <2>3. QED
    BY <2>1, <2>2
<1>2. IInv /\ NonAdminsNeverPass /\ RolesKnown /\ [Next]_vars
      => NonAdminsNeverPass' /\ RolesKnown'
  BY RoleStep
<1>3. QED
  BY <1>1, <1>2, InvHolds, PTL DEF Spec

-----------------------------------------------------------------------------
(* The guard implements Tickets.  A ticket's state is read off three        *)
(* things: who used it, whether a cache holds it, whether its call ended.   *)

Cached(p) == \E k \in Key : p \in {nonces[k], approvals[k]}

Ended(p) == pc[p] \in {"done", "dead"}

StateOf(p) == IF UsersOf(p) # {} THEN "used"
              ELSE IF Cached(p) THEN "open"
              ELSE IF Ended(p) THEN "lapsed"
              ELSE "unissued"

LEMMA TicketIs ==
    ASSUME NEW p \in Call
    PROVE  TicketState[p] = [state |-> StateOf(p), by |-> UsersOf(p)]
BY DEF TicketState, StateOf, Cached, Ended

LEMMA TicketNext ==
    ASSUME NEW p \in Call
    PROVE  TicketState'[p] = [state |-> StateOf(p)', by |-> UsersOf(p)']
BY DEF TicketState, StateOf, Cached, Ended

LEMMA TicketTyped ==
    ASSUME NEW p \in Call
    PROVE  TicketState[p] \in Gate!State /\ TicketState'[p] \in Gate!State
<1>1. /\ StateOf(p) \in {"unissued", "open", "used", "lapsed"}
      /\ StateOf(p)' \in {"unissued", "open", "used", "lapsed"}
  BY DEF StateOf
<1>2. UsersOf(p) \in SUBSET Call /\ UsersOf(p)' \in SUBSET Call
  BY DEF UsersOf
<1>3. ASSUME NEW x \in {"unissued", "open", "used", "lapsed"},
             NEW y \in SUBSET Call
      PROVE  [state |-> x, by |-> y] \in Gate!State
  BY DEF Gate!State
<1>4. /\ TicketState[p] = [state |-> StateOf(p), by |-> UsersOf(p)]
      /\ TicketState'[p] = [state |-> StateOf(p)', by |-> UsersOf(p)']
  BY TicketIs, TicketNext
<1>5. QED
  BY <1>1, <1>2, <1>3, <1>4

\* A step that uses no ticket: a call that ended stays ended, and only a call
\* that has not ended is cached anew.
LEMMA UnusedStep ==
    ASSUME UNCHANGED basis,
           \A p \in Call : Cached(p) => Ended(p),
           \A p \in Call : Ended(p) => Ended(p)',
           \A p \in Call : Cached(p)' /\ ~Cached(p) => ~Ended(p)
    PROVE  Gate!Next
<1>1. \A p \in Call : UsersOf(p)' = UsersOf(p)
  BY DEF UsersOf
<1>2. ASSUME NEW p \in Call
      PROVE  /\ Gate!Issued(p) \/ Gate!Lapsed(p) \/ Gate!Kept(p)
             /\ ~Gate!Used(p)
  <2> DEFINE st == StateOf(p)
             users == UsersOf(p)
  <2>1. \/ st' = st
        \/ users = {} /\ st = "unissued" /\ st' = "open"
        \/ users = {} /\ st \in {"unissued", "open"} /\ st' = "lapsed"
    BY <1>1 DEF StateOf
  <2>2. users' = users
    BY <1>1
  <2>3. /\ TicketState[p] = [state |-> st, by |-> users]
        /\ TicketState'[p] = [state |-> st', by |-> users']
    BY TicketIs, TicketNext
  <2> HIDE DEF st, users
  <2>4. Gate!Issued(p) \/ Gate!Lapsed(p) \/ Gate!Kept(p)
    BY <2>1, <2>2, <2>3 DEF Gate!Issued, Gate!Lapsed, Gate!Kept, Gate!Turns
  <2>5. ~Gate!Used(p)
    <3> SUFFICES ASSUME Gate!Used(p)
                 PROVE  FALSE
      OBVIOUS
    <3>1. TicketState[p].state = "open" /\ TicketState'[p].state = "used"
      BY DEF Gate!Used, Gate!Turns
    <3>2. st = "open" /\ st' = "used"
      BY <2>3, <3>1
    <3>3. QED
      BY <2>1, <3>2
  <2>6. QED
    BY <2>4, <2>5
<1>3. TicketState' \in [Call -> Gate!State]
  BY TicketTyped DEF TicketState
<1>4. QED
  BY <1>2, <1>3 DEF Gate!Next

\* What is cached was shown, by a call that ended.
LEMMA CachedEnded ==
    ASSUME IInv, NEW p \in Call, Cached(p)
    PROVE  Ended(p)
BY DEF IInv, Cached, Ended, ApprovalsUnspent, NoncesUnspent, Unspent, ShownFor,
   Shown

\* The gate uses one ticket, or none.
LEMMA VerifyUses ==
    ASSUME IInv, NEW c \in Call, VerifyOneShot(c)
    PROVE  Gate!Next
<1>1. /\ req[c] \in Request
      /\ req[c].phase = "confirm"
      /\ KeyOf(c) \in Key
      /\ basis[c] = None
  BY DEF IInv, VerifyOneShot, TypeOK, WellRequested, Staged, Authorized, KeyOf, Key,
     Request
<1>2. \A p \in Call : Ended(p)' = Ended(p)
  BY OneShotIsLast DEF VerifyOneShot, IInv, TypeOK, Ended
<1> DEFINE k == KeyOf(c)
<1>3. OneShot(c) \in Call /\ OneShot(c) # None
  BY <1>1 DEF VerifyOneShot, OneShot, IInv, TypeOK
<1>4. PICK e \in Call : e = OneShot(c)
  BY <1>3
<1>5. e # None /\ basis' = [basis EXCEPT ![c] = e]
  BY <1>3, <1>4 DEF VerifyOneShot
<1>6. /\ e \in Call /\ \A d \in Call : basis[d] # e
      /\ Cached(e)
      /\ \A p \in Call : p # e => Cached(p)' = Cached(p)
  <2>1. CASE req[c].via = "app"
    <3>1. e = approvals[k] /\ e \in Call
      BY <1>4, <2>1 DEF OneShot
    <3>2. \A d \in Call : basis[d] # e
      BY <1>1, <3>1 DEF IInv, ApprovalsUnspent, Unspent
    <3>3. approvals' = [approvals EXCEPT ![k] = None] /\ nonces' = nonces
      BY <2>1 DEF VerifyOneShot, Consume
    <3>4. \A p \in Call : p # e => Cached(p)' = Cached(p)
      BY <1>1, <3>1, <3>3, NoneAssumption DEF Cached, IInv, TypeOK
    <3>5. QED
      BY <1>1, <3>1, <3>2, <3>4 DEF Cached
  <2>2. CASE req[c].via # "app"
    <3>1. req[c].via = "model" /\ ~ModelClosed(req[c].op) /\ k[2] = req[c].op
      BY <1>1, <2>2 DEF IInv, VerifyOneShot, WellRequested, Request, KeyOf
    <3>2. e = nonces[k] /\ e \in Call
      BY <1>3, <1>4, <2>2 DEF OneShot
    <3>3. \A d \in Call : basis[d] # e
      BY <1>1, <3>1, <3>2 DEF IInv, NoncesUnspent, Unspent
    <3>4. nonces' = [nonces EXCEPT ![k] = None] /\ approvals' = approvals
      BY <3>1 DEF VerifyOneShot, Consume
    <3>5. \A p \in Call : p # e => Cached(p)' = Cached(p)
      BY <1>1, <3>2, <3>4, NoneAssumption DEF Cached, IInv, TypeOK
    <3>6. QED
      BY <1>1, <3>2, <3>3, <3>5 DEF Cached
  <2>3. QED
    BY <2>1, <2>2
<1> HIDE DEF k
<1>7. /\ UsersOf(e) = {} /\ UsersOf(e)' = {c}
      /\ \A p \in Call : p # e => UsersOf(p)' = UsersOf(p)
  <2>1. \A d \in Call : basis'[d] = IF d = c THEN e ELSE basis[d]
    BY <1>5 DEF IInv, TypeOK
  <2>2. e # None /\ \A p \in Call : p # None
    BY <1>5, NoneAssumption
  <2>3. UsersOf(e) = {}
    BY <1>6 DEF UsersOf
  <2>4. UsersOf(e)' = {c}
    BY <1>6, <2>1 DEF UsersOf
  <2>5. \A p \in Call : p # e => UsersOf(p)' = UsersOf(p)
    BY <1>1, <2>1, <2>2 DEF UsersOf
  <2>6. QED
    BY <2>3, <2>4, <2>5
<1>8. Gate!Used(e)
  <2>1. StateOf(e) = "open" /\ StateOf(e)' = "used"
    BY <1>6, <1>7 DEF StateOf
  <2>2. /\ TicketState[e] = [state |-> StateOf(e), by |-> UsersOf(e)]
        /\ TicketState'[e] = [state |-> StateOf(e)', by |-> UsersOf(e)']
    BY <1>6, TicketIs, TicketNext
  <2>3. /\ TicketState[e].state = "open"
        /\ TicketState'[e] = [state |-> "used", by |-> {c}]
    BY <1>7, <2>1, <2>2
  <2>4. QED
    BY <2>3 DEF Gate!Used, Gate!Turns
<1>9. ASSUME NEW p \in Call, p # e
      PROVE  Gate!Kept(p)
  <2>1. StateOf(p)' = StateOf(p)
    BY <1>2, <1>6, <1>7, <1>9 DEF StateOf
  <2>2. QED
    BY <1>7, <1>9, <2>1, TicketIs, TicketNext DEF Gate!Kept
<1>10. ASSUME NEW p \in Call, p # e
      PROVE  ~Gate!Used(p)
  <2> SUFFICES ASSUME Gate!Used(p)
               PROVE  FALSE
    OBVIOUS
  <2>1. TicketState[p].state = "open" /\ TicketState'[p].state = "used"
    BY DEF Gate!Used, Gate!Turns
  <2>2. QED
    BY <1>9, <1>10, <2>1 DEF Gate!Kept
<1>11. TicketState' \in [Call -> Gate!State]
  BY TicketTyped DEF TicketState
<1>12. QED
  BY <1>8, <1>9, <1>10, <1>11 DEF Gate!Next

\* No other step touches what confirms rest on, a call that ended stays so, and
\* what enters a cache is the preview that ends in that step.
LEMMA GuardUses ==
    ASSUME IInv, NEW c \in Call, Guard(c), ~VerifyOneShot(c)
    PROVE  /\ UNCHANGED basis
           /\ \A p \in Call : Ended(p) => Ended(p)'
           /\ \A p \in Call : Cached(p)' /\ ~Cached(p) => ~Ended(p)
<1> USE DEF Ended
<1>1. ASSUME UNCHANGED <<nonces, approvals>>
      PROVE  \A p \in Call : Cached(p)' = Cached(p)
  BY <1>1 DEF Cached
<1>2. CASE Establish(c)
  <2>1. UNCHANGED basis /\ ~Ended(c)
    BY <1>2 DEF Establish
  <2>2. \A p \in Call : Ended(p) => Ended(p)'
    BY <1>2 DEF Establish, Emit, IInv, TypeOK
  <2>3. \A k \in Key : nonces'[k] \in {nonces[k], c} /\ approvals'[k] \in {approvals[k], c}
    BY <1>2 DEF Establish, NoncePut, ApprovalPut, IInv, TypeOK
  <2>4. \A p \in Call : Cached(p)' /\ ~Cached(p) => p = c
    BY <2>3 DEF Cached
  <2>5. QED
    BY <2>1, <2>2, <2>4
<1>3. CASE ~Establish(c)
  <2>1. UNCHANGED <<basis, nonces, approvals>>
    BY <1>3 DEF Guard, TurnedAway, AssertAdmin, AssertAdminThrows, DenyNonAdmin,
       Resolve, ResolveThrows, VerifyTag, Reject, VerifyThrows, EstablishThrows,
       MutationAnswers, MutationFails, caches, site
  <2>2. pc[c] \in InFlight /\ \E s \in Stage : pc' = [pc EXCEPT ![c] = s]
    BY <1>3, GoesOn DEF Guard, TurnedAway, AssertAdmin, AssertAdminThrows, DenyNonAdmin,
       Resolve, ResolveThrows, VerifyTag, Reject, VerifyThrows, EstablishThrows,
       MutationAnswers, MutationFails, Emit, EndUnaudited, AfterGate, Stage,
       InFlight
  <2>3. \A p \in Call : Ended(p) => Ended(p)'
    BY <2>2 DEF IInv, TypeOK, InFlight
  <2>4. QED
    BY <1>1, <2>1, <2>3
<1>4. QED
  BY <1>2, <1>3

LEMMA ArriveUses ==
    ASSUME IInv, NEW c \in Call, Arrive(c)
    PROVE  /\ UNCHANGED basis
           /\ \A p \in Call : Ended(p) => Ended(p)'
           /\ \A p \in Call : Cached(p)' /\ ~Cached(p) => ~Ended(p)
<1>1. /\ UNCHANGED <<basis, nonces, approvals>>
      /\ pc[c] = "idle" /\ pc' = [pc EXCEPT ![c] = "open"]
  BY ArriveFacts
<1>2. \A p \in Call : Cached(p)' = Cached(p)
  BY <1>1 DEF Cached
<1>3. \A p \in Call : Ended(p) => Ended(p)'
  BY <1>1 DEF Ended, IInv, TypeOK
<1>4. QED
  BY <1>1, <1>2, <1>3

LEMMA SurroundingsUses ==
    ASSUME IInv, Surroundings
    PROVE  /\ UNCHANGED basis
           /\ \A p \in Call : Ended(p) => Ended(p)'
           /\ \A p \in Call : Cached(p)' /\ ~Cached(p) => ~Ended(p)
<1>1. UNCHANGED basis
  BY DEF Surroundings, NonceExpires, ApprovalExpires, RoleExpires, RoleChanges,
     OwnerUntags, Restart
<1>2. UNCHANGED pc \/ pc' = [c \in Call |-> IF pc[c] \in InFlight THEN "dead" ELSE pc[c]]
  BY DEF Surroundings, NonceExpires, ApprovalExpires, RoleExpires, RoleChanges,
     OwnerUntags, Restart
<1>3. \A p \in Call : Ended(p) => Ended(p)'
  BY <1>2 DEF Ended, InFlight
<1>4. \A k \in Key : nonces'[k] \in {nonces[k], None} /\ approvals'[k] \in {approvals[k], None}
  <2>1. CASE Restart
    BY <2>1 DEF Restart
  <2>2. CASE \E k \in Key : NonceExpires(k) \/ ApprovalExpires(k)
    BY <2>2 DEF NonceExpires, ApprovalExpires, IInv, TypeOK
  <2>3. CASE UNCHANGED <<nonces, approvals>>
    BY <2>3
  <2>4. QED
    BY <2>1, <2>2, <2>3
       DEF Surroundings, RoleExpires, RoleChanges, OwnerUntags, caches
<1>5. \A p \in Call : Cached(p)' => Cached(p)
  BY <1>4, NoneAssumption DEF Cached
<1>6. QED
  BY <1>1, <1>3, <1>5

LEMMA StepUses ==
    ASSUME IInv, [Next]_vars
    PROVE  [Gate!Next]_TicketState
<1>1. CASE UNCHANGED vars
  BY <1>1 DEF vars, TicketState, UsersOf
<1>2. CASE \E c \in Call : VerifyOneShot(c)
  BY <1>2, VerifyUses
<1>3. CASE Next /\ ~\E c \in Call : VerifyOneShot(c)
  <2>1. /\ UNCHANGED basis
        /\ \A p \in Call : Ended(p) => Ended(p)'
        /\ \A p \in Call : Cached(p)' /\ ~Cached(p) => ~Ended(p)
    BY <1>3, ArriveUses, GuardUses, SurroundingsUses DEF Next
  <2>2. QED
    BY <2>1, CachedEnded, UnusedStep
<1>4. QED
  BY <1>1, <1>2, <1>3

LEMMA InitUses == Init => Gate!Init
<1> SUFFICES ASSUME Init
             PROVE  TicketState = [p \in Call |-> [state |-> "unissued", by |-> {}]]
  BY DEF Gate!Init
<1>1. ASSUME NEW p \in Call
      PROVE  UsersOf(p) = {} /\ ~Cached(p) /\ ~Ended(p)
  BY <1>1, NoneAssumption DEF Init, UsersOf, Cached, Ended
<1>2. QED
  BY <1>1 DEF TicketState, Cached, Ended

\* The guard, with its caches, tags and stops, implements the abstract gate.
THEOREM RefinesTickets == Spec => ImplementsTickets
<1>1. Init => Gate!Init
  BY InitUses
<1>2. IInv /\ [Next]_vars => [Gate!Next]_TicketState
  BY StepUses
<1>3. QED
  BY <1>1, <1>2, InvHolds, PTL DEF Spec, ImplementsTickets, Gate!Spec
=============================================================================
