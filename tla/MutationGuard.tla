---------------------------- MODULE MutationGuard ----------------------------
(***************************************************************************)
(* The safety layer of the mutating tools: guardMutation and its evidence  *)
(* strategies, with the tools that call it (delete-content, update-user,   *)
(* update-cloud-extract-refresh-task and the two app-only confirm tools)   *)
(* and the confirmation panel.                                             *)
(*                                                                         *)
(* An operation names a tool, its target and the parameters bound into the *)
(* evidence's key, so two schedules of a task are two operations.  It is   *)
(* one of three kinds, by the evidence its tool uses:                      *)
(*   ContentOp  deleting a workbook or datasource: a tag on the target,    *)
(*              and with mcp-apps on an in-app approval besides            *)
(*   TaskOp     extract refresh tasks: a nonce, or with mcp-apps on an     *)
(*              in-app approval instead                                    *)
(*   AccountOp  update-user: a nonce, whether mcp-apps is on or off        *)
(*                                                                         *)
(* Calls overlap: every action is the stretch of a call between two of the *)
(* REST requests it awaits.  A request is answered or fails; a mutation    *)
(* that fails for the client, by its timeout for one, may have taken place *)
(***************************************************************************)
EXTENDS Naturals, Sequences

CONSTANTS
    Call, User,
    ContentOp, TaskOp, AccountOp,
    Tag,         \* tag labels
    DefaultTag,  \* the label a blank tag argument stands for
    McpApps,     \* the feature gate mcp-apps
    None

Op == ContentOp \cup TaskOp \cup AccountOp
Key == User \X Op

ASSUME TagAssumption == DefaultTag \in Tag
ASSUME McpAppsAssumption == McpApps \in BOOLEAN
ASSUME KindsAssumption ==
    /\ ContentOp \cap TaskOp = {}
    /\ ContentOp \cap AccountOp = {}
    /\ TaskOp \cap AccountOp = {}

\* from is the preview whose token a confirm presents, or whose panel it was
\* sent from; confirms that carry neither have None.
Request == [user : User, op : Op, phase : {"preview", "confirm"},
            via : {"model", "app"}, tag : Tag, from : Call \cup {None}]

ASSUME NoneAssumption ==
    /\ None \notin Call \cup Request
    /\ None \notin {"admin", "member"}

VARIABLES
    pc,          \* where each call is
    req,         \* what it asks for
    audit,       \* the audit records it emitted
    role,        \* the site role Tableau has for each user
    adminCache,  \* the role cached by assertAdmin
    tags,        \* the labels on each target
    nonces,      \* nonceCache; a nonce is named by the preview that minted it
    approvals,   \* approvalCache; the code stores TRUE, the model which
                 \* preview set it
    mutated,     \* calls whose mutation took place
    basis,       \* history: the preview a confirm's evidence came from
    labelled,    \* history: confirms on whose target the label they name was
                 \* at some moment since they began
    wasAdmin     \* history: users Tableau ever had as administrators

vars == <<pc, req, audit, role, adminCache, tags, nonces, approvals, mutated,
          basis, labelled, wasAdmin>>
caches == <<adminCache, nonces, approvals>>
roles == <<role, wasAdmin>>
site == <<roles, tags, mutated, labelled>>

InFlight == {"open", "denying", "resolve", "tag", "oneshot", "establish",
             "mutate"}

\* done: the tool answered; dead: the server stopped while the call ran
Stage == {"idle", "done", "dead"} \cup InFlight

Record == {"allowed", "denied", "completed", "failed"}

KeyOf(c) == <<req[c].user, req[c].op>>

\* A preview whose response reached the client.
Shown(p) == pc[p] = "done" /\ audit[p] = <<"allowed">>

ModelClosed(op) == McpApps /\ op \notin AccountOp

\* Previews that answer with a panel, and those that answer with a token.
Panel(p) == Shown(p) /\ ModelClosed(req[p].op)
Token(p) == Shown(p) /\ ~ModelClosed(req[p].op) /\ req[p].op \notin ContentOp

-----------------------------------------------------------------------------
Init ==
    /\ pc = [c \in Call |-> "idle"]
    /\ req = [c \in Call |-> None]
    /\ audit = [c \in Call |-> <<>>]
    /\ role \in [User -> {"admin", "member"}]
    /\ adminCache = [u \in User |-> None]
    /\ tags = [o \in ContentOp |-> {}]
    /\ nonces = [k \in Key |-> None]
    /\ approvals = [k \in Key |-> None]
    /\ mutated = {}
    /\ basis = [c \in Call |-> None]
    /\ labelled = {}
    /\ wasAdmin = {u \in User : role[u] = "admin"}

\* A request whose target carries the label it names.
Carries(r, on) == r.op \in ContentOp /\ r.tag \in on[r.op]

Begin(c, r) ==
    /\ pc[c] = "idle"
    /\ req' = [req EXCEPT ![c] = r]
    /\ pc' = [pc EXCEPT ![c] = "open"]
    /\ labelled' = IF r.phase = "confirm" /\ Carries(r, tags)
                     THEN labelled \cup {c} ELSE labelled
    /\ UNCHANGED <<audit, caches, roles, tags, mutated, basis>>

Preview(c, u, op, tag) ==
    Begin(c, [user |-> u, op |-> op, phase |-> "preview", via |-> "model",
              tag |-> tag, from |-> None])

\* confirm: true on the tool that previews; closed, without a trace, where the
\* panel is the only way.  A token may be presented for any key.
ConfirmByModel(c, u, op, tag, from) ==
    /\ ~ModelClosed(op)
    /\ from # None => Token(from)
    /\ Begin(c, [user |-> u, op |-> op, phase |-> "confirm", via |-> "model",
                 tag |-> tag, from |-> from])

\* A click in the panel of preview p: the client sends no tag.
ConfirmInPanel(c, p) ==
    /\ Panel(p)
    /\ Begin(c, [user |-> req[p].user, op |-> req[p].op, phase |-> "confirm",
                 via |-> "app", tag |-> DefaultTag, from |-> p])

\* The app-only tool called by a client that shows it to the model.
ConfirmDirectly(c, u, op, tag) ==
    /\ ModelClosed(op)
    /\ Begin(c, [user |-> u, op |-> op, phase |-> "confirm", via |-> "app",
                 tag |-> tag, from |-> None])

-----------------------------------------------------------------------------
\* The call ends with an audit record, or without one.
Emit(c, record) ==
    /\ audit' = [audit EXCEPT ![c] = Append(@, record)]
    /\ pc' = [pc EXCEPT ![c] = "done"]

EndUnaudited(c) ==
    /\ pc' = [pc EXCEPT ![c] = "done"]
    /\ UNCHANGED audit

\* Signing in fails, or the tool's own checks before the guard refuse.
TurnedAway(c) ==
    /\ pc[c] = "open"
    /\ EndUnaudited(c)
    /\ UNCHANGED <<req, caches, site, basis>>

AfterGate(r) == IF r = "admin" THEN "resolve" ELSE "denying"

\* Mutant: the cached role is that of the site, whoever asks.
CachedRole_AnyUser(u) ==
    IF \E v \in User : adminCache[v] = "admin" THEN "admin" ELSE adminCache[u]

CachedRole(u) == adminCache[u]

\* assertAdmin: from the cache, or asking Tableau and caching its answer.
AssertAdmin(c) ==
    LET u == req[c].user IN
    /\ pc[c] = "open"
    /\ \/ /\ CachedRole(u) # None
          /\ pc' = [pc EXCEPT ![c] = AfterGate(CachedRole(u))]
          /\ UNCHANGED adminCache
       \/ /\ CachedRole(u) = None
          /\ pc' = [pc EXCEPT ![c] = AfterGate(role[u])]
          /\ adminCache' = [adminCache EXCEPT ![u] = role[u]]
    /\ UNCHANGED <<req, audit, nonces, approvals, site, basis>>

AssertAdminThrows(c) ==
    /\ pc[c] = "open"
    /\ CachedRole(req[c].user) = None
    /\ EndUnaudited(c)
    /\ UNCHANGED <<req, caches, site, basis>>

\* Not an admin: audited whether or not the target can be resolved.
DenyNonAdmin(c) ==
    /\ pc[c] = "denying"
    /\ Emit(c, "denied")
    /\ UNCHANGED <<req, caches, site, basis>>

\* Mutant: the one-shot evidence is asked for first.
Evidence_Swapped(c) ==
    IF req[c].op \notin ContentOp THEN <<"oneshot">>
    ELSE IF req[c].via = "app" THEN <<"oneshot", "tag">>
    ELSE <<"tag">>

\* What a confirm has to show, in the order it is asked for: the label on the
\* target, or a nonce or an approval, or both (AllEvidence).
Evidence(c) ==
    IF req[c].op \notin ContentOp THEN <<"oneshot">>
    ELSE IF req[c].via = "app" THEN <<"tag", "oneshot">>
    ELSE <<"tag">>

\* Where a confirm goes from a check that it passed.
After(c, check) ==
    IF Len(Evidence(c)) = 2 /\ check = Evidence(c)[1] THEN Evidence(c)[2] ELSE "mutate"

Resolve(c) ==
    /\ pc[c] = "resolve"
    /\ pc' = [pc EXCEPT ![c] =
                 IF req[c].phase = "confirm" THEN Head(Evidence(c)) ELSE "establish"]
    /\ UNCHANGED <<req, audit, caches, site, basis>>

\* Resolving a task is best effort and never throws.
ResolveThrows(c) ==
    /\ pc[c] = "resolve"
    /\ req[c].op \notin TaskOp
    /\ EndUnaudited(c)
    /\ UNCHANGED <<req, caches, site, basis>>

-----------------------------------------------------------------------------
\* TagEvidence.verify asks Tableau for the labels of the moment.
TagOn(c) == Carries(req[c], tags)

VerifyTag(c) ==
    /\ pc[c] = "tag"
    /\ TagOn(c)
    /\ pc' = [pc EXCEPT ![c] = After(c, "tag")]
    /\ UNCHANGED <<req, audit, caches, site, basis>>

\* The request for the labels fails.
VerifyThrows(c) ==
    /\ pc[c] = "tag"
    /\ EndUnaudited(c)
    /\ UNCHANGED <<req, caches, site, basis>>

\* AppApprovalEvidence: presence; RegistryEvidence: the nonce presented.
OneShot(c) ==
    IF req[c].via = "app" THEN approvals[KeyOf(c)]
    ELSE IF nonces[KeyOf(c)] = req[c].from THEN req[c].from ELSE None

\* Mutant: an approval is not deleted when it is used.
Consume_KeepsApproval(c) ==
    /\ nonces' = IF req[c].via = "app" THEN nonces
                   ELSE [nonces EXCEPT ![KeyOf(c)] = None]
    /\ UNCHANGED approvals

\* Looking the evidence up and deleting it is one synchronous stretch.
Consume(c) ==
    /\ approvals' = IF req[c].via = "app"
                      THEN [approvals EXCEPT ![KeyOf(c)] = None] ELSE approvals
    /\ nonces' = IF req[c].via = "app" THEN nonces
                   ELSE [nonces EXCEPT ![KeyOf(c)] = None]

VerifyOneShot(c) ==
    /\ pc[c] = "oneshot"
    /\ OneShot(c) # None
    /\ Consume(c)
    /\ basis' = [basis EXCEPT ![c] = OneShot(c)]
    /\ pc' = [pc EXCEPT ![c] = After(c, "oneshot")]
    /\ UNCHANGED <<req, audit, adminCache, site>>

\* verify returns false at the first check that fails.
Reject(c) ==
    /\ \/ pc[c] = "tag" /\ ~TagOn(c)
       \/ pc[c] = "oneshot" /\ OneShot(c) = None
    /\ Emit(c, "denied")
    /\ UNCHANGED <<req, caches, site, basis>>

-----------------------------------------------------------------------------
\* What a preview leaves behind: a tag or a nonce, and the approval of the
\* panel where there is one.
TagPut(c) == IF req[c].op \in ContentOp
               THEN [tags EXCEPT ![req[c].op] = @ \cup {req[c].tag}] ELSE tags

NoncePut(c) == IF req[c].op \notin ContentOp
                 THEN [nonces EXCEPT ![KeyOf(c)] = c] ELSE nonces

\* Mutant: the key of an approval does not bind the parameters.
ApprovalPut_AnyOp(c) ==
    IF ModelClosed(req[c].op)
      THEN [k \in Key |-> IF k[1] = req[c].user THEN c ELSE approvals[k]]
      ELSE approvals

ApprovalPut(c) == IF ModelClosed(req[c].op)
                    THEN [approvals EXCEPT ![KeyOf(c)] = c] ELSE approvals

\* Confirms that are under way see the label come.
Confirming == {d \in Call : pc[d] \in InFlight /\ req[d].phase = "confirm"}
Relabel(on) == labelled' = labelled \cup {d \in Confirming : Carries(req[d], on)}

Establish(c) ==
    /\ pc[c] = "establish"
    /\ tags' = TagPut(c)
    /\ Relabel(tags')
    /\ nonces' = NoncePut(c)
    /\ approvals' = ApprovalPut(c)
    /\ Emit(c, "allowed")
    /\ UNCHANGED <<req, roles, adminCache, mutated, basis>>

\* Tagging fails for the client, whether or not the tag was put.
EstablishThrows(c) ==
    /\ pc[c] = "establish"
    /\ req[c].op \in ContentOp
    /\ tags' \in {tags, TagPut(c)}
    /\ Relabel(tags')
    /\ EndUnaudited(c)
    /\ UNCHANGED <<req, roles, caches, mutated, basis>>

\* The mutation is answered, and recordOutcome reports it.
MutationAnswers(c) ==
    /\ pc[c] = "mutate"
    /\ mutated' = mutated \cup {c}
    /\ Emit(c, "completed")
    /\ UNCHANGED <<req, roles, tags, labelled, caches, basis>>

\* Mutant: the failure is not recorded before it is thrown on.
MutationFails_Silent(c) ==
    /\ pc[c] = "mutate"
    /\ mutated' \in {mutated, mutated \cup {c}}
    /\ EndUnaudited(c)
    /\ UNCHANGED <<req, roles, tags, labelled, caches, basis>>

\* It fails for the client; a timeout does not say that nothing happened.
MutationFails(c) ==
    /\ pc[c] = "mutate"
    /\ mutated' \in {mutated, mutated \cup {c}}
    /\ Emit(c, "failed")
    /\ UNCHANGED <<req, roles, tags, labelled, caches, basis>>

-----------------------------------------------------------------------------
\* The entries of the three maps expire.
NonceExpires(k) ==
    /\ nonces[k] # None
    /\ nonces' = [nonces EXCEPT ![k] = None]
    /\ UNCHANGED <<pc, req, audit, adminCache, approvals, site, basis>>

ApprovalExpires(k) ==
    /\ approvals[k] # None
    /\ approvals' = [approvals EXCEPT ![k] = None]
    /\ UNCHANGED <<pc, req, audit, adminCache, nonces, site, basis>>

RoleExpires(u) ==
    /\ adminCache[u] # None
    /\ adminCache' = [adminCache EXCEPT ![u] = None]
    /\ UNCHANGED <<pc, req, audit, nonces, approvals, site, basis>>

\* The server stops and starts: what it kept in memory is gone, and of the
\* mutations it had sent some take place.
Restart ==
    /\ \E c \in Call : pc[c] # "idle"
    /\ pc' = [c \in Call |-> IF pc[c] \in InFlight THEN "dead" ELSE pc[c]]
    /\ adminCache' = [u \in User |-> None]
    /\ nonces' = [k \in Key |-> None]
    /\ approvals' = [k \in Key |-> None]
    /\ \E some \in SUBSET {c \in Call : pc[c] = "mutate"} :
          mutated' = mutated \cup some
    /\ UNCHANGED <<req, audit, basis, roles, tags, labelled>>

\* In Tableau an owner takes a label off, and a user's role changes.
OwnerUntags(op, tag) ==
    /\ tag \in tags[op]
    /\ tags' = [tags EXCEPT ![op] = @ \ {tag}]
    /\ UNCHANGED <<pc, req, audit, caches, roles, mutated, labelled, basis>>

RoleChanges(u) ==
    /\ role' = [role EXCEPT ![u] = IF @ = "admin" THEN "member" ELSE "admin"]
    /\ wasAdmin' = wasAdmin \cup {v \in User : role'[v] = "admin"}
    /\ UNCHANGED <<pc, req, audit, caches, tags, mutated, labelled, basis>>

-----------------------------------------------------------------------------
\* Labels matter for content only, and tokens for the rest.
TagsFor(op) == IF op \in ContentOp THEN Tag ELSE {DefaultTag}
TokensFor(op) == IF op \in ContentOp THEN {None} ELSE Call \cup {None}

Arrive(c) ==
    \/ \E u \in User, op \in Op : \E tag \in TagsFor(op) :
          \/ Preview(c, u, op, tag)
          \/ ConfirmDirectly(c, u, op, tag)
          \/ \E from \in TokensFor(op) : ConfirmByModel(c, u, op, tag, from)
    \/ \E p \in Call : ConfirmInPanel(c, p)

Guard(c) ==
    \/ TurnedAway(c) \/ AssertAdmin(c) \/ AssertAdminThrows(c)
    \/ DenyNonAdmin(c) \/ Resolve(c) \/ ResolveThrows(c)
    \/ VerifyTag(c) \/ VerifyThrows(c) \/ VerifyOneShot(c) \/ Reject(c)
    \/ Establish(c) \/ EstablishThrows(c)
    \/ MutationAnswers(c) \/ MutationFails(c)

Surroundings ==
    \/ \E k \in Key : NonceExpires(k) \/ ApprovalExpires(k)
    \/ \E u \in User : RoleExpires(u) \/ RoleChanges(u)
    \/ \E op \in ContentOp, tag \in Tag : OwnerUntags(op, tag)
    \/ Restart

Next == (\E c \in Call : Arrive(c) \/ Guard(c)) \/ Surroundings

Spec == Init /\ [][Next]_vars

-----------------------------------------------------------------------------
Authorized(c) == pc[c] = "mutate" \/ c \in mutated \/ basis[c] # None

KeptFor(p, k) == p # None => req[p].phase = "preview" /\ KeyOf(p) = k

\* The state has its types; an entry of a cache was put there by a preview of
\* the key it stands under (nonceKey, approvalKey).
TypeOK ==
    /\ pc \in [Call -> Stage]
    /\ req \in [Call -> Request \cup {None}]
    /\ \A c \in Call : (req[c] = None) <=> (pc[c] = "idle")
    /\ audit \in [Call -> Seq(Record)]
    /\ role \in [User -> {"admin", "member"}]
    /\ adminCache \in [User -> {"admin", "member", None}]
    /\ tags \in [ContentOp -> SUBSET Tag]
    /\ nonces \in [Key -> Call \cup {None}]
    /\ approvals \in [Key -> Call \cup {None}]
    /\ \A k \in Key : KeptFor(nonces[k], k) /\ KeptFor(approvals[k], k)
    /\ mutated \subseteq Call
    /\ basis \in [Call -> Call \cup {None}]
    /\ labelled \subseteq Call
    /\ wasAdmin \subseteq User

\* One preview authorizes at most one mutation: however calls overlap (a
\* second click, a retry of the client, a token presented twice), no two
\* confirms get past the gate on the nonce or the approval of one preview.
OneMutationPerApproval ==
    \A c, d \in Call : c # d /\ basis[c] # None => basis[c] # basis[d]

\* Preview p may have put label t on the target of o.
PutBy(p, o, t) ==
    /\ pc[p] \in {"establish", "done", "dead"}
    /\ req[p].phase = "preview"
    /\ req[p].op = o
    /\ req[p].tag = t

ShownBefore(p, c) ==
    /\ Shown(p)
    /\ req[p].phase = "preview"
    /\ req[p].user = req[c].user
    /\ req[p].op = req[c].op

\* Nothing is mutated that was not previewed: a confirm past the gate rests on
\* a preview of exactly its operation that the same user was shown, or, where
\* the tag is the evidence, on a preview that put this very tag on the target.
NothingUnpreviewed ==
    \A c \in Call : Authorized(c) =>
        \/ basis[c] # None /\ ShownBefore(basis[c], c)
        \/ /\ req[c].op \in ContentOp /\ ~McpApps
           /\ \E p \in Call : PutBy(p, req[c].op, req[c].tag)

\* What is mutated is accounted for: a call that ended past the gate left
\* exactly one record, completed or failed, and a mutation that was not
\* authorized is never recorded as either; only a stop of the server leaves a
\* mutation without a record.
MutationsAreAudited ==
    \A c \in Call :
        /\ c \in mutated /\ pc[c] = "done" =>
              audit[c] \in {<<"completed">>, <<"failed">>}
        /\ audit[c] = <<"completed">> => c \in mutated
        /\ Len(audit[c]) <= 1

PastTheGate == {"resolve", "tag", "oneshot", "establish", "mutate"}

\* A user who never was a site administrator gets past the admin gate neither
\* by the role cached for another user nor by one cached for himself.
NonAdminsNeverPass ==
    \A c \in Call : pc[c] \in PastTheGate \/ Authorized(c) =>
        req[c].user \in wasAdmin

\* No approval is wasted: one that a confirm used up got it to the mutation.
\* The tag is asked for over the network and may be gone by then, or the
\* request may fail, and no such confirm has taken the approval or the nonce
\* along, which a second click could use (AllEvidence, evidence.ts:287-289).
NothingWasted ==
    \A c \in Call : basis[c] # None =>
        \/ pc[c] \in {"mutate", "dead"}
        \/ pc[c] = "done" /\ audit[c] \in {<<"completed">>, <<"failed">>}

\* The owner's objection holds: content from which the label was taken before
\* a confirm began, and on which nobody put it again while the confirm ran, is
\* not mutated, whatever approval there is (evidence.ts:87-102).
ObjectionsHold ==
    \A c \in Call : Authorized(c) /\ req[c].op \in ContentOp => c \in labelled

\* The checks at the gate are live, and asked for in the order that costs
\* nothing to those who fail them.
GateIsSound == NothingWasted /\ ObjectionsHold

\* The tickets of the abstract specification are the previews.
UsersOf(p) == {c \in Call : basis[c] = p}

TicketState ==
    [p \in Call |->
        [state |-> IF UsersOf(p) # {} THEN "used"
                   ELSE IF \E k \in Key : p \in {nonces[k], approvals[k]}
                     THEN "open"
                   ELSE IF pc[p] \in {"done", "dead"} THEN "lapsed"
                   ELSE "unissued",
         by |-> UsersOf(p)]]

Gate == INSTANCE Tickets
            WITH Ticket <- Call, Holder <- Call, ticket <- TicketState

\* Nonces and approvals are tickets that are used at most once and never come
\* back once they expired, were superseded or were lost in a restart.
ImplementsTickets == Gate!Spec

-----------------------------------------------------------------------------
(* What comments of the code say and the code does not do.                  *)

\* auditRecord.ts: a record is emitted "exactly once per attempt".  An attempt
\* that ends because Tableau cannot be asked leaves none: guardMutation lets
\* resolveTarget, establish and verify throw through.
ExactlyOneRecord ==
    [][\A c \in Call :
          pc[c] \in InFlight \ {"open"} /\ pc'[c] = "done" =>
             Len(audit'[c]) = 1]_vars

\* auditRecord.ts: of a failed record, "the target is unchanged".  A mutation
\* whose answer is lost or late is recorded as failed too.
FailedMeansUnchanged ==
    \A c \in Call : audit[c] = <<"failed">> => c \notin mutated

\* confirmDeleteContent.ts: the tag argument is "the pending-deletion tag label
\* used in the preview", so a click in a panel whose approval is live and whose
\* tag is still on is not rejected.  The panel sends no tag.
PanelApprovalIsHonoured ==
    [][\A c, p \in Call :
          (/\ pc[c] \in {"tag", "oneshot"}
           /\ req[c].via = "app" /\ req[c].from = p
           /\ approvals[KeyOf(c)] = p
           /\ req[p].op \in ContentOp => req[p].tag \in tags[req[p].op]) =>
             audit'[c] # <<"denied">>]_vars
=============================================================================
