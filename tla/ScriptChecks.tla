----------------------------- MODULE ScriptChecks -----------------------------
(***************************************************************************)
(* What can be said of a tool's script without running it.  Before each of  *)
(* its steps a script has certain sessions open, the content in hand is     *)
(* known to be within certain bounds, and certain bounds have been looked    *)
(* at by a fetch.  A script is sound when every step leaves to the steps     *)
(* that may follow it no less than they are taken to start from, when every  *)
(* call finds its scope in the session it is made in, and when its end has   *)
(* no session open and the documented bounds known.                         *)
(*                                                                         *)
(* The scripts of all the tools are: TLC evaluates ScriptsAssumption, and    *)
(* the proofs about WebTools rest on nothing else that is said of scripts.  *)
(***************************************************************************)
EXTENDS WebTools

(* The scopes of the sessions open, the dimensions known, those fetched.     *)
Start == [open |-> << >>, known |-> {}, looked |-> {}]

Kinds     == {"datasource", "workbook", "flow", "view"}
Ops       == {"config", "arg", "check", "lookUp", "signIn", "signOut", "admin", "call", "may",
              "find", "kept", "list", "listOf", "filter", "refuse", "within", "under"}
RestCalls == {"admin", "call", "may", "find", "kept", "list", "listOf"}
Scopes    == SUBSET STRING

(* A step's own fetch moves only the project and the tags.                   *)
Moving == {"project", "tag"}

(* What holds after a step that went well.                                   *)
OpenAfter(step, k) ==
  CASE step.op = "signIn"  -> Append(k.open, step.arg)
    [] step.op = "signOut" -> SubSeq(k.open, 1, Len(k.open) - 1)
    [] OTHER               -> k.open
KnownAfter(step, k) ==
  CASE step.op = "check"  -> k.known \cup CheckOf(step.arg).ids \cup CheckOf(step.arg).fetch
    [] step.op \in {"within", "filter", "refuse"} -> k.known \cup step.arg
    [] step.op = "kept"   -> k.known \cap (k.looked \cup (Dims \ Moving))
    [] step.op = "list"   -> {}
    [] step.op = "listOf" -> k.known \ {"view", "tag"}
    [] OTHER              -> k.known
After(step, k) ==
  [open   |-> OpenAfter(step, k),
   known  |-> KnownAfter(step, k),
   looked |-> IF step.op = "check" THEN k.looked \cup CheckOf(step.arg).fetch ELSE k.looked]

(* ... and where a step is left out or survived: it did nothing, or nothing    *)
(* it would have looked at is bounded.                                       *)
Passable(step)   == ~step.must \/ step.op = "find"
Without(step, k) == IF step.op = "under" THEN [k EXCEPT !.known = @ \cup step.arg] ELSE k

(* What is known before step n of a script, on whatever way it was reached.   *)
Beyond(s, m) == m + 1 + s[m].skip
Before(s) ==
  LET k[n \in 1..(Len(s) + 1)] ==
        IF n = 1 THEN Start
        ELSE LET next == After(s[n - 1], k[n - 1])
                 past == {m \in 1..(n - 1) : Passable(s[m]) /\ Beyond(s, m) = n}
                 ways == {next} \cup {Without(s[m], k[m]) : m \in past}
             IN [open   |-> next.open,
                 known  |-> {d \in Dims : \A w \in ways : d \in w.known},
                 looked |-> {d \in Dims : \A w \in ways : d \in w.looked}]
  IN k
Known == [c \in Calls |-> Before(Scripts[c])]

-----------------------------------------------------------------------------
Covers(k, j) == k.open = j.open /\ j.known \subseteq k.known /\ j.looked \subseteq k.looked

(* The step can be taken: there is a session to call in and to end.           *)
Runnable(step, k) ==
  /\ step.op \in Ops /\ step.must \in BOOLEAN /\ step.skip \in Nat
  /\ step.op = "signIn" => step.arg \in Scopes
  /\ step.op = "check" => step.arg \in Kinds
  /\ step.op = "under" => ~step.must
  /\ step.op \in RestCalls \cup {"signOut"} => k.open # << >>
  /\ step.op \in RestCalls /\ step.must => RequiredScope[step.arg] \in k.open[Len(k.open)]

Sound(c) ==
  LET s == Scripts[c]
      k == Known[c]
      e == Len(s) + 1
  IN /\ Len(s) \in Nat
     /\ \A n \in 1..e : /\ k[n].open \in Seq(Scopes)
                        /\ k[n].known \subseteq Dims /\ k[n].looked \subseteq Dims
     /\ k[1] = Start
     /\ \A n \in 1..Len(s) :
          /\ Runnable(s[n], k[n])
          /\ Covers(After(s[n], k[n]), k[n + 1])
          /\ Passable(s[n]) => /\ Beyond(s, n) <= e
                               /\ Covers(Without(s[n], k[n]), k[Beyond(s, n)])
     /\ k[e].open = << >>
     /\ BoundsOf(c[2]) \ KnownGap(c) \subseteq k[e].known

ASSUME ScriptsAssumption == \A c \in Calls : Sound(c)

(* The scopes of the methods called in sessions of the server's own.         *)
ASSUME FetchesAssumption ==
  /\ RequiredScope["getMcpSiteSettings"] = SiteSettings
  /\ RequiredScope["queryFlow"] = "flows:read"
  /\ \A m \in {"queryDatasource", "getWorkbook", "getView", "getCustomView"} :
       RequiredScope[m] = "content:read"
=============================================================================
