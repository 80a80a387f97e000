------------------------------ MODULE DesktopCalls ------------------------------
(***************************************************************************)
(* The server for Tableau Desktop (index.desktop.ts, desktop/, tools/      *)
(* desktop/): six tools over the Agent API of the instances a manifest     *)
(* names.  A session id is the process id of an instance; the first use    *)
(* looks its address up and keeps it.  A command is submitted, then polled *)
(* for until it ends or the attempts are used up; a workbook is applied    *)
(* from a file and, should Desktop fail that, as text.                     *)
(*                                                                         *)
(* External: instances start, crash and leave their entry in the manifest, *)
(* run or fail commands in their time, and log events of the user's edits  *)
(* and of whatever else; requests and answers get lost.  An instance of a  *)
(* process id has a new address and a new event log every time it runs.    *)
(***************************************************************************)
EXTENDS Naturals, Sequences, FiniteSets

CONSTANTS
    Pid,
    ToolCall,      \* calls of tools, which may overlap
    MaxAttempts,   \* ceil(commandTimeoutMs / pollIntervalMs)
    MaxRuns,       \* bound: how often an instance of one process id starts
    MaxEvents,     \* bound: events one of them logs
    Nothing

\* What the constants are assumed to be.
ASSUME DesktopAssumption == /\ {MaxAttempts, MaxRuns, MaxEvents} \subseteq Nat
                            /\ Nothing \notin Pid \cup ToolCall \cup Nat

Reads == {"get-workbook-xml", "list-worksheets", "list-dashboards"}

VARIABLES
    desktop,    \* instances: up or not, their run, events logged, which are edits
    manifest,   \* the run the manifest names for a process id, or 0
    sessions,   \* SessionManager.sessions: the run whose address is kept, or Nothing
    call,       \* calls: the tool, how far it is, what it answered
    command,    \* commands of a call, the first and the second
    known       \* the client's checkpoint of each session: a sequence number, and its run

desktopVars == <<desktop, manifest, sessions, call, command, known>>

Idle == [at |-> "idle", how |-> Nothing, tool |-> Nothing, pid |-> Nothing, args |-> Nothing,
         run |-> 0, tries |-> 0, edited |-> FALSE, listed |-> {}]

DesktopInit ==
    /\ desktop = [p \in Pid |-> [up |-> FALSE, run |-> 0, events |-> 0, edits |-> {}]]
    /\ manifest = [p \in Pid |-> 0]
    /\ sessions = [p \in Pid |-> Nothing]
    /\ call = [c \in ToolCall |-> Idle]
    /\ command = [c \in ToolCall |-> <<>>]
    /\ known = [p \in Pid |-> Nothing]

At(c, where) == call[c].at = where
Done(c, tools, hows) == At(c, "done") /\ call[c].tool \in tools /\ call[c].how \in hows

\* The executor of this call reaches the instance it was made for.
Reaches(p, run) == desktop[p].up /\ desktop[p].run = run

-----------------------------------------------------------------------------
(* Tableau Desktop and its user.                                           *)

Starts(p) ==
    /\ ~desktop[p].up
    /\ desktop[p].run < MaxRuns
    /\ desktop' = [desktop EXCEPT ![p] = [up |-> TRUE, run |-> @.run + 1,
                                          events |-> 0, edits |-> {}]]
    /\ manifest' = [manifest EXCEPT ![p] = desktop[p].run + 1]
    /\ UNCHANGED <<sessions, call, command, known>>

\* It stops; if it crashed, its entry stays.
Stops(p) ==
    /\ desktop[p].up
    /\ desktop' = [desktop EXCEPT ![p].up = FALSE]
    /\ \/ manifest' = [manifest EXCEPT ![p] = 0]
       \/ UNCHANGED manifest
    /\ UNCHANGED <<sessions, call, command, known>>

UserEdits(p) ==
    LET d == desktop[p] IN
    /\ d.up
    /\ d.events < MaxEvents
    /\ desktop' = [desktop EXCEPT ![p].events = d.events + 1,
                                  ![p].edits = d.edits \cup {d.events + 1}]
    /\ UNCHANGED <<manifest, sessions, call, command, known>>

\* A queued command runs; what it changes may be an event too.
Runs(c) ==
    LET n == Len(command[c]) IN
    /\ n > 0
    /\ command[c][n] = "queued"
    /\ Reaches(call[c].pid, call[c].run)
    /\ \E end \in {"completed", "failed"} : command' = [command EXCEPT ![c][n] = end]
    /\ \/ UNCHANGED desktop
       \/ /\ call[c].tool = "apply-workbook"
          /\ desktop[call[c].pid].events < MaxEvents
          /\ desktop' = [desktop EXCEPT ![call[c].pid].events = @ + 1]
    /\ UNCHANGED <<manifest, sessions, call, known>>

-----------------------------------------------------------------------------
(* Finding the instance.                                                   *)

Answered(c, how) == call' = [call EXCEPT ![c].at = "done", ![c].how = how]

\* What a call brings beside its session: a checkpoint, or a workbook that may be
\* missing, no XML, or XML that cannot be converted to JSON.
Args(tool, p) == CASE tool = "check-for-user-changes" -> {Nothing, known[p]}
                   [] tool = "apply-workbook" -> {"missing", "no xml", "xml", "odd xml"}
                   [] OTHER -> {Nothing}

Rejects(tool, args, why) == tool = "apply-workbook" /\ args = why

\* Mutant: every call looks its instance up.
Executor_Fresh(p) == manifest[p]

\* getExecutor: what is kept, or what the manifest says now.
Executor(p) == IF sessions[p] # Nothing THEN sessions[p] ELSE manifest[p]

\* An entry of the manifest is as good as an instance: nobody asks isAlive.
ListInstances(c) ==
    /\ At(c, "idle")
    /\ call' = [call EXCEPT ![c].at = "done", ![c].tool = "list-instances", ![c].how = "ok",
                            ![c].listed = {p \in Pid : manifest[p] # 0}]
    /\ UNCHANGED <<desktop, manifest, sessions, command, known>>

\* A call that names a session: its executor is found, unless the manifest has no
\* such process id.
Begin(c, tool, p, args) ==
    LET run == Executor(p)
        begun(at, how) == call' = [call EXCEPT ![c].at = at, ![c].how = how, ![c].tool = tool,
                                               ![c].pid = p, ![c].args = args, ![c].run = run] IN
    /\ At(c, "idle")
    /\ \/ /\ Rejects(tool, args, "missing")
          /\ begun("done", "bad arguments")
          /\ UNCHANGED sessions
       \/ /\ ~Rejects(tool, args, "missing")
          /\ run = 0
          /\ begun("done", "no instance")
          /\ UNCHANGED sessions
       \/ /\ ~Rejects(tool, args, "missing")
          /\ run # 0
          /\ sessions' = [sessions EXCEPT ![p] = run]
          /\ IF Rejects(tool, args, "no xml") THEN begun("done", "invalid xml")
                                              ELSE begun("submit", Nothing)
    /\ UNCHANGED <<desktop, manifest, command, known>>

-----------------------------------------------------------------------------
(* check-for-user-changes.                                                 *)

Given(since) == since # Nothing

\* History: the user's edits since the checkpoint; all of them, if it was another run's.
Edited(d, since) == \E e \in d.edits : e > since.seq \/ d.run # since.run

CheckForUserChanges(c) ==
    LET p == call[c].pid
        d == desktop[p]
        since == call[c].args
        told == IF ~Given(since) THEN "checkpoint"
                ELSE IF d.events > since.seq THEN "changes" ELSE "no changes" IN
    /\ At(c, "submit")
    /\ call[c].tool = "check-for-user-changes"
    /\ \/ /\ Answered(c, "error")
          /\ UNCHANGED known
       \/ /\ Reaches(p, call[c].run)
          /\ known' = [known EXCEPT ![p] = [seq |-> d.events, run |-> d.run]]
          /\ call' = [call EXCEPT ![c].at = "done", ![c].how = told,
                                  ![c].edited = Given(since) /\ Edited(d, since)]
    /\ UNCHANGED <<desktop, manifest, sessions, command>>

-----------------------------------------------------------------------------
(* Commands.                                                               *)

\* apply-workbook is first tried from a file, if its XML can be converted to JSON.
ByFile(c) == /\ call[c].tool = "apply-workbook"
             /\ call[c].args = "xml"
             /\ Len(command[c]) = 1

\* executeCommand submits it; the answer may be lost although it was queued.
Submit(c) ==
    /\ At(c, "submit")
    /\ call[c].tool \in Reads \cup {"apply-workbook"}
    /\ \/ /\ Reaches(call[c].pid, call[c].run)
          /\ command' = [command EXCEPT ![c] = Append(@, "queued")]
          /\ \/ call' = [call EXCEPT ![c].at = "wait", ![c].tries = 0]
             \/ Answered(c, "error")
       \/ Answered(c, "error") /\ UNCHANGED command
    /\ UNCHANGED <<desktop, manifest, sessions, known>>

\* Desktop failed to load the file.
FallsBack(c, why) == ByFile(c) /\ why = "command-failed"

\* The command is over, one way or another: the answer, or the text instead.
Conclude(c, why) == IF FallsBack(c, why) THEN call' = [call EXCEPT ![c].at = "submit"]
                                         ELSE Answered(c, why)

\* Mutant: attempts are not counted.
Tried_Uncounted(c) == call[c].tries

Tried(c) == call[c].tries + 1

CommandStatus(c) == command[c][Len(command[c])]

\* One attempt of waitForCommand, and the pause after it.
Poll(c) ==
    /\ At(c, "wait")
    /\ call[c].tries < MaxAttempts
    /\ IF Reaches(call[c].pid, call[c].run)
       THEN CASE CommandStatus(c) = "completed" ->
                   \/ Answered(c, "ok")
                   \/ call[c].tool \in Reads /\ Answered(c, "error")   \* not of its schema
              [] CommandStatus(c) = "failed" -> Conclude(c, "command-failed")
              [] OTHER -> call' = [call EXCEPT ![c].tries = Tried(c)]
       ELSE Conclude(c, "error")
    /\ UNCHANGED <<desktop, manifest, sessions, command, known>>

\* The status is not answered in time.
PollFails(c) == /\ At(c, "wait")
                /\ call[c].tries < MaxAttempts
                /\ Conclude(c, "error")
                /\ UNCHANGED <<desktop, manifest, sessions, command, known>>

TimesOut(c) == /\ At(c, "wait")
               /\ call[c].tries = MaxAttempts
               /\ Conclude(c, "command-timed-out")
               /\ UNCHANGED <<desktop, manifest, sessions, command, known>>

\* The client cancels: the request, or the pause, is aborted.  The first ends in an
\* error the call answers, the second in one logAndExecute catches.
Cancelled(c) == /\ At(c, "submit") \/ At(c, "wait")
                /\ Answered(c, "error")
                /\ UNCHANGED <<desktop, manifest, sessions, command, known>>

DesktopNext ==
    \/ \E p \in Pid : Starts(p) \/ Stops(p) \/ UserEdits(p)
    \/ \E c \in ToolCall :
          \/ Runs(c) \/ ListInstances(c)
          \/ \E tool \in Reads \cup {"check-for-user-changes", "apply-workbook"}, p \in Pid :
                \E args \in Args(tool, p) : Begin(c, tool, p, args)
          \/ CheckForUserChanges(c) \/ Submit(c) \/ Poll(c) \/ PollFails(c) \/ TimesOut(c)
          \/ Cancelled(c)

\* Timers end every request and every pause: axios's timeout, the poll interval.
DesktopFairness ==
    \A c \in ToolCall :
        WF_desktopVars(CheckForUserChanges(c) \/ Submit(c) \/ Poll(c) \/ TimesOut(c))

DesktopSafetySpec == DesktopInit /\ [][DesktopNext]_desktopVars
DesktopSpec == DesktopSafetySpec /\ DesktopFairness

-----------------------------------------------------------------------------
(* Properties.                                                             *)

\* What apply-workbook answers is what happened: success means the workbook was
\* loaded once; an error other than a lost or late answer means it was not, and
\* that nothing is under way that would still load it (loadWorkbookXml.ts:101).
AppliedOnce ==
    \A c \in ToolCall :
        LET loaded == {n \in 1 .. Len(command[c]) : command[c][n] # "failed"} IN
        /\ Cardinality(loaded) <= 1
        /\ Done(c, {"apply-workbook"}, {"ok"}) => \E n \in loaded : command[c][n] = "completed"
        /\ Done(c, {"apply-workbook"}, {"bad arguments", "no instance", "invalid xml",
                                        "command-failed"}) => loaded = {}

\* "No user changes detected" is never said of a workbook the user did change
\* since the checkpoint, nor is the checkpoint forgotten, even when the instance
\* was replaced by another of the same process id (checkForUserChanges.ts:84).
ChangesAreReported ==
    \A c \in ToolCall : Done(c, {"check-for-user-changes"}, {"no changes", "checkpoint"})
                       => ~call[c].edited

\* The answers about a workbook the user works on at the same time can be relied on.
AnswersAreHonest == AppliedOnce /\ ChangesAreReported

\* Every call ends, however long Desktop takes (localToolExecutor.ts:164).
CallsEnd == \A c \in ToolCall : call[c].at # "idle" ~> At(c, "done")

\* listInstances.ts:20: "Returns available instances with session IDs that can be
\* used in the session parameter of other tools."
ListedAreUsable ==
    [][\A c \in ToolCall : At(c, "idle") /\ At(c, "done")' /\ call'[c].tool = "list-instances"
         => \A p \in call'[c].listed : Reaches(p, Executor(p))]_desktopVars
=============================================================================
