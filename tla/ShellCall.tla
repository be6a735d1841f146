----------------------------- MODULE ShellCall -----------------------------
(***************************************************************************)
(* One call of the shell tool, from Execute's validation to its answer     *)
(* (shell.go, runProcess and stopAndJoin of process.go), while its context *)
(* may be done, its command may time out and its process may end at any    *)
(* moment, and every operation on the launcher, the process or the         *)
(* worktree may fail.                                                      *)
(*                                                                         *)
(* One step is one call on the launcher, the process or the file system,   *)
(* one select, one critical section, or a stretch of local code between    *)
(* them.  The other calls and the cleanups of the tool are the subject of  *)
(* ShellOwnership, whose part of a call this module is shown to implement. *)
(***************************************************************************)
EXTENDS Naturals, FiniteSets

CONSTANTS Call, NoRecord    \* this call, and the nil *ownedProcess

ASSUME CallAssumption == Call # NoRecord

VARIABLES
    pc,
    parent,         \* Err() of the caller's context
    timeout,        \* Err() of runProcess's processContext
    perr,           \* the copy of it that interruptedOutcome is given
    handles,        \* the directories held open
    active, reservations,   \* this call's share of the two counters
    reserved,               \* executionLease.reserved
    owned, terminal,        \* its record is in shell.owned, has failed
    outcome,        \* processOutcome
    reply,          \* the answer
    proc,           \* the external process
    stopped         \* history: RequestStop was called

lease == <<active, reservations, reserved>>
ledger == <<active, reservations, reserved, owned, terminal>>
contexts == <<parent, timeout, perr>>
vars == <<pc, parent, timeout, perr, handles, active, reservations, reserved,
          owned, terminal, outcome, reply, proc, stopped>>

(* The fields of processOutcome; an error is present or not. *)
OutcomeFields == {"started", "launchErr", "contextErr", "timedOut", "controlErr",
                  "resultErr", "hasResult", "successful", "waitErr"}
NoOutcome == [field \in OutcomeFields |-> FALSE]

(* A result without or with a problem, or an infrastructure failure that   *)
(* is definitive or uncertain; whether it carries the context's identity,  *)
(* and the fields of shellContent.                                         *)
Kinds == {"none", "ok", "problem", "definitive", "uncertain"}
Replies == [kind : Kinds, context : BOOLEAN, ok : BOOLEAN, timedOut : BOOLEAN,
            cleaned : BOOLEAN]
Reply(kind, context) ==
    [kind |-> kind, context |-> context, ok |-> FALSE, timedOut |-> FALSE,
     cleaned |-> FALSE]

(* The caller's context is cancelled or past its deadline; "expired" is    *)
(* the deadline of the command itself.                                     *)
ContextErrors == {"nil", "canceled", "deadline"}

(***************************************************************************)
(* The process (external): its root runs, has exited (Done is closed), and *)
(* at last leaves nothing behind; Wait then frees it, or declares that     *)
(* repeating Wait is unsafe.                                               *)
(***************************************************************************)
ProcStates == {"none", "running", "exited", "quiet", "freed", "poisoned"}
Done == proc \in {"exited", "quiet"}

States == {"idle", "validated", "opening", "entering", "examining", "resolving",
           "preparing", "prepared", "starting", "launched", "watching", "interrupted",
           "stopping", "grace", "reading", "observing", "joining", "joined",
           "poisoned", "classifying", "encoding", "finishing", "refused", "done"}
Answered == pc \in {"refused", "done"}

Init ==
    /\ pc = "idle"
    /\ parent = "nil" /\ timeout = "nil" /\ perr = "nil"
    /\ handles = {}
    /\ active = 0 /\ reservations = 0 /\ reserved = FALSE
    /\ owned = FALSE /\ terminal = FALSE
    /\ outcome = NoOutcome
    /\ reply = Reply("none", FALSE)
    /\ proc = "none"
    /\ stopped = FALSE

Goto(label) == pc' = label
Answer(r, label) == reply' = r /\ pc' = label

(* A failure of the preparation: each return closes what it names. *)
Unprepared(kind, context, closed) ==
    /\ Answer(Reply(kind, context), "finishing")
    /\ handles' = handles \ closed

-----------------------------------------------------------------------------
(***************************************************************************)
(* Execute up to the execution lease.                                      *)
(***************************************************************************)

(* initialContextOutcome: nothing happened, and the context is why. *)
Cancellation == Reply("definitive", TRUE)

(* validateCall, initialContextOutcome, decodeArguments, validateArgv and  *)
(* parseRelativePath.                                                      *)
Validate ==
    /\ pc = "idle"
    /\ \/ Answer(Reply("problem", FALSE), "refused")
       \/ parent # "nil" /\ Answer(Cancellation, "refused")
       \/ parent = "nil" /\ Goto("validated") /\ UNCHANGED reply
    /\ UNCHANGED <<contexts, handles, ledger, outcome, proc, stopped>>

(* reportProgress fails, or beginExecution refuses. *)
Refuse ==
    /\ pc = "validated"
    /\ \E kind \in {"problem", "definitive"}, context \in BOOLEAN :
          /\ context => kind = "definitive" /\ parent # "nil"
          /\ Answer(Reply(kind, context), "refused")
    /\ UNCHANGED <<contexts, handles, ledger, outcome, proc, stopped>>

BeginExecution ==
    /\ pc = "validated"
    /\ active' = active + 1
    /\ reservations' = reservations + 1
    /\ reserved' = TRUE
    /\ Goto("opening")
    /\ UNCHANGED <<contexts, handles, owned, terminal, outcome, reply, proc,
                   stopped>>

-----------------------------------------------------------------------------
(***************************************************************************)
(* prepareProcess.                                                         *)
(***************************************************************************)
OpenWorktree ==
    /\ pc = "opening"
    /\ \/ Unprepared("problem", FALSE, {})
       \/ handles' = {"workspace"} /\ Goto("entering") /\ UNCHANGED reply
    /\ UNCHANGED <<contexts, ledger, outcome, proc, stopped>>

(* rejectSymlinkComponents and OpenRoot of the work directory. *)
OpenWorkdir ==
    /\ pc = "entering"
    /\ \/ Unprepared("problem", FALSE, {"workspace"})
       \/ /\ handles' = handles \cup {"directory"}
          /\ Goto("examining") /\ UNCHANGED reply
    /\ UNCHANGED <<contexts, ledger, outcome, proc, stopped>>

StatWorkdir ==
    /\ pc = "examining"
    /\ \/ Unprepared("problem", FALSE, {"directory", "workspace"})
       \/ Goto("resolving") /\ UNCHANGED <<handles, reply>>
    /\ UNCHANGED <<contexts, ledger, outcome, proc, stopped>>

(* NewLookup fails, or Resolve does, and then resolutionUncertainty keeps  *)
(* the identity of a context that is done by now.                          *)
Resolve ==
    /\ pc = "resolving"
    /\ \/ Unprepared("definitive", FALSE, {"directory", "workspace"})
       \/ Unprepared("definitive", parent # "nil", {"directory", "workspace"})
       \/ Goto("preparing") /\ UNCHANGED <<handles, reply>>
    /\ UNCHANGED <<contexts, ledger, outcome, proc, stopped>>

(* Mutant: the last of the returns forgets the work directory. *)
PrepareSpecLeaks ==
    /\ pc = "preparing"
    /\ \/ Unprepared("definitive", FALSE, {"directory", "workspace"})
       \/ Unprepared("problem", FALSE, {"workspace"})
       \/ Goto("prepared") /\ UNCHANGED <<handles, reply>>
    /\ UNCHANGED <<contexts, ledger, outcome, proc, stopped>>

(* NewSpec, and the symbolic links once more. *)
PrepareSpec ==
    /\ pc = "preparing"
    /\ \/ Unprepared("definitive", FALSE, {"directory", "workspace"})
       \/ Unprepared("problem", FALSE, {"directory", "workspace"})
       \/ Goto("prepared") /\ UNCHANGED <<handles, reply>>
    /\ UNCHANGED <<contexts, ledger, outcome, proc, stopped>>

-----------------------------------------------------------------------------
(***************************************************************************)
(* runProcess.  processContext is made from the caller's context.          *)
(***************************************************************************)
CheckProcessContext ==
    /\ pc = "prepared"
    /\ timeout' = parent
    /\ perr' = parent
    /\ Goto(IF parent = "nil" THEN "starting" ELSE "interrupted")
    /\ UNCHANGED <<parent, handles, ledger, outcome, reply, proc, stopped>>

(* Start returns no process. *)
StartFails ==
    /\ pc = "starting"
    /\ outcome' = [outcome EXCEPT !.launchErr = TRUE]
    /\ perr' = timeout
    /\ Goto("interrupted")
    /\ UNCHANGED <<parent, timeout, handles, ledger, reply, proc, stopped>>

(* Start returns a process, alone or beside an error. *)
StartReturns ==
    /\ pc = "starting"
    /\ proc' = "running"
    /\ \E launchErr \in BOOLEAN :
          outcome' = [outcome EXCEPT !.started = TRUE, !.launchErr = launchErr]
    /\ Goto("launched")
    /\ UNCHANGED <<contexts, handles, ledger, reply, stopped>>

(* retain and finish both give the reservation back, whichever is first. *)
GiveBackReservation ==
    /\ reservations' = IF reserved THEN reservations - 1 ELSE reservations
    /\ reserved' = FALSE

(* Mutant: a process that comes with an error is not retained. *)
RetainUnlessFailed ==
    /\ pc = "launched"
    /\ IF outcome.launchErr
       THEN perr' = timeout /\ Goto("interrupted") /\ UNCHANGED ledger
       ELSE /\ GiveBackReservation /\ owned' = TRUE
            /\ Goto("watching") /\ UNCHANGED <<perr, active, terminal>>
    /\ UNCHANGED <<parent, timeout, handles, outcome, reply, proc, stopped>>

(* retain, before the launch error is looked at. *)
Retain ==
    /\ pc = "launched"
    /\ GiveBackReservation
    /\ owned' = TRUE
    /\ IF outcome.launchErr
       THEN perr' = timeout /\ Goto("interrupted")
       ELSE UNCHANGED perr /\ Goto("watching")
    /\ UNCHANGED <<parent, timeout, handles, active, terminal, outcome, reply,
                   proc, stopped>>

(* The select of runProcess; with both channels ready either is taken. *)
ProcessDone ==
    /\ pc = "watching"
    /\ Done
    /\ Goto("observing")
    /\ UNCHANGED <<contexts, handles, ledger, outcome, reply, proc, stopped>>

(* Mutant: an expired command is still waited for. *)
ProcessInterruptedWhenDone ==
    /\ pc = "watching"
    /\ timeout # "nil" /\ Done
    /\ perr' = timeout
    /\ Goto("interrupted")
    /\ UNCHANGED <<parent, timeout, handles, ledger, outcome, reply, proc,
                   stopped>>

ProcessInterrupted ==
    /\ pc = "watching"
    /\ timeout # "nil"
    /\ perr' = timeout
    /\ Goto("interrupted")
    /\ UNCHANGED <<parent, timeout, handles, ledger, outcome, reply, proc,
                   stopped>>

(* Mutants: the deadline is looked at before the caller's context, or an   *)
(* expired command is not recorded as one.                                 *)
InterruptSwapped(o) ==
    [o EXCEPT !.timedOut = perr \in {"deadline", "expired"},
              !.contextErr = (perr \notin {"deadline", "expired"} /\ parent # "nil")]
InterruptUnrecorded(o) == [o EXCEPT !.contextErr = (parent # "nil")]

(* interruptedOutcome: the caller's context is read after processContext   *)
(* was, and its error wins.                                                *)
Interrupt(o) ==
    [o EXCEPT !.timedOut = (parent = "nil" /\ perr \in {"deadline", "expired"}),
              !.contextErr = (parent # "nil" \/ perr = "canceled")]

InterruptedOutcome ==
    /\ pc = "interrupted"
    /\ outcome' = Interrupt(outcome)
    /\ Goto(IF outcome.started THEN "stopping" ELSE "classifying")
    /\ UNCHANGED <<contexts, handles, ledger, reply, proc, stopped>>

-----------------------------------------------------------------------------
(***************************************************************************)
(* stopAndJoin, observeAndJoin and waitOwned, each call under a timeout.   *)
(***************************************************************************)
RequestStop ==
    /\ pc = "stopping"
    /\ stopped' = TRUE
    /\ \E err \in BOOLEAN : outcome' = [outcome EXCEPT !.controlErr = err]
    /\ Goto("grace")
    /\ UNCHANGED <<contexts, handles, ledger, reply, proc>>

(* The process is done within processStopGrace, or it is killed. *)
StopGrace ==
    /\ pc = "grace"
    /\ \/ Done /\ UNCHANGED outcome
       \/ \E err \in BOOLEAN :
             outcome' = [outcome EXCEPT !.controlErr = @ \/ err]
    /\ Goto("reading")
    /\ UNCHANGED <<contexts, handles, ledger, reply, proc, stopped>>

(* Result and Validate, of a process that is done. *)
ReadResult ==
    \/ outcome' = [outcome EXCEPT !.resultErr = TRUE]
    \/ \E success \in BOOLEAN :
          outcome' = [outcome EXCEPT !.hasResult = TRUE, !.successful = success]

(* The result, if there is one, and waitOwned up to its call of Wait. *)
ObserveResult ==
    /\ \/ pc = "observing" /\ ReadResult
       \/ pc = "reading" /\ Done /\ ReadResult
       \/ pc = "reading" /\ ~Done /\ UNCHANGED outcome
    /\ Goto("joining")
    /\ UNCHANGED <<contexts, handles, ledger, reply, proc, stopped>>

WaitSucceeds ==
    /\ pc = "joining"
    /\ proc = "quiet"
    /\ proc' = "freed"
    /\ Goto("joined")
    /\ UNCHANGED <<contexts, handles, ledger, outcome, reply, stopped>>

(* processForceWait passes, or Wait fails in a way that can be retried: a  *)
(* call does not retry.                                                    *)
WaitFails ==
    /\ pc = "joining"
    /\ outcome' = [outcome EXCEPT !.waitErr = TRUE]
    /\ Goto("classifying")
    /\ UNCHANGED <<contexts, handles, ledger, reply, proc, stopped>>

WaitFailsTerminally ==
    /\ pc = "joining"
    /\ proc' = "poisoned"
    /\ Goto("poisoned")
    /\ UNCHANGED <<contexts, handles, ledger, outcome, reply, stopped>>

ReleaseOwned ==
    /\ pc = "joined"
    /\ owned' = FALSE
    /\ Goto("classifying")
    /\ UNCHANGED <<contexts, handles, lease, terminal, outcome, reply, proc,
                   stopped>>

CacheTerminal ==
    /\ pc = "poisoned"
    /\ terminal' = TRUE
    /\ outcome' = [outcome EXCEPT !.waitErr = TRUE]
    /\ Goto("classifying")
    /\ UNCHANGED <<contexts, handles, lease, owned, reply, proc, stopped>>

-----------------------------------------------------------------------------
(***************************************************************************)
(* The answer.                                                             *)
(***************************************************************************)

(* capturedShellContent: the fields the model keeps. *)
Content(kind) ==
    [kind |-> kind, context |-> FALSE,
     ok |-> /\ outcome.hasResult /\ outcome.successful
            /\ ~\/ outcome.resultErr \/ outcome.launchErr \/ outcome.contextErr
                \/ outcome.timedOut \/ outcome.controlErr \/ outcome.waitErr,
     timedOut |-> outcome.timedOut,
     cleaned |-> outcome.started /\ ~outcome.waitErr]

(* classifyProcessOutcome, case by case, with shellInterruptionState. *)
CleanupFailed == outcome.started /\ outcome.waitErr

(* Mutant: every cancellation counts as definitive. *)
CanceledIsDefinitive == Reply("definitive", TRUE)

Interruption ==
    Reply(IF outcome.started THEN "uncertain" ELSE "definitive", TRUE)

(* Mutant: a timeout is reported although the process was not joined. *)
TimeoutHidesCleanup == Content("problem")

Timeout ==
    IF CleanupFailed THEN Reply("uncertain", FALSE) ELSE Content("problem")

LaunchFailure ==
    IF outcome.started THEN Reply("uncertain", FALSE) ELSE Content("problem")

Completion ==
    IF \/ outcome.resultErr \/ CleanupFailed
       \/ outcome.controlErr \/ ~outcome.hasResult
    THEN Reply("uncertain", FALSE)
    ELSE Content(IF outcome.successful THEN "ok" ELSE "problem")

Classification ==
    CASE outcome.contextErr -> Interruption
      [] outcome.timedOut /\ ~outcome.contextErr -> Timeout
      [] outcome.launchErr /\ ~outcome.timedOut /\ ~outcome.contextErr ->
            LaunchFailure
      [] OTHER -> Completion

(* The end of execute: the answer, then the deferred calls that close the  *)
(* directories.                                                            *)
ClassifyProcessOutcome ==
    /\ pc = "classifying"
    /\ reply' = Classification
    /\ Goto(IF Classification.kind \in {"ok", "problem"}
            THEN "encoding" ELSE "finishing")
    /\ handles' = {}
    /\ UNCHANGED <<contexts, ledger, outcome, proc, stopped>>

(* encodeShellResult, in text and then in base64, may fail altogether. *)
EncodeShellResult ==
    /\ pc = "encoding"
    /\ \/ Goto("finishing") /\ UNCHANGED reply
       \/ Answer(Reply("uncertain", FALSE), "finishing")
    /\ UNCHANGED <<contexts, handles, ledger, outcome, proc, stopped>>

(* The deferred finish. *)
Finish ==
    /\ pc = "finishing"
    /\ GiveBackReservation
    /\ active' = active - 1
    /\ Goto("done")
    /\ UNCHANGED <<contexts, handles, owned, terminal, outcome, reply, proc,
                   stopped>>

-----------------------------------------------------------------------------
(***************************************************************************)
(* The environment.                                                        *)
(***************************************************************************)

(* processContext exists from runProcess's first statement to its return. *)
Running == pc \in {"starting", "launched", "watching", "interrupted", "stopping",
                   "grace", "reading", "observing", "joining", "joined", "poisoned"}

(* The caller cancels or its deadline passes; processContext inherits it. *)
CallerDone ==
    /\ parent = "nil"
    /\ ~Answered
    /\ \E err \in {"canceled", "deadline"} :
          /\ parent' = err
          /\ timeout' = IF Running /\ timeout = "nil" THEN err ELSE timeout
    /\ UNCHANGED <<pc, perr, handles, ledger, outcome, reply, proc, stopped>>

CommandTimeout ==
    /\ Running
    /\ timeout = "nil"
    /\ timeout' = "expired"
    /\ UNCHANGED <<pc, parent, perr, handles, ledger, outcome, reply, proc,
                   stopped>>

ProcessAdvances ==
    /\ \/ proc = "running" /\ proc' = "exited"
       \/ proc = "exited" /\ proc' = "quiet"
    /\ UNCHANGED <<pc, contexts, handles, ledger, outcome, reply, stopped>>

AlreadyAnswered == Answered /\ UNCHANGED vars

-----------------------------------------------------------------------------
(* Calls of injected code under the caller's context alone: the receiver   *)
(* of progress, with beginExecution behind it, and the resolver.           *)
Report == Refuse \/ BeginExecution

OwnStep ==
    \/ Validate \/ OpenWorktree \/ OpenWorkdir \/ StatWorkdir \/ PrepareSpec
    \/ CheckProcessContext \/ StartFails \/ StartReturns \/ Retain
    \/ ProcessDone \/ ProcessInterrupted \/ InterruptedOutcome
    \/ RequestStop \/ StopGrace \/ ObserveResult
    \/ WaitSucceeds \/ WaitFails \/ WaitFailsTerminally
    \/ ReleaseOwned \/ CacheTerminal
    \/ ClassifyProcessOutcome \/ EncodeShellResult \/ Finish

Step == Report \/ Resolve \/ OwnStep

Next == Step \/ CallerDone \/ CommandTimeout \/ ProcessAdvances \/ AlreadyAnswered

Spec == Init /\ [][Next]_vars

(***************************************************************************)
(* The call's own steps are local code, local file operations, or calls on *)
(* the launcher and the process under a timeout; the command timeout is a  *)
(* timer.  Nothing is asked of the process, which may run for ever, of the *)
(* receiver of progress or of the resolver.                                *)
(***************************************************************************)
FairSpec == Spec /\ WF_vars(OwnStep) /\ WF_vars(CommandTimeout)

(* The receiver of progress and the resolver return.  No timeout of the    *)
(* tool covers them; that of the command starts behind both.               *)
CallbacksReturn == WF_vars(Report) /\ WF_vars(Resolve)

-----------------------------------------------------------------------------
(***************************************************************************)
(* Properties.                                                             *)
(***************************************************************************)

(* The type of every variable; the counters never go below zero. *)
TypeOK ==
    /\ pc \in States
    /\ parent \in ContextErrors
    /\ {timeout, perr} \subseteq ContextErrors \cup {"expired"}
    /\ handles \subseteq {"workspace", "directory"}
    /\ {active, reservations} \subseteq Nat
    /\ {reserved, owned, terminal, stopped} \subseteq BOOLEAN
    /\ outcome \in [OutcomeFields -> BOOLEAN]
    /\ reply \in Replies
    /\ proc \in ProcStates

(* An ordinary result, with or without a problem, is given only for a      *)
(* command that never started or whose process was joined, and             *)
(* managed_cleanup_completed tells the two apart: whatever fails, a result *)
(* never hides a process that is still running.                            *)
ResultMeansJoined ==
    Answered /\ reply.kind \in {"ok", "problem"} =>
        /\ proc \in {"none", "freed"} /\ ~owned
        /\ reply.cleaned <=> proc = "freed"

(* A definitive failure promises that no process was ever started, so that *)
(* the dispatcher need not suspect an effect.                              *)
DefinitiveMeansNotStarted ==
    Answered /\ reply.kind = "definitive" => proc = "none"

(* A cancellation is reported only when the caller's context was done, a   *)
(* timeout only when the command's own timer expired, whichever fires      *)
(* between the reads of the two contexts.                                  *)
InterruptionIsTrue ==
    Answered =>
        /\ reply.context => parent # "nil"
        /\ reply.timedOut => timeout = "expired" /\ reply.kind = "problem"

(* A result without a problem says ok=true and no other result does, and   *)
(* only a process that ended by itself, successfully, and was joined gets  *)
(* one: the flag and the problem are computed by two different functions.  *)
OkIsEarned ==
    Answered =>
        /\ reply.ok <=> reply.kind = "ok"
        /\ reply.ok => outcome.successful /\ proc = "freed" /\ ~stopped

(* The work directory stays open from before the launch until the process  *)
(* was joined or given up, and no path leaves a directory open.            *)
DirectoriesAreHeld ==
    /\ Running => handles = {"workspace", "directory"}
    /\ Answered => handles = {}

(* Every call whose executable was resolved is answered, even if its       *)
(* process never ends, does not obey and cannot be joined; and so is every *)
(* validated call, if the code that the caller injects returns.            *)
EveryCallIsAnswered ==
    /\ pc = "preparing" ~> Answered
    /\ CallbacksReturn => (pc = "validated" ~> Answered)

(* What ShellOwnership calls the steps of a call. *)
LedgerState ==
    CASE pc \in {"idle", "validated", "refused"} -> "idle"
      [] pc = "launched" -> "launched"
      [] pc \in {"joining", "joined", "poisoned", "done"} -> pc
      [] pc \in {"watching", "stopping", "grace", "reading", "observing"} ->
            "retained"
      [] pc = "interrupted" /\ outcome.started -> "retained"
      [] pc \in {"opening", "entering", "examining", "resolving", "preparing",
                 "prepared", "starting"} -> "leased"
      [] OTHER -> "finishing"

Ledger == INSTANCE ShellOwnership
    WITH Calls <- {Call}, Cleaners <- {}, MaximumOwnedShells <- 1,
         closing <- FALSE, drained <- FALSE, token <- FALSE,
         owned <- IF owned THEN {Call} ELSE {},
         terminal <- [c \in {Call} |-> terminal],
         pc <- [c \in {Call} |-> LedgerState],
         reserved <- [c \in {Call} |-> reserved],
         record <- [c \in {Call} |->
                      IF proc # "none" /\ ~reserved THEN Call ELSE NoRecord],
         batch <- [k \in {} |-> {}],
         failed <- [k \in {} |-> FALSE],
         ctxDone <- [k \in {} |-> FALSE],
         proc <- [c \in {Call} |->
                    IF proc \in {"running", "exited"} THEN "live" ELSE proc]

(* What a call does to the ownership ledger is what ShellOwnership assumes *)
(* of it: the process is retained before anything else is asked of it, it  *)
(* is waited for once on every path, and the lease is given back last.     *)
CallImplementsLedger == Ledger!Spec

=============================================================================
