--------------------------- MODULE ShellOwnership ---------------------------
(***************************************************************************)
(* The process-ownership ledger of the shell tool (process.go): admission  *)
(* (beginExecution), retention of every process a launcher returns         *)
(* (retain), joining (waitOwned, releaseOwned), the end of a call (finish) *)
(* and the lifecycle cleanup (cleanup, retryWaitOwned), with any number of *)
(* calls and of cleanup invocations running concurrently.                  *)
(*                                                                         *)
(* One step is one critical section of ownershipMu, one channel operation  *)
(* or one call on the external process.  What a call does between its      *)
(* retain and its waitOwned (observe, stop, kill) touches no shared state  *)
(* and is left to the module of a single call.                             *)
(*                                                                         *)
(* A call launches at most one process, so a process and its *ownedProcess *)
(* record carry the name of the call.  shell.owned is a slice; only which  *)
(* records it holds matters to the code, so it is a set here, and cleanup  *)
(* may take the records of its snapshot in any order.                      *)
(***************************************************************************)
EXTENDS Naturals, FiniteSets

CONSTANTS Calls,                \* shell Execute invocations
          Cleaners,             \* lifecycle.Cleanup invocations
          MaximumOwnedShells,   \* maximumOwnedShells (128 in the code)
          NoRecord              \* the nil *ownedProcess

ASSUME BoundAssumption == MaximumOwnedShells \in Nat \ {0}
ASSUME DisjointAssumption == Calls \cap Cleaners = {}
ASSUME NoRecordAssumption == NoRecord \notin Calls

VARIABLES
    \* fields of shellTool, guarded by ownershipMu
    closing, active, reservations, owned, terminal,
    drained,        \* the drained channel has been closed
    token,          \* the cleanupToken channel holds its one element
    \* local state of the goroutines
    pc,             \* where each goroutine is
    reserved,       \* executionLease.reserved of each call
    record,         \* the record a goroutine works on
    batch,          \* the part of cleanup's snapshot not yet taken
    failed,         \* cleanup's failures slice is not empty
    ctxDone,        \* the context of a cleanup is done
    \* the external processes
    proc

ledger == <<closing, active, reservations, owned, terminal>>
cleaning == <<batch, failed, ctxDone>>
vars == <<closing, active, reservations, owned, terminal, drained, token,
          pc, reserved, record, batch, failed, ctxDone, proc>>

Threads == Calls \cup Cleaners

(***************************************************************************)
(* The states of a process as its contract describes them (package process *)
(* of spice-agent): none before Start returns it, live while it or a       *)
(* descendant runs, quiet when Wait may return nil, freed once Wait has,   *)
(* poisoned once Wait has declared that repeating it is unsafe.            *)
(***************************************************************************)
ProcStates == {"none", "live", "quiet", "freed", "poisoned"}

(* A process that was launched and whose Wait has not returned nil. *)
Unjoined(p) == proc[p] \in {"live", "quiet", "poisoned"}

CallStates == {"idle", "rejected", "leased", "launched", "retained",
               "joining", "joined", "poisoned", "finishing", "done"}
CleanerStates == {"idle", "entering", "draining", "looping", "selected",
                  "joining", "joined", "poisoned", "retrying", "checking",
                  "clean", "failed"}

Init ==
    /\ closing = FALSE
    /\ active = 0
    /\ reservations = 0
    /\ owned = {}
    /\ terminal = [p \in Calls |-> FALSE]
    /\ drained = FALSE
    /\ token = FALSE
    /\ pc = [t \in Threads |-> "idle"]
    /\ reserved = [c \in Calls |-> FALSE]
    /\ record = [t \in Threads |-> NoRecord]
    /\ batch = [k \in Cleaners |-> {}]
    /\ failed = [k \in Cleaners |-> FALSE]
    /\ ctxDone = [k \in Cleaners |-> FALSE]
    /\ proc = [p \in Calls |-> "none"]

Goto(t, label) == pc' = [pc EXCEPT ![t] = label]

-----------------------------------------------------------------------------
(***************************************************************************)
(* The life of a call.                                                     *)
(***************************************************************************)

(* Mutant: admission forgets the calls that have not retained yet. *)
AdmitsUncounted == ~closing /\ Cardinality(owned) < MaximumOwnedShells

(* The two refusals of beginExecution are its only ones. *)
Admits == ~closing /\ Cardinality(owned) + reservations < MaximumOwnedShells

Reject(c) ==
    /\ pc[c] = "idle"
    /\ ~Admits
    /\ Goto(c, "rejected")
    /\ UNCHANGED <<ledger, drained, token, reserved, record, cleaning, proc>>

BeginExecution(c) ==
    /\ pc[c] = "idle"
    /\ Admits
    /\ active' = active + 1
    /\ reservations' = reservations + 1
    /\ reserved' = [reserved EXCEPT ![c] = TRUE]
    /\ Goto(c, "leased")
    /\ UNCHANGED <<closing, owned, terminal, drained, token, record, cleaning,
                   proc>>

(* The call ends without a process: preparation failed, the context was    *)
(* already done, or Start returned no process.                             *)
AbandonLaunch(c) ==
    /\ pc[c] = "leased"
    /\ Goto(c, "finishing")
    /\ UNCHANGED <<ledger, drained, token, reserved, record, cleaning, proc>>

(* Start returns a process, with or without an error beside it. *)
StartReturns(c) ==
    /\ pc[c] = "leased"
    /\ proc' = [proc EXCEPT ![c] = "live"]
    /\ Goto(c, "launched")
    /\ UNCHANGED <<ledger, drained, token, reserved, record, cleaning>>

(* Mutant: the reservation is given back once more. *)
GiveBackAlways(c) ==
    /\ reservations' = reservations - 1
    /\ reserved' = [reserved EXCEPT ![c] = FALSE]

(* retain and finish both give the reservation back, whichever is first. *)
GiveBackReservation(c) ==
    /\ reservations' = IF reserved[c] THEN reservations - 1 ELSE reservations
    /\ reserved' = [reserved EXCEPT ![c] = FALSE]

Retain(c) ==
    /\ pc[c] = "launched"
    /\ GiveBackReservation(c)
    /\ owned' = owned \cup {c}
    /\ record' = [record EXCEPT ![c] = c]
    /\ Goto(c, "retained")
    /\ UNCHANGED <<closing, active, terminal, drained, token, cleaning, proc>>

(* Mutant: no call that leaves closes the drained channel. *)
NoneToLeave == FALSE

LastToLeave == closing /\ active' = 0

(* finish, deferred by Execute: the last call to leave a closing tool      *)
(* closes the drained channel.                                             *)
Finish(c) ==
    /\ pc[c] = "finishing"
    /\ GiveBackReservation(c)
    /\ active' = active - 1
    /\ drained' = (drained \/ LastToLeave)
    /\ Goto(c, "done")
    /\ UNCHANGED <<closing, owned, terminal, token, record, cleaning, proc>>

-----------------------------------------------------------------------------
(***************************************************************************)
(* waitOwned, shared by calls and cleanups.  It reads the cached terminal  *)
(* failure, calls Wait outside the mutex, and then either releases the     *)
(* record, caches a terminal failure, or reports a retryable one.          *)
(***************************************************************************)

(* Where waitOwned returns to, unless with a retryable error. *)
AfterWait(t) == IF t \in Calls THEN "finishing" ELSE "checking"

(* The error becomes one of cleanup's failures; a call only reports it. *)
NoteFailure(t) == failed' = [k \in Cleaners |-> failed[k] \/ k = t]

WaitOwned(t) ==
    /\ pc[t] \in {"retained", "selected"}
    /\ \/ /\ terminal[record[t]]
          /\ Goto(t, AfterWait(t))
          /\ NoteFailure(t)
       \/ /\ ~terminal[record[t]]
          /\ Goto(t, "joining")
          /\ UNCHANGED failed
    /\ UNCHANGED <<ledger, drained, token, reserved, record, batch, ctxDone,
                   proc>>

WaitSucceeds(t) ==
    /\ pc[t] = "joining"
    /\ proc[record[t]] = "quiet"
    /\ proc' = [proc EXCEPT ![record[t]] = "freed"]
    /\ Goto(t, "joined")
    /\ UNCHANGED <<ledger, drained, token, reserved, record, cleaning>>

(* Mutant: a failed Wait gives up custody. *)
WaitFailsAndReleases(t) ==
    /\ pc[t] = "joining"
    /\ owned' = owned \ {record[t]}
    /\ Goto(t, IF t \in Calls THEN "finishing" ELSE "retrying")
    /\ UNCHANGED <<closing, active, reservations, terminal, drained, token,
                   reserved, record, cleaning, proc>>

(* A cancelled, unclassified or retryable failure: custody is unchanged. A *)
(* call gives up, retryWaitOwned goes to its timer.                        *)
WaitFails(t) ==
    /\ pc[t] = "joining"
    /\ Goto(t, IF t \in Calls THEN "finishing" ELSE "retrying")
    /\ UNCHANGED <<ledger, drained, token, reserved, record, cleaning, proc>>

WaitFailsTerminally(t) ==
    /\ pc[t] = "joining"
    /\ proc' = [proc EXCEPT ![record[t]] = "poisoned"]
    /\ Goto(t, "poisoned")
    /\ UNCHANGED <<ledger, drained, token, reserved, record, cleaning>>

ReleaseOwned(t) ==
    /\ pc[t] = "joined"
    /\ owned' = owned \ {record[t]}
    /\ Goto(t, AfterWait(t))
    /\ UNCHANGED <<closing, active, reservations, terminal, drained, token,
                   reserved, record, cleaning, proc>>

(* Mutant: a process that cannot be joined is forgotten. *)
CacheAndForget(t) ==
    /\ pc[t] = "poisoned"
    /\ terminal' = [terminal EXCEPT ![record[t]] = TRUE]
    /\ owned' = owned \ {record[t]}
    /\ Goto(t, AfterWait(t))
    /\ NoteFailure(t)
    /\ UNCHANGED <<closing, active, reservations, drained, token, reserved,
                   record, batch, ctxDone, proc>>

CacheTerminal(t) ==
    /\ pc[t] = "poisoned"
    /\ terminal' = [terminal EXCEPT ![record[t]] = TRUE]
    /\ Goto(t, AfterWait(t))
    /\ NoteFailure(t)
    /\ UNCHANGED <<closing, active, reservations, owned, drained, token,
                   reserved, record, batch, ctxDone, proc>>

-----------------------------------------------------------------------------
(***************************************************************************)
(* cleanup.                                                                *)
(***************************************************************************)

(* A nil context is refused before anything is touched. *)
CleanupNilContext(k) ==
    /\ pc[k] = "idle"
    /\ Goto(k, "failed")
    /\ UNCHANGED <<ledger, drained, token, reserved, record, cleaning, proc>>

CleanupBegin(k) ==
    /\ pc[k] = "idle"
    /\ closing' = TRUE
    /\ drained' = (drained \/ active = 0)
    /\ Goto(k, "entering")
    /\ UNCHANGED <<active, reservations, owned, terminal, token, reserved,
                   record, cleaning, proc>>

(* Mutant: cleanups are not serialized. *)
AcquireWithoutToken(k) ==
    /\ pc[k] = "entering"
    /\ token' = TRUE
    /\ Goto(k, "draining")
    /\ UNCHANGED <<ledger, drained, reserved, record, cleaning, proc>>

AcquireToken(k) ==
    /\ pc[k] = "entering"
    /\ ~token
    /\ token' = TRUE
    /\ Goto(k, "draining")
    /\ UNCHANGED <<ledger, drained, reserved, record, cleaning, proc>>

(* Mutant: the deferred receive is missing on the cancelled path. *)
CleanupCanceledKeepsToken(k) ==
    /\ pc[k] \in {"entering", "draining"}
    /\ ctxDone[k]
    /\ Goto(k, "failed")
    /\ UNCHANGED <<ledger, drained, token, reserved, record, cleaning, proc>>

(* Either select of cleanup takes its ctx.Done case; the deferred receive  *)
(* gives back a token that was taken.                                      *)
CleanupCanceled(k) ==
    /\ pc[k] \in {"entering", "draining"}
    /\ ctxDone[k]
    /\ token' = (token /\ pc[k] = "entering")
    /\ Goto(k, "failed")
    /\ UNCHANGED <<ledger, drained, reserved, record, cleaning, proc>>

(* Mutant: the snapshot is taken while calls are in flight. *)
SnapshotUndrained(k) ==
    /\ pc[k] = "draining"
    /\ batch' = [batch EXCEPT ![k] = owned]
    /\ Goto(k, "looping")
    /\ UNCHANGED <<ledger, drained, token, reserved, record, failed, ctxDone,
                   proc>>

(* The drained channel is closed: copy the records owned now. *)
Snapshot(k) ==
    /\ pc[k] = "draining"
    /\ drained
    /\ batch' = [batch EXCEPT ![k] = owned]
    /\ Goto(k, "looping")
    /\ UNCHANGED <<ledger, drained, token, reserved, record, failed, ctxDone,
                   proc>>

NextRecord(k) ==
    /\ pc[k] = "looping"
    /\ \E p \in batch[k] :
          /\ record' = [record EXCEPT ![k] = p]
          /\ batch' = [batch EXCEPT ![k] = @ \ {p}]
    /\ Goto(k, "selected")
    /\ UNCHANGED <<ledger, drained, token, reserved, failed, ctxDone, proc>>

(* retryWaitOwned's select: another attempt, or give up with the context.  *)
RetryTimer(k) ==
    /\ pc[k] = "retrying"
    /\ Goto(k, "selected")
    /\ UNCHANGED <<ledger, drained, token, reserved, record, cleaning, proc>>

(* Mutant: retryWaitOwned goes on retrying with a done context. *)
RetryForever(k) ==
    /\ pc[k] = "retrying"
    /\ ctxDone[k]
    /\ Goto(k, "selected")
    /\ UNCHANGED <<ledger, drained, token, reserved, record, cleaning, proc>>

RetryCanceled(k) ==
    /\ pc[k] = "retrying"
    /\ ctxDone[k]
    /\ NoteFailure(k)
    /\ Goto(k, "checking")
    /\ UNCHANGED <<ledger, drained, token, reserved, record, batch, ctxDone,
                   proc>>

(* After each record the context is looked at; a done context breaks the   *)
(* loop, which leaves nothing more to take.                                *)
CheckContext(k) ==
    /\ pc[k] = "checking"
    /\ failed' = [failed EXCEPT ![k] = @ \/ ctxDone[k]]
    /\ batch' = [batch EXCEPT ![k] = IF ctxDone[k] THEN {} ELSE @]
    /\ record' = [record EXCEPT ![k] = NoRecord]
    /\ Goto(k, "looping")
    /\ UNCHANGED <<ledger, drained, token, reserved, ctxDone, proc>>

CleanupReturn(k) ==
    /\ pc[k] = "looping"
    /\ batch[k] = {}
    /\ token' = FALSE
    /\ Goto(k, IF failed[k] THEN "failed" ELSE "clean")
    /\ UNCHANGED <<ledger, drained, reserved, record, cleaning, proc>>

-----------------------------------------------------------------------------
(***************************************************************************)
(* The environment: a process and its descendants come to an end, and the  *)
(* context of a cleanup is cancelled or reaches its deadline.              *)
(***************************************************************************)
ProcessEnds(p) ==
    /\ proc[p] = "live"
    /\ proc' = [proc EXCEPT ![p] = "quiet"]
    /\ UNCHANGED <<ledger, drained, token, pc, reserved, record, cleaning>>

CancelCleanup(k) ==
    /\ ~ctxDone[k]
    /\ pc[k] \notin {"clean", "failed"}
    /\ ctxDone' = [ctxDone EXCEPT ![k] = TRUE]
    /\ UNCHANGED <<ledger, drained, token, pc, reserved, record, batch,
                   failed, proc>>

-----------------------------------------------------------------------------
CallStep(c) ==
    \/ Reject(c) \/ BeginExecution(c) \/ AbandonLaunch(c) \/ StartReturns(c)
    \/ Retain(c) \/ Finish(c)

WaitStep(t) ==
    \/ WaitOwned(t) \/ WaitSucceeds(t) \/ WaitFails(t)
    \/ WaitFailsTerminally(t) \/ ReleaseOwned(t) \/ CacheTerminal(t)

CleanerStep(k) ==
    \/ CleanupNilContext(k) \/ CleanupBegin(k) \/ AcquireToken(k)
    \/ CleanupCanceled(k) \/ Snapshot(k) \/ NextRecord(k) \/ RetryTimer(k)
    \/ RetryCanceled(k) \/ CheckContext(k) \/ CleanupReturn(k)

(* Every call was answered and every cleanup has returned. *)
AllReturned ==
    /\ \A c \in Calls : pc[c] \in {"rejected", "done"}
    /\ \A k \in Cleaners : pc[k] \in {"clean", "failed"}
    /\ UNCHANGED vars

Next ==
    \/ \E c \in Calls : CallStep(c)
    \/ \E t \in Threads : WaitStep(t)
    \/ \E k \in Cleaners : CleanerStep(k)
    \/ \E p \in Calls : ProcessEnds(p)
    \/ \E k \in Cleaners : CancelCleanup(k)
    \/ AllReturned

Spec == Init /\ [][Next]_vars

(***************************************************************************)
(* Fairness.  A call's own steps are finite.  Behind the launch a stretch  *)
(* between two of them is bounded by a timeout (the command timeout,       *)
(* processStopGrace or processForceWait).  Between beginExecution and the  *)
(* launch the call prepares, under no timeout of the tool: that this comes *)
(* to an end assumes that the injected resolver, a local lookup without    *)
(* network access, returns; ClosingDrains and CleanupReturns need it, and  *)
(* ShellCall has what holds without it.                                    *)
(* A cleanup's Wait is bounded only once its context is done.  The select  *)
(* in retryWaitOwned gets strong fairness for its ctx.Done case: when the  *)
(* context is done the fresh 10ms timer is normally not ready, and when it *)
(* is, select chooses uniformly.                                           *)
(***************************************************************************)
CallAdvances(c) ==
    \/ AbandonLaunch(c) \/ StartReturns(c) \/ Retain(c) \/ Finish(c)
    \/ WaitStep(c)

CleanerAdvances(k) ==
    \/ AcquireToken(k) \/ CleanupCanceled(k) \/ Snapshot(k) \/ NextRecord(k)
    \/ RetryTimer(k) \/ RetryCanceled(k) \/ CheckContext(k) \/ CleanupReturn(k)
    \/ WaitOwned(k) \/ ReleaseOwned(k) \/ CacheTerminal(k)
    \/ (ctxDone[k] /\ WaitFails(k))

Fairness ==
    /\ \A c \in Calls : WF_vars(CallAdvances(c))
    /\ \A k \in Cleaners : WF_vars(CleanerAdvances(k)) /\ SF_vars(RetryCanceled(k))

FairSpec == Spec /\ Fairness

(***************************************************************************)
(* A launcher that keeps its contract to the end: every process ends, and  *)
(* a Wait that is retried on an ended process succeeds at last.            *)
(***************************************************************************)
Cooperation ==
    /\ \A p \in Calls : WF_vars(ProcessEnds(p))
    /\ \A k \in Cleaners : SF_vars(WaitSucceeds(k))

-----------------------------------------------------------------------------
(***************************************************************************)
(* Properties.                                                             *)
(***************************************************************************)

(* The type of every variable.  active and reservations are Go ints: that  *)
(* they never become negative is part of it.                               *)
TypeOK ==
    /\ closing \in BOOLEAN
    /\ active \in Nat
    /\ reservations \in Nat
    /\ owned \subseteq Calls
    /\ terminal \in [Calls -> BOOLEAN]
    /\ drained \in BOOLEAN
    /\ token \in BOOLEAN
    /\ pc \in [Threads -> CallStates \cup CleanerStates]
    /\ \A c \in Calls : pc[c] \in CallStates
    /\ \A k \in Cleaners : pc[k] \in CleanerStates
    /\ reserved \in [Calls -> BOOLEAN]
    /\ record \in [Threads -> Calls \cup {NoRecord}]
    /\ batch \in [Cleaners -> SUBSET Calls]
    /\ failed \in [Cleaners -> BOOLEAN]
    /\ ctxDone \in [Cleaners -> BOOLEAN]
    /\ proc \in [Calls -> ProcStates]

(* However calls and cleanups interleave, at most maximumOwnedShells       *)
(* processes are launched and not joined (beginExecution's reservation     *)
(* stands for a process from before it exists until retain takes over).    *)
UnjoinedProcessBound ==
    /\ IsFiniteSet({p \in Calls : Unjoined(p)})
    /\ Cardinality({p \in Calls : Unjoined(p)}) <= MaximumOwnedShells

(* No process is ever orphaned: one that is not joined is in shell.owned,  *)
(* or the goroutine that just received it from Start is about to retain it.*)
NoOrphan ==
    \A p \in Calls : Unjoined(p) => p \in owned \/ pc[p] = "launched"

(* Wait is never called on a process by two goroutines at once, on one     *)
(* that was joined, or again after it declared that repeating is unsafe    *)
(* ("terminal join failures are cached and never replayed").  Nothing but  *)
(* the order drained-before-snapshot and the token ensures it.             *)
JoinIsExclusive ==
    \A t \in Threads : pc[t] = "joining" =>
        /\ proc[record[t]] \notin {"freed", "poisoned"}
        /\ \A u \in Threads \ {t} :
              pc[u] \in {"joining", "joined", "poisoned"} => record[u] # record[t]

(* A cleanup that returned nil has joined everything, and nothing is       *)
(* launched or owned ever after, whatever calls were in flight.            *)
CleanMeansNothingOwned ==
    (\E k \in Cleaners : pc[k] = "clean") =>
        /\ owned = {}
        /\ \A p \in Calls : ~Unjoined(p)
        /\ \A c \in Calls : pc[c] \in {"idle", "rejected", "done"}

(* The drained channel is closed only when no call holds a lease, and none *)
(* is admitted afterwards: a snapshot taken behind it misses no record.    *)
DrainedMeansQuiescent ==
    drained => \A c \in Calls : pc[c] \in {"idle", "rejected", "done"}

(***************************************************************************)
(* The inductive invariant.  It says what the properties above need of the *)
(* states between: how the two counters count, which records a goroutine   *)
(* may have in hand, and what a cleanup that sweeps behind the drained     *)
(* channel still has to take.                                              *)
(***************************************************************************)
Holding == {"leased", "launched", "retained", "joining", "joined", "poisoned",
            "finishing"}
InHand == {"selected", "joining", "joined", "poisoned", "retrying"}
Sweeping == InHand \cup {"looping", "checking"}

Holders == {c \in Calls : pc[c] \in Holding}
Reserved == {c \in Calls : reserved[c]}

(* The counters count the leases and the reservations. *)
CountInv ==
    /\ IsFiniteSet(Holders) /\ active = Cardinality(Holders)
    /\ IsFiniteSet(Reserved) /\ reservations = Cardinality(Reserved)
    /\ IsFiniteSet(owned)
    /\ Cardinality(owned) + reservations <= MaximumOwnedShells

(* A reservation lasts from admission to retain, or to the end of a call   *)
(* that launched nothing.                                                  *)
LeaseInv ==
    \A c \in Calls :
        /\ pc[c] \in {"leased", "launched"} => reserved[c]
        /\ reserved[c] =>
              pc[c] \in {"leased", "launched", "finishing"} /\ c \notin owned
        /\ pc[c] \in {"retained", "joining", "joined", "poisoned"} =>
              c \in owned /\ record[c] = c

(* What the ledger says of each process. *)
ProcInv ==
    \A p \in Calls :
        /\ pc[p] \in {"idle", "rejected", "leased"} => proc[p] = "none"
        /\ pc[p] = "launched" => proc[p] \in {"live", "quiet"}
        /\ p \in owned => proc[p] # "none"
        /\ Unjoined(p) => p \in owned \/ pc[p] = "launched"
        /\ terminal[p] => proc[p] = "poisoned"
        /\ proc[p] = "poisoned" =>
              terminal[p] \/ \E t \in Threads : pc[t] = "poisoned" /\ record[t] = p
        /\ proc[p] = "freed" /\ p \in owned =>
              \E t \in Threads : pc[t] = "joined" /\ record[t] = p

(* What a goroutine knows of the process it works on. *)
HandInv ==
    \A t \in Threads :
        /\ pc[t] \in {"retained", "selected", "retrying"} => proc[record[t]] # "freed"
        /\ pc[t] = "joining" => proc[record[t]] \in {"live", "quiet"}
        /\ pc[t] = "joined" => proc[record[t]] = "freed"
        /\ pc[t] = "poisoned" => proc[record[t]] = "poisoned"

(* Behind the drained channel no call holds a lease. *)
DrainInv == drained => closing /\ Holders = {}

(* One cleanup at a time sweeps, and misses no record unless it failed. *)
SweepInv ==
    \A k \in Cleaners :
        /\ pc[k] \in Sweeping \cup {"draining"} =>
              /\ token
              /\ \A m \in Cleaners \ {k} : pc[m] \notin Sweeping \cup {"draining"}
        /\ pc[k] \in Sweeping \cup {"clean"} => drained
        /\ pc[k] \in Sweeping => batch[k] \subseteq owned
        /\ pc[k] \in InHand => record[k] \in owned \ batch[k]
        /\ pc[k] \in {"looping", "checking"} /\ ~failed[k] => owned \subseteq batch[k]
        /\ pc[k] \in InHand /\ ~failed[k] => owned \subseteq batch[k] \cup {record[k]}
        /\ pc[k] = "clean" => owned = {}

Inv == TypeOK /\ CountInv /\ LeaseInv /\ ProcInv /\ HandInv /\ DrainInv /\ SweepInv

(* The ledger implements the custody promise. *)
held == owned \cup {c \in Calls : pc[c] = "launched"}
phase == IF \E k \in Cleaners : pc[k] = "clean" THEN "certified"
         ELSE IF drained THEN "sealed"
         ELSE IF closing THEN "closing"
         ELSE "open"
Custody == INSTANCE ProcessCustody
    WITH Processes <- Calls, Capacity <- MaximumOwnedShells,
         joined <- {p \in Calls : proc[p] = "freed"}

(* Every behaviour of the ledger is one ProcessCustody allows: bounded     *)
(* custody, release only after Wait succeeded, nothing after a certified   *)
(* cleanup.                                                                *)
CustodySpec == Custody!Spec

(* finish never misses the last leaving call: a closing tool drains. *)
ClosingDrains == closing ~> drained

(* A cleanup whose context is done returns, wherever it stands: waiting    *)
(* for the token, for the drain, in Wait or between two attempts.          *)
CanceledCleanupReturns ==
    \A k \in Cleaners :
        (pc[k] # "idle" /\ ctxDone[k]) ~> (pc[k] \in {"clean", "failed"})

(* With a launcher that keeps its contract, a cleanup that nobody cancels  *)
(* returns as well: calls and cleanups never wait for one another forever. *)
CleanupReturns ==
    Cooperation =>
        \A k \in Cleaners : (pc[k] # "idle") ~> (pc[k] \in {"clean", "failed"})

=============================================================================
