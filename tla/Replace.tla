------------------------------ MODULE Replace ------------------------------
(***************************************************************************)
(* The replace tool (replace.go) working on one target file: concurrent    *)
(* Execute calls serialized by the commit lease, the preflight, the synced *)
(* temporary file, the link or rename that commits, the retry loop, the    *)
(* two syncs behind the commit and every early return, under cancellation, *)
(* failing file operations, a crash at any step, replays of a call, and    *)
(* (optionally) other programs that write the same file.                   *)
(*                                                                         *)
(* A content stands for its SHA-256 digest.  One step is one file-system   *)
(* operation together with the checks of the context that directly precede *)
(* it.  The file system (external) is a current value of the target and    *)
(* the set of values a loss of power may leave; it grows with every change *)
(* of the directory entry and collapses when the directory is synced.      *)
(***************************************************************************)
EXTENDS Naturals

CONSTANTS Calls,                    \* Execute invocations
          Contents,                 \* whole, bounded file contents
          Absent,                   \* no such file
          Other,                    \* a directory, symbolic link or device
          Torn,                     \* a file whose data never reached the disk
          Nobody,                   \* no call
          MaximumRenameAttempts,    \* maximumRenameAttempts (64 in the code)
          ExternalWriters,          \* other programs write the target
          Crashes                   \* the process or the machine may crash

ASSUME AttemptsAssumption == MaximumRenameAttempts \in Nat \ {0}
ASSUME ModeAssumption == ExternalWriters \in BOOLEAN /\ Crashes \in BOOLEAN
ASSUME ValueAssumption ==
    /\ Absent # Other /\ Absent # Torn /\ Other # Torn
    /\ {Absent, Other, Torn} \cap Contents = {}
    /\ Nobody \notin Calls

VARIABLES
    op,             \* the arguments of each call
    pc,             \* where each call is
    ctxDone,        \* its context is done
    attempt,        \* renames tried so far
    temp,           \* its temporary file
    reply,          \* its answer, visible once the call is done
    lease,          \* the commitLease channel holds its one element
    target, disk,   \* the file, and what a loss of power may leave
    \* history
    effect,         \* whether the call committed: "none", "now" or "before"
    lastWriter      \* the call that changed the target last

fs == <<target, disk, effect, lastWriter>>
vars == <<op, pc, ctxDone, attempt, temp, reply, lease, target, disk, effect,
          lastWriter>>

Values == Contents \cup {Absent, Other, Torn}

(***************************************************************************)
(* create=true asks for an absent target, expected_sha256 for a content;   *)
(* validateReplaceMode admits exactly one of the two.                      *)
(***************************************************************************)
Ops == [before : Contents \cup {Absent}, after : Contents]
Create(c) == op[c].before = Absent

(* The fields of an answer the properties speak of.  kind tells a result   *)
(* with or without a problem, a cancellation (definitive, retry allowed),  *)
(* and an infrastructure failure that is definitive or uncertain.          *)
Answers == [kind : {"none", "ok", "problem", "canceled", "definitive", "uncertain"},
            committed : BOOLEAN, durable : BOOLEAN, cleaned : BOOLEAN]
Answer(kind) ==
    [kind |-> kind, committed |-> FALSE, durable |-> FALSE, cleaned |-> FALSE]

States == {"idle", "leasing", "leased", "statting", "digesting", "prepared",
           "creating", "writing", "syncing", "checking", "restating",
           "linking", "renaming", "waiting", "removing", "flushing",
           "publishing", "unwinding", "encoding", "releasing", "done",
           "crashed"}

(* The states in which a call holds the commit lease. *)
Exclusive == States \ {"idle", "leasing", "done", "crashed"}

Init ==
    /\ op \in [Calls -> Ops]
    /\ pc = [c \in Calls |-> "idle"]
    /\ ctxDone = [c \in Calls |-> FALSE]
    /\ attempt = [c \in Calls |-> 0]
    /\ temp = [c \in Calls |-> "none"]
    /\ reply = [c \in Calls |-> Answer("none")]
    /\ lease = FALSE
    /\ target \in Contents \cup {Absent, Other}
    /\ disk = {target}
    /\ effect = [c \in Calls |-> "none"]
    /\ lastWriter = Nobody

Goto(c, label) == pc' = [pc EXCEPT ![c] = label]
Respond(c, answer) == reply' = [reply EXCEPT ![c] = answer]

(* Leave replace with an error; the deferred calls run next. *)
Return(c, answer) == Respond(c, answer) /\ Goto(c, "unwinding")

(* contextFailure: go on, or leave with the cancellation. *)
Canceled(c) == ctxDone[c] /\ Return(c, Answer("canceled"))
Live(c) == ~ctxDone[c] /\ UNCHANGED reply

-----------------------------------------------------------------------------
(***************************************************************************)
(* Execute up to the commit lease.                                         *)
(***************************************************************************)

(* How a call is refused: a model failure, a receiver of progress that     *)
(* rejects the operation, or a context that is done.                       *)
Refusals(c) ==
    {"problem", "definitive"} \cup (IF ctxDone[c] THEN {"canceled"} ELSE {})

(* validateCall, initialContextOutcome, decodeArguments, the write bound,  *)
(* validateReplaceMode and reportProgress answer before anything happens.  *)
Admit(c) ==
    /\ pc[c] = "idle"
    /\ \/ /\ Goto(c, "done")
          /\ \E kind \in Refusals(c) : Respond(c, Answer(kind))
       \/ Goto(c, "leasing") /\ Live(c)
    /\ UNCHANGED <<op, ctxDone, attempt, temp, lease, fs>>

(* Mutant: the lease is taken whether or not somebody holds it. *)
AcquireAnyway(c) ==
    /\ pc[c] = "leasing"
    /\ lease' = TRUE
    /\ Goto(c, "leased")
    /\ UNCHANGED <<op, ctxDone, attempt, temp, reply, fs>>

(* acquireCommitLease: the select, and the check behind it that returns a  *)
(* lease taken with a done context.                                        *)
AcquireLease(c) ==
    /\ pc[c] = "leasing"
    /\ ~lease
    /\ lease' = TRUE
    /\ Goto(c, "leased")
    /\ UNCHANGED <<op, ctxDone, attempt, temp, reply, fs>>

(* Mutant: a call that was cancelled in the select gives back a lease it   *)
(* never took.                                                             *)
LeaseCanceledReleases(c) ==
    /\ pc[c] = "leasing"
    /\ ctxDone[c]
    /\ lease' = FALSE
    /\ Respond(c, Answer("canceled"))
    /\ Goto(c, "done")
    /\ UNCHANGED <<op, ctxDone, attempt, temp, fs>>

LeaseCanceled(c) ==
    /\ pc[c] = "leasing"
    /\ ctxDone[c]
    /\ Respond(c, Answer("canceled"))
    /\ Goto(c, "done")
    /\ UNCHANGED <<op, ctxDone, attempt, temp, lease, fs>>

(* Mutant: the check behind the select keeps the lease when it fails. *)
CheckLeaseKeeps(c) ==
    /\ pc[c] = "leased"
    /\ \/ ctxDone[c] /\ Respond(c, Answer("canceled")) /\ Goto(c, "done")
       \/ Live(c) /\ Goto(c, "statting")
    /\ UNCHANGED <<op, ctxDone, attempt, temp, lease, fs>>

CheckLease(c) ==
    /\ pc[c] = "leased"
    /\ Canceled(c) \/ (Live(c) /\ Goto(c, "statting"))
    /\ UNCHANGED <<op, ctxDone, attempt, temp, lease, fs>>

-----------------------------------------------------------------------------
(***************************************************************************)
(* replace up to the commit.  Any path or file operation may fail.         *)
(***************************************************************************)

(* parseRelativePath, openWorktree and preflight's Lstat. *)
PreflightLstat(c) ==
    /\ pc[c] = "statting"
    /\ \/ Return(c, Answer("problem"))
       \/ /\ Create(c) /\ target = Absent
          /\ Goto(c, "prepared") /\ UNCHANGED reply
       \/ /\ ~Create(c) /\ target \notin {Absent, Other}
          /\ Goto(c, "digesting") /\ UNCHANGED reply
    /\ UNCHANGED <<op, ctxDone, attempt, temp, lease, fs>>

(* boundedDigest of the target equals expected_sha256. *)
DigestMatches(c) == target = op[c].before

PreflightDigest(c) ==
    /\ pc[c] = "digesting"
    /\ \/ Return(c, Answer("problem"))
       \/ DigestMatches(c) /\ Goto(c, "prepared") /\ UNCHANGED reply
    /\ UNCHANGED <<op, ctxDone, attempt, temp, lease, fs>>

(* The same content again is a successful no-op. *)
Unchanged ==
    [kind |-> "ok", committed |-> FALSE, durable |-> TRUE, cleaned |-> TRUE]

(* Mutant: the same content is written again. *)
PrepareAlways(c) ==
    /\ pc[c] = "prepared"
    /\ Canceled(c) \/ (Live(c) /\ Goto(c, "creating"))
    /\ UNCHANGED <<op, ctxDone, attempt, temp, lease, fs>>

Prepare(c) ==
    /\ pc[c] = "prepared"
    /\ \/ Canceled(c)
       \/ /\ ~ctxDone[c] /\ op[c].after = op[c].before
          /\ Respond(c, Unchanged) /\ Goto(c, "unwinding")
       \/ /\ op[c].after # op[c].before
          /\ Live(c) /\ Goto(c, "creating")
    /\ UNCHANGED <<op, ctxDone, attempt, temp, lease, fs>>

(* writeTemporary: an exclusively created file of an unused name. *)
CreateTemporary(c) ==
    /\ pc[c] = "creating"
    /\ \/ Return(c, Answer("problem")) /\ UNCHANGED temp
       \/ /\ temp' = [temp EXCEPT ![c] = "empty"]
          /\ Goto(c, "writing") /\ UNCHANGED reply
    /\ UNCHANGED <<op, ctxDone, attempt, lease, fs>>

(* writeAndSync; a failure removes the file, as unwinding does. *)
WriteTemporary(c) ==
    /\ pc[c] = "writing"
    /\ \/ (Canceled(c) \/ Return(c, Answer("problem"))) /\ UNCHANGED temp
       \/ /\ Live(c)
          /\ temp' = [temp EXCEPT ![c] = "written"]
          /\ Goto(c, "syncing")
    /\ UNCHANGED <<op, ctxDone, attempt, lease, fs>>

SyncTemporary(c) ==
    /\ pc[c] = "syncing"
    /\ \/ Return(c, Answer("problem")) /\ UNCHANGED temp
       \/ /\ temp' = [temp EXCEPT ![c] = "synced"]
          /\ Goto(c, "checking") /\ UNCHANGED reply
    /\ UNCHANGED <<op, ctxDone, attempt, lease, fs>>

-----------------------------------------------------------------------------
(***************************************************************************)
(* commitPrepared.  The new directory entry becomes visible at once and    *)
(* may or may not outlive a crash; data that was never synced may be lost. *)
(***************************************************************************)
Commit(c) ==
    /\ target' = op[c].after
    /\ disk' = disk \cup {op[c].after}
                    \cup (IF temp[c] = "synced" THEN {} ELSE {Torn})
    /\ effect' = [effect EXCEPT ![c] = "now"]
    /\ lastWriter' = c

Committed ==
    [kind |-> "ok", committed |-> TRUE, durable |-> TRUE, cleaned |-> TRUE]

(* commitCreate: look first, then link, which never replaces a file. *)
CheckCreate(c) ==
    /\ pc[c] = "checking" /\ Create(c)
    /\ \/ Canceled(c)
       \/ Return(c, Answer("problem"))
       \/ target = Absent /\ Live(c) /\ Goto(c, "linking")
    /\ UNCHANGED <<op, ctxDone, attempt, temp, lease, fs>>

(* Mutant: the temporary file is renamed over whatever is there. *)
LinkOver(c) ==
    /\ pc[c] = "linking"
    /\ Commit(c)
    /\ Respond(c, Committed) /\ Goto(c, "removing")
    /\ UNCHANGED <<op, ctxDone, attempt, temp, lease>>

Link(c) ==
    /\ pc[c] = "linking"
    /\ \/ Return(c, Answer("problem")) /\ UNCHANGED fs
       \/ /\ target = Absent
          /\ Commit(c)
          /\ Respond(c, Committed) /\ Goto(c, "removing")
    /\ UNCHANGED <<op, ctxDone, attempt, temp, lease>>

(* One round of commitReplace: digest, Lstat, rename. *)
CheckDigest(c) ==
    /\ pc[c] = "checking" /\ ~Create(c)
    /\ \/ Canceled(c)
       \/ Return(c, Answer("problem"))
       \/ DigestMatches(c) /\ Live(c) /\ Goto(c, "restating")
    /\ UNCHANGED <<op, ctxDone, attempt, temp, lease, fs>>

CheckRegular(c) ==
    /\ pc[c] = "restating"
    /\ \/ Return(c, Answer("problem"))
       \/ target \notin {Absent, Other} /\ Goto(c, "renaming") /\ UNCHANGED reply
    /\ UNCHANGED <<op, ctxDone, attempt, temp, lease, fs>>

Rename(c) ==
    /\ pc[c] = "renaming"
    /\ ~ctxDone[c]
    /\ Commit(c)
    /\ temp' = [temp EXCEPT ![c] = "none"]
    /\ Respond(c, Committed) /\ Goto(c, "flushing")
    /\ UNCHANGED <<op, ctxDone, attempt, lease>>

MayRetry(c) == attempt[c] < MaximumRenameAttempts - 1

(* The rename fails, or the context is done: only a retryable error before *)
(* the last attempt leads to another round.                                *)
RenameFails(c) ==
    /\ pc[c] = "renaming"
    /\ \/ (Canceled(c) \/ (~ctxDone[c] /\ Return(c, Answer("problem"))))
             /\ UNCHANGED attempt
       \/ /\ MayRetry(c)
          /\ attempt' = [attempt EXCEPT ![c] = @ + 1]
          /\ Live(c) /\ Goto(c, "waiting")
    /\ UNCHANGED <<op, ctxDone, temp, lease, fs>>

(* waitForRenameRetry. *)
WaitForRenameRetry(c) ==
    /\ pc[c] = "waiting"
    /\ Canceled(c) \/ (Goto(c, "checking") /\ UNCHANGED reply)
    /\ UNCHANGED <<op, ctxDone, attempt, temp, lease, fs>>

-----------------------------------------------------------------------------
(***************************************************************************)
(* Behind the commit nothing is cancelled any more.                        *)
(***************************************************************************)

(* Remove may fail and leave the file; "stuck" records that it did. *)
Remove(c) == \E left \in {"none", "stuck"} : temp' = [temp EXCEPT ![c] = left]

(* Mutant: the error of Remove is ignored. *)
RemoveUnchecked(c) ==
    /\ pc[c] = "removing"
    /\ Remove(c)
    /\ Goto(c, "flushing")
    /\ UNCHANGED <<op, ctxDone, attempt, reply, lease, fs>>

RemoveLinked(c) ==
    /\ pc[c] = "removing"
    /\ Remove(c)
    /\ reply' = [reply EXCEPT ![c].cleaned = (temp'[c] = "none")]
    /\ Goto(c, "flushing")
    /\ UNCHANGED <<op, ctxDone, attempt, lease, fs>>

(* Mutant: the context is looked at once more behind the commit. *)
SyncCancelable(c) ==
    /\ pc[c] = "flushing"
    /\ \/ Canceled(c)
       \/ Live(c) /\ Goto(c, "publishing")
    /\ UNCHANGED <<op, ctxDone, attempt, temp, lease, fs>>

SyncCommittedFile(c) ==
    /\ pc[c] = "flushing"
    /\ \/ UNCHANGED reply
       \/ reply' = [reply EXCEPT ![c].durable = FALSE]
    /\ Goto(c, "publishing")
    /\ UNCHANGED <<op, ctxDone, attempt, temp, lease, fs>>

(* Mutant: a failed sync of the parent directory is not reported. *)
SyncParentUnchecked(c) ==
    /\ pc[c] = "publishing"
    /\ disk' = {target} \/ UNCHANGED disk
    /\ Goto(c, "unwinding")
    /\ UNCHANGED <<op, ctxDone, attempt, temp, reply, lease, target, effect,
                   lastWriter>>

SyncParent(c) ==
    /\ pc[c] = "publishing"
    /\ \/ disk' = {target} /\ UNCHANGED reply
       \/ reply' = [reply EXCEPT ![c].durable = FALSE] /\ UNCHANGED disk
    /\ Goto(c, "unwinding")
    /\ UNCHANGED <<op, ctxDone, attempt, temp, lease, target, effect, lastWriter>>

(* The deferred calls of replace remove what is left of the temporary      *)
(* file; an error is answered at once, a content is encoded first.         *)
Unwind(c) ==
    /\ pc[c] = "unwinding"
    /\ IF temp[c] = "none" THEN UNCHANGED temp ELSE Remove(c)
    /\ Goto(c, IF reply[c].kind = "ok" THEN "encoding" ELSE "releasing")
    /\ UNCHANGED <<op, ctxDone, attempt, reply, lease, fs>>

(* An update that is not durable, or left its temporary file, is reported  *)
(* as a problem.                                                           *)
Confirmed(answer) ==
    [answer EXCEPT !.kind =
        IF answer.durable /\ answer.cleaned THEN "ok" ELSE "problem"]

(* A result that cannot be encoded is an infrastructure failure, uncertain *)
(* exactly when the update was committed.                                  *)
Encode(c) ==
    /\ pc[c] = "encoding"
    /\ \/ Respond(c, Confirmed(reply[c]))
       \/ Respond(c, Answer(IF reply[c].committed THEN "uncertain" ELSE "definitive"))
    /\ Goto(c, "releasing")
    /\ UNCHANGED <<op, ctxDone, attempt, temp, lease, fs>>

(* The deferred call of Execute gives the lease back. *)
Release(c) ==
    /\ pc[c] = "releasing"
    /\ lease' = FALSE
    /\ attempt' = [attempt EXCEPT ![c] = 0]
    /\ Goto(c, "done")
    /\ UNCHANGED <<op, ctxDone, temp, reply, fs>>

-----------------------------------------------------------------------------
(***************************************************************************)
(* The environment.                                                        *)
(***************************************************************************)
Cancel(c) ==
    /\ ~ctxDone[c]
    /\ pc[c] \notin {"done", "crashed"}
    /\ ctxDone' = [ctxDone EXCEPT ![c] = TRUE]
    /\ UNCHANGED <<op, pc, attempt, temp, reply, lease, fs>>

(* The acknowledgement was lost, or the process went down: the dispatcher  *)
(* sends the same call again.                                              *)
Replay(c) ==
    /\ pc[c] \in {"done", "crashed"}
    /\ Goto(c, "idle")
    /\ ctxDone' = [ctxDone EXCEPT ![c] = FALSE]
    /\ temp' = [temp EXCEPT ![c] = "none"]
    /\ Respond(c, Answer("none"))
    /\ effect' = [effect EXCEPT ![c] = IF @ = "now" THEN "before" ELSE @]
    /\ UNCHANGED <<op, attempt, lease, target, disk, lastWriter>>

(* Another program replaces the target by a file of its own. *)
ExternalWrite ==
    /\ ExternalWriters
    /\ \E value \in (Contents \cup {Absent, Other}) \ {target} :
          /\ target' = value
          /\ disk' = disk \cup {value}
    /\ lastWriter' = Nobody
    /\ UNCHANGED <<op, pc, ctxDone, attempt, temp, reply, lease, effect>>

(* The process dies.  A call in flight never answers and its locals are    *)
(* gone, except for a temporary file nobody removes; the next process has  *)
(* a new lease.                                                            *)
InFlight(c) == pc[c] \notin {"idle", "done", "crashed"}

Dies ==
    /\ Crashes
    /\ pc' = [c \in Calls |-> IF InFlight(c) THEN "crashed" ELSE pc[c]]
    /\ reply' = [c \in Calls |-> IF InFlight(c) THEN Answer("none") ELSE reply[c]]
    /\ temp' = [c \in Calls |->
                   IF InFlight(c) /\ temp[c] # "none" THEN "stuck" ELSE temp[c]]
    /\ attempt' = [c \in Calls |-> 0]
    /\ ctxDone' = [c \in Calls |-> ctxDone[c] /\ ~InFlight(c)]
    /\ lease' = FALSE
    /\ UNCHANGED <<op, effect>>

(* Only the process: the file stays, and what is not synced stays at risk. *)
ProcessDies == Dies /\ UNCHANGED <<target, disk, lastWriter>>

(* The machine with it. *)
PowerLoss ==
    /\ Dies
    /\ \E value \in disk : target' = value /\ disk' = {value}
    /\ lastWriter' = Nobody

-----------------------------------------------------------------------------
CallStep(c) ==
    \/ Admit(c) \/ AcquireLease(c) \/ LeaseCanceled(c) \/ CheckLease(c)
    \/ PreflightLstat(c) \/ PreflightDigest(c) \/ Prepare(c)
    \/ CreateTemporary(c) \/ WriteTemporary(c) \/ SyncTemporary(c)
    \/ CheckCreate(c) \/ Link(c)
    \/ CheckDigest(c) \/ CheckRegular(c) \/ Rename(c) \/ RenameFails(c)
    \/ WaitForRenameRetry(c)
    \/ RemoveLinked(c) \/ SyncCommittedFile(c) \/ SyncParent(c)
    \/ Unwind(c) \/ Encode(c) \/ Release(c)

Next ==
    \/ \E c \in Calls : CallStep(c) \/ Cancel(c) \/ Replay(c)
    \/ ExternalWrite
    \/ ProcessDies \/ PowerLoss

Spec == Init /\ [][Next]_vars

(***************************************************************************)
(* A call's steps are finite file operations or bounded waits.  The lease  *)
(* is a channel, whose waiting senders the Go runtime serves in order.     *)
(***************************************************************************)
FairSpec ==
    /\ Spec
    /\ \A c \in Calls : WF_vars(CallStep(c)) /\ SF_vars(AcquireLease(c))

-----------------------------------------------------------------------------
(***************************************************************************)
(* Properties.                                                             *)
(***************************************************************************)

(* The type of every variable; attempt stays below the bound of the loop. *)
TypeOK ==
    /\ op \in [Calls -> Ops]
    /\ pc \in [Calls -> States]
    /\ ctxDone \in [Calls -> BOOLEAN]
    /\ attempt \in [Calls -> 0 .. MaximumRenameAttempts - 1]
    /\ temp \in [Calls -> {"none", "empty", "written", "synced", "stuck"}]
    /\ reply \in [Calls -> Answers]
    /\ lease \in BOOLEAN
    /\ target \in Values
    /\ disk \subseteq Values
    /\ effect \in [Calls -> {"none", "now", "before"}]
    /\ lastWriter \in Calls \cup {Nobody}

(* An answer never lies about the file: a cancellation, a definitive       *)
(* failure or a problem without committed=true means this call changed     *)
(* nothing, and committed=true or an uncertain failure means it did, even  *)
(* when the context was done in the meantime ("that committed terminal     *)
(* result wins a concurrent cancellation").                                *)
AnswersAreTrue ==
    \A c \in Calls : pc[c] = "done" =>
        (effect[c] = "now" <=> reply[c].committed \/ reply[c].kind = "uncertain")

(* The lease serializes everything from the preflight to the last sync of  *)
(* the calls of one tool.                                                  *)
LeaseIsExclusive ==
    \A c, d \in Calls : pc[c] \in Exclusive /\ pc[d] \in Exclusive => c = d

(* temporary_cleaned=true means that no temporary file is left, and every  *)
(* other answer leaves one only if the file system refused to remove it.   *)
TemporaryIsCleaned ==
    \A c \in Calls : pc[c] = "done" =>
        /\ reply[c].cleaned => temp[c] = "none"
        /\ temp[c] \in {"none", "stuck"}

Commits(c) == effect[c] # "now" /\ effect'[c] = "now"

(* create=true never replaces a file, whoever made it and whenever. *)
CreateNeverOverwrites ==
    [][\A c \in Calls : Commits(c) /\ Create(c) => target = Absent]_vars

(* A replayed call has no second effect unless the file was changed in     *)
(* between by somebody else, or by a loss of power: a process that died    *)
(* behind its commit does not commit again.                                *)
ReplayIsIdempotent == [][\A c \in Calls : Commits(c) => lastWriter # c]_vars

Answered(c) == pc[c] # "done" /\ pc'[c] = "done"

(* An update answered with committed=true and durable=true survives every  *)
(* crash until the file is changed again.                                  *)
DurableCommitSurvives ==
    [][\A c \in Calls :
         /\ Answered(c) /\ lastWriter = c
         /\ reply[c].committed /\ reply[c].durable
         => disk = {op[c].after}]_vars

(* The calls of one tool update the file by atomic compare-and-set, each   *)
(* from the content it was told to expect, and a crash leaves a whole      *)
(* content.                                                                *)
File == INSTANCE AtomicFile
    WITH Clients <- Calls, Requests <- Ops,
         Start <- Contents \cup {Absent, Other},
         request <- op, value <- target, author <- lastWriter,
         recoverable <- disk
AtomicFileSpec == File!Spec

(* Every call is answered, unless the process dies under it: no error path *)
(* keeps the lease, and the rename loop ends.                              *)
EveryCallIsAnswered ==
    \A c \in Calls : pc[c] = "leasing" ~> pc[c] \in {"done", "crashed"}

-----------------------------------------------------------------------------
(***************************************************************************)
(* Two statements of the documentation, taken at their word.               *)
(***************************************************************************)

(* durable=true always stands for a confirmed state of the file, in a      *)
(* no-op answer as well ("whether durability was confirmed").              *)
DurableMeansConfirmed ==
    [][\A c \in Calls : Answered(c) /\ reply[c].durable => disk = {op[c].after}]_vars

(* A replayed call never repeats its effect ("replay after a lost          *)
(* acknowledgement cannot repeat the file effect").                        *)
ReplayNeverRepeats ==
    [][\A c \in Calls : Commits(c) => effect[c] # "before"]_vars

=============================================================================
