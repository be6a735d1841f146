------------------------------ MODULE Capture ------------------------------
(***************************************************************************)
(* The bounded capture of a command's output (capture.go): two streams     *)
(* that the launcher's goroutines write concurrently, one budget behind a  *)
(* mutex, and the two snapshots from which shell.go builds the answer.     *)
(*                                                                         *)
(* A byte is its position in its stream.  Writing goes on while the        *)
(* process is not joined: also during and behind the snapshots, when Wait  *)
(* failed.                                                                 *)
(***************************************************************************)
EXTENDS Naturals, Sequences

CONSTANTS Maximum,      \* MaxOutputBytes
          MaxInt,       \* math.MaxInt64
          MaxChunk,     \* bound: bytes of one Write
          MaxWritten    \* bound: bytes a stream ever carries

ASSUME BoundsAssumption ==
    /\ Maximum \in Nat \ {0} /\ MaxInt \in Nat \ {0}
    /\ MaxChunk \in Nat \ {0} /\ MaxWritten \in Nat
    /\ Maximum <= MaxInt

VARIABLES
    mutex,                  \* captureBudget.mutex: its holder, or "free"
    remaining, truncated,   \* captureBudget
    content, observed,      \* boundedCapture, by stream
    chunk,                  \* the length a running Write was called with
    accepted,               \* its local variable
    pc,                     \* where the writer of each stream is
    phase,                  \* where the call is
    joined,                 \* Wait returned nil
    answer,                 \* the fields of shellContent
    written                 \* history: bytes handed to Write

vars == <<mutex, remaining, truncated, content, observed, chunk, accepted, pc,
          phase, joined, answer, written>>
budget == <<mutex, remaining, truncated, content, observed>>
writers == <<chunk, accepted, pc, written>>

Streams == {"stdout", "stderr"}

Init ==
    /\ mutex = "free"
    /\ remaining = Maximum /\ truncated = FALSE
    /\ content = [s \in Streams |-> <<>>]
    /\ observed = [s \in Streams |-> 0]
    /\ chunk = [s \in Streams |-> 0]
    /\ accepted = [s \in Streams |-> 0]
    /\ pc = [s \in Streams |-> "idle"]
    /\ phase = "running" /\ joined = FALSE
    /\ answer = [stdout |-> <<>>, stderr |-> <<>>, stdoutBytes |-> 0,
                 stderrBytes |-> 0, truncated |-> FALSE, visible |-> FALSE]
    /\ written = [s \in Streams |-> 0]

-----------------------------------------------------------------------------
(***************************************************************************)
(* Write, up to the lock, to the count and to the end.                     *)
(***************************************************************************)
Lesser(a, b) == IF a < b THEN a ELSE b

saturatingAdd(left, right) ==
    IF right > MaxInt - left THEN MaxInt ELSE left + right

(* A goroutine of the launcher calls Write; none is left after the join. *)
CallWrite(s) ==
    /\ pc[s] = "idle" /\ ~joined
    /\ \E n \in 1 .. MaxChunk :
          /\ written[s] + n <= MaxWritten
          /\ chunk' = [chunk EXCEPT ![s] = n]
          /\ written' = [written EXCEPT ![s] = @ + n]
    /\ pc' = [pc EXCEPT ![s] = "waiting"]
    /\ UNCHANGED <<budget, accepted, phase, joined, answer>>

Acceptable(s) == Lesser(chunk[s], remaining)

Count(s) ==
    /\ observed' = [observed EXCEPT ![s] = saturatingAdd(@, chunk[s])]
    /\ accepted' = [accepted EXCEPT ![s] = Acceptable(s)]
    /\ pc' = [pc EXCEPT ![s] = "keeping"]
    /\ UNCHANGED <<remaining, truncated, content, chunk, phase, joined, answer,
                   written>>

(* Mutant: each stream has a mutex of its own. *)
LockOwn(s) == pc[s] = "waiting" /\ Count(s) /\ UNCHANGED mutex

Lock(s) == pc[s] = "waiting" /\ mutex = "free" /\ mutex' = s /\ Count(s)

(* value[:accepted]; the first byte of the chunk has this position. *)
Kept(s) == [i \in 1 .. accepted[s] |-> written[s] - chunk[s] + i]

Drops(s) == accepted[s] < chunk[s]

(* Mutant: the unlock is missing on the path that drops bytes. *)
Unlocked(s) == IF Drops(s) THEN mutex ELSE "free"

Unlock(s) == "free"

Keep(s) ==
    /\ pc[s] = "keeping"
    /\ content' = [content EXCEPT ![s] = @ \o Kept(s)]
    /\ remaining' = remaining - accepted[s]
    /\ truncated' = (truncated \/ Drops(s))
    /\ mutex' = Unlock(s)
    /\ chunk' = [chunk EXCEPT ![s] = 0]
    /\ accepted' = [accepted EXCEPT ![s] = 0]
    /\ pc' = [pc EXCEPT ![s] = "idle"]
    /\ UNCHANGED <<observed, phase, joined, answer, written>>

-----------------------------------------------------------------------------
(***************************************************************************)
(* execute: the process is joined or given up; then the output is read,    *)
(* one stream after the other, and shown if the join succeeded.            *)
(***************************************************************************)

(* Wait returns nil only when no writer is left. *)
Join ==
    /\ phase = "running"
    /\ phase' = "stopped"
    /\ \/ (\A s \in Streams : pc[s] = "idle") /\ joined' = TRUE
       \/ UNCHANGED joined
    /\ UNCHANGED <<budget, writers, answer>>

(* Mutant: the output of a process that is still running is shown. *)
ShownAlways == TRUE

(* classifyProcessOutcome: without the join there is no visible output. *)
Shown == joined

SnapshotStdout ==
    /\ phase = "stopped" /\ mutex = "free"
    /\ answer' = [answer EXCEPT !.stdout = content["stdout"],
                                !.stdoutBytes = observed["stdout"],
                                !.truncated = truncated,
                                !.visible = Shown]
    /\ phase' = "half"
    /\ UNCHANGED <<budget, writers, joined>>

SnapshotStderr ==
    /\ phase = "half" /\ mutex = "free"
    /\ answer' = [answer EXCEPT !.stderr = content["stderr"],
                                !.stderrBytes = observed["stderr"],
                                !.truncated = @ \/ truncated]
    /\ phase' = "answered"
    /\ UNCHANGED <<budget, writers, joined>>

Next ==
    \/ \E s \in Streams : CallWrite(s) \/ Lock(s) \/ Keep(s)
    \/ Join \/ SnapshotStdout \/ SnapshotStderr

Spec == Init /\ [][Next]_vars

(* A waiter gets the mutex at last (Go's starvation mode), and nothing     *)
(* else stops a Write or a snapshot.  The process is free.                 *)
FairSpec ==
    /\ Spec
    /\ \A s \in Streams : SF_vars(Lock(s)) /\ WF_vars(Keep(s))
    /\ SF_vars(SnapshotStdout) /\ SF_vars(SnapshotStderr)

-----------------------------------------------------------------------------
Total(f) == f["stdout"] + f["stderr"]
Lengths == [s \in Streams |-> Len(content[s])]

(* Whatever the interleaving, the two streams together never keep more     *)
(* than MaxOutputBytes, what they keep is what the budget has lost, and of *)
(* each it is the beginning, without a gap: once a byte is dropped the     *)
(* budget is used up, and no later one is kept.                            *)
KeptIsBoundedPrefix ==
    /\ Total(Lengths) <= Maximum /\ Total(Lengths) + remaining = Maximum
    /\ \A s \in Streams : \A i \in 1 .. Len(content[s]) : content[s][i] = i

(* "It reports captured/observed byte counts plus deterministic truncation *)
(* metadata": whatever the order of the writes, the counts shown are those *)
(* of the streams, output_truncated means that they exceed the bound, and  *)
(* without it the two streams are shown whole.                             *)
MetadataIsDeterministic ==
    phase = "answered" /\ answer.visible =>
        /\ answer.stdoutBytes = Lesser(written["stdout"], MaxInt)
        /\ answer.stderrBytes = Lesser(written["stderr"], MaxInt)
        /\ answer.truncated <=> Total(written) > Maximum
        /\ ~answer.truncated =>
              /\ Len(answer.stdout) = written["stdout"]
              /\ Len(answer.stderr) = written["stderr"]

(* A full budget never blocks the command or the call: every Write returns *)
(* and both snapshots are taken, also while an unjoined process writes.    *)
NothingBlocks ==
    /\ \A s \in Streams : pc[s] = "waiting" ~> pc[s] = "idle"
    /\ phase = "stopped" ~> phase = "answered"

=============================================================================
