# TLA+ models of the coding tools

This directory models the repository's tools: the ownership ledger that keeps
every child process of the `shell` tool in custody, one `shell` call from
validation to answer, the capture of its output, the `replace` tool with its
crash behaviour, the `read` tool on files that change, worktree paths, the
configuration, and the development command that gates the repository. TLC
checks the models on small instances; TLAPS proves every safety property the
runs check, and the three refinements, for every size.

## The system

| Component | State it keeps | Operations | Interacts with |
|---|---|---|---|
| Ownership ledger (`process.go`) | `closing`, `active`, `reservations`, `owned`, the `drained` channel, the `cleanupToken` channel, a cached terminal failure per record | `beginExecution`, `retain`, `finish`, `waitOwned`, `releaseOwned`, `cleanup`, `retryWaitOwned` | every shell call, the application's lifecycle, `process.Process` |
| Shell call (`shell.go`, `runProcess`, `stopAndJoin`) | two contexts, two directory handles, the lease, `processOutcome` | `Execute`, `prepareProcess`, `runProcess`, `classifyProcessOutcome`, `encodeShellResult` | ledger, resolver, launcher, capture |
| Replace (`replace.go`, `rename_*.go`, `sync_directory_*.go`) | the `commitLease` channel, one temporary file per call | `Execute`, `preflight`, `writeTemporary`, `commitCreate`, `commitReplace`, the two syncs | the file system, other writers, the dispatcher's replays |
| Execution helpers (`execution.go`) | none | argument decoding, progress, kinds of failure, results | all tools |
| Capture (`capture.go`) | bytes left of a shared budget, a buffer and an observed count per stream | `Write`, `snapshot` | the launcher's two writer goroutines, the call's answer |
| Read (`read.go`) | none | one bounded page with size, `next_offset` and digest | the file system, clients that page and replace |
| Paths (`path.go`) | none | `parseRelativePath`, `openRegularFile`, `rejectSymlinkComponents` | all tools; programs that exchange components |
| Configuration (`config.go`) | the allowlist's backing array | `New`, `Config`, `normalize`, `validate` | callers that keep their slices, the tools, `process.NewLookup` |
| Quality gate (`internal/qualitygate`) | temporary files, two snapshots of the repository | the modes of `run`, `bootstrapDependencies`, `commandEnvironment` | child processes, the host environment |
| Manifest, autoconfigure | none | declarations | - |

What is hard here: calls and cleanups interleave on one ledger whose mutex is
released around `Wait`; a launcher may return a process beside an error; stop,
kill, result and join fail independently; two contexts are read at different
moments; a rename follows a check it is not atomic with; a crash may fall
between the commit and its syncs; an answer may be lost and the call replayed;
a process that could not be joined writes while its output is reported; a file
changes between the steps of one page; a slice is shared with a caller.
`PROJECT.json` lists these hazards with their lines and the properties that
watch them.

## Modules

**ProcessCustody** is the abstract promise: a bounded set of processes in
custody, release only of joined processes, and nothing held after a cleanup has
certified the tool.

**ShellOwnership** is the ledger. One step is one critical section of
`ownershipMu`, one channel operation, or one call on a process. `closing`,
`active`, `reservations`, `owned` and `terminal` are the fields of `shellTool`
and `ownedProcess`; `drained` and `token` are the two channels; `pc`,
`reserved`, `record`, `batch` and `failed` are the locals of the goroutines.
`owned` is a set, because the code only asks which records the slice holds; a
call launches at most one process, so records are named by calls. `terminal`
is read before `Wait` (`WaitOwned`), and the result is entered behind it
(`ReleaseOwned`, `CacheTerminal`), so that the unlocked window is visible. The
process is external and follows the contract of
`vendor/github.com/spice-framework/spice-agent/process/process.go`: `Wait`
returns nil only when nothing is left, and a failure may be retryable or
declare that repeating is unsafe. A process may end, or never end.

**ShellCall** is one call in detail: the early returns of `Execute` and
`prepareProcess`, each with the directories it closes, the caller's context and
the command's own timer, `runProcess`, `stopAndJoin`, the outcome record, and
the classification of the outcome in the order of the code. It is checked to
implement the call part of ShellOwnership, which leaves out what a call does
between `retain` and `waitOwned`.

**AtomicFile** is the promise about a file: compare-and-set of whole contents,
and a crash that leaves a content that was current since the last flush.

**Replace** is the replace tool on one target. A content stands for its digest.
The file system is external: `target` is what a reader sees, `disk` the set of
values a loss of power may leave; it grows with each change of the directory entry and
collapses when the directory is synced, and a file that was never synced may
come back torn. Each step is one file operation together with the context
checks directly before it. On the way out the deferred removal of the temporary
file comes before the answer is encoded, and the lease is given back last. A
process that dies leaves the file as it is and what is not synced at risk
(`ProcessDies`); only a loss of power chooses one of `disk` (`PowerLoss`).
`effect` and `lastWriter` are history. External writers and crashes are switched
by constants.

**Capture** is the pair of bounded captures behind one mutex. A byte is its
position in its stream, so that a gap is visible. `Write` is split at the lock
and between the count and the copy; the two snapshots are two steps, and a
process that was given up goes on writing around them.

**Read** is one page: `Open`, `Stat`, the reads in pieces of any size, the
context check and the answer. The path names one of several files: a replacement
gives it a new file and a handle keeps the old one, an append or a rewrite
changes the file behind the handle. A client follows `next_offset`, and may use
a digest as `expected_sha256` of a replacement. Of the replace tool the module
has what matters to another program that writes: `boundedDigest` opens the target
and hashes it in pieces, the digest is compared, and the rename follows as a step
of its own that does not look at what it replaces. Others write between any two
of these steps, as `ARCHITECTURE.md` says they may. The lease is left out: other
calls of the tool are then no better than other programs.

**Encoding** holds the operators that take an output of `read` or `shell` into a
payload, by sizes only: as text, which fits or not within what JSON escaping may
cost, or as base64 in either of the two places that choose it. What
`tool.NewResult` and the encoders do is external.

**Path** is `parseRelativePath` over sequences of components, with
`filepath.Clean` as it works on Unix, a recursion over the components, and the
two passes of
`rejectSymlinkComponents` around the opening of a workdir, one `Lstat` a step,
while others exchange components.

**Config** is the configuration: defaults and bounds over a few numbers, the
allowlist over a few names with given `TrimSpace` and `ToUpper`, and the arrays
behind the slices with who can write them. A root is abstracted to whether it is
absolute; the order of a slice is left out because the code sorts it. It extends
Encoding: a tool that was constructed answers with any output within its bounds,
so that the limit `validate` sets is checked for what it is there for.

**QualityGate** is one run of the gate: a mode is a sequence of gates, a gate a
sequence of steps, each of which succeeds or fails; deferred functions run last
first, join their own error, and remove what was created. A child process gets
the environment computed from the host's.

**`*_proofs`** modules hold the theorems, one for each of ShellOwnership,
ShellCall, Replace, Capture, Read, Path, Config (with Encoding) and QualityGate.
`MC*` modules add the symmetry sets and the values of constants for TLC.

Names follow the source. Operators marked as mutants in a comment are faulty
variants of the definition behind them; no specification uses them. They are
what the properties are tested against: with the variant in place of the
definition, TLC finds the property violated.

## Runs

| Run | Module and configuration | Shows |
|---|---|---|
| `shell_ownership` | MCShellOwnership, ShellOwnership.cfg | five invariants of the ledger and the refinement of ProcessCustody; 4 calls, 2 cleanups, bound 2 |
| `shell_liveness` | ShellLiveness.cfg | a closing tool drains; a cancelled cleanup returns, an uncancelled one when processes end; 2 calls, 2 cleanups |
| `shell_call` | MCShellCall, ShellCall.cfg | what each answer promises, handles, termination once the caller's callbacks have returned, and that the call implements the ledger's view of it |
| `replace_races` | MCReplace, ReplaceRaces.cfg | answers, lease, durability, cleanup and replays with other writers and crashes |
| `replace_atomic` | ReplaceAtomic.cfg | Replace refines AtomicFile when nobody else writes; every call is answered |
| `replace_durable_noop` | ReplaceDurable.cfg | violation: a no-op says `durable=true` although the entry was never synced |
| `replace_replay_aba` | ReplaceReplay.cfg | violation: a replay commits again when the expected content was put back |
| `capture` | Capture, Capture.cfg | shared bound, prefixes, deterministic metadata, nobody blocks |
| `read` | Read, Read.cfg | pages of a file that is replaced as a whole are slices of one content and join; a digest is that of a content the path had, also when the file grows; a replacement under a digest loses at most what others write between its check and its rename; paging ends |
| `path` | Path, Path.cfg | acceptance agrees with walking the components; an exchanged component stops the launch |
| `config` | MCConfig, Config.cfg | callers cannot change a suite or a tool through shared slices; a Windows allowlist never clashes; every output within its bound is delivered, with a true label |
| `quality_gate` | MCQualityGate, QualityGate.cfg | earned success, reported changes, removed temporaries, offline children |

Run one with `tlc -config ShellOwnership.cfg MCShellOwnership`.

The two violations are disagreements with the documentation, quoted in
`PROJECT.json`. In the first, a call commits and its parent sync fails; a later
call with the same digest and content takes the no-op branch, which answers
`durable=true` without a sync. In the second, a replacement is undone by
another call, and its replay finds the expected digest again. What does hold of
replays is `ReplayIsIdempotent`: no second effect while the call's own change
is the last one.

Some observations that are no properties. A file rewritten in place while it is
read may give a page, and a digest, of bytes the path never had together;
`NoLostUpdate` shows that even a replacement under such a digest loses nothing
that was written before its check. What another program writes between the check
and the rename is lost; the repository documents this, and the property says no
more than that. On
systems other than Windows an allowlist with two spellings of a name is accepted
although `process.NewLookup` refuses an environment that has both. When closing
the coverage profile fails, its removal is not deferred yet, and the file stays
behind a run that fails. Spaces are looked for before `filepath.Clean`, which may
bring one to the end: `"a /."` is accepted and displayed as `"a "`, which is
refused as the next request, and a root `"/a /."` becomes `"/a "`, or `"/a"` when
a tool is built from `Suite.Config`.

### Bounds

`MaximumOwnedShells` is 2 (128 in the code): with 4 calls, calls are refused at
the limit, records and reservations fill it in every mixture, and a place freed
by a join is taken again. Two cleanups suffice for every conflict the token
decides, since it has one holder. `MaximumRenameAttempts` is 2 (64): one retry
and one last attempt. Two contents and two calls let one call undo the other;
an operation's before and after may be equal, absent or different. Replays are
unbounded.

Capture has a budget of 3 bytes, chunks of 1 to 3 and 6 bytes a stream: either
stream can exhaust the budget alone, in the middle of a chunk, and write on; a
counter saturates at 4. Read has pages of at most 2 bytes, files of 0 to 3 and 2
changes: an end exactly on a page and one byte behind it, three pages, a change
on each side of any step; one client, because others are writers to it. Path has
3 names, requests of 4 components and 2 exchanges: one before and one behind a
look. Config has a payload of 20 bytes with an envelope of 1, close to the least
room `EnvelopeAssumption` leaves for the base64 of half a payload, 4 names, among
them two spellings and one with a space, limits below, at and above the bounds,
4 arrays and one write, which is enough to reach a shared array. QualityGate has
every mode and step of the code.

Nothing else is cut off: all state spaces are exhausted. The safety
runs use symmetry over interchangeable calls and cleanups; the liveness runs do
not.

### Fairness

A shell call gets weak fairness for its own steps: between two of them lie only
local code, local file operations, and operations under `processStopGrace`,
`processForceWait` or the command timeout (a timer, with weak fairness in
ShellCall). Two calls of injected code are under none of these, because they come
before the command timeout exists and have the caller's context alone: the
receiver of progress (`execution.go:83`) and the resolver (`shell.go:219`).
ShellCall assumes nothing of them: its `EveryCallIsAnswered` holds without a
premise from `preparing` on, and from `validated` under the premise
`CallbacksReturn`. ShellOwnership has the preparation as one stretch in front of
the launch, and its fairness assumes that the resolver, by its contract a local
lookup without network access, returns; `ClosingDrains` and `CleanupReturns` rest
on that. Nothing is assumed
of a process: it may never end, and `Wait` may never succeed. A cleanup's
`Wait` is forced to return only when its context is done, as the contract of
`Process` says. `retryWaitOwned`'s `ctx.Done` case gets strong fairness: its
select competes with a fresh 10 ms timer, and when both are ready Go chooses at
random. Only the property `CleanupReturns` adds, as its premise `Cooperation`,
that processes end and that a repeated `Wait` on an ended process succeeds. In
Replace, `AcquireLease` gets strong fairness because the Go runtime serves the
waiting senders of a channel in order. In Capture, a writer and a snapshot that wait for the mutex get strong
fairness (a `sync.Mutex` enters starvation mode after a millisecond); the process
is free to stop writing or to go on. In Read, file operations return, the client asks for the next page and its
receiver of progress lets the call begin; `MaxChanges` excludes a file that grows for ever,
which no bound of the code does.

## Proofs

`tlapm M_proofs.tla` checks the theorems about module M. Each module proves
`Invariance`, that its `Inv` is inductive, with one lemma per action; the
properties of the runs follow from it under the same names the runs use. None of
them is inductive by itself; what each `Inv` adds is said below. Bounds that
only keep TLC's state space finite are constants of the proofs too, so a theorem
holds for every value of them.

**ShellOwnership**, for any set of calls and of cleanups, finite or not, and any
positive bound. That `Wait` is exclusive needs to know which goroutine may have
which record in hand, which needs the token, the drained channel, and that no
call holds a lease behind it, which needs that `active` counts the leases. `Inv`
joins the type invariant with `CountInv` (the counters are cardinalities of the
sets of leases and reservations, and records plus reservations stay within the
bound), `LeaseInv` (how long a reservation lasts, and that a call that joins
still has its record), `ProcInv` (what the ledger says of a process), `HandInv`
(what a goroutine knows of the process it works on), `DrainInv` and `SweepInv`
(one cleanup sweeps, and unless it failed, what is owned is what it still has to
take). From it come `TypeCorrect`, `BoundedCustody`, `NothingOrphaned`,
`ExclusiveJoin`, `DrainBarrier`, `CleanCleanup`, and `Refinement`: the ledger
implements ProcessCustody. `Launch` is the return of `Start`, `Join` of `Wait`,
`Release` is `releaseOwned`; `Close` and `Seal` happen in `cleanup`'s first
critical section and in the last `finish`, and `Certify` when the first cleanup
returns nil.

**ShellCall.** An answer is composed long after what it claims has happened, so
`Inv` carries it along: `ProcInv` and `LeaseInv` say where the process and the
call's share of the counters are at each point of the code, `HandleInv` which
directories are open, `ContextInv` how the two contexts and the copy of one of
them are related, `OutcomeInv` what each field of `processOutcome` stands for,
and `AnswerInv` what an answer claims from the moment it is composed. It gives
`JoinedResults`, `DefinitiveFailures`, `TruthfulInterruption`, `EarnedOk` and
`HeldDirectories`. `ImplementsLedger` is the refinement of ShellOwnership with
this one call: `retain`, `Wait`, `releaseOwned`, the caching of a terminal
failure and `finish` are steps of the ledger, everything else leaves it alone.

**Replace**, for any calls and contents and any positive number of rename
attempts, with other writers, crashes and replays. `LeaseInv` says that whoever
is between the preflight and the last sync holds the lease; `EffectInv` relates
the answer as far as it is known to the effect; `TempInv` follows the temporary
file, which is synced before the commit; `CommitInv` keeps what the way to the
commit has established (the content would change, and the call's own change is
not the last one); `FileInv` says that the file is what its last writer made of
it, and that an answer with `durable=true` on its way has been confirmed. It
gives `TruthfulAnswers`, `LeaseExclusion` and `CleanTemporaries`, and the action
properties `CreateIsExclusive`, `IdempotentReplay` and `DurableAnswers`.
`AtomicUpdates` is the refinement of AtomicFile, under the hypothesis that nobody
else writes, as in run `replace_atomic`; the lease is what makes the check before
the rename hold at the rename.

**Capture**, for any budget, chunk size and amount of output. `WriterInv` says
that the budget a Write computed its share from is still the budget it takes it
from, because it has the mutex; `PrefixInv` that a stream keeps a prefix of what
its finished Writes carried, all of it unless the budget is used up; `CountInv`
that the counter is the saturated length; `AnswerInv` that behind a join nothing
is written, so that a visible answer shows what the streams hold. It gives
`BoundedPrefix` and `DeterministicMetadata`.

**Read**, for any clients, page bound, lengths and number of changes. A `Slice`
is a part at a place of a whole, and a handful of lemmas says how slices are
read on, cut and joined, and that appending to the whole keeps them. `HandleInv`:
the file behind a handle is a content the path had since it was opened, also
when it has lost its name. `DataInv`: unless the file was rewritten, what was
read is a slice of it, and the size is that of a content that was seen and is
still its prefix; this is why a digest is good even when the file grows. `ViewInv`:
the client's pages are as long as the offset they have come to, so that a page
with a digest is the first. `CheckInv`: a digest that is kept is that of the pages
in hand, and what a check that passed has hashed is a content the path had since
the check opened it, unless the file was rewritten. It gives `OneContent`, `JoinedPages` and the action
property `NoUpdateIsLost`.

**Path**, for any names and any length of a request. `StaysInside` needs to know
what `Clean` computes, by induction over the components of the request. The
library's induction theorems take a predicate, which no backend can instantiate;
`UpTo` states induction about a set of numbers instead and follows from the
well-foundedness of `<`. With it, `CleanedExists` shows that the recursion
defines a function, and `CleanFollows` what it is: some parents and names behind
them, which balance the names and parents seen so far, and a parent is left
exactly if the request has been above the worktree. `NoticedSwaps` follows from
`SeenInv`: what the second look has passed is a directory or was exchanged
behind it.

**Config**, for any names, any `TrimSpace` and `ToUpper`, any payload size.
`Inv` says that every configuration a suite or a tool has was accepted by
`validate`, that its slice is one no caller can write, and the two invariants of
the run. It gives `UsableAllowlist`, `DeliveredOutputs` (arithmetic about base64
and the envelope) and the action property `PrivateConfiguration`.

**QualityGate**, for any mode, host environment and number of changes. `StepInv`:
as long as nothing failed, every step the mode requires has passed or is still to
come, and no gate of such a mode may leave steps out. `TemporaryInv`: whatever
exists is about to be deferred, is deferred, or has made the run fail. `EndInv`:
the second snapshot and the exit come behind all gates. Lemmas establish the
steps of every gate, and that the environment of a child has what is forced in
place of what the host has, in whatever spelling. It gives `EarnedSuccess`,
`ReportedChange`, `RemovedTemporaries` and `OfflineChildren`.

### Assumptions

Each is an `ASSUME` of the module it is about, and TLC evaluates it in the runs.
`BoundAssumption`, `AttemptsAssumption`, `BoundsAssumption`, `ReadAssumption` and
`PathAssumption` say that bounds are numbers, positive where the code's constants
and validated configurations are. `DisjointAssumption`, `NoRecordAssumption`,
`CallAssumption`, `ValueAssumption` and `NoneAssumption` keep names, contents and
the marks for their absence apart. `ConfigAssumption` has that `ToUpper` of an
upper-case name is that name, that the defaults of the code are within its own
bounds and that there is room for a slice; `LimitsAssumption` that limits and
timeouts are integers, negative ones included. `EnvelopeAssumption` leaves half a
payload in base64 room beside its envelope, as 1 MiB and a JSON object of fixed
fields do. `KeysAssumption` says that the variables the quality gate forces are
spelled in upper case and are none of the secrets it removes, as its two lists
are.

### Only model-checked

Liveness (`ClosingDrains`, `CanceledCleanupReturns`, `CleanupReturns`,
`EveryCallIsAnswered`, `NothingBlocks`, `PagingEnds`): fairness and `ENABLED` are
outside what the prover supports. The two runs that expect a violation are
counterexamples and need no proof.

## Not modelled

Decoding of arguments, wording and what is in `argv`; a refusal stands for them.
Windows paths (volumes, separators) and NUL bytes in requests. The Windows
`syncDirectory`, which does nothing, so that `DurableCommitSurvives` is a
statement about the other platforms. Other programs that write the target
between the last check and the rename are left out of the refinement run
`replace_atomic` only, because the repository documents that interval as open;
`replace_races` and `read` have them. What a step of the quality gate
looks for in a file or in a command's output (the scanners of the release
workflow, the canonical form of the release metadata, the coverage percentage):
functions of one text without state, which the repository's tests cover better
than a model that would restate them. Manifest and autoconfigure are
declarations.

## Plan

1. A theorem that composes ShellCall and ShellOwnership: what a call answers,
   together with what the ledger says of all calls, as `ResultMeansJoined` for
   every call of a tool.
2. Read together with the whole of Replace instead of its check and rename alone,
   with the lease.
3. The lemmas that several proof modules state for themselves (elements of a
   sequence, slices) in one place.
