---------------------------- MODULE QualityGate ----------------------------
(***************************************************************************)
(* One run of the repository's quality gate (internal/qualitygate): the    *)
(* steps of the chosen mode in their order, each of which may fail, the    *)
(* deferred functions that remove temporary files and compare the          *)
(* repository before and after a bootstrap, and the environment every      *)
(* child process gets.                                                     *)
(*                                                                         *)
(* A gate is a sequence of steps; a failing step ends it, its deferred     *)
(* functions run, and no further gate is started.  What a step looks at in *)
(* a file or in a command's output is abstracted to its verdict.           *)
(***************************************************************************)
EXTENDS Naturals, Sequences, FiniteSets

CONSTANTS Modes,            \* values of -mode
          Host,             \* entries <<key, value>> the host may have
          Upper, Sensitive, \* strings.ToUpper; sensitiveEnvironmentKey
          MaxEdits,         \* bound: changes of the repository
          None

(* ToUpper leaves the names that the gate itself sets as they are, and     *)
(* none of them is a secret.                                               *)
ASSUME KeysAssumption ==
    \A key \in {"GOWORK", "GOTOOLCHAIN", "GOFLAGS", "GOPROXY", "GOAUTH",
                "GOPRIVATE", "GONOPROXY", "GONOSUMDB", "GOSUMDB"} :
        Upper[key] = key /\ key \notin Sensitive
ASSUME NoneAssumption == None \notin Nat

VARIABLES
    mode, host,         \* the flag and os.Environ
    gates, steps,       \* gates to come, and the steps left of this one
    deferred,           \* the gate's deferred functions, last one first
    passed, errors,     \* steps that succeeded; the joined error
    temporaries,        \* temporary files and directories that exist
    tree,               \* content of the repository, by number of edits
    before, after,      \* the two snapshots of a bootstrap
    child,              \* environment of the last child process
    expired,            \* the 20 minutes are over
    exit

vars == <<mode, host, gates, steps, deferred, passed, errors, temporaries, tree,
          before, after, child, expired, exit>>
plan == <<mode, host, gates>>

-----------------------------------------------------------------------------
(***************************************************************************)
(* The gates.  Steps that start no child process are listed in InProcess.  *)
(***************************************************************************)
CheckContracts ==
    <<"release-metadata", "release-workflow", "portability", "go.mod",
      "selections", "tools/go.mod", "compatibility">>
Format ==
    <<"go-files", "find-goimports", "goimports", "find-gofumpt", "gofumpt">>
Check ==
    CheckContracts \o Format \o <<"tidy", "tools-tidy", "vet", "test">>
Lint == <<"find-golangci-lint", "golangci-lint", "find-nilaway", "nilaway">>
Security == <<"find-gosec", "gosec", "find-govulncheck", "govulncheck">>
Coverage ==
    <<"packages", "create-profile", "close-profile", "coverage-test",
      "coverage-report", "coverage-total", "coverage-minimum">>
Vendor ==
    <<"create-vendor", "go-mod-vendor", "digest-vendor", "digest-candidate",
      "same-vendor">>
Graph ==
    <<"read-go.mod", "create-graph", "open-graph", "write-graph.mod",
      "read-go.sum", "write-graph.sum", "download">>

InProcess ==
    {CheckContracts[i] : i \in DOMAIN CheckContracts} \cup
    {"go-files", "create-profile", "close-profile", "coverage-total",
     "coverage-minimum", "create-vendor", "digest-vendor", "digest-candidate",
     "same-vendor", "read-go.mod", "create-graph", "open-graph",
     "write-graph.mod", "read-go.sum", "write-graph.sum", "root", "version",
     "before", "mode"}

Verify ==
    <<Check, Lint, Security, <<"race">>, Coverage, Vendor,
      <<"offline-test", "offline-build">>>>

(* execute and run: the repository's root and the version of Go first,     *)
(* then what the mode says.                                                *)
Gates(m) ==
    <<<<"root", "version">>>> \o
    (CASE m = "fast" -> <<<<"release-metadata", "test">>>>
       [] m = "fmt" -> <<Format>>
       [] m = "check" -> <<Check>>
       [] m = "benchmark" -> <<<<"release-metadata", "benchmark">>>>
       [] m = "verify" -> Verify
       [] m = "tools-bootstrap" -> <<<<"before">>, Graph, Graph>>
       [] OTHER -> <<<<"mode">>>>)

networkAllowed(m) == m = "tools-bootstrap"

-----------------------------------------------------------------------------
(***************************************************************************)
(* commandEnvironment.                                                     *)
(***************************************************************************)
Forced(network, step) ==
    {<<"GOWORK", "off">>, <<"GOTOOLCHAIN", "local">>,
     <<"GOFLAGS", IF step \in {"benchmark", "offline-test", "offline-build"}
                  THEN "vendor" ELSE "">>,
     <<"GOPROXY", IF network THEN "proxy.golang.org" ELSE "off">>} \cup
    (IF network THEN {<<"GOAUTH", "off">>, <<"GOPRIVATE", "">>,
                      <<"GONOPROXY", "">>, <<"GONOSUMDB", "">>,
                      <<"GOSUMDB", "sum.golang.org">>} ELSE {}) \cup
    (IF step = "benchmark" THEN {<<"GOSUMDB", "off">>} ELSE {})

(* Mutant: a key of the host is compared as it is spelled. *)
InheritedAsSpelled(forced) ==
    {e \in host : Upper[e[1]] \notin Sensitive /\ \A f \in forced : f[1] # e[1]}

Inherited(forced) ==
    {e \in host :
        Upper[e[1]] \notin Sensitive /\ \A f \in forced : f[1] # Upper[e[1]]}

CommandEnvironment(step) ==
    LET forced == Forced(networkAllowed(mode), step)
    IN  Inherited(forced) \cup forced

-----------------------------------------------------------------------------
Init ==
    /\ mode \in Modes
    /\ host \in SUBSET Host
    /\ gates = Gates(mode) /\ steps = <<>> /\ deferred = <<>>
    /\ passed = {} /\ errors = {} /\ temporaries = {}
    /\ tree = 0 /\ before = None /\ after = None /\ child = {}
    /\ expired = FALSE /\ exit = None

(* The next gate. *)
EnterGate ==
    /\ exit = None /\ steps = <<>> /\ deferred = <<>>
    /\ errors = {} /\ gates # <<>>
    /\ steps' = Head(gates) /\ gates' = Tail(gates)
    /\ UNCHANGED <<mode, host, deferred, passed, errors, temporaries, tree,
                   before, after, child, expired, exit>>

(* What a step that succeeds leaves to be undone. *)
Resource(step) ==
    CASE step = "create-profile" -> {"profile"}
      [] step = "create-vendor" -> {"vendor"}
      [] step = "create-graph" -> {"graph"}
      [] OTHER -> {}

(* Mutant: the directory is only removed once it has been opened. *)
DefersLate(step) ==
    CASE step = "close-profile" -> <<"remove-profile">>
      [] step = "create-vendor" -> <<"remove-vendor">>
      [] step = "open-graph" -> <<"close-graph", "remove-graph">>
      [] OTHER -> <<>>

Defers(step) ==
    CASE step = "close-profile" -> <<"remove-profile">>
      [] step = "create-vendor" -> <<"remove-vendor">>
      [] step = "create-graph" -> <<"remove-graph">>
      [] step = "open-graph" -> <<"close-graph">>
      [] OTHER -> <<>>

(* os.ErrNotExist is no error for go.sum and for the tools module. *)
Skips(step, rest) ==
    CASE step = "read-go.mod" /\ gates = <<>> -> {rest, <<>>}
      [] step = "read-go.sum" -> {rest, Tail(rest)}
      [] OTHER -> {rest}

(* The digests of every file outside .git. *)
sourceTreeDigests == tree

(* Formatting and the download may change the repository. *)
Edits(step) ==
    IF step = "download" \/ (mode = "fmt" /\ step \in {"goimports", "gofumpt"})
    THEN {tree, tree + 1} ELSE {tree}

Spawn(step) ==
    child' = IF step \in InProcess THEN child ELSE CommandEnvironment(step)

Succeed ==
    /\ steps # <<>> /\ Head(steps) # "mode"
    /\ Head(steps) \in InProcess \/ ~expired
    /\ passed' = passed \cup {Head(steps)}
    /\ steps' \in Skips(Head(steps), Tail(steps))
    /\ deferred' = Defers(Head(steps)) \o deferred
    /\ temporaries' = temporaries \cup Resource(Head(steps))
    /\ before' = IF Head(steps) = "before" THEN sourceTreeDigests
               ELSE before
    /\ tree' \in Edits(Head(steps)) /\ tree' <= MaxEdits
    /\ Spawn(Head(steps))
    /\ UNCHANGED <<plan, errors, after, expired, exit>>

FailStep ==
    /\ steps # <<>>
    /\ errors' = errors \cup {Head(steps)}
    /\ steps' = <<>>
    /\ tree' \in Edits(Head(steps)) /\ tree' <= MaxEdits
    /\ Spawn(Head(steps))
    /\ UNCHANGED <<plan, deferred, passed, temporaries, before, after, expired,
                   exit>>

(* Mutant: the deferred function's own error replaces what was returned. *)
Overwrite(failure) == failure

Join(failure) == errors \cup failure

Removed(cleanup) ==
    CASE cleanup = "remove-profile" -> {"profile"}
      [] cleanup = "remove-vendor" -> {"vendor"}
      [] cleanup = "remove-graph" -> {"graph"}
      [] OTHER -> {}

(* A deferred function runs whether or not the gate failed, and its own    *)
(* failure is joined to the error.                                         *)
RunDeferred ==
    /\ steps = <<>> /\ deferred # <<>>
    /\ \/ errors' = Join({}) /\ temporaries' = temporaries \ Removed(Head(deferred))
       \/ errors' = Join({Head(deferred)}) /\ UNCHANGED temporaries
    /\ deferred' = Tail(deferred)
    /\ UNCHANGED <<plan, steps, passed, tree, before, after, child, expired, exit>>

GatesDone == steps = <<>> /\ deferred = <<>> /\ (gates = <<>> \/ errors # {})

(* Mutant: the comparison is left out when the download failed. *)
CompareUnlessFailed == before # None /\ after = None /\ errors = {}

Compares == before # None /\ after = None

(* bootstrapDependencies' deferred comparison. *)
CompareSnapshots ==
    /\ exit = None /\ GatesDone /\ Compares
    /\ after' = sourceTreeDigests
    /\ \/ errors' = errors \cup (IF sourceTreeDigests = before THEN {} ELSE {"modified"})
       \/ errors' = errors \cup {"after"}
    /\ UNCHANGED <<plan, steps, deferred, passed, temporaries, tree, before,
                   child, expired, exit>>

Exit ==
    /\ exit = None /\ GatesDone /\ ~Compares
    /\ exit' = IF errors = {} THEN 0 ELSE 1
    /\ UNCHANGED <<plan, steps, deferred, passed, errors, temporaries, tree,
                   before, after, child, expired>>

(* The deadline: commands are killed from now on. *)
Expire ==
    /\ exit = None /\ ~expired /\ expired' = TRUE
    /\ UNCHANGED <<plan, steps, deferred, passed, errors, temporaries, tree,
                   before, after, child, exit>>

Next ==
    \/ EnterGate \/ Succeed \/ FailStep \/ RunDeferred \/ CompareSnapshots
    \/ Exit \/ Expire

Spec == Init /\ [][Next]_vars

-----------------------------------------------------------------------------
(* A run of verify that ends with 0 has passed every step that the         *)
(* documentation lists, the last one included ("make verify adds ...       *)
(* vendor-offline tests/builds"), also when only a deferred function       *)
(* failed or the deadline fell between two commands.                       *)
SuccessIsEarned ==
    exit = 0 =>
        /\ errors = {} /\ mode # "unknown"
        /\ mode = "verify" =>
              {"compatibility", "gofumpt", "tools-tidy", "vet", "test", "nilaway",
               "govulncheck", "race", "coverage-minimum", "same-vendor",
               "offline-test", "offline-build"} \subseteq passed

(* "It verifies that the repository is byte-for-byte unchanged even when a *)
(* download fails": once the first snapshot is taken, a repository found   *)
(* changed at the end is reported, whatever failed before.                 *)
ChangeIsReported ==
    exit # None /\ before # None =>
        /\ after # None
        /\ after # before => {"modified", "after"} \cap errors # {}

(* A run leaves a temporary file or directory behind only if it could not  *)
(* be removed or closed, and then it fails.                                *)
TemporariesAreRemoved ==
    exit # None /\ temporaries # {} =>
        /\ exit = 1
        /\ errors \cap {"remove-profile", "remove-vendor", "remove-graph",
                        "close-profile"} # {}

(* "This is the only network-enabled quality mode": every other child has  *)
(* GOPROXY=off, in every spelling of the key, and no child gets a secret.  *)
OfflineUnlessBootstrap ==
    \A e \in child :
        /\ Upper[e[1]] \notin Sensitive
        /\ Upper[e[1]] = "GOPROXY" /\ mode # "tools-bootstrap" => e[2] = "off"

=============================================================================
