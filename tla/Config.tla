------------------------------- MODULE Config -------------------------------
(***************************************************************************)
(* Configuration (config.go): defaults, bounds, the normal form of the     *)
(* environment allowlist, and who shares its backing array: the caller     *)
(* goes on using and changing the slices it passed or was given, while the *)
(* tools read theirs in every call.  The shell call's use of the allowlist *)
(* (selectedEnvironment), what process.NewLookup makes of it, and the      *)
(* answers that the bounds let through to Encoding are here.               *)
(*                                                                         *)
(* A sorted slice without duplicates is a set; a root only tells whether   *)
(* it is absolute once normalize has trimmed and cleaned it.               *)
(***************************************************************************)
EXTENDS Integers, FiniteSets, Encoding

CONSTANTS Names, Trim, Upper,   \* environment names, TrimSpace and ToUpper
          Invalid,              \* names validate refuses
          DefaultBytes, MaximumTimeout, DefaultTimeout,
          DefaultNames,         \* defaultEnvironmentAllowlist
          Sizes, Timeouts,      \* bounds: limits a caller configures
          MaxSlices, MaxWrites, \* bounds: arrays, and writes of the caller
          None

ASSUME ConfigAssumption ==
    /\ Trim \in [Names -> Names] /\ Upper \in [Names -> Names]
    /\ \A n \in Names : Upper[Upper[n]] = Upper[n]
    /\ (\A names \in SUBSET Names : names # None) /\ MaxSlices \in Nat \ {0}
    /\ DefaultNames \subseteq Names \ Invalid
    /\ DefaultBytes \in 1 .. maximumBytes
    /\ DefaultTimeout \in 1 .. MaximumTimeout

VARIABLES
    windows,        \* runtime.GOOS
    slices,         \* the arrays that exist, in order of creation
    reachable,      \* those the caller can write
    config,         \* the caller's Config
    suite, tool,    \* the configuration of a Suite and of a tool, or None
    result,         \* how the last operation went, and what it answered
    writes          \* writes of the caller so far

vars == <<windows, slices, reachable, config, suite, tool, result, writes>>

Bounds == {"MaxReadBytes", "MaxWriteBytes", "MaxOutputBytes"}

(* An int64 and a time.Duration, of either sign. *)
ASSUME LimitsAssumption == Sizes \subseteq [Bounds -> Int] /\ Timeouts \subseteq Int

Result(kind) == [kind |-> kind, encoding |-> "utf-8", layers |-> 0, text |-> TRUE]

Slice(i) == slices[i]
Created == {i \in DOMAIN slices : slices[i] # None}
NewSlice == Cardinality(Created) + 1
Allocate(names) ==
    /\ NewSlice <= MaxSlices
    /\ slices' = [slices EXCEPT ![NewSlice] = names]

-----------------------------------------------------------------------------
(***************************************************************************)
(* normalize and validate.                                                 *)
(***************************************************************************)
OrDefault(value, default) == IF value = 0 THEN default ELSE value

(* normalize, without the allowlist. *)
Normalize(c) ==
    [c EXCEPT !.bytes = [b \in Bounds |-> OrDefault(@[b], DefaultBytes)],
              !.timeout = OrDefault(@, DefaultTimeout)]

(* Mutant: the case of a name is kept on Windows. *)
NormalizeCase(names) == {Trim[n] : n \in names}

(* normalizeEnvironmentAllowlist. *)
NormalizeNames(names) ==
    {IF windows THEN Upper[Trim[n]] ELSE Trim[n] : n \in names}

Allowlist(names) == NormalizeNames(IF names = {} THEN DefaultNames ELSE names)

Within(value, bound) == value > 0 /\ value <= bound

Valid(c, names) ==
    /\ c.absolute
    /\ \A b \in Bounds : Within(c.bytes[b], maximumBytes)
    /\ Within(c.timeout, MaximumTimeout)
    /\ names \cap Invalid = {}

-----------------------------------------------------------------------------
Init ==
    /\ \E names \in SUBSET Names :
          slices = [i \in 1 .. MaxSlices |-> IF i = 1 THEN names ELSE None]
    /\ reachable = {1}
    /\ windows \in BOOLEAN
    /\ config \in [absolute : BOOLEAN, bytes : Sizes, timeout : Timeouts,
                   names : {1}]
    /\ suite = None /\ tool = None /\ result = Result("none") /\ writes = 0

(* The normalized configuration of a constructor: normalize gives it an    *)
(* array of its own.  The copy validatedConfig makes of it is never shared *)
(* either.                                                                 *)
Construct(c, made) ==
    LET names == Allowlist(Slice(c.names)) IN
    IF ~Valid(Normalize(c), names)
    THEN result' = Result("rejected") /\ made = None /\ UNCHANGED slices
    ELSE /\ result' = Result("accepted")
         /\ Allocate(names)
         /\ made = [Normalize(c) EXCEPT !.names = NewSlice]

New ==
    /\ suite = None
    /\ Construct(config, suite')
    /\ UNCHANGED <<windows, reachable, config, tool, writes>>

(* NewRead, NewReplace and NewShell. *)
NewTool ==
    /\ tool = None
    /\ Construct(config, tool')
    /\ UNCHANGED <<windows, reachable, config, suite, writes>>

(* Mutant: the caller gets the suite's own array. *)
GetConfigShared ==
    /\ suite # None
    /\ config' = suite
    /\ reachable' = reachable \cup {suite.names}
    /\ result' = Result("none")
    /\ UNCHANGED <<windows, slices, suite, tool, writes>>

(* Suite.Config: the caller gets a copy, and may build tools from it. *)
GetConfig ==
    /\ suite # None
    /\ Allocate(Slice(suite.names))
    /\ config' = [suite EXCEPT !.names = NewSlice]
    /\ reachable' = reachable \cup {NewSlice}
    /\ result' = Result("none")
    /\ UNCHANGED <<windows, suite, tool, writes>>

(* The caller changes an array it has. *)
Write ==
    /\ writes < MaxWrites
    /\ \E i \in reachable, names \in SUBSET Names :
          slices' = [slices EXCEPT ![i] = names]
    /\ writes' = writes + 1 /\ result' = Result("none")
    /\ UNCHANGED <<windows, reachable, config, suite, tool>>

(* selectedEnvironment of a host that has these variables, and NewLookup's *)
(* refusal of names that differ only in case.                              *)
Environment(names, host) ==
    {n \in names : IF windows THEN \E h \in host : Upper[h] = Upper[n]
                              ELSE n \in host}
Clash(environment) ==
    \E n, m \in environment : n # m /\ Upper[n] = Upper[m]

(* A shell call prepares its lookup. *)
PrepareLookup ==
    /\ tool # None
    /\ \E host \in SUBSET Names :
          result' = Result(IF Clash(Environment(Slice(tool.names), host))
                           THEN "duplicate" ELSE "lookup")
    /\ UNCHANGED <<windows, slices, reachable, config, suite, tool, writes>>

(* The bounds a page of read, and the output of a command, are held to. *)
PossibleOutputs ==
    Outputs("read", tool.bytes["MaxReadBytes"]) \cup
    Outputs("shell", tool.bytes["MaxOutputBytes"])

(* A tool answers with any output within its bound. *)
Execute ==
    /\ tool # None
    /\ \E o \in PossibleOutputs :
          result' = [kind |-> IF Delivered(o) THEN "answered" ELSE "undelivered",
                     encoding |-> Content(o).encoding,
                     layers |-> Content(o).layers, text |-> o.text]
    /\ UNCHANGED <<windows, slices, reachable, config, suite, tool, writes>>

Next == New \/ NewTool \/ GetConfig \/ Write \/ PrepareLookup \/ Execute

Spec == Init /\ [][Next]_vars

-----------------------------------------------------------------------------
Untouched(c) == c # None => slices'[c.names] = slices[c.names]

(* What a suite and a tool were built with never changes again, whatever   *)
(* the caller writes to the slices it passed in or got back ("the          *)
(* normalized immutable configuration value").                             *)
ConfigurationIsPrivate == [][Untouched(suite) /\ Untouched(tool)]_vars

(* On Windows, whose environment ignores case, the normal form leaves one  *)
(* spelling of each name, so that NewLookup never refuses the environment  *)
(* of a shell call.                                                        *)
AllowlistIsUsable == windows => result.kind # "duplicate"

(* Every output within an accepted bound is delivered, and decodes to what *)
(* it was: after the file was read, or the command has run, no answer is   *)
(* lost because it is too large, the fallback is never applied to base64,  *)
(* and the label says base64 exactly when the content is.                  *)
EveryOutputIsDelivered ==
    /\ result.kind # "undelivered"
    /\ result.encoding = "utf-8" => result.layers = 0 /\ result.text
    /\ result.encoding = "base64" => result.layers = 1

=============================================================================
