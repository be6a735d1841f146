-------------------------------- MODULE Path --------------------------------
(***************************************************************************)
(* Worktree paths (path.go): what parseRelativePath makes of a request,    *)
(* and how shell.go's prepareProcess guards a workdir against symbolic     *)
(* links, by looking at each component before the directory is opened and  *)
(* again before the launch, while others may exchange components.          *)
(*                                                                         *)
(* A path is its sequence of components; "a " is a name that ends in a     *)
(* space.  filepath.Clean is external and defined by what it does on Unix. *)
(***************************************************************************)
EXTENDS Naturals, Sequences, SequencesExt, FiniteSets

CONSTANTS Names,        \* file names, "a " among them
          Padded,       \* those that end in a space
          MaxParts,     \* bound: components of a request
          MaxSwaps      \* bound: components exchanged by others

Empty == ""     \* what is between two separators, and behind the last one
Here == "."
Parent == ".."

ASSUME PathAssumption ==
    /\ Padded \subseteq Names /\ Names \cap {Empty, Here, Parent} = {}
    /\ MaxParts \in Nat /\ MaxSwaps \in Nat

VARIABLES requested, allowRoot,     \* the arguments of parseRelativePath
          native,                   \* its result, a sequence of names
          kind,                     \* what Lstat says of each component
          next,                     \* the component to look at
          swaps, late,              \* history: exchanges; those not seen
          pc

vars == <<requested, allowRoot, native, kind, next, swaps, late, pc>>
request == <<requested, allowRoot>>

Parts == Names \cup {Empty, Here, Parent}
Requests == UNION {[1 .. n -> Parts] : n \in 1 .. MaxParts}

(* The components of "/a" are "" and "a"; those of "" are only "". *)
Absolute(r) == Len(r) > 1 /\ Head(r) = Empty

-----------------------------------------------------------------------------
(***************************************************************************)
(* parseRelativePath.                                                      *)
(***************************************************************************)

(* filepath.Clean of one more component. *)
Step(absolute, cleaned, part) ==
    CASE part \in {Empty, Here} -> cleaned
      [] part = Parent /\ cleaned # <<>> /\ Last(cleaned) # Parent ->
            Front(cleaned)
      [] part = Parent /\ cleaned = <<>> /\ absolute -> cleaned
      [] OTHER -> Append(cleaned, part)

(* filepath.Clean of the first k components, and of all of them. *)
Cleaned(r) ==
    LET clean[k \in 0 .. Len(r)] ==
            IF k = 0 THEN <<>> ELSE Step(Absolute(r), clean[k - 1], r[k])
    IN  clean
Clean(r) == Cleaned(r)[Len(r)]

(* The empty request, and one that TrimSpace would change. *)
Malformed(r) == r = <<Empty>> \/ Last(r) \in Padded

(* Mutant: only the request ".." itself is refused. *)
OnlyParent(cleaned) == cleaned = <<Parent>>

Escapes(cleaned) == cleaned # <<>> /\ Head(cleaned) = Parent

Accepted(r, root) ==
    /\ ~Malformed(r) /\ ~Absolute(r)
    /\ ~Escapes(Clean(r))
    /\ Clean(r) = <<>> => root

-----------------------------------------------------------------------------
Init ==
    /\ requested \in Requests
    /\ allowRoot \in BOOLEAN
    /\ native = <<>> /\ kind = <<>> /\ next = 1
    /\ swaps = 0 /\ late = {}
    /\ pc = "parsing"

Parse ==
    /\ pc = "parsing"
    /\ IF Accepted(requested, allowRoot)
       THEN /\ native' = Clean(requested)
            /\ kind' = [k \in DOMAIN native' |-> "directory"]
            /\ pc' = IF allowRoot THEN "first" ELSE "parsed"
       ELSE pc' = "refused" /\ UNCHANGED <<native, kind>>
    /\ UNCHANGED <<request, next, swaps, late>>

(* rejectSymlinkComponents, one Lstat after the other, in both passes. *)
Examine ==
    /\ pc \in {"first", "second"} /\ next <= Len(native)
    /\ IF kind[next] = "directory"
       THEN next' = next + 1 /\ UNCHANGED pc
       ELSE pc' = "refused" /\ UNCHANGED next
    /\ late' = late \ {next}
    /\ UNCHANGED <<request, native, kind, swaps>>

(* OpenRoot of the workdir follows links inside the worktree. *)
OpenWorkdir ==
    /\ pc = "first" /\ next > Len(native)
    /\ IF \A k \in DOMAIN kind : kind[k] # "missing"
       THEN pc' = "second" /\ next' = 1
       ELSE pc' = "refused" /\ UNCHANGED next
    /\ UNCHANGED <<request, native, kind, swaps, late>>

(* Mutant: there is no second look. *)
LaunchAtOnce == pc = "second"

Revalidated == pc = "second" /\ next > Len(native)

Launch ==
    /\ Revalidated
    /\ pc' = "launched"
    /\ UNCHANGED <<request, native, kind, next, swaps, late>>

(* Another program exchanges a component. *)
Swap(k) ==
    /\ pc \in {"first", "second"} /\ swaps < MaxSwaps
    /\ \E new \in {"directory", "link", "missing"} \ {kind[k]} :
          kind' = [kind EXCEPT ![k] = new]
    /\ swaps' = swaps + 1
    /\ late' = IF pc = "second" /\ k < next THEN late \cup {k} ELSE late
    /\ UNCHANGED <<request, native, next, pc>>

Next ==
    \/ Parse \/ Examine \/ OpenWorkdir \/ Launch
    \/ \E k \in DOMAIN kind : Swap(k)

Spec == Init /\ [][Next]_vars

-----------------------------------------------------------------------------
(* How many of the first k components are in the set. *)
Count(r, k, set) == Cardinality({i \in 1 .. k : r[i] \in set})

(* A well-formed relative request is accepted exactly when following it    *)
(* component by component never leaves the worktree, and the result names  *)
(* no parent.                                                              *)
AcceptedStaysInside ==
    /\ pc = "parsing" /\ ~Malformed(requested) /\ ~Absolute(requested) =>
          Accepted(requested, TRUE) <=>
             \A k \in DOMAIN requested :
                Count(requested, k, {Parent}) <= Count(requested, k, Names)
    /\ \A k \in DOMAIN native : native[k] \in Names

(* The workdir of a launched command has a symbolic-link or missing        *)
(* component only if it was put there behind the second look at it         *)
(* ("immediate revalidation ... narrow[s] those races").                   *)
SwapIsNoticed ==
    pc = "launched" => \A k \in DOMAIN kind : kind[k] # "directory" => k \in late

=============================================================================
