--------------------------- MODULE ProcessCustody ---------------------------
(***************************************************************************)
(* What the shell tool promises about the processes it starts, without     *)
(* saying how: a bounded set of processes is held in custody, a process    *)
(* leaves custody only after it was joined, and once the lifecycle cleanup *)
(* has certified that nothing is held, nothing is ever held again.         *)
(*                                                                         *)
(* The promise is the one the repository documents for the shell tool      *)
(* (ARCHITECTURE.md, "Ownership is released only after Wait succeeds") and *)
(* process.go implements; ShellOwnership is shown to refine it.            *)
(***************************************************************************)
EXTENDS Naturals, FiniteSets

CONSTANTS Processes,    \* every process a launcher may ever return
          Capacity      \* how many may be in custody at a time

VARIABLES held,         \* processes in the tool's custody
          joined,       \* processes whose Wait has returned nil
          phase         \* "open", "closing", "sealed" or "certified"

vars == <<held, joined, phase>>

Phases == {"open", "closing", "sealed", "certified"}

Init ==
    /\ held = {}
    /\ joined = {}
    /\ phase = "open"

(***************************************************************************)
(* A process enters custody at most once, within the capacity, and never   *)
(* after admission was sealed.  While the tool is closing, calls that were *)
(* admitted before may still launch.                                       *)
(***************************************************************************)
Launch(p) ==
    /\ phase \in {"open", "closing"}
    /\ p \notin held \cup joined
    /\ held' = held \cup {p}
    /\ Cardinality(held') <= Capacity
    /\ UNCHANGED <<joined, phase>>

(* Wait returns nil: the process and all it contained are gone. *)
Join(p) ==
    /\ p \in held \ joined
    /\ joined' = joined \cup {p}
    /\ UNCHANGED <<held, phase>>

(* Custody ends, and only of a joined process. *)
Release(p) ==
    /\ p \in held \cap joined
    /\ held' = held \ {p}
    /\ UNCHANGED <<joined, phase>>

(* Cleanup begins; with no call in flight admission is sealed at once. *)
Close ==
    /\ phase = "open"
    /\ phase' \in {"closing", "sealed"}
    /\ UNCHANGED <<held, joined>>

(* The last call in flight has left. *)
Seal ==
    /\ phase = "closing"
    /\ phase' = "sealed"
    /\ UNCHANGED <<held, joined>>

(* Cleanup reports success: nothing is held. *)
Certify ==
    /\ phase = "sealed"
    /\ held = {}
    /\ phase' = "certified"
    /\ UNCHANGED <<held, joined>>

Next ==
    \/ \E p \in Processes : Launch(p) \/ Join(p) \/ Release(p)
    \/ Close \/ Seal \/ Certify

Spec == Init /\ [][Next]_vars

=============================================================================
