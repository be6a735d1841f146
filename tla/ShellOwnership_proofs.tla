----------------------- MODULE ShellOwnership_proofs -----------------------
(***************************************************************************)
(* Proofs about the ownership ledger: Inv of ShellOwnership is inductive,  *)
(* each safety property the TLC runs check follows from it, and the ledger *)
(* refines ProcessCustody, for any set of calls and of cleanups (finite or *)
(* not) and any positive bound.                                            *)
(***************************************************************************)
EXTENDS ShellOwnership, FiniteSetTheorems, TLAPS

-----------------------------------------------------------------------------
(***************************************************************************)
(* The counters.  A lease taken or given back by one call changes the set  *)
(* of holders by that call, and the set of reservations likewise.          *)
(***************************************************************************)

(* active counts one more holder when a call is admitted. *)
LEMMA HolderAdded ==
    ASSUME TypeOK, NEW c \in Calls, pc[c] \notin Holding,
           NEW label \in Holding, Goto(c, label)
    PROVE  Holders' = Holders \cup {c} /\ c \notin Holders
  BY DEF TypeOK, Holders, Goto, Threads

(* and one less when it has finished. *)
LEMMA HolderRemoved ==
    ASSUME TypeOK, NEW c \in Calls, pc[c] \in Holding,
           NEW label, label \notin Holding, Goto(c, label)
    PROVE  Holders' = Holders \ {c} /\ c \in Holders
  BY DEF TypeOK, Holders, Goto, Threads

(* Giving back a reservation, as retain and finish do, keeps the counter   *)
(* equal to the number of reservations, whether or not the call had one.   *)
LEMMA ReservationReleased ==
    ASSUME TypeOK, CountInv, NEW c \in Calls,
           reservations' = IF reserved[c] THEN reservations - 1 ELSE reservations,
           reserved' = [reserved EXCEPT ![c] = FALSE]
    PROVE  /\ reservations' \in Nat
           /\ IsFiniteSet(Reserved')
           /\ reservations' = Cardinality(Reserved')
           /\ reservations' <= reservations
           /\ reserved[c] => reservations' = reservations - 1
           /\ ~reserved[c] => reservations' = reservations
  <1>1. Reserved' = Reserved \ {c} /\ (c \in Reserved <=> reserved[c])
    BY DEF TypeOK, Reserved
  <1>2. /\ IsFiniteSet(Reserved \ {c})
        /\ Cardinality(Reserved \ {c}) = IF c \in Reserved
                                          THEN Cardinality(Reserved) - 1
                                          ELSE Cardinality(Reserved)
    BY FS_RemoveElement DEF CountInv
  <1>3. Cardinality(Reserved \ {c}) \in Nat
    BY <1>2, FS_CardinalityType
  <1>4. reservations \in Nat
    BY DEF TypeOK
  <1> QED BY <1>1, <1>2, <1>3, <1>4 DEF CountInv

(* failures stays a list of errors: in the model, a flag per cleanup. *)
LEMMA FailureNoted ==
    ASSUME TypeOK, NEW t, NoteFailure(t) \/ UNCHANGED failed
    PROVE  failed' \in [Cleaners -> BOOLEAN]
  <1>1. CASE NoteFailure(t)
    BY <1>1 DEF NoteFailure
  <1>2. CASE UNCHANGED failed
    BY <1>2 DEF TypeOK
  <1> QED BY <1>1, <1>2

(* A step that moves no call into or out of a lease leaves the counts. *)
LEMMA CountUnchanged ==
    ASSUME CountInv, Holders' = Holders, Reserved' = Reserved,
           UNCHANGED <<active, reservations, owned>>
    PROVE  CountInv'
  BY DEF CountInv

-----------------------------------------------------------------------------
(***************************************************************************)
(* Inv is preserved: one lemma per action, one step per conjunct.          *)
(***************************************************************************)

(* A refused call changes only its own state. *)
LEMMA RejectStep == ASSUME Inv, NEW c \in Calls, Reject(c) PROVE Inv'
  <1> USE DisjointAssumption DEF Inv, TypeOK, Reject, Goto, ledger, cleaning,
      Threads
  <1>1. TypeOK' BY DEF CallStates, CleanerStates
  <1>2. CountInv' BY CountUnchanged DEF Holders, Holding, Reserved
  <1>3. LeaseInv' BY DEF LeaseInv
  <1>4. ProcInv' BY DEF ProcInv, Unjoined
  <1>5. HandInv' BY DEF HandInv
  <1>6. DrainInv' BY DEF DrainInv, Holders, Holding
  <1>7. SweepInv' BY DEF SweepInv
  <1> QED BY <1>1, <1>2, <1>3, <1>4, <1>5, <1>6, <1>7

(* Admission takes a lease and a reservation within the bound. *)
LEMMA BeginExecutionStep ==
    ASSUME Inv, NEW c \in Calls, BeginExecution(c) PROVE Inv'
  <1> USE DisjointAssumption DEF Inv, TypeOK, BeginExecution, Admits, Goto, ledger,
      cleaning, Threads
  <1>1. TypeOK' BY DEF CallStates, CleanerStates
  <1>2. CountInv'
    <2>1. Holders' = Holders \cup {c} /\ c \notin Holders
      BY HolderAdded DEF Holding
    <2>2. Reserved' = Reserved \cup {c} /\ c \notin Reserved
      BY DEF Reserved, LeaseInv
    <2>3. IsFiniteSet(Holders') /\ Cardinality(Holders') = Cardinality(Holders) + 1
      BY <2>1, FS_AddElement DEF CountInv
    <2>4. IsFiniteSet(Reserved') /\ Cardinality(Reserved') = Cardinality(Reserved) + 1
      BY <2>2, FS_AddElement DEF CountInv
    <2>5. Cardinality(owned) \in Nat
      BY FS_CardinalityType DEF CountInv
    <2> QED BY <2>3, <2>4, <2>5, BoundAssumption DEF CountInv
  <1>3. LeaseInv' BY DEF LeaseInv, ProcInv
  <1>4. ProcInv' BY DEF ProcInv, Unjoined
  <1>5. HandInv' BY DEF HandInv
  <1>6. DrainInv' BY DEF DrainInv
  <1>7. SweepInv' BY DEF SweepInv
  <1> QED BY <1>1, <1>2, <1>3, <1>4, <1>5, <1>6, <1>7

(* A call that launches nothing keeps its reservation until it finishes. *)
LEMMA AbandonLaunchStep ==
    ASSUME Inv, NEW c \in Calls, AbandonLaunch(c) PROVE Inv'
  <1> USE DisjointAssumption DEF Inv, TypeOK, AbandonLaunch, Goto, ledger,
      cleaning, Threads
  <1>1. TypeOK' BY DEF CallStates, CleanerStates
  <1>2. CountInv' BY CountUnchanged DEF Holders, Holding, Reserved
  <1>3. LeaseInv' BY DEF LeaseInv
  <1>4. ProcInv' BY DEF ProcInv, Unjoined
  <1>5. HandInv' BY DEF HandInv
  <1>6. DrainInv' BY DEF DrainInv, Holders, Holding
  <1>7. SweepInv' BY DEF SweepInv
  <1> QED BY <1>1, <1>2, <1>3, <1>4, <1>5, <1>6, <1>7

(* The returned process is covered by the reservation. *)
LEMMA StartReturnsStep ==
    ASSUME Inv, NEW c \in Calls, StartReturns(c) PROVE Inv'
  <1> USE DisjointAssumption DEF Inv, TypeOK, StartReturns, Goto, ledger,
      cleaning, Threads
  <1>1. TypeOK' BY DEF CallStates, CleanerStates, ProcStates
  <1>2. CountInv' BY CountUnchanged DEF Holders, Holding, Reserved
  <1>3. LeaseInv' BY DEF LeaseInv
  <1>4. ProcInv' BY DEF ProcInv, Unjoined
  <1>5. HandInv' BY DEF ProcInv, HandInv
  <1>6. DrainInv' BY DEF DrainInv, Holders, Holding
  <1>7. SweepInv' BY DEF SweepInv
  <1> QED BY <1>1, <1>2, <1>3, <1>4, <1>5, <1>6, <1>7

(* The reservation becomes a record of the ledger. *)
LEMMA RetainStep == ASSUME Inv, NEW c \in Calls, Retain(c) PROVE Inv'
  <1> USE DisjointAssumption DEF Inv, TypeOK, Retain, GiveBackReservation, Goto,
      ledger, cleaning,
      Threads
  <1>r. /\ reservations' \in Nat
        /\ IsFiniteSet(Reserved')
        /\ reservations' = Cardinality(Reserved')
        /\ reservations' = reservations - 1
    BY ReservationReleased DEF LeaseInv
  <1>1. TypeOK'
    BY <1>r DEF CallStates, CleanerStates
  <1>2. CountInv'
    <2>1. Holders' = Holders
      BY DEF Holders, Holding
    <2>2. /\ IsFiniteSet(owned')
          /\ Cardinality(owned') = Cardinality(owned) + 1
      BY FS_AddElement DEF CountInv, LeaseInv
    <2>3. Cardinality(owned) \in Nat
      BY FS_CardinalityType DEF CountInv
    <2> QED BY <1>r, <2>1, <2>2, <2>3, BoundAssumption DEF CountInv
  <1>3. LeaseInv' BY DEF LeaseInv
  <1>4. ProcInv' BY DEF ProcInv, Unjoined
  <1>5. HandInv' BY DEF ProcInv, HandInv
  <1>6. DrainInv' BY DEF DrainInv, Holders, Holding
  <1>7. SweepInv' BY DEF SweepInv, Sweeping, InHand, DrainInv, Holders, Holding
  <1> QED BY <1>1, <1>2, <1>3, <1>4, <1>5, <1>6, <1>7

(* The last call to leave a closing tool drains it. *)
LEMMA FinishStep == ASSUME Inv, NEW c \in Calls, Finish(c) PROVE Inv'
  <1> USE DisjointAssumption DEF Inv, TypeOK, Finish, GiveBackReservation,
      LastToLeave, Goto, ledger, cleaning,
      Threads
  <1>r. /\ reservations' \in Nat
        /\ IsFiniteSet(Reserved')
        /\ reservations' = Cardinality(Reserved')
        /\ reservations' <= reservations
    BY ReservationReleased
  <1>h. Holders' = Holders \ {c} /\ c \in Holders
    BY HolderRemoved DEF Holding
  <1>a. /\ IsFiniteSet(Holders')
        /\ Cardinality(Holders') = Cardinality(Holders) - 1
        /\ Cardinality(Holders') \in Nat
    BY <1>h, FS_RemoveElement, FS_CardinalityType DEF CountInv
  <1>1. TypeOK'
    BY <1>r, <1>a DEF CountInv, CallStates, CleanerStates
  <1>2. CountInv'
    <2>1. Cardinality(owned) \in Nat
      BY FS_CardinalityType DEF CountInv
    <2> QED BY <1>r, <1>a, <2>1, BoundAssumption DEF CountInv
  <1>3. LeaseInv' BY DEF LeaseInv
  <1>4. ProcInv' BY DEF ProcInv, Unjoined
  <1>5. HandInv' BY DEF HandInv
  <1>6. DrainInv'
    <2>1. CASE drained
      BY <2>1, <1>h DEF DrainInv
    <2>2. CASE closing /\ active' = 0
      BY <2>2, <1>a, FS_EmptySet DEF CountInv, DrainInv
    <2> QED BY <2>1, <2>2 DEF DrainInv
  <1>7. SweepInv' BY DEF SweepInv
  <1> QED BY <1>1, <1>2, <1>3, <1>4, <1>5, <1>6, <1>7

(* Reading the cached failure decides whether Wait is called. *)
LEMMA WaitOwnedStep == ASSUME Inv, NEW t \in Threads, WaitOwned(t) PROVE Inv'
  <1> USE DisjointAssumption DEF Inv, TypeOK, WaitOwned, Goto, ledger,
      cleaning, Threads, AfterWait, CallStates, CleanerStates
  <1>1. TypeOK'
    <2>1. failed' \in [Cleaners -> BOOLEAN]
      BY FailureNoted
    <2>2. /\ pc' \in [Threads -> CallStates \cup CleanerStates]
          /\ \A c \in Calls : pc'[c] \in CallStates
          /\ \A k \in Cleaners : pc'[k] \in CleanerStates
      BY DEF CallStates, CleanerStates
    <2> QED BY <2>1, <2>2
  <1>2. CountInv' BY CountUnchanged DEF Holders, Holding, Reserved
  <1>3. LeaseInv' BY DEF LeaseInv
  <1>4. ProcInv' BY DEF ProcInv, Unjoined
  <1>5. HandInv'
    <2>1. record[t] \in owned
      BY DEF LeaseInv, SweepInv, InHand
    <2>2. CASE terminal[record[t]]
      BY <2>2 DEF HandInv
    <2>3. CASE ~terminal[record[t]]
      <3>1. proc[record[t]] \in {"live", "quiet", "poisoned"}
        BY <2>1 DEF HandInv, ProcInv, ProcStates
      <3>2. proc[record[t]] # "poisoned"
        <4>1. ~\E u \in Threads : pc[u] = "poisoned" /\ record[u] = record[t]
          BY DEF LeaseInv, SweepInv, Sweeping, InHand, DrainInv, Holders,
             Holding
        <4> QED BY <2>1, <2>3, <4>1 DEF ProcInv
      <3> QED BY <2>3, <3>1, <3>2 DEF HandInv
    <2> QED BY <2>2, <2>3
  <1>6. DrainInv' BY DEF DrainInv, Holders, Holding
  <1>7. SweepInv' BY DEF NoteFailure, SweepInv, Sweeping, InHand
  <1> QED BY <1>1, <1>2, <1>3, <1>4, <1>5, <1>6, <1>7

(* A joined process stays recorded until it is released. *)
LEMMA WaitSucceedsStep ==
    ASSUME Inv, NEW t \in Threads, WaitSucceeds(t) PROVE Inv'
  <1> USE DisjointAssumption DEF Inv, TypeOK, WaitSucceeds, Goto, ledger,
      cleaning, Threads, CallStates, CleanerStates
  <1>1. TypeOK' BY DEF CallStates, CleanerStates, ProcStates
  <1>2. CountInv' BY CountUnchanged DEF Holders, Holding, Reserved
  <1>3. LeaseInv' BY DEF LeaseInv
  <1>4. ProcInv' BY DEF ProcInv, Unjoined, LeaseInv, SweepInv, InHand
  <1>5. HandInv' BY DEF ProcInv, Unjoined, LeaseInv, HandInv, SweepInv,
      Sweeping, InHand, DrainInv, Holders, Holding
  <1>6. DrainInv' BY DEF DrainInv, Holders, Holding
  <1>7. SweepInv' BY DEF SweepInv, Sweeping, InHand
  <1> QED BY <1>1, <1>2, <1>3, <1>4, <1>5, <1>6, <1>7

(* A retryable failure leaves custody as it was. *)
LEMMA WaitFailsStep == ASSUME Inv, NEW t \in Threads, WaitFails(t) PROVE Inv'
  <1> USE DisjointAssumption DEF Inv, TypeOK, WaitFails, Goto, ledger,
      cleaning, Threads
  <1>1. TypeOK' BY DEF CallStates, CleanerStates
  <1>2. CountInv' BY CountUnchanged DEF Holders, Holding, Reserved
  <1>3. LeaseInv' BY DEF LeaseInv
  <1>4. ProcInv' BY DEF ProcInv, Unjoined
  <1>5. HandInv' BY DEF HandInv
  <1>6. DrainInv' BY DEF DrainInv, Holders, Holding
  <1>7. SweepInv' BY DEF SweepInv, Sweeping, InHand
  <1> QED BY <1>1, <1>2, <1>3, <1>4, <1>5, <1>6, <1>7

(* A terminal failure is in hand until it is cached. *)
LEMMA WaitFailsTerminallyStep ==
    ASSUME Inv, NEW t \in Threads, WaitFailsTerminally(t) PROVE Inv'
  <1> USE DisjointAssumption DEF Inv, TypeOK, WaitFailsTerminally, Goto,
      ledger, cleaning, Threads
  <1>1. TypeOK' BY DEF CallStates, CleanerStates, ProcStates
  <1>2. CountInv' BY CountUnchanged DEF Holders, Holding, Reserved
  <1>3. LeaseInv' BY DEF LeaseInv
  <1>4. ProcInv' BY DEF ProcInv, Unjoined, LeaseInv, SweepInv, InHand
  <1>5. HandInv' BY DEF LeaseInv, HandInv, SweepInv, Sweeping, InHand,
      DrainInv, Holders, Holding
  <1>6. DrainInv' BY DEF DrainInv, Holders, Holding
  <1>7. SweepInv' BY DEF SweepInv, Sweeping, InHand
  <1> QED BY <1>1, <1>2, <1>3, <1>4, <1>5, <1>6, <1>7

(* Only the joined record leaves the ledger. *)
LEMMA ReleaseOwnedStep ==
    ASSUME Inv, NEW t \in Threads, ReleaseOwned(t) PROVE Inv'
  <1> USE DisjointAssumption DEF Inv, TypeOK, ReleaseOwned, Goto, ledger,
      cleaning, Threads, AfterWait
  <1>1. TypeOK' BY DEF CallStates, CleanerStates
  <1>2. CountInv'
    <2>1. Holders' = Holders /\ Reserved' = Reserved
      BY DEF Holders, Holding, Reserved
    <2>2. /\ IsFiniteSet(owned')
          /\ Cardinality(owned') = IF record[t] \in owned THEN Cardinality(owned) - 1
                                   ELSE Cardinality(owned)
      BY FS_RemoveElement DEF CountInv
    <2>3. Cardinality(owned) \in Nat /\ Cardinality(owned') \in Nat
      BY <2>2, FS_CardinalityType DEF CountInv
    <2> QED BY <2>1, <2>2, <2>3, BoundAssumption DEF CountInv
  <1>3. LeaseInv' BY DEF LeaseInv, SweepInv, Sweeping, InHand, DrainInv,
      Holders, Holding
  <1>4. ProcInv' BY DEF ProcInv, Unjoined, HandInv
  <1>5. HandInv' BY DEF HandInv
  <1>6. DrainInv' BY DEF DrainInv, Holders, Holding
  <1>7. SweepInv' BY DEF SweepInv, Sweeping, InHand, DrainInv, Holders, Holding
  <1> QED BY <1>1, <1>2, <1>3, <1>4, <1>5, <1>6, <1>7

(* The failure in hand becomes the cached one. *)
LEMMA CacheTerminalStep ==
    ASSUME Inv, NEW t \in Threads, CacheTerminal(t) PROVE Inv'
  <1> USE DisjointAssumption DEF Inv, TypeOK, CacheTerminal, Goto, ledger,
      cleaning, Threads, AfterWait, NoteFailure
  <1>1. TypeOK' BY DEF CallStates, CleanerStates
  <1>2. CountInv' BY CountUnchanged DEF Holders, Holding, Reserved
  <1>3. LeaseInv' BY DEF LeaseInv
  <1>4. ProcInv' BY DEF ProcInv, Unjoined, HandInv
  <1>5. HandInv' BY DEF HandInv
  <1>6. DrainInv' BY DEF DrainInv, Holders, Holding
  <1>7. SweepInv' BY DEF SweepInv, Sweeping, InHand
  <1> QED BY <1>1, <1>2, <1>3, <1>4, <1>5, <1>6, <1>7

(* A refused cleanup changes only its own state. *)
LEMMA CleanupNilContextStep ==
    ASSUME Inv, NEW k \in Cleaners, CleanupNilContext(k) PROVE Inv'
  <1> USE DisjointAssumption DEF Inv, TypeOK, CleanupNilContext, Goto, ledger,
      cleaning, Threads
  <1>1. TypeOK' BY DEF CallStates, CleanerStates
  <1>2. CountInv' BY CountUnchanged DEF Holders, Holding, Reserved
  <1>3. LeaseInv' BY DEF LeaseInv
  <1>4. ProcInv' BY DEF ProcInv, Unjoined
  <1>5. HandInv' BY DEF HandInv
  <1>6. DrainInv' BY DEF DrainInv, Holders, Holding
  <1>7. SweepInv' BY DEF SweepInv, Sweeping, InHand
  <1> QED BY <1>1, <1>2, <1>3, <1>4, <1>5, <1>6, <1>7

(* Closing an idle tool drains it at once. *)
LEMMA CleanupBeginStep ==
    ASSUME Inv, NEW k \in Cleaners, CleanupBegin(k) PROVE Inv'
  <1> USE DisjointAssumption DEF Inv, TypeOK, CleanupBegin, Goto, ledger,
      cleaning, Threads
  <1>1. TypeOK' BY DEF CallStates, CleanerStates
  <1>2. CountInv' BY CountUnchanged DEF Holders, Holding, Reserved
  <1>3. LeaseInv' BY DEF LeaseInv
  <1>4. ProcInv' BY DEF ProcInv, Unjoined
  <1>5. HandInv' BY DEF HandInv
  <1>6. DrainInv'
    <2>1. Holders' = Holders
      BY DEF Holders
    <2>2. active = 0 => Holders = {}
      BY FS_EmptySet DEF CountInv
    <2> QED BY <2>1, <2>2 DEF DrainInv
  <1>7. SweepInv' BY DEF SweepInv, Sweeping, InHand
  <1> QED BY <1>1, <1>2, <1>3, <1>4, <1>5, <1>6, <1>7

(* The token admits one cleanup to the sweep. *)
LEMMA AcquireTokenStep ==
    ASSUME Inv, NEW k \in Cleaners, AcquireToken(k) PROVE Inv'
  <1> USE DisjointAssumption DEF Inv, TypeOK, AcquireToken, Goto, ledger,
      cleaning, Threads
  <1>1. TypeOK' BY DEF CallStates, CleanerStates
  <1>2. CountInv' BY CountUnchanged DEF Holders, Holding, Reserved
  <1>3. LeaseInv' BY DEF LeaseInv
  <1>4. ProcInv' BY DEF ProcInv, Unjoined
  <1>5. HandInv' BY DEF HandInv
  <1>6. DrainInv' BY DEF DrainInv, Holders, Holding
  <1>7. SweepInv' BY DEF SweepInv, Sweeping, InHand
  <1> QED BY <1>1, <1>2, <1>3, <1>4, <1>5, <1>6, <1>7

(* A cancelled cleanup gives back the token it took. *)
LEMMA CleanupCanceledStep ==
    ASSUME Inv, NEW k \in Cleaners, CleanupCanceled(k) PROVE Inv'
  <1> USE DisjointAssumption DEF Inv, TypeOK, CleanupCanceled, Goto, ledger,
      cleaning, Threads
  <1>1. TypeOK' BY DEF CallStates, CleanerStates
  <1>2. CountInv' BY CountUnchanged DEF Holders, Holding, Reserved
  <1>3. LeaseInv' BY DEF LeaseInv
  <1>4. ProcInv' BY DEF ProcInv, Unjoined
  <1>5. HandInv' BY DEF HandInv
  <1>6. DrainInv' BY DEF DrainInv, Holders, Holding
  <1>7. SweepInv' BY DEF SweepInv, Sweeping, InHand
  <1> QED BY <1>1, <1>2, <1>3, <1>4, <1>5, <1>6, <1>7

(* Behind the drain the snapshot is the whole ledger. *)
LEMMA SnapshotStep == ASSUME Inv, NEW k \in Cleaners, Snapshot(k) PROVE Inv'
  <1> USE DisjointAssumption DEF Inv, TypeOK, Snapshot, Goto, ledger, cleaning,
      Threads
  <1>1. TypeOK' BY DEF CallStates, CleanerStates
  <1>2. CountInv' BY CountUnchanged DEF Holders, Holding, Reserved
  <1>3. LeaseInv' BY DEF LeaseInv
  <1>4. ProcInv' BY DEF ProcInv, Unjoined
  <1>5. HandInv' BY DEF HandInv
  <1>6. DrainInv' BY DEF DrainInv, Holders, Holding
  <1>7. SweepInv' BY DEF SweepInv, InHand
  <1> QED BY <1>1, <1>2, <1>3, <1>4, <1>5, <1>6, <1>7

(* The record in hand was the next of the snapshot. *)
LEMMA NextRecordStep ==
    ASSUME Inv, NEW k \in Cleaners, NextRecord(k) PROVE Inv'
  <1> USE DisjointAssumption DEF Inv, TypeOK, NextRecord, Goto, ledger,
      cleaning, Threads
  <1>1. TypeOK' BY DEF CallStates, CleanerStates
  <1>2. CountInv' BY CountUnchanged DEF Holders, Holding, Reserved
  <1>3. LeaseInv' BY DEF LeaseInv
  <1>4. ProcInv' BY DEF ProcInv, Unjoined
  <1>5. HandInv' BY DEF ProcInv, HandInv, SweepInv, Sweeping, InHand, DrainInv,
      Holders, Holding
  <1>6. DrainInv' BY DEF DrainInv, Holders, Holding
  <1>7. SweepInv' BY DEF SweepInv, Sweeping
  <1> QED BY <1>1, <1>2, <1>3, <1>4, <1>5, <1>6, <1>7

(* Another attempt on the same record. *)
LEMMA RetryTimerStep ==
    ASSUME Inv, NEW k \in Cleaners, RetryTimer(k) PROVE Inv'
  <1> USE DisjointAssumption DEF Inv, TypeOK, RetryTimer, Goto, ledger,
      cleaning, Threads
  <1>1. TypeOK' BY DEF CallStates, CleanerStates
  <1>2. CountInv' BY CountUnchanged DEF Holders, Holding, Reserved
  <1>3. LeaseInv' BY DEF LeaseInv
  <1>4. ProcInv' BY DEF ProcInv, Unjoined
  <1>5. HandInv' BY DEF HandInv
  <1>6. DrainInv' BY DEF DrainInv, Holders, Holding
  <1>7. SweepInv' BY DEF SweepInv, Sweeping, InHand
  <1> QED BY <1>1, <1>2, <1>3, <1>4, <1>5, <1>6, <1>7

(* Giving up counts as a failure. *)
LEMMA RetryCanceledStep ==
    ASSUME Inv, NEW k \in Cleaners, RetryCanceled(k) PROVE Inv'
  <1> USE DisjointAssumption DEF Inv, TypeOK, RetryCanceled, Goto, ledger,
      cleaning, Threads, NoteFailure
  <1>1. TypeOK' BY DEF CallStates, CleanerStates
  <1>2. CountInv' BY CountUnchanged DEF Holders, Holding, Reserved
  <1>3. LeaseInv' BY DEF LeaseInv
  <1>4. ProcInv' BY DEF ProcInv, Unjoined
  <1>5. HandInv' BY DEF HandInv
  <1>6. DrainInv' BY DEF DrainInv, Holders, Holding
  <1>7. SweepInv' BY DEF SweepInv, Sweeping, InHand
  <1> QED BY <1>1, <1>2, <1>3, <1>4, <1>5, <1>6, <1>7

(* A done context fails the sweep that it cuts short. *)
LEMMA CheckContextStep ==
    ASSUME Inv, NEW k \in Cleaners, CheckContext(k) PROVE Inv'
  <1> USE DisjointAssumption DEF Inv, TypeOK, CheckContext, Goto, ledger,
      cleaning, Threads
  <1>1. TypeOK' BY DEF CallStates, CleanerStates
  <1>2. CountInv' BY CountUnchanged DEF Holders, Holding, Reserved
  <1>3. LeaseInv' BY DEF LeaseInv
  <1>4. ProcInv' BY DEF ProcInv, Unjoined
  <1>5. HandInv' BY DEF HandInv
  <1>6. DrainInv' BY DEF DrainInv, Holders, Holding
  <1>7. SweepInv' BY DEF SweepInv, Sweeping, InHand
  <1> QED BY <1>1, <1>2, <1>3, <1>4, <1>5, <1>6, <1>7

(* A sweep without failure leaves nothing owned. *)
LEMMA CleanupReturnStep ==
    ASSUME Inv, NEW k \in Cleaners, CleanupReturn(k) PROVE Inv'
  <1> USE DisjointAssumption DEF Inv, TypeOK, CleanupReturn, Goto, ledger,
      cleaning, Threads
  <1>1. TypeOK' BY DEF CallStates, CleanerStates
  <1>2. CountInv' BY CountUnchanged DEF Holders, Holding, Reserved
  <1>3. LeaseInv' BY DEF LeaseInv
  <1>4. ProcInv' BY DEF ProcInv, Unjoined
  <1>5. HandInv' BY DEF HandInv
  <1>6. DrainInv' BY DEF DrainInv, Holders, Holding
  <1>7. SweepInv' BY DEF SweepInv, Sweeping, InHand
  <1> QED BY <1>1, <1>2, <1>3, <1>4, <1>5, <1>6, <1>7

(* A process may end at any time. *)
LEMMA ProcessEndsStep == ASSUME Inv, NEW p \in Calls, ProcessEnds(p) PROVE Inv'
  <1> USE DisjointAssumption DEF Inv, TypeOK, ProcessEnds, Goto, ledger,
      cleaning, Threads
  <1>1. TypeOK' BY DEF ProcStates
  <1>2. CountInv' BY CountUnchanged DEF Holders, Reserved
  <1>3. LeaseInv' BY DEF LeaseInv
  <1>4. ProcInv' BY DEF ProcInv, Unjoined
  <1>5. HandInv' BY DEF HandInv
  <1>6. DrainInv' BY DEF DrainInv, Holders
  <1>7. SweepInv' BY DEF SweepInv
  <1> QED BY <1>1, <1>2, <1>3, <1>4, <1>5, <1>6, <1>7

(* A context may be done at any time. *)
LEMMA CancelCleanupStep ==
    ASSUME Inv, NEW k \in Cleaners, CancelCleanup(k) PROVE Inv'
  <1> USE DisjointAssumption DEF Inv, TypeOK, CancelCleanup, Goto, ledger,
      cleaning, Threads
  <1>1. TypeOK' OBVIOUS
  <1>2. CountInv' BY CountUnchanged DEF Holders, Reserved
  <1>3. LeaseInv' BY DEF LeaseInv
  <1>4. ProcInv' BY DEF ProcInv, Unjoined
  <1>5. HandInv' BY DEF HandInv
  <1>6. DrainInv' BY DEF DrainInv, Holders
  <1>7. SweepInv' BY DEF SweepInv
  <1> QED BY <1>1, <1>2, <1>3, <1>4, <1>5, <1>6, <1>7

-----------------------------------------------------------------------------
(***************************************************************************)
(* The invariance theorem and what follows from it.                        *)
(***************************************************************************)

(* A new shell tool satisfies the invariant. *)
LEMMA InitInv == Init => Inv
  <1> SUFFICES ASSUME Init PROVE Inv
    OBVIOUS
  <1> USE DEF Init
  <1>1. TypeOK
    BY DEF TypeOK, Threads, CallStates, CleanerStates, ProcStates
  <1>2. CountInv
    <2>1. Holders = {} /\ Reserved = {}
      BY DEF Holders, Holding, Reserved, Threads
    <2> QED BY <2>1, FS_EmptySet, BoundAssumption DEF CountInv
  <1>3. LeaseInv /\ ProcInv /\ HandInv /\ DrainInv
    BY DEF LeaseInv, ProcInv, HandInv, DrainInv, Unjoined, Threads
  <1>4. SweepInv
    BY DEF SweepInv, Sweeping, InHand, Threads
  <1> QED BY <1>1, <1>2, <1>3, <1>4 DEF Inv

(* Every step of a call, of a waitOwned, of a cleanup or of the            *)
(* environment preserves the invariant.                                    *)
LEMMA NextInv == Inv /\ [Next]_vars => Inv'
  <1> SUFFICES ASSUME Inv, [Next]_vars PROVE Inv'
    OBVIOUS
  <1>1. ASSUME NEW c \in Calls, CallStep(c) PROVE Inv'
    BY <1>1, RejectStep, BeginExecutionStep, AbandonLaunchStep,
       StartReturnsStep, RetainStep, FinishStep DEF CallStep
  <1>2. ASSUME NEW t \in Threads, WaitStep(t) PROVE Inv'
    BY <1>2, WaitOwnedStep, WaitSucceedsStep, WaitFailsStep,
       WaitFailsTerminallyStep, ReleaseOwnedStep, CacheTerminalStep
    DEF WaitStep
  <1>3. ASSUME NEW k \in Cleaners, CleanerStep(k) PROVE Inv'
    BY <1>3, CleanupNilContextStep, CleanupBeginStep, AcquireTokenStep,
       CleanupCanceledStep, SnapshotStep, NextRecordStep, RetryTimerStep,
       RetryCanceledStep, CheckContextStep, CleanupReturnStep
    DEF CleanerStep
  <1>4. ASSUME NEW p \in Calls, ProcessEnds(p) PROVE Inv'
    BY <1>4, ProcessEndsStep
  <1>5. ASSUME NEW k \in Cleaners, CancelCleanup(k) PROVE Inv'
    BY <1>5, CancelCleanupStep
  <1>6. CASE UNCHANGED vars
    BY <1>6 DEF vars, Inv, TypeOK, CountInv, LeaseInv, ProcInv, HandInv,
       DrainInv, SweepInv, Holders, Reserved, Unjoined
  <1> QED BY <1>1, <1>2, <1>3, <1>4, <1>5, <1>6 DEF Next, AllReturned

(* Inv holds in every reachable state of the ledger. *)
THEOREM Invariance == Spec => []Inv
  <1> QED BY InitInv, NextInv, PTL DEF Spec

(* The variables keep their types; in particular the counters active and   *)
(* reservations never become negative.                                     *)
THEOREM TypeCorrect == Spec => []TypeOK
  <1>1. Inv => TypeOK
    BY DEF Inv
  <1> QED BY <1>1, Invariance, PTL

(* The records and the reservations together stay within the bound. *)
LEMMA CoveredBound ==
    ASSUME Inv, NEW S, S \subseteq owned \cup Reserved
    PROVE  IsFiniteSet(S) /\ Cardinality(S) <= MaximumOwnedShells
  <1>1. /\ IsFiniteSet(owned) /\ IsFiniteSet(Reserved)
        /\ Cardinality(owned) + Cardinality(Reserved) <= MaximumOwnedShells
    BY DEF Inv, CountInv
  <1>2. Cardinality(owned) \in Nat /\ Cardinality(Reserved) \in Nat
    BY <1>1, FS_CardinalityType
  <1>3. owned \cap Reserved = {}
    BY DEF Inv, LeaseInv, Reserved
  <1>4. Cardinality(owned \cap Reserved) = 0
    BY <1>3, FS_EmptySet
  <1>5. /\ IsFiniteSet(owned \cup Reserved)
        /\ Cardinality(owned \cup Reserved) =
              Cardinality(owned) + Cardinality(Reserved)
                - Cardinality(owned \cap Reserved)
    BY <1>1, FS_Union
  <1>6. IsFiniteSet(S) /\ Cardinality(S) <= Cardinality(owned \cup Reserved)
    BY <1>5, FS_Subset
  <1>7. Cardinality(S) \in Nat
    BY <1>6, FS_CardinalityType
  <1> QED BY <1>1, <1>2, <1>4, <1>5, <1>6, <1>7, BoundAssumption

(* At most maximumOwnedShells processes are launched and not joined: each  *)
(* is recorded or covered by its call's reservation, never both.           *)
THEOREM BoundedCustody == Spec => []UnjoinedProcessBound
  <1>1. Inv => UnjoinedProcessBound
    <2> SUFFICES ASSUME Inv PROVE UnjoinedProcessBound
      OBVIOUS
    <2>1. {p \in Calls : Unjoined(p)} \subseteq owned \cup Reserved
      BY DEF Inv, ProcInv, LeaseInv, Reserved
    <2> QED BY <2>1, CoveredBound DEF UnjoinedProcessBound
  <1> QED BY <1>1, Invariance, PTL

(* No process is orphaned by any interleaving of calls and cleanups. *)
THEOREM NothingOrphaned == Spec => []NoOrphan
  <1>1. Inv => NoOrphan
    BY DEF Inv, ProcInv, NoOrphan
  <1> QED BY <1>1, Invariance, PTL

(* Wait is exclusive and never repeated after it succeeded or after it     *)
(* failed terminally.                                                      *)
THEOREM ExclusiveJoin == Spec => []JoinIsExclusive
  <1>1. Inv => JoinIsExclusive
    <2> SUFFICES ASSUME Inv, NEW t \in Threads, pc[t] = "joining"
                 PROVE  /\ proc[record[t]] \notin {"freed", "poisoned"}
                        /\ \A u \in Threads \ {t} :
                              pc[u] \in {"joining", "joined", "poisoned"} =>
                                record[u] # record[t]
      BY DEF JoinIsExclusive
    <2>1. proc[record[t]] \notin {"freed", "poisoned"}
      BY DEF Inv, HandInv
    <2>2. ASSUME NEW u \in Threads \ {t},
                 pc[u] \in {"joining", "joined", "poisoned"}
          PROVE  record[u] # record[t]
      <3>1. CASE t \in Calls /\ u \in Calls
        BY <2>2, <3>1 DEF Inv, LeaseInv
      <3>2. CASE t \in Cleaners /\ u \in Cleaners
        BY <2>2, <3>2 DEF Inv, SweepInv, Sweeping, InHand
      <3>3. CASE (t \in Calls /\ u \in Cleaners) \/ (t \in Cleaners /\ u \in Calls)
        BY <2>2, <3>3 DEF Inv, SweepInv, Sweeping, InHand, DrainInv, Holders,
           Holding
      <3> QED BY <2>2, <3>1, <3>2, <3>3 DEF Threads
    <2> QED BY <2>1, <2>2
  <1> QED BY <1>1, Invariance, PTL

(* The drained channel is a barrier behind which no call is in flight. *)
THEOREM DrainBarrier == Spec => []DrainedMeansQuiescent
  <1>1. Inv => DrainedMeansQuiescent
    BY DEF Inv, TypeOK, DrainInv, Holders, Holding, CallStates,
       DrainedMeansQuiescent
  <1> QED BY <1>1, Invariance, PTL

(* A cleanup that returned nil left nothing owned and nothing unjoined. *)
THEOREM CleanCleanup == Spec => []CleanMeansNothingOwned
  <1>1. Inv => CleanMeansNothingOwned
    BY DEF Inv, TypeOK, DrainInv, SweepInv, ProcInv, Holders, Holding,
       CallStates, CleanMeansNothingOwned
  <1> QED BY <1>1, Invariance, PTL

-----------------------------------------------------------------------------
(***************************************************************************)
(* The ledger refines ProcessCustody.  Launch is the return of Start, Join *)
(* the return of Wait, Release is releaseOwned; Close and Seal happen in   *)
(* cleanup's first critical section and in the last finish, Certify when   *)
(* the first cleanup returns nil.                                          *)
(***************************************************************************)

(* The processes whose Wait returned nil. *)
Freed == {p \in Calls : proc[p] = "freed"}

(* The return of Start is a Launch. *)
LEMMA StartIsLaunch ==
    ASSUME Inv, NEW c \in Calls, StartReturns(c) PROVE Custody!Launch(c)
  <1> USE DEF Inv, TypeOK, StartReturns, Goto, ledger, cleaning, Threads
  <1>1. phase \in {"open", "closing"}
    BY DEF phase, DrainInv, Holders, Holding, SweepInv
  <1>2. c \notin held \cup Freed
    BY DEF held, Freed, ProcInv, LeaseInv
  <1>3. held' = held \cup {c}
    BY DisjointAssumption DEF held
  <1>4. Freed' = Freed
    BY <1>2 DEF Freed, ProcInv
  <1>5. phase' = phase
    BY DisjointAssumption DEF phase
  <1>6. Cardinality(held') <= MaximumOwnedShells
    <2>1. held \cup {c} \subseteq owned \cup Reserved
      BY DEF LeaseInv, Reserved, held
    <2> HIDE DEF Inv
    <2> QED BY <1>3, <2>1, CoveredBound
  <1>7. Custody!Cardinality(held') <= MaximumOwnedShells
    BY <1>6 DEF Custody!Cardinality, Cardinality
  <1> QED BY <1>1, <1>2, <1>3, <1>4, <1>5, <1>7 DEF Custody!Launch, Freed

(* The return of a successful Wait is a Join. *)
LEMMA WaitIsJoin ==
    ASSUME Inv, NEW t \in Threads, WaitSucceeds(t)
    PROVE  record[t] \in Calls /\ Custody!Join(record[t])
  <1> USE DisjointAssumption
      DEF Inv, TypeOK, WaitSucceeds, Goto, ledger, cleaning, Threads
  <1>1. record[t] \in owned
    BY DEF LeaseInv, SweepInv, InHand
  <1>2. record[t] \in held \ Freed
    BY <1>1 DEF held, Freed
  <1>3. held' = held
    BY DEF held
  <1>4. Freed' = Freed \cup {record[t]}
    BY <1>1 DEF Freed
  <1>5. phase' = phase
    BY DEF phase
  <1> QED BY <1>1, <1>2, <1>3, <1>4, <1>5 DEF Custody!Join, Freed

(* releaseOwned is a Release. *)
LEMMA ReleaseIsRelease ==
    ASSUME Inv, NEW t \in Threads, ReleaseOwned(t)
    PROVE  record[t] \in Calls /\ Custody!Release(record[t])
  <1> USE DisjointAssumption
      DEF Inv, TypeOK, ReleaseOwned, AfterWait, Goto, ledger, cleaning, Threads
  <1>1. record[t] \in owned
    BY DEF LeaseInv, SweepInv, InHand
  <1>2. record[t] \in held \cap Freed
    BY <1>1 DEF held, Freed, HandInv
  <1>3. held' = held \ {record[t]}
    BY <1>1 DEF held, HandInv, ProcInv
  <1>4. Freed' = Freed
    BY DEF Freed
  <1>5. phase' = phase
    BY DEF phase
  <1> QED BY <1>1, <1>2, <1>3, <1>4, <1>5 DEF Custody!Release, Freed

(* cleanup's first critical section closes admission, and seals it when no *)
(* call is in flight; a later cleanup changes nothing.                     *)
LEMMA BeginIsClose ==
    ASSUME Inv, NEW k \in Cleaners, CleanupBegin(k)
    PROVE  Custody!Close \/ Custody!Seal \/ UNCHANGED Custody!vars
  <1> USE DisjointAssumption
      DEF Inv, TypeOK, CleanupBegin, Goto, ledger, cleaning, Threads
  <1>1. held' = held /\ Freed' = Freed
    BY DEF held, Freed
  <1>2. \/ phase = "open" /\ phase' \in {"closing", "sealed"}
        \/ phase = "closing" /\ phase' = "sealed"
        \/ phase' = phase
    BY DEF phase, SweepInv, DrainInv
  <1> QED
    BY <1>1, <1>2 DEF Custody!Close, Custody!Seal, Custody!vars, Freed

(* finish seals a closing tool when it was the last call. *)
LEMMA FinishIsSeal ==
    ASSUME Inv, NEW c \in Calls, Finish(c)
    PROVE  Custody!Seal \/ UNCHANGED Custody!vars
  <1> USE DisjointAssumption
      DEF Inv, TypeOK, Finish, GiveBackReservation, LastToLeave, Goto, ledger,
          cleaning, Threads
  <1>1. held' = held /\ Freed' = Freed
    BY DEF held, Freed
  <1>2. phase' = phase \/ (phase = "closing" /\ phase' = "sealed")
    BY DEF phase, SweepInv, DrainInv
  <1> QED BY <1>1, <1>2 DEF Custody!Seal, Custody!vars, Freed

(* A cleanup that returns nil certifies; one that returns an error does    *)
(* nothing to custody.                                                     *)
LEMMA ReturnIsCertify ==
    ASSUME Inv, Inv', NEW k \in Cleaners, CleanupReturn(k)
    PROVE  Custody!Certify \/ UNCHANGED Custody!vars
  <1> USE DisjointAssumption
      DEF TypeOK, CleanupReturn, Goto, ledger, cleaning, Threads
  <1>1. held' = held /\ Freed' = Freed
    BY DEF Inv, held, Freed
  <1>2. CASE failed[k]
    <2>1. phase' = phase
      BY <1>2 DEF Inv, phase
    <2> QED BY <1>1, <2>1 DEF Custody!vars, Freed
  <1>3. CASE ~failed[k]
    <2>1. drained /\ pc'[k] = "clean"
      BY <1>3 DEF Inv, SweepInv, Sweeping
    <2>2. held = {}
      BY <2>1 DEF Inv, SweepInv, DrainInv, Holders, Holding, held
    <2>3. phase' = "certified" /\ phase \in {"sealed", "certified"}
      BY <2>1 DEF phase
    <2> QED
      BY <1>1, <2>2, <2>3 DEF Custody!Certify, Custody!vars, Freed
  <1> QED BY <1>2, <1>3

(* No other step touches the abstract state; retain only moves a process   *)
(* from the hand of its call into the ledger.                              *)
LEMMA OtherStepsStutter ==
    ASSUME Inv,
           \/ \E c \in Calls : Reject(c) \/ BeginExecution(c)
                                  \/ AbandonLaunch(c) \/ Retain(c)
           \/ \E t \in Threads : WaitOwned(t) \/ WaitFails(t)
                                    \/ WaitFailsTerminally(t) \/ CacheTerminal(t)
           \/ \E k \in Cleaners :
                 \/ CleanupNilContext(k) \/ AcquireToken(k)
                 \/ CleanupCanceled(k) \/ Snapshot(k) \/ NextRecord(k)
                 \/ RetryTimer(k) \/ RetryCanceled(k) \/ CheckContext(k)
           \/ \E p \in Calls : ProcessEnds(p)
           \/ \E k \in Cleaners : CancelCleanup(k)
           \/ UNCHANGED vars
    PROVE  UNCHANGED Custody!vars
  <1> USE DisjointAssumption DEF Inv, TypeOK, Goto, ledger, cleaning, Threads
  <1> SUFFICES held' = held /\ Freed' = Freed /\ phase' = phase
    BY DEF Custody!vars, Freed
  <1> USE DEF held, Freed, phase
  <1>1. ASSUME NEW c \in Calls,
               Reject(c) \/ BeginExecution(c) \/ AbandonLaunch(c) \/ Retain(c)
        PROVE  held' = held /\ Freed' = Freed /\ phase' = phase
    BY <1>1 DEF Reject, BeginExecution, AbandonLaunch, Retain,
       GiveBackReservation
  <1>2. ASSUME NEW t \in Threads, WaitOwned(t) \/ WaitFails(t) \/ CacheTerminal(t)
        PROVE  held' = held /\ Freed' = Freed /\ phase' = phase
    BY <1>2 DEF WaitOwned, WaitFails, CacheTerminal, AfterWait
  <1>3. ASSUME NEW t \in Threads, WaitFailsTerminally(t)
        PROVE  held' = held /\ Freed' = Freed /\ phase' = phase
    BY <1>3 DEF WaitFailsTerminally, HandInv
  <1>4. ASSUME NEW k \in Cleaners,
               \/ CleanupNilContext(k) \/ AcquireToken(k)
               \/ CleanupCanceled(k) \/ Snapshot(k) \/ NextRecord(k)
               \/ RetryTimer(k) \/ RetryCanceled(k) \/ CheckContext(k)
        PROVE  held' = held /\ Freed' = Freed /\ phase' = phase
    BY <1>4 DEF CleanupNilContext, AcquireToken, CleanupCanceled, Snapshot,
       NextRecord, RetryTimer, RetryCanceled, CheckContext
  <1>5. ASSUME NEW p \in Calls, ProcessEnds(p)
        PROVE  held' = held /\ Freed' = Freed /\ phase' = phase
    BY <1>5 DEF ProcessEnds
  <1>6. ASSUME NEW k \in Cleaners, CancelCleanup(k)
        PROVE  held' = held /\ Freed' = Freed /\ phase' = phase
    BY <1>6 DEF CancelCleanup
  <1>7. CASE UNCHANGED vars
    BY <1>7 DEF vars
  <1> QED BY <1>1, <1>2, <1>3, <1>4, <1>5, <1>6, <1>7

(* Every step of the ledger is a step of the custody promise or leaves the *)
(* abstract state alone.                                                   *)
LEMMA CustodyStep ==
    Inv /\ Inv' /\ [Next]_vars => [Custody!Next]_(Custody!vars)
  <1> SUFFICES ASSUME Inv, Inv', [Next]_vars
               PROVE  Custody!Next \/ UNCHANGED Custody!vars
    OBVIOUS
  <1>1. ASSUME NEW c \in Calls, CallStep(c)
        PROVE  Custody!Next \/ UNCHANGED Custody!vars
    <2>1. CASE StartReturns(c)
      BY <2>1, StartIsLaunch DEF Custody!Next
    <2>2. CASE Finish(c)
      BY <2>2, FinishIsSeal DEF Custody!Next
    <2>3. CASE Reject(c) \/ BeginExecution(c) \/ AbandonLaunch(c) \/ Retain(c)
      BY <2>3, OtherStepsStutter
    <2> QED BY <1>1, <2>1, <2>2, <2>3 DEF CallStep
  <1>2. ASSUME NEW t \in Threads, WaitStep(t)
        PROVE  Custody!Next \/ UNCHANGED Custody!vars
    <2>1. CASE WaitSucceeds(t)
      <3>1. record[t] \in Calls /\ Custody!Join(record[t])
        BY <2>1, WaitIsJoin
      <3>2. PICK p \in Calls : p = record[t]
        BY <3>1
      <3>3. Custody!Join(p)
        BY <3>1, <3>2 DEF Custody!Join
      <3> QED BY <3>3 DEF Custody!Next
    <2>2. CASE ReleaseOwned(t)
      <3>1. record[t] \in Calls /\ Custody!Release(record[t])
        BY <2>2, ReleaseIsRelease
      <3> QED BY <3>1 DEF Custody!Next
    <2>3. CASE \/ WaitOwned(t) \/ WaitFails(t)
               \/ WaitFailsTerminally(t) \/ CacheTerminal(t)
      BY <2>3, OtherStepsStutter
    <2> QED BY <1>2, <2>1, <2>2, <2>3 DEF WaitStep
  <1>3. ASSUME NEW k \in Cleaners, CleanerStep(k)
        PROVE  Custody!Next \/ UNCHANGED Custody!vars
    <2>1. CASE CleanupBegin(k)
      BY <2>1, BeginIsClose DEF Custody!Next
    <2>2. CASE CleanupReturn(k)
      BY <2>2, ReturnIsCertify DEF Custody!Next
    <2>3. CASE \/ CleanupNilContext(k) \/ AcquireToken(k)
               \/ CleanupCanceled(k) \/ Snapshot(k) \/ NextRecord(k)
               \/ RetryTimer(k) \/ RetryCanceled(k) \/ CheckContext(k)
      BY <2>3, OtherStepsStutter
    <2> QED BY <1>3, <2>1, <2>2, <2>3 DEF CleanerStep
  <1>4. CASE \/ \E p \in Calls : ProcessEnds(p)
             \/ \E k \in Cleaners : CancelCleanup(k)
             \/ UNCHANGED vars
    BY <1>4, OtherStepsStutter
  <1> QED BY <1>1, <1>2, <1>3, <1>4 DEF Next, AllReturned

(* The ownership ledger implements the custody promise: what is held stays *)
(* within the bound, leaves custody only after its Wait returned nil, and  *)
(* nothing is held after a cleanup certified the tool.                     *)
THEOREM Refinement == Spec => CustodySpec
  <1>1. Init => Custody!Init
    BY DEF Init, Custody!Init, held, phase, Threads
  <1> QED
    BY <1>1, CustodyStep, Invariance, PTL
    DEF Spec, CustodySpec, Custody!Spec

=============================================================================
