-------------------------- MODULE ShellCall_proofs --------------------------
(***************************************************************************)
(* Proofs about one shell call: the inductive invariant of ShellCall, the  *)
(* safety properties that follow from it, and that the call implements the *)
(* part of a call in ShellOwnership.                                       *)
(***************************************************************************)
EXTENDS ShellCall, FiniteSetTheorems, TLAPS

-----------------------------------------------------------------------------
(***************************************************************************)
(* The inductive invariant.                                                *)
(***************************************************************************)
Unadmitted == {"idle", "validated", "refused"}
Preparing == {"opening", "entering", "examining", "resolving", "preparing",
              "prepared"}
Stopping == {"stopping", "grace", "reading"}
Retained == Stopping \cup {"watching", "observing", "joining"}
Closing == {"classifying", "encoding", "finishing", "done"}

(* The call's share of the counters: the lease from admission to finish,   *)
(* the reservation until a process was retained or the call finishes.      *)
LeaseInv ==
    /\ active = IF pc \in Unadmitted \cup {"done"} THEN 0 ELSE 1
    /\ reservations = IF reserved THEN 1 ELSE 0
    /\ pc \in Unadmitted \cup {"done"} => ~reserved
    /\ pc \in Preparing \cup {"starting", "launched"} => reserved
    /\ pc \in {"interrupted", "classifying", "encoding", "finishing"} =>
          (reserved <=> proc = "none")
    /\ pc \in Retained \cup {"joined", "poisoned"} => ~reserved

(* Where the process is, and whether the ledger has it. *)
ProcInv ==
    /\ outcome.started <=> proc # "none"
    /\ pc \in Unadmitted \cup Preparing \cup {"starting"} => proc = "none" /\ ~owned
    /\ pc = "launched" => proc \in {"running", "exited", "quiet"} /\ ~owned
    /\ pc \in Retained => proc \in {"running", "exited", "quiet"}
    /\ pc = "interrupted" => proc \in {"none", "running", "exited", "quiet"}
    /\ pc = "joined" => proc = "freed"
    /\ pc = "poisoned" => proc = "poisoned" /\ ~terminal
    /\ pc \in Retained \cup {"joined", "poisoned"} => owned
    /\ pc = "interrupted" => (owned <=> proc # "none")
    /\ pc \in Closing => (owned <=> proc \notin {"none", "freed"})
    /\ terminal <=> proc = "poisoned" /\ pc # "poisoned"

(* The directories that are open. *)
HandleInv ==
    handles = IF pc = "entering" THEN {"workspace"}
              ELSE IF pc \in {"examining", "resolving", "preparing", "prepared",
                               "classifying"}
                      \/ Running
              THEN {"workspace", "directory"} ELSE {}

(* What is known of the contexts: processContext ends with the caller's or *)
(* by its own timer, and the copy is of one of the two.                    *)
ContextInv ==
    /\ timeout \in {"canceled", "deadline"} => parent # "nil"
    /\ perr \in {"canceled", "deadline"} => parent # "nil"
    /\ perr = "expired" => timeout = "expired"
    /\ pc \in Unadmitted \cup Preparing => timeout = "nil" /\ perr = "nil"

(* The outcome so far. *)
OutcomeInv ==
    /\ outcome.contextErr => parent # "nil"
    /\ outcome.timedOut => timeout = "expired"
    /\ outcome.successful => outcome.hasResult
    /\ outcome.hasResult => outcome.started
    /\ outcome.waitErr => outcome.started
    /\ pc \in Unadmitted \cup Preparing \cup {"starting", "launched", "watching",
                                              "observing", "interrupted"} => ~stopped
    /\ pc \in Unadmitted \cup Preparing \cup {"starting", "launched", "watching",
                                              "interrupted"} => ~outcome.hasResult
    /\ pc \in Stopping =>
          outcome.contextErr \/ outcome.timedOut \/ outcome.launchErr
    /\ stopped => outcome.contextErr \/ outcome.timedOut \/ outcome.launchErr
    /\ pc = "interrupted" =>
          perr # "nil" \/ outcome.launchErr
    /\ pc \in Retained \cup {"launched", "interrupted", "joined", "poisoned"} =>
          ~outcome.waitErr
    /\ pc \in {"classifying", "encoding", "finishing", "done"} /\ outcome.started =>
          (outcome.waitErr <=> proc # "freed")

(* What an answer claims, from the moment it is composed. *)
AnswerInv ==
    pc \in {"encoding", "finishing", "refused", "done"} =>
        /\ reply.kind \in {"ok", "problem"} =>
              proc \in {"none", "freed"} /\ (reply.cleaned <=> proc = "freed")
        /\ reply.kind = "definitive" => proc = "none"
        /\ reply.context => parent # "nil"
        /\ reply.timedOut => timeout = "expired" /\ reply.kind = "problem"
        /\ reply.ok <=> reply.kind = "ok"
        /\ reply.ok => outcome.successful /\ proc = "freed" /\ ~stopped

Inv == /\ TypeOK /\ LeaseInv /\ ProcInv /\ HandleInv /\ ContextInv
       /\ OutcomeInv /\ AnswerInv

-----------------------------------------------------------------------------
(***************************************************************************)
(* What the functions that compose answers return.                         *)
(***************************************************************************)

(* A reply built from a kind and a flag is a reply. *)
LEMMA ReplyType ==
    \A kind \in Kinds, context \in BOOLEAN : Reply(kind, context) \in Replies
  BY DEF Reply, Replies

(* So is the content of a captured outcome. *)
LEMMA ContentType ==
    ASSUME TypeOK, NEW kind \in Kinds PROVE Content(kind) \in Replies
  BY DEF TypeOK, Content, Replies, OutcomeFields

(* And so is every answer of classifyProcessOutcome. *)
LEMMA ClassificationType == TypeOK => Classification \in Replies
  BY ReplyType, ContentType DEF Classification, Interruption, Timeout,
     LaunchFailure, Completion, Kinds

-----------------------------------------------------------------------------
(***************************************************************************)
(* Every step preserves the invariant.                                     *)
(***************************************************************************)

(* A refused call has touched nothing. *)
LEMMA ValidateStep == ASSUME Inv, Validate PROVE Inv'
  <1> USE DEF Inv, TypeOK, Validate, Goto, Answer, contexts, ledger,
       Unadmitted, Preparing, Stopping, Retained, Closing
  <1>1. TypeOK' BY ReplyType DEF States, Cancellation, Kinds
  <1>2. LeaseInv' BY DEF LeaseInv, ProcInv
  <1>3. ProcInv' BY DEF ProcInv
  <1>4. HandleInv' BY DEF HandleInv, Running
  <1>5. ContextInv' BY DEF ContextInv, Running
  <1>6. OutcomeInv' BY DEF OutcomeInv, ProcInv, ContextInv
  <1>7. AnswerInv' BY DEF AnswerInv, ProcInv, OutcomeInv, Reply, Cancellation
  <1> QED BY <1>1, <1>2, <1>3, <1>4, <1>5, <1>6, <1>7

(* Nor has one that is refused a lease. *)
LEMMA RefuseStep == ASSUME Inv, Refuse PROVE Inv'
  <1> USE DEF Inv, TypeOK, Refuse, Answer, contexts, ledger, Unadmitted,
       Preparing, Stopping, Retained, Closing
  <1>1. TypeOK' BY ReplyType DEF States, Kinds
  <1>2. LeaseInv' BY DEF LeaseInv, ProcInv
  <1>3. ProcInv' BY DEF ProcInv
  <1>4. HandleInv' BY DEF HandleInv, Running
  <1>5. ContextInv' BY DEF ContextInv, Running
  <1>6. OutcomeInv' BY DEF OutcomeInv, ProcInv, ContextInv
  <1>7. AnswerInv' BY DEF AnswerInv, ProcInv, OutcomeInv, Reply
  <1> QED BY <1>1, <1>2, <1>3, <1>4, <1>5, <1>6, <1>7

(* Admission takes a lease and a reservation. *)
LEMMA BeginExecutionStep == ASSUME Inv, BeginExecution PROVE Inv'
  <1> USE DEF Inv, TypeOK, BeginExecution, Goto, contexts, Unadmitted,
       Preparing, Stopping, Retained, Closing
  <1>1. TypeOK' BY DEF States
  <1>2. LeaseInv' BY DEF LeaseInv, ProcInv
  <1>3. ProcInv' BY DEF ProcInv
  <1>4. HandleInv' BY DEF HandleInv, Running
  <1>5. ContextInv' BY DEF ContextInv, Running
  <1>6. OutcomeInv' BY DEF OutcomeInv, ProcInv, ContextInv
  <1>7. AnswerInv' BY DEF AnswerInv, ProcInv, OutcomeInv
  <1> QED BY <1>1, <1>2, <1>3, <1>4, <1>5, <1>6, <1>7

(* A failed preparation closes what it has opened. *)
LEMMA OpenWorktreeStep == ASSUME Inv, OpenWorktree PROVE Inv'
  <1> USE DEF Inv, TypeOK, OpenWorktree, Goto, Answer, Unprepared, contexts,
       ledger, Unadmitted, Preparing, Stopping, Retained, Closing
  <1>1. TypeOK' BY ReplyType DEF States, Kinds
  <1>2. LeaseInv' BY DEF LeaseInv, ProcInv
  <1>3. ProcInv' BY DEF ProcInv
  <1>4. HandleInv' BY DEF HandleInv, Running
  <1>5. ContextInv' BY DEF ContextInv, Running
  <1>6. OutcomeInv' BY DEF OutcomeInv, ProcInv, ContextInv
  <1>7. AnswerInv' BY DEF AnswerInv, ProcInv, OutcomeInv, Reply
  <1> QED BY <1>1, <1>2, <1>3, <1>4, <1>5, <1>6, <1>7

(* The work directory is opened beneath it, or the worktree is closed. *)
LEMMA OpenWorkdirStep == ASSUME Inv, OpenWorkdir PROVE Inv'
  <1> USE DEF Inv, TypeOK, OpenWorkdir, Goto, Answer, Unprepared, contexts,
       ledger, Unadmitted, Preparing, Stopping, Retained, Closing
  <1>1. TypeOK' BY ReplyType DEF States, Kinds
  <1>2. LeaseInv' BY DEF LeaseInv, ProcInv
  <1>3. ProcInv' BY DEF ProcInv
  <1>4. HandleInv' BY DEF HandleInv, Running
  <1>5. ContextInv' BY DEF ContextInv, Running
  <1>6. OutcomeInv' BY DEF OutcomeInv, ProcInv, ContextInv
  <1>7. AnswerInv' BY DEF AnswerInv, ProcInv, OutcomeInv, Reply
  <1> QED BY <1>1, <1>2, <1>3, <1>4, <1>5, <1>6, <1>7

(* It is a directory, or both are closed. *)
LEMMA StatWorkdirStep == ASSUME Inv, StatWorkdir PROVE Inv'
  <1> USE DEF Inv, TypeOK, StatWorkdir, Goto, Answer, Unprepared, contexts,
       ledger, Unadmitted, Preparing, Stopping, Retained, Closing
  <1>1. TypeOK' BY ReplyType DEF States, Kinds
  <1>2. LeaseInv' BY DEF LeaseInv, ProcInv
  <1>3. ProcInv' BY DEF ProcInv
  <1>4. HandleInv' BY DEF HandleInv, Running
  <1>5. ContextInv' BY DEF ContextInv, Running
  <1>6. OutcomeInv' BY DEF OutcomeInv, ProcInv, ContextInv
  <1>7. AnswerInv' BY DEF AnswerInv, ProcInv, OutcomeInv, Reply
  <1> QED BY <1>1, <1>2, <1>3, <1>4, <1>5, <1>6, <1>7

(* The executable is resolved, or the directories are closed. *)
LEMMA ResolveStep == ASSUME Inv, Resolve PROVE Inv'
  <1> USE DEF Inv, TypeOK, Resolve, Goto, Answer, Unprepared, contexts, ledger,
       Unadmitted, Preparing, Stopping, Retained, Closing
  <1>1. TypeOK' BY ReplyType DEF States, Kinds
  <1>2. LeaseInv' BY DEF LeaseInv, ProcInv
  <1>3. ProcInv' BY DEF ProcInv
  <1>4. HandleInv' BY DEF HandleInv, Running
  <1>5. ContextInv' BY DEF ContextInv, Running
  <1>6. OutcomeInv' BY DEF OutcomeInv, ProcInv, ContextInv
  <1>7. AnswerInv' BY DEF AnswerInv, ProcInv, OutcomeInv, Reply
  <1> QED BY <1>1, <1>2, <1>3, <1>4, <1>5, <1>6, <1>7

(* The launch is specified, or the directories are closed. *)
LEMMA PrepareSpecStep == ASSUME Inv, PrepareSpec PROVE Inv'
  <1> USE DEF Inv, TypeOK, PrepareSpec, Goto, Answer, Unprepared, contexts,
       ledger, Unadmitted, Preparing, Stopping, Retained, Closing
  <1>1. TypeOK' BY ReplyType DEF States, Kinds
  <1>2. LeaseInv' BY DEF LeaseInv, ProcInv
  <1>3. ProcInv' BY DEF ProcInv
  <1>4. HandleInv' BY DEF HandleInv, Running
  <1>5. ContextInv' BY DEF ContextInv, Running
  <1>6. OutcomeInv' BY DEF OutcomeInv, ProcInv, ContextInv
  <1>7. AnswerInv' BY DEF AnswerInv, ProcInv, OutcomeInv, Reply
  <1> QED BY <1>1, <1>2, <1>3, <1>4, <1>5, <1>6, <1>7

(* processContext starts as the caller's context. *)
LEMMA CheckProcessContextStep == ASSUME Inv, CheckProcessContext PROVE Inv'
  <1> USE DEF Inv, TypeOK, CheckProcessContext, Goto, ledger, Unadmitted,
       Preparing, Stopping, Retained, Closing
  <1>1. TypeOK' BY DEF States
  <1>2. LeaseInv' BY DEF LeaseInv, ProcInv
  <1>3. ProcInv' BY DEF ProcInv
  <1>4. HandleInv' BY DEF HandleInv, Running
  <1>5. ContextInv' BY DEF ContextInv, Running
  <1>6. OutcomeInv' BY DEF OutcomeInv, ProcInv, ContextInv
  <1>7. AnswerInv' BY DEF AnswerInv, ProcInv, OutcomeInv
  <1> QED BY <1>1, <1>2, <1>3, <1>4, <1>5, <1>6, <1>7

(* Without a process the reservation stays. *)
LEMMA StartFailsStep == ASSUME Inv, StartFails PROVE Inv'
  <1> USE DEF Inv, TypeOK, StartFails, Goto, ledger, Unadmitted, Preparing,
       Stopping, Retained, Closing
  <1>1. TypeOK' BY DEF States
  <1>2. LeaseInv' BY DEF LeaseInv, ProcInv
  <1>3. ProcInv' BY DEF ProcInv
  <1>4. HandleInv' BY DEF HandleInv, Running
  <1>5. ContextInv' BY DEF ContextInv, Running
  <1>6. OutcomeInv' BY DEF OutcomeInv, ProcInv, ContextInv
  <1>7. AnswerInv' BY DEF AnswerInv, ProcInv, OutcomeInv
  <1> QED BY <1>1, <1>2, <1>3, <1>4, <1>5, <1>6, <1>7

(* The returned process is not yet in the ledger. *)
LEMMA StartReturnsStep == ASSUME Inv, StartReturns PROVE Inv'
  <1> USE DEF Inv, TypeOK, StartReturns, Goto, contexts, ledger, Unadmitted,
       Preparing, Stopping, Retained, Closing
  <1>1. TypeOK'
    <2>1. outcome' \in [OutcomeFields -> BOOLEAN] BY DEF OutcomeFields
    <2> QED BY <2>1 DEF States, ProcStates
  <1>2. LeaseInv' BY DEF LeaseInv, ProcInv
  <1>3. ProcInv' BY DEF ProcInv, OutcomeFields
  <1>4. HandleInv' BY DEF HandleInv, Running
  <1>5. ContextInv' BY DEF ContextInv, Running
  <1>6. OutcomeInv' BY DEF OutcomeInv, ProcInv, ContextInv
  <1>7. AnswerInv' BY DEF AnswerInv, ProcInv, OutcomeInv
  <1> QED BY <1>1, <1>2, <1>3, <1>4, <1>5, <1>6, <1>7

(* The process is retained before its launch error is looked at. *)
LEMMA RetainStep == ASSUME Inv, Retain PROVE Inv'
  <1> USE DEF Inv, TypeOK, Retain, Goto, GiveBackReservation, Unadmitted,
       Preparing, Stopping, Retained, Closing
  <1>1. TypeOK'
    <2>1. active' \in Nat /\ reservations' \in Nat
      BY DEF GiveBackReservation, LeaseInv
    <2>2. pc' \in States /\ reserved' \in BOOLEAN
      BY DEF States, GiveBackReservation
    <2> QED BY <2>1, <2>2
  <1>2. LeaseInv' BY DEF LeaseInv, ProcInv, GiveBackReservation
  <1>3. ProcInv' BY DEF ProcInv
  <1>4. HandleInv' BY DEF HandleInv, Running
  <1>5. ContextInv' BY DEF ContextInv, Running
  <1>6. OutcomeInv' BY DEF OutcomeInv, ProcInv, ContextInv
  <1>7. AnswerInv' BY DEF AnswerInv, ProcInv, OutcomeInv
  <1> QED BY <1>1, <1>2, <1>3, <1>4, <1>5, <1>6, <1>7

(* Of the two cases of the select either may be taken. *)
LEMMA ProcessDoneStep == ASSUME Inv, ProcessDone PROVE Inv'
  <1> USE DEF Inv, TypeOK, ProcessDone, Goto, contexts, ledger, Unadmitted,
       Preparing, Stopping, Retained, Closing
  <1>1. TypeOK' BY DEF States
  <1>2. LeaseInv' BY DEF LeaseInv, ProcInv
  <1>3. ProcInv' BY DEF ProcInv
  <1>4. HandleInv' BY DEF HandleInv, Running
  <1>5. ContextInv' BY DEF ContextInv, Running
  <1>6. OutcomeInv' BY DEF OutcomeInv, ProcInv, ContextInv
  <1>7. AnswerInv' BY DEF AnswerInv, ProcInv, OutcomeInv
  <1> QED BY <1>1, <1>2, <1>3, <1>4, <1>5, <1>6, <1>7

(* The select takes the other case: the error is copied. *)
LEMMA ProcessInterruptedStep == ASSUME Inv, ProcessInterrupted PROVE Inv'
  <1> USE DEF Inv, TypeOK, ProcessInterrupted, Goto, ledger, Unadmitted,
       Preparing, Stopping, Retained, Closing
  <1>1. TypeOK' BY DEF States
  <1>2. LeaseInv' BY DEF LeaseInv, ProcInv
  <1>3. ProcInv' BY DEF ProcInv
  <1>4. HandleInv' BY DEF HandleInv, Running
  <1>5. ContextInv' BY DEF ContextInv, Running
  <1>6. OutcomeInv' BY DEF OutcomeInv, ProcInv, ContextInv
  <1>7. AnswerInv' BY DEF AnswerInv, ProcInv, OutcomeInv
  <1> QED BY <1>1, <1>2, <1>3, <1>4, <1>5, <1>6, <1>7

(* The caller's context is read last and wins. *)
LEMMA InterruptedOutcomeStep == ASSUME Inv, InterruptedOutcome PROVE Inv'
  <1> USE DEF Inv, TypeOK, InterruptedOutcome, Goto, contexts, ledger,
       Unadmitted, Preparing, Stopping, Retained, Closing
  <1>1. TypeOK' BY DEF States, Interrupt, OutcomeFields
  <1>2. LeaseInv' BY DEF LeaseInv, ProcInv, Interrupt
  <1>3. ProcInv' BY DEF ProcInv, Interrupt, OutcomeFields
  <1>4. HandleInv' BY DEF HandleInv, Running
  <1>5. ContextInv' BY DEF ContextInv, Running
  <1>6. OutcomeInv'
    <2>1. /\ outcome'.timedOut = (parent = "nil" /\ perr \in {"deadline", "expired"})
          /\ outcome'.contextErr = (parent # "nil" \/ perr = "canceled")
          /\ \A field \in OutcomeFields \ {"timedOut", "contextErr"} :
                outcome'[field] = outcome[field]
      BY DEF Interrupt, OutcomeFields
    <2>2. perr \in {"nil", "canceled", "deadline", "expired"}
      BY DEF ContextErrors
    <2>3. outcome'.contextErr \/ outcome'.timedOut \/ outcome'.launchErr
      BY <2>1, <2>2 DEF OutcomeInv, OutcomeFields
    <2> QED
      BY <2>1, <2>2, <2>3 DEF OutcomeInv, OutcomeFields, ProcInv, ContextInv
  <1>7. AnswerInv' BY DEF AnswerInv, ProcInv, OutcomeInv
  <1> QED BY <1>1, <1>2, <1>3, <1>4, <1>5, <1>6, <1>7

(* A process is stopped only after an error was noted. *)
LEMMA RequestStopStep == ASSUME Inv, RequestStop PROVE Inv'
  <1> USE DEF Inv, TypeOK, RequestStop, Goto, contexts, ledger, Unadmitted,
       Preparing, Stopping, Retained, Closing
  <1>1. TypeOK' BY DEF States
  <1>2. LeaseInv' BY DEF LeaseInv, ProcInv
  <1>3. ProcInv' BY DEF ProcInv
  <1>4. HandleInv' BY DEF HandleInv, Running
  <1>5. ContextInv' BY DEF ContextInv, Running
  <1>6. OutcomeInv' BY DEF OutcomeInv, ProcInv, ContextInv
  <1>7. AnswerInv' BY DEF AnswerInv, ProcInv, OutcomeInv
  <1> QED BY <1>1, <1>2, <1>3, <1>4, <1>5, <1>6, <1>7

(* The grace period ends, with or without a kill. *)
LEMMA StopGraceStep == ASSUME Inv, StopGrace PROVE Inv'
  <1> USE DEF Inv, TypeOK, StopGrace, Goto, contexts, ledger, Unadmitted,
       Preparing, Stopping, Retained, Closing
  <1>1. TypeOK' BY DEF States
  <1>2. LeaseInv' BY DEF LeaseInv, ProcInv
  <1>3. ProcInv' BY DEF ProcInv, OutcomeFields
  <1>4. HandleInv' BY DEF HandleInv, Running
  <1>5. ContextInv' BY DEF ContextInv, Running
  <1>6. OutcomeInv' BY DEF OutcomeInv, ProcInv, ContextInv, OutcomeFields
  <1>7. AnswerInv' BY DEF AnswerInv, ProcInv, OutcomeInv
  <1> QED BY <1>1, <1>2, <1>3, <1>4, <1>5, <1>6, <1>7

(* A result is read of a process that was started. *)
LEMMA ObserveResultStep == ASSUME Inv, ObserveResult PROVE Inv'
  <1> USE DEF Inv, TypeOK, ObserveResult, Goto, contexts, ledger, Unadmitted,
       Preparing, Stopping, Retained, Closing
  <1>1. TypeOK'
    <2>1. outcome' \in [OutcomeFields -> BOOLEAN]
      BY DEF ReadResult, OutcomeFields
    <2> QED BY <2>1 DEF States
  <1>2. LeaseInv' BY DEF LeaseInv, ProcInv
  <1>3. ProcInv' BY DEF ProcInv, ReadResult, OutcomeFields
  <1>4. HandleInv' BY DEF HandleInv, Running
  <1>5. ContextInv' BY DEF ContextInv, Running
  <1>6. OutcomeInv'
    BY DEF OutcomeInv, ProcInv, ContextInv, ReadResult, OutcomeFields
  <1>7. AnswerInv' BY DEF AnswerInv, ProcInv, OutcomeInv
  <1> QED BY <1>1, <1>2, <1>3, <1>4, <1>5, <1>6, <1>7

(* A joined process is released next. *)
LEMMA WaitSucceedsStep == ASSUME Inv, WaitSucceeds PROVE Inv'
  <1> USE DEF Inv, TypeOK, WaitSucceeds, Goto, contexts, ledger, Unadmitted,
       Preparing, Stopping, Retained, Closing
  <1>1. TypeOK' BY DEF States, ProcStates
  <1>2. LeaseInv' BY DEF LeaseInv, ProcInv
  <1>3. ProcInv' BY DEF ProcInv
  <1>4. HandleInv' BY DEF HandleInv, Running
  <1>5. ContextInv' BY DEF ContextInv, Running
  <1>6. OutcomeInv' BY DEF OutcomeInv, ProcInv, ContextInv
  <1>7. AnswerInv' BY DEF AnswerInv, ProcInv, OutcomeInv
  <1> QED BY <1>1, <1>2, <1>3, <1>4, <1>5, <1>6, <1>7

(* The wait is given up: the process stays in custody. *)
LEMMA WaitFailsStep == ASSUME Inv, WaitFails PROVE Inv'
  <1> USE DEF Inv, TypeOK, WaitFails, Goto, contexts, ledger, Unadmitted,
       Preparing, Stopping, Retained, Closing
  <1>1. TypeOK' BY DEF States
  <1>2. LeaseInv' BY DEF LeaseInv, ProcInv
  <1>3. ProcInv' BY DEF ProcInv
  <1>4. HandleInv' BY DEF HandleInv, Running
  <1>5. ContextInv' BY DEF ContextInv, Running
  <1>6. OutcomeInv' BY DEF OutcomeInv, ProcInv, ContextInv
  <1>7. AnswerInv' BY DEF AnswerInv, ProcInv, OutcomeInv
  <1> QED BY <1>1, <1>2, <1>3, <1>4, <1>5, <1>6, <1>7

(* The wait declares that it must not be repeated. *)
LEMMA WaitFailsTerminallyStep == ASSUME Inv, WaitFailsTerminally PROVE Inv'
  <1> USE DEF Inv, TypeOK, WaitFailsTerminally, Goto, contexts, ledger,
       Unadmitted, Preparing, Stopping, Retained, Closing
  <1>1. TypeOK' BY DEF States, ProcStates
  <1>2. LeaseInv' BY DEF LeaseInv, ProcInv
  <1>3. ProcInv' BY DEF ProcInv
  <1>4. HandleInv' BY DEF HandleInv, Running
  <1>5. ContextInv' BY DEF ContextInv, Running
  <1>6. OutcomeInv' BY DEF OutcomeInv, ProcInv, ContextInv
  <1>7. AnswerInv' BY DEF AnswerInv, ProcInv, OutcomeInv
  <1> QED BY <1>1, <1>2, <1>3, <1>4, <1>5, <1>6, <1>7

(* A joined process leaves the ledger. *)
LEMMA ReleaseOwnedStep == ASSUME Inv, ReleaseOwned PROVE Inv'
  <1> USE DEF Inv, TypeOK, ReleaseOwned, Goto, contexts, lease, Unadmitted,
       Preparing, Stopping, Retained, Closing
  <1>1. TypeOK' BY DEF States
  <1>2. LeaseInv' BY DEF LeaseInv, ProcInv
  <1>3. ProcInv' BY DEF ProcInv
  <1>4. HandleInv' BY DEF HandleInv, Running
  <1>5. ContextInv' BY DEF ContextInv, Running
  <1>6. OutcomeInv' BY DEF OutcomeInv, ProcInv, ContextInv
  <1>7. AnswerInv' BY DEF AnswerInv, ProcInv, OutcomeInv
  <1> QED BY <1>1, <1>2, <1>3, <1>4, <1>5, <1>6, <1>7

(* A terminal failure is cached, and custody kept. *)
LEMMA CacheTerminalStep == ASSUME Inv, CacheTerminal PROVE Inv'
  <1> USE DEF Inv, TypeOK, CacheTerminal, Goto, contexts, lease, Unadmitted,
       Preparing, Stopping, Retained, Closing
  <1>1. TypeOK' BY DEF States
  <1>2. LeaseInv' BY DEF LeaseInv, ProcInv
  <1>3. ProcInv' BY DEF ProcInv
  <1>4. HandleInv' BY DEF HandleInv, Running
  <1>5. ContextInv' BY DEF ContextInv, Running
  <1>6. OutcomeInv' BY DEF OutcomeInv, ProcInv, ContextInv
  <1>7. AnswerInv' BY DEF AnswerInv, ProcInv, OutcomeInv
  <1> QED BY <1>1, <1>2, <1>3, <1>4, <1>5, <1>6, <1>7

(* The answer is composed: every claim it makes is true when it is made. *)
LEMMA ClassifyProcessOutcomeStep ==
    ASSUME Inv, ClassifyProcessOutcome PROVE Inv'
  <1> USE DEF Inv, TypeOK, ClassifyProcessOutcome, Goto, contexts, ledger,
       Unadmitted, Preparing, Stopping, Retained, Closing
  <1>1. TypeOK'
    <2>1. Classification \in Replies BY ClassificationType
    <2> QED BY <2>1 DEF States
  <1>2. LeaseInv' BY DEF LeaseInv, ProcInv
  <1>3. ProcInv' BY DEF ProcInv
  <1>4. HandleInv' BY DEF HandleInv, Running
  <1>5. ContextInv' BY DEF ContextInv, Running
  <1>6. OutcomeInv' BY DEF OutcomeInv, ProcInv, ContextInv
  <1>7. AnswerInv'
    <2>1. CASE outcome.contextErr
      BY <2>1 DEF Classification, Interruption, Reply, AnswerInv, OutcomeInv, ProcInv
    <2>2. CASE outcome.timedOut /\ ~outcome.contextErr
      BY <2>2 DEF Classification, Timeout, CleanupFailed, Content, Reply,
         AnswerInv, OutcomeInv, ProcInv
    <2>3. CASE outcome.launchErr /\ ~outcome.timedOut /\ ~outcome.contextErr
      BY <2>3 DEF Classification, LaunchFailure, Content, Reply,
         AnswerInv, OutcomeInv, ProcInv
    <2>4. CASE ~outcome.launchErr /\ ~outcome.timedOut /\ ~outcome.contextErr
      BY <2>4 DEF Classification, Completion, CleanupFailed, Content, Reply,
         AnswerInv, OutcomeInv, ProcInv
    <2> QED BY <2>1, <2>2, <2>3, <2>4
  <1> QED BY <1>1, <1>2, <1>3, <1>4, <1>5, <1>6, <1>7

(* An answer that cannot be encoded becomes an uncertain one. *)
LEMMA EncodeShellResultStep == ASSUME Inv, EncodeShellResult PROVE Inv'
  <1> USE DEF Inv, TypeOK, EncodeShellResult, Goto, Answer, contexts, ledger,
       Unadmitted, Preparing, Stopping, Retained, Closing
  <1>1. TypeOK' BY ReplyType DEF States, Kinds
  <1>2. LeaseInv' BY DEF LeaseInv, ProcInv
  <1>3. ProcInv' BY DEF ProcInv
  <1>4. HandleInv' BY DEF HandleInv, Running
  <1>5. ContextInv' BY DEF ContextInv, Running
  <1>6. OutcomeInv' BY DEF OutcomeInv, ProcInv, ContextInv
  <1>7. AnswerInv' BY DEF AnswerInv, ProcInv, OutcomeInv, Reply
  <1> QED BY <1>1, <1>2, <1>3, <1>4, <1>5, <1>6, <1>7

(* The lease is given back, and a reservation that is left with it. *)
LEMMA FinishStep == ASSUME Inv, Finish PROVE Inv'
  <1> USE DEF Inv, TypeOK, Finish, Goto, contexts, GiveBackReservation,
       Unadmitted, Preparing, Stopping, Retained, Closing
  <1>1. TypeOK'
    <2>1. active' \in Nat /\ reservations' \in Nat
      BY DEF GiveBackReservation, LeaseInv
    <2>2. pc' \in States /\ reserved' \in BOOLEAN
      BY DEF States, GiveBackReservation
    <2> QED BY <2>1, <2>2
  <1>2. LeaseInv' BY DEF LeaseInv, ProcInv, GiveBackReservation
  <1>3. ProcInv' BY DEF ProcInv
  <1>4. HandleInv' BY DEF HandleInv, Running
  <1>5. ContextInv' BY DEF ContextInv, Running
  <1>6. OutcomeInv' BY DEF OutcomeInv, ProcInv, ContextInv
  <1>7. AnswerInv' BY DEF AnswerInv, ProcInv, OutcomeInv
  <1> QED BY <1>1, <1>2, <1>3, <1>4, <1>5, <1>6, <1>7

(* The caller's context may be done at any moment. *)
LEMMA CallerDoneStep == ASSUME Inv, CallerDone PROVE Inv'
  <1> USE DEF Inv, TypeOK, CallerDone, ledger, Unadmitted, Preparing, Stopping,
       Retained, Closing
  <1>1. TypeOK' BY DEF ContextErrors
  <1>2. LeaseInv' BY DEF LeaseInv, ProcInv
  <1>3. ProcInv' BY DEF ProcInv
  <1>4. HandleInv' BY DEF HandleInv, Running
  <1>5. ContextInv' BY DEF ContextInv, Running
  <1>6. OutcomeInv' BY DEF OutcomeInv, ProcInv, ContextInv
  <1>7. AnswerInv' BY DEF AnswerInv, ProcInv, OutcomeInv
  <1> QED BY <1>1, <1>2, <1>3, <1>4, <1>5, <1>6, <1>7

(* So may the command's own timer expire. *)
LEMMA CommandTimeoutStep == ASSUME Inv, CommandTimeout PROVE Inv'
  <1> USE DEF Inv, TypeOK, CommandTimeout, ledger, Unadmitted, Preparing,
       Stopping, Retained, Closing
  <1>1. TypeOK' OBVIOUS
  <1>2. LeaseInv' BY DEF LeaseInv, ProcInv
  <1>3. ProcInv' BY DEF ProcInv
  <1>4. HandleInv' BY DEF HandleInv, Running
  <1>5. ContextInv' BY DEF ContextInv, Running
  <1>6. OutcomeInv' BY DEF OutcomeInv, ProcInv, ContextInv
  <1>7. AnswerInv' BY DEF AnswerInv, ProcInv, OutcomeInv
  <1> QED BY <1>1, <1>2, <1>3, <1>4, <1>5, <1>6, <1>7

(* The process goes on by itself. *)
LEMMA ProcessAdvancesStep == ASSUME Inv, ProcessAdvances PROVE Inv'
  <1> USE DEF Inv, TypeOK, ProcessAdvances, contexts, ledger, Unadmitted,
       Preparing, Stopping, Retained, Closing
  <1>1. TypeOK' BY DEF ProcStates
  <1>2. LeaseInv' BY DEF LeaseInv, ProcInv
  <1>3. ProcInv' BY DEF ProcInv
  <1>4. HandleInv' BY DEF HandleInv, Running
  <1>5. ContextInv' BY DEF ContextInv, Running
  <1>6. OutcomeInv' BY DEF OutcomeInv, ProcInv, ContextInv
  <1>7. AnswerInv' BY DEF AnswerInv, ProcInv, OutcomeInv
  <1> QED BY <1>1, <1>2, <1>3, <1>4, <1>5, <1>6, <1>7

(* Inv holds before the call. *)
LEMMA InitInv == Init => Inv
  <1> SUFFICES ASSUME Init PROVE Inv
    OBVIOUS
  <1> USE DEF Init
  <1>1. TypeOK
    <2>1. outcome \in [OutcomeFields -> BOOLEAN] BY DEF NoOutcome
    <2>2. reply \in Replies BY ReplyType DEF Kinds
    <2>3. pc \in States BY DEF States
    <2>4. proc \in ProcStates BY DEF ProcStates
    <2>5. parent \in ContextErrors /\ {timeout, perr} \subseteq ContextErrors \cup {"expired"}
      BY DEF ContextErrors
    <2>6. handles \subseteq {"workspace", "directory"} OBVIOUS
    <2>7. {active, reservations} \subseteq Nat OBVIOUS
    <2>8. {reserved, owned, terminal, stopped} \subseteq BOOLEAN OBVIOUS
    <2> HIDE DEF Init
    <2> QED BY <2>1, <2>2, <2>3, <2>4, <2>5, <2>6, <2>7, <2>8 DEF TypeOK
  <1>2. LeaseInv
    BY DEF LeaseInv, Unadmitted, Preparing, Retained, Stopping
  <1>3. ProcInv
    BY DEF ProcInv, Unadmitted, Preparing, Retained, Stopping, Closing,
       NoOutcome, OutcomeFields
  <1>4. HandleInv BY DEF HandleInv, Running
  <1>5. ContextInv BY DEF ContextInv
  <1>6. OutcomeInv
    BY DEF OutcomeInv, Retained, Stopping, NoOutcome, OutcomeFields
  <1>7. AnswerInv BY DEF AnswerInv
  <1> QED BY <1>1, <1>2, <1>3, <1>4, <1>5, <1>6, <1>7 DEF Inv

(* Every step, of the call or of its environment, preserves Inv. *)
LEMMA NextInv == Inv /\ [Next]_vars => Inv'
  <1> SUFFICES ASSUME Inv, [Next]_vars PROVE Inv'
    OBVIOUS
  <1>1. CASE Step
    BY <1>1, ValidateStep, RefuseStep, BeginExecutionStep, OpenWorktreeStep,
       OpenWorkdirStep, StatWorkdirStep, ResolveStep, PrepareSpecStep,
       CheckProcessContextStep,
       StartFailsStep, StartReturnsStep, RetainStep, ProcessDoneStep,
       ProcessInterruptedStep, InterruptedOutcomeStep, RequestStopStep,
       StopGraceStep, ObserveResultStep, WaitSucceedsStep, WaitFailsStep,
       WaitFailsTerminallyStep, ReleaseOwnedStep, CacheTerminalStep,
       ClassifyProcessOutcomeStep, EncodeShellResultStep, FinishStep
    DEF Step, Report, OwnStep
  <1>2. CASE CallerDone
    BY <1>2, CallerDoneStep
  <1>3. CASE CommandTimeout
    BY <1>3, CommandTimeoutStep
  <1>4. CASE ProcessAdvances
    BY <1>4, ProcessAdvancesStep
  <1>5. CASE UNCHANGED vars
    BY <1>5 DEF vars, Inv, TypeOK, LeaseInv, ProcInv, HandleInv, Running,
       ContextInv, OutcomeInv, AnswerInv
  <1> QED BY <1>1, <1>2, <1>3, <1>4, <1>5 DEF Next, AlreadyAnswered

(* Inv holds in every state of a call. *)
THEOREM Invariance == Spec => []Inv
  BY InitInv, NextInv, PTL DEF Spec

-----------------------------------------------------------------------------
(***************************************************************************)
(* The properties of the run.                                              *)
(***************************************************************************)

(* Every variable keeps its type; neither counter becomes negative. *)
THEOREM TypeCorrect == Spec => []TypeOK
  BY Invariance, PTL DEF Inv

(* An ordinary result never hides a process that was not joined. *)
THEOREM JoinedResults == Spec => []ResultMeansJoined
  <1>1. Inv => ResultMeansJoined
    BY DEF Inv, ProcInv, AnswerInv, ResultMeansJoined, Answered, Unadmitted,
       Closing
  <1> QED BY <1>1, Invariance, PTL

(* A definitive failure is one before any launch. *)
THEOREM DefinitiveFailures == Spec => []DefinitiveMeansNotStarted
  <1>1. Inv => DefinitiveMeansNotStarted
    BY DEF Inv, AnswerInv, DefinitiveMeansNotStarted, Answered
  <1> QED BY <1>1, Invariance, PTL

(* An answer names the context only when it was done, the timeout only     *)
(* when the command's timer expired.                                       *)
THEOREM TruthfulInterruption == Spec => []InterruptionIsTrue
  <1>1. Inv => InterruptionIsTrue
    BY DEF Inv, AnswerInv, InterruptionIsTrue, Answered
  <1> QED BY <1>1, Invariance, PTL

(* ok=true and the absence of a problem agree, and are earned. *)
THEOREM EarnedOk == Spec => []OkIsEarned
  <1>1. Inv => OkIsEarned
    BY DEF Inv, AnswerInv, OkIsEarned, Answered
  <1> QED BY <1>1, Invariance, PTL

(* The directories are open while a process may use them, and closed when  *)
(* the call is answered.                                                   *)
THEOREM HeldDirectories == Spec => []DirectoriesAreHeld
  <1>1. Inv => DirectoriesAreHeld
    BY DEF Inv, HandleInv, DirectoriesAreHeld, Answered, Running
  <1> QED BY <1>1, Invariance, PTL

-----------------------------------------------------------------------------
(***************************************************************************)
(* The refinement: a call is a call of ShellOwnership.                     *)
(***************************************************************************)

(* The ledger sees of a step what it does to these. *)
LedgerRecord == IF proc # "none" /\ ~reserved THEN Call ELSE NoRecord
LedgerProc == IF proc \in {"running", "exited"} THEN "live" ELSE proc
LedgerView == <<LedgerState, LedgerRecord, LedgerProc, ledger>>

(* A step that changes nothing of it is a stutter of the ledger. *)
LEMMA LedgerStutters == UNCHANGED LedgerView => UNCHANGED Ledger!vars
  BY DEF LedgerView, LedgerRecord, LedgerProc, ledger, Ledger!vars

(* Before the call the ledger is empty. *)
LEMMA LedgerInit == Init => Ledger!Init
  BY DEF Init, Ledger!Init, Ledger!Threads, LedgerState

(* The admission of the call: there is room, for it is the only one. *)
LEMMA LedgerBegins == ASSUME Inv, BeginExecution PROVE Ledger!BeginExecution(Call)
  <1>1. Ledger!Cardinality({}) = 0
    BY FS_EmptySet DEF Ledger!Cardinality, Cardinality
  <1>2. LedgerState = "idle" /\ LedgerState' = "leased"
    BY DEF LedgerState, BeginExecution, Goto
  <1>3. owned = FALSE /\ reservations = 0 /\ active = 0 /\ proc = "none"
    BY DEF Inv, TypeOK, LeaseInv, ProcInv, Unadmitted, Preparing, BeginExecution
  <1>4. Ledger!Admits
    BY <1>1, <1>3 DEF Ledger!Admits
  <1>5. Ledger!Goto(Call, "leased")
    BY <1>2 DEF Ledger!Goto
  <1>6. LedgerRecord' = LedgerRecord
    BY <1>3 DEF BeginExecution, LedgerRecord
  <1>7. LedgerProc' = LedgerProc
    BY DEF BeginExecution, LedgerProc
  <1> QED
    BY <1>2, <1>4, <1>5, <1>6, <1>7
    DEF BeginExecution, Ledger!BeginExecution, Ledger!cleaning, LedgerRecord,
        LedgerProc

(* A call that ends without a process abandons its launch. *)
LEMMA LedgerAbandons ==
    ASSUME LedgerState = "leased", LedgerState' = "finishing",
           UNCHANGED <<ledger, proc>>
    PROVE  Ledger!AbandonLaunch(Call)
  BY DEF Ledger!AbandonLaunch, Ledger!Goto, Ledger!ledger, Ledger!cleaning, ledger

(* So does a preparation that fails; one that goes on is a stutter. *)
LEMMA LedgerPrepares ==
    ASSUME Inv,
           OpenWorktree \/ OpenWorkdir \/ StatWorkdir \/ Resolve \/ PrepareSpec
    PROVE  Ledger!AbandonLaunch(Call) \/ UNCHANGED Ledger!vars
  <1>1. LedgerState = "leased"
    BY DEF OpenWorktree, OpenWorkdir, StatWorkdir, Resolve, PrepareSpec,
           LedgerState
  <1>2. pc' \in {"entering", "examining", "resolving", "preparing", "prepared",
                "finishing"}
    BY DEF OpenWorktree, OpenWorkdir, StatWorkdir, Resolve, PrepareSpec, Goto,
           Unprepared, Answer
  <1>3. UNCHANGED <<ledger, proc>>
    BY DEF OpenWorktree, OpenWorkdir, StatWorkdir, Resolve, PrepareSpec
  <1>4. CASE pc' = "finishing"
    BY <1>1, <1>3, <1>4, LedgerAbandons DEF LedgerState
  <1>5. CASE pc' # "finishing"
    <2>1. LedgerState' = "leased"
      BY <1>2, <1>5 DEF LedgerState
    <2>2. UNCHANGED LedgerView
      BY <1>1, <1>3, <2>1 DEF LedgerView, LedgerRecord, LedgerProc, ledger
    <2> QED BY <2>2, LedgerStutters
  <1> QED BY <1>4, <1>5

(* A context that is done before the launch, or a launch that returns no   *)
(* process, abandons it too.                                               *)
LEMMA LedgerLaunches ==
    ASSUME Inv, CheckProcessContext \/ StartFails
    PROVE  Ledger!AbandonLaunch(Call) \/ UNCHANGED Ledger!vars
  <1>1. LedgerState = "leased"
    BY DEF CheckProcessContext, StartFails, LedgerState
  <1>2. pc' \in {"starting", "interrupted"}
    BY DEF CheckProcessContext, StartFails, Goto
  <1>3. UNCHANGED <<ledger, proc>>
    BY DEF CheckProcessContext, StartFails
  <1>4. ~outcome.started /\ outcome'.started = outcome.started
    BY DEF CheckProcessContext, StartFails, Inv, TypeOK, ProcInv, Preparing,
       OutcomeFields
  <1>5. CASE pc' = "interrupted"
    <2>1. LedgerState' = "finishing"
      BY <1>4, <1>5 DEF LedgerState
    <2> QED BY <1>1, <1>3, <2>1, LedgerAbandons
  <1>6. CASE pc' = "starting"
    <2>1. LedgerState' = "leased"
      BY <1>6 DEF LedgerState
    <2>2. UNCHANGED LedgerView
      BY <1>1, <1>3, <2>1 DEF LedgerView, LedgerRecord, LedgerProc, ledger
    <2> QED BY <2>2, LedgerStutters
  <1> QED BY <1>2, <1>5, <1>6

(* The process a launch returns is live. *)
LEMMA LedgerStarts ==
    ASSUME Inv, StartReturns PROVE Ledger!StartReturns(Call)
  <1>1. LedgerState = "leased" /\ LedgerState' = "launched"
    BY DEF StartReturns, Goto, LedgerState
  <1>2. reserved = TRUE
    BY DEF StartReturns, Inv, TypeOK, LeaseInv
  <1>3. LedgerRecord' = LedgerRecord
    BY <1>2 DEF StartReturns, LedgerRecord, ledger
  <1>4. LedgerProc' = "live"
    BY DEF StartReturns, LedgerProc
  <1> QED
    BY <1>1, <1>3, <1>4 DEF StartReturns, Ledger!StartReturns, Ledger!Goto,
       Ledger!ledger, Ledger!cleaning, LedgerRecord, LedgerProc, ledger

(* It is retained, whatever came beside it. *)
LEMMA LedgerRetains == ASSUME Inv, Retain PROVE Ledger!Retain(Call)
  <1>1. outcome.started /\ proc # "none" /\ owned = FALSE /\ reserved = TRUE
    BY DEF Retain, Inv, TypeOK, ProcInv, LeaseInv
  <1>2. LedgerState = "launched" /\ LedgerState' = "retained"
    BY <1>1 DEF Retain, Goto, LedgerState
  <1>3. LedgerRecord' = Call
    BY <1>1 DEF Retain, LedgerRecord, GiveBackReservation
  <1>4. LedgerProc' = LedgerProc
    BY DEF Retain, LedgerProc
  <1>5. Ledger!GiveBackReservation(Call)
    BY <1>1 DEF Retain, GiveBackReservation, Ledger!GiveBackReservation
  <1> QED
    BY <1>1, <1>2, <1>3, <1>4, <1>5 DEF Retain, Ledger!Retain, Ledger!Goto,
       Ledger!cleaning, LedgerRecord, LedgerProc

(* Between the retention and the wait the ledger sees nothing. *)
LEMMA LedgerWatches ==
    ASSUME Inv, ProcessDone \/ ProcessInterrupted \/ InterruptedOutcome
                  \/ RequestStop \/ StopGrace
    PROVE  UNCHANGED Ledger!vars
  <1>1. UNCHANGED <<ledger, proc>>
    BY DEF ProcessDone, ProcessInterrupted, InterruptedOutcome, RequestStop,
       StopGrace
  <1>2. pc \in {"watching", "stopping", "grace"} => outcome.started
    BY DEF Inv, ProcInv, Retained, Stopping
  <1>3. LedgerState' = LedgerState
    <2>1. CASE ProcessDone
      BY <2>1 DEF ProcessDone, Goto, LedgerState
    <2>2. CASE ProcessInterrupted
      BY <1>2, <2>2 DEF ProcessInterrupted, Goto, LedgerState
    <2>3. CASE InterruptedOutcome
      BY <2>3 DEF InterruptedOutcome, Goto, LedgerState
    <2>4. CASE RequestStop
      BY <2>4 DEF RequestStop, Goto, LedgerState
    <2>5. CASE StopGrace
      BY <2>5 DEF StopGrace, Goto, LedgerState
    <2> QED BY <2>1, <2>2, <2>3, <2>4, <2>5
  <1>4. UNCHANGED LedgerView
    BY <1>1, <1>3 DEF LedgerView, LedgerRecord, LedgerProc, ledger
  <1> QED BY <1>4, LedgerStutters

(* The wait of a retained process, whose failure is not cached yet. *)
LEMMA LedgerWaits == ASSUME Inv, ObserveResult PROVE Ledger!WaitOwned(Call)
  <1>1. terminal = FALSE /\ proc # "none" /\ reserved = FALSE
    BY DEF ObserveResult, Inv, TypeOK, ProcInv, LeaseInv, Retained, Stopping
  <1>2. LedgerState = "retained" /\ LedgerState' = "joining"
    BY DEF ObserveResult, Goto, LedgerState
  <1> QED
    BY <1>1, <1>2 DEF ObserveResult, Ledger!WaitOwned, Ledger!Goto,
       Ledger!ledger, ledger

(* What a goroutine at a step of waitOwned has in hand. *)
LEMMA LedgerJoining ==
    ASSUME Inv, pc \in {"joining", "joined", "poisoned"}
    PROVE  proc # "none" /\ reserved = FALSE /\ LedgerState = pc
  BY DEF Inv, TypeOK, ProcInv, LeaseInv, Retained, Stopping, LedgerState

(* The process was joined. *)
LEMMA LedgerJoins == ASSUME Inv, WaitSucceeds PROVE Ledger!WaitSucceeds(Call)
  <1>1. proc # "none" /\ reserved = FALSE /\ LedgerState = "joining"
    BY LedgerJoining DEF WaitSucceeds
  <1>2. LedgerState' = "joined"
    BY DEF WaitSucceeds, Goto, LedgerState
  <1> QED
    BY <1>1, <1>2 DEF WaitSucceeds, Ledger!WaitSucceeds, Ledger!Goto,
       Ledger!ledger, Ledger!cleaning, ledger

(* The wait was given up, and custody kept. *)
LEMMA LedgerGivesUp == ASSUME Inv, WaitFails PROVE Ledger!WaitFails(Call)
  <1>1. LedgerState = "joining" /\ LedgerState' = "finishing"
    BY DEF WaitFails, Goto, LedgerState
  <1> QED
    BY <1>1 DEF WaitFails, Ledger!WaitFails, Ledger!Goto, Ledger!ledger,
       Ledger!cleaning, ledger

(* The wait must not be repeated. *)
LEMMA LedgerPoisons ==
    ASSUME Inv, WaitFailsTerminally PROVE Ledger!WaitFailsTerminally(Call)
  <1>1. proc # "none" /\ reserved = FALSE /\ LedgerState = "joining"
    BY LedgerJoining DEF WaitFailsTerminally
  <1>2. LedgerState' = "poisoned"
    BY DEF WaitFailsTerminally, Goto, LedgerState
  <1> QED
    BY <1>1, <1>2 DEF WaitFailsTerminally, Ledger!WaitFailsTerminally,
       Ledger!Goto, Ledger!ledger, Ledger!cleaning, ledger

(* The joined process leaves the ledger. *)
LEMMA LedgerReleases == ASSUME Inv, ReleaseOwned PROVE Ledger!ReleaseOwned(Call)
  <1>1. proc # "none" /\ reserved = FALSE /\ LedgerState = "joined"
    BY LedgerJoining DEF ReleaseOwned
  <1>2. LedgerState' = "finishing"
    BY DEF ReleaseOwned, Goto, LedgerState
  <1> QED
    BY <1>1, <1>2 DEF ReleaseOwned, Ledger!ReleaseOwned, Ledger!AfterWait,
       Ledger!Goto, Ledger!cleaning, lease

(* The terminal failure is cached. *)
LEMMA LedgerCaches == ASSUME Inv, CacheTerminal PROVE Ledger!CacheTerminal(Call)
  <1>1. proc # "none" /\ reserved = FALSE /\ LedgerState = "poisoned"
    BY LedgerJoining DEF CacheTerminal
  <1>2. LedgerState' = "finishing"
    BY DEF CacheTerminal, Goto, LedgerState
  <1> QED
    BY <1>1, <1>2 DEF CacheTerminal, Ledger!CacheTerminal, Ledger!AfterWait,
       Ledger!NoteFailure, Ledger!Goto, lease

(* The answer is composed and encoded while the lease is held. *)
LEMMA LedgerAnswers ==
    ASSUME Inv, ClassifyProcessOutcome \/ EncodeShellResult
    PROVE  UNCHANGED Ledger!vars
  <1>1. LedgerState' = "finishing" /\ LedgerState = "finishing"
    BY DEF ClassifyProcessOutcome, EncodeShellResult, Goto, Answer, LedgerState
  <1>2. UNCHANGED <<ledger, proc>>
    BY DEF ClassifyProcessOutcome, EncodeShellResult
  <1>3. UNCHANGED LedgerView
    BY <1>1, <1>2 DEF LedgerView, LedgerRecord, LedgerProc, ledger
  <1> QED BY <1>3, LedgerStutters

(* The lease is given back, with a reservation nothing was launched on. *)
LEMMA LedgerFinishes == ASSUME Inv, Finish PROVE Ledger!Finish(Call)
  <1>1. reserved \in BOOLEAN /\ (reserved <=> proc = "none")
    BY DEF Finish, Inv, TypeOK, LeaseInv
  <1>2. LedgerState = "finishing" /\ LedgerState' = "done"
    BY DEF Finish, Goto, LedgerState
  <1>3. LedgerRecord' = LedgerRecord
    BY <1>1 DEF Finish, GiveBackReservation, LedgerRecord
  <1>4. LedgerProc' = LedgerProc
    BY DEF Finish, LedgerProc
  <1>5. Ledger!GiveBackReservation(Call)
    BY <1>1 DEF Finish, GiveBackReservation, Ledger!GiveBackReservation
  <1> QED
    BY <1>2, <1>3, <1>4, <1>5 DEF Finish, Ledger!Finish, Ledger!LastToLeave,
       Ledger!Goto, Ledger!cleaning, LedgerRecord, LedgerProc

(* Only the end of the whole process tree is a step of the ledger. *)
LEMMA LedgerProcess ==
    ASSUME Inv, ProcessAdvances
    PROVE  Ledger!ProcessEnds(Call) \/ UNCHANGED Ledger!vars
  <1>1. LedgerState' = LedgerState /\ LedgerRecord' = LedgerRecord
    BY DEF ProcessAdvances, LedgerState, LedgerRecord, ledger
  <1>2. CASE proc = "running"
    <2>1. UNCHANGED LedgerView
      BY <1>1, <1>2 DEF ProcessAdvances, LedgerView, LedgerProc, ledger
    <2> QED BY <2>1, LedgerStutters
  <1>3. CASE proc = "exited"
    BY <1>1, <1>3 DEF ProcessAdvances, Ledger!ProcessEnds, Ledger!ledger,
       Ledger!cleaning, LedgerRecord, ledger
  <1> QED BY <1>2, <1>3 DEF ProcessAdvances

(* Before the admission, and whatever its contexts do, the call is idle to *)
(* the ledger.                                                             *)
LEMMA LedgerIgnores ==
    ASSUME Inv, Validate \/ Refuse \/ CallerDone \/ CommandTimeout
    PROVE  UNCHANGED Ledger!vars
  <1>1. LedgerState' = LedgerState
    BY DEF Validate, Refuse, CallerDone, CommandTimeout, Goto, Answer, LedgerState
  <1>2. UNCHANGED <<ledger, proc>>
    BY DEF Validate, Refuse, CallerDone, CommandTimeout
  <1>3. UNCHANGED LedgerView
    BY <1>1, <1>2 DEF LedgerView, LedgerRecord, LedgerProc, ledger
  <1> QED BY <1>3, LedgerStutters

(* Every step of the call is a step of the ledger, or invisible to it. *)
LEMMA LedgerNext == Inv /\ [Next]_vars => [Ledger!Next]_(Ledger!vars)
  <1> SUFFICES ASSUME Inv, [Next]_vars PROVE Ledger!Next \/ UNCHANGED Ledger!vars
    OBVIOUS
  <1>1. (Ledger!CallStep(Call) \/ Ledger!WaitStep(Call) \/ Ledger!ProcessEnds(Call))
          => Ledger!Next
    BY DEF Ledger!Next, Ledger!Threads
  <1>2. CASE Step
    <2>1. Ledger!CallStep(Call) \/ Ledger!WaitStep(Call) \/ UNCHANGED Ledger!vars
      BY <1>2, LedgerBegins, LedgerPrepares, LedgerLaunches, LedgerStarts,
         LedgerRetains, LedgerWatches, LedgerWaits, LedgerJoins, LedgerGivesUp,
         LedgerPoisons, LedgerReleases, LedgerCaches, LedgerAnswers,
         LedgerFinishes, LedgerIgnores
      DEF Step, Report, OwnStep, Ledger!CallStep, Ledger!WaitStep
    <2> QED BY <1>1, <2>1
  <1>3. CASE CallerDone \/ CommandTimeout
    BY <1>3, LedgerIgnores
  <1>4. CASE ProcessAdvances
    BY <1>1, <1>4, LedgerProcess
  <1>5. CASE UNCHANGED vars
    <2>1. UNCHANGED LedgerView
      BY <1>5 DEF vars, LedgerView, LedgerState, LedgerRecord, LedgerProc, ledger
    <2> QED BY <2>1, LedgerStutters
  <1> QED BY <1>2, <1>3, <1>4, <1>5 DEF Next, AlreadyAnswered

(* The call does to the ledger what ShellOwnership lets a call do: its     *)
(* process is retained before anything else, waited for at most once, and  *)
(* the lease is given back last.                                           *)
THEOREM ImplementsLedger == Spec => CallImplementsLedger
  BY LedgerInit, LedgerNext, Invariance, PTL
  DEF Spec, CallImplementsLedger, Ledger!Spec

=============================================================================
