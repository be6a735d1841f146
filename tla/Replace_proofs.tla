--------------------------- MODULE Replace_proofs ---------------------------
(***************************************************************************)
(* Proofs about the replace tool: the inductive invariant of Replace, the  *)
(* safety properties that follow from it, and the refinement of AtomicFile *)
(* when no other program writes the file; for any set of calls and of      *)
(* contents and any positive number of rename attempts.                    *)
(***************************************************************************)
EXTENDS Replace, TLAPS

-----------------------------------------------------------------------------
(***************************************************************************)
(* The inductive invariant.                                                *)
(***************************************************************************)

(* Whoever works between the preflight and the last sync holds the lease. *)
LeaseInv ==
    /\ \A c \in Calls : pc[c] \in Exclusive => lease
    /\ LeaseIsExclusive

(* What a call's answer, as far as it is known, says of its effect. *)
Behind == {"removing", "flushing", "publishing"}
EffectInv ==
    \A c \in Calls :
        /\ pc[c] \in {"idle", "leasing"} => ~reply[c].committed
        /\ pc[c] \in Behind =>
              effect[c] = "now" /\ reply[c].committed /\ reply[c].kind = "ok"
        /\ pc[c] \in {"unwinding", "encoding"} =>
              (effect[c] = "now" <=> reply[c].committed) /\ reply[c].kind # "uncertain"
        /\ pc[c] \in {"releasing", "done"} =>
              (effect[c] = "now" <=> reply[c].committed \/ reply[c].kind = "uncertain")
        /\ pc[c] \notin Behind \cup {"unwinding", "encoding", "releasing", "done",
                                   "crashed"} => effect[c] # "now"

(* The temporary file at each stage; it is synced before the commit. *)
TempInv ==
    \A c \in Calls :
        /\ pc[c] \in {"idle", "leasing", "leased", "statting", "digesting",
                      "prepared", "creating"} => temp[c] = "none"
        /\ pc[c] \in {"checking", "linking", "restating", "renaming", "waiting"} =>
              temp[c] = "synced"
        /\ pc[c] \in {"flushing", "publishing", "unwinding", "encoding",
                      "releasing", "done"}
              /\ reply[c].cleaned => temp[c] = "none"
        /\ pc[c] \in {"encoding", "releasing", "done"} => temp[c] \in {"none", "stuck"}

(* What the way to the commit has established: the content would change,   *)
(* the mode is that of the request, and between the last look and the      *)
(* rename the call's own change is not the last one.                       *)
Changing == {"creating", "writing", "syncing", "checking", "linking",
             "restating", "renaming", "waiting"}
CommitInv ==
    \A c \in Calls :
        /\ pc[c] \in Changing => op[c].before # op[c].after
        /\ pc[c] = "linking" => Create(c)
        /\ pc[c] \in {"restating", "renaming"} =>
              /\ ~Create(c) /\ lastWriter # c
              /\ ~ExternalWriters => target = op[c].before

(* The file is what its last writer made of it, and a call that is about   *)
(* to answer durable=true has confirmed it.                                *)
FileInv ==
    \A c \in Calls : lastWriter = c =>
        /\ target = op[c].after
        /\ /\ pc[c] \in {"unwinding", "encoding", "releasing"}
           /\ reply[c].committed /\ reply[c].durable
           => disk = {op[c].after}

Inv == TypeOK /\ LeaseInv /\ EffectInv /\ TempInv /\ CommitInv /\ FileInv

-----------------------------------------------------------------------------
(* The answers are answers. *)
LEMMA AnswerType ==
    \A kind \in {"none", "ok", "problem", "canceled", "definitive", "uncertain"} :
        Answer(kind) \in Answers
  BY DEF Answer, Answers

(* So are the two that claim success. *)
LEMMA FixedAnswers == Unchanged \in Answers /\ Committed \in Answers
  BY DEF Unchanged, Committed, Answers

(* And what confirms an answer keeps it one. *)
LEMMA ConfirmedType == \A answer \in Answers : Confirmed(answer) \in Answers
  BY DEF Confirmed, Answers

-----------------------------------------------------------------------------
(***************************************************************************)
(* Inv is preserved: one lemma per action, one step per conjunct.          *)
(***************************************************************************)

(* A refused call answers at once, an admitted one waits for the lease. *)
LEMMA AdmitStep == ASSUME Inv, NEW c \in Calls, Admit(c) PROVE Inv'
  <1> USE DEF Inv, Admit, Goto, Live, Respond, fs
  <1>1. TypeOK'
    <2>1. pc' \in [Calls -> States] BY DEF TypeOK, States
    <2>2. reply' \in [Calls -> Answers] BY AnswerType DEF TypeOK, Refusals
    <2> QED BY <2>1, <2>2 DEF TypeOK
  <1>2. LeaseInv' BY DEF TypeOK, LeaseInv, LeaseIsExclusive, Exclusive, States
  <1>3. EffectInv'
    <2>1. CASE pc' = [pc EXCEPT ![c] = "leasing"] /\ reply' = reply
      BY <2>1 DEF TypeOK, EffectInv, Behind
    <2>2. ASSUME NEW kind \in Refusals(c), pc' = [pc EXCEPT ![c] = "done"],
                 reply' = [reply EXCEPT ![c] = Answer(kind)]
          PROVE EffectInv'
      BY <2>2 DEF TypeOK, EffectInv, Behind, Refusals, Answer
    <2> QED BY <2>1, <2>2
  <1>4. TempInv' BY DEF TempInv, TypeOK, Answer
  <1>5. CommitInv' BY DEF CommitInv, Changing, TypeOK, Create
  <1>6. FileInv' BY DEF FileInv, TypeOK
  <1> QED BY <1>1, <1>2, <1>3, <1>4, <1>5, <1>6

(* The lease is free, so nobody else is in between. *)
LEMMA AcquireLeaseStep ==
    ASSUME Inv, NEW c \in Calls, AcquireLease(c) PROVE Inv'
  <1> USE DEF Inv, AcquireLease, Goto, Live, Respond, Return, Canceled, fs
  <1>1. TypeOK'
    <2>1. pc' \in [Calls -> States] BY DEF TypeOK, States
    <2>2. reply' \in [Calls -> Answers] BY AnswerType DEF TypeOK
    <2> QED BY <2>1, <2>2 DEF TypeOK
  <1>2. LeaseInv' BY DEF TypeOK, LeaseInv, LeaseIsExclusive, Exclusive, States
  <1>3. EffectInv' BY DEF TypeOK, EffectInv, Behind, Answer
  <1>4. TempInv' BY DEF TypeOK, TempInv, Answer
  <1>5. CommitInv' BY DEF TypeOK, CommitInv, Changing, Create
  <1>6. FileInv' BY DEF TypeOK, FileInv, Answer
  <1> QED BY <1>1, <1>2, <1>3, <1>4, <1>5, <1>6

(* A call cancelled in the select never had the lease. *)
LEMMA LeaseCanceledStep ==
    ASSUME Inv, NEW c \in Calls, LeaseCanceled(c) PROVE Inv'
  <1> USE DEF Inv, LeaseCanceled, Goto, Live, Respond, Return, Canceled, fs
  <1>1. TypeOK'
    <2>1. pc' \in [Calls -> States] BY DEF TypeOK, States
    <2>2. reply' \in [Calls -> Answers] BY AnswerType DEF TypeOK
    <2> QED BY <2>1, <2>2 DEF TypeOK
  <1>2. LeaseInv' BY DEF TypeOK, LeaseInv, LeaseIsExclusive, Exclusive, States
  <1>3. EffectInv' BY DEF TypeOK, EffectInv, Behind, Answer
  <1>4. TempInv' BY DEF TypeOK, TempInv, Answer
  <1>5. CommitInv' BY DEF TypeOK, CommitInv, Changing, Create
  <1>6. FileInv' BY DEF TypeOK, FileInv, Answer
  <1> QED BY <1>1, <1>2, <1>3, <1>4, <1>5, <1>6

(* A lease taken with a done context goes back while unwinding. *)
LEMMA CheckLeaseStep == ASSUME Inv, NEW c \in Calls, CheckLease(c) PROVE Inv'
  <1> USE DEF Inv, CheckLease, Goto, Live, Respond, Return, Canceled, fs
  <1>1. TypeOK'
    <2>1. pc' \in [Calls -> States] BY DEF TypeOK, States
    <2>2. reply' \in [Calls -> Answers] BY AnswerType DEF TypeOK
    <2> QED BY <2>1, <2>2 DEF TypeOK
  <1>2. LeaseInv' BY DEF TypeOK, LeaseInv, LeaseIsExclusive, Exclusive, States
  <1>3. EffectInv' BY DEF TypeOK, EffectInv, Behind, Answer
  <1>4. TempInv' BY DEF TypeOK, TempInv, Answer
  <1>5. CommitInv' BY DEF TypeOK, CommitInv, Changing, Create
  <1>6. FileInv' BY DEF TypeOK, FileInv, Answer
  <1> QED BY <1>1, <1>2, <1>3, <1>4, <1>5, <1>6

(* The preflight changes nothing but the place of the call. *)
LEMMA PreflightLstatStep ==
    ASSUME Inv, NEW c \in Calls, PreflightLstat(c) PROVE Inv'
  <1> USE DEF Inv, PreflightLstat, Goto, Live, Respond, Return, Canceled, fs
  <1>1. TypeOK'
    <2>1. pc' \in [Calls -> States] BY DEF TypeOK, States
    <2>2. reply' \in [Calls -> Answers] BY AnswerType DEF TypeOK
    <2> QED BY <2>1, <2>2 DEF TypeOK
  <1>2. LeaseInv' BY DEF TypeOK, LeaseInv, LeaseIsExclusive, Exclusive, States
  <1>3. EffectInv' BY DEF TypeOK, EffectInv, Behind, Answer
  <1>4. TempInv' BY DEF TypeOK, TempInv, Answer
  <1>5. CommitInv' BY DEF TypeOK, CommitInv, Changing, Create
  <1>6. FileInv' BY DEF TypeOK, FileInv, Answer
  <1> QED BY <1>1, <1>2, <1>3, <1>4, <1>5, <1>6

LEMMA PreflightDigestStep ==
    ASSUME Inv, NEW c \in Calls, PreflightDigest(c) PROVE Inv'
  <1> USE DEF Inv, PreflightDigest, Goto, Live, Respond, Return, Canceled, fs
  <1>1. TypeOK'
    <2>1. pc' \in [Calls -> States] BY DEF TypeOK, States
    <2>2. reply' \in [Calls -> Answers] BY AnswerType DEF TypeOK
    <2> QED BY <2>1, <2>2 DEF TypeOK
  <1>2. LeaseInv' BY DEF TypeOK, LeaseInv, LeaseIsExclusive, Exclusive, States
  <1>3. EffectInv' BY DEF TypeOK, EffectInv, Behind, Answer
  <1>4. TempInv' BY DEF TypeOK, TempInv, Answer
  <1>5. CommitInv' BY DEF TypeOK, CommitInv, Changing, Create
  <1>6. FileInv' BY DEF TypeOK, FileInv, Answer
  <1> QED BY <1>1, <1>2, <1>3, <1>4, <1>5, <1>6

(* From here on the content would change. *)
LEMMA PrepareStep == ASSUME Inv, NEW c \in Calls, Prepare(c) PROVE Inv'
  <1> USE DEF Inv, Prepare, Goto, Live, Respond, Return, Canceled, fs
  <1>1. TypeOK'
    <2>1. pc' \in [Calls -> States] BY DEF TypeOK, States
    <2>2. reply' \in [Calls -> Answers] BY AnswerType, FixedAnswers DEF TypeOK
    <2> QED BY <2>1, <2>2 DEF TypeOK
  <1>2. LeaseInv' BY DEF TypeOK, LeaseInv, LeaseIsExclusive, Exclusive, States
  <1>3. EffectInv' BY DEF TypeOK, EffectInv, Behind, Answer, Unchanged
  <1>4. TempInv' BY DEF TypeOK, TempInv, Answer
  <1>5. CommitInv' BY DEF TypeOK, CommitInv, Changing, Create
  <1>6. FileInv' BY DEF TypeOK, FileInv, Answer, Unchanged
  <1> QED BY <1>1, <1>2, <1>3, <1>4, <1>5, <1>6

(* The temporary file is created, written and synced in three steps. *)
LEMMA CreateTemporaryStep ==
    ASSUME Inv, NEW c \in Calls, CreateTemporary(c) PROVE Inv'
  <1> USE DEF Inv, CreateTemporary, Goto, Live, Respond, Return, Canceled, fs
  <1>1. TypeOK'
    <2>1. pc' \in [Calls -> States] BY DEF TypeOK, States
    <2>2. reply' \in [Calls -> Answers] BY AnswerType DEF TypeOK
    <2> QED BY <2>1, <2>2 DEF TypeOK
  <1>2. LeaseInv' BY DEF TypeOK, LeaseInv, LeaseIsExclusive, Exclusive, States
  <1>3. EffectInv' BY DEF TypeOK, EffectInv, Behind, Answer
  <1>4. TempInv' BY DEF TypeOK, TempInv, Answer
  <1>5. CommitInv' BY DEF TypeOK, CommitInv, Changing, Create
  <1>6. FileInv' BY DEF TypeOK, FileInv, Answer
  <1> QED BY <1>1, <1>2, <1>3, <1>4, <1>5, <1>6

LEMMA WriteTemporaryStep ==
    ASSUME Inv, NEW c \in Calls, WriteTemporary(c) PROVE Inv'
  <1> USE DEF Inv, WriteTemporary, Goto, Live, Respond, Return, Canceled, fs
  <1>1. TypeOK'
    <2>1. pc' \in [Calls -> States] BY DEF TypeOK, States
    <2>2. reply' \in [Calls -> Answers] BY AnswerType DEF TypeOK
    <2> QED BY <2>1, <2>2 DEF TypeOK
  <1>2. LeaseInv' BY DEF TypeOK, LeaseInv, LeaseIsExclusive, Exclusive, States
  <1>3. EffectInv' BY DEF TypeOK, EffectInv, Behind, Answer
  <1>4. TempInv' BY DEF TypeOK, TempInv, Answer
  <1>5. CommitInv' BY DEF TypeOK, CommitInv, Changing, Create
  <1>6. FileInv' BY DEF TypeOK, FileInv, Answer
  <1> QED BY <1>1, <1>2, <1>3, <1>4, <1>5, <1>6

LEMMA SyncTemporaryStep ==
    ASSUME Inv, NEW c \in Calls, SyncTemporary(c) PROVE Inv'
  <1> USE DEF Inv, SyncTemporary, Goto, Live, Respond, Return, Canceled, fs
  <1>1. TypeOK'
    <2>1. pc' \in [Calls -> States] BY DEF TypeOK, States
    <2>2. reply' \in [Calls -> Answers] BY AnswerType DEF TypeOK
    <2> QED BY <2>1, <2>2 DEF TypeOK
  <1>2. LeaseInv' BY DEF TypeOK, LeaseInv, LeaseIsExclusive, Exclusive, States
  <1>3. EffectInv' BY DEF TypeOK, EffectInv, Behind, Answer
  <1>4. TempInv' BY DEF TypeOK, TempInv, Answer
  <1>5. CommitInv' BY DEF TypeOK, CommitInv, Changing, Create
  <1>6. FileInv' BY DEF TypeOK, FileInv, Answer
  <1> QED BY <1>1, <1>2, <1>3, <1>4, <1>5, <1>6

(* A create looks before it links. *)
LEMMA CheckCreateStep == ASSUME Inv, NEW c \in Calls, CheckCreate(c) PROVE Inv'
  <1> USE DEF Inv, CheckCreate, Goto, Live, Respond, Return, Canceled, fs
  <1>1. TypeOK'
    <2>1. pc' \in [Calls -> States] BY DEF TypeOK, States
    <2>2. reply' \in [Calls -> Answers] BY AnswerType DEF TypeOK
    <2> QED BY <2>1, <2>2 DEF TypeOK
  <1>2. LeaseInv' BY DEF TypeOK, LeaseInv, LeaseIsExclusive, Exclusive, States
  <1>3. EffectInv' BY DEF TypeOK, EffectInv, Behind, Answer
  <1>4. TempInv' BY DEF TypeOK, TempInv, Answer
  <1>5. CommitInv' BY DEF TypeOK, CommitInv, Changing, Create
  <1>6. FileInv' BY DEF TypeOK, FileInv, Answer
  <1> QED BY <1>1, <1>2, <1>3, <1>4, <1>5, <1>6

(* The link commits over an absent target. *)
LEMMA LinkStep == ASSUME Inv, NEW c \in Calls, Link(c) PROVE Inv'
  <1> USE DEF Inv, Link, Goto, Live, Respond, Return, Canceled, fs
  <1>1. TypeOK'
    <2>1. pc' \in [Calls -> States] BY DEF TypeOK, States
    <2>2. reply' \in [Calls -> Answers] BY AnswerType, FixedAnswers DEF TypeOK
    <2> QED BY <2>1, <2>2 DEF TypeOK, Commit, Ops, Values
  <1>2. LeaseInv' BY DEF TypeOK, LeaseInv, LeaseIsExclusive, Exclusive, States
  <1>3. EffectInv' BY DEF TypeOK, EffectInv, Behind, Answer, Commit, Committed
  <1>4. TempInv' BY DEF TypeOK, TempInv, Answer, Committed
  <1>5. CommitInv'
    BY DEF TypeOK, CommitInv, Changing, Create, Commit, LeaseInv,
       LeaseIsExclusive, Exclusive, States
  <1>6. FileInv' BY DEF TypeOK, FileInv, Answer, Commit
  <1> QED BY <1>1, <1>2, <1>3, <1>4, <1>5, <1>6

(* At the last look the target is the expected content, so that the call's
   own change cannot be the last one. *)
LEMMA CheckDigestStep == ASSUME Inv, NEW c \in Calls, CheckDigest(c) PROVE Inv'
  <1> USE DEF Inv, CheckDigest, Goto, Live, Respond, Return, Canceled, fs
  <1>1. TypeOK'
    <2>1. pc' \in [Calls -> States] BY DEF TypeOK, States
    <2>2. reply' \in [Calls -> Answers] BY AnswerType DEF TypeOK
    <2> QED BY <2>1, <2>2 DEF TypeOK
  <1>2. LeaseInv' BY DEF TypeOK, LeaseInv, LeaseIsExclusive, Exclusive, States
  <1>3. EffectInv' BY DEF TypeOK, EffectInv, Behind, Answer
  <1>4. TempInv' BY DEF TypeOK, TempInv, Answer
  <1>5. CommitInv'
    BY DEF TypeOK, CommitInv, Changing, Create, DigestMatches, FileInv
  <1>6. FileInv' BY DEF TypeOK, FileInv, Answer
  <1> QED BY <1>1, <1>2, <1>3, <1>4, <1>5, <1>6

(* The Lstat behind it changes nothing. *)
LEMMA CheckRegularStep ==
    ASSUME Inv, NEW c \in Calls, CheckRegular(c) PROVE Inv'
  <1> USE DEF Inv, CheckRegular, Goto, Live, Respond, Return, Canceled, fs
  <1>1. TypeOK'
    <2>1. pc' \in [Calls -> States] BY DEF TypeOK, States
    <2>2. reply' \in [Calls -> Answers] BY AnswerType DEF TypeOK
    <2> QED BY <2>1, <2>2 DEF TypeOK
  <1>2. LeaseInv' BY DEF TypeOK, LeaseInv, LeaseIsExclusive, Exclusive, States
  <1>3. EffectInv' BY DEF TypeOK, EffectInv, Behind, Answer
  <1>4. TempInv' BY DEF TypeOK, TempInv, Answer
  <1>5. CommitInv' BY DEF TypeOK, CommitInv, Changing, Create
  <1>6. FileInv' BY DEF TypeOK, FileInv, Answer
  <1> QED BY <1>1, <1>2, <1>3, <1>4, <1>5, <1>6

(* The rename commits. *)
LEMMA RenameStep == ASSUME Inv, NEW c \in Calls, Rename(c) PROVE Inv'
  <1> USE DEF Inv, Rename, Goto, Live, Respond, Return, Canceled, fs
  <1>1. TypeOK'
    <2>1. pc' \in [Calls -> States] BY DEF TypeOK, States
    <2>2. reply' \in [Calls -> Answers] BY FixedAnswers DEF TypeOK
    <2> QED BY <2>1, <2>2 DEF TypeOK, Commit, Ops, Values
  <1>2. LeaseInv' BY DEF TypeOK, LeaseInv, LeaseIsExclusive, Exclusive, States
  <1>3. EffectInv' BY DEF TypeOK, EffectInv, Behind, Answer, Commit, Committed
  <1>4. TempInv' BY DEF TypeOK, TempInv, Answer, Committed
  <1>5. CommitInv'
    BY DEF TypeOK, CommitInv, Changing, Create, Commit, LeaseInv,
       LeaseIsExclusive, Exclusive, States
  <1>6. FileInv' BY DEF TypeOK, FileInv, Answer, Commit
  <1> QED BY <1>1, <1>2, <1>3, <1>4, <1>5, <1>6

(* A failed rename is retried within the bound. *)
LEMMA RenameFailsStep == ASSUME Inv, NEW c \in Calls, RenameFails(c) PROVE Inv'
  <1> USE DEF Inv, RenameFails, Goto, Live, Respond, Return, Canceled, fs
  <1>1. TypeOK'
    <2>1. pc' \in [Calls -> States] BY DEF TypeOK, States
    <2>2. reply' \in [Calls -> Answers] BY AnswerType DEF TypeOK
    <2> QED BY <2>1, <2>2, AttemptsAssumption DEF TypeOK, MayRetry
  <1>2. LeaseInv' BY DEF TypeOK, LeaseInv, LeaseIsExclusive, Exclusive, States
  <1>3. EffectInv' BY DEF TypeOK, EffectInv, Behind, Answer
  <1>4. TempInv' BY DEF TypeOK, TempInv, Answer
  <1>5. CommitInv' BY DEF TypeOK, CommitInv, Changing, Create
  <1>6. FileInv' BY DEF TypeOK, FileInv, Answer
  <1> QED BY <1>1, <1>2, <1>3, <1>4, <1>5, <1>6

(* Another round looks again. *)
LEMMA WaitForRenameRetryStep ==
    ASSUME Inv, NEW c \in Calls, WaitForRenameRetry(c) PROVE Inv'
  <1> USE DEF Inv, WaitForRenameRetry, Goto, Live, Respond, Return, Canceled, fs
  <1>1. TypeOK'
    <2>1. pc' \in [Calls -> States] BY DEF TypeOK, States
    <2>2. reply' \in [Calls -> Answers] BY AnswerType DEF TypeOK
    <2> QED BY <2>1, <2>2 DEF TypeOK
  <1>2. LeaseInv' BY DEF TypeOK, LeaseInv, LeaseIsExclusive, Exclusive, States
  <1>3. EffectInv' BY DEF TypeOK, EffectInv, Behind, Answer
  <1>4. TempInv' BY DEF TypeOK, TempInv, Answer
  <1>5. CommitInv' BY DEF TypeOK, CommitInv, Changing, Create
  <1>6. FileInv' BY DEF TypeOK, FileInv, Answer
  <1> QED BY <1>1, <1>2, <1>3, <1>4, <1>5, <1>6

(* A linked temporary file is removed, or the answer says that it is not. *)
LEMMA RemoveLinkedStep ==
    ASSUME Inv, NEW c \in Calls, RemoveLinked(c) PROVE Inv'
  <1> USE DEF Inv, RemoveLinked, Goto, Live, Respond, Return, Canceled, fs
  <1>1. TypeOK'
    <2>1. pc' \in [Calls -> States] BY DEF TypeOK, States
    <2>2. reply' \in [Calls -> Answers]
      <3>1. CASE temp'[c] = "none"
        BY <3>1 DEF TypeOK, Answers
      <3>2. CASE temp'[c] # "none"
        BY <3>2 DEF TypeOK, Answers
      <3> QED BY <3>1, <3>2
    <2> QED BY <2>1, <2>2 DEF TypeOK, Remove
  <1>2. LeaseInv' BY DEF TypeOK, LeaseInv, LeaseIsExclusive, Exclusive, States
  <1>3. EffectInv' BY DEF TypeOK, EffectInv, Behind, Answer, Answers
  <1>4. TempInv' BY DEF TypeOK, TempInv, Answer, Answers, Remove
  <1>5. CommitInv' BY DEF TypeOK, CommitInv, Changing, Create
  <1>6. FileInv' BY DEF TypeOK, FileInv, Answer
  <1> QED BY <1>1, <1>2, <1>3, <1>4, <1>5, <1>6

(* The first sync only decides about durable. *)
LEMMA SyncCommittedFileStep ==
    ASSUME Inv, NEW c \in Calls, SyncCommittedFile(c) PROVE Inv'
  <1> USE DEF Inv, SyncCommittedFile, Goto, Live, Respond, Return, Canceled, fs
  <1>1. TypeOK'
    <2>1. pc' \in [Calls -> States] BY DEF TypeOK, States
    <2>2. reply' \in [Calls -> Answers] BY DEF TypeOK, Answers
    <2> QED BY <2>1, <2>2 DEF TypeOK
  <1>2. LeaseInv' BY DEF TypeOK, LeaseInv, LeaseIsExclusive, Exclusive, States
  <1>3. EffectInv'
    <2>1. CASE UNCHANGED reply
      BY <2>1 DEF TypeOK, EffectInv, Behind
    <2>2. CASE reply' = [reply EXCEPT ![c].durable = FALSE]
      BY <2>2 DEF TypeOK, EffectInv, Behind, Answers
    <2> QED BY <2>1, <2>2
  <1>4. TempInv' BY DEF TypeOK, TempInv, Answer, Answers
  <1>5. CommitInv' BY DEF TypeOK, CommitInv, Changing, Create
  <1>6. FileInv' BY DEF TypeOK, FileInv, Answer
  <1> QED BY <1>1, <1>2, <1>3, <1>4, <1>5, <1>6

(* The second one confirms the entry. *)
LEMMA SyncParentStep == ASSUME Inv, NEW c \in Calls, SyncParent(c) PROVE Inv'
  <1> USE DEF Inv, SyncParent, Goto, Live, Respond, Return, Canceled, fs
  <1>1. TypeOK'
    <2>1. pc' \in [Calls -> States] BY DEF TypeOK, States
    <2>2. reply' \in [Calls -> Answers] BY DEF TypeOK, Answers
    <2> QED BY <2>1, <2>2 DEF TypeOK
  <1>2. LeaseInv' BY DEF TypeOK, LeaseInv, LeaseIsExclusive, Exclusive, States
  <1>3. EffectInv' BY DEF TypeOK, EffectInv, Behind, Answer, Answers
  <1>4. TempInv' BY DEF TypeOK, TempInv, Answer, Answers
  <1>5. CommitInv' BY DEF TypeOK, CommitInv, Changing, Create
  <1>6. FileInv' BY DEF TypeOK, FileInv, Answer, Answers
  <1> QED BY <1>1, <1>2, <1>3, <1>4, <1>5, <1>6

(* The answer keeps its flags, or turns into a failure without them. *)
LEMMA EncodeStep == ASSUME Inv, NEW c \in Calls, Encode(c) PROVE Inv'
  <1> USE DEF Inv, Encode, Goto, Live, Respond, Return, Canceled, fs
  <1>1. TypeOK'
    <2>1. pc' \in [Calls -> States] BY DEF TypeOK, States
    <2>2. reply' \in [Calls -> Answers] BY AnswerType, ConfirmedType DEF TypeOK
    <2> QED BY <2>1, <2>2 DEF TypeOK
  <1>2. LeaseInv' BY DEF TypeOK, LeaseInv, LeaseIsExclusive, Exclusive, States
  <1>3. EffectInv' BY DEF TypeOK, EffectInv, Behind, Answer, Answers, Confirmed
  <1>4. TempInv' BY DEF TypeOK, TempInv, Answer, Answers, Confirmed
  <1>5. CommitInv' BY DEF TypeOK, CommitInv, Changing, Create
  <1>6. FileInv' BY DEF TypeOK, FileInv, Answer, Answers, Confirmed
  <1> QED BY <1>1, <1>2, <1>3, <1>4, <1>5, <1>6

(* The deferred calls of replace remove what is left. *)
LEMMA UnwindStep == ASSUME Inv, NEW c \in Calls, Unwind(c) PROVE Inv'
  <1> USE DEF Inv, Unwind, Goto, fs
  <1>1. TypeOK'
    <2>1. pc' \in [Calls -> States] BY DEF TypeOK, States
    <2>2. temp' \in [Calls -> {"none", "empty", "written", "synced", "stuck"}]
      BY DEF TypeOK, Remove
    <2> QED BY <2>1, <2>2 DEF TypeOK
  <1>2. LeaseInv' BY DEF TypeOK, LeaseInv, LeaseIsExclusive, Exclusive, States
  <1>3. EffectInv' BY DEF TypeOK, EffectInv, Behind
  <1>4. TempInv' BY DEF TypeOK, TempInv, Remove
  <1>5. CommitInv' BY DEF TypeOK, CommitInv, Changing, Create
  <1>6. FileInv' BY DEF TypeOK, FileInv
  <1> QED BY <1>1, <1>2, <1>3, <1>4, <1>5, <1>6

(* That of Execute gives the lease back, and nobody else had it. *)
LEMMA ReleaseStep == ASSUME Inv, NEW c \in Calls, Release(c) PROVE Inv'
  <1> USE DEF Inv, Release, Goto, fs
  <1>1. TypeOK'
    <2>1. pc' \in [Calls -> States] BY DEF TypeOK, States
    <2>2. attempt' \in [Calls -> 0 .. MaximumRenameAttempts - 1]
      BY AttemptsAssumption DEF TypeOK
    <2> QED BY <2>1, <2>2 DEF TypeOK
  <1>2. LeaseInv' BY DEF TypeOK, LeaseInv, LeaseIsExclusive, Exclusive, States
  <1>3. EffectInv' BY DEF TypeOK, EffectInv, Behind
  <1>4. TempInv' BY DEF TypeOK, TempInv
  <1>5. CommitInv' BY DEF TypeOK, CommitInv, Changing, Create
  <1>6. FileInv' BY DEF TypeOK, FileInv
  <1> QED BY <1>1, <1>2, <1>3, <1>4, <1>5, <1>6

(* A cancellation is seen at the next check of the context. *)
LEMMA CancelStep == ASSUME Inv, NEW c \in Calls, Cancel(c) PROVE Inv'
  <1> USE DEF Inv, Cancel, Goto, Live, Respond, Return, Canceled, fs
  <1>1. TypeOK'
    <2>1. pc' \in [Calls -> States] BY DEF TypeOK, States
    <2>2. reply' \in [Calls -> Answers] BY AnswerType DEF TypeOK
    <2> QED BY <2>1, <2>2 DEF TypeOK
  <1>2. LeaseInv' BY DEF TypeOK, LeaseInv, LeaseIsExclusive, Exclusive, States
  <1>3. EffectInv' BY DEF TypeOK, EffectInv, Behind, Answer
  <1>4. TempInv' BY DEF TypeOK, TempInv, Answer
  <1>5. CommitInv' BY DEF TypeOK, CommitInv, Changing, Create
  <1>6. FileInv' BY DEF TypeOK, FileInv, Answer
  <1> QED BY <1>1, <1>2, <1>3, <1>4, <1>5, <1>6

(* A replay starts with nothing in hand. *)
LEMMA ReplayStep == ASSUME Inv, NEW c \in Calls, Replay(c) PROVE Inv'
  <1> USE DEF Inv, Replay, Goto, Live, Respond, Return, Canceled, fs
  <1>1. TypeOK'
    <2>1. pc' \in [Calls -> States] BY DEF TypeOK, States
    <2>2. reply' \in [Calls -> Answers] BY AnswerType DEF TypeOK
    <2> QED BY <2>1, <2>2 DEF TypeOK
  <1>2. LeaseInv' BY DEF TypeOK, LeaseInv, LeaseIsExclusive, Exclusive, States
  <1>3. EffectInv' BY DEF TypeOK, EffectInv, Behind, Answer
  <1>4. TempInv' BY DEF TypeOK, TempInv, Answer
  <1>5. CommitInv' BY DEF TypeOK, CommitInv, Changing, Create
  <1>6. FileInv' BY DEF TypeOK, FileInv, Answer
  <1> QED BY <1>1, <1>2, <1>3, <1>4, <1>5, <1>6

(* Another program's change makes nobody the last writer. *)
LEMMA ExternalWriteStep == ASSUME Inv, ExternalWrite PROVE Inv'
  <1> USE DEF Inv, ExternalWrite
  <1>1. TypeOK' BY DEF TypeOK, Values
  <1>2. LeaseInv' BY DEF LeaseInv, LeaseIsExclusive
  <1>3. EffectInv' BY DEF EffectInv
  <1>4. TempInv' BY DEF TempInv
  <1>5. CommitInv' BY ValueAssumption DEF CommitInv, Create
  <1>6. FileInv' BY ValueAssumption DEF FileInv
  <1> QED BY <1>1, <1>2, <1>3, <1>4, <1>5, <1>6

(* A death of the process ends every call in flight, and with it what it   *)
(* had in hand; only FileInv depends on what becomes of the file.          *)
LEMMA DiesStep ==
    ASSUME Inv, Dies, target' \in Values, disk' \subseteq Values,
           lastWriter' \in Calls \cup {Nobody}
    PROVE  TypeOK' /\ LeaseInv' /\ EffectInv' /\ TempInv' /\ CommitInv'
  <1> USE DEF Inv, Dies, InFlight
  <1>1. TypeOK'
    <2>1. pc' \in [Calls -> States] BY DEF TypeOK, States
    <2>2. reply' \in [Calls -> Answers] BY AnswerType DEF TypeOK
    <2>3. temp' \in [Calls -> {"none", "empty", "written", "synced", "stuck"}]
      BY DEF TypeOK
    <2>4. attempt' \in [Calls -> 0 .. MaximumRenameAttempts - 1]
      BY AttemptsAssumption
    <2>5. ctxDone' \in [Calls -> BOOLEAN] BY DEF TypeOK
    <2> QED BY <2>1, <2>2, <2>3, <2>4, <2>5 DEF TypeOK
  <1>2. LeaseInv' BY DEF TypeOK, LeaseInv, LeaseIsExclusive, Exclusive, States
  <1>3. EffectInv' BY DEF TypeOK, EffectInv, Behind
  <1>4. TempInv' BY DEF TypeOK, TempInv
  <1>5. CommitInv' BY DEF TypeOK, CommitInv, Changing
  <1> QED BY <1>1, <1>2, <1>3, <1>4, <1>5

(* The process alone leaves the file as it was. *)
LEMMA ProcessDiesStep == ASSUME Inv, ProcessDies PROVE Inv'
  <1>1. TypeOK' /\ LeaseInv' /\ EffectInv' /\ TempInv' /\ CommitInv'
    BY DiesStep DEF Inv, TypeOK, ProcessDies
  <1>2. FileInv' BY DEF Inv, TypeOK, FileInv, ProcessDies, Dies, InFlight
  <1> QED BY <1>1, <1>2 DEF Inv

(* The machine leaves what may be on the disk, and nobody made that. *)
LEMMA PowerLossStep == ASSUME Inv, PowerLoss PROVE Inv'
  <1>1. TypeOK' /\ LeaseInv' /\ EffectInv' /\ TempInv' /\ CommitInv'
    BY DiesStep DEF Inv, TypeOK, PowerLoss
  <1>2. FileInv' BY ValueAssumption DEF FileInv, PowerLoss
  <1> QED BY <1>1, <1>2 DEF Inv

LEMMA InitInv == Init => Inv
  <1> SUFFICES ASSUME Init PROVE Inv
    OBVIOUS
  <1> USE DEF Init
  <1>1. TypeOK
    <2>1. attempt \in [Calls -> 0 .. MaximumRenameAttempts - 1]
      BY AttemptsAssumption
    <2> QED BY <2>1, AnswerType DEF TypeOK, States, Values
  <1>2. LeaseInv BY DEF LeaseInv, LeaseIsExclusive, Exclusive
  <1>3. EffectInv BY DEF EffectInv, Behind, Answer
  <1>4. TempInv BY DEF TempInv
  <1>5. CommitInv BY DEF CommitInv, Changing
  <1>6. FileInv BY ValueAssumption DEF FileInv
  <1> QED BY <1>1, <1>2, <1>3, <1>4, <1>5, <1>6 DEF Inv

LEMMA NextInv == Inv /\ [Next]_vars => Inv'
  <1> SUFFICES ASSUME Inv, [Next]_vars PROVE Inv'
    OBVIOUS
  <1>1. ASSUME NEW c \in Calls, CallStep(c) PROVE Inv'
    BY <1>1, AdmitStep, AcquireLeaseStep, LeaseCanceledStep, CheckLeaseStep,
       PreflightLstatStep, PreflightDigestStep, PrepareStep,
       CreateTemporaryStep, WriteTemporaryStep, SyncTemporaryStep,
       CheckCreateStep, LinkStep, CheckDigestStep, CheckRegularStep, RenameStep,
       RenameFailsStep, WaitForRenameRetryStep, RemoveLinkedStep,
       SyncCommittedFileStep, SyncParentStep, UnwindStep, EncodeStep,
       ReleaseStep
    DEF CallStep
  <1>2. ASSUME NEW c \in Calls, Cancel(c) \/ Replay(c) PROVE Inv'
    BY <1>2, CancelStep, ReplayStep
  <1>3. CASE ExternalWrite
    BY <1>3, ExternalWriteStep
  <1>4. CASE ProcessDies \/ PowerLoss
    BY <1>4, ProcessDiesStep, PowerLossStep
  <1>5. CASE UNCHANGED vars
    BY <1>5 DEF vars, Inv, TypeOK, LeaseInv, LeaseIsExclusive, EffectInv,
       TempInv, CommitInv, FileInv, Create
  <1> QED BY <1>1, <1>2, <1>3, <1>4, <1>5 DEF Next

(* Inv holds in every state the replace tool reaches. *)
THEOREM Invariance == Spec => []Inv
  BY InitInv, NextInv, PTL DEF Spec

-----------------------------------------------------------------------------
(***************************************************************************)
(* The properties of the runs.                                             *)
(***************************************************************************)

(* Every variable keeps its type, and no call tries more renames than the  *)
(* loop allows.                                                            *)
THEOREM TypeCorrect == Spec => []TypeOK
  BY Invariance, PTL DEF Inv

(* Whatever is cancelled, fails, crashes or is replayed, an answer never   *)
(* lies about the call's effect.                                           *)
THEOREM TruthfulAnswers == Spec => []AnswersAreTrue
  <1>1. Inv => AnswersAreTrue
    BY DEF Inv, EffectInv, AnswersAreTrue
  <1> QED BY <1>1, Invariance, PTL

(* At most one call is between acquireCommitLease and its release. *)
THEOREM LeaseExclusion == Spec => []LeaseIsExclusive
  BY Invariance, PTL DEF Inv, LeaseInv

(* No answered call leaves a temporary file it could have removed. *)
THEOREM CleanTemporaries == Spec => []TemporaryIsCleaned
  <1>1. Inv => TemporaryIsCleaned
    BY DEF Inv, TempInv, TemporaryIsCleaned
  <1> QED BY <1>1, Invariance, PTL

(* A call commits only by a link over an absent target, or by a rename. *)
LEMMA CommitIsLinkOrRename ==
    ASSUME Inv, [Next]_vars, NEW c \in Calls, Commits(c)
    PROVE  (Link(c) /\ target = Absent /\ Commit(c)) \/ Rename(c)
  <1> USE DEF Inv, TypeOK, Commits
  <1>1. ASSUME NEW d \in Calls, Link(d)
        PROVE  Link(c) /\ target = Absent /\ Commit(c)
    BY <1>1 DEF Link, Commit, fs
  <1>2. ASSUME NEW d \in Calls, Rename(d) PROVE Rename(c)
    BY <1>2 DEF Rename, Commit
  <1>3. ASSUME NEW d \in Calls, CallStep(d), ~Link(d), ~Rename(d) PROVE FALSE
    <2>1. UNCHANGED effect
      BY <1>3 DEF CallStep, Admit, AcquireLease, LeaseCanceled, CheckLease,
         PreflightLstat, PreflightDigest, Prepare, CreateTemporary,
         WriteTemporary, SyncTemporary, CheckCreate, CheckDigest, CheckRegular,
         RenameFails, WaitForRenameRetry, RemoveLinked, SyncCommittedFile,
         SyncParent, Unwind, Encode, Release, fs
    <2> QED BY <2>1
  <1>4. ASSUME NEW d \in Calls, Cancel(d) \/ Replay(d) PROVE FALSE
    BY <1>4 DEF Cancel, Replay, fs
  <1>5. CASE ExternalWrite \/ ProcessDies \/ PowerLoss \/ UNCHANGED vars
    BY <1>5 DEF ExternalWrite, ProcessDies, PowerLoss, Dies, vars
  <1> QED BY <1>1, <1>2, <1>3, <1>4, <1>5 DEF Next

(* create=true commits only where nothing was, at the moment of the link. *)
THEOREM CreateIsExclusive == Spec => CreateNeverOverwrites
  <1>1. ASSUME Inv, [Next]_vars, NEW c \in Calls, Commits(c), Create(c)
        PROVE  target = Absent
    <2>1. ~Rename(c)
      BY <1>1 DEF Inv, CommitInv, Rename
    <2> QED BY <1>1, <2>1, CommitIsLinkOrRename
  <1>2. Inv /\ [Next]_vars =>
           [\A c \in Calls : Commits(c) /\ Create(c) => target = Absent]_vars
    BY <1>1
  <1> QED BY <1>2, Invariance, PTL DEF Spec, CreateNeverOverwrites

(* A call commits again only if its own change is not the last one. *)
THEOREM IdempotentReplay == Spec => ReplayIsIdempotent
  <1>1. ASSUME Inv, [Next]_vars, NEW c \in Calls, Commits(c)
        PROVE  lastWriter # c
    <2>1. CASE target = Absent
      BY <1>1, <2>1, ValueAssumption DEF Inv, TypeOK, Ops, FileInv
    <2>2. CASE Rename(c)
      BY <2>2, <1>1 DEF Rename, Inv, CommitInv
    <2> QED BY <1>1, <2>1, <2>2, CommitIsLinkOrRename
  <1>2. Inv /\ [Next]_vars => [\A c \in Calls : Commits(c) => lastWriter # c]_vars
    BY <1>1
  <1> QED BY <1>2, Invariance, PTL DEF Spec, ReplayIsIdempotent

(* A call is answered while it is refused, or when it gives the lease back. *)
LEMMA AnswerSteps ==
    ASSUME Inv, [Next]_vars, NEW c \in Calls, Answered(c)
    PROVE  pc[c] \in {"idle", "leasing", "releasing"}
  <1> USE DEF Inv, TypeOK, Answered, Goto
  <1>1. ASSUME NEW d \in Calls, Admit(d) \/ LeaseCanceled(d) \/ Release(d)
        PROVE  pc[c] \in {"idle", "leasing", "releasing"}
    BY <1>1 DEF Admit, LeaseCanceled, Release
  <1>2. ASSUME NEW d \in Calls, CallStep(d),
               ~(Admit(d) \/ LeaseCanceled(d) \/ Release(d))
        PROVE  FALSE
    BY <1>2 DEF CallStep, AcquireLease, CheckLease, PreflightLstat,
       PreflightDigest, Prepare, CreateTemporary, WriteTemporary, SyncTemporary,
       CheckCreate, Link, CheckDigest, CheckRegular, Rename, RenameFails,
       WaitForRenameRetry, RemoveLinked, SyncCommittedFile, SyncParent, Unwind,
       Encode, Return, Canceled
  <1>3. ASSUME NEW d \in Calls, Cancel(d) \/ Replay(d) PROVE FALSE
    BY <1>3 DEF Cancel, Replay
  <1>4. CASE ExternalWrite \/ ProcessDies \/ PowerLoss \/ UNCHANGED vars
    BY <1>4 DEF ExternalWrite, ProcessDies, PowerLoss, Dies, vars
  <1> QED BY <1>1, <1>2, <1>3, <1>4 DEF Next

(* When a call is answered committed and durable, a crash can only leave   *)
(* its content.                                                            *)
THEOREM DurableAnswers == Spec => DurableCommitSurvives
  <1>1. ASSUME Inv, [Next]_vars, NEW c \in Calls, Answered(c), lastWriter = c,
               reply[c].committed, reply[c].durable
        PROVE  disk = {op[c].after}
    <2>1. pc[c] = "releasing"
      BY <1>1, AnswerSteps DEF Inv, EffectInv
    <2> QED BY <1>1, <2>1 DEF Inv, FileInv
  <1>2. Inv /\ [Next]_vars =>
           [\A c \in Calls :
              /\ Answered(c) /\ lastWriter = c
              /\ reply[c].committed /\ reply[c].durable
              => disk = {op[c].after}]_vars
    BY <1>1
  <1> QED BY <1>2, Invariance, PTL DEF Spec, DurableCommitSurvives

-----------------------------------------------------------------------------
(***************************************************************************)
(* Replace implements AtomicFile.  Update is the link or the rename, Flush *)
(* the sync of the parent directory.                                       *)
(***************************************************************************)

(* The commit is a compare-and-set: nobody else wrote between the look and *)
(* the rename, and only whole contents become recoverable.                 *)
LEMMA CommitIsUpdate ==
    ASSUME NEW c \in Calls, Commit(c), temp[c] = "synced",
           target = op[c].before, UNCHANGED op
    PROVE  File!Update(c)
  BY DEF Commit, File!Update

(* A step of the replace tool is a step of the promise, or leaves the file *)
(* alone, if nobody else writes.                                           *)
LEMMA AtomicStep ==
    ~ExternalWriters /\ Inv /\ [Next]_vars => [File!Next]_(File!vars)
  <1> SUFFICES ASSUME ~ExternalWriters, Inv, [Next]_vars
               PROVE  File!Next \/ UNCHANGED File!vars
    OBVIOUS
  <1>1. ASSUME NEW c \in Calls, Link(c)
        PROVE  File!Next \/ UNCHANGED File!vars
    <2>1. CASE UNCHANGED fs
      BY <1>1, <2>1 DEF Link, fs, File!vars
    <2>2. CASE target = Absent /\ Commit(c)
      <3>1. File!Update(c)
        BY <1>1, <2>2, CommitIsUpdate DEF Link, Inv, TempInv, CommitInv, Create
      <3> QED BY <3>1 DEF File!Next
    <2> QED BY <1>1, <2>1, <2>2 DEF Link
  <1>2. ASSUME NEW c \in Calls, Rename(c)
        PROVE  File!Next \/ UNCHANGED File!vars
    <2>1. File!Update(c)
      BY <1>2, CommitIsUpdate DEF Rename, Inv, TempInv, CommitInv
    <2> QED BY <2>1 DEF File!Next
  <1>3. ASSUME NEW c \in Calls, SyncParent(c)
        PROVE  File!Next \/ UNCHANGED File!vars
    BY <1>3 DEF SyncParent, File!Next, File!Flush, File!vars
  <1>4. ASSUME NEW c \in Calls, CallStep(c), ~Link(c), ~Rename(c), ~SyncParent(c)
        PROVE  File!Next \/ UNCHANGED File!vars
    <2>1. UNCHANGED <<op, fs>>
      BY <1>4 DEF CallStep, Admit, AcquireLease, LeaseCanceled, CheckLease,
         PreflightLstat, PreflightDigest, Prepare, CreateTemporary,
         WriteTemporary, SyncTemporary, CheckCreate, CheckDigest, CheckRegular,
         RenameFails, WaitForRenameRetry, RemoveLinked, SyncCommittedFile,
         Unwind, Encode, Release
    <2> QED BY <2>1 DEF fs, File!vars
  <1>5. ASSUME NEW c \in Calls, Cancel(c) \/ Replay(c)
        PROVE  File!Next \/ UNCHANGED File!vars
    BY <1>5 DEF Cancel, Replay, fs, File!vars
  <1>6. CASE ProcessDies \/ PowerLoss
    BY <1>6 DEF ProcessDies, PowerLoss, Dies, File!Next, File!Crash, File!vars
  <1>7. CASE UNCHANGED vars
    BY <1>7 DEF vars, File!vars
  <1> QED BY <1>1, <1>2, <1>3, <1>4, <1>5, <1>6, <1>7 DEF Next, ExternalWrite

(* As long as no other program writes the file, its updates are atomic     *)
(* compare-and-sets of whole contents, and so is what a crash leaves.      *)
THEOREM AtomicUpdates == ~ExternalWriters => (Spec => AtomicFileSpec)
  <1> SUFFICES ASSUME ~ExternalWriters PROVE Spec => AtomicFileSpec
    OBVIOUS
  <1>1. Init => File!Init
    BY DEF Init, File!Init
  <1>2. Inv /\ [Next]_vars => [File!Next]_(File!vars)
    BY AtomicStep
  <1> QED
    BY <1>1, <1>2, Invariance, PTL DEF Spec, AtomicFileSpec, File!Spec

=============================================================================
