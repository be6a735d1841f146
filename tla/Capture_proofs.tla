--------------------------- MODULE Capture_proofs ---------------------------
(***************************************************************************)
(* Proofs about the bounded capture, for every budget, every size of a     *)
(* chunk and every amount of output.                                       *)
(***************************************************************************)
EXTENDS Capture, SequenceTheorems, TLAPS

-----------------------------------------------------------------------------
(***************************************************************************)
(* The inductive invariant.                                                *)
(***************************************************************************)
Answers == [stdout : Seq(Nat), stderr : Seq(Nat), stdoutBytes : Nat,
            stderrBytes : Nat, truncated : BOOLEAN, visible : BOOLEAN]

TypeOK ==
    /\ mutex \in Streams \cup {"free"}
    /\ remaining \in Nat /\ truncated \in BOOLEAN
    /\ content \in [Streams -> Seq(Nat)]
    /\ observed \in [Streams -> Nat]
    /\ chunk \in [Streams -> Nat]
    /\ accepted \in [Streams -> Nat]
    /\ pc \in [Streams -> {"idle", "waiting", "keeping"}]
    /\ phase \in {"running", "stopped", "half", "answered"}
    /\ joined \in BOOLEAN
    /\ answer \in Answers
    /\ written \in [Streams -> Nat]

(* The mutex is held from the count to the end of a Write, so the budget   *)
(* that acceptance was computed from is the budget it is taken from.       *)
WriterInv ==
    \A s \in Streams :
        /\ pc[s] = "keeping" <=> mutex = s
        /\ pc[s] = "keeping" => accepted[s] = Lesser(chunk[s], remaining)
        /\ pc[s] = "idle" => chunk[s] = 0
        /\ chunk[s] <= written[s]

(* What a stream keeps is a prefix of what its finished Writes carried:    *)
(* the whole of it as long as no stream has dropped a byte, and a budget   *)
(* that made one drop a byte is used up.                                   *)
PrefixInv ==
    /\ Len(content["stdout"]) + Len(content["stderr"]) + remaining = Maximum
    /\ \A s \in Streams :
          /\ \A i \in 1 .. Len(content[s]) : content[s][i] = i
          /\ Len(content[s]) <= written[s] - chunk[s]
          /\ ~truncated => Len(content[s]) = written[s] - chunk[s]
    /\ truncated =>
          /\ remaining = 0
          /\ \E s \in Streams : Len(content[s]) < written[s] - chunk[s]

(* The counter has seen every Write that got the mutex. *)
Seen(s) == IF pc[s] = "waiting" THEN written[s] - chunk[s] ELSE written[s]
CountInv == \A s \in Streams : observed[s] = Lesser(Seen(s), MaxInt)

(* Behind a join nothing is written, so the snapshots of a visible answer  *)
(* are still what the streams hold.                                        *)
AnswerInv ==
    /\ joined => phase # "running" /\ \A s \in Streams : pc[s] = "idle"
    /\ answer.visible => joined /\ phase \in {"half", "answered"}
    /\ answer.visible =>
          /\ answer.stdout = content["stdout"]
          /\ answer.stdoutBytes = observed["stdout"]
          /\ answer.truncated = truncated
    /\ answer.visible /\ phase = "answered" =>
          /\ answer.stderr = content["stderr"]
          /\ answer.stderrBytes = observed["stderr"]

Inv == TypeOK /\ WriterInv /\ PrefixInv /\ CountInv /\ AnswerInv

-----------------------------------------------------------------------------
(***************************************************************************)
(* What the functions of a Write compute.                                  *)
(***************************************************************************)

(* The counter saturates: adding to it is adding to what it stands for. *)
LEMMA SaturatingSum ==
    ASSUME NEW seen \in Nat, NEW n \in Nat
    PROVE  saturatingAdd(Lesser(seen, MaxInt), n) = Lesser(seen + n, MaxInt)
  BY BoundsAssumption DEF saturatingAdd, Lesser

(* The kept part of a chunk is a sequence of the accepted length. *)
LEMMA KeptPart ==
    ASSUME TypeOK, WriterInv, NEW s \in Streams
    PROVE  /\ Kept(s) \in Seq(Nat) /\ Len(Kept(s)) = accepted[s]
           /\ \A i \in 1 .. accepted[s] :
                 Kept(s)[i] = written[s] - chunk[s] + i
  <1>1. accepted[s] \in Nat /\ written[s] \in Nat /\ chunk[s] \in Nat
        /\ chunk[s] <= written[s]
    BY DEF TypeOK, WriterInv
  <1>2. \A i \in 1 .. accepted[s] : written[s] - chunk[s] + i \in Nat
    BY <1>1
  <1>3. Kept(s) \in [1 .. accepted[s] -> Nat]
    BY <1>2 DEF Kept
  <1>4. Kept(s) \in Seq(Nat)
    BY <1>1, <1>3, SeqDef
  <1>5. Len(Kept(s)) = accepted[s]
    BY <1>1, <1>3, <1>4, LenProperties
  <1> QED BY <1>4, <1>5 DEF Kept

-----------------------------------------------------------------------------
(***************************************************************************)
(* Every step preserves the invariant.                                     *)
(***************************************************************************)

(* A Write begins: the stream carries more, and the budget knows nothing   *)
(* of it yet.                                                              *)
LEMMA CallWriteStep ==
    ASSUME Inv, NEW s \in Streams, CallWrite(s) PROVE Inv'
  <1> USE DEF Inv
  <1>1. PICK n \in 1 .. MaxChunk :
          /\ chunk' = [chunk EXCEPT ![s] = n]
          /\ written' = [written EXCEPT ![s] = @ + n]
    BY DEF CallWrite
  <1>2. n \in Nat BY BoundsAssumption
  <1>3. UNCHANGED <<budget, accepted, phase, joined, answer>> /\ ~joined
        /\ pc[s] = "idle" /\ pc' = [pc EXCEPT ![s] = "waiting"]
    BY DEF CallWrite
  <1>4. chunk[s] = 0 BY <1>3 DEF WriterInv
  <1>5. TypeOK' BY <1>1, <1>2, <1>3 DEF TypeOK, budget
  <1>6. WriterInv' BY <1>1, <1>2, <1>3, <1>4 DEF TypeOK, WriterInv, budget
  <1>7. \A t \in Streams : written'[t] - chunk'[t] = written[t] - chunk[t]
    BY <1>1, <1>2, <1>4 DEF TypeOK
  <1>8. PrefixInv' BY <1>3, <1>7 DEF PrefixInv, budget
  <1>9. \A t \in Streams : Seen(t)' = Seen(t)
    BY <1>1, <1>2, <1>3, <1>4, <1>7 DEF TypeOK, Seen
  <1>10. CountInv' BY <1>3, <1>9 DEF CountInv, budget
  <1>11. AnswerInv' BY <1>3 DEF AnswerInv, budget
  <1> QED BY <1>5, <1>6, <1>8, <1>10, <1>11

(* The writer has the mutex: the chunk is counted, and how much of it is   *)
(* accepted is computed.                                                   *)
LEMMA LockStep == ASSUME Inv, NEW s \in Streams, Lock(s) PROVE Inv'
  <1> USE DEF Inv
  <1>1. /\ pc[s] = "waiting" /\ mutex = "free" /\ mutex' = s
        /\ observed' = [observed EXCEPT ![s] = saturatingAdd(@, chunk[s])]
        /\ accepted' = [accepted EXCEPT ![s] = Lesser(chunk[s], remaining)]
        /\ pc' = [pc EXCEPT ![s] = "keeping"]
        /\ UNCHANGED <<remaining, truncated, content, chunk, phase, joined,
                       answer, written>>
    BY DEF Lock, Count, Acceptable
  <1>2. /\ chunk[s] \in Nat /\ written[s] \in Nat /\ chunk[s] <= written[s]
        /\ remaining \in Nat
    BY DEF TypeOK, WriterInv
  <1>3. observed'[s] = Lesser(written[s], MaxInt)
    <2>1. observed[s] = Lesser(written[s] - chunk[s], MaxInt)
      BY <1>1 DEF CountInv, Seen
    <2>2. written[s] - chunk[s] \in Nat
      BY <1>2
    <2>3. saturatingAdd(observed[s], chunk[s]) = Lesser(written[s], MaxInt)
      BY <1>2, <2>1, <2>2, SaturatingSum
    <2> QED BY <1>1, <2>3 DEF TypeOK
  <1>4. observed' \in [Streams -> Nat]
    BY <1>1, <1>2, <1>3, BoundsAssumption DEF TypeOK, Lesser
  <1>5. accepted' \in [Streams -> Nat]
    BY <1>1, <1>2 DEF TypeOK, Lesser
  <1>6. TypeOK' BY <1>1, <1>4, <1>5 DEF TypeOK
  <1>7. WriterInv' BY <1>1 DEF TypeOK, WriterInv, Streams
  <1>8. PrefixInv' BY <1>1 DEF PrefixInv
  <1>9. CountInv' BY <1>1, <1>3 DEF TypeOK, CountInv, Seen
  <1>10. AnswerInv' BY <1>1 DEF AnswerInv
  <1> QED BY <1>6, <1>7, <1>8, <1>9, <1>10

(* The accepted bytes are kept, and a dropped one is recorded. *)
LEMMA KeepStep == ASSUME Inv, NEW s \in Streams, Keep(s) PROVE Inv'
  <1> USE DEF Inv
  <1>1. /\ pc[s] = "keeping"
        /\ content' = [content EXCEPT ![s] = @ \o Kept(s)]
        /\ remaining' = remaining - accepted[s]
        /\ truncated' = (truncated \/ accepted[s] < chunk[s])
        /\ mutex' = "free"
        /\ chunk' = [chunk EXCEPT ![s] = 0]
        /\ accepted' = [accepted EXCEPT ![s] = 0]
        /\ pc' = [pc EXCEPT ![s] = "idle"]
        /\ UNCHANGED <<observed, phase, joined, answer, written>>
    BY DEF Keep, Drops, Unlock
  <1>2. /\ chunk[s] \in Nat /\ written[s] \in Nat /\ chunk[s] <= written[s]
        /\ remaining \in Nat /\ accepted[s] = Lesser(chunk[s], remaining)
        /\ accepted[s] \in Nat /\ mutex = s
    BY <1>1 DEF TypeOK, WriterInv
  <1>3. ~joined BY <1>1 DEF AnswerInv
  <1>4. content[s] \in Seq(Nat) BY DEF TypeOK
  <1>5. /\ content'[s] \in Seq(Nat)
        /\ Len(content'[s]) = Len(content[s]) + accepted[s]
        /\ \A i \in 1 .. Len(content[s]) + accepted[s] : content'[s][i] =
              IF i <= Len(content[s]) THEN content[s][i]
              ELSE written[s] - chunk[s] + (i - Len(content[s]))
    <2>1. content'[s] = content[s] \o Kept(s)
      BY <1>1 DEF TypeOK
    <2>2. /\ Kept(s) \in Seq(Nat) /\ Len(Kept(s)) = accepted[s]
          /\ \A i \in 1 .. accepted[s] : Kept(s)[i] = written[s] - chunk[s] + i
      BY KeptPart
    <2>3. Len(content[s]) \in Nat
      BY <1>4, LenProperties
    <2> HIDE DEF Inv
    <2>4. /\ content[s] \o Kept(s) \in Seq(Nat)
          /\ Len(content[s] \o Kept(s)) = Len(content[s]) + accepted[s]
          /\ \A i \in 1 .. Len(content[s]) + accepted[s] :
                (content[s] \o Kept(s))[i] =
                   IF i <= Len(content[s]) THEN content[s][i]
                   ELSE Kept(s)[i - Len(content[s])]
      <3>1. /\ content[s] \o Kept(s) \in Seq(Nat)
            /\ Len(content[s] \o Kept(s)) = Len(content[s]) + Len(Kept(s))
            /\ \A i \in 1 .. Len(content[s]) + Len(Kept(s)) :
                  (content[s] \o Kept(s))[i] =
                     IF i <= Len(content[s]) THEN content[s][i]
                     ELSE Kept(s)[i - Len(content[s])]
        BY <1>4, <2>2, ConcatProperties, Zenon
      <3> QED BY <2>2, <3>1
    <2>5. \A i \in 1 .. Len(content[s]) + accepted[s] :
             ~(i <= Len(content[s])) => i - Len(content[s]) \in 1 .. accepted[s]
      BY <1>2, <2>3
    <2> QED BY <2>1, <2>2, <2>4, <2>5
  <1>6. \A t \in Streams \ {s} : content'[t] = content[t]
    BY <1>1 DEF TypeOK
  <1>7. content' \in [Streams -> Seq(Nat)]
    BY <1>1, <1>5, <1>6 DEF TypeOK
  <1>8. remaining' \in Nat /\ truncated' \in BOOLEAN
    BY <1>1, <1>2 DEF TypeOK, Lesser
  <1>9. TypeOK' BY <1>1, <1>7, <1>8 DEF TypeOK
  <1>10. WriterInv' BY <1>1, <1>2 DEF TypeOK, WriterInv, Streams
  <1>11. \A t \in Streams : Len(content[t]) \in Nat
    BY LenProperties DEF TypeOK
  <1>12. /\ written' = written /\ chunk'[s] = 0
         /\ \A t \in Streams \ {s} : chunk'[t] = chunk[t]
    BY <1>1 DEF TypeOK
  <1>13. PrefixInv'
    <2>1. (Len(content["stdout"]) + Len(content["stderr"]) + remaining = Maximum)'
      <3> DEFINE out == Len(content["stdout"])
                 err == Len(content["stderr"])
      <3>1. out \in Nat /\ err \in Nat /\ out + err + remaining = Maximum
        BY <1>11 DEF PrefixInv, Streams
      <3>2. /\ s = "stdout" => out' = out + accepted[s] /\ err' = err
            /\ s = "stderr" => err' = err + accepted[s] /\ out' = out
        BY <1>5, <1>6 DEF Streams
      <3>3. remaining' = remaining - accepted[s]
        BY <1>1
      <3> HIDE DEF out, err, Inv
      <3>4. out' + err' + remaining' = Maximum
        BY <1>2, <3>1, <3>2, <3>3 DEF Streams
      <3> QED BY <3>4 DEF out, err
    <2>2. ASSUME NEW t \in Streams, NEW i \in 1 .. Len(content'[t])
          PROVE  content'[t][i] = i
      <3>1. CASE t # s
        BY <1>6, <2>2, <3>1 DEF PrefixInv
      <3>2. CASE t = s
        <4>1. CASE i <= Len(content[s])
          <5>1. i \in 1 .. Len(content[s]) /\ content'[s][i] = content[s][i]
            <6> HIDE DEF Inv
            <6>1. Len(content[s]) \in Nat /\ accepted[s] \in Nat
              BY <1>2, <1>11
            <6>2. i \in 1 .. Len(content[s]) /\ i \in 1 .. Len(content[s]) + accepted[s]
              BY <2>2, <3>2, <4>1, <6>1, <1>5
            <6> QED BY <1>5, <4>1, <6>2
          <5> QED BY <3>2, <5>1 DEF PrefixInv
        <4>2. CASE ~(i <= Len(content[s]))
          <5>1. accepted[s] > 0
            BY <1>2, <1>5, <1>11, <2>2, <3>2, <4>2
          <5>2. ~truncated
            BY <1>2, <5>1 DEF PrefixInv, Lesser
          <5>3. Len(content[s]) = written[s] - chunk[s]
            BY <5>2 DEF PrefixInv
          <5>4. content'[s][i] = written[s] - chunk[s] + (i - Len(content[s]))
            BY <1>5, <1>2, <1>11, <2>2, <3>2, <4>2
          <5> QED BY <1>2, <1>5, <1>11, <2>2, <3>2, <5>3, <5>4
        <4> QED BY <4>1, <4>2
      <3> QED BY <3>1, <3>2
    <2>3. ASSUME NEW t \in Streams
          PROVE  /\ Len(content'[t]) <= written[t] - chunk'[t]
                 /\ ~truncated' => Len(content'[t]) = written[t] - chunk'[t]
      <3>1. CASE t # s
        BY <1>1, <1>6, <1>12, <3>1 DEF PrefixInv
      <3>2. CASE t = s
        <4>1. /\ Len(content[s]) <= written[s] - chunk[s]
              /\ ~truncated => Len(content[s]) = written[s] - chunk[s]
          BY DEF PrefixInv
        <4>2. Len(content[s]) \in Nat /\ accepted[s] <= chunk[s]
          BY <1>2, <1>11 DEF Lesser
        <4>3. Len(content'[s]) <= written[s] - chunk'[s]
          BY <1>2, <1>5, <1>12, <4>1, <4>2
        <4>4. ~truncated' => Len(content'[s]) = written[s] - chunk'[s]
          <5> SUFFICES ASSUME ~truncated'
                       PROVE  Len(content'[s]) = written[s] - chunk'[s]
            OBVIOUS
          <5>1. ~truncated /\ accepted[s] = chunk[s]
            <6> HIDE DEF Inv
            <6>1. ~truncated /\ ~(accepted[s] < chunk[s])
              BY <1>1
            <6> QED BY <1>2, <4>2, <6>1
          <5> QED BY <1>2, <1>5, <1>12, <4>1, <4>2, <5>1
        <4> QED BY <3>2, <4>3, <4>4
      <3> QED BY <3>1, <3>2
    <2>4. ASSUME truncated'
          PROVE  /\ remaining' = 0
                 /\ \E t \in Streams : Len(content'[t]) < written[t] - chunk'[t]
      <3>1. CASE accepted[s] < chunk[s]
        <4>1. Len(content[s]) <= written[s] - chunk[s]
          BY DEF PrefixInv
        <4>2. Len(content'[s]) < written[s] - chunk'[s]
          BY <1>2, <1>5, <1>11, <1>12, <3>1, <4>1
        <4> QED BY <1>1, <1>2, <3>1, <4>2 DEF Lesser
      <3>2. CASE truncated
        <4>1. PICK t \in Streams : Len(content[t]) < written[t] - chunk[t]
          BY <3>2 DEF PrefixInv
        <4>2. remaining = 0 /\ accepted[s] = 0
          BY <1>2, <3>2 DEF PrefixInv, Lesser
        <4>3. Len(content'[t]) < written[t] - chunk'[t]
          BY <1>2, <1>5, <1>6, <1>11, <1>12, <4>1, <4>2
        <4> QED BY <1>1, <4>2, <4>3
      <3> QED BY <1>1, <2>4, <3>1, <3>2
    <2> QED BY <1>12, <2>1, <2>2, <2>3, <2>4 DEF PrefixInv
  <1>14. CountInv' BY <1>1 DEF TypeOK, CountInv, Seen
  <1>15. AnswerInv' BY <1>1, <1>3 DEF AnswerInv
  <1> QED BY <1>9, <1>10, <1>13, <1>14, <1>15

(* The join waits for the writers, or is given up. *)
LEMMA JoinStep == ASSUME Inv, Join PROVE Inv'
  <1> USE DEF Inv, Join, budget, writers
  <1>1. TypeOK' BY DEF TypeOK
  <1>2. WriterInv' BY DEF WriterInv
  <1>3. PrefixInv' BY DEF PrefixInv
  <1>4. CountInv' BY DEF CountInv, Seen
  <1>5. AnswerInv' BY DEF AnswerInv
  <1> QED BY <1>1, <1>2, <1>3, <1>4, <1>5

(* The first snapshot. *)
LEMMA SnapshotStdoutStep == ASSUME Inv, SnapshotStdout PROVE Inv'
  <1> USE DEF Inv, SnapshotStdout, budget, writers
  <1>1. TypeOK' BY DEF TypeOK, Answers, Shown, Streams
  <1>2. WriterInv' BY DEF WriterInv
  <1>3. PrefixInv' BY DEF PrefixInv
  <1>4. CountInv' BY DEF CountInv, Seen
  <1>5. AnswerInv' BY DEF TypeOK, Answers, AnswerInv, Shown
  <1> QED BY <1>1, <1>2, <1>3, <1>4, <1>5

(* The second: of a joined process it is of the same moment. *)
LEMMA SnapshotStderrStep == ASSUME Inv, SnapshotStderr PROVE Inv'
  <1> USE DEF Inv, SnapshotStderr, budget, writers
  <1>1. TypeOK' BY DEF TypeOK, Answers, Streams
  <1>2. WriterInv' BY DEF WriterInv
  <1>3. PrefixInv' BY DEF PrefixInv
  <1>4. CountInv' BY DEF CountInv, Seen
  <1>5. AnswerInv' BY DEF TypeOK, Answers, AnswerInv
  <1> QED BY <1>1, <1>2, <1>3, <1>4, <1>5

(* Inv holds of an empty capture. *)
LEMMA InitInv == Init => Inv
  <1> SUFFICES ASSUME Init PROVE Inv
    OBVIOUS
  <1> USE DEF Init, Streams
  <1>1. TypeOK
    <2>1. remaining \in Nat BY BoundsAssumption
    <2>2. content \in [Streams -> Seq(Nat)] BY EmptySeq
    <2>3. answer \in Answers BY EmptySeq DEF Answers
    <2> QED BY <2>1, <2>2, <2>3 DEF TypeOK
  <1>2. WriterInv BY DEF WriterInv
  <1>3. PrefixInv BY BoundsAssumption DEF PrefixInv
  <1>4. CountInv BY BoundsAssumption DEF CountInv, Seen, Lesser
  <1>5. AnswerInv BY DEF AnswerInv
  <1> QED BY <1>1, <1>2, <1>3, <1>4, <1>5 DEF Inv

(* Inv holds in every state of a capture. *)
THEOREM Invariance == Spec => []Inv
  <1>1. Inv /\ [Next]_vars => Inv'
    <2> SUFFICES ASSUME Inv, [Next]_vars PROVE Inv'
      OBVIOUS
    <2>1. CASE UNCHANGED vars
      BY <2>1 DEF vars, Inv, TypeOK, WriterInv, PrefixInv, CountInv, Seen,
         AnswerInv
    <2> QED
      BY <2>1, CallWriteStep, LockStep, KeepStep, JoinStep, SnapshotStdoutStep,
         SnapshotStderrStep
      DEF Next
  <1> QED BY <1>1, InitInv, PTL DEF Spec

-----------------------------------------------------------------------------
(***************************************************************************)
(* The properties of the run.                                              *)
(***************************************************************************)

(* Together the streams keep what the budget has lost, and each keeps its  *)
(* beginning.                                                              *)
THEOREM BoundedPrefix == Spec => []KeptIsBoundedPrefix
  <1>1. Inv => KeptIsBoundedPrefix
    <2> SUFFICES ASSUME Inv PROVE KeptIsBoundedPrefix
      OBVIOUS
    <2>1. \A s \in Streams : Len(content[s]) \in Nat
      BY LenProperties DEF Inv, TypeOK
    <2>2. Total(Lengths) = Len(content["stdout"]) + Len(content["stderr"])
      BY DEF Total, Lengths, Streams
    <2>3. Total(Lengths) \in Nat /\ remaining \in Nat
      BY <2>1, <2>2 DEF Streams, Inv, TypeOK
    <2>4. Total(Lengths) + remaining = Maximum
      BY <2>2 DEF Inv, PrefixInv
    <2>5. Total(Lengths) <= Maximum
      BY <2>3, <2>4, BoundsAssumption
    <2> QED BY <2>4, <2>5 DEF Inv, PrefixInv, KeptIsBoundedPrefix
  <1> QED BY <1>1, Invariance, PTL

(* The counts and the flag of a visible answer depend on nothing but what  *)
(* the streams carried.                                                    *)
THEOREM DeterministicMetadata == Spec => []MetadataIsDeterministic
  <1>1. Inv => MetadataIsDeterministic
    <2> SUFFICES ASSUME Inv, phase = "answered", answer.visible
                 PROVE  /\ answer.stdoutBytes = Lesser(written["stdout"], MaxInt)
                        /\ answer.stderrBytes = Lesser(written["stderr"], MaxInt)
                        /\ answer.truncated <=> Total(written) > Maximum
                        /\ ~answer.truncated =>
                              /\ Len(answer.stdout) = written["stdout"]
                              /\ Len(answer.stderr) = written["stderr"]
      BY DEF MetadataIsDeterministic
    <2>1. \A s \in Streams : pc[s] = "idle" /\ chunk[s] = 0
      BY DEF Inv, AnswerInv, WriterInv
    <2>2. /\ answer.stdout = content["stdout"] /\ answer.stderr = content["stderr"]
          /\ answer.stdoutBytes = observed["stdout"]
          /\ answer.stderrBytes = observed["stderr"]
          /\ answer.truncated = truncated
      BY DEF Inv, AnswerInv
    <2>3. \A s \in Streams : observed[s] = Lesser(written[s], MaxInt)
      BY <2>1 DEF Inv, CountInv, Seen
    <2>4. \A s \in Streams :
            /\ written[s] \in Nat /\ Len(content[s]) \in Nat
            /\ Len(content[s]) <= written[s]
            /\ ~truncated => Len(content[s]) = written[s]
      BY <2>1, LenProperties DEF Inv, TypeOK, PrefixInv
    <2>5. truncated => remaining = 0 /\ \E s \in Streams : Len(content[s]) < written[s]
      BY <2>1, <2>4 DEF Inv, TypeOK, PrefixInv
    <2>6. Len(content["stdout"]) + Len(content["stderr"]) + remaining = Maximum
          /\ remaining \in Nat
      BY DEF Inv, TypeOK, PrefixInv
    <2>7. truncated <=> Total(written) > Maximum
      BY <2>4, <2>5, <2>6, BoundsAssumption DEF Total, Streams, Inv, TypeOK
    <2> QED BY <2>2, <2>3, <2>4, <2>7 DEF Streams
  <1> QED BY <1>1, Invariance, PTL

=============================================================================
