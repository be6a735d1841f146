------------------------- MODULE QualityGate_proofs -------------------------
(***************************************************************************)
(* Proofs about a run of the quality gate, for every mode, every host      *)
(* environment and every number of changes of the repository.              *)
(***************************************************************************)
EXTENDS QualityGate, SequenceTheorems, TLAPS

-----------------------------------------------------------------------------
(***************************************************************************)
(* The inductive invariant.                                                *)
(***************************************************************************)

(* Every step of a gate, and every deferred function. *)
AllSteps ==
    Range(CheckContracts) \cup Range(Format) \cup Range(Lint) \cup
    Range(Security) \cup Range(Coverage) \cup Range(Vendor) \cup Range(Graph) \cup
    {"root", "version", "tidy", "tools-tidy", "vet", "test", "race",
     "offline-test", "offline-build", "benchmark", "before", "mode"}
Cleanups == {"remove-profile", "remove-vendor", "close-graph", "remove-graph"}

(* The steps that are still to be taken if nothing fails. *)
StepsOf(list) == UNION {Range(gate) : gate \in Range(list)}
Pending == Range(steps) \cup StepsOf(gates)

(* The steps that may end their gate early or drop the one behind them. *)
Skipping == {"read-go.mod", "read-go.sum"}

(* The steps of a mode without which a run must not end with 0; the one of *)
(* a mode that does not exist cannot succeed.                              *)
Promised == {"compatibility", "gofumpt", "tools-tidy", "vet", "test", "nilaway",
             "govulncheck", "race", "coverage-minimum", "same-vendor",
             "offline-test", "offline-build"}
Named == {"fast", "fmt", "check", "benchmark", "verify", "tools-bootstrap"}
Required(m) == IF m = "verify" THEN Promised
               ELSE IF m \in Named THEN {} ELSE {"mode"}

(* A profile that was created is closed in the next step, and there is a   *)
(* step to leave out behind go.sum.                                        *)
WellFormed(gate) ==
    \A i \in 1 .. Len(gate) :
        /\ gate[i] = "create-profile" =>
              i < Len(gate) /\ gate[i + 1] = "close-profile"
        /\ gate[i] = "read-go.sum" => i < Len(gate)

(* A sequence of gates, each of which is well-formed. *)
GateList(list) ==
    list \in Seq(Seq(AllSteps)) /\ \A gate \in Range(list) : WellFormed(gate)

TypeOK ==
    /\ GateList(gates) /\ WellFormed(steps) /\ steps \in Seq(AllSteps)
    /\ deferred \in Seq(Cleanups)
    /\ tree \in Nat /\ {before, after} \subseteq Nat \cup {None}
    /\ exit \in {None, 0, 1}

(* As long as nothing failed, no required step was passed over. *)
StepInv ==
    /\ errors = {} => Required(mode) \subseteq passed \cup Pending
    /\ "mode" \notin passed
    /\ Required(mode) # {} => Pending \cap Skipping = {}

(* Whatever exists is about to be put under a deferred function, is under  *)
(* one, or has made the run fail.                                          *)
TemporaryInv ==
    /\ temporaries \subseteq {"profile", "vendor", "graph"}
    /\ "profile" \in temporaries =>
          \/ steps # <<>> /\ Head(steps) = "close-profile"
          \/ "remove-profile" \in Range(deferred)
          \/ errors \cap {"remove-profile", "close-profile"} # {}
    /\ "vendor" \in temporaries =>
          "remove-vendor" \in Range(deferred) \cup errors
    /\ "graph" \in temporaries =>
          "remove-graph" \in Range(deferred) \cup errors

(* The second snapshot is taken and the run ends behind all gates. *)
EndInv ==
    /\ after # None => GatesDone
    /\ after # None /\ after # before => {"modified", "after"} \cap errors # {}
    /\ exit # None => GatesDone /\ ~Compares
    /\ exit = 0 => errors = {}
    /\ exit = 1 => errors # {}

Inv == /\ TypeOK /\ StepInv /\ TemporaryInv /\ EndInv /\ OfflineUnlessBootstrap

-----------------------------------------------------------------------------
(***************************************************************************)
(* Sequences of steps.                                                     *)
(***************************************************************************)

(* The elements of a sequence are its head and those of its tail. *)
LEMMA RangeHeadTail ==
    ASSUME NEW S, NEW s \in Seq(S), s # <<>>
    PROVE  /\ Head(s) \in S /\ Tail(s) \in Seq(S)
           /\ Range(s) = {Head(s)} \cup Range(Tail(s))
  <1>1. /\ Head(s) \in S /\ Tail(s) \in Seq(S) /\ Len(Tail(s)) = Len(s) - 1
        /\ \A i \in 1 .. Len(Tail(s)) : Tail(s)[i] = s[i + 1]
    BY HeadTailProperties
  <1>2. Len(s) \in Nat /\ DOMAIN s = 1 .. Len(s) /\ DOMAIN Tail(s) = 1 .. Len(Tail(s))
    BY <1>1, LenProperties
  <1>3. Len(s) # 0 /\ Head(s) = s[1]
    BY EmptySeq
  <1>4. Range(s) \subseteq {Head(s)} \cup Range(Tail(s))
    <2> SUFFICES ASSUME NEW i \in 1 .. Len(s), i # 1
                 PROVE  s[i] \in Range(Tail(s))
      BY <1>2, <1>3 DEF Range
    <2>1. i - 1 \in 1 .. Len(Tail(s)) /\ (i - 1) + 1 = i
      BY <1>1, <1>2
    <2> QED BY <1>1, <1>2, <2>1 DEF Range
  <1>5. {Head(s)} \cup Range(Tail(s)) \subseteq Range(s)
    <2>1. 1 \in 1 .. Len(s) /\ \A i \in 1 .. Len(Tail(s)) : i + 1 \in 1 .. Len(s)
      BY <1>1, <1>2, <1>3
    <2> QED BY <1>1, <1>2, <1>3, <2>1 DEF Range
  <1> QED BY <1>1, <1>4, <1>5

(* Those of a concatenation are those of its parts. *)
LEMMA RangeConcat ==
    ASSUME NEW S, NEW s \in Seq(S), NEW t \in Seq(S)
    PROVE  s \o t \in Seq(S) /\ Range(s \o t) = Range(s) \cup Range(t)
  <1>1. /\ s \o t \in Seq(S) /\ Len(s \o t) = Len(s) + Len(t)
        /\ \A i \in 1 .. Len(s) + Len(t) :
              (s \o t)[i] = IF i <= Len(s) THEN s[i] ELSE t[i - Len(s)]
    BY ConcatProperties
  <1>2. /\ Len(s) \in Nat /\ DOMAIN s = 1 .. Len(s)
        /\ Len(t) \in Nat /\ DOMAIN t = 1 .. Len(t)
        /\ DOMAIN (s \o t) = 1 .. Len(s) + Len(t)
    BY <1>1, LenProperties
  <1>3. Range(s \o t) \subseteq Range(s) \cup Range(t)
    <2> SUFFICES ASSUME NEW i \in 1 .. Len(s) + Len(t)
                 PROVE  (s \o t)[i] \in Range(s) \cup Range(t)
      BY <1>2 DEF Range
    <2>1. IF i <= Len(s) THEN i \in DOMAIN s ELSE i - Len(s) \in DOMAIN t
      BY <1>2
    <2> QED BY <1>1, <2>1 DEF Range
  <1>4. ASSUME NEW i \in DOMAIN s PROVE s[i] \in Range(s \o t)
    <2>1. i \in 1 .. Len(s) + Len(t) /\ i <= Len(s)
      BY <1>2
    <2> QED BY <1>1, <1>2, <2>1 DEF Range
  <1>5. ASSUME NEW i \in DOMAIN t PROVE t[i] \in Range(s \o t)
    <2>1. /\ i + Len(s) \in 1 .. Len(s) + Len(t) /\ ~(i + Len(s) <= Len(s))
          /\ (i + Len(s)) - Len(s) = i
      BY <1>2
    <2>2. (s \o t)[i + Len(s)] = t[i]
      BY <1>1, <2>1
    <2> QED BY <1>2, <2>1, <2>2 DEF Range
  <1> QED BY <1>1, <1>3, <1>4, <1>5 DEF Range

(* The rest of a well-formed gate is well-formed. *)
LEMMA WellFormedTail ==
    ASSUME NEW s \in Seq(AllSteps), s # <<>>, WellFormed(s)
    PROVE  /\ WellFormed(Tail(s))
           /\ Head(s) = "create-profile" =>
                 Tail(s) # <<>> /\ Head(Tail(s)) = "close-profile"
           /\ Head(s) = "read-go.sum" => Tail(s) # <<>>
  <1>1. /\ Tail(s) \in Seq(AllSteps) /\ Len(Tail(s)) = Len(s) - 1
        /\ \A i \in 1 .. Len(Tail(s)) : Tail(s)[i] = s[i + 1]
    BY HeadTailProperties
  <1>2. Len(s) \in Nat /\ Len(s) # 0 /\ Head(s) = s[1]
    BY LenProperties, EmptySeq
  <1>3. Tail(s) # <<>> => Head(Tail(s)) = Tail(s)[1]
    BY <1>1
  <1>4. Tail(s) = <<>> => Len(s) = 1
    <2>1. Len(<<>>) = 0
      OBVIOUS
    <2>2. Tail(s) = <<>> => Len(Tail(s)) = 0
      BY <2>1, Zenon
    <2> QED BY <1>1, <1>2, <2>2
  <1>5. WellFormed(Tail(s))
    <2> SUFFICES ASSUME NEW i \in 1 .. Len(Tail(s))
                 PROVE  /\ Tail(s)[i] = "create-profile" =>
                              /\ i < Len(Tail(s))
                              /\ Tail(s)[i + 1] = "close-profile"
                        /\ Tail(s)[i] = "read-go.sum" => i < Len(Tail(s))
      BY DEF WellFormed
    <2>1. i + 1 \in 1 .. Len(s) /\ i \in Nat
      BY <1>1, <1>2
    <2>2. /\ s[i + 1] = "create-profile" =>
                i + 1 < Len(s) /\ s[(i + 1) + 1] = "close-profile"
          /\ s[i + 1] = "read-go.sum" => i + 1 < Len(s)
      BY <2>1 DEF WellFormed
    <2>3. i + 1 < Len(s) => i + 1 \in 1 .. Len(s) - 1 /\ i < Len(s) - 1
      BY <1>2, <2>1
    <2> QED BY <1>1, <2>1, <2>2, <2>3
  <1>6. 1 \in 1 .. Len(s) BY <1>2
  <1>7. /\ s[1] = "create-profile" => 1 < Len(s) /\ s[1 + 1] = "close-profile"
        /\ s[1] = "read-go.sum" => 1 < Len(s)
    BY <1>6 DEF WellFormed
  <1>8. 1 < Len(s) => 1 \in 1 .. Len(s) - 1 /\ Len(s) # 1
    BY <1>2
  <1> QED BY <1>1, <1>2, <1>3, <1>4, <1>5, <1>7, <1>8

(* A gate without the two steps is well-formed. *)
LEMMA WellFormedPlain ==
    ASSUME NEW s \in Seq(AllSteps), Range(s) \cap {"create-profile", "read-go.sum"} = {}
    PROVE  WellFormed(s)
  BY LenProperties DEF WellFormed, Range

-----------------------------------------------------------------------------
(***************************************************************************)
(* The gates.                                                              *)
(***************************************************************************)

(* The steps of CheckContracts. *)
LEMMA CheckContractsSteps ==
    /\ Range(CheckContracts) = {"release-metadata", "release-workflow",
                                "portability", "go.mod", "selections",
                                "tools/go.mod", "compatibility"}
    /\ CheckContracts \in Seq(AllSteps)
  <1>1. CheckContracts \in Seq(Range(CheckContracts))
    BY DEF CheckContracts, Range
  <1>2. Range(CheckContracts) \subseteq AllSteps
    BY DEF AllSteps
  <1>3. CheckContracts \in Seq(AllSteps)
    BY <1>1, <1>2, SeqMonotonic
  <1> QED BY <1>3 DEF CheckContracts, Range

(* The steps of Format. *)
LEMMA FormatSteps ==
    /\ Range(Format) = {"go-files", "find-goimports", "goimports",
                        "find-gofumpt", "gofumpt"}
    /\ Format \in Seq(AllSteps)
  <1>1. Format \in Seq(Range(Format))
    BY DEF Format, Range
  <1>2. Range(Format) \subseteq AllSteps
    BY DEF AllSteps
  <1>3. Format \in Seq(AllSteps)
    BY <1>1, <1>2, SeqMonotonic
  <1> QED BY <1>3 DEF Format, Range

(* The steps of Lint. *)
LEMMA LintSteps ==
    /\ Range(Lint) = {"find-golangci-lint", "golangci-lint", "find-nilaway",
                      "nilaway"}
    /\ Lint \in Seq(AllSteps)
  <1>1. Lint \in Seq(Range(Lint))
    BY DEF Lint, Range
  <1>2. Range(Lint) \subseteq AllSteps
    BY DEF AllSteps
  <1>3. Lint \in Seq(AllSteps)
    BY <1>1, <1>2, SeqMonotonic
  <1> QED BY <1>3 DEF Lint, Range

(* The steps of Security. *)
LEMMA SecuritySteps ==
    /\ Range(Security) = {"find-gosec", "gosec", "find-govulncheck",
                          "govulncheck"}
    /\ Security \in Seq(AllSteps)
  <1>1. Security \in Seq(Range(Security))
    BY DEF Security, Range
  <1>2. Range(Security) \subseteq AllSteps
    BY DEF AllSteps
  <1>3. Security \in Seq(AllSteps)
    BY <1>1, <1>2, SeqMonotonic
  <1> QED BY <1>3 DEF Security, Range

(* The steps of Coverage. *)
LEMMA CoverageSteps ==
    /\ Range(Coverage) = {"packages", "create-profile", "close-profile",
                          "coverage-test", "coverage-report",
                          "coverage-total", "coverage-minimum"}
    /\ Coverage \in Seq(AllSteps)
  <1>1. Coverage \in Seq(Range(Coverage))
    BY DEF Coverage, Range
  <1>2. Range(Coverage) \subseteq AllSteps
    BY DEF AllSteps
  <1>3. Coverage \in Seq(AllSteps)
    BY <1>1, <1>2, SeqMonotonic
  <1> QED BY <1>3 DEF Coverage, Range

(* The steps of Vendor. *)
LEMMA VendorSteps ==
    /\ Range(Vendor) = {"create-vendor", "go-mod-vendor", "digest-vendor",
                        "digest-candidate", "same-vendor"}
    /\ Vendor \in Seq(AllSteps)
  <1>1. Vendor \in Seq(Range(Vendor))
    BY DEF Vendor, Range
  <1>2. Range(Vendor) \subseteq AllSteps
    BY DEF AllSteps
  <1>3. Vendor \in Seq(AllSteps)
    BY <1>1, <1>2, SeqMonotonic
  <1> QED BY <1>3 DEF Vendor, Range

(* The steps of Graph. *)
LEMMA GraphSteps ==
    /\ Range(Graph) = {"read-go.mod", "create-graph", "open-graph",
                       "write-graph.mod", "read-go.sum", "write-graph.sum",
                       "download"}
    /\ Graph \in Seq(AllSteps)
  <1>1. Graph \in Seq(Range(Graph))
    BY DEF Graph, Range
  <1>2. Range(Graph) \subseteq AllSteps
    BY DEF AllSteps
  <1>3. Graph \in Seq(AllSteps)
    BY <1>1, <1>2, SeqMonotonic
  <1> QED BY <1>3 DEF Graph, Range


(* A gate of one or two steps. *)
LEMMA ShortGates ==
    ASSUME NEW S, NEW a \in S, NEW b \in S
    PROVE  /\ <<a>> \in Seq(S) /\ Range(<<a>>) = {a}
           /\ <<a, b>> \in Seq(S) /\ Range(<<a, b>>) = {a, b}
  BY DEF Range

(* The steps of Check, which begins with CheckContracts and Format. *)
LEMMA CheckSteps ==
    /\ Range(Check) = Range(CheckContracts) \cup Range(Format) \cup
                      {"tidy", "tools-tidy", "vet", "test"}
    /\ Check \in Seq(AllSteps)
  <1> DEFINE rest == <<"tidy", "tools-tidy", "vet", "test">>
             four == {"tidy", "tools-tidy", "vet", "test"}
             first == CheckContracts \o Format
  <1>1. rest \in Seq(four) /\ Range(rest) = four
    BY DEF Range
  <1>2. four \subseteq AllSteps
    BY DEF AllSteps
  <1>3. rest \in Seq(AllSteps)
    BY <1>1, <1>2, SeqMonotonic
  <1>4. /\ first \in Seq(AllSteps)
        /\ Range(first) = Range(CheckContracts) \cup Range(Format)
    BY CheckContractsSteps, FormatSteps, RangeConcat
  <1>5. Check = first \o rest
    BY DEF Check
  <1> HIDE DEF rest, four, first
  <1>6. /\ first \o rest \in Seq(AllSteps)
        /\ Range(first \o rest) = Range(first) \cup Range(rest)
    BY <1>3, <1>4, RangeConcat
  <1> QED BY <1>1, <1>4, <1>5, <1>6 DEF four

(* The gates of verify. *)
LEMMA VerifyGates ==
    /\ Verify \in Seq(Seq(AllSteps))
    /\ Range(Verify) = {Check, Lint, Security, <<"race">>, Coverage, Vendor,
                        <<"offline-test", "offline-build">>}
  <1> DEFINE race == <<"race">>
             offline == <<"offline-test", "offline-build">>
  <1>1. race \in Seq(AllSteps) /\ offline \in Seq(AllSteps)
    BY ShortGates DEF AllSteps
  <1>2. /\ Check \in Seq(AllSteps) /\ Lint \in Seq(AllSteps)
        /\ Security \in Seq(AllSteps) /\ Coverage \in Seq(AllSteps)
        /\ Vendor \in Seq(AllSteps)
    BY CheckSteps, LintSteps, SecuritySteps, CoverageSteps, VendorSteps
  <1>3. Verify = <<Check, Lint, Security, race, Coverage, Vendor, offline>>
    BY DEF Verify
  <1> HIDE DEF race, offline
  <1>4. /\ Verify \in Seq(Seq(AllSteps))
        /\ Range(Verify) = {Check, Lint, Security, race, Coverage, Vendor, offline}
    BY <1>1, <1>2, <1>3 DEF Range
  <1> QED BY <1>4 DEF race, offline

(* The gates with a profile and with a go.sum are well-formed. *)
LEMMA CoverageWellFormed == WellFormed(Coverage)
  <1>1. Len(Coverage) = 7 /\ Coverage[3] = "close-profile"
    BY DEF Coverage
  <1>2. \A i \in 1 .. 7 : /\ Coverage[i] = "create-profile" => i = 2
                          /\ Coverage[i] # "read-go.sum"
    BY DEF Coverage
  <1> QED BY <1>1, <1>2 DEF WellFormed

(* The same for the graph. *)
LEMMA GraphWellFormed == WellFormed(Graph)
  <1>1. Len(Graph) = 7
    BY DEF Graph
  <1>2. \A i \in 1 .. 7 : /\ Graph[i] # "create-profile"
                          /\ Graph[i] = "read-go.sum" => i = 5
    BY DEF Graph
  <1> QED BY <1>1, <1>2 DEF WellFormed

(* A mode with one short gate. *)
LEMMA SingleGate ==
    ASSUME NEW gate \in Seq(AllSteps), WellFormed(gate)
    PROVE  GateList(<<gate>>) /\ StepsOf(<<gate>>) = Range(gate)
  <1>1. <<gate>> \in Seq(Seq(AllSteps)) /\ Range(<<gate>>) = {gate}
    BY ShortGates
  <1> QED BY <1>1 DEF GateList, StepsOf

(* verify: every promised step is in one of its gates, and none of them    *)
(* skips.                                                                  *)
LEMMA VerifyPromises ==
    /\ GateList(Verify)
    /\ Promised \subseteq StepsOf(Verify)
    /\ StepsOf(Verify) \cap Skipping = {}
  <1>1. Range(<<"race">>) = {"race"} /\ <<"race">> \in Seq(AllSteps)
    BY ShortGates DEF AllSteps
  <1>2. /\ Range(<<"offline-test", "offline-build">>) = {"offline-test", "offline-build"}
        /\ <<"offline-test", "offline-build">> \in Seq(AllSteps)
    BY ShortGates DEF AllSteps
  <1>3. StepsOf(Verify) =
          Range(Check) \cup Range(Lint) \cup Range(Security) \cup {"race"} \cup
          Range(Coverage) \cup Range(Vendor) \cup {"offline-test", "offline-build"}
    BY <1>1, <1>2, VerifyGates DEF StepsOf
  <1>4. Promised \subseteq StepsOf(Verify)
    BY <1>3, CheckSteps, CheckContractsSteps, FormatSteps, LintSteps,
       SecuritySteps, CoverageSteps, VendorSteps
    DEF Promised
  <1>5. StepsOf(Verify) \cap Skipping = {}
    BY <1>3, CheckSteps, CheckContractsSteps, FormatSteps, LintSteps,
       SecuritySteps, CoverageSteps, VendorSteps
    DEF Skipping
  <1>6. \A gate \in Range(Verify) : WellFormed(gate)
    <2>1. WellFormed(Check)
      BY WellFormedPlain, CheckSteps, CheckContractsSteps, FormatSteps
    <2>2. WellFormed(Lint) /\ WellFormed(Security) /\ WellFormed(Vendor)
      BY WellFormedPlain, LintSteps, SecuritySteps, VendorSteps
    <2>3. WellFormed(<<"race">>) /\ WellFormed(<<"offline-test", "offline-build">>)
      BY <1>1, <1>2, WellFormedPlain
    <2> QED BY <2>1, <2>2, <2>3, CoverageWellFormed, VerifyGates
  <1> QED BY <1>4, <1>5, <1>6, VerifyGates DEF GateList

(* The gates of every mode. *)
LEMMA ModeGates ==
    ASSUME NEW m
    PROVE  /\ GateList(Gates(m))
           /\ Required(m) \subseteq StepsOf(Gates(m))
           /\ Required(m) # {} => StepsOf(Gates(m)) \cap Skipping = {}
  <1> DEFINE first == <<<<"root", "version">>>>
             rest == CASE m = "fast" -> <<<<"release-metadata", "test">>>>
                       [] m = "fmt" -> <<Format>>
                       [] m = "check" -> <<Check>>
                       [] m = "benchmark" -> <<<<"release-metadata", "benchmark">>>>
                       [] m = "verify" -> Verify
                       [] m = "tools-bootstrap" -> <<<<"before">>, Graph, Graph>>
                       [] OTHER -> <<<<"mode">>>>
  <1>1. Gates(m) = first \o rest
    BY DEF Gates
  <1>2. GateList(first) /\ StepsOf(first) = {"root", "version"}
    <2>1. /\ <<"root", "version">> \in Seq(AllSteps)
          /\ Range(<<"root", "version">>) = {"root", "version"}
      BY ShortGates DEF AllSteps
    <2>2. WellFormed(<<"root", "version">>)
      BY <2>1, WellFormedPlain
    <2> QED BY <2>1, <2>2, SingleGate
  <1>3. /\ GateList(rest) /\ Required(m) \subseteq StepsOf(rest)
        /\ Required(m) # {} => StepsOf(rest) \cap Skipping = {}
    <2> DEFINE fast == <<"release-metadata", "test">>
               bench == <<"release-metadata", "benchmark">>
               start == <<"before">>
               other == <<"mode">>
    <2>1. CASE m = "fast"
      <3>1. fast \in Seq(AllSteps) /\ Range(fast) = {"release-metadata", "test"}
        BY ShortGates, CheckContractsSteps DEF AllSteps
      <3>2. WellFormed(fast) BY <3>1, WellFormedPlain
      <3>3. rest = <<fast>> BY <2>1
      <3> HIDE DEF fast, rest
      <3> QED BY <2>1, <3>1, <3>2, <3>3, SingleGate DEF Required, Named
    <2>2. CASE m = "fmt"
      <3>1. WellFormed(Format) BY FormatSteps, WellFormedPlain
      <3>2. rest = <<Format>> BY <2>2
      <3> HIDE DEF rest
      <3> QED BY <2>2, <3>1, <3>2, FormatSteps, SingleGate DEF Required, Named
    <2>3. CASE m = "check"
      <3>1. WellFormed(Check)
        BY WellFormedPlain, CheckSteps, CheckContractsSteps, FormatSteps
      <3>2. rest = <<Check>> BY <2>3
      <3> HIDE DEF rest
      <3> QED BY <2>3, <3>1, <3>2, CheckSteps, SingleGate DEF Required, Named
    <2>4. CASE m = "benchmark"
      <3>1. bench \in Seq(AllSteps) /\ Range(bench) = {"release-metadata", "benchmark"}
        BY ShortGates, CheckContractsSteps DEF AllSteps
      <3>2. WellFormed(bench) BY <3>1, WellFormedPlain
      <3>3. rest = <<bench>> BY <2>4
      <3> HIDE DEF bench, rest
      <3> QED BY <2>4, <3>1, <3>2, <3>3, SingleGate DEF Required, Named
    <2>5. CASE m = "verify"
      <3>1. rest = Verify BY <2>5
      <3> HIDE DEF rest
      <3> QED BY <2>5, <3>1, VerifyPromises DEF Required
    <2>6. CASE m = "tools-bootstrap"
      <3>1. start \in Seq(AllSteps) /\ Range(start) = {"before"}
        BY ShortGates DEF AllSteps
      <3>2. WellFormed(start) BY <3>1, WellFormedPlain
      <3>3. rest = <<start, Graph, Graph>> BY <2>6
      <3> HIDE DEF start, rest
      <3>4. rest \in Seq(Seq(AllSteps)) /\ Range(rest) = {start, Graph}
        BY <3>1, <3>3, GraphSteps DEF Range
      <3> QED
        BY <2>6, <3>2, <3>4, GraphWellFormed DEF GateList, Required, Named
    <2>7. CASE m \notin Named
      <3>1. other \in Seq(AllSteps) /\ Range(other) = {"mode"}
        BY ShortGates DEF AllSteps
      <3>2. WellFormed(other) BY <3>1, WellFormedPlain
      <3>3. rest = <<other>> BY <2>7 DEF Named
      <3> HIDE DEF other, rest
      <3>4. Required(m) = {"mode"} BY <2>7 DEF Required, Named
      <3> QED BY <3>1, <3>2, <3>3, <3>4, SingleGate DEF Skipping
    <2> QED BY <2>1, <2>2, <2>3, <2>4, <2>5, <2>6, <2>7 DEF Named
  <1> HIDE DEF first, rest
  <1>4. /\ first \o rest \in Seq(Seq(AllSteps))
        /\ Range(first \o rest) = Range(first) \cup Range(rest)
    BY <1>2, <1>3, RangeConcat DEF GateList
  <1>5. GateList(first \o rest)
    BY <1>2, <1>3, <1>4 DEF GateList
  <1>6. StepsOf(first \o rest) = StepsOf(first) \cup StepsOf(rest)
    BY <1>4 DEF StepsOf
  <1> QED BY <1>1, <1>2, <1>3, <1>5, <1>6 DEF Skipping

-----------------------------------------------------------------------------
(***************************************************************************)
(* The environment of a child process.                                     *)
(***************************************************************************)

(* commandEnvironment replaces what it forces, in every spelling, and      *)
(* leaves out what is secret.                                              *)
LEMMA OfflineEnvironment ==
    ASSUME NEW step
    PROVE  \A e \in CommandEnvironment(step) :
              /\ Upper[e[1]] \notin Sensitive
              /\ Upper[e[1]] = "GOPROXY" /\ mode # "tools-bootstrap" => e[2] = "off"
  <1> DEFINE forced == Forced(networkAllowed(mode), step)
  <1>1. ASSUME NEW e \in forced
        PROVE  /\ e[1] \in {"GOWORK", "GOTOOLCHAIN", "GOFLAGS", "GOPROXY", "GOAUTH",
                           "GOPRIVATE", "GONOPROXY", "GONOSUMDB", "GOSUMDB"}
               /\ e[1] = "GOPROXY" =>
                     e[2] = IF networkAllowed(mode) THEN "proxy.golang.org" ELSE "off"
    <2> DEFINE proxy == IF networkAllowed(mode) THEN "proxy.golang.org" ELSE "off"
               flags == IF step \in {"benchmark", "offline-test", "offline-build"}
                        THEN "vendor" ELSE ""
               empty == ""
    <2>1. \/ e = <<"GOWORK", "off">> \/ e = <<"GOTOOLCHAIN", "local">>
          \/ e = <<"GOFLAGS", flags>> \/ e = <<"GOPROXY", proxy>>
          \/ e = <<"GOAUTH", "off">> \/ e = <<"GOPRIVATE", empty>>
          \/ e = <<"GONOPROXY", empty>> \/ e = <<"GONOSUMDB", empty>>
          \/ e = <<"GOSUMDB", "sum.golang.org">> \/ e = <<"GOSUMDB", "off">>
      BY Zenon DEF Forced
    <2> HIDE DEF proxy, flags, empty
    <2>2. /\ e[1] \in {"GOWORK", "GOTOOLCHAIN", "GOFLAGS", "GOPROXY", "GOAUTH",
                       "GOPRIVATE", "GONOPROXY", "GONOSUMDB", "GOSUMDB"}
          /\ e[1] = "GOPROXY" => e[2] = proxy
      BY <2>1
    <2> QED BY <2>2 DEF proxy
  <1>2. \E f \in forced : f[1] = "GOPROXY"
    <2> DEFINE f == <<"GOPROXY", IF networkAllowed(mode)
                                THEN "proxy.golang.org" ELSE "off">>
    <2>1. f \in forced BY DEF Forced
    <2>2. f[1] = "GOPROXY" OBVIOUS
    <2> QED BY <2>1, <2>2
  <1>3. CommandEnvironment(step) = Inherited(forced) \cup forced
    BY DEF CommandEnvironment
  <1> HIDE DEF forced
  <1>4. \A e \in forced : /\ Upper[e[1]] = e[1] /\ e[1] \notin Sensitive
                          /\ e[1] = "GOPROXY" /\ mode # "tools-bootstrap" =>
                                e[2] = "off"
    BY <1>1, KeysAssumption DEF networkAllowed
  <1> QED BY <1>2, <1>3, <1>4 DEF Inherited

(* So every child is offline, unless the mode is the bootstrap. *)
LEMMA SpawnOffline ==
    ASSUME OfflineUnlessBootstrap, NEW step, Spawn(step), mode' = mode
    PROVE  OfflineUnlessBootstrap'
  BY OfflineEnvironment DEF Spawn, OfflineUnlessBootstrap

-----------------------------------------------------------------------------
(***************************************************************************)
(* Every step preserves the invariant.                                     *)
(***************************************************************************)

(* The empty sequence has no elements, and is well-formed. *)
LEMMA EmptyGate ==
    /\ \A S : <<>> \in Seq(S)
    /\ Range(<<>>) = {} /\ WellFormed(<<>>)
  BY DEF Range, WellFormed

(* A gate is entered: its steps were pending, and they still are. *)
LEMMA EnterGateStep == ASSUME Inv, EnterGate PROVE Inv'
  <1> USE DEF Inv
  <1>1. /\ exit = None /\ steps = <<>> /\ deferred = <<>> /\ errors = {}
        /\ gates # <<>> /\ steps' = Head(gates) /\ gates' = Tail(gates)
        /\ UNCHANGED <<mode, host, deferred, passed, errors, temporaries, tree,
                       before, after, child, expired, exit>>
    BY DEF EnterGate
  <1>2. /\ Head(gates) \in Seq(AllSteps) /\ Tail(gates) \in Seq(Seq(AllSteps))
        /\ Range(gates) = {Head(gates)} \cup Range(Tail(gates))
    BY <1>1, RangeHeadTail DEF TypeOK, GateList
  <1>3. TypeOK'
    BY <1>1, <1>2 DEF TypeOK, GateList
  <1>4. Pending' = Pending
    BY <1>1, <1>2, EmptyGate DEF Pending, StepsOf
  <1>5. StepInv' BY <1>1, <1>4 DEF StepInv
  <1>6. after = None
    BY <1>1 DEF EndInv, GatesDone
  <1>7. temporaries = {}
    BY <1>1, EmptyGate DEF TemporaryInv
  <1>8. TemporaryInv' BY <1>1, <1>7 DEF TemporaryInv
  <1>9. EndInv' BY <1>1, <1>6, NoneAssumption DEF EndInv
  <1>10. OfflineUnlessBootstrap' BY <1>1 DEF OfflineUnlessBootstrap
  <1> QED BY <1>3, <1>5, <1>8, <1>9, <1>10

(* What a step leaves of its gate. *)
LEMMA SkipsRest ==
    ASSUME TypeOK, steps # <<>>, NEW rest \in Skips(Head(steps), Tail(steps))
    PROVE  /\ rest \in Seq(AllSteps) /\ WellFormed(rest)
           /\ Range(rest) \subseteq Range(steps)
           /\ Head(steps) \notin Skipping =>
                 rest = Tail(steps) /\ Range(steps) = {Head(steps)} \cup Range(rest)
           /\ Head(steps) = "create-profile" =>
                 rest # <<>> /\ Head(rest) = "close-profile"
  <1>1. /\ Tail(steps) \in Seq(AllSteps)
        /\ Range(steps) = {Head(steps)} \cup Range(Tail(steps))
    BY RangeHeadTail DEF TypeOK
  <1>2. /\ WellFormed(Tail(steps))
        /\ Head(steps) = "create-profile" =>
              Tail(steps) # <<>> /\ Head(Tail(steps)) = "close-profile"
        /\ Head(steps) = "read-go.sum" => Tail(steps) # <<>>
    BY WellFormedTail DEF TypeOK
  <1>3. \/ rest = Tail(steps)
        \/ rest = <<>> /\ Head(steps) = "read-go.mod"
        \/ rest = Tail(Tail(steps)) /\ Head(steps) = "read-go.sum"
    BY DEF Skips
  <1>4. CASE rest = Tail(steps)
    BY <1>1, <1>2, <1>4
  <1>5. CASE rest = <<>> /\ Head(steps) = "read-go.mod"
    BY <1>5, EmptyGate DEF Skipping
  <1>6. CASE rest = Tail(Tail(steps)) /\ Head(steps) = "read-go.sum"
    <2>1. /\ rest \in Seq(AllSteps)
          /\ Range(Tail(steps)) = {Head(Tail(steps))} \cup Range(rest)
      BY <1>1, <1>2, <1>6, RangeHeadTail
    <2>2. WellFormed(rest)
      BY <1>1, <1>2, <1>6, WellFormedTail
    <2> QED BY <1>1, <1>6, <2>1, <2>2 DEF Skipping
  <1> QED BY <1>3, <1>4, <1>5, <1>6

(* The functions a step defers. *)
LEMMA DefersType ==
    ASSUME NEW step
    PROVE  /\ Defers(step) \in Seq(Cleanups)
           /\ step = "close-profile" => Range(Defers(step)) = {"remove-profile"}
           /\ step = "create-vendor" => Range(Defers(step)) = {"remove-vendor"}
           /\ step = "create-graph" => Range(Defers(step)) = {"remove-graph"}
  <1>1. CASE step = "close-profile" BY <1>1, ShortGates DEF Defers, Cleanups
  <1>2. CASE step = "create-vendor" BY <1>2, ShortGates DEF Defers, Cleanups
  <1>3. CASE step = "create-graph" BY <1>3, ShortGates DEF Defers, Cleanups
  <1>4. CASE step = "open-graph" BY <1>4, ShortGates DEF Defers, Cleanups
  <1>5. CASE step \notin {"close-profile", "create-vendor", "create-graph", "open-graph"}
    BY <1>5 DEF Defers
  <1> QED BY <1>1, <1>2, <1>3, <1>4, <1>5

(* A step succeeds: it has passed, and what it created is looked after. *)
LEMMA SucceedStep == ASSUME Inv, Succeed PROVE Inv'
  <1> USE DEF Inv
  <1> DEFINE h == Head(steps)
  <1>1. /\ steps # <<>> /\ h # "mode"
        /\ passed' = passed \cup {h}
        /\ steps' \in Skips(h, Tail(steps))
        /\ deferred' = Defers(h) \o deferred
        /\ temporaries' = temporaries \cup Resource(h)
        /\ before' = IF h = "before" THEN sourceTreeDigests ELSE before
        /\ tree' \in Edits(h) /\ Spawn(h)
        /\ UNCHANGED <<mode, host, gates, errors, after, expired, exit>>
    BY DEF Succeed, plan
  <1>2. /\ steps' \in Seq(AllSteps) /\ WellFormed(steps')
        /\ Range(steps') \subseteq Range(steps)
        /\ h \notin Skipping => Range(steps) = {h} \cup Range(steps')
        /\ h = "create-profile" => steps' # <<>> /\ Head(steps') = "close-profile"
    BY <1>1, SkipsRest
  <1>3. /\ deferred' \in Seq(Cleanups)
        /\ Range(deferred') = Range(Defers(h)) \cup Range(deferred)
    BY <1>1, DefersType, RangeConcat DEF TypeOK
  <1>4. h \in Range(steps)
    BY <1>1, RangeHeadTail DEF TypeOK
  <1> HIDE DEF h
  <1>5. tree' \in Nat /\ before' \in Nat \cup {None}
    BY <1>1 DEF TypeOK, Edits, sourceTreeDigests
  <1>6. TypeOK'
    BY <1>1, <1>2, <1>3, <1>5 DEF TypeOK
  <1>7. StepInv'
    <2>1. Pending' \subseteq Pending
      BY <1>1, <1>2 DEF Pending
    <2>2. CASE Required(mode) = {}
      BY <1>1, <2>1, <2>2 DEF StepInv
    <2>3. CASE Required(mode) # {}
      <3>1. h \notin Skipping
        BY <1>4, <2>3 DEF StepInv, Pending
      <3>2. Pending = {h} \cup Pending'
        BY <1>1, <1>2, <3>1 DEF Pending
      <3> QED BY <1>1, <2>1, <3>2 DEF StepInv
    <2> QED BY <2>2, <2>3
  <1>8. TemporaryInv'
    <2>1. /\ h = "create-profile" => Resource(h) = {"profile"}
          /\ h = "create-vendor" => Resource(h) = {"vendor"}
          /\ h = "create-graph" => Resource(h) = {"graph"}
          /\ h \notin {"create-profile", "create-vendor", "create-graph"} =>
                Resource(h) = {}
      BY DEF Resource
    <2>2. temporaries' \subseteq {"profile", "vendor", "graph"}
      BY <1>1, <2>1 DEF TemporaryInv
    <2>3. ("profile" \in temporaries =>
              \/ steps # <<>> /\ Head(steps) = "close-profile"
              \/ "remove-profile" \in Range(deferred)
              \/ errors \cap {"remove-profile", "close-profile"} # {})'
      <3>1. CASE h = "create-profile"
        BY <1>2, <3>1
      <3>2. CASE h # "create-profile"
        <4>1. "profile" \in temporaries' => "profile" \in temporaries
          BY <1>1, <2>1, <3>2
        <4>2. h = "close-profile" => "remove-profile" \in Range(deferred')
          BY <1>3, DefersType
        <4> QED BY <1>1, <1>3, <4>1, <4>2 DEF TemporaryInv, h
      <3> QED BY <3>1, <3>2
    <2>4. "vendor" \in temporaries' => "remove-vendor" \in Range(deferred') \cup errors'
      BY <1>1, <1>3, <2>1, DefersType DEF TemporaryInv
    <2>5. "graph" \in temporaries' => "remove-graph" \in Range(deferred') \cup errors'
      BY <1>1, <1>3, <2>1, DefersType DEF TemporaryInv
    <2> QED BY <2>2, <2>3, <2>4, <2>5 DEF TemporaryInv
  <1>9. after = None /\ exit = None
    BY <1>1 DEF EndInv, GatesDone
  <1>10. EndInv' BY <1>1, <1>9, NoneAssumption DEF EndInv
  <1>11. OfflineUnlessBootstrap' BY <1>1, SpawnOffline
  <1> QED BY <1>6, <1>7, <1>8, <1>10, <1>11

(* A step fails: nothing else of its gate is taken. *)
LEMMA FailStepStep == ASSUME Inv, FailStep PROVE Inv'
  <1> USE DEF Inv
  <1>1. /\ steps # <<>> /\ errors' = errors \cup {Head(steps)}
        /\ steps' = <<>>
        /\ tree' \in Edits(Head(steps)) /\ Spawn(Head(steps))
        /\ UNCHANGED <<mode, host, gates, deferred, passed, temporaries, before,
                       after, expired, exit>>
    BY DEF FailStep, plan
  <1>2. tree' \in Nat BY <1>1 DEF TypeOK, Edits
  <1>3. TypeOK' BY <1>1, <1>2, EmptyGate DEF TypeOK
  <1>4. Pending' \subseteq Pending BY <1>1, EmptyGate DEF Pending
  <1>5. StepInv' BY <1>1, <1>4 DEF StepInv
  <1>6. TemporaryInv' BY <1>1 DEF TemporaryInv
  <1>7. after = None /\ exit = None
    BY <1>1 DEF EndInv, GatesDone
  <1>8. EndInv' BY <1>1, <1>7, NoneAssumption DEF EndInv
  <1>9. OfflineUnlessBootstrap' BY <1>1, SpawnOffline
  <1> QED BY <1>3, <1>5, <1>6, <1>8, <1>9

(* A deferred function removes what it is there for, or makes the run fail. *)
LEMMA RunDeferredStep == ASSUME Inv, RunDeferred PROVE Inv'
  <1> USE DEF Inv
  <1>1. /\ steps = <<>> /\ deferred # <<>> /\ deferred' = Tail(deferred)
        /\ \/ errors' = errors /\ temporaries' = temporaries \ Removed(Head(deferred))
           \/ errors' = errors \cup {Head(deferred)} /\ temporaries' = temporaries
        /\ UNCHANGED <<mode, host, gates, steps, passed, tree, before, after,
                       child, expired, exit>>
    BY DEF RunDeferred, Join, plan
  <1>2. /\ Tail(deferred) \in Seq(Cleanups)
        /\ Range(deferred) = {Head(deferred)} \cup Range(deferred')
    BY <1>1, RangeHeadTail DEF TypeOK
  <1>3. TypeOK' BY <1>1, <1>2 DEF TypeOK
  <1>4. Pending' = Pending BY <1>1 DEF Pending
  <1>5. StepInv' BY <1>1, <1>4 DEF StepInv
  <1>6. TemporaryInv'
    <2>1. CASE errors' = errors \cup {Head(deferred)} /\ temporaries' = temporaries
      BY <1>1, <1>2, <2>1 DEF TemporaryInv
    <2>2. CASE errors' = errors /\ temporaries' = temporaries \ Removed(Head(deferred))
      <3>1. /\ Head(deferred) = "remove-profile" => "profile" \notin temporaries'
            /\ Head(deferred) = "remove-vendor" => "vendor" \notin temporaries'
            /\ Head(deferred) = "remove-graph" => "graph" \notin temporaries'
            /\ temporaries' \subseteq temporaries
        BY <2>2 DEF Removed
      <3> QED BY <1>1, <1>2, <2>2, <3>1 DEF TemporaryInv
    <2> QED BY <1>1, <2>1, <2>2
  <1>7. after = None /\ exit = None
    BY <1>1 DEF EndInv, GatesDone
  <1>8. EndInv' BY <1>1, <1>7, NoneAssumption DEF EndInv
  <1>9. OfflineUnlessBootstrap' BY <1>1 DEF OfflineUnlessBootstrap
  <1> QED BY <1>3, <1>5, <1>6, <1>8, <1>9

(* The second snapshot is compared with the first. *)
LEMMA CompareSnapshotsStep == ASSUME Inv, CompareSnapshots PROVE Inv'
  <1> USE DEF Inv
  <1>1. /\ exit = None /\ GatesDone /\ after' = tree
        /\ \/ errors' = errors \cup (IF tree = before THEN {} ELSE {"modified"})
           \/ errors' = errors \cup {"after"}
        /\ UNCHANGED <<mode, host, gates, steps, deferred, passed, temporaries,
                       tree, before, child, expired, exit>>
    BY DEF CompareSnapshots, sourceTreeDigests, plan
  <1>2. errors \subseteq errors'
        /\ (tree # before => {"modified", "after"} \cap errors' # {})
    BY <1>1
  <1>3. TypeOK' BY <1>1 DEF TypeOK
  <1>4. Pending' = Pending BY <1>1 DEF Pending
  <1>5. StepInv' BY <1>1, <1>2, <1>4 DEF StepInv
  <1>6. TemporaryInv' BY <1>1, <1>2 DEF TemporaryInv
  <1>7. GatesDone' BY <1>1, <1>2 DEF GatesDone
  <1>8. EndInv' BY <1>1, <1>2, <1>7, NoneAssumption DEF EndInv
  <1>9. OfflineUnlessBootstrap' BY <1>1 DEF OfflineUnlessBootstrap
  <1> QED BY <1>3, <1>5, <1>6, <1>8, <1>9

(* The run ends. *)
LEMMA ExitStep == ASSUME Inv, Exit PROVE Inv'
  <1> USE DEF Inv, Exit, plan
  <1>1. TypeOK' BY DEF TypeOK
  <1>2. Pending' = Pending BY DEF Pending
  <1>3. StepInv' BY <1>2 DEF StepInv
  <1>4. TemporaryInv' BY DEF TemporaryInv
  <1>5. EndInv' BY DEF EndInv, GatesDone, Compares
  <1>6. OfflineUnlessBootstrap' BY DEF OfflineUnlessBootstrap
  <1> QED BY <1>1, <1>3, <1>4, <1>5, <1>6

(* What leaves everything but the deadline alone preserves Inv. *)
LEMMA Untouching ==
    ASSUME Inv, UNCHANGED <<mode, host, gates, steps, deferred, passed, errors,
                            temporaries, tree, before, after, child, exit>>
    PROVE  Inv'
  <1> USE DEF Inv
  <1>1. TypeOK' BY DEF TypeOK
  <1>2. Pending' = Pending BY DEF Pending
  <1>3. StepInv' BY <1>2 DEF StepInv
  <1>4. TemporaryInv' BY DEF TemporaryInv
  <1>5. EndInv' BY DEF EndInv, GatesDone, Compares
  <1>6. OfflineUnlessBootstrap' BY DEF OfflineUnlessBootstrap
  <1> QED BY <1>1, <1>3, <1>4, <1>5, <1>6

(* Inv holds before the first gate. *)
LEMMA InitInv == Init => Inv
  <1> SUFFICES ASSUME Init PROVE Inv
    OBVIOUS
  <1>1. /\ gates = Gates(mode) /\ steps = <<>> /\ deferred = <<>>
        /\ passed = {} /\ errors = {} /\ temporaries = {}
        /\ tree = 0 /\ before = None /\ after = None /\ child = {}
        /\ exit = None
    BY DEF Init
  <1>2. /\ GateList(gates) /\ Required(mode) \subseteq StepsOf(gates)
        /\ Required(mode) # {} => StepsOf(gates) \cap Skipping = {}
    BY <1>1, ModeGates
  <1>3. TypeOK BY <1>1, <1>2, EmptyGate DEF TypeOK
  <1>4. Pending = StepsOf(gates) BY <1>1, EmptyGate DEF Pending
  <1>5. StepInv BY <1>1, <1>2, <1>4 DEF StepInv
  <1>6. TemporaryInv BY <1>1 DEF TemporaryInv
  <1>7. EndInv BY <1>1, NoneAssumption DEF EndInv
  <1>8. OfflineUnlessBootstrap BY <1>1 DEF OfflineUnlessBootstrap
  <1> QED BY <1>3, <1>5, <1>6, <1>7, <1>8 DEF Inv

(* Inv holds in every state of a run. *)
THEOREM Invariance == Spec => []Inv
  <1>1. Inv /\ [Next]_vars => Inv'
    <2>1. Inv /\ Expire => Inv'
      BY Untouching DEF Expire, plan
    <2>2. Inv /\ UNCHANGED vars => Inv'
      BY Untouching DEF vars
    <2> QED
      BY <2>1, <2>2, EnterGateStep, SucceedStep, FailStepStep, RunDeferredStep,
         CompareSnapshotsStep, ExitStep
      DEF Next
  <1> QED BY <1>1, InitInv, PTL DEF Spec

-----------------------------------------------------------------------------
(***************************************************************************)
(* The properties of the run.                                              *)
(***************************************************************************)

(* A run that ends with 0 had no error, and a verify that does has passed  *)
(* every step it promises.                                                 *)
THEOREM EarnedSuccess == Spec => []SuccessIsEarned
  <1>1. Inv => SuccessIsEarned
    <2> SUFFICES ASSUME Inv, exit = 0
                 PROVE  errors = {} /\ Required(mode) \subseteq passed
                        /\ "mode" \notin passed
      BY DEF SuccessIsEarned, Required, Named, Promised
    <2>1. errors = {} /\ GatesDone
      BY NoneAssumption DEF Inv, EndInv
    <2>2. steps = <<>> /\ gates = <<>>
      BY <2>1 DEF GatesDone
    <2>3. Pending = {}
      BY <2>2, EmptyGate DEF Pending, StepsOf
    <2> QED BY <2>1, <2>3 DEF Inv, StepInv
  <1> QED BY <1>1, Invariance, PTL

(* A repository that was found changed is reported. *)
THEOREM ReportedChange == Spec => []ChangeIsReported
  <1>1. Inv => ChangeIsReported
    BY DEF Inv, EndInv, Compares, ChangeIsReported
  <1> QED BY <1>1, Invariance, PTL

(* A temporary file or directory is left only by a run that fails for it. *)
THEOREM RemovedTemporaries == Spec => []TemporariesAreRemoved
  <1>1. Inv => TemporariesAreRemoved
    <2> SUFFICES ASSUME Inv, exit # None, temporaries # {}
                 PROVE  /\ exit = 1
                        /\ errors \cap {"remove-profile", "remove-vendor",
                                        "remove-graph", "close-profile"} # {}
      BY DEF TemporariesAreRemoved
    <2>1. steps = <<>> /\ deferred = <<>>
      BY DEF Inv, EndInv, GatesDone
    <2>2. errors \cap {"remove-profile", "remove-vendor", "remove-graph",
                       "close-profile"} # {}
      BY <2>1, EmptyGate DEF Inv, TemporaryInv
    <2> QED BY <2>2 DEF Inv, TypeOK, EndInv
  <1> QED BY <1>1, Invariance, PTL

(* No child of any other mode than the bootstrap may reach the network,    *)
(* and none of any mode gets a secret, whatever the host's environment.    *)
THEOREM OfflineChildren == Spec => []OfflineUnlessBootstrap
  BY Invariance, PTL DEF Inv

=============================================================================
