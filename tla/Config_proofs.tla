--------------------------- MODULE Config_proofs ---------------------------
(***************************************************************************)
(* Proofs about the configuration: for every set of environment names,     *)
(* every size of a payload and every number of slices and writes.          *)
(***************************************************************************)
EXTENDS Config, FiniteSetTheorems, TLAPS

-----------------------------------------------------------------------------
(***************************************************************************)
(* What the encoding of an answer costs.                                   *)
(***************************************************************************)

(* Base64 spends four bytes on three, and rounds up. *)
LEMMA Base64Cost ==
    ASSUME NEW n \in Nat
    PROVE  Base64(n) \in Nat /\ 3 * Base64(n) <= 4 * n + 8
  BY DEF Base64

(* An accepted bound is at most half a payload. *)
LEMMA HalfPayload == maximumBytes \in Nat /\ 2 * maximumBytes <= MaximumPayloadBytes
  BY EnvelopeAssumption DEF maximumBytes

(* Within an accepted bound one layer of base64 fits into a payload: both  *)
(* streams may round up, and 3 * Envelope + 16 pays for it.                *)
LEMMA OneLayerFits ==
    ASSUME NEW kind, NEW bound \in 1 .. maximumBytes, NEW o \in Outputs(kind, bound)
    PROVE  Fits(o, 1)
  <1>1. o.first \in Nat /\ o.second \in Nat /\ o.first + o.second <= maximumBytes
    BY HalfPayload DEF Outputs
  <1> DEFINE one == Base64(o.first)
             two == Base64(o.second)
  <1>2. /\ one \in Nat /\ 3 * one <= 4 * o.first + 8
        /\ two \in Nat /\ 3 * two <= 4 * o.second + 8
    BY <1>1, Base64Cost
  <1> HIDE DEF one, two
  <1>3. Envelope + one + two <= MaximumPayloadBytes
    BY <1>1, <1>2, HalfPayload, EnvelopeAssumption
  <1> QED BY <1>3 DEF Fits, one, two

(* So every output is delivered, as text or under one layer of base64, and *)
(* only text goes out as text.                                             *)
LEMMA OutputDelivered ==
    ASSUME NEW kind, NEW bound \in 1 .. maximumBytes, NEW o \in Outputs(kind, bound)
    PROVE  /\ Delivered(o)
           /\ \/ Content(o) = [encoding |-> "utf-8", layers |-> 0] /\ o.text
              \/ Content(o) = [encoding |-> "base64", layers |-> 1]
  <1>1. o.text \in BOOLEAN /\ o.fits \in BOOLEAN /\ Fits(o, 1)
    BY OneLayerFits DEF Outputs
  <1>2. CASE ~o.text
    <2>1. Encoded(o) = [encoding |-> "base64", layers |-> 1]
      BY <1>2 DEF Encoded
    <2> QED BY <1>1, <2>1 DEF Content, Delivered
  <1>3. CASE o.text /\ o.fits
    <2>1. Encoded(o) = [encoding |-> "utf-8", layers |-> 0] /\ Fits(o, 0)
      BY <1>3 DEF Encoded, Fits
    <2> QED BY <1>3, <2>1 DEF Content, Delivered
  <1>4. CASE o.text /\ ~o.fits
    <2>1. Encoded(o) = [encoding |-> "utf-8", layers |-> 0] /\ ~Fits(o, 0)
      BY <1>4 DEF Encoded, Fits
    <2>2. Content(o) = [encoding |-> "base64", layers |-> 1]
      BY <2>1 DEF Content, Retries, Fallback
    <2> QED BY <1>1, <2>2 DEF Delivered
  <1> QED BY <1>1, <1>2, <1>3, <1>4

-----------------------------------------------------------------------------
(***************************************************************************)
(* The inductive invariant.                                                *)
(***************************************************************************)
Configs == [absolute : BOOLEAN, bytes : [Bounds -> Int], timeout : Int,
            names : 1 .. MaxSlices]

(* The arrays are created in order; the caller reaches some of them. *)
SliceInv ==
    /\ slices \in [1 .. MaxSlices -> (SUBSET Names) \cup {None}]
    /\ \E n \in Nat : Created = 1 .. n
    /\ reachable \subseteq Created
    /\ windows \in BOOLEAN

(* The names of an allowlist in normal form. *)
Normal(names) == windows => \A n \in names : Upper[n] = n

(* A configuration that was accepted: it is within the bounds, and its     *)
(* allowlist is in normal form and in an array nobody else reaches.        *)
Accepted(c) ==
    /\ c \in Configs
    /\ \A b \in Bounds : c.bytes[b] \in 1 .. maximumBytes
    /\ c.names \in Created \ reachable
    /\ Normal(slices[c.names])

Inv ==
    /\ SliceInv
    /\ config \in Configs /\ config.names \in reachable
    /\ suite # None => Accepted(suite)
    /\ tool # None => Accepted(tool)
    /\ AllowlistIsUsable
    /\ EveryOutputIsDelivered

-----------------------------------------------------------------------------
(***************************************************************************)
(* New arrays, and normal forms.                                           *)
(***************************************************************************)

(* A new array is one that did not exist, and creating it changes no other. *)
LEMMA AllocatedSlice ==
    ASSUME SliceInv, NEW names \in SUBSET Names, Allocate(names)
    PROVE  /\ NewSlice \in (1 .. MaxSlices) \ Created
           /\ slices' \in [1 .. MaxSlices -> (SUBSET Names) \cup {None}]
           /\ slices'[NewSlice] = names
           /\ \A i \in Created : slices'[i] = slices[i]
           /\ Created' = Created \cup {NewSlice}
           /\ \E n \in Nat : Created' = 1 .. n
  <1>1. PICK n \in Nat : Created = 1 .. n
    BY DEF SliceInv
  <1>2. Cardinality(Created) = n
    BY <1>1, FS_Interval
  <1>3. NewSlice = n + 1
    BY <1>2 DEF NewSlice
  <1>4. NewSlice \in (1 .. MaxSlices) \ Created
    BY <1>1, <1>3, ConfigAssumption DEF Allocate
  <1>5. slices' = [slices EXCEPT ![NewSlice] = names]
    BY DEF Allocate
  <1>6. slices \in [1 .. MaxSlices -> (SUBSET Names) \cup {None}]
    BY DEF SliceInv
  <1>7. names # None
    BY ConfigAssumption
  <1> HIDE DEF NewSlice
  <1>8. /\ slices' \in [1 .. MaxSlices -> (SUBSET Names) \cup {None}]
        /\ slices'[NewSlice] = names
        /\ \A i \in 1 .. MaxSlices : i # NewSlice => slices'[i] = slices[i]
    BY <1>4, <1>5, <1>6
  <1>9. Created' = Created \cup {NewSlice}
    BY <1>4, <1>6, <1>7, <1>8 DEF Created
  <1>10. \A i \in Created : slices'[i] = slices[i]
    BY <1>4, <1>6, <1>8 DEF Created
  <1>11. Created' = 1 .. (n + 1)
    BY <1>1, <1>3, <1>9
  <1> QED BY <1>4, <1>8, <1>9, <1>10, <1>11

(* An array that exists holds names. *)
LEMMA SliceNames == SliceInv => \A i \in Created : slices[i] \in SUBSET Names
  BY DEF SliceInv, Created

(* normalizeEnvironmentAllowlist returns a normal form, also of the        *)
(* default: upper-casing twice is upper-casing once.                       *)
LEMMA AllowlistNormal ==
    ASSUME NEW names \in SUBSET Names
    PROVE  Allowlist(names) \in SUBSET Names /\ Normal(Allowlist(names))
  <1> DEFINE given == IF names = {} THEN DefaultNames ELSE names
  <1>1. given \in SUBSET Names
    BY ConfigAssumption
  <1> HIDE DEF given
  <1>2. NormalizeNames(given) \in SUBSET Names /\ Normal(NormalizeNames(given))
    BY <1>1, ConfigAssumption DEF NormalizeNames, Normal
  <1> QED BY <1>2 DEF Allowlist, given

(* In a normal form no two names differ only in case. *)
LEMMA NoClash ==
    ASSUME windows, NEW names, Normal(names), NEW host
    PROVE  ~Clash(Environment(names, host))
  BY DEF Normal, Clash, Environment

-----------------------------------------------------------------------------
(***************************************************************************)
(* Every step preserves the invariant.                                     *)
(***************************************************************************)

(* A result that only says how an operation went is none of an output. *)
LEMMA PlainResult ==
    ASSUME NEW kind \in {"none", "accepted", "rejected", "lookup"},
           result' = Result(kind)
    PROVE  AllowlistIsUsable' /\ EveryOutputIsDelivered'
  BY DEF Result, AllowlistIsUsable, EveryOutputIsDelivered

(* Neither is the result of a lookup. *)
LEMMA LookupResult ==
    ASSUME NEW kind \in {"lookup", "duplicate"}, windows' => kind # "duplicate",
           result' = Result(kind)
    PROVE  AllowlistIsUsable' /\ EveryOutputIsDelivered'
  BY DEF Result, AllowlistIsUsable, EveryOutputIsDelivered

(* normalize fills in defaults: what it returns is a configuration. *)
LEMMA NormalizeType ==
    ASSUME NEW c \in Configs
    PROVE  Normalize(c) \in Configs
  <1>1. DefaultBytes \in Int /\ DefaultTimeout \in Int
    BY ConfigAssumption, HalfPayload
  <1> QED BY <1>1 DEF Normalize, Configs, OrDefault

(* What a constructor makes: nothing, or a configuration of its own. *)
LEMMA Constructed ==
    ASSUME Inv, NEW made, Construct(config, made), UNCHANGED <<windows, reachable>>
    PROVE  /\ SliceInv'
           /\ \A i \in Created : slices'[i] = slices[i] /\ i \in Created'
           /\ made # None =>
                 /\ made \in Configs
                 /\ \A b \in Bounds : made.bytes[b] \in 1 .. maximumBytes
                 /\ made.names \in Created' \ reachable
                 /\ Normal(slices[made.names])'
           /\ AllowlistIsUsable' /\ EveryOutputIsDelivered'
  <1> DEFINE names == Allowlist(Slice(config.names))
  <1>1. /\ SliceInv /\ config \in Configs /\ config.names \in Created
    BY DEF Inv, SliceInv
  <1>2. names \in SUBSET Names /\ Normal(names)
    BY <1>1, SliceNames, AllowlistNormal DEF Slice
  <1> HIDE DEF names
  <1>3. CASE ~Valid(Normalize(config), names)
    <2>1. result' = Result("rejected") /\ made = None /\ UNCHANGED slices
      BY <1>3 DEF Construct, names
    <2>2. SliceInv' /\ Created' = Created
      BY <1>1, <2>1 DEF SliceInv, Created
    <2>3. AllowlistIsUsable' /\ EveryOutputIsDelivered'
      BY <2>1, PlainResult
    <2> QED BY <2>1, <2>2, <2>3
  <1>4. CASE Valid(Normalize(config), names)
    <2>1. /\ result' = Result("accepted") /\ Allocate(names)
          /\ made = [Normalize(config) EXCEPT !.names = NewSlice]
      BY <1>4 DEF Construct, names
    <2>2. AllowlistIsUsable' /\ EveryOutputIsDelivered'
      BY <2>1, PlainResult
    <2>3. /\ NewSlice \in (1 .. MaxSlices) \ Created
          /\ slices' \in [1 .. MaxSlices -> (SUBSET Names) \cup {None}]
          /\ slices'[NewSlice] = names
          /\ \A i \in Created : slices'[i] = slices[i]
          /\ Created' = Created \cup {NewSlice}
          /\ \E n \in Nat : Created' = 1 .. n
      BY <1>1, <1>2, <2>1, AllocatedSlice
    <2>4. SliceInv'
      BY <1>1, <2>3 DEF SliceInv
    <2>5. Normalize(config) \in Configs
      BY <1>1, NormalizeType
    <2>6. made \in Configs /\ made.names = NewSlice
          /\ made.bytes = Normalize(config).bytes
      BY <2>1, <2>3, <2>5 DEF Configs
    <2>7. \A b \in Bounds : made.bytes[b] \in 1 .. maximumBytes
      <3> SUFFICES ASSUME NEW b \in Bounds PROVE made.bytes[b] \in 1 .. maximumBytes
        OBVIOUS
      <3>1. Within(Normalize(config).bytes[b], maximumBytes)
        BY <1>4 DEF Valid
      <3>2. made.bytes[b] \in Int
        BY <2>6 DEF Configs
      <3> QED BY <2>6, <3>1, <3>2, HalfPayload DEF Within
    <2>8. made.names \in Created' \ reachable
      BY <1>1, <2>3, <2>6 DEF SliceInv
    <2>9. Normal(slices[made.names])'
      BY <1>2, <2>3, <2>6 DEF Normal
    <2> QED BY <2>2, <2>3, <2>4, <2>6, <2>7, <2>8, <2>9
  <1> QED BY <1>3, <1>4

(* A suite or a tool is built; the other one keeps its array. *)
LEMMA NewStep == ASSUME Inv, New PROVE Inv'
  <1>1. Construct(config, suite') /\ UNCHANGED <<windows, reachable, config, tool>>
    BY DEF New
  <1>2. /\ SliceInv'
        /\ \A i \in Created : slices'[i] = slices[i] /\ i \in Created'
        /\ suite' # None =>
              /\ suite' \in Configs
              /\ \A b \in Bounds : suite'.bytes[b] \in 1 .. maximumBytes
              /\ suite'.names \in Created' \ reachable
              /\ windows' => \A n \in slices'[suite'.names] : Upper[n] = n
        /\ AllowlistIsUsable' /\ EveryOutputIsDelivered'
    BY <1>1, Constructed DEF Normal
  <1>3. (suite # None => Accepted(suite))'
    BY <1>1, <1>2 DEF Accepted, Normal
  <1>4. (tool # None => Accepted(tool))'
    BY <1>1, <1>2 DEF Inv, Accepted, Normal
  <1> QED BY <1>1, <1>2, <1>3, <1>4 DEF Inv

(* The same for a tool. *)
LEMMA NewToolStep == ASSUME Inv, NewTool PROVE Inv'
  <1>1. Construct(config, tool') /\ UNCHANGED <<windows, reachable, config, suite>>
    BY DEF NewTool
  <1>2. /\ SliceInv'
        /\ \A i \in Created : slices'[i] = slices[i] /\ i \in Created'
        /\ tool' # None =>
              /\ tool' \in Configs
              /\ \A b \in Bounds : tool'.bytes[b] \in 1 .. maximumBytes
              /\ tool'.names \in Created' \ reachable
              /\ windows' => \A n \in slices'[tool'.names] : Upper[n] = n
        /\ AllowlistIsUsable' /\ EveryOutputIsDelivered'
    BY <1>1, Constructed DEF Normal
  <1>3. (tool # None => Accepted(tool))'
    BY <1>1, <1>2 DEF Accepted, Normal
  <1>4. (suite # None => Accepted(suite))'
    BY <1>1, <1>2 DEF Inv, Accepted, Normal
  <1> QED BY <1>1, <1>2, <1>3, <1>4 DEF Inv

(* The caller gets a copy: a new array, and only that one. *)
LEMMA GetConfigStep == ASSUME Inv, GetConfig PROVE Inv'
  <1>1. /\ suite # None /\ Allocate(Slice(suite.names))
        /\ config' = [suite EXCEPT !.names = NewSlice]
        /\ reachable' = reachable \cup {NewSlice}
        /\ result' = Result("none")
        /\ UNCHANGED <<windows, suite, tool>>
    BY DEF GetConfig
  <1>2. SliceInv /\ suite \in Configs /\ suite.names \in Created
    BY <1>1 DEF Inv, Accepted
  <1>3. Slice(suite.names) \in SUBSET Names
    BY <1>2, SliceNames DEF Slice
  <1>4. /\ NewSlice \in (1 .. MaxSlices) \ Created
        /\ slices' \in [1 .. MaxSlices -> (SUBSET Names) \cup {None}]
        /\ \A i \in Created : slices'[i] = slices[i]
        /\ Created' = Created \cup {NewSlice}
        /\ \E n \in Nat : Created' = 1 .. n
    BY <1>1, <1>2, <1>3, AllocatedSlice
  <1>5. SliceInv'
    BY <1>1, <1>2, <1>4 DEF SliceInv
  <1>6. config' \in Configs /\ config'.names \in reachable'
    BY <1>1, <1>2, <1>4 DEF Configs
  <1>7. (suite # None => Accepted(suite))'
    BY <1>1, <1>4 DEF Inv, Accepted, Normal
  <1>8. (tool # None => Accepted(tool))'
    BY <1>1, <1>4 DEF Inv, Accepted, Normal
  <1>9. AllowlistIsUsable' /\ EveryOutputIsDelivered'
    BY <1>1, PlainResult
  <1> QED BY <1>5, <1>6, <1>7, <1>8, <1>9 DEF Inv

(* The caller writes only what it reaches. *)
LEMMA WriteStep == ASSUME Inv, Write PROVE Inv'
  <1>1. PICK i \in reachable, names \in SUBSET Names :
          slices' = [slices EXCEPT ![i] = names]
    BY DEF Write
  <1>2. UNCHANGED <<windows, reachable, config, suite, tool>>
        /\ result' = Result("none")
    BY DEF Write
  <1>3. SliceInv /\ i \in Created /\ names # None
    BY <1>1, ConfigAssumption DEF Inv, SliceInv
  <1>4. i \in 1 .. MaxSlices /\ slices[i] # None
    BY <1>3 DEF SliceInv, Created
  <1>5. /\ slices' \in [1 .. MaxSlices -> (SUBSET Names) \cup {None}]
        /\ Created' = Created
        /\ \A j \in Created \ {i} : slices'[j] = slices[j]
    BY <1>1, <1>3, <1>4 DEF SliceInv, Created
  <1>6. SliceInv'
    BY <1>2, <1>3, <1>5 DEF SliceInv
  <1>7. (suite # None => Accepted(suite))'
    BY <1>1, <1>2, <1>5 DEF Inv, Accepted, Normal
  <1>8. (tool # None => Accepted(tool))'
    BY <1>1, <1>2, <1>5 DEF Inv, Accepted, Normal
  <1>9. AllowlistIsUsable' /\ EveryOutputIsDelivered'
    BY <1>2, PlainResult
  <1> QED BY <1>2, <1>6, <1>7, <1>8, <1>9 DEF Inv

(* What neither creates nor writes an array leaves configurations alone. *)
LEMMA Untouching ==
    ASSUME Inv, UNCHANGED <<windows, slices, reachable, config, suite, tool>>,
           AllowlistIsUsable', EveryOutputIsDelivered'
    PROVE  Inv'
  <1>1. Created' = Created /\ SliceInv'
    BY DEF Inv, SliceInv, Created
  <1> QED BY <1>1 DEF Inv, Accepted, Normal

(* A lookup is prepared from an allowlist in normal form. *)
LEMMA PrepareLookupStep == ASSUME Inv, PrepareLookup PROVE Inv'
  <1>1. PICK host \in SUBSET Names :
          result' = Result(IF Clash(Environment(Slice(tool.names), host))
                           THEN "duplicate" ELSE "lookup")
    BY DEF PrepareLookup
  <1>2. tool # None /\ UNCHANGED <<windows, slices, reachable, config, suite, tool>>
    BY DEF PrepareLookup
  <1>3. Normal(Slice(tool.names)) /\ windows \in BOOLEAN
    BY <1>2 DEF Inv, SliceInv, Accepted, Slice
  <1>4. windows => ~Clash(Environment(Slice(tool.names), host))
    BY <1>3, NoClash
  <1>5. AllowlistIsUsable' /\ EveryOutputIsDelivered'
    BY <1>1, <1>2, <1>4, LookupResult
  <1> QED BY <1>2, <1>5, Untouching

(* A tool answers within the bounds it was accepted with. *)
LEMMA ExecuteStep == ASSUME Inv, Execute PROVE Inv'
  <1>1. PICK o \in PossibleOutputs :
          result' = [kind |-> IF Delivered(o) THEN "answered" ELSE "undelivered",
                     encoding |-> Content(o).encoding,
                     layers |-> Content(o).layers, text |-> o.text]
    BY DEF Execute
  <1>2. tool # None /\ UNCHANGED <<windows, slices, reachable, config, suite, tool>>
    BY DEF Execute
  <1>3. \A b \in Bounds : tool.bytes[b] \in 1 .. maximumBytes
    BY <1>2 DEF Inv, Accepted
  <1>4. \E kind : \E bound \in 1 .. maximumBytes : o \in Outputs(kind, bound)
    BY <1>1, <1>3 DEF PossibleOutputs, Bounds
  <1>5. /\ Delivered(o)
        /\ \/ Content(o) = [encoding |-> "utf-8", layers |-> 0] /\ o.text
           \/ Content(o) = [encoding |-> "base64", layers |-> 1]
    BY <1>4, OutputDelivered
  <1>6. AllowlistIsUsable' /\ EveryOutputIsDelivered'
    BY <1>1, <1>5 DEF AllowlistIsUsable, EveryOutputIsDelivered
  <1> QED BY <1>2, <1>6, Untouching

(* The caller begins with one array, which holds any names. *)
LEMMA InitInv == Init => Inv
  <1> SUFFICES ASSUME Init PROVE Inv
    OBVIOUS
  <1>1. PICK names \in SUBSET Names :
          slices = [i \in 1 .. MaxSlices |-> IF i = 1 THEN names ELSE None]
    BY DEF Init
  <1>2. names # None /\ 1 \in 1 .. MaxSlices
    BY ConfigAssumption
  <1>3. Created = 1 .. 1
    BY <1>1, <1>2 DEF Created
  <1>4. SliceInv
    BY <1>1, <1>3 DEF SliceInv, Init
  <1>5. config \in Configs /\ config.names \in reachable
    BY <1>2, LimitsAssumption DEF Init, Configs
  <1>6. AllowlistIsUsable /\ EveryOutputIsDelivered
    BY DEF Init, Result, AllowlistIsUsable, EveryOutputIsDelivered
  <1> QED BY <1>4, <1>5, <1>6 DEF Init, Inv

(* Every step preserves the invariant. *)
LEMMA NextInv == Inv /\ [Next]_vars => Inv'
  <1>1. Inv /\ UNCHANGED vars => Inv'
    BY Untouching DEF vars, Inv, AllowlistIsUsable, EveryOutputIsDelivered
  <1> QED
    BY <1>1, NewStep, NewToolStep, GetConfigStep, WriteStep, PrepareLookupStep,
       ExecuteStep
    DEF Next

(* Inv holds in every state. *)
THEOREM Invariance == Spec => []Inv
  BY InitInv, NextInv, PTL DEF Spec

-----------------------------------------------------------------------------
(***************************************************************************)
(* The properties of the run.                                              *)
(***************************************************************************)

(* On Windows no accepted allowlist is refused by NewLookup, whatever the  *)
(* names are and whatever variables the host has.                          *)
THEOREM UsableAllowlist == Spec => []AllowlistIsUsable
  BY Invariance, PTL DEF Inv

(* Whatever the size of a payload, every output within an accepted bound   *)
(* is delivered and decodes to what it was.                                *)
THEOREM DeliveredOutputs == Spec => []EveryOutputIsDelivered
  BY Invariance, PTL DEF Inv

(* What a suite or a tool was built with never changes. *)
THEOREM PrivateConfiguration == Spec => ConfigurationIsPrivate
  <1>1. ASSUME Inv, [Next]_vars
        PROVE  \/ Untouched(suite) /\ Untouched(tool)
               \/ UNCHANGED vars
    <2>1. CASE New \/ NewTool
      <3>1. \A i \in Created : slices'[i] = slices[i]
        BY <1>1, <2>1, Constructed DEF New, NewTool
      <3> QED BY <1>1, <3>1 DEF Inv, Accepted, Untouched
    <2>2. CASE GetConfig
      <3>1. SliceInv /\ Slice(suite.names) \in SUBSET Names
        BY <1>1, <2>2, SliceNames DEF GetConfig, Inv, Accepted, Slice
      <3>2. \A i \in Created : slices'[i] = slices[i]
        BY <2>2, <3>1, AllocatedSlice DEF GetConfig
      <3> QED BY <1>1, <3>2 DEF Inv, Accepted, Untouched
    <2>3. CASE Write
      <3>1. PICK i \in reachable, names \in SUBSET Names :
              slices' = [slices EXCEPT ![i] = names]
        BY <2>3 DEF Write
      <3>2. \A j \in Created \ {i} : slices'[j] = slices[j]
        BY <1>1, <3>1 DEF Inv, SliceInv, Created
      <3> QED BY <1>1, <3>1, <3>2 DEF Inv, Accepted, Untouched
    <2>4. CASE PrepareLookup \/ Execute
      BY <2>4 DEF PrepareLookup, Execute, Untouched
    <2> QED BY <1>1, <2>1, <2>2, <2>3, <2>4 DEF Next
  <1>2. Inv /\ [Next]_vars => [Untouched(suite) /\ Untouched(tool)]_vars
    BY <1>1
  <1> QED BY <1>2, Invariance, PTL DEF Spec, ConfigurationIsPrivate

=============================================================================
