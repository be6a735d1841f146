------------------------------ MODULE Encoding ------------------------------
(***************************************************************************)
(* How an output of read or shell becomes one JSON payload: as text, or as *)
(* base64 when the bytes are not UTF-8 or when escaping makes the text too *)
(* long.  Only sizes matter.  What JSON and base64 cost is external.       *)
(***************************************************************************)
EXTENDS Naturals

CONSTANTS MaximumPayloadBytes,  \* of the tool package (1 MiB)
          Envelope              \* the JSON around the content, path included

(* The path or workdir was opened before, so the envelope is some KiB. *)
ASSUME EnvelopeAssumption ==
    /\ MaximumPayloadBytes \in Nat /\ Envelope \in Nat
    /\ 3 * Envelope + 16 <= MaximumPayloadBytes

(* Mutant: an output may be as large as a payload. *)
WholePayload == MaximumPayloadBytes

maximumBytes == MaximumPayloadBytes \div 2

(* The outputs of a tool: bytes of the page or of stdout, and of stderr;   *)
(* whether they are UTF-8; whether they fit as text, which is open in so   *)
(* far as JSON spends one to six bytes (\u00XX) on each.                   *)
Outputs(tool, bound) ==
    {o \in [tool : {tool}, first : 0 .. bound, second : 0 .. bound,
            text : BOOLEAN, fits : BOOLEAN] :
        /\ o.first + o.second <= bound
        /\ o.tool = "read" => o.second = 0
        /\ IF o.fits
           THEN Envelope + o.first + o.second <= MaximumPayloadBytes
           ELSE Envelope + 6 * (o.first + o.second) > MaximumPayloadBytes}

Base64(n) == 4 * ((n + 2) \div 3)

(* Whether an output fits under a number of layers of base64. *)
Fits(o, layers) ==
    CASE layers = 0 -> o.fits
      [] layers = 1 ->
            Envelope + Base64(o.first) + Base64(o.second) <= MaximumPayloadBytes
      [] OTHER ->
            Envelope + Base64(Base64(o.first)) + Base64(Base64(o.second))
               <= MaximumPayloadBytes

(* read and capturedShellContent: bytes that are not UTF-8 become base64. *)
Encoded(o) == [encoding |-> IF o.text THEN "utf-8" ELSE "base64",
               layers |-> IF o.text THEN 0 ELSE 1]

(* Execute of read encodes again whatever it has; encodeShellResult only   *)
(* what is not base64 yet.                                                 *)
Retries(o, content) == o.tool = "read" \/ content.encoding = "utf-8"

Fallback(content) == [encoding |-> "base64", layers |-> content.layers + 1]

(* The content an output is answered with, and whether it fits. *)
Content(o) == IF ~Fits(o, Encoded(o).layers) /\ Retries(o, Encoded(o))
              THEN Fallback(Encoded(o)) ELSE Encoded(o)
Delivered(o) == Fits(o, Content(o).layers)

=============================================================================
