--------------------------- MODULE MCQualityGate ---------------------------
(* Instances of QualityGate for TLC: a host with the variables that matter, *)
(* in more than one spelling.                                               *)
EXTENDS QualityGate

MCHost == {<<"GOPROXY", "host">>, <<"GoProxy", "host">>, <<"PATH", "host">>,
           <<"Api_Token", "host">>}
MCUpper == [k \in {"GOPROXY", "GoProxy", "PATH", "Api_Token", "GOWORK",
                   "GOTOOLCHAIN", "GOFLAGS", "GOAUTH", "GOPRIVATE", "GONOPROXY",
                   "GONOSUMDB", "GOSUMDB"} |->
               CASE k = "GoProxy" -> "GOPROXY"
                 [] k = "Api_Token" -> "API_TOKEN"
                 [] OTHER -> k]

=============================================================================
