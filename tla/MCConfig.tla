------------------------------ MODULE MCConfig ------------------------------
(* The instance of Config for TLC: a few environment names and what        *)
(* TrimSpace and ToUpper make of them, and limits of which at most one is  *)
(* not left to its default.                                                *)
EXTENDS Config

MCNames == {"PATH", "Path", " PATH", "A=B"}
MCTrim == [n \in MCNames |-> IF n = " PATH" THEN "PATH" ELSE n]
MCUpper == [n \in MCNames |-> IF n = "Path" THEN "PATH" ELSE n]
MCSizes ==
    {f \in [Bounds -> {-1, 0, 10, 11}] :
        Cardinality({b \in Bounds : f[b] # 0}) <= 1}
MCTimeouts == {-1, 0, 3, 4}

=============================================================================
