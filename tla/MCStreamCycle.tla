--------------------------- MODULE MCStreamCycle ---------------------------
(* All links between three units, and up to five between four of them, for *)
(* module StreamCycle.                                                     *)
EXTENDS StreamCycle, FiniteSetsExt

CONSTANTS a, b, c, d

MCUnit == {a, b, c, d}

MCChips ==
  (SUBSET ({a, b, c} \X {a, b, c})) \cup UNION {kSubset(n, MCUnit \X MCUnit) : n \in 0 .. 5}

=============================================================================
