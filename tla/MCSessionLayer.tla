--------------------------- MODULE MCSessionLayer ---------------------------
(* SessionLayer for TLC.                                                     *)
EXTENDS SessionLayer, TLC

(* Managers and stems are interchangeable.                                   *)
Symmetry == Permutations(Managers) \union Permutations(Stems)

(* A session directory holds at most one session when the bridge starts, and *)
(* no two hold the same.                                                     *)
OldListings ==
    {f \in [WorkDirs -> {<<>>} \union {<<s>> : s \in Stems}] :
        \A d, e \in WorkDirs : d # e /\ f[d] = f[e] => f[d] = <<>>}

=============================================================================
