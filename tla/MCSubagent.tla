----------------------------- MODULE MCSubagent -----------------------------
(* Instances of the subagent tool for TLC. *)
EXTENDS Subagent, TLC

KindOf == ("trio" :> "parallel") @@ ("chain" :> "chain")
WidthOf == ("trio" :> 3) @@ ("chain" :> 2)
SuspensionsOf == ("trio" :> 2) @@ ("chain" :> 3)
=============================================================================
