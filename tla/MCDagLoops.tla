------------------------------ MODULE MCDagLoops ------------------------------
(* Every graph over four node ids, with and without cycles.                   *)
EXTENDS DagLoops
=============================================================================
