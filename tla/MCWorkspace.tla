------------------------------ MODULE MCWorkspace ------------------------------
(* TLC instances of the Home and its workflow. *)
EXTENDS WorkspaceProperties, TLC

CONSTANTS d, e, n, c1, c2, t1, t2

MCPath == {<<d>>, <<e>>, <<d, n>>, <<e, n>>}

MCNotebook == {<<d, n>>, <<e, n>>}

MCSymmetry == Permutations(Client) \cup Permutations(Task)
===============================================================================
