--------------------------- MODULE MCWorkflowGates ---------------------------
EXTENDS WorkflowGates, TLC

CONSTANTS a, b, t, c, n

(* Two sources of one group, a test, and a source of a later group: the    *)
(* test's group comes after the first source that it tests and before the  *)
(* second.  n is a file that an agent may create.                          *)
MCOrder   == <<a, b, t, c>>
MCGroupOf == (a :> 1) @@ (b :> 1) @@ (t :> 2) @@ (c :> 3) @@ (n :> 1)
MCTestOf  == (a :> t) @@ (b :> NoTest) @@ (t :> t) @@ (c :> t)

(* The variables of a test are interchangeable, and so are the exports.    *)
Symmetry == Permutations(Vars) \cup Permutations(Entrypoints)
=============================================================================
