-------------------------- MODULE MCManagedContext --------------------------
(* A window of 60, a little over the cap of a summary, and observations    *)
(* that leave the history no room (61), room for a few stubs (54), and     *)
(* ones that fill the window exactly with references (12 + 3 * 16).        *)
(* MCContextWindow has one that fits the window alone and leaves no stub   *)
(* beside it (59): the default config has room for it too, its threshold   *)
(* of offloading being 8000 characters and its window 2000 tokens.         *)
EXTENDS ManagedContext
=============================================================================
