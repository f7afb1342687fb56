--------------------------- MODULE MCServerLifecycle ---------------------------
(* ServerLifecycle on a small instance, with its abstract session.          *)
EXTENDS LifecycleRefinement
=============================================================================
