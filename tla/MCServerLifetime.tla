-------------------------- MODULE MCServerLifetime --------------------------
(* ServerLifetime on small instances: constants are given in the .cfg.     *)
EXTENDS ServerLifetime
=============================================================================
