---------------------------- MODULE MCLoadTest ----------------------------
(* LoadTest on small instances: the constants are given in the .cfg.       *)
EXTENDS LoadTest
=============================================================================
