---------------------------- MODULE MCSendQueue ----------------------------
(* SendQueue on small instances: the constants are given in the .cfg.      *)
EXTENDS SendQueue
=============================================================================
