---------------------------- MODULE MCLogicSystem ----------------------------
(* LogicSystem on small instances: the constants are given in the .cfg.    *)
EXTENDS LogicSystem
=============================================================================
