---------------------------- MODULE MCExperiment ----------------------------
(***************************************************************************)
(* Experiment for TLC, with the configurations of MCFbmmExp.               *)
(***************************************************************************)
EXTENDS Experiment, MCFbmmExp
=============================================================================
