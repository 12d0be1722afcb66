-------------------------- MODULE MCExperimentSuite --------------------------
(* Small instances of ExperimentSuite: a baseline and two variants of it. *)
EXTENDS ExperimentSuite

ThreeVariants == <<"baseline", "wide", "deep">>

OneSeed == <<42>>
===============================================================================
