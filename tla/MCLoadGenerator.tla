--------------------------- MODULE MCLoadGenerator ---------------------------
(* Instances of LoadGenerator: two workers that run twice, with a cancel.      *)
EXTENDS LoadGenerator
=============================================================================
