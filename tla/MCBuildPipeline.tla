-------------------------- MODULE MCBuildPipeline --------------------------
(* Two types with one configuration each and two archives: enough for one  *)
(* installation to overlap or be cut short by another.                     *)
EXTENDS BuildPipeline

TypeOfConfig == [c \in Configs |-> IF c = "neon full" THEN "full" ELSE "min"]

=============================================================================
