----------------------- MODULE MCGenerationController -----------------------
(* Values for TLC of the constants of GenerationController.               *)
EXTENDS GenerationInvariant, TLC

CONSTANTS good, twin, flaky, hollow, weak, a, b, c, d

\* good and twin are two sound cases with one name.
MCIdOf == good :> a @@ twin :> a @@ flaky :> b @@ hollow :> c @@ weak :> d
IdOfMC == [x \in Cases |-> MCIdOf[x]]

DummiesMC == {"always_zero", "generic_help", "echo_args"}
FoolsMC   == [x \in DummiesMC |->
                IF x = "echo_args" THEN {hollow} \cap Cases ELSE {}]
StableMC   == Cases \ {flaky}
HighLintMC == Cases \cap {weak}
=============================================================================
