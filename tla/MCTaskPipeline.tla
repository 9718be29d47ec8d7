--------------------------- MODULE MCTaskPipeline ---------------------------
(* Profiles of two tasks, and manifests of two of them.                    *)
EXTENDS TaskPipeline

CONSTANTS s1, s2, a, b

For(t, s, model, custom, trusted) ==
  [task |-> t, src |-> s, model |-> model, custom |-> custom, trusted |-> trusted]

\* Task a of one source with tests of a model; of the other, with a custom build
\* command that is trusted or not; and task b.
ByModel    == For(a, s1, TRUE, "none", FALSE)
Trusted    == For(a, s2, FALSE, "allowed", TRUE)
Other      == For(b, s2, FALSE, "none", FALSE)
ProfilesMC == {ByModel, Other, Trusted, For(a, s2, FALSE, "allowed", FALSE)}

\* Two tasks, and one task id twice.
BatchesMC == {<<ByModel, Other>>, <<ByModel, Trusted>>}

\* Tests recorded on the program of s1 hold on that of s2 too.
AgreeMC == {<<s1, s2>>}
=============================================================================
