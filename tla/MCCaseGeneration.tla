-------------------------- MODULE MCCaseGeneration --------------------------
(***************************************************************************)
(* Proposals of every kind: two that differ in category only, one that     *)
(* hangs but has a revision that is another one's input, one that raises   *)
(* and one the policy refuses.                                             *)
(***************************************************************************)
EXTENDS CaseGeneration

CONSTANTS i1, i2, i3, c1, c2

Proposal(input, category, kind) == [input |-> input, category |-> category, kind |-> kind]

Plain   == Proposal(i1, c1, "safe")
Twin    == Proposal(i1, c2, "safe")
Hanging == Proposal(i2, c1, "hangs")
Raising == Proposal(i3, c1, "raises")
Unsafe  == Proposal(i3, c1, "unsafe")

MCProposals == {Plain, Twin, Hanging, Raising, Unsafe}
MCAnswers   == {Plain, Twin, Raising, Unsafe}
MCDerived   == {Plain, Hanging}

MCOutputs == i1 :> {1} @@ i2 :> {} @@ i3 :> {1}
MCRevised == [p \in Proposals |-> IF p = Hanging THEN <<p, Plain>> ELSE <<p>>]
=============================================================================
