------------------------ MODULE MCBehaviorDiscovery ------------------------
(***************************************************************************)
(* Documents without examples, with a repeated one, with one the policy    *)
(* refuses and with more than fit; a program that tells nothing of itself  *)
(* or a usage and two flags; and profiles with patterns.                   *)
(***************************************************************************)
EXTENDS BehaviorDiscovery

TestDocumentations ==
  {<<>>, <<"echo", "echo", "delete">>, <<"--version", "echo", "copy", "delete">>}

TestHelpTexts ==
  {[usages |-> <<>>, flags |-> {}],
   [usages |-> <<"list", "echo">>, flags |-> {"-h", "--version"}]}

Rules(allow, deny) ==
  [policy |-> "sandboxed-local", trusted |-> FALSE, allow |-> allow, deny |-> deny]

\* A pattern like --version, which is found whatever the first word is.
Argument(a) == {[root |-> r, args |-> a] : r \in {"program", "path"}}

\* A pattern like ^program --help$.
Anchored(a) == {[root |-> "program", args |-> a]}

ArgumentRules ==
  {Rules({}, {}), Rules({}, {Argument("--version")}),
   Rules({Argument("echo"), Argument("delete")}, {}),
   [Rules({}, {Argument("--help")}) EXCEPT !.trusted = TRUE]}

TestRules == ArgumentRules \cup {Rules({Anchored("--help")}, {})}
=============================================================================
