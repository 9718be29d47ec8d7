-------------------------- MODULE ExecutionPolicy --------------------------
(***************************************************************************)
(* is_command_allowed: whether a command may run under an execution        *)
(* policy.  A command is its first word and what the rest of it holds; a   *)
(* pattern is the set of the commands in whose text it is found.           *)
(***************************************************************************)

Policies == {"trusted-local", "sandboxed-local", "docker-no-network"}

\* First words: a path, the word "program" that stands for one in a plan, and
\* names that the policy knows.
DeniedRoots  == {"curl", "docker", "git", "pip", "rm"}
Interpreters == {"python", "python3"}
BuildRoots   == Interpreters \cup {"cc", "cmake", "make"}

\* Arguments that hold a shell operator, an interpolation, a destructive word
\* or a network location; the policy has nothing against any others.
RefusedArguments == {"a | b", "$(a)", "delete", "http://a"}

Found(patterns, command) == \E p \in patterns : command \in p

\* _generic_block_reason: only a build may start a compiler, and nothing else.
GenericallyAllowed(command, kind) ==
  /\ command.args \notin RefusedArguments
  /\ command.root \notin DeniedRoots
  /\ IF kind = "build"
       THEN command.root \in BuildRoots
       ELSE command.root \notin BuildRoots \ Interpreters

\* Patterns bind trusted commands too; the generic rules do not.
IsCommandAllowed(command, kind, rules) ==
  /\ ~ Found(rules.deny, command)
  /\ rules.allow # {} => Found(rules.allow, command)
  /\ \/ rules.trusted
     \/ rules.policy = "trusted-local"
     \/ GenericallyAllowed(command, kind)
=============================================================================
