-------------------------- MODULE LanguageAdapters --------------------------
(***************************************************************************)
(* The language adapter registry: which adapter is selected for a language *)
(* and a build system, and whether a build backend is handed out.  A build *)
(* system given on the command line may be "auto"; NoSystem stands for     *)
(* None.  Names are compared in lower case and stripped, so only the       *)
(* normal forms are modelled.                                              *)
(***************************************************************************)
EXTENDS Integers, Sequences

NoSystem   == "none"
NoLanguage == "none"

CFamily == {"c", "cpp", "c++", "c/c++", "make"}

\* The adapters in the order of the registry.
Registry == <<
  [name |-> "python", languages |-> {"python"},
   systems |-> {"script", "python-script", "python-package", "project",
                "requirements", "setuptools", "dependency-lock",
                "custom-command"}],
  [name |-> "c-cpp", languages |-> CFamily,
   systems |-> {"make", "cmake", "c-single", "custom-command"}],
  [name |-> "go", languages |-> {"go"}, systems |-> {"go"}],
  [name |-> "rust", languages |-> {"rust"}, systems |-> {"cargo"}],
  [name |-> "java", languages |-> {"java"}, systems |-> {"maven", "gradle"}] >>

Unsupported == [name |-> "unsupported", languages |-> {}, systems |-> {}]

Normalize(system) == IF system = "auto" THEN NoSystem ELSE system

\* An adapter matches by its language or by its build system.
Matches(adapter, language, system) ==
  \/ language \in adapter.languages
  \/ Normalize(system) \in adapter.systems

\* The first adapter of the registry that matches.
Select(language, system) ==
  LET matching == {i \in DOMAIN Registry : Matches(Registry[i], language, system)}
  IN  IF matching = {} THEN Unsupported
      ELSE Registry[CHOOSE i \in matching : \A j \in matching : i <= j]

\* build_supported of an adapter's capability report: without a build system
\* the adapter trusts the language.
Supports(adapter, system) ==
  /\ adapter # Unsupported
  /\ Normalize(system) = NoSystem \/ Normalize(system) \in adapter.systems

\* _select_build_system: an override other than "auto" replaces the build
\* system of the spec.
SelectSystem(specSystem, override) ==
  IF Normalize(override) # NoSystem THEN override ELSE specSystem

\* registry.build_backend: TRUE when it returns the local backend, FALSE when
\* it raises BuildError.  Without any build system the local backend is tried
\* whatever the language.
BackendGranted(language, specSystem, override) ==
  LET system == SelectSystem(specSystem, override)
  IN  Supports(Select(language, system), system) \/ system = NoSystem
=============================================================================
