---------------------------- MODULE MCGoldBuild ----------------------------
(***************************************************************************)
(* Task specs and overrides for builds, and repositories for the analysis  *)
(* that writes a task spec.  A behaviour is one analysis, or a sequence of *)
(* builds of specs that change in between; the other part stays where it   *)
(* starts.                                                                 *)
(***************************************************************************)
EXTENDS GoldBuild, RepositoryAnalysis

CONSTANTS a, b

VARIABLES repo, primary, analysed \* of the analysis

Task(language, system, candidates, prefer, scripts, modules) ==
  [language |-> language, system |-> system, candidates |-> candidates,
   prefer |-> prefer, scripts |-> scripts, modules |-> modules]

SystemsMC == Compiled \cup Scripts \cup {"python-package", "npm", "auto", NoSystem}

SpecsMC == {
  Task("c", "make", <<"make", "cmake", "script">>, <<b, a>>, {a}, {}),
  Task("python", "python-package", <<"python-package", "script">>, <<a, b>>,
       {b}, {a}),
  Task("python", "make", <<"make", "python-package">>, <<a>>, {}, {a}),
  Task("python", "custom-command", <<"custom-command", "npm", "python-package">>,
       <<b>>, {}, {}),
  Task(NoLanguage, NoSystem, <<>>, <<>>, {a, b}, {}) }

\* Every set of at most three of eight files with every set of manifests and
\* of sources.
File(path, base, stem, order, rank) ==
  [path |-> path, base |-> base, stem |-> stem, order |-> order, rank |-> rank,
   py |-> FALSE, bare |-> FALSE, exec |-> FALSE, top |-> TRUE,
   shebang |-> "none", guard |-> FALSE, conventional |-> FALSE,
   package |-> "", script |-> ""]

FilesMC == {
  [File("aaa", "aaa", "aaa", 1, 2) EXCEPT !.bare = TRUE, !.exec = TRUE],
  [File("bin/tool.py", "tool.py", "tool", 2, 2) EXCEPT
     !.py = TRUE, !.top = FALSE, !.guard = TRUE],
  [File("calc/__main__.py", "__main__.py", "__main__", 3, 2) EXCEPT
     !.py = TRUE, !.top = FALSE, !.package = "calc", !.guard = TRUE],
  [File("calc/cli.py", "cli.py", "cli", 4, 0) EXCEPT
     !.py = TRUE, !.top = FALSE, !.conventional = TRUE, !.script = "calc"],
  [File("pbrun.py", "pbrun.py", "pbrun", 5, 1) EXCEPT
     !.py = TRUE, !.exec = TRUE, !.shebang = "python", !.guard = TRUE],
  [File("program", "program", "program", 6, 0) EXCEPT
     !.bare = TRUE, !.exec = TRUE, !.shebang = "shell"],
  [File("run", "run", "run", 7, 2) EXCEPT
     !.bare = TRUE, !.exec = TRUE, !.shebang = "python"],
  [File("tool.py", "tool.py", "tool", 8, 2) EXCEPT !.py = TRUE, !.guard = TRUE]}

RepositoriesMC ==
  [files : {F \in SUBSET FilesMC : Cardinality(F) <= 3},
   manifests : SUBSET {"Makefile", "pyproject.toml", "Cargo.toml", "go.mod",
                       "CMakeLists.txt"},
   csources : {{}, {"c"}, {"c", "c++"}},
   others : {{}, {"go"}}]

\* Texts of --primary-binary and what is left of them without leading "./".
NoText == [text |-> "", normal |-> ""]
PrimariesMC == {NoText, [text |-> "tool", normal |-> "tool"],
                [text |-> "./tool.py", normal |-> "tool.py"]}

NoAnalysis == repo = None /\ primary = None /\ analysed = None

BeginAnalysis ==
  /\ spec = Task(NoLanguage, NoSystem, <<>>, <<>>, {a, b}, {}) /\ override = "auto"
  /\ repo \in Repositories /\ primary \in Primaries /\ analysed = None

MCInit == Init /\ (NoAnalysis \/ BeginAnalysis)

AnalyseRepository ==
  /\ repo # None /\ analysed = None
  /\ analysed' = InitTask(repo, primary)
  /\ UNCHANGED <<repo, primary>>

MCNext ==
  \/ repo = None /\ Next /\ UNCHANGED <<repo, primary, analysed>>
  \/ AnalyseRepository /\ UNCHANGED vars

MCSpec == MCInit /\ [][MCNext]_<<vars, repo, primary, analysed>>
-----------------------------------------------------------------------------
\* The two rankings together: a spec has the best build candidate of each
\* system, begins with the entrypoint that --primary-binary names exactly, and
\* is refused by the adapter registry for one kind of repository only, a
\* makefile where the language is taken to be Python (metadata.py:421-437,
\* checkout.py:60-67, adapters.py:321-352).
SpecIsUsable ==
  analysed # None =>
    /\ BestCandidatePerSystem(analysed, repo, primary)
    /\ ExactPrimaryIsFirst(analysed, primary)
    /\ RefusedOnlyPythonMakefile(analysed, repo, primary)
=============================================================================
