----------------------------- MODULE CleanRoom -----------------------------
(***************************************************************************)
(* Which files of a repository reach the solver package, and what the leak *)
(* check says of them.  The docs filter, the asset filter and the leak     *)
(* check judge a file each by rules of its own: directory, name, suffix    *)
(* and text do not count alike.  A file that lies below a documentation    *)
(* directory is declared twice, with its directory and by itself.          *)
(***************************************************************************)
EXTENDS Naturals, Sequences, FiniteSets

CONSTANT Paths  \* the files a repository may have, ordered by their path

\* A file by what the rules look at.  place is its directory, "docs" standing
\* for docs, examples or man; suffix "py" for any of SOURCE_SUFFIXES, which has
\* no .cxx (docs_filter.py:25); text "mention" for a text that names generated
\* tests, logs or a home directory.
Places   == {"", "docs", "docs/tests", "docs/testing", "data", "testdata",
             "tests", "build", "hidden_tests"}
FileType == [place : Places, name : STRING, suffix : STRING,
             text : {"clean", "mention"}]

ASSUME PathsAssumption ==
  /\ Paths \in Seq(FileType)
  /\ \A i, j \in DOMAIN Paths : i # j => Paths[i] # Paths[j]

Files == {Paths[i] : i \in DOMAIN Paths}

\* g comes after f in the order of the paths.
Later(f, g) == \E i, j \in DOMAIN Paths : i < j /\ Paths[i] = f /\ Paths[j] = g

DocPlaces    == {"docs", "docs/tests", "docs/testing"}
TestPlaces   == {"docs/tests", "docs/testing", "testdata", "tests"}
HiddenPlaces == {"hidden_tests"}
DocPrefixed  == {"readme", "usage"}
TestNamed    == {"test_plan"}
HiddenNamed  == {"hidden_notes"}
-----------------------------------------------------------------------------
(* What the task spec declares.                                            *)

DocSuffixes   == {"md", "txt"}
AssetSuffixes == {"json", "txt"}

\* The files among docs_paths; the doc directories themselves are in it too.
DetectDocs(repo) ==
  {f \in repo : \/ f.place = "" /\ f.name \in DocPrefixed
                \/ f.place \in DocPlaces /\ f.suffix \in DocSuffixes}

DetectAssets(repo) ==
  {f \in repo : /\ f.place \notin DocPlaces /\ f \notin DetectDocs(repo)
                /\ f.suffix \in AssetSuffixes /\ f.name # "readme"}
-----------------------------------------------------------------------------
(* The filters.  A file of the package is placed in docs/ under its name   *)
(* alone, in the copy of its doc directory, or in assets/ under its path.  *)

\* Mutant: only the name is looked at.
ExcludedByName(f) == f.name \in TestNamed \cup HiddenNamed

ExcludedPublicDoc(f) ==
  f.suffix = "py" \/ f.name \in TestNamed \cup HiddenNamed

ExcludedDocPlaces == {"docs/tests"}

\* A doc copied by itself replaces one of the same name copied before.
CopyPublicDocs(repo) ==
  LET public == {f \in repo : ~ExcludedPublicDoc(f)}
      flat   == DetectDocs(repo) \cap public
      tree   == {f \in public : f.place \in DocPlaces \ ExcludedDocPlaces}
      Hides(g, f) == g.name = f.name /\ g.suffix = f.suffix /\ Later(f, g)
  IN  [where : {"flat"}, file : {f \in flat : ~ \E g \in flat : Hides(g, f)}]
        \cup [where : {"tree"}, file : tree]

ForbiddenAssetPlaces == {"tests", "build", "hidden_tests"}

AssetAllowed(f) ==
  f.suffix # "py" /\ f.place \notin ForbiddenAssetPlaces /\ f.text = "clean"

CopyAssets(repo) ==
  [where : {"asset"}, file : {f \in DetectAssets(repo) : AssetAllowed(f)}]
-----------------------------------------------------------------------------
(* The files package_cleanroom writes itself.  task.yaml keeps the paths   *)
(* of all declared docs and assets, those the filters drop included.       *)

Static(name, suffix, text) ==
  [where |-> "own",
   file |-> [place |-> "", name |-> name, suffix |-> suffix, text |-> text]]

Instructions == {Static("TASK", "md", "clean"), Static("SUBMISSION", "md", "clean")}

SolverVisibleTaskSpec(repo) ==
  Static("task", "yaml",
         IF \E f \in DetectAssets(repo) : f.place \in HiddenPlaces
           THEN "mention" ELSE "clean")

SolverManifest == Static("SOLVER_MANIFEST", "json", "clean")
-----------------------------------------------------------------------------
(* The leak check: the findings of a placed file.                          *)

TestLike(p) ==
  \/ p.where # "flat" /\ p.file.place \in TestPlaces
  \/ p.file.name \in TestNamed

Findings(p) ==
  {k \in {"test path"} : TestLike(p)}
    \cup {k \in {"forbidden path"} :
            p.where # "flat" /\ p.file.place \in HiddenPlaces}
    \cup {k \in {"source"} : p.file.suffix = "py"}
    \cup {k \in {"content"} : p # SolverManifest /\ p.file.text = "mention"}

LeakCheck(placed) == \A p \in placed : Findings(p) = {}
=============================================================================
