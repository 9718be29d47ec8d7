------------------------- MODULE RepositoryAnalysis -------------------------
(***************************************************************************)
(* What init_task finds out about a repository: analyze_repository ranks   *)
(* the entrypoints and the build strategies, and init_task turns the       *)
(* result into the task spec, ranking the entrypoints a second time.  A    *)
(* repository is abstracted to what the rules look at; confidences are in  *)
(* hundredths.                                                             *)
(***************************************************************************)
EXTENDS LanguageAdapters, FiniteSets, SequencesExt

CONSTANTS
  Repositories, \* the repositories that may be analysed
  Primaries     \* the values of --primary-binary

NoPrimary == [text |-> "", normal |-> ""]

\* A file that may be an entrypoint:
\*   path, base, stem   its path, its name and its name without suffix
\*   order              its place in the order of the paths
\*   rank               _conventional_name_rank: 0, 1 or 2
\*   py, bare, exec, top  suffix .py; no suffix; executable; at the top level
\*   shebang            "none", or the language of the first line
\*   guard, conventional  a main guard; app.py, cli.py, main.py, program.py
\*   package            # "" for the __main__.py of that package
\*   script             # "" for the target of a project script of that name
FileType ==
  [path : STRING, base : STRING, stem : STRING, order : Nat, rank : 0 .. 2,
   py : BOOLEAN, bare : BOOLEAN, exec : BOOLEAN, top : BOOLEAN,
   shebang : STRING, guard : BOOLEAN, conventional : BOOLEAN,
   package : STRING, script : STRING]

\* A repository has files, manifests at its top level, the languages of its
\* C-family sources, one each, and the languages of its other sources.
ASSUME AnalysisAssumption ==
  \A r \in Repositories :
    /\ IsFiniteSet(r.files) /\ r.files \subseteq FileType
    /\ \A f, g \in r.files : f.order = g.order => f = g
    /\ r.csources \subseteq {"c", "c++"}

Entry(f, name, kind, confidence, language) ==
  [name |-> name, path |-> f.path, base |-> f.base, order |-> f.order,
   rank |-> f.rank, kind |-> kind, confidence |-> confidence,
   language |-> language]

If(condition, n) == IF condition THEN n ELSE 0
AtMost(n, bound) == IF n < bound THEN n ELSE bound

ProjectEntrypoints(files) ==
  {Entry(f, f.script, "python-entrypoint", 99, "python") :
     f \in {g \in files : g.script # ""}}

ModuleEntrypoints(files) ==
  {Entry(f, f.package, "python-module", 88, "python") :
     f \in {g \in files : g.package # ""}}

ScriptConfidence(f) ==
  AtMost(74 + If(f.guard, 8) + If(f.shebang = "python", 6)
            + If(f.conventional, 5) + If(f.top, 3), 93)

ScriptEntrypoints(files) ==
  {Entry(f, f.stem, "python-script", ScriptConfidence(f), "python") :
     f \in {g \in files :
              g.py /\ (g.guard \/ g.shebang = "python" \/ g.conventional)}}

ExecutableConfidence(f) ==
  AtMost((IF f.exec THEN 80 ELSE 74) + If(f.top, 5) + If(f.bare, 4)
            + If(f.shebang = "python", 3), 95)

ExecutableEntrypoints(files) ==
  {Entry(f, f.base, "executable-file", ExecutableConfidence(f),
         IF f.shebang = "none" THEN "script" ELSE f.shebang) :
     f \in {g \in files : g.exec \/ g.shebang # "none"}}

KindOrder == [kind \in {"executable-file", "python-entrypoint",
                        "python-module", "python-script"} |->
  CASE kind = "executable-file"   -> 1 [] kind = "python-entrypoint" -> 2
    [] kind = "python-module"     -> 3 [] kind = "python-script"     -> 4]

\* Tuples compare like those of Python.
Before(k, l) ==
  \E i \in DOMAIN k : k[i] < l[i] /\ \A j \in 1 .. i - 1 : k[j] = l[j]

\* sorted: each element of S comes after as many as have lesser keys.
Sorted(S, key) ==
  [i \in 1 .. Cardinality(S) |->
     CHOOSE x \in S : Cardinality({y \in S : Before(key[y], key[x])}) = i - 1]

\* _prioritize_primary_binary: a match by name, path or base name of the
\* stripped text comes first.
MatchesNormal(e, p) ==
  p.normal # "" /\ p.normal \in {e.name, e.path, e.base}
EntryKey(e, p) ==
  <<If(~MatchesNormal(e, p), 1), -e.confidence, e.rank, e.order, KindOrder[e.kind]>>

\* One entrypoint per path and kind: no two project scripts of the model
\* share their target.
RankEntrypoints(files, p) ==
  LET found == UNION {ProjectEntrypoints(files), ModuleEntrypoints(files),
                      ExecutableEntrypoints(files), ScriptEntrypoints(files)}
  IN  Sorted(found, [e \in found |-> EntryKey(e, p)])

Candidate(system, language, confidence) ==
  [system |-> system, language |-> language, confidence |-> confidence]

\* The first of these languages that a source file has names a makefile's.
InferMakeLanguage(r) ==
  LET present == r.csources \cup r.others
                   \cup (IF \E f \in r.files : f.py THEN {"python"} ELSE {})
      known   == SelectSeq(<<"c++", "c", "python", "go", "rust">>,
                           LAMBDA l : l \in present)
  IN  IF known = <<>> THEN NoLanguage ELSE Head(known)

MakeCandidates(r) ==
  {Candidate("make", InferMakeLanguage(r), 95) :
     m \in r.manifests \cap {"Makefile"}}

PackageCandidates(r, entries) ==
  LET packaged == \E e \in entries :
                    e.kind \in {"python-entrypoint", "python-module"}
  IN  {Candidate("python-package", "python", IF packaged THEN 90 ELSE 82) :
         m \in r.manifests \cap {"pyproject.toml"}}

\* Both kinds of script are candidates of one build system.
ScriptCandidates(entries) ==
  LET python == {e \in entries : /\ e.kind \in {"python-script", "executable-file"}
                                 /\ e.language = "python"}
      other  == {e \in entries : e.kind = "executable-file" /\ e.language # "python"}
  IN  {Candidate("script", "python", 84) : x \in {1} \cap {If(python # {}, 1)}}
        \cup {Candidate("script", "script", 72) : x \in {1} \cap {If(other # {}, 1)}}

\* A single C-family source without makefile or CMakeLists.txt.
SingleSourceCandidates(r) ==
  IF Cardinality(r.csources) = 1 /\ r.manifests \cap {"Makefile", "CMakeLists.txt"} = {}
    THEN {Candidate("c-single", l, 76) : l \in r.csources}
    ELSE {}

ManifestOnly ==
  {<<"Cargo.toml", Candidate("cargo", "rust", 72)>>,
   <<"go.mod", Candidate("go", "go", 72)>>,
   <<"pom.xml", Candidate("maven", "java", 68)>>,
   <<"build.gradle", Candidate("gradle", "java", 68)>>,
   <<"CMakeLists.txt", Candidate("cmake", "c/c++", 68)>>}

ManifestOnlyCandidates(r) ==
  {entry[2] : entry \in {m \in ManifestOnly : m[1] \in r.manifests}}

SystemOrder == <<"c-single", "cargo", "cmake", "go", "gradle", "make", "maven",
                 "python-package", "script">>
BuildKey(c) ==
  <<-c.confidence, CHOOSE i \in DOMAIN SystemOrder : SystemOrder[i] = c.system>>

\* Mutant: candidates of one build system stay beside each other.
KeepDuplicates(candidates) == candidates

\* _dedupe_build_candidates: the best candidate of each build system.
Dedupe(candidates) ==
  {c \in candidates : \A d \in candidates :
     d.system = c.system => ~Before(BuildKey(d), BuildKey(c))}

AllBuilds(r, entries) ==
  UNION {MakeCandidates(r), PackageCandidates(r, entries), ScriptCandidates(entries),
         SingleSourceCandidates(r), ManifestOnlyCandidates(r)}

RankBuildCandidates(r, entries) ==
  LET all == AllBuilds(r, entries)
  IN  Sorted(Dedupe(all), [c \in all |-> BuildKey(c)])

\* The entrypoint the warning about equal ranks says is selected.
TiedSelection(entries) ==
  IF Len(entries) > 1 /\ entries[2].confidence = entries[1].confidence
    THEN entries[1].path ELSE NoPrimary.text

\* analyze_repository
Analyze(r, p) ==
  LET entries == RankEntrypoints(r.files, p)
      builds  == RankBuildCandidates(r, ToSet(entries))
  IN  [entrypoints |-> entries, builds |-> builds,
       language |-> IF builds # <<>> /\ builds[1].language # NoLanguage
                      THEN builds[1].language
                    ELSE IF entries # <<>> THEN entries[1].language
                    ELSE NoLanguage,
       system |-> IF builds = <<>> THEN NoSystem ELSE builds[1].system,
       warned |-> TiedSelection(entries)]

\* _entrypoint_candidate_schema: only the exact name or path counts here.
MatchesExactly(e, p) == p.text # "" /\ p.text \in {e.name, e.path}

EntrypointSchema(e, p) ==
  IF MatchesExactly(e, p) THEN [e EXCEPT !.confidence = 100] ELSE e

\* init_task ranks once more by confidence and path; Python's sort is stable.
SpecKey(e) == <<-e.confidence, e.order, e.rank>>
Rerank(entries, p) ==
  LET ranked == {[EntrypointSchema(entries[i], p) EXCEPT !.rank = i] :
                   i \in DOMAIN entries}
  IN  Sorted(ranked, [e \in ranked |-> SpecKey(e)])

\* The task spec init_task writes.
InitTask(r, p) ==
  LET analysis == Analyze(r, p)
  IN  [analysis EXCEPT !.entrypoints = Rerank(analysis.entrypoints, p)]
-----------------------------------------------------------------------------
(* What is true of every task spec.                                        *)

\* A spec has one build candidate for every build system the repository offers,
\* the best of that system, in the order of their confidence, and names the
\* system of the first.
BestCandidatePerSystem(spec, r, p) ==
  /\ \A i, j \in DOMAIN spec.builds :
       i < j => /\ spec.builds[i].system # spec.builds[j].system
                /\ spec.builds[i].confidence >= spec.builds[j].confidence
  /\ \A c \in AllBuilds(r, ToSet(RankEntrypoints(r.files, p))) :
       \E i \in DOMAIN spec.builds : /\ spec.builds[i].system = c.system
                                    /\ spec.builds[i].confidence >= c.confidence
  /\ spec.builds # <<>> => spec.system = spec.builds[1].system

\* An executable or path given exactly as it is named with --primary-binary is
\* the first entrypoint of the spec, whatever the two rankings say.
ExactPrimaryIsFirst(spec, p) ==
  (\E i \in DOMAIN spec.entrypoints : MatchesExactly(spec.entrypoints[i], p))
    => MatchesExactly(spec.entrypoints[1], p)

\* The adapter registry refuses the spec that init_task writes in one case
\* only: a makefile in a repository whose language is taken to be Python, by
\* its sources or, where they say nothing, by the entrypoint that ranks first.
\* The Python adapter is first and matches by language; for Go or Rust sources
\* the C adapter, which knows make, comes first.
RefusedOnlyPythonMakefile(spec, r, p) ==
  LET entries == RankEntrypoints(r.files, p)
  IN  ~BackendGranted(spec.language, spec.system, "auto")
        <=> /\ "Makefile" \in r.manifests
            /\ \/ InferMakeLanguage(r) = "python"
               \/ /\ InferMakeLanguage(r) = NoLanguage
                  /\ entries # <<>> /\ entries[1].language = "python"
=============================================================================
