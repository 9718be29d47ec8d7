------------------------ MODULE CoverageMeasurement ------------------------
(***************************************************************************)
(* The coverage part of an iteration: run_registered_coverage selects a    *)
(* backend by the language of the spec, the Python adapter runs the tests  *)
(* under coverage.py, the native one builds an instrumented copy and runs  *)
(* gcov on each source, and the controller writes what came of it.  A      *)
(* CoverageError becomes an unavailable report; a command that does not    *)
(* end in time raises something else and ends the run.                     *)
(* coverage.py, compilers and gcov are external: gcov, given a data file,  *)
(* fails or finds no lines, and writes nothing, or reports the source that *)
(* file is of, whatever source it was asked for, and lists its lines if it *)
(* can open it.                                                            *)
(***************************************************************************)
EXTENDS CoverageRanges

CONSTANTS
  Projects,    \* see ProjectType
  Sources,     \* see SourceType
  Iterations,  \* of a run, from 0
  MaxRuns,     \* bound on the runs
  None         \* no such file or value

\* place: the source's path, in the order of sorted paths; stem: its name
\* without suffix; size: its executable lines; missed: those that the tests
\* leave out; spans: its functions, where the adapter looks for them; built:
\* the program is made of it.
SourceType == [place : Nat, name : STRING, stem : STRING, size : Nat \ {0},
               missed : SUBSET (Nat \ {0}), spans : SUBSET SpanType, built : BOOLEAN]

\* naming: the data file of x.c is x.gcno or x.c.gcno; absolute: the compiler
\* was given absolute paths, so that gcov finds the source from anywhere.
ProjectType == [language : {"python", "c", "go", "other"},
                system : {"make", "cmake", "c-single", "other"},
                sources : SUBSET Sources, naming : {"stem", "name"}, absolute : BOOLEAN]

\* Of two sources, one comes first; the name gives the stem; and the native
\* adapter looks for no functions.
ASSUME MeasurementAssumption ==
  /\ Iterations \in Nat \ {0} /\ MaxRuns \in Nat
  /\ None \notin Int \cup Sources
  /\ Sources \subseteq SourceType
  /\ \A s \in Sources : IsFiniteSet(s.missed) /\ Laminar(s.spans)
  /\ \A p \in Projects :
       /\ p \in ProjectType /\ IsFiniteSet(p.sources)
       /\ \A s, t \in p.sources : /\ s.place = t.place => s = t
                                  /\ s.name = t.name => s.stem = t.stem
       /\ p.language # "python" => \A s \in p.sources : s.spans = {}

VARIABLES
  project,  \* the repository and its spec
  reports,  \* coverage_report_iteration_<n>.json
  markers,  \* coverage_unavailable_report_iteration_<n>.json
  marker,   \* coverage_unavailable_report.json
  pc,       \* the next step of the run in progress
  iteration,
  todo,     \* sources for which gcov has not run
  silent,   \* sources whose data file gcov prints no executed lines of
  gcovFile, \* <name>.gcov of the working directory: the source it is of
  summaries,\* what was parsed of each source
  result,   \* the report in memory
  runs,     \* runs begun
  reported  \* history: iterations of this run with a report

disk == <<reports, markers, marker>>
work  == <<todo, silent, gcovFile, summaries, result>>
vars  == <<project, disk, pc, iteration, work, runs, reported>>

Numbers == 0 .. Iterations - 1

Init ==
  /\ project \in Projects
  /\ reports = [n \in Numbers |-> None] /\ markers = [n \in Numbers |-> None]
  /\ marker = None /\ pc = "idle" /\ iteration = 0
  /\ todo = {} /\ silent = {} /\ gcovFile = <<>> /\ summaries = {} /\ result = None
  /\ runs = 0 /\ reported = {}
-----------------------------------------------------------------------------
(* Reports.                                                                *)

Total(counts) == SumFunctionOnSet(counts, DOMAIN counts)

\* coverage_unavailable_report
Unavailable == [available |-> FALSE, covered |-> None, lines |-> None, gaps |-> {}]

Measured(covered, lines, gaps) ==
  [available |-> TRUE, covered |-> IF lines = 0 THEN None ELSE covered,
   lines |-> lines, gaps |-> gaps]

\* How a gap names its file: coverage.py by its path, gcov by its name.
Path(s)     == <<s.name, s.place>>
BareName(s) == <<s.name>>

Gaps(file, ranges) == {[file |-> file, range |-> r] : r \in ToSet(ranges)}

Covered(s) == s.size - Cardinality(s.missed)

CoveredOf(sources) == Total([s \in sources |-> Covered(s)])
SizeOf(sources)    == Total([s \in sources |-> s.size])

\* coverage.py measures the files that the program imports.
Imported == {s \in project.sources : s.built}

\* coverage_report_from_json.
PythonReport ==
  Measured(CoveredOf(Imported), SizeOf(Imported),
           UNION {Gaps(Path(s), MissingRanges(s.missed, s.spans)) : s \in Imported})

\* Mutant: the percentages of the sources count alike.
Unweighted ==
  LET n == Cardinality(summaries)
      lines == Total([x \in summaries |-> x.lines])
      parts == Total([x \in summaries |-> (100 * x.covered) \div x.lines])
  IN  IF n = 0 THEN Unavailable
      ELSE Measured((parts * lines) \div (100 * n), lines, UNION {x.gaps : x \in summaries})

\* The percentages of the sources, weighted with their lines.
NativeReport ==
  IF summaries = {} THEN Unavailable
  ELSE Measured(Total([x \in summaries |-> x.covered]), Total([x \in summaries |-> x.lines]),
                UNION {x.gaps : x \in summaries})
-----------------------------------------------------------------------------
(* Steps.                                                                  *)

Goto(here, there) == pc = here /\ pc' = there

Keep == UNCHANGED <<project, disk, iteration, work, runs, reported>>

Deliver(r) ==
  /\ result' = r /\ pc' = "report"
  /\ UNCHANGED <<project, disk, iteration, todo, silent, gcovFile, summaries, runs, reported>>

\* A command: it works, or the adapter raises CoverageError, or it does not
\* end in time and subprocess.TimeoutExpired ends the run.
Command(here, there) ==
  /\ pc = here
  /\ \/ pc' = there /\ Keep
     \/ Deliver(Unavailable)
     \/ pc' = "idle" /\ Keep

Begin ==
  /\ pc = "idle" /\ runs < MaxRuns /\ runs' = runs + 1
  /\ pc' = "select" /\ iteration' = 0 /\ reported' = {}
  /\ project' \in Projects
  /\ todo' = {} /\ silent' = {} /\ gcovFile' = <<>> /\ summaries' = {} /\ result' = None
  /\ UNCHANGED disk

\* CoverageBackendRegistry.select: the language first, then the build system.
Backend ==
  IF project.language = "python" THEN "python"
  ELSE IF project.language = "c" \/ project.system # "other" THEN "native"
  ELSE "none"

Select ==
  /\ pc = "select"
  /\ \/ Backend = "python" /\ pc' = "coverage.py" /\ Keep
     \/ Backend = "native" /\ pc' = "build" /\ Keep
     \/ Backend = "none" /\ Deliver(Unavailable)

\* The tests path or the program may be missing, or coverage.py.
EnsureCoverage == Command("coverage.py", "pytest")
RunPytest      == Command("pytest", "combine")
Combine        == Command("combine", "json")

\* Without data there is nothing to export.
ExportJson     == Command("json", "parse") /\ (pc' = "parse" => Imported # {})
ParseJson      == pc = "parse" /\ Deliver(PythonReport)

\* instrument_build: make clean, then the build, in a fresh copy of the
\* repository; a program must be found in it.
BuildInstrumented == Command("build", "gcov?")

\* gcov may be missing, the store may have no canonical case, or one may fail.
RunInstrumented ==
  /\ pc = "gcov?"
  /\ \/ /\ pc' = "gcov" /\ summaries' = {} /\ gcovFile' = <<>>
        /\ todo' = project.sources /\ silent' \in SUBSET Imported
        /\ UNCHANGED <<project, disk, iteration, result, runs, reported>>
     \/ Deliver(Unavailable)

\* A data file of another name than the source's or its stem's is not tried.
DataName(s) == IF project.naming = "stem" THEN s.stem ELSE s.name

First(sources) == CHOOSE s \in sources : \A t \in sources : s.place <= t.place

\* _gcov_object_targets and _run_gcov_for_source: of the data files that could
\* be of a source, the first by path about which gcov prints "Lines executed:".
Target(s) ==
  LET fits == {t \in Imported \ silent : DataName(t) \in {s.stem, s.name}}
  IN  IF fits = {} THEN None ELSE First(fits)

\* What this call of gcov or an earlier one left in <name of s>.gcov, if gcov
\* could open the source; the file of a gap is named without its directory.
Listing(s, written) ==
  IF s.name \in DOMAIN written /\ project.absolute
    THEN Gaps(BareName(s), CollapseRanges(written[s.name].missed)) ELSE {}

\* A source without such a file is left out of the report.
RunGcov ==
  /\ pc = "gcov" /\ todo # {} /\ todo' = todo \ {First(todo)}
  /\ LET s == First(todo)
         t == Target(s)
     IN  \/ t = None /\ UNCHANGED <<pc, gcovFile, summaries>>
         \/ /\ t # None /\ pc' = pc
            /\ gcovFile' = [n \in DOMAIN gcovFile \cup {t.name} |->
                              IF n = t.name THEN t ELSE gcovFile[n]]
            /\ summaries' = summaries \cup
                 {[source |-> s, covered |-> Covered(t), lines |-> t.size,
                   gaps |-> Listing(s, gcovFile')]}
         \/ pc' = "idle" /\ UNCHANGED <<gcovFile, summaries>>
  /\ UNCHANGED <<project, disk, iteration, silent, result, runs, reported>>

ParseGcov == pc = "gcov" /\ todo = {} /\ Deliver(NativeReport)

\* write_coverage_artifacts, which the controller calls for errors too.
WriteReport ==
  /\ Goto("report", IF result.available THEN "next" ELSE "marker")
  /\ reports' = [reports EXCEPT ![iteration] = result]
  /\ reported' = reported \cup {iteration}
  /\ UNCHANGED <<project, markers, marker, iteration, work, runs>>

\* Mutant: only the latest marker is written.
WriteLatest ==
  /\ Goto("marker", "next") /\ marker' = iteration
  /\ UNCHANGED <<project, reports, markers, iteration, work, runs, reported>>

WriteMarkers ==
  /\ Goto("marker", "next")
  /\ markers' = [markers EXCEPT ![iteration] = result] /\ marker' = iteration
  /\ UNCHANGED <<project, reports, iteration, work, runs, reported>>

\* The next iteration, with other tests, or the end of the run.
Continue ==
  /\ pc = "next"
  /\ \/ pc' = "idle" /\ UNCHANGED iteration
     \/ iteration + 1 < Iterations /\ iteration' = iteration + 1 /\ pc' = "select"
  /\ UNCHANGED <<project, disk, work, runs, reported>>

Measure ==
  \/ Select \/ EnsureCoverage \/ RunPytest \/ Combine \/ ExportJson \/ ParseJson
  \/ BuildInstrumented \/ RunInstrumented \/ RunGcov \/ ParseGcov
  \/ WriteReport \/ WriteMarkers \/ Continue

Kill == pc # "idle" /\ pc' = "idle" /\ Keep

Next == Begin \/ Measure \/ Kill

Spec == Init /\ [][Next]_vars
-----------------------------------------------------------------------------
TypeOK ==
  /\ iteration \in Numbers /\ reported \subseteq Numbers
  /\ marker \in Numbers \cup {None}
  /\ todo \subseteq project.sources

\* A report, in memory or written by any run, that says it is available states
\* a coverage, and one that does not states neither coverage nor gaps.
AvailableMeansMeasured ==
  \A r \in {result} \cup {reports[n] : n \in Numbers} :
    r # None => /\ r.available = (r.covered # None)
                /\ ~r.available => r.gaps = {}

GapFile(s) == IF Backend = "python" THEN Path(s) ELSE BareName(s)

\* The sources that a report is over: those that the program is made of, for C
\* without those that gcov is silent about, which the report does not mention.
Counted == IF Backend = "python" THEN Imported ELSE Imported \ silent

\* The coverage reported is that of all the sources counted and no others, each
\* with its own lines, of which there is one at least, and the gaps are the
\* lines that the tests left out of them: for C if no source has the name or the
\* stem of another, and for the gaps if the compiler was given absolute paths
\* (coverage/adapters.py:355-412, 760-803).
MeasuresTheProgram ==
  LET Listed   == Backend = "python" \/ project.absolute
      Distinct == \A s, t \in project.sources :
                    s # t => {s.name, s.stem} \cap {t.name, t.stem} = {}
  IN  pc = "report" /\ result.available /\ (Backend = "python" \/ Distinct) =>
        /\ Counted # {}
        /\ result.covered = CoveredOf(Counted) /\ result.lines = SizeOf(Counted)
        /\ UNION {{<<g.file, l>> : l \in g.range.start .. g.range.end} : g \in result.gaps}
             = IF Listed THEN UNION {{<<GapFile(s), l>> : l \in s.missed} : s \in Counted}
               ELSE {}

\* Once an iteration is over, each iteration of this run whose report says
\* that there is no coverage has a marker that says the same, and the marker
\* without a number is of the last of them.
UnavailableIsMarked ==
  LET unavailable == {n \in reported : ~reports[n].available}
  IN  pc \in {"next", "select"} /\ unavailable # {} =>
        /\ \A n \in unavailable : markers[n] = reports[n]
        /\ marker = Max(unavailable)

\* _missing_ranges, _function_for_line and _collapse_ranges: the gaps of a file
\* lie apart; every line of a gap is in the function that the gap names, the
\* smallest around it; and no gap could be longer.
GapsArePrecise ==
  pc = "report" /\ result.available =>
    \A s \in Imported :
      LET ranges      == {g.range : g \in {g \in result.gaps : g.file = GapFile(s)}}
          Around(l)   == {f \in s.spans : Covers(f, l)}
          Smallest(l) == CHOOSE f \in Around(l) :
                           \A g \in Around(l) : f.end - f.start <= g.end - g.start
          Name(l)     == IF Around(l) = {} THEN Module ELSE Smallest(l).name
      IN  /\ \A r \in ranges : \A l \in r.start .. r.end : Name(l) = r.function
          /\ \A p, q \in ranges :
               \/ p = q \/ p.end < q.start - 1 \/ q.end < p.start - 1
               \/ p.function # q.function /\ (p.end < q.start \/ q.end < p.start)

\* Reports and markers say whether coverage was measured (registry.py:104-133).
ReportsAreHonest == TypeOK /\ AvailableMeansMeasured /\ UnavailableIsMarked
=============================================================================
