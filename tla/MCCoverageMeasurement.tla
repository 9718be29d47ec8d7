----------------------- MODULE MCCoverageMeasurement -----------------------
(***************************************************************************)
(* Projects of up to three sources: in Python; in C, where the compiler is *)
(* given absolute paths or not, and sources have one name or not; in Go;   *)
(* and in no known language.  And Python files with every set of missing   *)
(* lines and up to two functions that are apart, one inside the other, or  *)
(* two of the same name: these are measured in one run only.               *)
(***************************************************************************)
EXTENDS CoverageMeasurement

CONSTANTS FileLines, Names \* of the files with functions

Source(place, name, stem, size, missed, built) ==
  [place |-> place, name |-> name, stem |-> stem, size |-> size,
   missed |-> missed, spans |-> {}, built |-> built]

\* util.c is in two directories; extra.c is compiled into no program.
Main   == Source(1, "main.c", "main", 4, {2, 3}, TRUE)
Util   == Source(2, "util.c", "util", 3, {1, 3}, TRUE)
Extra  == Source(3, "extra.c", "extra", 2, {}, FALSE)
Util2  == Source(4, "util.c", "util", 5, {}, TRUE)

Project(language, system, sources, naming) ==
  [language |-> language, system |-> system, sources |-> sources,
   naming |-> naming, absolute |-> TRUE]

Projects3 ==
  {Project("python", "other", {Main, Util}, "stem"),
   Project("python", "other", {Extra}, "stem"),
   Project("go", "other", {Main}, "stem"),
   Project("other", "other", {Main}, "stem"),
   Project("c", "other", {Extra}, "stem"),
   Project("other", "c-single", {Main, Extra}, "stem"),
   Project("c", "make", {Main, Util, Util2}, "stem"),
   [Project("c", "make", {Main, Util}, "stem") EXCEPT !.absolute = FALSE]}
  \cup {Project("c", system, sources, naming) :
          system \in {"make", "cmake"}, naming \in {"stem", "name"},
          sources \in {{Main, Util, Extra}, {Main}}}

Spans == {s \in [name : Names, start : FileLines, end : FileLines] : s.start <= s.end}

\* Functions of one file do not overlap by half.
Files == {file \in {{}} \cup {{s, t} : s, t \in Spans} : Laminar(file)}

Drafts ==
  {Project("python", "other",
           {[Source(1, "app.py", "app", Cardinality(FileLines), missed, TRUE)
               EXCEPT !.spans = file]}, "stem") :
     missed \in SUBSET FileLines, file \in Files}

MCProjects == Projects3 \cup Drafts
MCSources  == UNION {p.sources : p \in MCProjects}

MCNext ==
  /\ project \in Drafts => runs < 1 \/ pc # "idle"
  /\ \E p \in IF project \in Drafts THEN {project} ELSE Projects3 :
       project' = p /\ Next

MCSpec == Init /\ [][MCNext]_vars
=============================================================================
