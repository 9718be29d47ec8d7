--------------------------- MODULE MCTaskRelease ---------------------------
EXTENDS TaskRelease

File(place, name, suffix, text) ==
  [place |-> place, name |-> name, suffix |-> suffix, text |-> text]

readme   == File("", "readme", "md", "clean")
usage    == File("", "usage", "txt", "mention")
table    == File("data", "table", "json", "clean")
helper   == File("docs", "helper", "py", "clean")
hint     == File("docs/testing", "hint", "txt", "clean")
fixture  == File("hidden_tests", "fixture", "json", "clean")

PathsMC == <<readme, table, helper, hint, fixture, usage>>

\* A source file among the docs of both; of the other files, that of the first
\* passes the leak check, each of the second is treated in its own way.
ReposMC == {{helper, table}, {helper, hint, fixture}}
=============================================================================
