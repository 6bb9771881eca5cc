SPECIFICATION FairSpec
CONSTANTS
  Process = {p1, p2}
  File = {"main", "a", "b"}
  Root = "main"
  Stdlib = {"b"}
  Removable = {"main"}
  Text <- MCText
  Parses <- MCParses
  Imports <- MCImports
  Absent = Absent
  NoCache = NoCache
  Torn = Torn
INVARIANTS RunsCurrent
PROPERTIES ErrorsAreReal RunsEnd
