\* Reports while loaders replace the perf map, and their encodings.
SPECIFICATION MCSpec
CONSTANTS
  d1 = d1
  d2 = d2
  Loaders = {d1, d2}
  Reporter = reporter
  NoMap = NoMap
  Lines <- MCLines
  Cuts <- MCCuts
  MaxLines = 2
  MaxSecond = 2
  RawNames <- MCRawNames
  Demangle <- MCDemangle
  Files <- MCFiles
  LineNumbers <- MCLineNumbers
  ThreadIds <- MCThreadIds
  ThreadNames <- MCThreadNames
  Timestamps = {1}
  Frequency = 3
  Nanos = 1000
  Entries <- MCEntries
  Ips <- MCIps
  DebugInfo <- MCDebugInfo
  OsName <- MCOsName
  NoName = NoName
  MaxThreadName = 3
  Rename <- MCRename
SYMMETRY MCSymmetry
INVARIANTS
  PerfMapTypeOK
  ResolverFromFile
  StaleOnlyIfRaced
  ReportShowsEntries
  TablesResolve
  SameAsFlamegraph
  SymbolsExact
  ThreadLabelsDiffer
PROPERTY MapStays
CHECK_DEADLOCK FALSE
