SPECIFICATION ConsoleSpec
CONSTANTS
  MaxLines = 5
  PeekAfter = 1
  TypedLimits <- SomeLimits
  LineLengths <- SomeLengths
INVARIANT TypeOK NoDangling AllAccounted ShowsLatest
PROPERTY ImplementsPrintLog LinesAreHandled
