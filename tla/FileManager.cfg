SPECIFICATION LibrarySpec
CONSTANTS
  Folders = {"r", "a", "b", "e"}
  Files = {"f", "g", "h"}
  Root = "r"
  Parent <- SmallTree
  Unsearchable <- SomeUnsearchable
  FuncAnswers <- SomeAnswers
  Sources = {"a", "e"}
  Destinations <- SmallDestinations
  Filters = {{}, {"f"}, {"f", "g", "h"}}
  Handles = {"1", "2"}
  Lengths = {0, 1, 54, 55, 56, 63, 64, 65, 98, 99, 100, 118, 119, 120, 128, 163, 199, 200, 228}
INVARIANT TypeOK VisitsAll   KeptFilesStay  CopyAsks  NoSearchLeaks ListsAll DigestOfFile
PROPERTY WalkEnds
