----------------------------- MODULE MCFileManager -----------------------------
(* The file manager library for TLC: its walks over a small disk (a folder *)
(* with a file, a folder with a file and a folder with a file, and an      *)
(* empty folder), its listings and its hash.  These share no state, so a   *)
(* behaviour is of one of them, and the others rest.                       *)
EXTENDS FileManager, FileListing, FileHash

SmallTree ==
  [n \in Nodes \ {Root} |->
     CASE n \in {"a", "e", "f"} -> "r"
       [] n \in {"b", "g"} -> "a"
       [] OTHER -> "b"]

\* Nothing; a file in the place of the inner folder, and one to overwrite; all
\* folders, and one in the place of a file.
SmallDestinations ==
  LET At(folders, files) ==
        [n \in Nodes |-> IF n \in folders THEN "folder"
                         ELSE IF n \in files THEN "old" ELSE "none"]
  IN {At({}, {}), At({"a"}, {"b", "g"}), At({"a", "b", "e", "h"}, {"g"})}

\* None, the folder of the call, and one inside it.
SomeUnsearchable == {{}, {Root}, {"a"}}

SomeAnswers == {-1, 0, 2}

-----------------------------------------------------------------------------
VARIABLE part

libraryVars == <<vars, listVars, hashVars, part>>

LibraryInit ==
  Init /\ ListInit /\ HashInit /\ part \in {"walks", "listing", "hash"}

Walks == part = "walks" /\ UNCHANGED <<listVars, hashVars, part>>
Listing == part = "listing" /\ UNCHANGED <<vars, hashVars, part>>
Hashing == part = "hash" /\ UNCHANGED <<vars, listVars, part>>

\* Next, ListNext and HashNext, action by action.
LibraryNext ==
  \/ Walks /\ CallForeach
  \/ Walks /\ FileTraversal
  \/ Walks /\ CallDestroy
  \/ Walks /\ CallCount
  \/ Walks /\ CallCopy
  \/ Walks /\ Visit
  \/ Walks /\ FMTravFails
  \/ Walks /\ Walked
  \/ Walks /\ WalkReturns
  \/ Walks /\ NotEmpty
  \/ Walks /\ DestroySubfolder
  \/ Walks /\ DestroyFile
  \/ Walks /\ RemoveFolder
  \/ Walks /\ CountEntry
  \/ Walks /\ Counted
  \/ Walks /\ CopyBegins
  \/ Walks /\ CopyCancelled
  \/ Walks /\ CopyFolder
  \/ Walks /\ CopySkips
  \/ Walks /\ CopyFile
  \/ Walks /\ CopyDone
  \/ Walks /\ CountReturns
  \/ Walks /\ Gone
  \/ Listing /\ GetFirst
  \/ Listing /\ GetFirstRefused
  \/ Listing /\ GetNext
  \/ Listing /\ GetNextNil
  \/ Listing /\ CollectFile
  \/ Hashing /\ HashFails
  \/ Hashing /\ HashStarts
  \/ Hashing /\ ReadByte
  \/ Hashing /\ HashRest
  \/ Hashing /\ Pad
  \/ Hashing /\ AddLength

\* Once called, a walk is not interrupted.
LibrarySpec ==
  LibraryInit /\ [][LibraryNext]_libraryVars /\ WF_vars(Steps)
=============================================================================
