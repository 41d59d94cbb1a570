------------------------------- MODULE FileManager -------------------------------
(***************************************************************************)
(* The recursive walks of the luafilemanager library: RunForeach, which    *)
(* FileTraversal runs with FMTrav and a Lua function; DestroyFolder;       *)
(* CopyFiles; GetNumberOfFilesInFolder.  All but the last call a function  *)
(* for the entries they meet.  A walk goes on unless the answer is above   *)
(* 0; a deletion or a copy goes on at 0 or less (0 here), skips the entry  *)
(* at 1 and leaves the folder at 2 or more (2 here).  A call is a frame on *)
(* an explicit stack, and one turn of its loop over a folder is one        *)
(* action.                                                                 *)
(*                                                                         *)
(* Paths are nodes of a tree.  The disk may refuse to search a folder, to  *)
(* delete an entry, or to make one.  A copy goes to a place outside the    *)
(* tree, in which each node has a counterpart that may already be there.   *)
(***************************************************************************)
EXTENDS Integers, Sequences, FiniteSets, SequencesExt

CONSTANTS
  Folders, Files,  \* what there is on the disk at first
  Root,            \* the folder the walks are called with
  Parent,          \* the folder of each node but Root
  Unsearchable,    \* bound: what folders the disk refuses to search
  FuncAnswers,     \* bound: what a function called by RunForeach answers
  Sources,         \* bound: the folders that are copied
  Destinations     \* bound: what is at the destination of a copy before it

Nodes == Folders \cup Files

ASSUME TreeAssumption ==
  /\ Root \in Folders /\ Folders \cap Files = {} /\ IsFiniteSet(Nodes)
  /\ Parent \in [Nodes \ {Root} -> Folders]
  /\ \A S \in SUBSET Nodes :  \* every node is somewhere below Root
       Root \in S /\ (\A e \in Nodes \ {Root} : Parent[e] \in S => e \in S) =>
         S = Nodes

ASSUME WalkAssumption ==
  Unsearchable \subseteq SUBSET Folders /\ FuncAnswers \subseteq Int

\* At the destination: nothing, a file that was there, a folder, a copied file.
There == {"none", "old", "folder", "copy"}

ASSUME CopyAssumption ==
  /\ Sources \subseteq Folders
  /\ Destinations \subseteq [Nodes -> There \ {"copy"}]

VARIABLES
  exists,              \* the nodes on the disk
  op,                  \* the function called: RunForeach by C++ code,
                       \* FileTraversal by a script, or another
  nRecursive,          \* argument of RunForeach, CopyFiles and the count
  OnlyDestroyIfEmpty,  \* argument of DestroyFolder
  failIfExists,        \* argument of CopyFiles
  source,              \* the folder of the call
  unsearchable,        \* the folders whose search fails in this call
  dest,                \* the counterpart of each node at a copy's destination
  stack,               \* its frames, the innermost last
  pc,                  \* beginning a copy, in a loop, returning from a frame,
                       \* or done
  ret,                 \* the value being returned
  failed,              \* *failed of DestroyFolder and CopyFiles
  asked,               \* history: what the function was asked and answered
  before               \* history: the nodes there were at the call

call == <<op, nRecursive, OnlyDestroyIfEmpty, failIfExists, source,
          unsearchable>>
hist == <<asked, before>>
disk == <<exists, dest>>
vars == <<disk, call, stack, pc, ret, failed, hist>>

Entries(folder) == {e \in exists \ {Root} : Parent[e] = folder}

\* FindFirstFile.  A search that fails is no error: it finds nothing.
Found(folder) == IF folder \in unsearchable THEN {} ELSE Entries(folder)

\* rest is what the search of the folder will still find.
Frame(folder) ==
  [folder |-> folder, rest |-> Found(folder), nReturn |-> 0, nFailed |-> 0]

Inner == Last(stack)
Outer == Front(stack)

NothingThere == [e \in Nodes |-> "none"]

Init ==
  /\ exists = Nodes
  /\ op = "none" /\ nRecursive = FALSE /\ OnlyDestroyIfEmpty = FALSE
  /\ failIfExists = FALSE /\ source = Root /\ dest = NothingThere
  /\ unsearchable = {}
  /\ stack = <<>> /\ pc = "done" /\ ret = 0 /\ failed = 0 /\ asked = <<>>
  /\ before = Nodes

Begin(name, folder) ==
  /\ pc = "done" /\ op' = name /\ source' = folder
  /\ UNCHANGED exists /\ unsearchable' \in Unsearchable
  /\ stack' = <<Frame(folder)'>>
  /\ ret' = 0 /\ failed' = 0 /\ asked' = <<>> /\ before' = exists

CallWalk(name) ==
  /\ Begin(name, Root) /\ Root \in exists
  /\ pc' = "loop" /\ dest' = NothingThere
  /\ UNCHANGED failIfExists

CallForeach ==
  /\ CallWalk("RunForeach")
  /\ nRecursive' \in BOOLEAN
  /\ UNCHANGED OnlyDestroyIfEmpty

FileTraversal ==
  /\ CallWalk("FileTraversal")
  /\ nRecursive' = TRUE
  /\ UNCHANGED OnlyDestroyIfEmpty

CallDestroy ==
  /\ CallWalk("DestroyFolder")
  /\ OnlyDestroyIfEmpty' \in BOOLEAN
  /\ UNCHANGED nRecursive

CallCount ==
  /\ CallWalk("GetNumberOfFilesInFolder")
  /\ nRecursive' \in BOOLEAN
  /\ UNCHANGED OnlyDestroyIfEmpty

\* With a function: the null pointer is not modelled.
CallCopy ==
  /\ \E folder \in Sources : Begin("CopyFiles", folder)
  /\ pc' = "begin" /\ dest' \in Destinations
  /\ nRecursive' \in BOOLEAN /\ failIfExists' \in BOOLEAN
  /\ UNCHANGED OnlyDestroyIfEmpty

Return(value) == pc' = "return" /\ ret' = value

\* The entry e of the innermost folder was dealt with; a folder may be entered.
Passed(e) == [Inner EXCEPT !.rest = @ \ {e}]
GoOn(frame) == stack' = Append(Outer, frame) /\ UNCHANGED <<pc, ret>>
Enter(e) == stack' = Outer \o <<Passed(e), Frame(e)>> /\ UNCHANGED <<pc, ret>>

Ask(e, answer) ==
  /\ asked' = Append(asked, [node |-> e, answer |-> answer])
  /\ UNCHANGED before

-----------------------------------------------------------------------------
(* RunForeach.                                                             *)

Walking == op \in {"RunForeach", "FileTraversal"}

Answers == IF op = "FileTraversal" THEN 0 .. 1 ELSE FuncAnswers

\* FMTrav reads the Lua function's result from the wrong place of the Lua
\* stack, where it always finds 0.
Heard(answer) == IF op = "FileTraversal" THEN 0 ELSE answer

\* Mutant: the search of the folder around is lost when another is entered.
VisitShallow ==
  /\ pc = "loop" /\ Walking
  /\ \E e \in Inner.rest, answer \in Answers :
       /\ Ask(e, answer)
       /\ IF Heard(answer) > 0 THEN Return(1) /\ UNCHANGED stack
          ELSE IF nRecursive /\ e \in Folders
            THEN stack' = Append(Outer, Frame(e)) /\ UNCHANGED <<pc, ret>>
          ELSE GoOn(Passed(e))
  /\ UNCHANGED <<disk, call, failed>>

Visit ==
  /\ pc = "loop" /\ Walking
  /\ \E e \in Inner.rest, answer \in Answers :
       /\ Ask(e, answer)
       /\ IF Heard(answer) > 0 THEN Return(1) /\ UNCHANGED stack
          ELSE IF nRecursive /\ e \in Folders THEN Enter(e)
          ELSE GoOn(Passed(e))
  /\ UNCHANGED <<disk, call, failed>>

\* What is recorded of a Lua function that fails.
LuaError == 2

\* Mutant: a Lua error leaves the innermost frame only.
FMTravFailsInside ==
  /\ pc = "loop" /\ op = "FileTraversal"
  /\ \E e \in Inner.rest : Ask(e, LuaError)
  /\ stack' = Outer /\ pc' = "done" /\ ret' = 0
  /\ UNCHANGED <<disk, call, failed>>

\* luaL_error in FMTrav leaves every frame.
FMTravFails ==
  /\ pc = "loop" /\ op = "FileTraversal"
  /\ \E e \in Inner.rest : Ask(e, LuaError)
  /\ stack' = <<>> /\ pc' = "done" /\ ret' = 0
  /\ UNCHANGED <<disk, call, failed>>

Walked ==
  /\ pc = "loop" /\ Walking /\ Inner.rest = {}
  /\ Return(0)
  /\ UNCHANGED <<disk, call, stack, failed, hist>>

\* Mutant: a folder inside that was stopped does not stop the one around it.
WalkReturnsUnheard ==
  /\ pc = "return" /\ Walking
  /\ stack' = Outer
  /\ pc' = IF Outer = <<>> THEN "done" ELSE "loop"
  /\ UNCHANGED <<disk, call, ret, failed, hist>>

\* A walk that was stopped stops the one around it.
WalkReturns ==
  /\ pc = "return" /\ Walking
  /\ stack' = Outer
  /\ pc' = IF Outer = <<>> THEN "done" ELSE IF ret > 0 THEN "return" ELSE "loop"
  /\ UNCHANGED <<disk, call, ret, failed, hist>>

-----------------------------------------------------------------------------
(* DestroyFolder.                                                          *)

NotEmpty ==
  /\ pc = "loop" /\ op = "DestroyFolder" /\ OnlyDestroyIfEmpty
  /\ Inner.rest # {}
  /\ Return(0)
  /\ UNCHANGED <<disk, call, stack, failed, hist>>

Destroying == pc = "loop" /\ op = "DestroyFolder" /\ ~OnlyDestroyIfEmpty

DestroySubfolder ==
  /\ Destroying
  /\ \E e \in Inner.rest \cap Folders : Enter(e)
  /\ UNCHANGED <<disk, call, failed, hist>>

\* Mutant: a 1 of the function is taken for a 0.
DestroyFileUnasked ==
  /\ Destroying
  /\ \E e \in Inner.rest \cap Files :
       \/ /\ Ask(e, 2)
          /\ Return(Inner.nReturn)
          /\ UNCHANGED <<exists, stack>>
       \/ /\ \E answer \in 0 .. 1 : Ask(e, answer)
          /\ exists' = exists \ {e}
          /\ GoOn([Passed(e) EXCEPT !.nReturn = @ + 1])
  /\ UNCHANGED <<dest, call, failed>>

\* A file: the function is asked (without one the answer is 0).  On 2 the frame
\* returns, and leaves its nFailed out of *failed.
DestroyFile ==
  /\ Destroying
  /\ \E e \in Inner.rest \cap Files :
       \/ /\ Ask(e, 2)
          /\ Return(Inner.nReturn)
          /\ UNCHANGED <<exists, stack>>
       \/ /\ Ask(e, 1)
          /\ GoOn(Passed(e))
          /\ UNCHANGED exists
       \/ /\ Ask(e, 0)
          /\ exists' = exists \ {e}
          /\ GoOn([Passed(e) EXCEPT !.nReturn = @ + 1])
       \/ /\ Ask(e, 0)
          /\ GoOn([Passed(e) EXCEPT !.nFailed = @ + 1])
          /\ UNCHANGED exists
  /\ UNCHANGED <<dest, call, failed>>

\* Mutant: a folder that cannot be removed is tried again.
RemoveFolderRetries ==
  /\ pc = "loop" /\ op = "DestroyFolder" /\ Inner.rest = {}
  /\ \/ /\ Entries(Inner.folder) = {}
        /\ exists' = exists \ {Inner.folder}
        /\ Return(Inner.nReturn + 1)
        /\ failed' = failed + Inner.nFailed
     \/ UNCHANGED <<exists, pc, ret, failed>>
  /\ UNCHANGED <<dest, call, stack, hist>>

\* RemoveDirectory, which refuses a folder that is not empty.
RemoveFolder ==
  /\ pc = "loop" /\ op = "DestroyFolder" /\ Inner.rest = {}
  /\ \/ /\ Entries(Inner.folder) = {}
        /\ exists' = exists \ {Inner.folder}
        /\ Return(Inner.nReturn + 1)
        /\ failed' = failed + Inner.nFailed
     \/ /\ Return(Inner.nReturn)
        /\ failed' = failed + Inner.nFailed + 1
        /\ UNCHANGED exists
  /\ UNCHANGED <<dest, call, stack, hist>>

-----------------------------------------------------------------------------
(* GetNumberOfFilesInFolder.                                               *)

Counting == pc = "loop" /\ op = "GetNumberOfFilesInFolder"

\* Mutant: only what is in folders inside is counted, not the folders.
CountFilesOnly ==
  /\ Counting
  /\ \E e \in Inner.rest :
       IF nRecursive /\ e \in Folders THEN Enter(e)
       ELSE GoOn([Passed(e) EXCEPT !.nReturn = @ + 1])
  /\ UNCHANGED <<disk, call, failed, hist>>

CountEntry ==
  /\ Counting
  /\ \E e \in Inner.rest :
       LET counted == [Passed(e) EXCEPT !.nReturn = @ + 1] IN
         IF nRecursive /\ e \in Folders
           THEN stack' = Outer \o <<counted, Frame(e)>> /\ UNCHANGED <<pc, ret>>
           ELSE GoOn(counted)
  /\ UNCHANGED <<disk, call, failed, hist>>

Counted ==
  /\ Counting /\ Inner.rest = {}
  /\ Return(Inner.nReturn)
  /\ UNCHANGED <<disk, call, stack, failed, hist>>

-----------------------------------------------------------------------------
(* CopyFiles.                                                              *)

Copying == pc = "loop" /\ op = "CopyFiles"

\* Mutant: a copy goes on in a folder that was not made.
CopyBeginsAnyway ==
  /\ pc = "begin"
  /\ pc' = IF Inner.folder \in exists \ unsearchable THEN "loop" ELSE "return"
  /\ \/ dest' = [dest EXCEPT ![Inner.folder] = "folder"]
     \/ UNCHANGED dest
  /\ ret' = 0
  /\ UNCHANGED <<exists, call, stack, failed, hist>>

\* EnsureFolderExistance, whose answer is not looked at: without the folder, or
\* with a search that fails, the copy returns 0 and leaves *failed as it is.
CopyBegins ==
  /\ pc = "begin"
  /\ \/ /\ dest[Inner.folder] \in {"none", "folder"}
        /\ dest' = [dest EXCEPT ![Inner.folder] = "folder"]
        /\ pc' = IF Inner.folder \in exists \ unsearchable
                   THEN "loop" ELSE "return"
     \/ /\ dest[Inner.folder] # "folder"
        /\ pc' = "return"
        /\ UNCHANGED dest
  /\ ret' = 0
  /\ UNCHANGED <<exists, call, stack, failed, hist>>

CopyCancelled ==
  /\ Copying
  /\ \E e \in Inner.rest : Ask(e, 2)
  /\ Return(Inner.nReturn)
  /\ UNCHANGED <<disk, call, stack, failed>>

\* A folder is entered, also when the answer was 1.
CopyFolder ==
  /\ Copying /\ nRecursive
  /\ \E e \in Inner.rest \cap Folders, answer \in 0 .. 1 :
       Ask(e, answer) /\ stack' = Outer \o <<Passed(e), Frame(e)>>
  /\ pc' = "begin"
  /\ UNCHANGED <<disk, call, ret, failed>>

\* What CopyFile is asked to copy: not a folder that is entered.
Copied == IF nRecursive THEN Inner.rest \cap Files ELSE Inner.rest

CopySkips ==
  /\ Copying
  /\ \E e \in Copied : Ask(e, 1) /\ GoOn(Passed(e))
  /\ UNCHANGED <<disk, call, failed>>

\* Mutant: a file that was already there counts as copied.
CopyFileCountsOld ==
  /\ Copying
  /\ \E e \in Copied :
       /\ Ask(e, 0)
       /\ \/ /\ e \in Files /\ dest[e] # "folder"
             /\ dest' = IF dest[e] = "old" /\ failIfExists THEN dest
                        ELSE [dest EXCEPT ![e] = "copy"]
             /\ GoOn([Passed(e) EXCEPT !.nReturn = @ + 1])
             /\ UNCHANGED failed
          \/ /\ failed' = failed + 1
             /\ GoOn(Passed(e))
             /\ UNCHANGED dest
  /\ UNCHANGED <<exists, call>>

\* CopyFile refuses a folder, and a file where a folder is or, with
\* failIfExists, a file; and it may fail.
CopyFile ==
  /\ Copying
  /\ \E e \in Copied :
       /\ Ask(e, 0)
       /\ \/ /\ e \in Files
             /\ dest[e] \in IF failIfExists THEN {"none"} ELSE {"none", "old"}
             /\ dest' = [dest EXCEPT ![e] = "copy"]
             /\ GoOn([Passed(e) EXCEPT !.nReturn = @ + 1])
             /\ UNCHANGED failed
          \/ /\ failed' = failed + 1
             /\ GoOn(Passed(e))
             /\ UNCHANGED dest
  /\ UNCHANGED <<exists, call>>

\* The folder itself counts.
CopyDone ==
  /\ Copying /\ Inner.rest = {}
  /\ Return(Inner.nReturn + 1)
  /\ UNCHANGED <<disk, call, stack, failed, hist>>

-----------------------------------------------------------------------------
(* The three that count.                                                   *)

\* Mutant: the count of the folder inside replaces the one so far.
CountReturnsForgetting ==
  /\ pc = "return" /\ ~Walking
  /\ IF Outer = <<>>
       THEN stack' = <<>> /\ pc' = "done"
       ELSE /\ stack' = [Outer EXCEPT ![Len(Outer)].nReturn = ret]
            /\ pc' = "loop"
  /\ UNCHANGED <<disk, call, ret, failed, hist>>

\* The count is added to that of the folder around it, which goes on, even
\* when the function answered 2.
CountReturns ==
  /\ pc = "return" /\ ~Walking
  /\ IF Outer = <<>>
       THEN stack' = <<>> /\ pc' = "done"
       ELSE /\ stack' = [Outer EXCEPT ![Len(Outer)].nReturn = @ + ret]
            /\ pc' = "loop"
  /\ UNCHANGED <<disk, call, ret, failed, hist>>

-----------------------------------------------------------------------------
Calls ==
  CallForeach \/ FileTraversal \/ CallDestroy \/ CallCount \/ CallCopy

Steps ==
  Visit \/ FMTravFails \/ Walked \/ WalkReturns \/ NotEmpty
    \/ DestroySubfolder \/ DestroyFile \/ RemoveFolder
    \/ CountEntry \/ Counted \/ CopyBegins \/ CopyCancelled \/ CopyFolder
    \/ CopySkips \/ CopyFile \/ CopyDone \/ CountReturns

Gone == pc = "done" /\ Root \notin exists /\ UNCHANGED vars

Next == Calls \/ Steps \/ Gone

Spec == Init /\ [][Next]_vars

-----------------------------------------------------------------------------
\* The frames and the counts, which the tree bounds.
TypeOK ==
  /\ exists \subseteq Nodes
  /\ op \in {"none", "RunForeach", "FileTraversal", "DestroyFolder",
             "GetNumberOfFilesInFolder", "CopyFiles"}
  /\ nRecursive \in BOOLEAN /\ OnlyDestroyIfEmpty \in BOOLEAN
  /\ failIfExists \in BOOLEAN /\ source \in Folders /\ dest \in [Nodes -> There]
  /\ stack \in Seq([folder : Folders, rest : SUBSET Nodes,
                   nReturn : 0 .. Cardinality(Nodes),
                   nFailed : 0 .. Cardinality(Nodes)])
  /\ pc \in {"begin", "loop", "return", "done"} /\ (pc = "done" <=> stack = <<>>)
  /\ ret \in 0 .. Cardinality(Nodes) /\ failed \in 0 .. Cardinality(Nodes)
  /\ asked \in Seq([node : Nodes, answer : Int]) /\ unsearchable \subseteq Folders

Asked == {asked[k].node : k \in DOMAIN asked}
AskedWith(answers) ==
  {asked[k].node : k \in {l \in DOMAIN asked : asked[l].answer \in answers}}

\* S is what is on the disk below Root, as far as the searches show it.
Reached(S) ==
  /\ S \subseteq exists \ {Root}
  /\ \A e \in exists \ {Root} :
       e \in S <=> /\ Parent[e] \notin unsearchable
                  /\ \/ Parent[e] = Root
                     \/ (nRecursive \/ op = "DestroyFolder") /\ Parent[e] \in S

\* The k-th answer ends the walk: a number above 0, or a Lua error.
Stops(k) ==
  IF op = "FileTraversal" THEN asked[k].answer = LuaError
  ELSE asked[k].answer > 0

\* A walk that was not stopped, and every FileTraversal without a Lua error, has
\* called the function for each entry its searches reached, once, for a folder
\* before what is in it.  (A folder that cannot be searched is passed over in
\* silence.)
VisitsAll ==
  Walking =>
    /\ \A k, l \in DOMAIN asked :
         /\ asked[k].node = asked[l].node => k = l
         /\ asked[k].node # Root /\ Parent[asked[k].node] = asked[l].node =>
              l < k
    /\ pc = "done" /\ (\A k \in DOMAIN asked : ~Stops(k)) => Reached(Asked)

\* An answer above 0 ends RunForeach at all levels: the function is not called
\* again, and the call returns 1.  It returns 0 otherwise, also when it goes on
\* after an answer below 0.
StopsAtOnce ==
  Walking =>
    /\ \A k \in 1 .. Len(asked) - 1 : ~Stops(k)
    /\ pc = "done" =>
         (ret = 1 <=> op = "RunForeach" /\ \E k \in DOMAIN asked : Stops(k))

\* DestroyFolder's result counts the files and the folders that are gone, those
\* it lost before the disk refused something included.  Unless it was cancelled,
\* *failed counts what it tried and could not remove: what is left, but for the
\* files it was told to skip and what is behind a folder it could not search.
DestroyAccounts ==
  op = "DestroyFolder" /\ pc = "done" =>
    /\ ret = Cardinality(before \ exists)
    /\ ~OnlyDestroyIfEmpty /\ AskedWith({2}) = {} =>
         \E S \in SUBSET exists :
           /\ Reached(S)
           /\ failed = Cardinality(S \cup ({Root} \cap exists))
                        - Cardinality(AskedWith({1}))

\* A file the function kept or cancelled at is still there afterwards, and so
\* are the folders above it.
KeptFilesStay ==
  /\ op = "DestroyFolder" => AskedWith({1, 2}) \subseteq exists
  /\ \A e \in exists \ {Root} : Parent[e] \in exists

\* GetNumberOfFilesInFolder counts the entries its searches reach, files and
\* folders alike, each once.
CountsAll ==
  op = "GetNumberOfFilesInFolder" /\ pc = "done" =>
    \E S \in SUBSET exists : Reached(S) /\ ret = Cardinality(S)

\* The folders that were made at the destination and searched.
Entered ==
  {f \in (exists \cap Folders) \ unsearchable :
     /\ dest[f] = "folder"
     /\ f = source \/ (nRecursive /\ f \in AskedWith({0, 1}))}

CancelledIn(f) == \E e \in AskedWith({2}) : e # Root /\ Parent[e] = f

\* No entry is asked about twice, and none in a folder that was not made or not
\* searched.  A copy that was not cancelled asks about every entry of each folder
\* it went into.
CopyAsks ==
  op = "CopyFiles" =>
    /\ \A k, l \in DOMAIN asked : asked[k].node = asked[l].node => k = l
    /\ \A e \in Asked : Parent[e] \in Entered
    /\ pc = "done" /\ AskedWith({2}) = {} =>
         \A f \in Entered : Entries(f) \subseteq Asked

\* CopyFiles returns the number of files it wrote, and one more for each folder
\* it got to the end of.  *failed counts what it asked CopyFile for in vain; a
\* folder that could not be made or searched is in neither.
CopyAccounts ==
  op = "CopyFiles" /\ pc = "done" =>
    LET written == {e \in Files : dest[e] = "copy"} IN
      /\ written \subseteq AskedWith({0})
      /\ ret = Cardinality(written)
               + Cardinality({f \in Entered : ~CancelledIn(f)})
      /\ failed = Cardinality(
           IF nRecursive THEN (AskedWith({0}) \cap Files) \ written
           ELSE AskedWith({0}) \ written)

\* A walk ends.
WalkEnds == pc # "done" ~> pc = "done"

-----------------------------------------------------------------------------
(* What FileManager.h says and the code does not do.                       *)

\* FileManager.h:41: "If non-zero RunForEach and RunForAll will stop and return
\* the number that was passed."
NonZeroStops ==
  op = "RunForeach" => \A k \in DOMAIN asked :
    asked[k].answer # 0 =>
      k = Len(asked) /\ (pc = "done" => ret = asked[k].answer)

\* FileManager.h:100: "Returns the number of files deleted".
FilesDeletedReturned ==
  op = "DestroyFolder" /\ pc = "done" =>
    ret = Cardinality((before \ exists) \cap Files)

\* FileManager.h:102: "if 2 the operation is cancelled": nothing is asked about
\* or removed after that.
DestroyCancels ==
  [][op = "DestroyFolder" /\ pc # "done" /\ AskedWith({2}) # {} =>
       UNCHANGED <<asked, exists>>]_vars

\* FileManager.h:105: "Returns the number of files in a folder, includes
\* subfolders if includeSubfolders > 0": read of the number of files there, and
\* in the subfolders.
FilesCounted ==
  op = "GetNumberOfFilesInFolder" /\ pc = "done" /\ unsearchable = {} =>
    ret = Cardinality(Files \cap IF nRecursive THEN exists ELSE Entries(Root))

\* FileManager.h:68: "if the function returns a value higher then 1 the function
\* is terminated".
CopyTerminated ==
  op = "CopyFiles" => \A k \in DOMAIN asked : asked[k].answer > 1 =>
    k = Len(asked)

\* FileManager.h:69: "returns the number of files copied".
FilesCopiedReturned ==
  op = "CopyFiles" /\ pc = "done" =>
    ret = Cardinality({e \in Files : dest[e] = "copy"})
=============================================================================
