------------------------------- MODULE FileListing -------------------------------
(***************************************************************************)
(* GetFirst and GetNext of the luafilemanager library, which a script      *)
(* calls in turn: a search that stays open between the calls, and one      *)
(* record, which the library hands out over and over.                      *)
(***************************************************************************)
EXTENDS Naturals, FiniteSets, SequencesExt

CONSTANTS
  Filters,  \* bound: the sets of files that a filter finds
  Handles   \* bound: handles of searches

NoHandle == "NULL"
NoRecord == "no record"  \* what a new CFileManager has in its record
Nil == "nil"

ASSUME ListingAssumption ==
  /\ \A found \in Filters : IsFiniteSet(found) /\ {NoRecord, Nil} \cap found = {}
  /\ NoHandle \notin Handles

VARIABLES
  FirstNextHandle,
  searches,             \* the searches that are open
  toFind,               \* what the last one opened will still find
  LAST_FIRSTNEXT_DATA,  \* the record, as the file it is of
  matching,             \* history: the files GetFirst was to find
  given                 \* history: what the script got since

listVars == <<FirstNextHandle, searches, toFind, LAST_FIRSTNEXT_DATA, matching,
              given>>

ListInit ==
  /\ FirstNextHandle = NoHandle /\ searches = {} /\ toFind = {}
  /\ LAST_FIRSTNEXT_DATA = NoRecord
  /\ matching = {} /\ given = <<>>

\* FindClose.
Closed == searches \ {FirstNextHandle}

GetFirst ==
  \E found \in Filters :
    /\ matching' = found
    /\ IF found = {}
         THEN /\ FirstNextHandle' = NoHandle /\ searches' = Closed
              /\ given' = <<LAST_FIRSTNEXT_DATA>>
              /\ UNCHANGED <<toFind, LAST_FIRSTNEXT_DATA>>
         ELSE \E e \in found, h \in Handles \ Closed :
                /\ FirstNextHandle' = h /\ searches' = Closed \cup {h}
                /\ toFind' = found \ {e} /\ LAST_FIRSTNEXT_DATA' = e
                /\ given' = <<e>>

\* FormatPath refuses the filter.
GetFirstRefused ==
  /\ FirstNextHandle' = NoHandle /\ searches' = Closed
  /\ matching' = {} /\ given' = <<Nil>>
  /\ UNCHANGED <<toFind, LAST_FIRSTNEXT_DATA>>

\* Mutant: the record is handed out before FindNextFile writes it.
GetNextBefore ==
  /\ FirstNextHandle # NoHandle
  /\ given' = Append(given, LAST_FIRSTNEXT_DATA)
  /\ \/ \E e \in toFind :
          /\ LAST_FIRSTNEXT_DATA' = e /\ toFind' = toFind \ {e}
          /\ UNCHANGED <<FirstNextHandle, searches>>
     \/ /\ toFind = {}
        /\ FirstNextHandle' = NoHandle /\ searches' = Closed
        /\ UNCHANGED <<toFind, LAST_FIRSTNEXT_DATA>>
  /\ UNCHANGED matching

\* At the end of the search the record is handed out as it is.
GetNext ==
  /\ FirstNextHandle # NoHandle
  /\ \/ \E e \in toFind :
          /\ LAST_FIRSTNEXT_DATA' = e /\ given' = Append(given, e)
          /\ toFind' = toFind \ {e}
          /\ UNCHANGED <<FirstNextHandle, searches>>
     \/ /\ toFind = {}
        /\ FirstNextHandle' = NoHandle /\ searches' = Closed
        /\ given' = Append(given, LAST_FIRSTNEXT_DATA)
        /\ UNCHANGED <<toFind, LAST_FIRSTNEXT_DATA>>
  /\ UNCHANGED matching

GetNextNil ==
  /\ FirstNextHandle = NoHandle
  /\ given # <<>> /\ Last(given) # Nil
  /\ given' = Append(given, Nil)
  /\ UNCHANGED <<FirstNextHandle, searches, toFind, LAST_FIRSTNEXT_DATA,
                 matching>>

\* Mutant: the search is left open.
CollectFileLeaking ==
  /\ FirstNextHandle' = NoHandle /\ LAST_FIRSTNEXT_DATA' = NoRecord
  /\ given' = <<>>
  /\ UNCHANGED <<searches, toFind, matching>>

\* ~CFileManager, in the finalizer; the script has another userdata.
CollectFile ==
  /\ searches' = Closed
  /\ FirstNextHandle' = NoHandle /\ LAST_FIRSTNEXT_DATA' = NoRecord
  /\ given' = <<>>
  /\ UNCHANGED <<toFind, matching>>

ListNext ==
  GetFirst \/ GetFirstRefused \/ GetNext \/ GetNextNil \/ CollectFile

ListSpec == ListInit /\ [][ListNext]_listVars

-----------------------------------------------------------------------------
\* However listings are begun, broken off and begun again, no search but the
\* current one is open.
NoSearchLeaks == searches = {FirstNextHandle} \ {NoHandle}

\* A listing whose filter finds n files gives n different ones of them first, and
\* nil only after that, though one record serves all results.
ListsAll ==
  given # <<>> /\ matching # {} =>
    LET n == Cardinality(matching)
        first == (1 .. n) \cap DOMAIN given
    IN /\ \A k \in first : given[k] \in matching
       /\ \A k, l \in first : given[k] = given[l] => k = l
       /\ Last(given) = Nil => Len(given) > n

\* FileManager.h:80: "Loop though the files with the filefilter": what is given
\* before nil is a file of the filter, and none is given twice.  (The code gives
\* the last one twice, and for a filter without files what is in the record.)
FilesListedOnce ==
  \A k, l \in DOMAIN given : given[k] # Nil =>
    given[k] \in matching /\ (given[k] = given[l] => k = l)
=============================================================================
