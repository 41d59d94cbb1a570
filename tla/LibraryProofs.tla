------------------------------ MODULE LibraryProofs ------------------------------
(***************************************************************************)
(* The file manager library.  For any set of handles and any filters: no   *)
(* search but the current one stays open, and a listing gives every file   *)
(* before it gives nil.  And what is proved of walks, listings and the hash *)
(* each alone (here, in FileManagerProofs, FileAccountsProofs and          *)
(* FileHashProofs) holds of the library.                                   *)
(***************************************************************************)
EXTENDS MCFileManager, FiniteSetTheorems, SequenceTheorems, TLAPS

\* The first m entries that the script got are different files.
Different(m) ==
  /\ \A k \in 1 .. m : given[k] \in matching
  /\ \A k, l \in 1 .. m : given[k] = given[l] => k = l

Underway ==
  /\ FirstNextHandle # NoHandle /\ toFind \subseteq matching
  /\ Len(given) = Cardinality(matching \ toFind) /\ Len(given) > 0
  /\ Different(Len(given)) /\ LAST_FIRSTNEXT_DATA = given[Len(given)]
  /\ \A k \in 1 .. Len(given) : given[k] \notin toFind

\* All files were given, and something that is not nil.
Over ==
  /\ FirstNextHandle = NoHandle
  /\ Len(given) > Cardinality(matching) /\ Different(Cardinality(matching))

Progress == IF matching = {} THEN FirstNextHandle = NoHandle
            ELSE Underway \/ Over

\* What can be given.
Records == (UNION Filters) \cup {NoRecord, Nil}

ListTypes ==
  /\ FirstNextHandle \in Handles \cup {NoHandle}
  /\ IsFiniteSet(matching) /\ {NoRecord, Nil} \cap matching = {}
  /\ matching \in Filters \cup {{}} /\ LAST_FIRSTNEXT_DATA \in Records
  /\ given \in Seq(Records)

ListInv ==
  /\ ListTypes /\ NoSearchLeaks
  /\ IF given = <<>> THEN FirstNextHandle = NoHandle ELSE Progress
-----------------------------------------------------------------------------
\* What a sequence is after an element was appended.
LEMMA Appended ==
  ASSUME NEW S, NEW s \in Seq(S), NEW e \in S
  PROVE  /\ Append(s, e) \in Seq(S) /\ Append(s, e) # <<>>
         /\ Len(s) \in Nat /\ Len(Append(s, e)) = Len(s) + 1
         /\ Append(s, e)[Len(s) + 1] = e
         /\ \A k \in 1 .. Len(s) : Append(s, e)[k] = s[k]
<1>1. /\ Append(s, e) \in Seq(S) /\ Len(s) \in Nat
      /\ Len(Append(s, e)) = Len(s) + 1
      /\ Append(s, e)[Len(s) + 1] = e
      /\ \A k \in 1 .. Len(s) : Append(s, e)[k] = s[k]
  BY AppendProperties, LenProperties
<1>2. Append(s, e) # <<>>
  BY <1>1, EmptySeq, SMT
<1> QED
  BY <1>1, <1>2

LEMMA ClosedFacts ==
  ASSUME NoSearchLeaks
  PROVE  Closed = {} /\ (FirstNextHandle = NoHandle => searches = {})
BY DEF NoSearchLeaks, Closed

LEMMA InitListInv ==
  ASSUME ListInit
  PROVE  ListInv
<1>1. IsFiniteSet({}) /\ given = <<>> /\ matching = {}
  BY FS_EmptySet DEF ListInit
<1>2. given \in Seq(Records) /\ NoRecord \in Records
  BY <1>1 DEF Records
<1> QED
  BY <1>1, <1>2 DEF ListInit, ListInv, ListTypes, NoSearchLeaks

LEMMA GetFirstKeeps ==
  ASSUME ListInv, GetFirst
  PROVE  ListInv'
<1>1. NoSearchLeaks
  BY DEF ListInv
<1>2. PICK found \in Filters :
        /\ matching' = found
        /\ IF found = {}
             THEN /\ FirstNextHandle' = NoHandle /\ searches' = Closed
                  /\ given' = <<LAST_FIRSTNEXT_DATA>>
                  /\ UNCHANGED <<toFind, LAST_FIRSTNEXT_DATA>>
             ELSE \E e \in found, h \in Handles \ Closed :
                    /\ FirstNextHandle' = h /\ searches' = Closed \cup {h}
                    /\ toFind' = found \ {e} /\ LAST_FIRSTNEXT_DATA' = e
                    /\ given' = <<e>>
  BY DEF GetFirst
<1>3. IsFiniteSet(found) /\ {NoRecord, Nil} \cap found = {} /\ NoHandle \notin Handles
  BY ListingAssumption
<1>4. Closed = {}
  BY <1>1, ClosedFacts
<1>5. CASE found = {}
  <2>1. given' \in Seq(Records) /\ given' # <<>>
    <3>1. LAST_FIRSTNEXT_DATA \in Records
      BY DEF ListInv, ListTypes
    <3>2. given' = <<LAST_FIRSTNEXT_DATA>>
      BY <1>2, <1>5
    <3> HIDE DEF Records
    <3> QED
      BY <3>1, <3>2, SMT
  <2>2. ListTypes' /\ NoSearchLeaks'
    BY <1>2, <1>3, <1>4, <1>5, <2>1 DEF ListTypes, NoSearchLeaks
  <2>3. Progress'
    BY <1>2, <1>5 DEF Progress
  <2> QED
    BY <2>1, <2>2, <2>3 DEF ListInv
<1>6. CASE found # {}
  <2>1. PICK e \in found, h \in Handles :
          /\ FirstNextHandle' = h /\ searches' = Closed \cup {h}
          /\ toFind' = found \ {e} /\ LAST_FIRSTNEXT_DATA' = e
          /\ given' = <<e>>
    BY <1>2, <1>6
  <2>a. e \in Records
    BY <2>1 DEF Records
  <2>2. /\ given' \in Seq(Records) /\ given' # <<>>
        /\ Len(given') = 1 /\ given'[1] = e /\ 1 .. Len(given') = {1}
        /\ Len(given') > 0
    BY <1>2, <2>1, <2>a
  <2>3. ListTypes' /\ NoSearchLeaks'
    BY <1>2, <1>3, <1>4, <2>1, <2>2, <2>a DEF ListTypes, NoSearchLeaks
  <2>4. Cardinality(matching' \ toFind') = 1
    <3>1. matching' \ toFind' = {e}
      BY <1>2, <2>1
    <3> QED
      BY <3>1, FS_Singleton
  <2>5. Underway'
    BY <1>2, <1>3, <2>1, <2>2, <2>4 DEF Underway, Different
  <2>6. matching' # {}
    BY <1>2, <1>6
  <2> QED
    BY <2>2, <2>3, <2>5, <2>6 DEF ListInv, Progress
<1> QED
  BY <1>5, <1>6

LEMMA GetFirstRefusedKeeps ==
  ASSUME ListInv, GetFirstRefused
  PROVE  ListInv'
<1>1. /\ FirstNextHandle' = NoHandle /\ searches' = Closed
      /\ matching' = {} /\ given' = <<Nil>>
      /\ LAST_FIRSTNEXT_DATA' = LAST_FIRSTNEXT_DATA
  BY DEF GetFirstRefused
<1>2. Closed = {} /\ IsFiniteSet({})
  BY ClosedFacts, FS_EmptySet DEF ListInv
<1>3. given' \in Seq(Records) /\ given' # <<>>
  BY <1>1 DEF Records
<1> QED
  BY <1>1, <1>2, <1>3 DEF ListInv, ListTypes, NoSearchLeaks, Progress

\* The search goes on, with a file that was not given before.
LEMMA NextFound ==
  ASSUME ListInv, NEW e \in toFind, Underway, matching # {},
         LAST_FIRSTNEXT_DATA' = e, given' = Append(given, e),
         toFind' = toFind \ {e}, UNCHANGED <<FirstNextHandle, searches, matching>>
  PROVE  ListInv'
<1> DEFINE n == Len(given)
<1>1. ListTypes /\ NoSearchLeaks /\ e \in matching /\ e \in Records
  BY DEF ListInv, Underway, ListTypes, Records
<1>2. /\ given' \in Seq(Records) /\ given' # <<>>
      /\ n \in Nat /\ Len(given') = n + 1
      /\ given'[n + 1] = e /\ \A k \in 1 .. n : given'[k] = given[k]
  BY <1>1, Appended DEF ListTypes
<1>3. Cardinality(matching' \ toFind') = n + 1
  <2>1. matching' \ toFind' = (matching \ toFind) \cup {e} /\ e \notin matching \ toFind
    BY <1>1
  <2>2. IsFiniteSet(matching \ toFind)
    BY <1>1, FS_Difference DEF ListTypes
  <2>3. Cardinality((matching \ toFind) \cup {e}) = Cardinality(matching \ toFind) + 1
    BY <2>1, <2>2, FS_AddElement
  <2> QED
    BY <2>1, <2>3 DEF Underway
<1>4. \A k \in 1 .. Len(given') : k \in 1 .. n \/ k = n + 1
  BY <1>2
<1>5. \A k \in 1 .. n : given[k] # e
  BY DEF Underway
<1>6. Different(Len(given))'
  <2>1. \A k \in 1 .. Len(given') : given'[k] \in matching'
    BY <1>1, <1>2, <1>4 DEF Underway, Different
  <2>2. \A k, l \in 1 .. Len(given') : given'[k] = given'[l] => k = l
    <3> SUFFICES ASSUME NEW k \in 1 .. Len(given'), NEW l \in 1 .. Len(given'),
                        given'[k] = given'[l]
                 PROVE  k = l
      OBVIOUS
    <3>1. (k \in 1 .. n \/ k = n + 1) /\ (l \in 1 .. n \/ l = n + 1)
      BY <1>4
    <3>2. CASE k \in 1 .. n /\ l \in 1 .. n
      BY <1>2, <3>2 DEF Underway, Different
    <3>3. CASE k \in 1 .. n /\ l = n + 1
      BY <1>2, <1>5, <3>3
    <3>4. CASE k = n + 1 /\ l \in 1 .. n
      BY <1>2, <1>5, <3>4
    <3> QED
      BY <3>1, <3>2, <3>3, <3>4
  <2> QED
    BY <2>1, <2>2 DEF Different
<1>7. \A k \in 1 .. Len(given') : given'[k] \notin toFind'
  BY <1>2, <1>4 DEF Underway
<1>8. Len(given') > 0
  BY <1>2
<1>9. Underway'
  BY <1>1, <1>2, <1>3, <1>6, <1>7, <1>8 DEF Underway
<1>10. ListTypes' /\ NoSearchLeaks'
  BY <1>1, <1>2 DEF ListTypes, NoSearchLeaks
<1> QED
  BY <1>2, <1>9, <1>10 DEF ListInv, Progress

\* The search is over: the record is still the last file's.
LEMMA NextOver ==
  ASSUME ListInv, toFind = {}, Underway, matching # {},
         given' = Append(given, LAST_FIRSTNEXT_DATA), FirstNextHandle' = NoHandle,
         searches' = Closed, UNCHANGED <<matching, LAST_FIRSTNEXT_DATA>>
  PROVE  ListInv'
<1>1. ListTypes /\ NoSearchLeaks
  BY DEF ListInv
<1>n. PICK n \in Nat : n = Len(given)
  BY <1>1, LenProperties DEF ListTypes
<1>2. n > 0 /\ n \in 1 .. n
  BY <1>n DEF Underway
<1>3. LAST_FIRSTNEXT_DATA = given[n] /\ given[n] \in matching
  BY <1>n, <1>2 DEF Underway, Different
<1>4. /\ given' \in Seq(Records) /\ given' # <<>>
      /\ Len(given') = n + 1 /\ \A k \in 1 .. n : given'[k] = given[k]
  BY <1>n, <1>1, Appended DEF ListTypes
<1>5. n = Cardinality(matching')
  <2>1. matching \ toFind = matching
    OBVIOUS
  <2> QED
    BY <1>n, <2>1 DEF Underway
<1>6. Different(n)'
  BY <1>n, <1>4 DEF Underway, Different
<1>7. Len(given') > n
  BY <1>4
<1>8. Over'
  BY <1>5, <1>6, <1>7 DEF Over
<1>9. ListTypes' /\ NoSearchLeaks'
  BY <1>1, <1>4, ClosedFacts DEF ListTypes, NoSearchLeaks
<1> QED
  BY <1>4, <1>8, <1>9 DEF ListInv, Progress

LEMMA GetNextKeeps ==
  ASSUME ListInv, GetNext
  PROVE  ListInv'
<1>1. FirstNextHandle # NoHandle /\ UNCHANGED matching
  BY DEF GetNext
<1>2. matching # {} /\ Underway
  BY <1>1 DEF ListInv, Progress, Over
<1> QED
  BY <1>1, <1>2, NextFound, NextOver DEF GetNext

LEMMA GetNextNilKeeps ==
  ASSUME ListInv, GetNextNil
  PROVE  ListInv'
<1> DEFINE n == Len(given)
<1>1. /\ FirstNextHandle = NoHandle /\ given # <<>>
      /\ given' = Append(given, Nil)
      /\ UNCHANGED <<FirstNextHandle, searches, toFind, LAST_FIRSTNEXT_DATA,
                     matching>>
  BY DEF GetNextNil
<1>2. ListTypes /\ NoSearchLeaks /\ Progress /\ Nil \in Records
  BY <1>1 DEF ListInv, Records
<1>3. /\ given' \in Seq(Records) /\ given' # <<>>
      /\ n \in Nat /\ Len(given') = n + 1
      /\ \A k \in 1 .. n : given'[k] = given[k]
  BY <1>1, <1>2, Appended DEF ListTypes
<1>4. ListTypes' /\ NoSearchLeaks'
  BY <1>1, <1>2, <1>3 DEF ListTypes, NoSearchLeaks
<1>5. CASE matching = {}
  BY <1>1, <1>3, <1>4, <1>5 DEF ListInv, Progress
<1>6. CASE matching # {}
  <2>1. Over
    BY <1>1, <1>2, <1>6 DEF Progress, Underway
  <2>2. Cardinality(matching) \in Nat
    BY <1>2, FS_CardinalityType DEF ListTypes
  <2>3. /\ \A k \in 1 .. Cardinality(matching) : k \in 1 .. n
        /\ Len(given') > Cardinality(matching)
    BY <1>3, <2>1, <2>2 DEF Over
  <2>4. Over'
    BY <1>1, <1>3, <2>1, <2>3 DEF Over, Different
  <2> QED
    BY <1>1, <1>3, <1>4, <1>6, <2>4 DEF ListInv, Progress
<1> QED
  BY <1>5, <1>6

LEMMA CollectFileKeeps ==
  ASSUME ListInv, CollectFile
  PROVE  ListInv'
<1>1. /\ FirstNextHandle' = NoHandle /\ searches' = Closed /\ given' = <<>>
      /\ matching' = matching /\ LAST_FIRSTNEXT_DATA' = NoRecord
  BY DEF CollectFile
<1>2. Closed = {}
  BY ClosedFacts DEF ListInv
<1>3. given' \in Seq(Records) /\ NoRecord \in Records
  BY <1>1 DEF Records
<1> QED
  BY <1>1, <1>2, <1>3 DEF ListInv, ListTypes, NoSearchLeaks

THEOREM ListInvariance == ListSpec => []ListInv
<1>1. ListInit => ListInv
  BY InitListInv
<1>2. ListInv /\ [ListNext]_listVars => ListInv'
  <2> SUFFICES ASSUME ListInv, [ListNext]_listVars
               PROVE  ListInv'
    OBVIOUS
  <2>1. CASE ListNext
    BY <2>1, GetFirstKeeps, GetFirstRefusedKeeps, GetNextKeeps, GetNextNilKeeps,
       CollectFileKeeps DEF ListNext
  <2>2. CASE UNCHANGED listVars
    BY <2>2 DEF listVars, ListInv, ListTypes, NoSearchLeaks, Progress, Underway,
       Over, Different
  <2> QED
    BY <2>1, <2>2
<1> QED
  BY <1>1, <1>2, PTL DEF ListSpec

\* However listings are begun, broken off and begun again, no search but the
\* current one is open (FileManager.cpp, GetFirstNextFile).
THEOREM NoSearchLeaksHolds == ListSpec => []NoSearchLeaks
<1>1. ListInv => NoSearchLeaks
  BY DEF ListInv
<1> QED
  BY <1>1, ListInvariance, PTL

\* A listing gives every file its filter finds, each once, before it gives nil
\* (FileManager.cpp, GetFirstNextFile).
THEOREM ListsAllHolds == ListSpec => []ListsAll
<1>1. ListInv => ListsAll
  <2> SUFFICES ASSUME ListInv, given # <<>>, matching # {}
               PROVE  ListsAll
    BY DEF ListsAll
  <2>1. /\ ListTypes /\ Progress /\ Nil \notin matching
        /\ Len(given) \in Nat /\ Cardinality(matching) \in Nat
    BY LenProperties, FS_CardinalityType DEF ListInv, ListTypes
  <2>2. PICK m \in Nat, n \in Nat : m = Len(given) /\ n = Cardinality(matching)
    BY <2>1
  <2>3. Last(given) = given[m] /\ DOMAIN given = 1 .. m
    BY <2>1, <2>2, LenProperties DEF Last, ListTypes
  <2>4. CASE Underway
    <3>1. m > 0 /\ Different(m)
      BY <2>2, <2>4 DEF Underway
    <3>2. m \in 1 .. m
      BY <3>1
    <3>3. Last(given) # Nil
      BY <2>1, <2>3, <3>1, <3>2 DEF Different
    <3> QED
      BY <2>2, <2>3, <3>1, <3>3 DEF ListsAll, Different
  <2>5. CASE Over
    <3>1. m > n /\ Different(n)
      BY <2>2, <2>5 DEF Over
    <3> QED
      BY <2>2, <2>3, <3>1 DEF ListsAll, Different
  <2> QED
    BY <2>1, <2>4, <2>5, matching # {} DEF Progress
<1> QED
  BY <1>1, ListInvariance, PTL

-----------------------------------------------------------------------------
\* Every behaviour of the library is one of the walks, of the listings and of the
\* hash: each keeps its own state, and none uses that of another.
THEOREM LibraryComposes == LibrarySpec => Spec /\ ListSpec /\ HashSpec
<1>1. LibraryInit => Init /\ ListInit /\ HashInit
  BY DEF LibraryInit
<1>2. LibraryNext => [Next]_vars
  BY DEF LibraryNext, Next, Calls, Steps, Walks, Listing, Hashing
<1>3. LibraryNext => [ListNext]_listVars
  BY DEF LibraryNext, ListNext, Walks, Listing, Hashing
<1>4. LibraryNext => [HashNext]_hashVars
  BY DEF LibraryNext, HashNext, Walks, Listing, Hashing
<1>5. [LibraryNext]_libraryVars =>
        [Next]_vars /\ [ListNext]_listVars /\ [HashNext]_hashVars
  BY <1>2, <1>3, <1>4 DEF libraryVars
<1> QED
  BY <1>1, <1>5, PTL DEF LibrarySpec, Spec, ListSpec, HashSpec
=============================================================================
