--------------------------- MODULE FileAccountsProofs ---------------------------
(***************************************************************************)
(* For any tree, any answers of the function and any folders that cannot   *)
(* be searched: what the three calls that count return, and what they put  *)
(* into *failed, counts what they did, entry for entry.                    *)
(*                                                                         *)
(* A count is spread over the frames of the stack, and a sum over the      *)
(* stack is out of a first-order prover's reach.  But every unit of it is  *)
(* for one node.  So the invariant says that the nodes counted so far can  *)
(* be charged to the frames, each to one, such that every frame holds the  *)
(* number of those charged to it.  A call that returns has its nodes       *)
(* charged to the frame around; when one frame is left it holds them all.  *)
(***************************************************************************)
EXTENDS FileManagerProofs, FiniteSetTheorems

\* The accounts a[k], k \in K, together count the members of A.
Charges(a, K, A, owner) ==
  \A k \in K : a[k] = Cardinality({x \in A : owner[x] = k})

Ledger(a, K, A) == \E owner \in [A -> K] : Charges(a, K, A, owner)
-----------------------------------------------------------------------------
LEMMA LedgerSame ==
  ASSUME NEW K, NEW A, NEW a, NEW b, Ledger(a, K, A), \A k \in K : b[k] = a[k]
  PROVE  Ledger(b, K, A)
<1>1. PICK owner \in [A -> K] : Charges(a, K, A, owner)
  BY DEF Ledger
<1>2. Charges(b, K, A, owner)
  BY <1>1 DEF Charges
<1> QED
  BY <1>2 DEF Ledger

LEMMA LedgerEmpty ==
  ASSUME NEW K, NEW a, \A k \in K : a[k] = 0
  PROVE  Ledger(a, K, {})
<1> DEFINE owner == [x \in {} |-> x]
<1>1. owner \in [{} -> K]
  OBVIOUS
<1>2. \A k \in K : {x \in {} : owner[x] = k} = {}
  OBVIOUS
<1> HIDE DEF owner
<1>3. Charges(a, K, {}, owner)
  BY <1>2, FS_EmptySet DEF Charges
<1> QED
  BY <1>1, <1>3 DEF Ledger

\* One more is counted.
LEMMA LedgerAdd ==
  ASSUME NEW K, NEW A, IsFiniteSet(A), NEW a, NEW b, Ledger(a, K, A),
         NEW e, e \notin A, NEW j \in K, b[j] = a[j] + 1,
         \A k \in K : k # j => b[k] = a[k]
  PROVE  Ledger(b, K, A \cup {e})
<1>1. PICK owner \in [A -> K] : Charges(a, K, A, owner)
  BY DEF Ledger
<1> DEFINE C == A \cup {e}
           next == [x \in C |-> IF x = e THEN j ELSE owner[x]]
<1>2. next \in [C -> K]
  OBVIOUS
<1>3. /\ {x \in C : next[x] = j} = {x \in A : owner[x] = j} \cup {e}
      /\ \A k \in K : k # j => {x \in C : next[x] = k} = {x \in A : owner[x] = k}
  OBVIOUS
<1> HIDE DEF next
<1>4. Cardinality({x \in A : owner[x] = j} \cup {e}) = Cardinality({x \in A : owner[x] = j}) + 1
  <2>1. IsFiniteSet({x \in A : owner[x] = j}) /\ e \notin {x \in A : owner[x] = j}
    BY FS_Subset
  <2> QED
    BY <2>1, FS_AddElement
<1>5. Charges(b, K, C, next)
  BY <1>1, <1>3, <1>4 DEF Charges
<1> QED
  BY <1>2, <1>5 DEF Ledger

\* An account is opened.
LEMMA LedgerOpen ==
  ASSUME NEW K, NEW A, NEW a, NEW b, Ledger(a, K, A), NEW i, i \notin K,
         \A k \in K : b[k] = a[k], b[i] = 0
  PROVE  Ledger(b, K \cup {i}, A)
<1>1. PICK owner \in [A -> K] : Charges(a, K, A, owner)
  BY DEF Ledger
<1>2. owner \in [A -> K \cup {i}]
  BY <1>1
<1>3. {x \in A : owner[x] = i} = {}
  BY <1>1
<1>4. Charges(b, K \cup {i}, A, owner)
  BY <1>1, <1>3, FS_EmptySet DEF Charges
<1> QED
  BY <1>2, <1>4 DEF Ledger

\* An account is closed, and what it holds goes to another.
LEMMA LedgerMerge ==
  ASSUME NEW K, NEW A, IsFiniteSet(A), NEW a, NEW b, NEW i, i \notin K,
         Ledger(a, K \cup {i}, A), NEW j \in K, b[j] = a[j] + a[i],
         \A k \in K : k # j => b[k] = a[k]
  PROVE  Ledger(b, K, A)
<1>1. PICK owner \in [A -> K \cup {i}] : Charges(a, K \cup {i}, A, owner)
  BY DEF Ledger
<1> DEFINE next == [x \in A |-> IF owner[x] = i THEN j ELSE owner[x]]
           Of(k) == {x \in A : owner[x] = k}
<1>2. next \in [A -> K]
  BY <1>1
<1>3. /\ {x \in A : next[x] = j} = Of(j) \cup Of(i)
      /\ \A k \in K : k # j => {x \in A : next[x] = k} = Of(k)
  OBVIOUS
<1>4. Cardinality(Of(j) \cup Of(i)) = Cardinality(Of(j)) + Cardinality(Of(i))
  <2>1. Of(j) \cap Of(i) = {}
    OBVIOUS
  <2>2. IsFiniteSet(Of(j)) /\ IsFiniteSet(Of(i))
    BY FS_Subset
  <2>3. /\ Cardinality(Of(j)) \in Nat /\ Cardinality(Of(i)) \in Nat
        /\ Cardinality(Of(j) \cap Of(i)) = 0
    BY <2>1, <2>2, FS_CardinalityType, FS_EmptySet
  <2>4. Cardinality(Of(j) \cup Of(i)) =
          Cardinality(Of(j)) + Cardinality(Of(i)) - Cardinality(Of(j) \cap Of(i))
    BY <2>2, FS_Union
  <2> QED
    BY <2>3, <2>4
<1> HIDE DEF next
<1>5. ASSUME NEW k \in K
      PROVE  b[k] = Cardinality({x \in A : next[x] = k})
  <2>1. a[k] = Cardinality(Of(k)) /\ a[j] = Cardinality(Of(j)) /\ a[i] = Cardinality(Of(i))
    BY <1>1 DEF Charges
  <2> HIDE DEF Of
  <2> QED
    BY <1>3, <1>4, <2>1
<1> QED
  BY <1>2, <1>5 DEF Ledger, Charges

\* An account is forgotten.
LEMMA LedgerDrop ==
  ASSUME NEW K, NEW A, NEW a, NEW b, NEW i, i \notin K, Ledger(a, K \cup {i}, A),
         \A k \in K : b[k] = a[k]
  PROVE  \E B \in SUBSET A : Ledger(b, K, B)
<1>1. PICK owner \in [A -> K \cup {i}] : Charges(a, K \cup {i}, A, owner)
  BY DEF Ledger
<1> DEFINE B == {x \in A : owner[x] # i}
           next == [x \in B |-> owner[x]]
<1>2. next \in [B -> K]
  BY <1>1
<1>3. \A k \in K : {x \in B : next[x] = k} = {x \in A : owner[x] = k}
  OBVIOUS
<1> HIDE DEF next
<1>4. Charges(b, K, B, next)
  BY <1>1, <1>3 DEF Charges
<1> QED
  BY <1>2, <1>4 DEF Ledger

\* No account holds more than there is to count.
LEMMA LedgerBound ==
  ASSUME NEW K, NEW A, NEW C, IsFiniteSet(C), A \subseteq C, NEW a,
         Ledger(a, K, A), NEW k \in K
  PROVE  a[k] \in 0 .. Cardinality(C)
<1>1. PICK owner \in [A -> K] : Charges(a, K, A, owner)
  BY DEF Ledger
<1> DEFINE S == {x \in A : owner[x] = k}
<1>2. S \subseteq C /\ a[k] = Cardinality(S)
  BY <1>1 DEF Charges
<1> HIDE DEF S
<1>3. IsFiniteSet(S) /\ Cardinality(S) <= Cardinality(C)
  BY <1>2, FS_Subset
<1>4. Cardinality(S) \in Nat /\ Cardinality(C) \in Nat
  BY <1>3, FS_CardinalityType
<1> QED
  BY <1>2, <1>3, <1>4

\* The only account holds all.
LEMMA LedgerTotal ==
  ASSUME NEW A, NEW a, NEW i, Ledger(a, {i}, A)
  PROVE  a[i] = Cardinality(A)
<1>1. PICK owner \in [A -> {i}] : Charges(a, {i}, A, owner)
  BY DEF Ledger
<1>2. {x \in A : owner[x] = i} = A
  BY <1>1
<1> QED
  BY <1>1, <1>2 DEF Charges

-----------------------------------------------------------------------------
\* The accounts of a call's result: the frames' nReturn, for the innermost what
\* it returns.
Levels == IF pc = "done" THEN 1 ELSE Len(stack)
Books ==
  [k \in 1 .. Levels |->
     IF pc \in {"return", "done"} /\ k = Levels THEN ret ELSE stack[k].nReturn]

\* Those of *failed: itself, and the nFailed of the frames that did not return.
Open ==
  IF pc = "done" THEN 0 ELSE IF pc = "return" THEN Len(stack) - 1 ELSE Len(stack)
Losses == [k \in 0 .. Open |-> IF k = 0 THEN failed ELSE stack[k].nFailed]

OpenFolders == {stack[k].folder : k \in 1 .. Open}

LEMMA UpToNext ==
  ASSUME NEW n \in Nat
  PROVE  /\ 1 .. n + 1 = (1 .. n) \cup {n + 1} /\ 0 .. n + 1 = (0 .. n) \cup {n + 1}
         /\ n + 1 \notin 0 .. n /\ n + 1 \notin 1 .. n
OBVIOUS

\* The accounts in a loop, ...
LEMMA LoopBooks ==
  ASSUME Types, pc \in {"loop", "begin"}
  PROVE  /\ Levels = Len(stack) /\ Open = Len(stack) /\ Len(stack) \in Nat \ {0}
         /\ Len(stack) \in 1 .. Len(stack) /\ 1 .. Len(stack) \subseteq 0 .. Len(stack)
         /\ Inner = stack[Len(stack)] /\ Inner \in FrameType
         /\ \A k \in 1 .. Len(stack) : Books[k] = stack[k].nReturn
         /\ Losses[0] = failed
         /\ \A k \in 1 .. Len(stack) : Losses[k] = stack[k].nFailed
         /\ OpenFolders = {stack[k].folder : k \in 1 .. Len(stack)}
<1>1. /\ Levels = Len(stack) /\ Open = Len(stack) /\ Len(stack) \in Nat \ {0}
      /\ Inner = stack[Len(stack)] /\ Inner \in FrameType
  BY StackFacts DEF Levels, Open
<1>2. Len(stack) \in 1 .. Len(stack) /\ 1 .. Len(stack) \subseteq 0 .. Len(stack)
  BY <1>1
<1>3. \A k \in 1 .. Len(stack) : Books[k] = stack[k].nReturn
  BY <1>1 DEF Books
<1>4. Losses[0] = failed /\ \A k \in 1 .. Len(stack) : Losses[k] = stack[k].nFailed
  BY <1>1 DEF Losses
<1> QED
  BY <1>1, <1>2, <1>3, <1>4 DEF OpenFolders

\* ... after an entry was passed, ...
LEMMA GoOnBooks ==
  ASSUME Types, pc = "loop", NEW f \in FrameType, f.folder = Inner.folder, GoOn(f)
  PROVE  LET n == Len(stack) IN
         /\ Levels' = n /\ Open' = n
         /\ Books'[n] = f.nReturn /\ \A k \in 1 .. n : k # n => Books'[k] = Books[k]
         /\ Losses'[0] = failed' /\ Losses'[n] = f.nFailed
         /\ \A k \in 1 .. n : k # n => Losses'[k] = Losses[k]
         /\ OpenFolders' = OpenFolders
<1> DEFINE n == Len(stack)
<1>1. /\ n \in Nat \ {0} /\ n \in 1 .. n /\ Inner = stack[n]
      /\ \A k \in 1 .. n : Books[k] = stack[k].nReturn
      /\ \A k \in 1 .. n : Losses[k] = stack[k].nFailed
      /\ OpenFolders = {stack[k].folder : k \in 1 .. n}
  BY LoopBooks
<1>2. stack' = Append(Outer, f) /\ pc' = "loop"
  BY DEF GoOn
<1>3. /\ Len(stack') = n /\ stack'[n] = f
      /\ \A k \in 1 .. n - 1 : stack'[k] = stack[k]
  BY <1>2, GoOnFacts
<1>4. \A k \in 1 .. n : k # n => stack'[k] = stack[k]
  <2>1. \A k \in 1 .. n : k # n => k \in 1 .. n - 1
    BY <1>1
  <2> QED
    BY <1>3, <2>1
<1>5. Levels' = n /\ Open' = n
  BY <1>2, <1>3 DEF Levels, Open
<1>6. \A k \in 1 .. n : Books'[k] = stack'[k].nReturn
  BY <1>2, <1>5 DEF Books
<1>7. Losses'[0] = failed' /\ \A k \in 1 .. n : Losses'[k] = stack'[k].nFailed
  BY <1>1, <1>5 DEF Losses
<1>8. OpenFolders' = OpenFolders
  <2>1. \A k \in 1 .. n : stack'[k].folder = stack[k].folder
    BY <1>1, <1>3, <1>4
  <2>2. OpenFolders' = {stack'[k].folder : k \in 1 .. n}
    BY <1>5 DEF OpenFolders
  <2> QED
    BY <1>1, <2>1, <2>2, Zenon
<1> QED
  BY <1>1, <1>3, <1>4, <1>5, <1>6, <1>7, <1>8

\* ... after a folder was entered, ...
LEMMA EnterBooks ==
  ASSUME Types, pc = "loop", NEW f \in FrameType, f.folder = Inner.folder,
         NEW e \in Folders, stack' = Outer \o <<f, Frame(e)>>, pc' \in {"loop", "begin"}
  PROVE  LET n == Len(stack) IN
         /\ Levels' = n + 1 /\ Open' = n + 1
         /\ Books'[n] = f.nReturn /\ Books'[n + 1] = 0
         /\ \A k \in 1 .. n : k # n => Books'[k] = Books[k]
         /\ Losses'[0] = failed' /\ Losses'[n] = f.nFailed /\ Losses'[n + 1] = 0
         /\ \A k \in 1 .. n : k # n => Losses'[k] = Losses[k]
         /\ OpenFolders' = OpenFolders \cup {e}
<1>n. PICK n \in Nat : n = Len(stack)
  BY LoopBooks
<1>1. /\ n \in Nat \ {0} /\ n \in 1 .. n /\ Inner = stack[n]
      /\ \A k \in 1 .. n : Books[k] = stack[k].nReturn
      /\ \A k \in 1 .. n : Losses[k] = stack[k].nFailed
      /\ OpenFolders = {stack[k].folder : k \in 1 .. n}
  BY <1>n, LoopBooks
<1>2. /\ Frame(e) \in FrameType /\ Frame(e).folder = e
      /\ Frame(e).nReturn = 0 /\ Frame(e).nFailed = 0
  BY FrameFacts DEF Frame
<1>3. /\ Len(stack') = n + 1 /\ stack'[n] = f /\ stack'[n + 1] = Frame(e)
      /\ \A k \in 1 .. n - 1 : stack'[k] = stack[k]
  BY <1>n, <1>2, EnterFacts
<1>4. \A k \in 1 .. n : k # n => stack'[k] = stack[k]
  <2>1. \A k \in 1 .. n : k # n => k \in 1 .. n - 1
    BY <1>1
  <2> QED
    BY <1>3, <2>1
<1>5. Levels' = n + 1 /\ Open' = n + 1
  BY <1>3 DEF Levels, Open
<1>6. \A k \in 1 .. n + 1 : Books'[k] = stack'[k].nReturn
  BY <1>5 DEF Books
<1>7. Losses'[0] = failed' /\ \A k \in 1 .. n + 1 : Losses'[k] = stack'[k].nFailed
  <2>1. 0 \in 0 .. n + 1 /\ \A k \in 1 .. n + 1 : k \in 0 .. n + 1 /\ k # 0
    BY <1>1
  <2>2. Losses' = [k \in 0 .. n + 1 |-> IF k = 0 THEN failed' ELSE stack'[k].nFailed]
    BY <1>5 DEF Losses
  <2> QED
    BY <2>1, <2>2
<1>8. 1 .. n + 1 = (1 .. n) \cup {n + 1}
  BY UpToNext
<1>9. OpenFolders' = OpenFolders \cup {e}
  <2>1. \A k \in 1 .. n : stack'[k].folder = stack[k].folder
    BY <1>1, <1>3, <1>4
  <2>2. OpenFolders' = {stack'[k].folder : k \in (1 .. n) \cup {n + 1}}
    BY <1>5, <1>8 DEF OpenFolders
  <2>3. stack'[n + 1].folder = e
    BY <1>2, <1>3
  <2>4. OpenFolders' = {stack'[k].folder : k \in 1 .. n} \cup {e}
    BY <2>2, <2>3
  <2>5. OpenFolders = {stack[k].folder : k \in 1 .. n}
    BY <1>1
  <2>6. {stack'[k].folder : k \in 1 .. n} = {stack[k].folder : k \in 1 .. n}
    BY <2>1
  <2> QED
    BY <2>4, <2>5, <2>6
<1>10. /\ Books'[n] = f.nReturn /\ Books'[n + 1] = 0
       /\ \A k \in 1 .. n : k # n => Books'[k] = Books[k]
  <2>1. /\ \A k \in 1 .. n : Books'[k] = stack'[k].nReturn
        /\ Books'[n + 1] = stack'[n + 1].nReturn
    BY <1>6, <1>8, Zenon
  <2>2. \A k \in 1 .. n : k # n => Books'[k] = Books[k]
    <3>1. \A k \in 1 .. n : Books[k] = stack[k].nReturn
      BY <1>1
    <3> QED
      BY ONLY <1>4, <2>1, <3>1, Zenon
  <2>3. stack'[n].nReturn = f.nReturn /\ stack'[n + 1].nReturn = 0 /\ n \in 1 .. n
    BY <1>1, <1>2, <1>3
  <2> QED
    BY <2>1, <2>2, <2>3
<1>11. /\ Losses'[n] = f.nFailed /\ Losses'[n + 1] = 0
       /\ \A k \in 1 .. n : k # n => Losses'[k] = Losses[k]
  <2>1. /\ \A k \in 1 .. n : Losses'[k] = stack'[k].nFailed
        /\ Losses'[n + 1] = stack'[n + 1].nFailed
    BY <1>7, <1>8, Zenon
  <2>2. \A k \in 1 .. n : k # n => Losses'[k] = Losses[k]
    <3>1. \A k \in 1 .. n : Losses[k] = stack[k].nFailed
      BY <1>1
    <3> QED
      BY ONLY <1>4, <2>1, <3>1, Zenon
  <2>3. stack'[n].nFailed = f.nFailed /\ stack'[n + 1].nFailed = 0 /\ n \in 1 .. n
    BY <1>1, <1>2, <1>3
  <2> QED
    BY <2>1, <2>2, <2>3
<1> QED
  BY <1>n, <1>5, <1>7, <1>9, <1>10, <1>11

\* ... when a frame returns, ...
LEMMA ReturnBooks ==
  ASSUME Types, pc \in {"loop", "begin"}, stack' = stack, pc' = "return"
  PROVE  LET n == Len(stack) IN
         /\ Levels' = n /\ Open' = n - 1
         /\ Books'[n] = ret' /\ \A k \in 1 .. n : k # n => Books'[k] = Books[k]
         /\ Losses'[0] = failed' /\ \A k \in 1 .. n - 1 : Losses'[k] = Losses[k]
         /\ OpenFolders = OpenFolders' \cup {Inner.folder}
         /\ 0 .. n = (0 .. n - 1) \cup {n} /\ n \notin 0 .. n - 1
<1>n. PICK n \in Nat \ {0} : n = Len(stack)
  BY LoopBooks
<1>1. /\ n \in 1 .. n /\ Inner = stack[n]
      /\ \A k \in 1 .. n : Books[k] = stack[k].nReturn
      /\ \A k \in 1 .. n : Losses[k] = stack[k].nFailed
      /\ OpenFolders = {stack[k].folder : k \in 1 .. n}
  BY <1>n, LoopBooks
<1>2. PICK m \in Nat : n = m + 1 /\ n - 1 = m
  <2>1. n - 1 \in Nat /\ n = n - 1 + 1
    OBVIOUS
  <2> QED
    BY <2>1
<1>3. /\ 1 .. n = (1 .. m) \cup {n} /\ 0 .. n = (0 .. m) \cup {n} /\ n \notin 0 .. m
      /\ n \notin 1 .. m
  BY <1>2, UpToNext
<1>4. Levels' = n /\ Open' = m
  BY <1>n, <1>2 DEF Levels, Open
<1>5. Books'[n] = ret' /\ \A k \in 1 .. n : k # n => Books'[k] = Books[k]
  <2>1. Books' = [k \in 1 .. n |-> IF k = n THEN ret' ELSE stack[k].nReturn]
    BY <1>4 DEF Books
  <2> QED
    BY <1>1, <2>1
<1>6. Losses'[0] = failed' /\ \A k \in 1 .. m : Losses'[k] = Losses[k]
  <2>1. Losses' = [k \in 0 .. m |-> IF k = 0 THEN failed' ELSE stack[k].nFailed]
    BY <1>4 DEF Losses
  <2>2. 0 \in 0 .. m /\ \A k \in 1 .. m : k \in 0 .. m /\ k # 0
    OBVIOUS
  <2> QED
    BY <1>1, <1>3, <2>1, <2>2
<1>7. OpenFolders = OpenFolders' \cup {Inner.folder}
  <2>1. OpenFolders' = {stack[k].folder : k \in 1 .. m}
    BY <1>4 DEF OpenFolders
  <2> QED
    BY <1>1, <1>3, <2>1
<1> QED
  BY <1>n, <1>2, <1>3, <1>4, <1>5, <1>6, <1>7

\* ... and when its count is added to the frame around.
LEMMA CountReturnsBooks ==
  ASSUME Types, CountReturns
  PROVE  /\ Open' = Open /\ \A k \in 0 .. Open : Losses'[k] = Losses[k]
         /\ OpenFolders' = OpenFolders
         /\ \/ Levels = 1 /\ Levels' = 1 /\ Books'[1] = Books[1]
            \/ /\ Levels' \in Nat \ {0} /\ Levels = Levels' + 1
               /\ Books'[Levels'] = Books[Levels'] + Books[Levels]
               /\ \A k \in 1 .. Levels' : k # Levels' => Books'[k] = Books[k]
<1>1. /\ pc = "return" /\ failed' = failed /\ ret' = ret
      /\ \/ Outer = <<>> /\ stack' = <<>> /\ pc' = "done"
         \/ /\ Outer # <<>> /\ pc' = "loop"
            /\ stack' = [Outer EXCEPT ![Len(Outer)].nReturn = @ + ret]
  BY DEF CountReturns
<1>2. /\ Len(stack) \in Nat \ {0} /\ Outer \in Seq(FrameType)
      /\ Len(Outer) = Len(stack) - 1
      /\ \A k \in 1 .. Len(stack) - 1 : Outer[k] = stack[k]
  BY <1>1, StackFacts
<1>m. PICK m \in Nat : Len(stack) = m + 1 /\ Len(stack) - 1 = m /\ Len(Outer) = m
  <2>1. Len(stack) - 1 \in Nat /\ Len(stack) = Len(stack) - 1 + 1
    BY <1>2
  <2> QED
    BY <1>2, <2>1
<1>3. Open = m /\ Levels = m + 1 /\ Books[m + 1] = ret
  <2>1. m + 1 \in 1 .. m + 1
    OBVIOUS
  <2> QED
    BY <1>1, <1>m, <2>1 DEF Open, Levels, Books
<1>4. \A k \in 1 .. m : Books[k] = stack[k].nReturn
  <2>1. \A k \in 1 .. m : k \in 1 .. m + 1 /\ k # m + 1
    OBVIOUS
  <2> QED
    BY <1>1, <1>3, <2>1 DEF Books
<1>5. /\ Losses = [k \in 0 .. m |-> IF k = 0 THEN failed ELSE stack[k].nFailed]
      /\ OpenFolders = {stack[k].folder : k \in 1 .. m}
  BY <1>3 DEF Losses, OpenFolders
<1>6. CASE Outer = <<>> /\ stack' = <<>> /\ pc' = "done"
  <2>1. m = 0
    BY <1>m, <1>6
  <2>2. Open' = 0 /\ Levels' = 1
    BY <1>6 DEF Open, Levels
  <2>3. Books'[1] = ret
    <3>1. 1 \in 1 .. 1
      OBVIOUS
    <3> QED
      BY <1>1, <1>6, <2>2, <3>1 DEF Books
  <2>4. 0 .. 0 = {0} /\ 1 .. 0 = {} /\ 0 + 1 = 1
    OBVIOUS
  <2>5. Losses'[0] = failed /\ OpenFolders' = {}
    BY <1>1, <2>2, <2>4 DEF Losses, OpenFolders
  <2>6. Losses[0] = failed /\ OpenFolders = {}
    BY <1>5, <2>1, <2>4
  <2> QED
    BY <1>3, <2>1, <2>2, <2>3, <2>4, <2>5, <2>6
<1>7. CASE /\ Outer # <<>> /\ pc' = "loop"
           /\ stack' = [Outer EXCEPT ![Len(Outer)].nReturn = @ + ret]
  <2>1. m \in Nat \ {0} /\ m \in 1 .. m
    <3>1. m # 0
      BY <1>2, <1>m, <1>7, EmptySeq
    <3> QED
      BY <3>1
  <2>2. /\ Len(stack') = m
        /\ \A k \in 1 .. m : stack'[k].folder = stack[k].folder
    BY <1>1, <1>m, <1>7, CountReturnsFacts
  <2>3. Open' = m /\ Levels' = m
    BY <1>7, <2>2 DEF Open, Levels
  <2> DEFINE f == [Outer[m] EXCEPT !.nReturn = @ + ret]
  <2>4. stack' = [Outer EXCEPT ![m] = f] /\ DOMAIN Outer = 1 .. m
    BY <1>2, <1>m, <1>7, LenProperties
  <2>5. f.nReturn = Outer[m].nReturn + ret /\ f.nFailed = Outer[m].nFailed
    <3>1. Outer[m] \in FrameType
      BY <1>2, <1>m, <2>1, ElementOfSeq
    <3> QED
      BY <3>1 DEF FrameType
  <2> HIDE DEF f
  <2>6. /\ stack'[m] = f /\ Outer[m] = stack[m]
        /\ \A k \in 1 .. m : k # m => stack'[k] = stack[k]
    BY <1>2, <1>m, <2>1, <2>4
  <2>7. \A k \in 1 .. m : Books'[k] = stack'[k].nReturn
    BY <1>7, <2>3 DEF Books
  <2>8. /\ Books'[m] = Books[m] + Books[m + 1]
        /\ \A k \in 1 .. m : k # m => Books'[k] = Books[k]
    BY <1>3, <1>4, <2>1, <2>5, <2>6, <2>7
  <2>9. Losses' = [k \in 0 .. m |-> IF k = 0 THEN failed ELSE stack'[k].nFailed]
    BY <1>1, <2>3 DEF Losses
  <2>10. \A k \in 1 .. m : stack'[k].nFailed = stack[k].nFailed
    BY <2>5, <2>6
  <2>11. \A k \in 0 .. m : k # 0 => k \in 1 .. m
    OBVIOUS
  <2>12. \A k \in 0 .. m : Losses'[k] = Losses[k]
    BY <1>5, <2>9, <2>10, <2>11
  <2>13. OpenFolders' = OpenFolders
    <3>1. OpenFolders' = {stack'[k].folder : k \in 1 .. m}
      BY <2>3 DEF OpenFolders
    <3> QED
      BY <1>5, <2>2, <3>1
  <2> QED
    BY <1>3, <2>1, <2>3, <2>8, <2>12, <2>13
<1> QED
  BY <1>1, <1>6, <1>7

-----------------------------------------------------------------------------
\* What these steps do to what the accounts count.
BooksOf(A) == Ledger(Books, 1 .. Levels, A)
LossesOf(A) == Ledger(Losses, 0 .. Open, A)

LEMMA GoOnLedgers ==
  ASSUME Types, pc = "loop", NEW f \in FrameType, f.folder = Inner.folder, GoOn(f),
         NEW A, IsFiniteSet(A), NEW e, e \notin A
  PROVE  /\ BooksOf(A) /\ f.nReturn = Inner.nReturn => BooksOf(A)'
         /\ BooksOf(A) /\ f.nReturn = Inner.nReturn + 1 => BooksOf(A \cup {e})'
         /\ LossesOf(A) /\ failed' = failed /\ f.nFailed = Inner.nFailed => LossesOf(A)'
         /\ LossesOf(A) /\ failed' = failed /\ f.nFailed = Inner.nFailed + 1 =>
              LossesOf(A \cup {e})'
<1>n. PICK n \in Nat : n = Len(stack)
  BY LoopBooks
<1>1. /\ Levels = n /\ Open = n /\ n \in 1 .. n /\ n \in 0 .. n
      /\ Books[n] = Inner.nReturn /\ Losses[0] = failed /\ Losses[n] = Inner.nFailed
  BY <1>n, LoopBooks
<1>2. /\ Levels' = n /\ Open' = n
      /\ Books'[n] = f.nReturn /\ \A k \in 1 .. n : k # n => Books'[k] = Books[k]
      /\ Losses'[0] = failed' /\ Losses'[n] = f.nFailed
      /\ \A k \in 1 .. n : k # n => Losses'[k] = Losses[k]
  BY <1>n, GoOnBooks
<1>3. ASSUME failed' = failed
      PROVE  \A k \in 0 .. n : k # n => Losses'[k] = Losses[k]
  <2>1. \A k \in 0 .. n : k = 0 \/ k \in 1 .. n
    OBVIOUS
  <2> QED
    BY <1>1, <1>2, <1>3, <2>1
<1>4. ASSUME Ledger(Books, 1 .. n, A), f.nReturn = Inner.nReturn
      PROVE  Ledger(Books', 1 .. n, A)
  <2>1. \A k \in 1 .. n : Books'[k] = Books[k]
    BY <1>1, <1>2, <1>4
  <2> QED
    BY <1>4, <2>1, LedgerSame
<1>5. ASSUME Ledger(Books, 1 .. n, A), f.nReturn = Inner.nReturn + 1
      PROVE  Ledger(Books', 1 .. n, A \cup {e})
  <2>1. Books'[n] = Books[n] + 1
    BY <1>1, <1>2, <1>5
  <2> QED
    BY <1>1, <1>2, <1>5, <2>1, LedgerAdd
<1>6. ASSUME Ledger(Losses, 0 .. n, A), failed' = failed, f.nFailed = Inner.nFailed
      PROVE  Ledger(Losses', 0 .. n, A)
  <2>1. \A k \in 0 .. n : Losses'[k] = Losses[k]
    BY <1>1, <1>2, <1>3, <1>6
  <2> QED
    BY <1>6, <2>1, LedgerSame
<1>7. ASSUME Ledger(Losses, 0 .. n, A), failed' = failed, f.nFailed = Inner.nFailed + 1
      PROVE  Ledger(Losses', 0 .. n, A \cup {e})
  <2>1. Losses'[n] = Losses[n] + 1
    BY <1>1, <1>2, <1>7
  <2> QED
    BY <1>1, <1>3, <1>7, <2>1, LedgerAdd
<1> QED
  BY <1>1, <1>2, <1>4, <1>5, <1>6, <1>7 DEF BooksOf, LossesOf

LEMMA EnterLedgers ==
  ASSUME Types, pc = "loop", NEW f \in FrameType, f.folder = Inner.folder,
         NEW e \in Folders, stack' = Outer \o <<f, Frame(e)>>, pc' \in {"loop", "begin"},
         NEW A, IsFiniteSet(A), e \notin A
  PROVE  /\ BooksOf(A) /\ f.nReturn = Inner.nReturn => BooksOf(A)'
         /\ BooksOf(A) /\ f.nReturn = Inner.nReturn + 1 => BooksOf(A \cup {e})'
         /\ LossesOf(A) /\ failed' = failed /\ f.nFailed = Inner.nFailed => LossesOf(A)'
<1>n. PICK n \in Nat : n = Len(stack)
  BY LoopBooks
<1>1. /\ Levels = n /\ Open = n /\ n \in 1 .. n /\ n \in 0 .. n
      /\ Books[n] = Inner.nReturn /\ Losses[0] = failed /\ Losses[n] = Inner.nFailed
  BY <1>n, LoopBooks
<1>2. /\ Levels' = n + 1 /\ Open' = n + 1
      /\ Books'[n] = f.nReturn /\ Books'[n + 1] = 0
      /\ \A k \in 1 .. n : k # n => Books'[k] = Books[k]
      /\ Losses'[0] = failed' /\ Losses'[n] = f.nFailed /\ Losses'[n + 1] = 0
      /\ \A k \in 1 .. n : k # n => Losses'[k] = Losses[k]
  BY <1>n, EnterBooks
<1>3. /\ 1 .. n + 1 = (1 .. n) \cup {n + 1} /\ 0 .. n + 1 = (0 .. n) \cup {n + 1}
      /\ n + 1 \notin 0 .. n /\ n + 1 \notin 1 .. n
  BY UpToNext
<1>4. ASSUME Ledger(Books, 1 .. n, A), f.nReturn = Inner.nReturn
      PROVE  Ledger(Books', 1 .. n + 1, A)
  <2>1. \A k \in 1 .. n : Books'[k] = Books[k]
    BY <1>1, <1>2, <1>4
  <2> QED
    <3>1. Books'[n + 1] = 0 /\ n + 1 \notin 1 .. n
      BY <1>2, <1>3
    <3>2. Ledger(Books', (1 .. n) \cup {n + 1}, A)
      BY ONLY <1>4, <2>1, <3>1, LedgerOpen, Zenon
    <3> QED
      BY <1>3, <3>2
<1>5. ASSUME Ledger(Books, 1 .. n, A), f.nReturn = Inner.nReturn + 1
      PROVE  Ledger(Books', 1 .. n + 1, A \cup {e})
  <2>1. Books'[n] = Books[n] + 1
    BY <1>1, <1>2, <1>5
  <2>2. Ledger(Books', 1 .. n, A \cup {e})
    BY <1>1, <1>2, <1>5, <2>1, LedgerAdd
  <2> QED
    <3>1. \A k \in 1 .. n : Books'[k] = Books'[k]
      OBVIOUS
    <3>2. Books'[n + 1] = 0 /\ n + 1 \notin 1 .. n
      BY <1>2, <1>3
    <3>3. Ledger(Books', (1 .. n) \cup {n + 1}, A \cup {e})
      BY ONLY <2>2, <3>1, <3>2, LedgerOpen, Zenon
    <3> QED
      BY <1>3, <3>3
<1>6. ASSUME Ledger(Losses, 0 .. n, A), failed' = failed, f.nFailed = Inner.nFailed
      PROVE  Ledger(Losses', 0 .. n + 1, A)
  <2>1. \A k \in 0 .. n : Losses'[k] = Losses[k]
    <3>1. \A k \in 0 .. n : k = 0 \/ k \in 1 .. n
      OBVIOUS
    <3> QED
      BY <1>1, <1>2, <1>6, <3>1
  <2> QED
    <3>1. Losses'[n + 1] = 0 /\ n + 1 \notin 0 .. n
      BY <1>2, <1>3
    <3>2. Ledger(Losses', (0 .. n) \cup {n + 1}, A)
      BY ONLY <1>6, <2>1, <3>1, LedgerOpen, Zenon
    <3> QED
      BY <1>3, <3>2
<1> QED
  BY <1>1, <1>2, <1>4, <1>5, <1>6 DEF BooksOf, LossesOf

LEMMA ReturnLedgers ==
  ASSUME Types, pc \in {"loop", "begin"}, stack' = stack, pc' = "return",
         NEW A, IsFiniteSet(A), NEW e, e \notin A
  PROVE  /\ BooksOf(A) /\ ret' = Inner.nReturn => BooksOf(A)'
         /\ BooksOf(A) /\ ret' = Inner.nReturn + 1 => BooksOf(A \cup {e})'
         /\ LossesOf(A) /\ failed' = failed => \E B \in SUBSET A : LossesOf(B)'
         /\ LossesOf(A) /\ failed' = failed + Inner.nFailed => LossesOf(A)'
         /\ LossesOf(A) /\ failed' = failed + Inner.nFailed + 1 => LossesOf(A \cup {e})'
<1>n. PICK n \in Nat \ {0} : n = Len(stack)
  BY LoopBooks
<1>m. PICK m \in Nat : n - 1 = m
  <2>1. n - 1 \in Nat
    OBVIOUS
  <2> QED
    BY <2>1
<1>1. /\ Levels = n /\ Open = n /\ n \in 1 .. n
      /\ Books[n] = Inner.nReturn /\ Losses[0] = failed /\ Losses[n] = Inner.nFailed
  BY <1>n, LoopBooks
<1>2. /\ Levels' = n /\ Open' = m
      /\ Books'[n] = ret' /\ \A k \in 1 .. n : k # n => Books'[k] = Books[k]
      /\ Losses'[0] = failed' /\ \A k \in 1 .. m : Losses'[k] = Losses[k]
      /\ 0 .. n = (0 .. m) \cup {n} /\ n \notin 0 .. m
  BY <1>n, <1>m, ReturnBooks
<1>3. \A k \in 0 .. m : k # 0 => Losses'[k] = Losses[k]
  <2>1. \A k \in 0 .. m : k = 0 \/ k \in 1 .. m
    OBVIOUS
  <2> QED
    BY <1>2, <2>1
<1>4. 0 \in 0 .. m /\ failed \in Nat /\ Inner.nFailed \in Nat
  BY StackFacts DEF Types, FrameType
<1>5. ASSUME Ledger(Books, 1 .. n, A), ret' = Inner.nReturn
      PROVE  Ledger(Books', 1 .. n, A)
  <2>1. \A k \in 1 .. n : Books'[k] = Books[k]
    BY <1>1, <1>2, <1>5
  <2> QED
    BY <1>5, <2>1, LedgerSame
<1>6. ASSUME Ledger(Books, 1 .. n, A), ret' = Inner.nReturn + 1
      PROVE  Ledger(Books', 1 .. n, A \cup {e})
  <2>1. Books'[n] = Books[n] + 1
    BY <1>1, <1>2, <1>6
  <2>2. n \in 1 .. n /\ \A k \in 1 .. n : n # k => Books'[k] = Books[k]
    BY <1>1, <1>2
  <2>3. IsFiniteSet(A) /\ e \notin A
    OBVIOUS
  <2> QED
    BY ONLY <1>6, <2>1, <2>2, <2>3, LedgerAdd, Zenon
<1>7. ASSUME Ledger(Losses, 0 .. n, A), failed' = failed
      PROVE  \E B \in SUBSET A : Ledger(Losses', 0 .. m, B)
  <2>1. \A k \in 0 .. m : Losses'[k] = Losses[k]
    BY <1>1, <1>2, <1>3, <1>7
  <2> QED
    <3>1. Ledger(Losses, (0 .. m) \cup {n}, A)
      BY <1>2, <1>7
    <3> QED
      BY <1>2, <2>1, <3>1, LedgerDrop, Zenon
<1>8. ASSUME Ledger(Losses, 0 .. n, A), failed' = failed + Inner.nFailed
      PROVE  Ledger(Losses', 0 .. m, A)
  <2>1. Losses'[0] = Losses[0] + Losses[n]
    BY <1>1, <1>2, <1>8
  <2>2. /\ n \notin 0 .. m /\ Ledger(Losses, (0 .. m) \cup {n}, A) /\ 0 \in 0 .. m
        /\ \A k \in 0 .. m : k # 0 => Losses'[k] = Losses[k]
    BY <1>2, <1>3, <1>4, <1>8
  <2>3. IsFiniteSet(A)
    OBVIOUS
  <2> QED
    BY ONLY <2>1, <2>2, <2>3, LedgerMerge, Zenon
<1>9. ASSUME Ledger(Losses, 0 .. n, A), failed' = failed + Inner.nFailed + 1
      PROVE  Ledger(Losses', 0 .. m, A \cup {e})
  <2> DEFINE c == [k \in 0 .. n |-> IF k = 0 THEN failed + 1 ELSE Losses[k]]
  <2>1. /\ c[0] = Losses[0] + 1 /\ \A k \in 0 .. n : k # 0 => c[k] = Losses[k]
        /\ c[n] = Losses[n] /\ 0 \in 0 .. n
    BY <1>1
  <2> HIDE DEF c
  <2>2. Ledger(c, 0 .. n, A \cup {e}) /\ IsFiniteSet(A \cup {e})
    <3>1. Ledger(c, 0 .. n, A \cup {e})
      BY <1>9, <2>1, LedgerAdd
    <3> QED
      BY <3>1, FS_AddElement
  <2>3. /\ Losses'[0] = c[0] + c[n]
        /\ \A k \in 0 .. m : k # 0 => Losses'[k] = c[k]
    <3>1. \A k \in 0 .. m : k \in 0 .. n
      BY <1>2
    <3> QED
      BY <1>1, <1>2, <1>3, <1>4, <1>9, <2>1, <3>1
  <2> QED
    <3>1. /\ Ledger(c, (0 .. m) \cup {n}, A \cup {e}) /\ IsFiniteSet(A \cup {e})
          /\ n \notin 0 .. m /\ 0 \in 0 .. m
      BY <1>2, <1>4, <2>2
    <3> QED
      BY <2>3, <3>1, LedgerMerge
<1> QED
  BY <1>1, <1>2, <1>5, <1>6, <1>7, <1>8, <1>9 DEF BooksOf, LossesOf

LEMMA CountReturnsLedgers ==
  ASSUME Types, CountReturns, NEW A, IsFiniteSet(A)
  PROVE  /\ BooksOf(A) => BooksOf(A)'
         /\ LossesOf(A) => LossesOf(A)'
         /\ OpenFolders' = OpenFolders
<1>1. /\ Open' = Open /\ \A k \in 0 .. Open : Losses'[k] = Losses[k]
      /\ OpenFolders' = OpenFolders
      /\ \/ Levels = 1 /\ Levels' = 1 /\ Books'[1] = Books[1]
         \/ /\ Levels' \in Nat \ {0} /\ Levels = Levels' + 1
            /\ Books'[Levels'] = Books[Levels'] + Books[Levels]
            /\ \A k \in 1 .. Levels' : k # Levels' => Books'[k] = Books[k]
  BY CountReturnsBooks
<1>2. ASSUME Ledger(Losses, 0 .. Open, A)
      PROVE  Ledger(Losses', 0 .. Open, A)
  BY <1>1, <1>2, LedgerSame
<1>3. ASSUME Ledger(Books, 1 .. Levels, A)
      PROVE  Ledger(Books', 1 .. Levels', A)
  <2>1. CASE Levels = 1 /\ Levels' = 1 /\ Books'[1] = Books[1]
    <3>1. \A k \in 1 .. 1 : Books'[k] = Books[k]
      BY <2>1
    <3> QED
      BY <1>3, <2>1, <3>1, LedgerSame
  <2>2. CASE /\ Levels' \in Nat \ {0} /\ Levels = Levels' + 1
             /\ Books'[Levels'] = Books[Levels'] + Books[Levels]
             /\ \A k \in 1 .. Levels' : k # Levels' => Books'[k] = Books[k]
    <3>1. PICK n \in Nat \ {0} : n = Levels' /\ Levels = n + 1
      BY <2>2
    <3>2. /\ 1 .. n + 1 = (1 .. n) \cup {n + 1} /\ n + 1 \notin 1 .. n
          /\ n \in 1 .. n
      BY UpToNext
    <3>3. Ledger(Books, (1 .. n) \cup {n + 1}, A)
      BY <1>3, <3>1, <3>2
    <3>4. /\ Books'[n] = Books[n] + Books[n + 1]
          /\ \A k \in 1 .. n : k # n => Books'[k] = Books[k]
      BY <2>2, <3>1
    <3>5. Ledger(Books', 1 .. n, A)
      BY <3>2, <3>3, <3>4, LedgerMerge
    <3> QED
      BY <3>1, <3>5
  <2> QED
    BY <1>1, <2>1, <2>2
<1> QED
  BY <1>1, <1>2, <1>3 DEF BooksOf, LossesOf

-----------------------------------------------------------------------------
\* What the accounts are to count.  U is what was touched so far (see Search).

\* The folders whose entries are to be met.
Entering(U) ==
  IF op = "GetNumberOfFilesInFolder" /\ ~nRecursive THEN {Root} ELSE U

Covers(U) ==
  /\ \A x \in exists \ {Root} :
       Parent[x] \in Entering(U) \ unsearchable => x \in U \cup Waiting
  /\ pc = "return" => stack[Len(stack)].rest = {}

NoLosses == \A k \in 1 .. Open : Losses[k] = 0

\* A walk counts nothing.
PlainInv ==
  op = "none" \/ Walking =>
    /\ ret \in 0 .. 1 /\ failed = 0
    /\ \A k \in 1 .. Len(stack) : stack[k].nReturn = 0 /\ stack[k].nFailed = 0

\* GetNumberOfFilesInFolder counts what it touched.
CountSoFar(U) ==
  /\ U \subseteq exists /\ Search(U) /\ Covers(U)
  /\ \A k \in 1 .. Len(stack) : stack[k].folder \in Entering(U)
  /\ \A x \in U \ {Root} : Parent[x] \in Entering(U)
  /\ BooksOf(U \ {Root})

CountInv ==
  op = "GetNumberOfFilesInFolder" =>
    /\ source = Root /\ pc # "begin" /\ failed = 0 /\ NoLosses
    /\ \E U \in SUBSET Nodes : CountSoFar(U)

\* DestroyFolder counts what is gone; and what it touched and left, but for the
\* files it was told to skip, which were not to go, and the folders it is in.
Left(U) == ((U \cap exists) \ AskedWith({1})) \ OpenFolders

DestroySoFar(U, A) ==
  /\ Search(U) /\ LossesOf(A) /\ A \subseteq Left(U)
  /\ ~OnlyDestroyIfEmpty /\ AskedWith({2}) = {} => A = Left(U) /\ Covers(U)

DestroyInv ==
  op = "DestroyFolder" =>
    /\ source = Root /\ pc # "begin"
    /\ exists \subseteq before /\ before \subseteq Nodes /\ OpenFolders \subseteq exists
    /\ OnlyDestroyIfEmpty =>
         Len(stack) <= 1 /\ (pc = "loop" => Inner.nReturn = 0)
    /\ BooksOf(before \ exists)
    /\ \E U \in SUBSET Nodes, A \in SUBSET Nodes : DestroySoFar(U, A)

\* CopyFiles counts the files it wrote and the folders it went through; and,
\* at once, the copies that were refused.
Written == {e \in Files : dest[e] = "copy"}
Through == {f \in Entered : ~CancelledIn(f)} \ OpenFolders
Refused ==
  (IF nRecursive THEN AskedWith({0}) \cap Files ELSE AskedWith({0})) \ Written

CopyInv ==
  op = "CopyFiles" =>
    /\ Written \subseteq AskedWith({0})
    /\ failed = Cardinality(Refused) /\ NoLosses
    /\ \A f \in OpenFolders : ~CancelledIn(f)
    /\ pc = "begin" => Inner.nReturn = 0
    /\ BooksOf(Written \cup Through)

\* The rest of the types; the counts of a frame that returns were in the accounts
\* before.
Bound == 0 .. Cardinality(Nodes)

TopInv ==
  /\ OnlyDestroyIfEmpty \in BOOLEAN /\ failIfExists \in BOOLEAN /\ ret \in Bound
  /\ op = "none" => pc = "done"
  /\ pc = "return" =>
       \A k \in 1 .. Len(stack) : stack[k].nReturn \in Bound /\ stack[k].nFailed \in Bound

Accounts == TopInv /\ PlainInv /\ CountInv /\ DestroyInv /\ CopyInv

-----------------------------------------------------------------------------
LEMMA NodesFinite ==
  ASSUME NEW A, A \subseteq Nodes
  PROVE  IsFiniteSet(A)
BY FS_Subset, TreeAssumption

LEMMA NodesBound ==
  Cardinality(Nodes) \in Nat /\ 0 \in Bound /\ 1 \in Bound
<1>1. IsFiniteSet(Nodes) /\ Root \in Nodes
  BY TreeAssumption DEF Nodes
<1>2. Cardinality(Nodes) \in Nat /\ Cardinality(Nodes) # 0
  BY <1>1, FS_CardinalityType, FS_EmptySet
<1> QED
  BY <1>2 DEF Bound

LEMMA PassedCounts ==
  ASSUME Types, pc = "loop", NEW e
  PROVE  /\ Inner.nReturn \in Nat /\ Inner.nFailed \in Nat
         /\ Passed(e).nReturn = Inner.nReturn /\ Passed(e).nFailed = Inner.nFailed
         /\ LET f == [Passed(e) EXCEPT !.nReturn = @ + 1] IN
              f.nReturn = Inner.nReturn + 1 /\ f.nFailed = Inner.nFailed
         /\ LET f == [Passed(e) EXCEPT !.nFailed = @ + 1] IN
              f.nReturn = Inner.nReturn /\ f.nFailed = Inner.nFailed + 1
<1>1. Inner \in FrameType
  BY StackFacts
<1>2. /\ Inner.nReturn \in Nat /\ Inner.nFailed \in Nat
      /\ Passed(e).nReturn = Inner.nReturn /\ Passed(e).nFailed = Inner.nFailed
      /\ DOMAIN Passed(e) = {"folder", "rest", "nReturn", "nFailed"}
  BY <1>1 DEF Passed, FrameType
<1> DEFINE p == Passed(e)
<1>3. /\ p.nReturn = Inner.nReturn /\ p.nFailed = Inner.nFailed
      /\ DOMAIN p = {"folder", "rest", "nReturn", "nFailed"}
  BY <1>2
<1> HIDE DEF p
<1>4. /\ [p EXCEPT !.nReturn = @ + 1].nReturn = Inner.nReturn + 1
      /\ [p EXCEPT !.nReturn = @ + 1].nFailed = Inner.nFailed
      /\ [p EXCEPT !.nFailed = @ + 1].nReturn = Inner.nReturn
      /\ [p EXCEPT !.nFailed = @ + 1].nFailed = Inner.nFailed + 1
  BY <1>3
<1> QED
  BY <1>2, <1>4 DEF p

\* The frames after an entry was passed.
LEMMA FramesAfter ==
  ASSUME Types, pc = "loop", NEW f \in FrameType, NEW e,
         \/ GoOn(f)
         \/ e \in Folders /\ stack' = Outer \o <<f, Frame(e)>>,
         NEW k \in 1 .. Len(stack')
  PROVE  \/ k \in 1 .. Len(stack) /\ stack'[k] = stack[k]
         \/ stack'[k] = f
         \/ stack'[k] = Frame(e) /\ Len(stack') = Len(stack) + 1
<1>n. PICK n \in Nat \ {0} : n = Len(stack)
  BY StackFacts
<1>1. CASE GoOn(f)
  <2>1. /\ Len(stack') = n /\ stack'[n] = f
        /\ \A l \in 1 .. n - 1 : stack'[l] = stack[l]
    BY <1>n, <1>1, GoOnFacts DEF GoOn
  <2>2. k \in 1 .. n - 1 \/ k = n
    BY <2>1
  <2>3. \A l \in 1 .. n - 1 : l \in 1 .. n
    OBVIOUS
  <2> QED
    BY <1>n, <2>1, <2>2, <2>3
<1>2. CASE e \in Folders /\ stack' = Outer \o <<f, Frame(e)>>
  <2>1. /\ Len(stack') = n + 1 /\ stack'[n] = f /\ stack'[n + 1] = Frame(e)
        /\ \A l \in 1 .. n - 1 : stack'[l] = stack[l]
    BY <1>n, <1>2, FrameFacts, EnterFacts
  <2>2. k \in 1 .. n - 1 \/ k = n \/ k = n + 1
    BY <2>1
  <2>3. \A l \in 1 .. n - 1 : l \in 1 .. n
    OBVIOUS
  <2> QED
    BY <1>n, <2>1, <2>2, <2>3
<1> QED
  BY <1>1, <1>2

\* What keeps the frames' nFailed at 0.
LEMMA NoLossesGoOn ==
  ASSUME Types, NoLosses, pc = "loop", NEW f \in FrameType, f.folder = Inner.folder,
         f.nFailed = Inner.nFailed, NEW e,
         \/ GoOn(f)
         \/ e \in Folders /\ stack' = Outer \o <<f, Frame(e)>> /\ pc' \in {"loop", "begin"}
  PROVE  NoLosses'
<1>n. PICK n \in Nat \ {0} : n = Len(stack)
  BY LoopBooks
<1>1. /\ Open = n /\ n \in 1 .. n /\ Losses[n] = Inner.nFailed
      /\ \A k \in 1 .. n : Losses[k] = 0
  BY <1>n, LoopBooks DEF NoLosses
<1>2. CASE GoOn(f)
  <2>1. /\ Open' = n /\ Losses'[n] = f.nFailed
        /\ \A k \in 1 .. n : k # n => Losses'[k] = Losses[k]
    BY <1>n, <1>2, GoOnBooks
  <2> QED
    BY <1>1, <2>1 DEF NoLosses
<1>3. CASE e \in Folders /\ stack' = Outer \o <<f, Frame(e)>> /\ pc' \in {"loop", "begin"}
  <2>1. /\ Open' = n + 1 /\ Losses'[n] = f.nFailed /\ Losses'[n + 1] = 0
        /\ \A k \in 1 .. n : k # n => Losses'[k] = Losses[k]
    BY <1>n, <1>3, EnterBooks
  <2>2. 1 .. n + 1 = (1 .. n) \cup {n + 1}
    BY UpToNext
  <2> QED
    BY <1>1, <2>1, <2>2 DEF NoLosses
<1> QED
  BY <1>2, <1>3

LEMMA NoLossesReturn ==
  ASSUME Types, NoLosses,
         \/ pc \in {"loop", "begin"} /\ stack' = stack /\ pc' = "return"
         \/ CountReturns
  PROVE  NoLosses'
<1>1. CASE pc \in {"loop", "begin"} /\ stack' = stack /\ pc' = "return"
  <2>n. PICK n \in Nat \ {0} : n = Len(stack)
    BY <1>1, LoopBooks
  <2>1. Open = n /\ Open' = n - 1 /\ \A k \in 1 .. n - 1 : Losses'[k] = Losses[k]
    BY <1>1, <2>n, LoopBooks, ReturnBooks
  <2>2. \A k \in 1 .. n - 1 : k \in 1 .. n
    OBVIOUS
  <2> QED
    BY <2>1, <2>2 DEF NoLosses
<1>2. CASE CountReturns
  <2>1. Open' = Open /\ \A k \in 0 .. Open : Losses'[k] = Losses[k]
    BY <1>2, CountReturnsBooks
  <2>2. Open \in Int
    BY <1>2, StackFacts DEF Open, CountReturns
  <2>3. \A k \in 1 .. Open : k \in 0 .. Open
    BY <2>2
  <2> QED
    BY <2>1, <2>3 DEF NoLosses
<1> QED
  BY <1>1, <1>2

\* What waits after a frame without anything left has returned.
LEMMA WaitingPops ==
  ASSUME Types, Shrinks, Len(stack') = Len(stack) - 1, Len(stack) \in Nat \ {0},
         stack[Len(stack)].rest = {}
  PROVE  Waiting \subseteq Waiting'
<1> SUFFICES ASSUME NEW x \in Waiting
             PROVE  x \in Waiting'
  OBVIOUS
<1>1. PICK k \in 1 .. Len(stack) : x \in stack[k].rest
  BY DEF Waiting
<1>2. k # Len(stack)
  BY <1>1
<1>3. k \in 1 .. Len(stack')
  BY <1>2, SMT
<1>4. stack'[k].rest = stack[k].rest
  BY <1>3 DEF Shrinks
<1> QED
  BY <1>1, <1>3, <1>4 DEF Waiting

-----------------------------------------------------------------------------
\* GetNumberOfFilesInFolder.

LEMMA CountEntryCounts ==
  ASSUME IndInv, CountInv, CountEntry
  PROVE  CountInv'
<1>1. /\ Types /\ pc = "loop" /\ op = "GetNumberOfFilesInFolder" /\ ~Walking
      /\ source = Root /\ failed = 0 /\ NoLosses
  BY DEF IndInv, CountEntry, Counting, Walking, CountInv
<1>2. /\ exists' = exists /\ UNCHANGED call /\ failed' = failed /\ asked' = asked
      /\ op' = op /\ source' = source /\ nRecursive' = nRecursive
      /\ unsearchable' = unsearchable
  BY DEF CountEntry, disk, hist, call
<1>3. PICK e \in Inner.rest, f \in FrameType :
        /\ f.folder = Inner.folder /\ f.rest = Inner.rest \ {e}
        /\ f.nReturn = Inner.nReturn + 1 /\ f.nFailed = Inner.nFailed
        /\ \/ /\ nRecursive /\ e \in Folders /\ stack' = Outer \o <<f, Frame(e)>>
              /\ UNCHANGED <<pc, ret>>
           \/ ~(nRecursive /\ e \in Folders) /\ GoOn(f)
  <2>1. PICK e \in Inner.rest :
          LET counted == [Passed(e) EXCEPT !.nReturn = @ + 1] IN
            IF nRecursive /\ e \in Folders
              THEN stack' = Outer \o <<counted, Frame(e)>> /\ UNCHANGED <<pc, ret>>
              ELSE GoOn(counted)
    BY DEF CountEntry
  <2> DEFINE f == [Passed(e) EXCEPT !.nReturn = @ + 1]
  <2>2. /\ f \in FrameType /\ f.folder = Inner.folder /\ f.rest = Inner.rest \ {e}
        /\ f.nReturn = Inner.nReturn + 1 /\ f.nFailed = Inner.nFailed
    BY <1>1, PassedFacts, PassedCounts
  <2>3. \/ /\ nRecursive /\ e \in Folders /\ stack' = Outer \o <<f, Frame(e)>>
           /\ UNCHANGED <<pc, ret>>
        \/ ~(nRecursive /\ e \in Folders) /\ GoOn(f)
    BY <2>1
  <2> HIDE DEF f
  <2> QED
    BY <2>2, <2>3
<1>4. pc' = "loop"
  BY <1>1, <1>3 DEF GoOn
<1>5. Touches(e)
  <2>1. stack' = Append(Outer, f) \/ (e \in Folders /\ stack' = Outer \o <<f, Frame(e)>>)
    BY <1>3 DEF GoOn
  <2> QED
    BY <1>1, <1>2, <1>3, <1>4, <2>1 DEF Touches
<1>6. PICK U \in SUBSET Nodes : CountSoFar(U)
  BY <1>1 DEF CountInv
<1>7. /\ Search(U \cup {e})' /\ e \in Nodes \ U /\ e # Root /\ e \in exists
      /\ Parent[e] = Inner.folder /\ Inner.folder \in U
  BY <1>1, <1>5, <1>6, SearchTouches DEF CountSoFar
<1> DEFINE V == U \cup {e}
<1>8. BooksOf(V \ {Root})'
  <2>1. /\ V \ {Root} = (U \ {Root}) \cup {e} /\ e \notin U \ {Root}
        /\ IsFiniteSet(U \ {Root}) /\ BooksOf(U \ {Root})
    BY <1>6, <1>7, NodesFinite DEF CountSoFar
  <2>2. BooksOf((U \ {Root}) \cup {e})'
    <3>1. CASE GoOn(f)
      BY <1>1, <1>3, <2>1, <3>1, GoOnLedgers
    <3>2. CASE e \in Folders /\ stack' = Outer \o <<f, Frame(e)>>
      BY <1>1, <1>3, <1>4, <2>1, <3>2, EnterLedgers
    <3> QED
      BY <1>3, <3>1, <3>2
  <2> QED
    BY <2>1, <2>2
<1>9. NoLosses'
  BY <1>1, <1>3, <1>4, NoLossesGoOn
<1>10. /\ Entering(U) \subseteq Entering(V)'
       /\ \A x \in Entering(V)' : x \in Entering(U) \/ (nRecursive /\ x = e)
       /\ nRecursive => e \in Entering(V)'
  BY <1>1, <1>2 DEF Entering
<1>11. /\ Waiting \ {e} \subseteq Waiting'
       /\ Len(stack') = Len(stack) + 1 => Found(e) \subseteq Waiting'
  BY <1>1, <1>4, <1>5, WaitingAfter
<1>12. nRecursive /\ e \in Folders <=> Len(stack') = Len(stack) + 1
  <2>1. Len(stack) \in Nat
    BY <1>1, StackFacts
  <2>2. CASE nRecursive /\ e \in Folders
    BY <1>1, <1>3, <2>2, FrameFacts, EnterFacts
  <2>3. CASE ~(nRecursive /\ e \in Folders)
    <3>1. Len(stack') = Len(stack)
      BY <1>1, <1>3, <2>3, GoOnFacts DEF GoOn
    <3> QED
      BY <2>1, <2>3, <3>1
  <2> QED
    BY <2>2, <2>3
<1>13. Covers(V)'
  <2>1. ASSUME NEW x \in exists' \ {Root}, Parent[x] \in Entering(V)' \ unsearchable'
        PROVE  x \in V \cup Waiting'
    <3>1. CASE Parent[x] \in Entering(U)
      BY <1>2, <1>6, <1>11, <2>1, <3>1 DEF CountSoFar, Covers
    <3>2. CASE nRecursive /\ Parent[x] = e
      <4>1. x \in exists \ {Root} /\ x \in Nodes /\ x \in Found(e)
        BY <1>1, <1>2, <2>1, <3>2 DEF Types, Entries, Found
      <4>2. e \in Folders
        BY <3>2, <4>1, TreeAssumption
      <4> QED
        BY <1>11, <1>12, <3>2, <4>1, <4>2
    <3> QED
      BY <1>10, <2>1, <3>1, <3>2
  <2> QED
    BY <1>4, <2>1 DEF Covers
<1>14. \A k \in 1 .. Len(stack') : stack'[k].folder \in Entering(V)'
  <2> TAKE k \in 1 .. Len(stack')
  <2>1. \/ k \in 1 .. Len(stack) /\ stack'[k].folder = stack[k].folder
        \/ Len(stack') = Len(stack) + 1 /\ stack'[k].folder = e
    BY <1>1, <1>5, FoldersAfter
  <2> QED
    BY <1>6, <1>10, <1>12, <2>1 DEF CountSoFar
<1>15. \A x \in V \ {Root} : Parent[x] \in Entering(V)'
  <2>1. Inner.folder \in Entering(U)
    <3>1. Inner = stack[Len(stack)] /\ Len(stack) \in 1 .. Len(stack)
      BY <1>1, LoopBooks
    <3> QED
      BY <1>6, <3>1 DEF CountSoFar
  <2> QED
    BY <1>6, <1>7, <1>10, <2>1 DEF CountSoFar
<1>16. V \subseteq exists' /\ V \in SUBSET Nodes
  BY <1>2, <1>6, <1>7 DEF CountSoFar
<1>17. CountSoFar(V)'
  BY <1>7, <1>8, <1>13, <1>14, <1>15, <1>16 DEF CountSoFar
<1> QED
  BY <1>1, <1>2, <1>4, <1>9, <1>16, <1>17 DEF CountInv

\* A step that leaves what is counted as it is.
LEMMA CountStays ==
  ASSUME IndInv, CountInv, op = "GetNumberOfFilesInFolder", UNCHANGED call,
         exists' = exists, failed' = 0, pc' # "begin", Shrinks, pc # "done",
         Waiting \subseteq Waiting', pc' = "return" => stack'[Len(stack')].rest = {},
         NoLosses', \A A : IsFiniteSet(A) /\ BooksOf(A) => BooksOf(A)'
  PROVE  CountInv'
<1>1. Types /\ source = Root
  BY DEF IndInv, CountInv
<1>2. /\ op' = op /\ source' = source /\ nRecursive' = nRecursive
      /\ unsearchable' = unsearchable
  BY DEF call
<1>3. PICK U \in SUBSET Nodes : CountSoFar(U)
  BY DEF CountInv
<1>4. Search(U)'
  BY <1>1, <1>3, SearchShrinks DEF CountSoFar
<1>5. IsFiniteSet(U \ {Root}) /\ BooksOf(U \ {Root})
  BY <1>3, NodesFinite DEF CountSoFar
<1>6. BooksOf(U \ {Root})'
  BY <1>5
<1>7. Entering(U)' = Entering(U)
  BY <1>2 DEF Entering
<1>8. Covers(U)'
  BY <1>2, <1>3, <1>7 DEF CountSoFar, Covers
<1>9. \A k \in 1 .. Len(stack') : stack'[k].folder \in Entering(U)'
  <2> TAKE k \in 1 .. Len(stack')
  <2>1. /\ Len(stack) \in Nat /\ Len(stack') \in Nat
        /\ Len(stack') < Len(stack) \/ Len(stack') = Len(stack)
    BY <1>1, StackFacts DEF Shrinks
  <2>2. k \in 1 .. Len(stack)
    BY <2>1
  <2>3. stack'[k].folder = stack[k].folder
    BY DEF Shrinks
  <2> QED
    BY <1>3, <1>7, <2>2, <2>3 DEF CountSoFar
<1>10. CountSoFar(U)'
  BY <1>3, <1>4, <1>6, <1>7, <1>8, <1>9 DEF CountSoFar
<1> QED
  BY <1>1, <1>2, <1>10 DEF CountInv

LEMMA CountedCounts ==
  ASSUME IndInv, CountInv, Counted
  PROVE  CountInv'
<1>1. /\ Types /\ pc = "loop" /\ op = "GetNumberOfFilesInFolder"
      /\ failed = 0 /\ NoLosses /\ Inner.rest = {}
  BY DEF IndInv, Counted, Counting, CountInv
<1>2. /\ pc' = "return" /\ ret' = Inner.nReturn /\ exists' = exists
      /\ UNCHANGED call /\ stack' = stack /\ failed' = failed /\ asked' = asked
  BY DEF Counted, Return, disk, hist
<1>3. Shrinks
  BY <1>1, <1>2, StaysShrinks
<1>4. Waiting' = Waiting /\ stack'[Len(stack')].rest = {}
  BY <1>1, <1>2, LoopBooks DEF Waiting
<1>5. NoLosses'
  BY <1>1, <1>2, NoLossesReturn
<1>6. ASSUME NEW A, IsFiniteSet(A), BooksOf(A)
      PROVE  BooksOf(A)'
  <2>1. PICK x : x \notin A
    BY NoSetContainsEverything
  <2> QED
    BY <1>1, <1>2, <1>6, <2>1, ReturnLedgers
<1> QED
  BY <1>1, <1>2, <1>3, <1>4, <1>5, <1>6, CountStays

LEMMA CountReturnsCounts ==
  ASSUME IndInv, CountInv, CountReturns, op = "GetNumberOfFilesInFolder"
  PROVE  CountInv'
<1>1. /\ Types /\ pc = "return" /\ failed = 0 /\ NoLosses
  BY DEF IndInv, CountReturns, CountInv
<1>2. /\ \/ Outer = <<>> /\ stack' = <<>> /\ pc' = "done"
         \/ /\ Outer # <<>> /\ pc' = "loop"
            /\ stack' = [Outer EXCEPT ![Len(Outer)].nReturn = @ + ret]
      /\ exists' = exists /\ UNCHANGED call /\ failed' = failed /\ asked' = asked
  BY DEF CountReturns, disk, hist
<1>3. Shrinks /\ Len(stack') = Len(stack) - 1 /\ Len(stack) \in Nat \ {0}
  BY <1>1, <1>2, PopShrinks
<1>4. stack[Len(stack)].rest = {}
  BY <1>1 DEF CountInv, CountSoFar, Covers
<1>5. Waiting \subseteq Waiting'
  BY <1>1, <1>3, <1>4, WaitingPops
<1>6. NoLosses'
  BY <1>1, NoLossesReturn
<1>7. \A A : IsFiniteSet(A) /\ BooksOf(A) => BooksOf(A)'
  BY <1>1, CountReturnsLedgers
<1> QED
  BY <1>1, <1>2, <1>3, <1>5, <1>6, <1>7, CountStays

-----------------------------------------------------------------------------
\* DestroyFolder.

\* What is in folders that are in no frame.
LEMMA FoldersApart ==
  ASSUME Types, NEW U, Search(U), pc \in {"loop", "begin"}, stack' = stack,
         pc' = "return"
  PROVE  /\ Inner.folder \in OpenFolders /\ Inner.folder \notin OpenFolders'
         /\ OpenFolders = OpenFolders' \cup {Inner.folder}
         /\ Inner.folder \in U /\ Inner.folder \in Folders
<1>n. PICK n \in Nat \ {0} : n = Len(stack)
  BY LoopBooks
<1>1. /\ n \in 1 .. n /\ Inner = stack[n] /\ Inner \in FrameType
      /\ OpenFolders = {stack[k].folder : k \in 1 .. n}
  BY <1>n, LoopBooks
<1>2. OpenFolders = OpenFolders' \cup {Inner.folder} /\ Open' = n - 1
  BY <1>n, ReturnBooks
<1>3. OpenFolders' = {stack[k].folder : k \in 1 .. n - 1}
  BY <1>2 DEF OpenFolders
<1>4. \A k \in 1 .. n - 1 : k \in 1 .. n /\ k # n
  OBVIOUS
<1>5. \A k \in 1 .. n - 1 : stack[k].folder # Inner.folder
  BY <1>n, <1>1, <1>4 DEF Search
<1>6. Inner.folder \in U /\ Inner.folder \in Folders
  BY <1>n, <1>1 DEF Search, FrameType
<1> QED
  BY <1>1, <1>2, <1>3, <1>5, <1>6

LEMMA DestroyReturns ==
  ASSUME IndInv, DestroyInv, op = "DestroyFolder", CountReturns
  PROVE  DestroyInv'
<1>1. /\ Types /\ pc = "return"
  BY DEF IndInv, CountReturns
<1>2. /\ \/ Outer = <<>> /\ stack' = <<>> /\ pc' = "done"
         \/ /\ Outer # <<>> /\ pc' = "loop"
            /\ stack' = [Outer EXCEPT ![Len(Outer)].nReturn = @ + ret]
      /\ exists' = exists /\ UNCHANGED call /\ failed' = failed /\ asked' = asked
      /\ before' = before /\ op' = op /\ source' = source
      /\ OnlyDestroyIfEmpty' = OnlyDestroyIfEmpty /\ unsearchable' = unsearchable
  BY DEF CountReturns, disk, hist, call
<1>3. /\ Shrinks /\ Len(stack') = Len(stack) - 1 /\ Len(stack) \in Nat \ {0}
      /\ (stack' = <<>> <=> Outer = <<>>)
  BY <1>1, <1>2, PopShrinks
<1>4. /\ source = Root /\ exists \subseteq before /\ before \subseteq Nodes
      /\ OpenFolders \subseteq exists /\ BooksOf(before \ exists)
      /\ OnlyDestroyIfEmpty => Len(stack) <= 1
  BY DEF DestroyInv
<1>5. PICK U \in SUBSET Nodes, A \in SUBSET Nodes : DestroySoFar(U, A)
  BY DEF DestroyInv
<1>6. IsFiniteSet(A) /\ IsFiniteSet(before \ exists)
  BY <1>4, NodesFinite
<1>7. OpenFolders' = OpenFolders /\ LossesOf(A)' /\ BooksOf(before \ exists)'
  <2>1. LossesOf(A)' /\ OpenFolders' = OpenFolders
    BY <1>1, <1>5, <1>6, CountReturnsLedgers DEF DestroySoFar
  <2>2. Ledger(Books', 1 .. Levels', before \ exists)
    BY <1>1, <1>4, <1>6, CountReturnsLedgers DEF BooksOf
  <2> QED
    BY <1>2, <2>1, <2>2 DEF BooksOf
<1>8. Search(U)'
  BY <1>1, <1>3, <1>5, SearchShrinks DEF DestroySoFar
<1>9. \A S : AskedWith(S)' = AskedWith(S)
  BY <1>2 DEF AskedWith
<1>10. Left(U)' = Left(U)
  BY <1>2, <1>7, <1>9 DEF Left
<1>11. Covers(U) => Covers(U)'
  <2> SUFFICES ASSUME Covers(U)
               PROVE  Covers(U)'
    OBVIOUS
  <2>1. Waiting \subseteq Waiting'
    BY <1>1, <1>3, WaitingPops DEF Covers
  <2> QED
    BY <1>2, <2>1 DEF Covers, Entering
<1>12. DestroySoFar(U, A)'
  BY <1>2, <1>5, <1>7, <1>8, <1>9, <1>10, <1>11 DEF DestroySoFar
<1>13. OnlyDestroyIfEmpty' => Len(stack') <= 1 /\ pc' # "loop"
  <2> SUFFICES ASSUME OnlyDestroyIfEmpty
               PROVE  Len(stack') <= 1 /\ pc' # "loop"
    BY <1>2
  <2>1. Len(stack') = 0
    BY <1>3, <1>4
  <2>2. stack' = <<>>
    <3>1. stack' \in Seq(FrameType)
      BY <1>3 DEF Shrinks
    <3> QED
      BY <2>1, <3>1, EmptySeq
  <2>3. pc' = "done"
    BY <1>2, <1>3, <2>2
  <2> QED
    BY <2>1, <2>3
<1>14. pc' # "begin"
  BY <1>2
<1> QED
  BY <1>2, <1>4, <1>7, <1>12, <1>13, <1>14 DEF DestroyInv

LEMMA NotEmptyDestroys ==
  ASSUME IndInv, DestroyInv, NotEmpty
  PROVE  DestroyInv'
<1>1. /\ Types /\ pc = "loop" /\ op = "DestroyFolder" /\ OnlyDestroyIfEmpty
  BY DEF IndInv, NotEmpty
<1>2. /\ pc' = "return" /\ ret' = 0 /\ exists' = exists
      /\ UNCHANGED call /\ stack' = stack /\ failed' = failed /\ asked' = asked
      /\ before' = before /\ op' = op /\ source' = source
      /\ OnlyDestroyIfEmpty' = OnlyDestroyIfEmpty
  BY DEF NotEmpty, Return, disk, hist, call
<1>3. Shrinks
  BY <1>1, <1>2, StaysShrinks
<1>4. /\ source = Root /\ exists \subseteq before /\ before \subseteq Nodes
      /\ OpenFolders \subseteq exists /\ BooksOf(before \ exists)
      /\ Len(stack) <= 1 /\ Inner.nReturn = 0
  BY <1>1 DEF DestroyInv
<1>5. PICK U \in SUBSET Nodes, A \in SUBSET Nodes : DestroySoFar(U, A)
  BY <1>1 DEF DestroyInv
<1>6. IsFiniteSet(A) /\ IsFiniteSet(before \ exists)
  BY <1>4, NodesFinite
<1>7. PICK B \in SUBSET A : LossesOf(B)'
  <2>1. PICK x : x \notin A
    BY NoSetContainsEverything
  <2> QED
    BY <1>1, <1>2, <1>5, <1>6, <2>1, ReturnLedgers DEF DestroySoFar
<1>8. Ledger(Books', 1 .. Levels', before \ exists)
  <2>1. PICK x : x \notin before \ exists
    BY NoSetContainsEverything
  <2> QED
    BY <1>1, <1>2, <1>4, <1>6, <2>1, ReturnLedgers DEF BooksOf
<1>9. Search(U)'
  BY <1>1, <1>3, <1>5, SearchShrinks DEF DestroySoFar
<1>10. OpenFolders' \subseteq OpenFolders
  BY <1>1, <1>2, <1>5, FoldersApart DEF DestroySoFar
<1>11. B \subseteq Left(U)'
  BY <1>2, <1>5, <1>7, <1>10 DEF Left, DestroySoFar, AskedWith
<1>12. DestroySoFar(U, B)'
  BY <1>1, <1>2, <1>7, <1>9, <1>11 DEF DestroySoFar
<1> QED
  BY <1>2, <1>4, <1>8, <1>10, <1>12 DEF DestroyInv, BooksOf

\* What is known of an entry that is dealt with.
LEMMA DestroyTouches ==
  ASSUME IndInv, DestroyInv, op = "DestroyFolder", NEW e, Touches(e),
         NEW U, NEW A, DestroySoFar(U, A)
  PROVE  /\ Search(U \cup {e})' /\ e \in Nodes \ U /\ e \in exists /\ e \notin A
         /\ e \notin AskedWith({1}) /\ e \notin before \ exists
         /\ U \cup {e} \subseteq Nodes /\ e # Root
         /\ IsFiniteSet(before \ exists)
<1>1. Types /\ Search(U) /\ A \subseteq Left(U)
  BY DEF IndInv, DestroySoFar
<1>2. /\ Search(U \cup {e})' /\ e \in Nodes \ U /\ e # Root /\ e \in exists
  BY <1>1, SearchTouches
<1>3. e \notin AskedWith({1})
  BY <1>1, <1>2, AnswerFacts DEF Search
<1>4. e \notin A
  BY <1>1, <1>2 DEF Left
<1>5. IsFiniteSet(before \ exists)
  BY NodesFinite DEF DestroyInv
<1> QED
  BY <1>1, <1>2, <1>3, <1>4, <1>5 DEF Search

\* What is covered after an entry was passed, and entered if it is a folder.
LEMMA DestroyCovers ==
  ASSUME IndInv, op = "DestroyFolder", op' = op, NEW e, Touches(e), NEW U, Covers(U),
         pc' = "loop", Len(stack') = Len(stack) + 1 <=> e \in Folders
  PROVE  Covers(U \cup {e})'
<1>1. Types /\ exists' \subseteq exists /\ unsearchable' = unsearchable
  BY DEF IndInv, Touches, call
<1>2. /\ Waiting \ {e} \subseteq Waiting'
      /\ Len(stack') = Len(stack) + 1 => Found(e) \subseteq Waiting'
  BY <1>1, WaitingAfter
<1>3. ASSUME NEW x \in exists' \ {Root}, Parent[x] \in (U \cup {e}) \ unsearchable
      PROVE  x \in U \cup {e} \cup Waiting'
  <2>1. CASE Parent[x] \in U
    BY <1>1, <1>2, <1>3, <2>1 DEF Covers, Entering
  <2>2. CASE Parent[x] = e
    <3>1. x \in exists \ {Root} /\ x \in Nodes /\ x \in Found(e)
      BY <1>1, <1>3, <2>2 DEF Types, Entries, Found
    <3>2. e \in Folders
      BY <2>2, <3>1, TreeAssumption
    <3> QED
      BY <1>2, <3>1, <3>2
  <2> QED
    BY <1>3, <2>1, <2>2
<1> QED
  BY <1>1, <1>3 DEF Covers, Entering

LEMMA DestroySubfolderDestroys ==
  ASSUME IndInv, DestroyInv, DestroySubfolder
  PROVE  DestroyInv'
<1>1. /\ Types /\ pc = "loop" /\ op = "DestroyFolder" /\ ~Walking /\ ~OnlyDestroyIfEmpty
  BY DEF IndInv, DestroySubfolder, Destroying, Walking
<1>2. PICK e \in Inner.rest \cap Folders : Enter(e)
  BY DEF DestroySubfolder
<1>3. /\ exists' = exists /\ UNCHANGED call /\ failed' = failed /\ asked' = asked
      /\ before' = before /\ op' = op /\ source' = source
      /\ OnlyDestroyIfEmpty' = OnlyDestroyIfEmpty
  BY DEF DestroySubfolder, disk, hist, call
<1>4. /\ Passed(e) \in FrameType /\ Passed(e).folder = Inner.folder
      /\ Passed(e).rest = Inner.rest \ {e}
      /\ Passed(e).nReturn = Inner.nReturn /\ Passed(e).nFailed = Inner.nFailed
  BY <1>1, <1>2, PassedFacts, PassedCounts
<1>5. pc' = "loop" /\ stack' = Outer \o <<Passed(e), Frame(e)>>
  BY <1>1, <1>2 DEF Enter
<1>6. Touches(e)
  BY <1>1, <1>2, <1>3, <1>4, <1>5 DEF Touches
<1>7. PICK U \in SUBSET Nodes, A \in SUBSET Nodes : DestroySoFar(U, A)
  BY <1>1 DEF DestroyInv
<1>8. /\ Search(U \cup {e})' /\ e \in Nodes \ U /\ e \in exists /\ e \notin A
      /\ e \notin before \ exists /\ U \cup {e} \subseteq Nodes
      /\ IsFiniteSet(before \ exists) /\ IsFiniteSet(A)
  BY <1>1, <1>6, <1>7, DestroyTouches, NodesFinite
<1>9. OpenFolders' = OpenFolders \cup {e}
  BY <1>1, <1>2, <1>4, <1>5, EnterBooks
<1>10. LossesOf(A)' /\ Ledger(Books', 1 .. Levels', before \ exists)
  <2>1. LossesOf(A)'
    BY <1>1, <1>2, <1>3, <1>4, <1>5, <1>7, <1>8, EnterLedgers DEF DestroySoFar
  <2>2. BooksOf(before \ exists)
    BY <1>1 DEF DestroyInv
  <2>3. Ledger(Books', 1 .. Levels', before \ exists)
    BY <1>1, <1>2, <1>4, <1>5, <1>8, <2>2, EnterLedgers DEF BooksOf
  <2> QED
    BY <2>1, <2>3
<1>11. Left(U \cup {e})' = Left(U)
  <2>1. Left(U \cup {e})' = (((U \cup {e}) \cap exists) \ AskedWith({1})) \ (OpenFolders \cup {e})
    BY <1>3, <1>9 DEF Left, AskedWith
  <2> QED
    BY <1>8, <2>1 DEF Left
<1>12. Covers(U) => Covers(U \cup {e})'
  <2>1. Len(stack') = Len(stack) + 1
    BY <1>1, <1>2, <1>4, <1>5, FrameFacts, EnterFacts
  <2> QED
    BY <1>1, <1>2, <1>3, <1>5, <1>6, <2>1, DestroyCovers
<1>13. DestroySoFar(U \cup {e}, A)'
  BY <1>3, <1>7, <1>8, <1>10, <1>11, <1>12 DEF DestroySoFar, AskedWith
<1> QED
  BY <1>1, <1>3, <1>5, <1>8, <1>9, <1>10, <1>13 DEF DestroyInv, BooksOf

LEMMA OpenAreFolders ==
  ASSUME Types, pc \in {"loop", "begin"}
  PROVE  OpenFolders \subseteq Folders
<1>1. OpenFolders = {stack[k].folder : k \in 1 .. Len(stack)}
  BY LoopBooks
<1>2. \A k \in 1 .. Len(stack) : stack[k].folder \in Folders
  BY StackFacts DEF FrameType
<1> QED
  BY <1>1, <1>2

\* A file was asked about, and was not the last.
LEMMA DestroyFilePasses ==
  ASSUME IndInv, DestroyInv, op = "DestroyFolder", pc = "loop", ~OnlyDestroyIfEmpty,
         NEW e \in Inner.rest \cap Files, NEW answer \in 0 .. 1, Ask(e, answer),
         NEW f \in FrameType, f.folder = Inner.folder, f.rest = Inner.rest \ {e},
         GoOn(f), UNCHANGED call, exists' = exists \/ exists' = exists \ {e},
         Ledger(Books', 1 .. Levels', before \ exists'),
         NEW U \in SUBSET Nodes, NEW A \in SUBSET Nodes, DestroySoFar(U, A),
         NEW C \in SUBSET Nodes, LossesOf(C)', C \subseteq Left(U \cup {e})',
         A = Left(U) => C = Left(U \cup {e})'
  PROVE  DestroyInv'
<1>1. /\ Types /\ ~Walking /\ stack' = Append(Outer, f) /\ pc' = "loop"
      /\ op' = op /\ source' = source /\ before' = before
      /\ OnlyDestroyIfEmpty' = OnlyDestroyIfEmpty
  BY DEF IndInv, Walking, GoOn, call, Ask
<1>2. answer \in Int
  BY SMT
<1>3. Touches(e)
  BY <1>1, <1>2 DEF Touches
<1>4. Search(U \cup {e})' /\ e \in exists /\ U \cup {e} \subseteq Nodes /\ e \in Nodes
  BY <1>3, DestroyTouches
<1>5. OpenFolders' = OpenFolders
  BY <1>1, GoOnBooks
<1>6. OpenFolders' \subseteq exists' /\ exists' \subseteq before
  <2>1. e \notin OpenFolders
    BY <1>1, OpenAreFolders, TreeAssumption
  <2> QED
    BY <1>5, <2>1 DEF DestroyInv
<1>7. AskedWith({2})' = AskedWith({2})
  <2>1. answer \notin {2}
    BY SMT
  <2>2. AskedWith({2})' = AskedWith({2}) \cup (IF answer \in {2} THEN {e} ELSE {})
    BY <1>1, <1>2, <1>4, AskedWithFacts
  <2> QED
    BY <2>1, <2>2
<1>8. Covers(U) => Covers(U \cup {e})'
  <2>1. e \notin Folders
    BY TreeAssumption
  <2>2. Len(stack') = Len(stack) /\ Len(stack) \in Nat
    BY <1>1, GoOnFacts, StackFacts
  <2>3. Len(stack') # Len(stack) + 1
    BY <2>2
  <2> QED
    BY <1>1, <1>3, <2>1, <2>3, DestroyCovers
<1>9. DestroySoFar(U \cup {e}, C)'
  BY <1>1, <1>4, <1>7, <1>8 DEF DestroySoFar
<1> QED
  BY <1>1, <1>4, <1>6, <1>9 DEF DestroyInv, BooksOf

LEMMA DestroyFileDestroys ==
  ASSUME IndInv, DestroyInv, DestroyFile
  PROVE  DestroyInv'
<1>1. /\ Types /\ pc = "loop" /\ op = "DestroyFolder" /\ ~Walking /\ ~OnlyDestroyIfEmpty
      /\ UNCHANGED call /\ failed' = failed
      /\ op' = op /\ source' = source /\ OnlyDestroyIfEmpty' = OnlyDestroyIfEmpty
  BY DEF IndInv, DestroyFile, Destroying, Walking, call
<1>2. PICK e \in Inner.rest \cap Files :
        \/ Ask(e, 2) /\ Return(Inner.nReturn) /\ UNCHANGED <<exists, stack>>
        \/ Ask(e, 1) /\ GoOn(Passed(e)) /\ UNCHANGED exists
        \/ /\ Ask(e, 0) /\ exists' = exists \ {e}
           /\ GoOn([Passed(e) EXCEPT !.nReturn = @ + 1])
        \/ /\ Ask(e, 0) /\ GoOn([Passed(e) EXCEPT !.nFailed = @ + 1])
           /\ UNCHANGED exists
  BY DEF DestroyFile
<1>3. PICK U \in SUBSET Nodes, A \in SUBSET Nodes : DestroySoFar(U, A)
  BY <1>1 DEF DestroyInv
<1>4. 0 \in 0 .. 1 /\ 1 \in 0 .. 1 /\ 0 \in Int /\ 1 \in Int /\ 2 \in Int
  BY SMT
<1>5. /\ Passed(e) \in FrameType /\ Passed(e).folder = Inner.folder
      /\ Passed(e).rest = Inner.rest \ {e}
      /\ Passed(e).nReturn = Inner.nReturn /\ Passed(e).nFailed = Inner.nFailed
  BY <1>1, <1>2, PassedFacts, PassedCounts
<1>6. Touches(e)
  <2>1. CASE Ask(e, 2) /\ Return(Inner.nReturn) /\ UNCHANGED <<exists, stack>>
    BY <1>1, <1>2, <1>4, <2>1 DEF Touches, Return
  <2>2. ASSUME NEW f \in FrameType, f.folder = Inner.folder, f.rest = Inner.rest \ {e},
               GoOn(f), NEW answer \in Int, Ask(e, answer),
               exists' = exists \/ exists' = exists \ {e}
        PROVE  Touches(e)
    BY <1>1, <1>2, <2>2 DEF Touches, GoOn
  <2> QED
    BY <1>1, <1>2, <1>4, <1>5, <2>1, <2>2, PassedFacts
<1>7. /\ Search(U \cup {e})' /\ e \in Nodes \ U /\ e \in exists /\ e \notin A
      /\ e \notin AskedWith({1}) /\ e \notin before \ exists
      /\ U \cup {e} \subseteq Nodes /\ IsFiniteSet(before \ exists) /\ IsFiniteSet(A)
  BY <1>1, <1>3, <1>6, DestroyTouches, NodesFinite
<1>8. BooksOf(before \ exists) /\ LossesOf(A) /\ A \subseteq Left(U)
  BY <1>1, <1>3 DEF DestroyInv, DestroySoFar
<1>9. e \notin OpenFolders
  BY <1>1, <1>2, OpenAreFolders, TreeAssumption
<1>10. CASE Ask(e, 2) /\ Return(Inner.nReturn) /\ UNCHANGED <<exists, stack>>
  <2>1. /\ pc' = "return" /\ stack' = stack /\ exists' = exists /\ ret' = Inner.nReturn
        /\ before' = before
    BY <1>10 DEF Return, Ask
  <2>2. AskedWith({1})' = AskedWith({1}) /\ AskedWith({2})' # {}
    <3>1. 2 \notin {1} /\ 2 \in {2}
      OBVIOUS
    <3> QED
      BY <1>1, <1>4, <1>7, <1>10, <3>1, AskedWithFacts
  <2>3. OpenFolders' \subseteq OpenFolders
    BY <1>1, <1>3, <2>1, FoldersApart DEF DestroySoFar
  <2>4. PICK B \in SUBSET A : LossesOf(B)'
    BY <1>1, <1>7, <1>8, <2>1, ReturnLedgers
  <2>5. Ledger(Books', 1 .. Levels', before \ exists)
    BY <1>1, <1>7, <1>8, <2>1, ReturnLedgers DEF BooksOf
  <2>6. B \subseteq Left(U \cup {e})'
    BY <1>8, <2>1, <2>2, <2>3 DEF Left
  <2>7. DestroySoFar(U \cup {e}, B)'
    BY <1>7, <2>2, <2>4, <2>6 DEF DestroySoFar
  <2> QED
    BY <1>1, <1>7, <2>1, <2>3, <2>5, <2>7 DEF DestroyInv, BooksOf
<1>11. CASE Ask(e, 1) /\ GoOn(Passed(e)) /\ UNCHANGED exists
  <2>1. AskedWith({1})' = AskedWith({1}) \cup {e}
    BY <1>1, <1>4, <1>7, <1>11, AskedWithFacts
  <2>2. OpenFolders' = OpenFolders
    BY <1>1, <1>5, <1>11, GoOnBooks
  <2>3. Left(U \cup {e})' = Left(U)
    BY <1>7, <1>11, <2>1, <2>2 DEF Left
  <2>4. LossesOf(A)' /\ Ledger(Books', 1 .. Levels', before \ exists')
    <3>1. LossesOf(A)'
      BY <1>1, <1>5, <1>7, <1>8, <1>11, GoOnLedgers
    <3>2. Ledger(Books', 1 .. Levels', before \ exists)
      BY <1>1, <1>5, <1>7, <1>8, <1>11, GoOnLedgers DEF BooksOf
    <3> QED
      BY <1>11, <3>1, <3>2
  <2>5. A \subseteq Left(U \cup {e})' /\ (A = Left(U) => A = Left(U \cup {e})')
    BY <1>8, <2>3
  <2> QED
    BY <1>1, <1>3, <1>4, <1>5, <1>11, <2>4, <2>5, DestroyFilePasses
<1>12. CASE /\ Ask(e, 0) /\ exists' = exists \ {e}
            /\ GoOn([Passed(e) EXCEPT !.nReturn = @ + 1])
  <2> DEFINE f == [Passed(e) EXCEPT !.nReturn = @ + 1]
  <2>1. /\ f \in FrameType /\ f.folder = Inner.folder /\ f.rest = Inner.rest \ {e}
        /\ f.nReturn = Inner.nReturn + 1 /\ f.nFailed = Inner.nFailed /\ GoOn(f)
    BY <1>1, <1>2, <1>12, PassedFacts, PassedCounts
  <2> HIDE DEF f
  <2>2. AskedWith({1})' = AskedWith({1})
    <3>1. 0 \notin {1} /\ e \in Nodes /\ 0 \in Int
      BY <1>7
    <3>2. AskedWith({1})' = AskedWith({1}) \cup (IF 0 \in {1} THEN {e} ELSE {})
      BY ONLY <1>1, <1>12, <3>1, AskedWithFacts
    <3> QED
      BY <3>1, <3>2
  <2>3. OpenFolders' = OpenFolders
    BY <1>1, <2>1, GoOnBooks
  <2>4. Left(U \cup {e})' = Left(U)
    BY <1>7, <1>12, <2>2, <2>3 DEF Left
  <2>5. LossesOf(A)' /\ Ledger(Books', 1 .. Levels', before \ exists')
    <3>1. LossesOf(A)'
      BY <1>1, <1>7, <1>8, <2>1, GoOnLedgers
    <3>2. Ledger(Books', 1 .. Levels', (before \ exists) \cup {e})
      BY <1>1, <1>7, <1>8, <2>1, GoOnLedgers DEF BooksOf
    <3>3. before \ exists' = (before \ exists) \cup {e}
      BY <1>1, <1>7, <1>12 DEF DestroyInv
    <3> QED
      BY <3>1, <3>2, <3>3
  <2>6. A \subseteq Left(U \cup {e})' /\ (A = Left(U) => A = Left(U \cup {e})')
    BY <1>8, <2>4
  <2> QED
    BY <1>1, <1>3, <1>4, <1>12, <2>1, <2>5, <2>6, DestroyFilePasses
<1>13. CASE /\ Ask(e, 0) /\ GoOn([Passed(e) EXCEPT !.nFailed = @ + 1])
            /\ UNCHANGED exists
  <2> DEFINE f == [Passed(e) EXCEPT !.nFailed = @ + 1]
  <2>1. /\ f \in FrameType /\ f.folder = Inner.folder /\ f.rest = Inner.rest \ {e}
        /\ f.nReturn = Inner.nReturn /\ f.nFailed = Inner.nFailed + 1 /\ GoOn(f)
    BY <1>1, <1>2, <1>13, PassedFacts, PassedCounts
  <2> HIDE DEF f
  <2>2. AskedWith({1})' = AskedWith({1})
    <3>1. 0 \notin {1} /\ e \in Nodes /\ 0 \in Int
      BY <1>7
    <3>2. AskedWith({1})' = AskedWith({1}) \cup (IF 0 \in {1} THEN {e} ELSE {})
      BY ONLY <1>1, <1>13, <3>1, AskedWithFacts
    <3> QED
      BY <3>1, <3>2
  <2>3. OpenFolders' = OpenFolders
    BY <1>1, <2>1, GoOnBooks
  <2>4. Left(U \cup {e})' = Left(U) \cup {e}
    BY <1>7, <1>9, <1>13, <2>2, <2>3 DEF Left
  <2>5. LossesOf(A \cup {e})' /\ Ledger(Books', 1 .. Levels', before \ exists')
    <3>1. LossesOf(A \cup {e})'
      BY <1>1, <1>7, <1>8, <2>1, GoOnLedgers
    <3>2. Ledger(Books', 1 .. Levels', before \ exists)
      BY <1>1, <1>7, <1>8, <2>1, GoOnLedgers DEF BooksOf
    <3> QED
      BY <1>13, <3>1, <3>2
  <2>6. A \cup {e} \in SUBSET Nodes /\ A \cup {e} \subseteq Left(U \cup {e})'
        /\ (A = Left(U) => A \cup {e} = Left(U \cup {e})')
    BY <1>3, <1>7, <1>8, <2>4
  <2> QED
    BY <1>1, <1>3, <1>4, <1>13, <2>1, <2>5, <2>6, DestroyFilePasses
<1> QED
  BY <1>2, <1>10, <1>11, <1>12, <1>13

LEMMA RemoveFolderDestroys ==
  ASSUME IndInv, DestroyInv, RemoveFolder
  PROVE  DestroyInv'
<1>1. /\ Types /\ KeptInv /\ pc = "loop" /\ op = "DestroyFolder" /\ Inner.rest = {}
  BY DEF IndInv, RemoveFolder
<1>2. /\ UNCHANGED call /\ stack' = stack /\ asked' = asked /\ before' = before
      /\ pc' = "return" /\ op' = op /\ source' = source
      /\ OnlyDestroyIfEmpty' = OnlyDestroyIfEmpty /\ unsearchable' = unsearchable
      /\ \/ /\ Entries(Inner.folder) = {} /\ exists' = exists \ {Inner.folder}
            /\ ret' = Inner.nReturn + 1 /\ failed' = failed + Inner.nFailed
         \/ /\ ret' = Inner.nReturn /\ failed' = failed + Inner.nFailed + 1
            /\ exists' = exists
  BY DEF RemoveFolder, Return, hist, call
<1>3. PICK U \in SUBSET Nodes, A \in SUBSET Nodes : DestroySoFar(U, A)
  BY <1>1 DEF DestroyInv
<1>4. /\ source = Root /\ exists \subseteq before /\ before \subseteq Nodes
      /\ OpenFolders \subseteq exists /\ BooksOf(before \ exists)
      /\ OnlyDestroyIfEmpty => Len(stack) <= 1
  BY <1>1 DEF DestroyInv
<1>5. PICK folder \in Folders : folder = Inner.folder
  BY <1>1, StackFacts DEF FrameType
<1>6. /\ folder \in OpenFolders /\ folder \notin OpenFolders'
      /\ OpenFolders = OpenFolders' \cup {folder} /\ folder \in U
  BY <1>1, <1>2, <1>3, <1>5, FoldersApart DEF DestroySoFar
<1>7. folder \notin AskedWith({1})
  <2>1. AskedWith({1}) \subseteq Asked /\ Asked \subseteq Files
    BY <1>1, AnswerFacts DEF KeptInv
  <2> QED
    BY <2>1, TreeAssumption
<1>8. /\ folder \notin A /\ IsFiniteSet(A) /\ IsFiniteSet(before \ exists)
      /\ folder \in exists /\ folder \notin before \ exists /\ LossesOf(A)
      /\ A \subseteq Left(U)
  BY <1>3, <1>4, <1>6, NodesFinite DEF DestroySoFar, Left
<1>9. Shrinks
  <2>1. /\ stack \in Seq(FrameType) /\ Len(stack) \in Nat \ {0} /\ Inner = stack[Len(stack)]
    BY <1>1, LoopBooks DEF Types
  <2>2. \A k \in 1 .. Len(stack) : stack[k].rest \subseteq exists'
    <3> TAKE k \in 1 .. Len(stack)
    <3>1. stack[k].rest \subseteq exists /\ stack[k].rest \cap U = {}
      BY <1>1, <1>3 DEF Search, DestroySoFar
    <3> QED
      BY <1>2, <1>5, <1>6, <3>1
  <2> QED
    BY <1>1, <1>2, <2>1, <2>2 DEF Shrinks
<1>10. Search(U)'
  BY <1>1, <1>3, <1>9, SearchShrinks DEF DestroySoFar
<1>11. \A S : AskedWith(S)' = AskedWith(S)
  BY <1>2 DEF AskedWith
<1>12. Covers(U) => Covers(U)'
  <2> SUFFICES ASSUME Covers(U)
               PROVE  Covers(U)'
    OBVIOUS
  <2>1. Waiting' = Waiting /\ stack'[Len(stack')].rest = {} /\ exists' \subseteq exists
    BY <1>1, <1>2, LoopBooks DEF Waiting
  <2>2. \A x \in exists' \ {Root} :
          Parent[x] \in U \ unsearchable => x \in U \cup Waiting'
    BY <1>1, <2>1 DEF Covers, Entering
  <2> QED
    BY <1>1, <1>2, <2>1, <2>2 DEF Covers, Entering
<1>13. CASE /\ exists' = exists \ {Inner.folder} /\ ret' = Inner.nReturn + 1
            /\ failed' = failed + Inner.nFailed
  <2>1. LossesOf(A)' /\ Ledger(Books', 1 .. Levels', (before \ exists) \cup {folder})
    BY <1>1, <1>2, <1>4, <1>8, <1>13, ReturnLedgers DEF BooksOf
  <2>2. before \ exists' = (before \ exists) \cup {folder}
    BY <1>4, <1>5, <1>8, <1>13
  <2>3. Left(U)' = Left(U)
    BY <1>5, <1>6, <1>11, <1>13 DEF Left
  <2>4. DestroySoFar(U, A)'
    BY <1>2, <1>3, <1>10, <1>11, <1>12, <2>1, <2>3 DEF DestroySoFar
  <2>5. OpenFolders' \subseteq exists' /\ exists' \subseteq before
    BY <1>4, <1>5, <1>6, <1>13
  <2>6. Ledger(Books', 1 .. Levels', before' \ exists')
    BY <1>2, <2>1, <2>2
  <2> QED
    BY <1>2, <1>4, <2>4, <2>5, <2>6 DEF DestroyInv, BooksOf
<1>14. CASE /\ ret' = Inner.nReturn /\ failed' = failed + Inner.nFailed + 1
            /\ exists' = exists
  <2>1. LossesOf(A \cup {folder})'
    BY <1>1, <1>2, <1>8, <1>14, ReturnLedgers
  <2>2. Ledger(Books', 1 .. Levels', before \ exists)
    BY <1>1, <1>2, <1>4, <1>8, <1>14, ReturnLedgers DEF BooksOf
  <2>3. Left(U)' = Left(U) \cup {folder}
    BY <1>6, <1>7, <1>8, <1>11, <1>14 DEF Left
  <2>4. DestroySoFar(U, A \cup {folder})'
    <3>1. A \cup {folder} \subseteq Left(U)' /\ (A = Left(U) => A \cup {folder} = Left(U)')
      BY <1>8, <2>3
    <3> QED
      BY <1>2, <1>3, <1>10, <1>11, <1>12, <2>1, <3>1 DEF DestroySoFar
  <2>5. A \cup {folder} \in SUBSET Nodes
    BY DEF Nodes
  <2> QED
    BY <1>2, <1>4, <1>6, <1>14, <2>2, <2>4, <2>5 DEF DestroyInv, BooksOf
<1> QED
  BY <1>2, <1>13, <1>14

-----------------------------------------------------------------------------
\* CopyFiles.

\* What is known of an entry the function is asked about.
LEMMA CopyMeets ==
  ASSUME IndInv, CopyInv, op = "CopyFiles", NEW e, Touches(e),
         NEW answer \in Int, Ask(e, answer)
  PROVE  /\ e \in Nodes /\ e \in exists /\ e # Root /\ Parent[e] = Inner.folder
         /\ e \notin AskedWith({0}) /\ e \notin Entered /\ e \notin Written
         /\ ~CancelledIn(e) /\ IsFiniteSet(Written \cup Through)
         /\ IsFiniteSet(Refused)
         /\ \A S : AskedWith(S)' = AskedWith(S) \cup (IF answer \in S THEN {e} ELSE {})
<1>1. Types /\ Searches /\ CopyCovers
  BY DEF IndInv
<1>2. PICK U \in SUBSET Nodes : Search(U)
  BY <1>1 DEF Searches
<1>3. e \in Nodes \ U /\ e # Root /\ e \in exists /\ Parent[e] = Inner.folder
  BY <1>1, <1>2, SearchTouches
<1>4. /\ Asked \subseteq U /\ source \in U /\ \A S : AskedWith(S) \subseteq Asked
      /\ \A x \in Asked : x # Root /\ Parent[x] \in U
  BY <1>1, <1>2, AnswerFacts DEF Search
<1>5. e \notin Entered
  BY <1>3, <1>4 DEF Entered
<1>6. e \notin AskedWith({0}) /\ ~CancelledIn(e)
  BY <1>3, <1>4 DEF CancelledIn
<1>7. e \notin Written
  BY <1>6 DEF CopyInv
<1>8. IsFiniteSet(Written \cup Through) /\ IsFiniteSet(Refused)
  <2>1. Written \cup Through \subseteq Nodes
    BY DEF Written, Through, Entered, Nodes
  <2>2. Refused \subseteq Nodes
    BY <1>2, <1>4 DEF Refused
  <2> QED
    BY <2>1, <2>2, NodesFinite
<1>9. \A S : AskedWith(S)' = AskedWith(S) \cup (IF answer \in S THEN {e} ELSE {})
  BY <1>1, <1>3, AskedWithFacts
<1> QED
  BY <1>3, <1>5, <1>6, <1>7, <1>8, <1>9

\* It is passed: skipped, copied or refused.
LEMMA CopyGoesOn ==
  ASSUME IndInv, CopyInv, op = "CopyFiles", pc = "loop", NEW e \in Inner.rest,
         NEW answer \in 0 .. 1, Ask(e, answer), UNCHANGED <<exists, call>>,
         nRecursive => e \notin Folders,
         NEW f \in FrameType, f.folder = Inner.folder, f.rest = Inner.rest \ {e},
         f.nFailed = Inner.nFailed, GoOn(f),
         \A g \in Folders : dest'[g] = "folder" <=> dest[g] = "folder",
         \/ Written' = Written /\ f.nReturn = Inner.nReturn
         \/ /\ Written' = Written \cup {e} /\ f.nReturn = Inner.nReturn + 1
            /\ answer = 0,
         failed' = Cardinality(Refused')
  PROVE  CopyInv'
<1>1. Types /\ pc # "done" /\ Written \subseteq AskedWith({0}) /\ NoLosses
      /\ (\A g \in OpenFolders : ~CancelledIn(g)) /\ BooksOf(Written \cup Through)
  BY DEF IndInv, CopyInv
<1>2. answer \in Int /\ answer \notin {2} /\ answer \in {0, 1}
  BY SMT
<1>3. /\ pc' = "loop" /\ stack' = Append(Outer, f) /\ source' = source
      /\ nRecursive' = nRecursive /\ op' = op /\ exists' = exists
      /\ unsearchable' = unsearchable
  BY DEF GoOn, call
<1>4. Touches(e)
  BY <1>2, <1>3 DEF Touches
<1>5. /\ e \in Nodes /\ e \notin Entered /\ e \notin Written
      /\ IsFiniteSet(Written \cup Through)
      /\ \A S : AskedWith(S)' = AskedWith(S) \cup (IF answer \in S THEN {e} ELSE {})
  BY <1>2, <1>4, CopyMeets
<1>6. /\ AskedWith({2})' = AskedWith({2}) /\ AskedWith({0, 1})' = AskedWith({0, 1}) \cup {e}
      /\ AskedWith({0}) \subseteq AskedWith({0})'
      /\ answer = 0 => e \in AskedWith({0})'
  BY <1>2, <1>5
<1>7. Entered' = Entered
  <2>1. \A g \in (exists \cap Folders) \ unsearchable :
          g \in Entered' <=>
            /\ dest[g] = "folder"
            /\ g = source \/ (nRecursive /\ g \in AskedWith({0, 1}) \cup {e})
    BY <1>3, <1>6 DEF Entered
  <2>2. /\ Entered \subseteq (exists \cap Folders) \ unsearchable
        /\ Entered' \subseteq (exists \cap Folders) \ unsearchable
    BY <1>3 DEF Entered
  <2> QED
    BY <2>1, <2>2 DEF Entered
<1>8. \A g : CancelledIn(g)' = CancelledIn(g)
  BY <1>6 DEF CancelledIn
<1>9. OpenFolders' = OpenFolders
  BY <1>1, GoOnBooks
<1>10. Through' = Through
  BY <1>7, <1>8, <1>9 DEF Through
<1>11. Ledger(Books', 1 .. Levels', Written' \cup Through)
  <2>1. e \notin Written \cup Through
    BY <1>5 DEF Through
  <2>2. CASE Written' = Written /\ f.nReturn = Inner.nReturn
    BY <1>1, <1>5, <2>1, <2>2, GoOnLedgers DEF BooksOf
  <2>3. CASE Written' = Written \cup {e} /\ f.nReturn = Inner.nReturn + 1
    <3>1. Ledger(Books', 1 .. Levels', (Written \cup Through) \cup {e})
      BY <1>1, <1>5, <2>1, <2>3, GoOnLedgers DEF BooksOf
    <3>2. Written' \cup Through = (Written \cup Through) \cup {e}
      BY <2>3
    <3> QED
      BY <3>1, <3>2
  <2> QED
    BY <2>2, <2>3
<1>12. NoLosses'
  BY <1>1, NoLossesGoOn
<1>13. Written' \subseteq AskedWith({0})'
  BY <1>1, <1>6
<1>14. \A g \in OpenFolders' : ~CancelledIn(g)'
  BY <1>1, <1>8, <1>9
<1> QED
  BY <1>3, <1>10, <1>11, <1>12, <1>13, <1>14 DEF CopyInv, BooksOf

LEMMA CopySkipsCopies ==
  ASSUME IndInv, CopyInv, CopySkips
  PROVE  CopyInv'
<1>1. Types /\ pc = "loop" /\ op = "CopyFiles"
  BY DEF IndInv, CopySkips, Copying
<1>2. PICK e \in Copied : Ask(e, 1) /\ GoOn(Passed(e))
  BY DEF CopySkips
<1>3. e \in Inner.rest /\ (nRecursive => e \notin Folders) /\ 1 \in 0 .. 1 /\ 1 \in Int
  <2>1. Folders \cap Files = {}
    BY TreeAssumption
  <2>2. 1 \in 0 .. 1 /\ 1 \in Int
    BY SMT
  <2> QED
    BY <2>1, <2>2 DEF Copied
<1>4. /\ exists' = exists /\ dest' = dest /\ UNCHANGED call /\ failed' = failed
      /\ nRecursive' = nRecursive
  BY DEF CopySkips, disk, call
<1>5. /\ Passed(e) \in FrameType /\ Passed(e).folder = Inner.folder
      /\ Passed(e).rest = Inner.rest \ {e}
      /\ Passed(e).nReturn = Inner.nReturn /\ Passed(e).nFailed = Inner.nFailed
  BY <1>1, <1>3, PassedFacts, PassedCounts
<1>6. Written' = Written
  BY <1>4 DEF Written
<1>7. Touches(e)
  BY <1>1, <1>2, <1>3, <1>4, <1>5 DEF Touches, GoOn
<1>8. AskedWith({0})' = AskedWith({0})
  <2>1. 1 \notin {0}
    OBVIOUS
  <2> QED
    BY <1>1, <1>2, <1>3, <1>7, <2>1, CopyMeets
<1>9. failed' = Cardinality(Refused')
  <2>1. Refused' = Refused
    BY <1>4, <1>6, <1>8 DEF Refused
  <2> QED
    BY <1>1, <1>4, <2>1 DEF CopyInv
<1> QED
  BY <1>1, <1>2, <1>3, <1>4, <1>5, <1>6, <1>9, CopyGoesOn

LEMMA CopyFileCopies ==
  ASSUME IndInv, CopyInv, CopyFile
  PROVE  CopyInv'
<1>1. Types /\ pc = "loop" /\ op = "CopyFiles" /\ dest \in [Nodes -> There]
  BY DEF IndInv, CopyFile, Copying, Types
<1>2. PICK e \in Copied :
        /\ Ask(e, 0)
        /\ \/ /\ e \in Files
              /\ dest' = [dest EXCEPT ![e] = "copy"]
              /\ GoOn([Passed(e) EXCEPT !.nReturn = @ + 1])
              /\ UNCHANGED failed
           \/ failed' = failed + 1 /\ GoOn(Passed(e)) /\ UNCHANGED dest
  BY DEF CopyFile
<1>3. /\ e \in Inner.rest /\ (nRecursive => e \notin Folders) /\ 0 \in 0 .. 1 /\ 0 \in Int
      /\ (e \in Files => e \notin Folders) /\ (nRecursive => e \in Files)
  <2>1. Folders \cap Files = {}
    BY TreeAssumption
  <2>2. 0 \in 0 .. 1 /\ 0 \in Int
    BY SMT
  <2> QED
    BY <2>1, <2>2 DEF Copied
<1>4. exists' = exists /\ UNCHANGED call /\ nRecursive' = nRecursive
  BY DEF CopyFile, call
<1>5. /\ Passed(e) \in FrameType /\ Passed(e).folder = Inner.folder
      /\ Passed(e).rest = Inner.rest \ {e}
      /\ Passed(e).nReturn = Inner.nReturn /\ Passed(e).nFailed = Inner.nFailed
  BY <1>1, <1>3, PassedFacts, PassedCounts
<1> DEFINE f == [Passed(e) EXCEPT !.nReturn = @ + 1]
<1>6. /\ f \in FrameType /\ f.folder = Inner.folder /\ f.rest = Inner.rest \ {e}
      /\ f.nReturn = Inner.nReturn + 1 /\ f.nFailed = Inner.nFailed
  BY <1>1, <1>3, PassedFacts, PassedCounts
<1>7. Ask(e, 0) /\ (GoOn(f) \/ GoOn(Passed(e)))
  BY <1>2
<1> HIDE DEF f
<1>8. Touches(e)
  BY <1>1, <1>3, <1>4, <1>5, <1>6, <1>7 DEF Touches, GoOn
<1>9. /\ e \in Nodes /\ e \notin AskedWith({0}) /\ e \notin Written /\ IsFiniteSet(Refused)
      /\ AskedWith({0})' = AskedWith({0}) \cup {e}
  <2>1. 0 \in {0}
    OBVIOUS
  <2> QED
    BY <1>1, <1>3, <1>7, <1>8, <2>1, CopyMeets
<1>10. CASE /\ e \in Files /\ dest' = [dest EXCEPT ![e] = "copy"] /\ failed' = failed
            /\ GoOn(f)
  <2>1. Written' = Written \cup {e}
    BY <1>1, <1>9, <1>10 DEF Written, Nodes
  <2>2. \A g \in Folders : dest'[g] = "folder" <=> dest[g] = "folder"
    BY <1>1, <1>3, <1>10 DEF Nodes
  <2>3. failed' = Cardinality(Refused')
    <3>1. Refused' = Refused
      BY <1>4, <1>9, <1>10, <2>1 DEF Refused
    <3> QED
      BY <1>1, <1>10, <3>1 DEF CopyInv
  <2> QED
    BY <1>1, <1>3, <1>4, <1>6, <1>7, <1>10, <2>1, <2>2, <2>3, CopyGoesOn
<1>11. CASE failed' = failed + 1 /\ GoOn(Passed(e)) /\ dest' = dest
  <2>1. Written' = Written
    BY <1>11 DEF Written
  <2>2. failed' = Cardinality(Refused')
    <3>1. Refused' = Refused \cup {e} /\ e \notin Refused
      BY <1>3, <1>4, <1>9, <2>1 DEF Refused
    <3>2. Cardinality(Refused \cup {e}) = Cardinality(Refused) + 1
      BY <1>9, <3>1, FS_AddElement
    <3> QED
      BY <1>1, <1>11, <3>1, <3>2 DEF CopyInv
  <2> QED
    BY <1>1, <1>3, <1>4, <1>5, <1>7, <1>11, <2>1, <2>2, CopyGoesOn
<1> QED
  BY <1>2, <1>10, <1>11 DEF f

\* A folder is entered.
LEMMA CopyFolderCopies ==
  ASSUME IndInv, CopyInv, CopyFolder
  PROVE  CopyInv'
<1>1. /\ Types /\ pc = "loop" /\ op = "CopyFiles" /\ nRecursive
      /\ Written \subseteq AskedWith({0}) /\ NoLosses /\ failed = Cardinality(Refused)
      /\ (\A g \in OpenFolders : ~CancelledIn(g)) /\ BooksOf(Written \cup Through)
  BY DEF IndInv, CopyFolder, Copying, CopyInv
<1>2. PICK e \in Inner.rest \cap Folders, answer \in 0 .. 1 :
        Ask(e, answer) /\ stack' = Outer \o <<Passed(e), Frame(e)>>
  BY DEF CopyFolder
<1>3. /\ exists' = exists /\ dest' = dest /\ UNCHANGED call /\ failed' = failed
      /\ ret' = ret /\ pc' = "begin" /\ nRecursive' = nRecursive /\ op' = op
      /\ source' = source /\ unsearchable' = unsearchable
  BY DEF CopyFolder, disk, call
<1>4. answer \in Int /\ answer \notin {2} /\ answer \in {0, 1}
  BY SMT
<1>5. /\ Passed(e) \in FrameType /\ Passed(e).folder = Inner.folder
      /\ Passed(e).rest = Inner.rest \ {e}
      /\ Passed(e).nReturn = Inner.nReturn /\ Passed(e).nFailed = Inner.nFailed
  BY <1>1, <1>2, PassedFacts, PassedCounts
<1>6. Touches(e)
  BY <1>1, <1>2, <1>3, <1>4, <1>5 DEF Touches
<1>7. /\ e \in exists /\ e \notin Entered /\ e \notin Written /\ ~CancelledIn(e)
      /\ IsFiniteSet(Written \cup Through)
      /\ \A S : AskedWith(S)' = AskedWith(S) \cup (IF answer \in S THEN {e} ELSE {})
  BY <1>1, <1>2, <1>4, <1>6, CopyMeets
<1>8. /\ AskedWith({2})' = AskedWith({2}) /\ AskedWith({0, 1})' = AskedWith({0, 1}) \cup {e}
      /\ AskedWith({0}) \subseteq AskedWith({0})'
      /\ AskedWith({0})' \subseteq AskedWith({0}) \cup {e}
  BY <1>4, <1>7
<1>9. \A g : CancelledIn(g)' = CancelledIn(g)
  BY <1>8 DEF CancelledIn
<1>10. Entered \subseteq Entered' /\ Entered' \subseteq Entered \cup {e}
  <2>1. \A g \in (exists \cap Folders) \ unsearchable :
          g \in Entered' <=>
            /\ dest[g] = "folder"
            /\ g = source \/ (nRecursive /\ g \in AskedWith({0, 1}) \cup {e})
    BY <1>3, <1>8 DEF Entered
  <2>2. /\ Entered \subseteq (exists \cap Folders) \ unsearchable
        /\ Entered' \subseteq (exists \cap Folders) \ unsearchable
    BY <1>3 DEF Entered
  <2> QED
    BY <2>1, <2>2 DEF Entered
<1>11. OpenFolders' = OpenFolders \cup {e}
  BY <1>1, <1>2, <1>3, <1>5, EnterBooks
<1>12. Through' = Through /\ Written' = Written
  <2>1. Through' = Through
    BY <1>7, <1>9, <1>10, <1>11 DEF Through
  <2> QED
    BY <1>3, <2>1 DEF Written
<1>13. Refused' = Refused
  <2>1. e \notin Files
    BY TreeAssumption
  <2> QED
    BY <1>1, <1>3, <1>8, <1>12, <2>1 DEF Refused
<1>14. Ledger(Books', 1 .. Levels', Written \cup Through)
  <2>1. e \notin Written \cup Through
    BY <1>7 DEF Through
  <2> QED
    BY <1>1, <1>2, <1>3, <1>5, <1>7, <2>1, EnterLedgers DEF BooksOf
<1>15. NoLosses'
  BY <1>1, <1>2, <1>3, <1>5, NoLossesGoOn
<1>16. Inner'.nReturn = 0
  <2>1. /\ Len(stack') = Len(stack) + 1 /\ stack'[Len(stack) + 1] = Frame(e)
    BY <1>1, <1>2, <1>5, FrameFacts, EnterFacts
  <2>2. Inner' = stack'[Len(stack')]
    BY DEF Inner, Last
  <2> QED
    BY <2>1, <2>2 DEF Frame
<1>17. \A g \in OpenFolders' : ~CancelledIn(g)'
  BY <1>1, <1>7, <1>9, <1>11
<1> QED
  BY <1>1, <1>3, <1>8, <1>12, <1>13, <1>14, <1>15, <1>16, <1>17 DEF CopyInv, BooksOf

\* It is made at the destination, or the copy of it returns.
LEMMA CopyBeginsCopies ==
  ASSUME IndInv, CopyInv, CopyBegins
  PROVE  CopyInv'
<1>1. /\ Types /\ Searches /\ pc = "begin" /\ op = "CopyFiles" /\ pc # "done"
      /\ Written \subseteq AskedWith({0}) /\ NoLosses /\ failed = Cardinality(Refused)
      /\ (\A g \in OpenFolders : ~CancelledIn(g)) /\ BooksOf(Written \cup Through)
      /\ Inner.nReturn = 0
  BY DEF IndInv, CopyBegins, CopyInv, Types
<1>2. /\ exists' = exists /\ UNCHANGED call /\ failed' = failed /\ stack' = stack
      /\ ret' = 0 /\ asked' = asked /\ nRecursive' = nRecursive /\ op' = op
  BY DEF CopyBegins, call, hist
<1> DEFINE F == Inner.folder
<1>3. dest' = dest \/ dest' = [dest EXCEPT ![F] = "folder"]
  BY DEF CopyBegins
<1>4. PICK U \in SUBSET Nodes : Search(U)
  BY <1>1 DEF Searches
<1>5. /\ F \in OpenFolders /\ F \in Folders
  <2>1. /\ Inner = stack[Len(stack)] /\ Len(stack) \in 1 .. Len(stack)
        /\ Inner \in FrameType /\ OpenFolders = {stack[k].folder : k \in 1 .. Len(stack)}
    BY <1>1, LoopBooks
  <2> QED
    BY <2>1 DEF FrameType
<1>6. /\ Entered \subseteq Entered' /\ Entered' \subseteq Entered \cup {F}
      /\ pc' \in {"loop", "return"} /\ (pc' = "return" => F \notin Entered')
  BY CopyBeginsEnters
<1> HIDE DEF F
<1>7. /\ \A S : AskedWith(S)' = AskedWith(S)
      /\ \A g : CancelledIn(g)' = CancelledIn(g)
  BY <1>2 DEF AskedWith, CancelledIn
<1>8. Written' = Written
  <2>1. F \notin Files /\ dest \in [Nodes -> There]
    BY <1>1, <1>5, TreeAssumption DEF Types
  <2>2. \A e \in Files : dest'[e] = dest[e]
    BY <1>3, <2>1 DEF Nodes
  <2> QED
    BY <2>2 DEF Written
<1>9. Refused' = Refused
  BY <1>2, <1>7, <1>8 DEF Refused
<1>10. IsFiniteSet(Written \cup Through)
  <2>1. Written \cup Through \subseteq Nodes
    BY DEF Written, Through, Entered, Nodes
  <2> QED
    BY <2>1, NodesFinite
<1>11. CASE pc' = "loop"
  <2>1. Levels' = Levels /\ Open' = Open
    BY <1>1, <1>2, <1>11 DEF Levels, Open
  <2>2. OpenFolders' = OpenFolders /\ Losses' = Losses
    BY <1>2, <2>1 DEF OpenFolders, Losses
  <2>3. Books' = Books
    BY <1>1, <1>2, <1>11, <2>1 DEF Books
  <2>4. Through' = Through
    BY <1>5, <1>6, <1>7, <2>2 DEF Through
  <2>5. BooksOf(Written \cup Through)'
    BY <1>1, <1>8, <2>1, <2>3, <2>4 DEF BooksOf
  <2>6. NoLosses'
    BY <1>1, <2>1, <2>2 DEF NoLosses
  <2> QED
    BY <1>1, <1>2, <1>7, <1>8, <1>9, <1>11, <2>2, <2>5, <2>6 DEF CopyInv
<1>12. CASE pc' = "return"
  <2>1. F \notin OpenFolders' /\ OpenFolders = OpenFolders' \cup {F}
    BY <1>1, <1>2, <1>4, <1>12, FoldersApart DEF F
  <2>2. Through' = Through
    BY <1>6, <1>7, <1>12, <2>1 DEF Through
  <2>3. Ledger(Books', 1 .. Levels', Written \cup Through)
    <3>1. PICK x : x \notin Written \cup Through
      BY NoSetContainsEverything
    <3> QED
      BY <1>1, <1>2, <1>10, <1>12, <3>1, ReturnLedgers DEF BooksOf
  <2>4. NoLosses'
    BY <1>1, <1>2, <1>12, NoLossesReturn
  <2> QED
    BY <1>1, <1>2, <1>7, <1>8, <1>9, <1>12, <2>1, <2>2, <2>3, <2>4 DEF CopyInv, BooksOf
<1> QED
  BY <1>6, <1>11, <1>12

LEMMA CopyCancelledCopies ==
  ASSUME IndInv, CopyInv, CopyCancelled
  PROVE  CopyInv'
<1>1. /\ Types /\ Searches /\ pc = "loop" /\ op = "CopyFiles"
      /\ Written \subseteq AskedWith({0}) /\ NoLosses /\ failed = Cardinality(Refused)
      /\ (\A g \in OpenFolders : ~CancelledIn(g)) /\ BooksOf(Written \cup Through)
  BY DEF IndInv, CopyCancelled, Copying, CopyInv
<1>2. PICK e \in Inner.rest : Ask(e, 2)
  BY DEF CopyCancelled
<1>3. /\ exists' = exists /\ dest' = dest /\ UNCHANGED call /\ failed' = failed
      /\ stack' = stack /\ pc' = "return" /\ ret' = Inner.nReturn
      /\ source' = source /\ nRecursive' = nRecursive /\ op' = op
      /\ unsearchable' = unsearchable
  BY DEF CopyCancelled, Return, disk, call
<1>4. 2 \in Int /\ 2 \in {2} /\ 2 \notin {0, 1} /\ 2 \notin {0}
  BY SMT
<1>5. Touches(e)
  BY <1>1, <1>2, <1>3, <1>4 DEF Touches
<1>6. PICK U \in SUBSET Nodes : Search(U)
  BY <1>1 DEF Searches
<1>7. /\ e # Root /\ Parent[e] = Inner.folder /\ IsFiniteSet(Written \cup Through)
      /\ AskedWith({0})' = AskedWith({0}) /\ AskedWith({0, 1})' = AskedWith({0, 1})
      /\ AskedWith({2})' = AskedWith({2}) \cup {e}
  <2>1. /\ e # Root /\ Parent[e] = Inner.folder /\ IsFiniteSet(Written \cup Through)
        /\ \A S : AskedWith(S)' = AskedWith(S) \cup (IF 2 \in S THEN {e} ELSE {})
    BY <1>1, <1>2, <1>4, <1>5, CopyMeets
  <2> QED
    BY <1>4, <2>1
<1>8. /\ Inner.folder \in OpenFolders /\ Inner.folder \notin OpenFolders'
      /\ OpenFolders = OpenFolders' \cup {Inner.folder}
  BY <1>1, <1>3, <1>6, FoldersApart
<1>9. \A g : CancelledIn(g)' <=> CancelledIn(g) \/ g = Inner.folder
  BY <1>7 DEF CancelledIn
<1>10. /\ Written' = Written /\ Entered' = Entered
  BY <1>3, <1>7 DEF Written, Entered
<1>11. Refused' = Refused
  BY <1>3, <1>7, <1>10 DEF Refused
<1>12. Through' = Through
  <2>1. Inner.folder \notin Through'
    BY <1>9 DEF Through
  <2>2. \A g : g # Inner.folder => (g \in Through' <=> g \in Through)
    BY <1>8, <1>9, <1>10 DEF Through
  <2>3. Inner.folder \notin Through
    BY <1>8 DEF Through
  <2> QED
    BY <2>1, <2>2, <2>3
<1>13. Ledger(Books', 1 .. Levels', Written \cup Through)
  <2>1. PICK x : x \notin Written \cup Through
    BY NoSetContainsEverything
  <2> QED
    BY <1>1, <1>3, <1>7, <2>1, ReturnLedgers DEF BooksOf
<1>14. NoLosses'
  BY <1>1, <1>3, NoLossesReturn
<1>15. \A g \in OpenFolders' : ~CancelledIn(g)'
  BY <1>1, <1>8, <1>9
<1> QED
  BY <1>1, <1>3, <1>7, <1>10, <1>11, <1>12, <1>13, <1>14, <1>15 DEF CopyInv, BooksOf

LEMMA CopyDoneCopies ==
  ASSUME IndInv, CopyInv, CopyDone
  PROVE  CopyInv'
<1>1. /\ Types /\ Searches /\ CopyCovers /\ pc = "loop" /\ op = "CopyFiles"
      /\ Written \subseteq AskedWith({0}) /\ NoLosses /\ failed = Cardinality(Refused)
      /\ (\A g \in OpenFolders : ~CancelledIn(g)) /\ BooksOf(Written \cup Through)
  BY DEF IndInv, CopyDone, Copying, CopyInv
<1>2. /\ pc' = "return" /\ ret' = Inner.nReturn + 1 /\ exists' = exists
      /\ dest' = dest /\ UNCHANGED call /\ stack' = stack /\ failed' = failed
      /\ asked' = asked /\ source' = source /\ nRecursive' = nRecursive
      /\ op' = op /\ unsearchable' = unsearchable
  BY DEF CopyDone, Return, disk, hist, call
<1>3. PICK U \in SUBSET Nodes : Search(U)
  BY <1>1 DEF Searches
<1>4. /\ \A S : AskedWith(S)' = AskedWith(S)
      /\ \A g : CancelledIn(g)' = CancelledIn(g)
      /\ Entered' = Entered /\ Written' = Written
  BY <1>2 DEF AskedWith, CancelledIn, Entered, Written
<1>5. Refused' = Refused
  BY <1>2, <1>4 DEF Refused
<1>6. /\ Inner.folder \in OpenFolders /\ Inner.folder \notin OpenFolders'
      /\ OpenFolders = OpenFolders' \cup {Inner.folder} /\ Inner.folder \in Folders
  BY <1>1, <1>2, <1>3, FoldersApart
<1>7. Inner.folder \in Entered
  <2>1. Inner = stack[Len(stack)] /\ Len(stack) \in 1 .. Len(stack)
    BY <1>1, LoopBooks
  <2> QED
    BY <1>1, <2>1 DEF CopyCovers
<1>8. Through' = Through \cup {Inner.folder}
  BY <1>1, <1>4, <1>6, <1>7 DEF Through
<1>9. Inner.folder \notin Written \cup Through
  BY <1>6, TreeAssumption DEF Written, Through
<1>10. IsFiniteSet(Written \cup Through)
  <2>1. Written \cup Through \subseteq Nodes
    BY DEF Written, Through, Entered, Nodes
  <2> QED
    BY <2>1, NodesFinite
<1>11. BooksOf(Written \cup Through)'
  <2>1. Ledger(Books', 1 .. Levels', (Written \cup Through) \cup {Inner.folder})
    BY <1>1, <1>2, <1>9, <1>10, ReturnLedgers DEF BooksOf
  <2>2. Written' \cup Through' = (Written \cup Through) \cup {Inner.folder}
    BY <1>4, <1>8
  <2> QED
    BY <2>1, <2>2 DEF BooksOf
<1>12. NoLosses'
  BY <1>1, <1>2, NoLossesReturn
<1>13. \A g \in OpenFolders' : ~CancelledIn(g)'
  BY <1>1, <1>4, <1>6
<1> QED
  BY <1>1, <1>2, <1>4, <1>5, <1>11, <1>12, <1>13 DEF CopyInv

LEMMA CountReturnsCopies ==
  ASSUME IndInv, CopyInv, CountReturns, op = "CopyFiles"
  PROVE  CopyInv'
<1>1. /\ Types
      /\ Written \subseteq AskedWith({0}) /\ NoLosses /\ failed = Cardinality(Refused)
      /\ (\A g \in OpenFolders : ~CancelledIn(g)) /\ BooksOf(Written \cup Through)
  BY DEF IndInv, CopyInv
<1>2. /\ pc' # "begin" /\ exists' = exists /\ dest' = dest /\ failed' = failed
      /\ asked' = asked /\ source' = source /\ nRecursive' = nRecursive
      /\ unsearchable' = unsearchable
  BY DEF CountReturns, disk, hist, call
<1>3. /\ \A S : AskedWith(S)' = AskedWith(S)
      /\ \A g : CancelledIn(g)' = CancelledIn(g)
      /\ Entered' = Entered /\ Written' = Written
  BY <1>2 DEF AskedWith, CancelledIn, Entered, Written
<1>4. Refused' = Refused
  BY <1>2, <1>3 DEF Refused
<1>5. IsFiniteSet(Written \cup Through)
  <2>1. Written \cup Through \subseteq Nodes
    BY DEF Written, Through, Entered, Nodes
  <2> QED
    BY <2>1, NodesFinite
<1>6. OpenFolders' = OpenFolders
  BY <1>1, <1>5, CountReturnsLedgers
<1>7. Through' = Through
  BY <1>3, <1>6 DEF Through
<1>8. Ledger(Books', 1 .. Levels', Written \cup Through)
  BY <1>1, <1>5, CountReturnsLedgers DEF BooksOf
<1>9. NoLosses'
  BY <1>1, NoLossesReturn
<1> QED
  BY <1>1, <1>2, <1>3, <1>4, <1>6, <1>7, <1>8, <1>9 DEF CopyInv, BooksOf

-----------------------------------------------------------------------------
\* RunForeach, which counts nothing.

LEMMA VisitCounts ==
  ASSUME IndInv, PlainInv, Visit
  PROVE  PlainInv'
<1>1. /\ Types /\ pc = "loop" /\ failed = 0 /\ ret \in 0 .. 1
      /\ \A k \in 1 .. Len(stack) : stack[k].nReturn = 0 /\ stack[k].nFailed = 0
  BY DEF IndInv, Visit, PlainInv
<1>2. failed' = failed
  BY DEF Visit
<1>3. PICK e \in Inner.rest :
        \/ Return(1) /\ UNCHANGED stack
        \/ e \in Folders /\ Enter(e)
        \/ GoOn(Passed(e))
  BY DEF Visit
<1>4. CASE Return(1) /\ UNCHANGED stack
  BY <1>1, <1>2, <1>4 DEF PlainInv, Return
<1>5. CASE (e \in Folders /\ Enter(e)) \/ GoOn(Passed(e))
  <2>1. /\ Passed(e) \in FrameType
        /\ Passed(e).nReturn = Inner.nReturn /\ Passed(e).nFailed = Inner.nFailed
    BY <1>1, PassedFacts, PassedCounts
  <2>2. Inner.nReturn = 0 /\ Inner.nFailed = 0
    BY <1>1, LoopBooks
  <2>3. Frame(e).nReturn = 0 /\ Frame(e).nFailed = 0
    BY DEF Frame
  <2>4. ASSUME NEW k \in 1 .. Len(stack')
        PROVE  stack'[k].nReturn = 0 /\ stack'[k].nFailed = 0
    <3>1. \/ k \in 1 .. Len(stack) /\ stack'[k] = stack[k]
          \/ stack'[k] = Passed(e)
          \/ stack'[k] = Frame(e)
      BY <1>1, <1>5, <2>1, FramesAfter DEF Enter
    <3> QED
      BY <1>1, <2>1, <2>2, <2>3, <3>1
  <2>5. ret' = ret
    BY <1>5 DEF Enter, GoOn
  <2> QED
    BY <1>1, <1>2, <2>4, <2>5 DEF PlainInv
<1> QED
  BY <1>3, <1>4, <1>5

LEMMA WalkCounts ==
  ASSUME IndInv, PlainInv, FMTravFails \/ Walked \/ WalkReturns
  PROVE  PlainInv'
<1>1. /\ Types /\ Walking /\ pc # "done" /\ failed = 0 /\ ret \in 0 .. 1
      /\ \A k \in 1 .. Len(stack) : stack[k].nReturn = 0 /\ stack[k].nFailed = 0
  BY DEF IndInv, FMTravFails, Walked, WalkReturns, PlainInv, Walking
<1>2. failed' = failed
  BY DEF FMTravFails, Walked, WalkReturns
<1>3. CASE FMTravFails
  <2>1. stack' = <<>> /\ ret' = 0
    BY <1>3 DEF FMTravFails
  <2>2. 1 .. Len(stack') = {}
    BY <2>1
  <2> QED
    BY <1>1, <1>2, <2>1, <2>2 DEF PlainInv
<1>4. CASE Walked
  BY <1>1, <1>2, <1>4 DEF PlainInv, Walked, Return
<1>5. CASE WalkReturns
  <2>1. stack' = Outer /\ ret' = ret
    BY <1>5 DEF WalkReturns
  <2>2. ASSUME NEW k \in 1 .. Len(stack')
        PROVE  k \in 1 .. Len(stack) /\ stack'[k] = stack[k]
    <3>1. /\ Len(stack) \in Nat /\ Len(stack') = Len(stack) - 1
          /\ \A l \in 1 .. Len(stack) - 1 : stack'[l] = stack[l]
      BY <1>1, <2>1, StackFacts
    <3>2. k \in 1 .. Len(stack) - 1 /\ k \in 1 .. Len(stack)
      BY <3>1
    <3> QED
      BY <3>1, <3>2
  <2> QED
    BY <1>1, <1>2, <2>1, <2>2 DEF PlainInv
<1> QED
  BY <1>3, <1>4, <1>5

-----------------------------------------------------------------------------
\* The bounds.

Sums == PlainInv /\ CountInv /\ DestroyInv /\ CopyInv

LEMMA OthersStay ==
  ASSUME UNCHANGED call
  PROVE  /\ op # "none" /\ ~Walking => PlainInv'
         /\ op # "GetNumberOfFilesInFolder" => CountInv'
         /\ op # "DestroyFolder" => DestroyInv'
         /\ op # "CopyFiles" => CopyInv'
BY DEF call, PlainInv, CountInv, DestroyInv, CopyInv, Walking

\* What the accounts of a running call are of.
LEMMA SumsLedger ==
  ASSUME IndInv, Sums, op # "none", ~Walking
  PROVE  \E A \in SUBSET Nodes : BooksOf(A)
<1>1. CASE op = "GetNumberOfFilesInFolder"
  <2>1. PICK U \in SUBSET Nodes : CountSoFar(U)
    BY <1>1 DEF Sums, CountInv
  <2>2. U \ {Root} \in SUBSET Nodes /\ BooksOf(U \ {Root})
    BY <2>1 DEF CountSoFar
  <2> QED
    BY <2>2
<1>2. CASE op = "DestroyFolder"
  <2>1. BooksOf(before \ exists) /\ before \ exists \in SUBSET Nodes
    BY <1>2 DEF Sums, DestroyInv
  <2> QED
    BY <2>1
<1>3. CASE op = "CopyFiles"
  <2>1. BooksOf(Written \cup Through) /\ Written \cup Through \in SUBSET Nodes
    BY <1>3 DEF Sums, CopyInv, Written, Through, Entered, Nodes
  <2> QED
    BY <2>1
<1> QED
  BY <1>1, <1>2, <1>3 DEF IndInv, Types, Walking

LEMMA ResultBounded ==
  IndInv /\ Sums /\ pc \in {"return", "done"} => ret \in Bound
<1> SUFFICES ASSUME IndInv, Sums, pc \in {"return", "done"}
             PROVE  ret \in Bound
  OBVIOUS
<1>1. Types
  BY DEF IndInv
<1>2. CASE op = "none" \/ Walking
  <2>1. ret \in 0 .. 1
    BY <1>2 DEF Sums, PlainInv
  <2>2. ret = 0 \/ ret = 1
    BY <2>1
  <2> QED
    BY <2>2, NodesBound
<1>3. CASE op # "none" /\ ~Walking
  <2>1. PICK A \in SUBSET Nodes : BooksOf(A)
    BY <1>3, SumsLedger
  <2>2. Levels \in Nat \ {0}
    BY <1>1, StackFacts DEF Levels
  <2>3. Levels \in 1 .. Levels
    BY <2>2
  <2>4. Books[Levels] = ret
    BY <2>3 DEF Books
  <2>5. IsFiniteSet(Nodes)
    BY TreeAssumption
  <2>6. Books[Levels] \in 0 .. Cardinality(Nodes)
    BY <2>1, <2>3, <2>5, LedgerBound DEF BooksOf
  <2> QED
    BY <2>4, <2>6 DEF Bound
<1> QED
  BY <1>2, <1>3

LEMMA FramesBounded ==
  ASSUME IndInv, Sums, pc \in {"loop", "begin"}, NEW k \in 1 .. Len(stack)
  PROVE  stack[k].nReturn \in Bound /\ stack[k].nFailed \in Bound
<1>1. Types
  BY DEF IndInv
<1>2. /\ Levels = Len(stack) /\ Open = Len(stack) /\ k \in 0 .. Len(stack)
      /\ Books[k] = stack[k].nReturn /\ Losses[k] = stack[k].nFailed
  BY <1>1, LoopBooks
<1>3. IsFiniteSet(Nodes) /\ 0 \in Bound
  BY TreeAssumption, NodesBound
<1>4. stack[k].nReturn \in Bound
  <2>1. CASE op = "none" \/ Walking
    BY <1>3, <2>1 DEF Sums, PlainInv
  <2>2. CASE op # "none" /\ ~Walking
    <3>1. PICK A \in SUBSET Nodes : BooksOf(A)
      BY <2>2, SumsLedger
    <3>2. Books[k] \in 0 .. Cardinality(Nodes)
      BY <1>2, <1>3, <3>1, LedgerBound DEF BooksOf
    <3> QED
      BY <1>2, <3>2 DEF Bound
  <2> QED
    BY <2>1, <2>2
<1>5. stack[k].nFailed \in Bound
  <2>1. CASE op = "none" \/ Walking
    BY <1>3, <2>1 DEF Sums, PlainInv
  <2>2. CASE op \in {"GetNumberOfFilesInFolder", "CopyFiles"}
    <3>1. NoLosses
      BY <2>2 DEF Sums, CountInv, CopyInv
    <3> QED
      BY <1>2, <1>3, <3>1 DEF NoLosses
  <2>3. CASE op = "DestroyFolder"
    <3>1. PICK A \in SUBSET Nodes : LossesOf(A)
      BY <2>3 DEF Sums, DestroyInv, DestroySoFar
    <3>2. Losses[k] \in 0 .. Cardinality(Nodes)
      BY <1>2, <1>3, <3>1, LedgerBound DEF LossesOf
    <3> QED
      BY <1>2, <3>2 DEF Bound
  <2> QED
    BY <1>1, <2>1, <2>2, <2>3 DEF Types, Walking
<1> QED
  BY <1>4, <1>5

LEMMA TopStays ==
  ASSUME IndInv, Accounts, IndInv', Sums', UNCHANGED call, pc # "done",
         pc' \in {"loop", "begin"} => ret' \in {ret, 0},
         pc' = "return" => Walking \/ (pc \in {"loop", "begin"} /\ stack' = stack)
  PROVE  Accounts'
<1>1. (IndInv /\ Sums /\ pc \in {"return", "done"} => ret \in Bound)'
  BY ResultBounded, PTL
<1>2. ret' \in Bound
  <2>1. pc' \in {"begin", "loop", "return", "done"}
    BY DEF IndInv, Types
  <2> QED
    BY <1>1, <2>1, NodesBound DEF Accounts, TopInv
<1>3. ASSUME pc' = "return", NEW k \in 1 .. Len(stack')
      PROVE  stack'[k].nReturn \in Bound /\ stack'[k].nFailed \in Bound
  <2>1. CASE Walking
    <3>1. Walking'
      BY <2>1 DEF Walking, call
    <3> QED
      BY <1>3, <3>1, NodesBound DEF Sums, PlainInv
  <2>2. CASE pc \in {"loop", "begin"} /\ stack' = stack
    <3>1. Sums
      BY DEF Accounts, Sums
    <3> QED
      BY <1>3, <2>2, <3>1, FramesBounded
  <2> QED
    BY <1>3, <2>1, <2>2
<1>4. op' # "none"
  BY DEF Accounts, TopInv, call
<1> QED
  BY <1>2, <1>3, <1>4 DEF Accounts, TopInv, Sums, call

-----------------------------------------------------------------------------
\* A new call, and the initial state.

LEMMA BeginAccounts ==
  ASSUME IndInv, Accounts, NEW folder \in Folders,
         NEW name \in {"RunForeach", "FileTraversal", "DestroyFolder",
                       "GetNumberOfFilesInFolder", "CopyFiles"},
         Begin(name, folder), OnlyDestroyIfEmpty' \in BOOLEAN, failIfExists' \in BOOLEAN,
         \/ name # "CopyFiles" /\ pc' = "loop" /\ folder = Root /\ Root \in exists
         \/ name = "CopyFiles" /\ pc' = "begin" /\ dest' \in Destinations
  PROVE  Accounts'
<1>1. Types
  BY DEF IndInv
<1>2. /\ op' = name /\ source' = folder /\ ret' = 0 /\ failed' = 0
      /\ exists' = exists /\ before' = exists /\ asked' = <<>> /\ exists \subseteq Nodes
      /\ pc' \in {"loop", "begin"}
  BY <1>1 DEF Begin, Types
<1>3. /\ Search({folder})' /\ stack' \in Seq(FrameType)
      /\ Len(stack') = 1 /\ stack'[1] = Frame(folder)'
      /\ stack'[1].folder = folder /\ stack'[1].rest = Found(folder)'
  BY <1>1, SearchBegins
<1>4. /\ stack'[1].folder = folder /\ stack'[1].rest = Found(folder)'
      /\ stack'[1].nReturn = 0 /\ stack'[1].nFailed = 0
  BY <1>3 DEF Frame
<1>5. 1 .. 1 = {1} /\ 0 .. 1 = {0, 1} /\ 0 \in 0 .. 1 /\ 0 # 1
  OBVIOUS
<1>6. Waiting' = Found(folder)'
  BY <1>3, <1>4, <1>5 DEF Waiting
<1>7. \A S : AskedWith(S)' = {}
  BY <1>2 DEF AskedWith
<1>8. Levels' = 1 /\ Open' = 1 /\ OpenFolders' = {folder}
  <2>1. Levels' = 1 /\ Open' = 1
    BY <1>2, <1>3 DEF Levels, Open
  <2> QED
    BY <1>4, <1>5, <2>1 DEF OpenFolders
<1>9. Ledger(Books', 1 .. Levels', {}) /\ LossesOf({})' /\ NoLosses'
  <2>1. \A k \in 1 .. 1 : Books'[k] = 0
    BY <1>2, <1>4, <1>5, <1>8 DEF Books
  <2>2. \A k \in 0 .. 1 : Losses'[k] = 0
    BY <1>2, <1>4, <1>5, <1>8 DEF Losses
  <2>3. Ledger(Books', 1 .. 1, {}) /\ Ledger(Losses', 0 .. 1, {})
    BY <2>1, <2>2, LedgerEmpty
  <2> QED
    BY <1>5, <1>8, <2>2, <2>3 DEF LossesOf, NoLosses
<1>10. Inner' = stack'[1]
  BY <1>3 DEF Inner, Last
<1>11. TopInv'
  BY <1>2, NodesBound DEF TopInv
<1>12. PlainInv'
  BY <1>2, <1>3, <1>4, <1>5 DEF PlainInv
<1>13. ASSUME folder = Root
       PROVE  Covers({Root})' /\ \A x \in Entering({Root})' : x = Root
  <2>1. Entering({Root})' = {Root}
    BY DEF Entering
  <2>2. \A x \in exists' \ {Root} :
          Parent[x] = Root /\ Root \notin unsearchable' => x \in Waiting'
    BY <1>6, <1>13 DEF Entries, Found
  <2> QED
    BY <1>2, <2>1, <2>2 DEF Covers
<1>14. CountInv'
  <2> SUFFICES ASSUME name = "GetNumberOfFilesInFolder"
               PROVE  CountInv'
    BY <1>2 DEF CountInv
  <2>1. folder = Root /\ pc' = "loop" /\ Root \in exists /\ Root \in Nodes
    BY TreeAssumption DEF Nodes
  <2>2. Entering({Root})' = {Root}
    BY DEF Entering
  <2>3. BooksOf({Root} \ {Root})'
    <3>1. {Root} \ {Root} = {}
      OBVIOUS
    <3> QED
      BY <1>9, <3>1 DEF BooksOf
  <2>4. \A k \in 1 .. Len(stack') : stack'[k].folder \in Entering({Root})'
    BY <1>3, <1>4, <1>5, <2>1, <2>2
  <2>5. CountSoFar({Root})'
    BY <1>2, <1>3, <1>13, <2>1, <2>3, <2>4 DEF CountSoFar
  <2> QED
    BY <1>2, <1>9, <2>1, <2>5 DEF CountInv
<1>15. DestroyInv'
  <2> SUFFICES ASSUME name = "DestroyFolder"
               PROVE  DestroyInv'
    BY <1>2 DEF DestroyInv
  <2>1. folder = Root /\ pc' = "loop" /\ Root \in exists /\ Root \in Nodes
    BY TreeAssumption DEF Nodes
  <2>2. Left({Root})' = {}
    BY <1>8, <2>1 DEF Left
  <2>3. DestroySoFar({Root}, {})'
    BY <1>3, <1>9, <1>13, <2>1, <2>2 DEF DestroySoFar
  <2>4. Ledger(Books', 1 .. Levels', before' \ exists')
    <3>1. before' \ exists' = {}
      BY <1>2
    <3> QED
      BY <1>9, <3>1
  <2>5. Len(stack') <= 1 /\ Inner'.nReturn = 0
    BY <1>3, <1>4, <1>10
  <2>6. {Root} \in SUBSET Nodes /\ {} \in SUBSET Nodes
    BY <2>1
  <2> QED
    BY <1>2, <1>8, <2>1, <2>3, <2>4, <2>5, <2>6 DEF DestroyInv, BooksOf
<1>16. CopyInv'
  <2> SUFFICES ASSUME name = "CopyFiles"
               PROVE  CopyInv'
    BY <1>2 DEF CopyInv
  <2>1. Written' = {}
    <3>1. dest' \in [Nodes -> There \ {"copy"}]
      BY CopyAssumption
    <3>2. \A e \in Files : dest'[e] # "copy"
      BY <3>1 DEF Nodes
    <3> QED
      BY <3>2 DEF Written
  <2>2. Through' = {}
    <3>1. \A f \in Entered' : f = folder
      BY <1>2, <1>7 DEF Entered
    <3> QED
      BY <1>8, <3>1 DEF Through
  <2>3. failed' = Cardinality(Refused')
    <3>1. Refused' = {}
      BY <1>7 DEF Refused
    <3> QED
      BY <1>2, <3>1, FS_EmptySet
  <2>4. \A f : ~CancelledIn(f)'
    BY <1>7 DEF CancelledIn
  <2>5. Ledger(Books', 1 .. Levels', Written' \cup Through')
    <3>1. Written' \cup Through' = {}
      BY <2>1, <2>2
    <3> QED
      BY <1>9, <3>1
  <2> QED
    BY <1>4, <1>9, <1>10, <2>1, <2>3, <2>4, <2>5 DEF CopyInv, BooksOf
<1> QED
  BY <1>11, <1>12, <1>14, <1>15, <1>16 DEF Accounts

LEMMA CallsAccounts ==
  ASSUME IndInv, Accounts, Calls
  PROVE  Accounts'
<1>1. Root \in Folders /\ Sources \subseteq Folders
  BY TreeAssumption, CopyAssumption
<1>2. OnlyDestroyIfEmpty \in BOOLEAN /\ failIfExists \in BOOLEAN
  BY DEF Accounts, TopInv
<1>3. CASE CallForeach
  BY <1>1, <1>2, <1>3, BeginAccounts DEF CallForeach, CallWalk
<1>4. CASE FileTraversal
  BY <1>1, <1>2, <1>4, BeginAccounts DEF FileTraversal, CallWalk
<1>5. CASE CallDestroy
  BY <1>1, <1>2, <1>5, BeginAccounts DEF CallDestroy, CallWalk
<1>6. CASE CallCount
  BY <1>1, <1>2, <1>6, BeginAccounts DEF CallCount, CallWalk
<1>7. CASE CallCopy
  BY <1>1, <1>2, <1>7, BeginAccounts DEF CallCopy
<1> QED
  BY <1>3, <1>4, <1>5, <1>6, <1>7 DEF Calls

LEMMA InitAccounts ==
  ASSUME Init
  PROVE  Accounts
<1>1. /\ op = "none" /\ OnlyDestroyIfEmpty = FALSE /\ failIfExists = FALSE
      /\ stack = <<>> /\ pc = "done" /\ ret = 0 /\ failed = 0
  BY DEF Init
<1>2. 1 .. Len(stack) = {}
  BY <1>1
<1>3. TopInv
  BY <1>1, NodesBound DEF TopInv
<1>4. PlainInv
  BY <1>1, <1>2 DEF PlainInv
<1> QED
  BY <1>1, <1>3, <1>4 DEF Accounts, CountInv, DestroyInv, CopyInv

LEMMA StutterAccounts ==
  ASSUME Accounts, UNCHANGED vars
  PROVE  Accounts'
<1>1. /\ exists' = exists /\ dest' = dest /\ op' = op /\ nRecursive' = nRecursive
      /\ source' = source /\ stack' = stack /\ pc' = pc /\ ret' = ret
      /\ failed' = failed /\ asked' = asked /\ before' = before
      /\ OnlyDestroyIfEmpty' = OnlyDestroyIfEmpty /\ failIfExists' = failIfExists
      /\ unsearchable' = unsearchable
  BY DEF vars, disk, call, hist
<1>2. /\ Books' = Books /\ Losses' = Losses /\ Levels' = Levels /\ Open' = Open
      /\ OpenFolders' = OpenFolders /\ (Walking' <=> Walking) /\ Inner' = Inner
      /\ \A S : AskedWith(S)' = AskedWith(S)
  BY <1>1 DEF Books, Losses, Levels, Open, OpenFolders, Walking, Inner, AskedWith
<1>3. TopInv' /\ PlainInv'
  BY <1>1, <1>2 DEF Accounts, TopInv, PlainInv
<1>4. \A U : /\ Search(U)' = Search(U) /\ Covers(U)' = Covers(U)
             /\ Entering(U)' = Entering(U) /\ Left(U)' = Left(U)
  BY <1>1, <1>2 DEF Search, Covers, Entering, Left, Asked, Waiting, Walking
<1>5. \A A : BooksOf(A)' = BooksOf(A) /\ LossesOf(A)' = LossesOf(A)
  BY <1>2 DEF BooksOf, LossesOf
<1>6. CountInv'
  <2>1. \A U : CountSoFar(U)' = CountSoFar(U)
    BY <1>1, <1>4, <1>5 DEF CountSoFar
  <2>2. NoLosses' = NoLosses
    BY <1>2 DEF NoLosses
  <2> QED
    BY <1>1, <2>1, <2>2 DEF Accounts, CountInv
<1>7. DestroyInv'
  <2>1. \A U, A : DestroySoFar(U, A)' = DestroySoFar(U, A)
    BY <1>1, <1>2, <1>4, <1>5 DEF DestroySoFar
  <2> QED
    BY <1>1, <1>2, <1>5, <2>1 DEF Accounts, DestroyInv
<1>8. CopyInv'
  <2>1. \A f : CancelledIn(f)' = CancelledIn(f)
    BY <1>2 DEF CancelledIn
  <2>2. Entered' = Entered /\ Written' = Written
    BY <1>1, <1>2 DEF Entered, Written
  <2>3. Through' = Through /\ Refused' = Refused /\ NoLosses' = NoLosses
    BY <1>1, <1>2, <2>1, <2>2 DEF Through, Refused, NoLosses
  <2> QED
    BY <1>1, <1>2, <1>5, <2>1, <2>2, <2>3 DEF Accounts, CopyInv
<1> QED
  BY <1>3, <1>6, <1>7, <1>8 DEF Accounts

-----------------------------------------------------------------------------
\* Every step.

LEMMA StepAccounts ==
  ASSUME IndInv, Accounts, Steps, IndInv'
  PROVE  Accounts'
<1>1. Types /\ PlainInv /\ CountInv /\ DestroyInv /\ CopyInv
  BY DEF IndInv, Accounts
<1>2. UNCHANGED call
  BY DEF Steps, Visit, FMTravFails, Walked, WalkReturns, NotEmpty, DestroySubfolder,
         DestroyFile, RemoveFolder, CountEntry, Counted, CopyBegins, CopyCancelled,
         CopyFolder, CopySkips, CopyFile, CopyDone, CountReturns
<1>3. /\ op # "none" /\ ~Walking => PlainInv'
      /\ op # "GetNumberOfFilesInFolder" => CountInv'
      /\ op # "DestroyFolder" => DestroyInv'
      /\ op # "CopyFiles" => CopyInv'
  BY <1>2, OthersStay
<1>4. CASE Visit \/ FMTravFails \/ Walked \/ WalkReturns
  <2>1. Walking /\ pc # "done"
    BY <1>4 DEF Visit, FMTravFails, Walked, WalkReturns, Walking
  <2>2. Sums'
    BY <1>1, <1>3, <1>4, <2>1, VisitCounts, WalkCounts DEF Sums, Walking
  <2>3. pc' \in {"loop", "begin"} => ret' \in {ret, 0}
    BY <1>4 DEF Visit, FMTravFails, Walked, WalkReturns, Return, Enter, GoOn
  <2> QED
    BY <1>2, <2>1, <2>2, <2>3, TopStays
<1>5. CASE NotEmpty \/ DestroySubfolder \/ DestroyFile \/ RemoveFolder
  <2>1. op = "DestroyFolder" /\ pc = "loop"
    BY <1>5 DEF NotEmpty, DestroySubfolder, DestroyFile, RemoveFolder, Destroying
  <2>2. Sums'
    BY <1>1, <1>3, <1>5, <2>1, NotEmptyDestroys, DestroySubfolderDestroys,
       DestroyFileDestroys, RemoveFolderDestroys DEF Sums, Walking
  <2>3. /\ pc' \in {"loop", "begin"} => ret' \in {ret, 0}
        /\ pc' = "return" => stack' = stack
    BY <1>5, <2>1 DEF NotEmpty, DestroySubfolder, DestroyFile, RemoveFolder, Return,
       Enter, GoOn
  <2> QED
    BY <1>2, <2>1, <2>2, <2>3, TopStays
<1>6. CASE CountEntry \/ Counted
  <2>1. op = "GetNumberOfFilesInFolder" /\ pc = "loop"
    BY <1>6 DEF CountEntry, Counted, Counting
  <2>2. Sums'
    BY <1>1, <1>3, <1>6, <2>1, CountEntryCounts, CountedCounts DEF Sums, Walking
  <2>3. /\ pc' \in {"loop", "begin"} => ret' \in {ret, 0}
        /\ pc' = "return" => stack' = stack
    BY <1>6, <2>1 DEF CountEntry, Counted, Return, GoOn
  <2> QED
    BY <1>2, <2>1, <2>2, <2>3, TopStays
<1>7. CASE CopyBegins \/ CopyCancelled \/ CopyFolder \/ CopySkips \/ CopyFile \/ CopyDone
  <2>1. op = "CopyFiles" /\ pc \in {"loop", "begin"}
    BY <1>1, <1>7 DEF CopyBegins, CopyCancelled, CopyFolder, CopySkips, CopyFile,
       CopyDone, Copying, Types
  <2>2. Sums'
    BY <1>1, <1>3, <1>7, <2>1, CopyBeginsCopies, CopyCancelledCopies, CopyFolderCopies,
       CopySkipsCopies, CopyFileCopies, CopyDoneCopies DEF Sums, Walking
  <2>3. /\ pc' \in {"loop", "begin"} => ret' \in {ret, 0}
        /\ pc' = "return" => stack' = stack
    BY <1>7, <2>1 DEF CopyBegins, CopyCancelled, CopyFolder, CopySkips, CopyFile,
       CopyDone, Copying, Return, GoOn
  <2> QED
    BY <1>2, <2>1, <2>2, <2>3, TopStays
<1>8. CASE CountReturns
  <2>1. ~Walking /\ pc = "return" /\ pc' \in {"loop", "done"} /\ ret' = ret
    BY <1>8 DEF CountReturns
  <2>2. Sums'
    <3>1. op # "none"
      BY <2>1 DEF Accounts, TopInv
    <3> QED
      BY <1>1, <1>3, <1>8, <2>1, <3>1, CountReturnsCounts, DestroyReturns, CountReturnsCopies
      DEF Sums
  <2> QED
    BY <1>2, <2>1, <2>2, TopStays
<1> QED
  BY <1>4, <1>5, <1>6, <1>7, <1>8 DEF Steps

\* The accounts are right at every step of every run.
THEOREM AccountsInvariance == Spec => []Accounts
<1>1. Init => Accounts
  BY InitAccounts
<1>2. IndInv /\ IndInv' /\ Accounts /\ [Next]_vars => Accounts'
  BY CallsAccounts, StepAccounts, StutterAccounts DEF Next, Gone
<1> QED
  BY <1>1, <1>2, Invariance, PTL DEF Spec

-----------------------------------------------------------------------------
\* What the accounts say of a call that is done.

LEMMA SeqRetyped ==
  ASSUME NEW S, NEW T, NEW s \in Seq(S), \A k \in 1 .. Len(s) : s[k] \in T
  PROVE  s \in Seq(T)
<1>1. Len(s) \in Nat /\ s \in [1 .. Len(s) -> S]
  BY LenProperties
<1>2. s \in [1 .. Len(s) -> T]
  BY <1>1
<1> QED
  BY <1>1, <1>2

LEMMA DoneFacts ==
  ASSUME Types, pc = "done"
  PROVE  /\ Waiting = {} /\ OpenFolders = {}
         /\ \A A : BooksOf(A) => ret = Cardinality(A)
         /\ \A A : LossesOf(A) => failed = Cardinality(A)
<1>1. 1 .. 0 = {} /\ 1 .. 1 = {1} /\ 0 .. 0 = {0}
  OBVIOUS
<1>2. stack = <<>> /\ Len(stack) = 0
  BY DEF Types
<1>3. Waiting = {}
  BY <1>1, <1>2 DEF Waiting
<1>4. Levels = 1 /\ Open = 0 /\ OpenFolders = {}
  BY <1>1 DEF Levels, Open, OpenFolders
<1>5. Books[1] = ret /\ Losses[0] = failed
  BY <1>1, <1>4 DEF Books, Losses
<1>6. ASSUME NEW A, BooksOf(A)
      PROVE  ret = Cardinality(A)
  <2>1. Ledger(Books, {1}, A)
    BY <1>1, <1>4, <1>6 DEF BooksOf
  <2> QED
    BY <1>5, <2>1, LedgerTotal
<1>7. ASSUME NEW A, LossesOf(A)
      PROVE  failed = Cardinality(A)
  <2>1. Ledger(Losses, {0}, A)
    BY <1>1, <1>4, <1>7 DEF LossesOf
  <2> QED
    BY <1>5, <2>1, LedgerTotal
<1> QED
  BY <1>3, <1>4, <1>6, <1>7

\* GetNumberOfFilesInFolder returns the number of entries, files and folders,
\* that its searches reach: those in the folder, and with nRecursive those in
\* the folders reached, none of them through a folder whose search fails
\* (FileManager.cpp, GetNumberOfFilesInFolder).
THEOREM CountsAllHolds == Spec => []CountsAll
<1>1. IndInv /\ Accounts => CountsAll
  <2> SUFFICES ASSUME IndInv, Accounts, op = "GetNumberOfFilesInFolder", pc = "done"
               PROVE  \E S \in SUBSET exists : Reached(S) /\ ret = Cardinality(S)
    BY DEF CountsAll
  <2>1. Types /\ source = Root
    BY DEF IndInv, Accounts, CountInv
  <2>2. PICK U \in SUBSET Nodes : CountSoFar(U)
    BY DEF Accounts, CountInv
  <2>3. /\ U \subseteq exists /\ Covers(U) /\ Root \in U
        /\ \A x \in U \ {Root} : Parent[x] \in Entering(U) \ unsearchable
    BY <2>1, <2>2 DEF CountSoFar, Search
  <2> DEFINE S == U \ {Root}
  <2>4. ret = Cardinality(S) /\ Waiting = {}
    BY <2>1, <2>2, DoneFacts DEF CountSoFar
  <2>5. S \subseteq exists \ {Root}
    BY <2>3
  <2>6. ASSUME NEW e \in exists \ {Root}
        PROVE  e \in S <=> Parent[e] \in Entering(U) \ unsearchable
    BY <2>3, <2>4 DEF Covers
  <2>7. \A x : x \in Entering(U) <=> x = Root \/ (nRecursive /\ x \in S)
    BY <2>3 DEF Entering
  <2> HIDE DEF S
  <2>8. Reached(S)
    BY <2>5, <2>6, <2>7 DEF Reached
  <2> QED
    BY <2>4, <2>5, <2>8
<1> QED
  BY <1>1, Invariance, AccountsInvariance, PTL

\* DestroyFolder returns the number of entries, files and folders, that are gone;
\* and if it was not told to stop, *failed is the number of those that its
\* searches reach and that are left, and of the folder itself if it is, but for
\* the files it was told to skip (FileManager.cpp, DestroyFolder).
THEOREM DestroyAccountsHolds == Spec => []DestroyAccounts
<1>1. IndInv /\ Accounts => DestroyAccounts
  <2> SUFFICES ASSUME IndInv, Accounts, op = "DestroyFolder", pc = "done"
               PROVE  /\ ret = Cardinality(before \ exists)
                      /\ ~OnlyDestroyIfEmpty /\ AskedWith({2}) = {} =>
                           \E S \in SUBSET exists :
                             /\ Reached(S)
                             /\ failed = Cardinality(S \cup ({Root} \cap exists))
                                          - Cardinality(AskedWith({1}))
    BY DEF DestroyAccounts
  <2>1. Types /\ KeptInv /\ source = Root
    BY DEF IndInv, Accounts, DestroyInv
  <2>2. PICK U \in SUBSET Nodes, A \in SUBSET Nodes : DestroySoFar(U, A)
    BY DEF Accounts, DestroyInv
  <2>3. /\ OpenFolders = {} /\ Waiting = {}
        /\ ret = Cardinality(before \ exists) /\ failed = Cardinality(A)
    BY <2>1, <2>2, DoneFacts DEF Accounts, DestroyInv, DestroySoFar
  <2>4. ASSUME ~OnlyDestroyIfEmpty, AskedWith({2}) = {}
        PROVE  \E S \in SUBSET exists :
                 /\ Reached(S)
                 /\ failed = Cardinality(S \cup ({Root} \cap exists))
                              - Cardinality(AskedWith({1}))
    <3>1. A = Left(U) /\ Covers(U) /\ Search(U) /\ Root \in U
      BY <2>1, <2>2, <2>4 DEF DestroySoFar, Search
    <3> DEFINE S == (U \cap exists) \ {Root}
               R == S \cup ({Root} \cap exists)
    <3>2. S \subseteq exists \ {Root} /\ R = U \cap exists
      BY <3>1
    <3>3. ASSUME NEW e \in exists \ {Root}
          PROVE  e \in U <=> Parent[e] \in U \ unsearchable
      BY <2>1, <2>3, <3>1, <3>3 DEF Search, Covers, Entering
    <3>4. \A e \in exists \ {Root} :
            Parent[e] \in U <=> Parent[e] = Root \/ Parent[e] \in S
      BY <2>1, <3>1 DEF KeptInv
    <3>5. \A e \in exists \ {Root} : e \in S <=> e \in U
      OBVIOUS
    <3> HIDE DEF S
    <3>6. Reached(S)
      BY <3>2, <3>3, <3>4, <3>5 DEF Reached
    <3> HIDE DEF R
    <3>7. A = R \ AskedWith({1})
      BY <2>3, <3>1, <3>2 DEF Left
    <3>8. R \cap AskedWith({1}) = AskedWith({1})
      <4>1. AskedWith({1}) \subseteq U
        BY <2>1, <3>1, AnswerFacts DEF Search
      <4>2. AskedWith({1}) \subseteq exists
        <5>1. DOMAIN asked = 1 .. Len(asked)
          BY <2>1, AnswerFacts
        <5>2. \A a : a \in {1} => a # 0
          OBVIOUS
        <5> QED
          BY <2>1, <5>1, <5>2 DEF KeptInv, AskedWith
      <4> QED
        BY <3>2, <4>1, <4>2
    <3>9. IsFiniteSet(R)
      BY <3>2, NodesFinite
    <3>10. Cardinality(R \ AskedWith({1})) =
             Cardinality(R) - Cardinality(R \cap AskedWith({1}))
      BY <3>9, FS_Difference
    <3>11. failed = Cardinality(R) - Cardinality(AskedWith({1}))
      BY <2>3, <3>7, <3>8, <3>10
    <3> QED
      BY <3>2, <3>6, <3>11 DEF R
  <2> QED
    BY <2>3, <2>4
<1> QED
  BY <1>1, Invariance, AccountsInvariance, PTL

\* CopyFiles returns the number of files it wrote and of folders it searched to
\* the end, and adds to *failed one for each copy that was tried and refused; a
\* folder that could not be made or searched is in neither (FileManager.cpp,
\* CopyFiles).
THEOREM CopyAccountsHolds == Spec => []CopyAccounts
<1>1. IndInv /\ Accounts => CopyAccounts
  <2> SUFFICES ASSUME IndInv, Accounts, op = "CopyFiles", pc = "done"
               PROVE  /\ Written \subseteq AskedWith({0})
                      /\ ret = Cardinality(Written)
                               + Cardinality({f \in Entered : ~CancelledIn(f)})
                      /\ failed = Cardinality(Refused)
    BY DEF CopyAccounts, Written, Refused
  <2>1. Types /\ CopyInv
    BY DEF IndInv, Accounts
  <2>2. /\ Written \subseteq AskedWith({0}) /\ failed = Cardinality(Refused)
        /\ BooksOf(Written \cup Through)
    BY <2>1 DEF CopyInv
  <2>3. ret = Cardinality(Written \cup Through) /\ OpenFolders = {}
    BY <2>1, <2>2, DoneFacts
  <2>4. Through = {f \in Entered : ~CancelledIn(f)}
    BY <2>3 DEF Through
  <2>5. /\ Written \subseteq Files /\ Through \subseteq Folders
        /\ Written \subseteq Nodes /\ Through \subseteq Nodes
    BY DEF Written, Through, Entered, Nodes
  <2>6. IsFiniteSet(Written) /\ IsFiniteSet(Through) /\ Written \cap Through = {}
    BY <2>5, NodesFinite, TreeAssumption
  <2>7. Cardinality(Written \cup Through) =
          Cardinality(Written) + Cardinality(Through) - Cardinality(Written \cap Through)
    BY <2>6, FS_Union
  <2>8. Cardinality(Written) \in Nat /\ Cardinality(Through) \in Nat
        /\ Cardinality(Written \cap Through) = 0
    BY <2>6, FS_CardinalityType, FS_EmptySet
  <2> QED
    BY <2>2, <2>3, <2>4, <2>7, <2>8
<1> QED
  BY <1>1, Invariance, AccountsInvariance, PTL

LEMMA FailedBounded ==
  ASSUME IndInv, Accounts
  PROVE  failed \in Bound
<1>1. Types /\ PlainInv /\ CountInv /\ DestroyInv /\ CopyInv
  BY DEF IndInv, Accounts
<1>2. IsFiniteSet(Nodes) /\ 0 \in Bound
  BY TreeAssumption, NodesBound
<1>3. CASE op = "none" \/ Walking \/ op = "GetNumberOfFilesInFolder"
  BY <1>1, <1>2, <1>3 DEF PlainInv, CountInv
<1>4. CASE op = "DestroyFolder"
  <2>1. PICK A \in SUBSET Nodes : LossesOf(A)
    BY <1>1, <1>4 DEF DestroyInv, DestroySoFar
  <2>2. Open \in Nat
    BY <1>1, StackFacts DEF Open
  <2>3. 0 \in 0 .. Open /\ Losses[0] = failed
    BY <2>2 DEF Losses
  <2>4. Losses[0] \in 0 .. Cardinality(Nodes)
    BY <1>2, <2>1, <2>3, LedgerBound DEF LossesOf
  <2> QED
    BY <2>3, <2>4 DEF Bound
<1>5. CASE op = "CopyFiles"
  <2>1. Refused \subseteq Nodes
    <3>1. AskedWith({0}) \subseteq Asked /\ Asked \subseteq exists
      BY <1>1, <1>5, AnswerFacts DEF IndInv, CopyCovers
    <3> QED
      BY <1>1, <3>1 DEF Refused, Types
  <2>2. IsFiniteSet(Refused) /\ Cardinality(Refused) <= Cardinality(Nodes)
    BY <1>2, <2>1, FS_Subset
  <2>3. Cardinality(Refused) \in Nat /\ Cardinality(Nodes) \in Nat
    BY <1>2, <2>2, FS_CardinalityType
  <2> QED
    BY <1>1, <1>5, <2>2, <2>3 DEF CopyInv, Bound
<1> QED
  BY <1>1, <1>3, <1>4, <1>5 DEF Types, Walking

\* Every variable has its type, and no count exceeds what there is in the tree.
THEOREM TypeOKHolds == Spec => []TypeOK
<1>1. IndInv /\ Accounts => TypeOK
  <2> SUFFICES ASSUME IndInv, Accounts
               PROVE  TypeOK
    OBVIOUS
  <2>1. Types /\ TopInv /\ Sums
    BY DEF IndInv, Accounts, Sums
  <2> DEFINE T == [folder : Folders, rest : SUBSET Nodes, nReturn : Bound, nFailed : Bound]
  <2>2. ASSUME NEW k \in 1 .. Len(stack)
        PROVE  stack[k] \in T
    <3>1. stack \in Seq(FrameType)
      BY <2>1 DEF Types
    <3>2. stack[k] \in FrameType
      BY <3>1, ElementOfSeq
    <3>3. pc # "done"
      <4>1. pc = "done" => stack = <<>>
        BY <2>1 DEF Types
      <4> QED
        BY <4>1
    <3>4. stack[k].nReturn \in Bound /\ stack[k].nFailed \in Bound
      BY <2>1, <3>3, FramesBounded DEF Types, TopInv
    <3> QED
      BY <3>2, <3>4 DEF FrameType
  <2> HIDE DEF T
  <2>3. stack \in Seq(T)
    <3>1. stack \in Seq(FrameType)
      BY <2>1 DEF Types
    <3> QED
      BY <2>2, <3>1, SeqRetyped
  <2>4. failed \in Bound /\ ret \in Bound
    BY <2>1, FailedBounded DEF TopInv
  <2> QED
    BY <2>1, <2>3, <2>4 DEF TypeOK, Types, TopInv, T, Bound, AnswerType
<1> QED
  BY <1>1, Invariance, AccountsInvariance, PTL
=============================================================================
