-------------------------- MODULE FileManagerProofs --------------------------
(***************************************************************************)
(* For any tree, any answers of the function and any searches that fail: a *)
(* walk asks about all its searches reach, once, and stops when told to; a *)
(* deletion spares what it was told to keep; a copy asks about every entry *)
(* of the folders it went into.  The argument is about the set of what was *)
(* touched so far: the folders entered and the entries passed.  It is      *)
(* closed under Parent, and what the searches still have to find is        *)
(* outside of it, so nothing is met twice.                                 *)
(***************************************************************************)
EXTENDS FileManager, SequenceTheorems, TLAPS

FrameType == [folder : Folders, rest : SUBSET Nodes, nReturn : Nat, nFailed : Nat]
AnswerType == [node : Nodes, answer : Int]

Types ==
  /\ exists \subseteq Nodes
  /\ op \in {"none", "RunForeach", "FileTraversal", "DestroyFolder",
             "GetNumberOfFilesInFolder", "CopyFiles"}
  /\ nRecursive \in BOOLEAN /\ source \in Folders /\ dest \in [Nodes -> There]
  /\ stack \in Seq(FrameType)
  /\ pc \in {"begin", "loop", "return", "done"} /\ (pc = "done" <=> stack = <<>>)
  /\ pc = "begin" => op = "CopyFiles"
  /\ ret \in Nat /\ failed \in Nat
  /\ asked \in Seq(AnswerType) /\ unsearchable \subseteq Folders

Waiting == UNION {stack[k].rest : k \in 1 .. Len(stack)}

\* U is what was touched.
Search(U) ==
  /\ U \subseteq Nodes /\ source \in U
  /\ \A x \in U \ {source} : x # Root /\ Parent[x] \in U \ unsearchable
  /\ Asked \subseteq U \ {source}
  /\ \A k \in 1 .. Len(stack) :
       /\ stack[k].folder \in U
       /\ \A e \in stack[k].rest :
            /\ e \in exists \ {Root} /\ Parent[e] = stack[k].folder
            /\ Parent[e] \notin unsearchable
       /\ k < Len(stack) \/ pc # "return" => stack[k].rest \cap U = {}
  /\ \A k, l \in 1 .. Len(stack) : stack[k].folder = stack[l].folder => k = l
  /\ Walking \/ op = "CopyFiles" => U = Asked \cup {source}

\* Nothing is asked twice, and a folder before what is in it.
AskedInOrder ==
  \A k, l \in 1 .. Len(asked) :
    /\ asked[k].node = asked[l].node => k = l
    /\ asked[k].node # Root /\ Parent[asked[k].node] = asked[l].node => l < k

NoneStops(m) == \A k \in 1 .. m : ~Stops(k)

\* How far a walk is, by its answers.
WalkAnswers ==
  Walking =>
    /\ source = Root /\ pc # "begin"
    /\ NoneStops(Len(asked) - 1)
    /\ pc = "loop" => NoneStops(Len(asked))
    /\ pc \in {"return", "done"} =>
         \/ NoneStops(Len(asked)) /\ ret = 0
         \/ /\ Len(asked) > 0 /\ Stops(Len(asked))
            /\ \/ op = "RunForeach" /\ ret = 1
               \/ op = "FileTraversal" /\ ret = 0 /\ pc = "done"

\* The folders a walk goes into, and those it could search.
Opened == {Root} \cup (IF nRecursive THEN Asked \cap Folders ELSE {})
Searched == Opened \ unsearchable

\* Nothing in them is lost sight of.
WalkCovers ==
  Walking =>
    /\ Asked \subseteq exists
    /\ \A k \in 1 .. Len(stack) : stack[k].folder \in Opened
    /\ \A a \in Asked : Parent[a] \in Searched
    /\ NoneStops(Len(asked)) =>
         /\ \A x \in exists \ {Root} :
              Parent[x] \in Searched => x \in Asked \cup Waiting
         /\ pc = "return" => stack[Len(stack)].rest = {}

KeptInv ==
  /\ \A e \in exists \ {Root} : Parent[e] \in exists
  /\ op = "DestroyFolder" =>
       \A k \in 1 .. Len(asked) :
         /\ asked[k].node \in Files
         /\ asked[k].answer # 0 => asked[k].node \in exists

CopyCovers ==
  op = "CopyFiles" =>
    /\ Asked \subseteq exists /\ \A a \in Asked : Parent[a] \in Entered
    /\ \A k \in 1 .. Len(stack) :
         /\ stack[k].folder = source
              \/ (nRecursive /\ stack[k].folder \in AskedWith({0, 1}))
         /\ k < Len(stack) \/ pc = "loop" => stack[k].folder \in Entered
    /\ \A f \in Entered :
         CancelledIn(f) \/ Entries(f) \subseteq Asked \cup Waiting
    /\ pc = "begin" =>
         Found(stack[Len(stack)].folder) \subseteq stack[Len(stack)].rest
    /\ pc = "return" =>
         \/ stack[Len(stack)].rest = {}
         \/ stack[Len(stack)].folder \notin Entered
         \/ CancelledIn(stack[Len(stack)].folder)

Searches == \E U \in SUBSET Nodes : Search(U)

IndInv ==
  /\ Types /\ Searches /\ AskedInOrder /\ WalkAnswers /\ WalkCovers /\ KeptInv
  /\ CopyCovers

-----------------------------------------------------------------------------
\* A sequence without its last element.
LEMMA FrontFacts ==
  ASSUME NEW S, NEW s \in Seq(S), Len(s) # 0
  PROVE  /\ SubSeq(s, 1, Len(s) - 1) \in Seq(S)
         /\ Len(SubSeq(s, 1, Len(s) - 1)) = Len(s) - 1
         /\ \A k \in 1 .. Len(s) - 1 : SubSeq(s, 1, Len(s) - 1)[k] = s[k]
<1> DEFINE n == Len(s) - 1
<1>1. Len(s) \in Nat \ {0}
  BY LenProperties
<1>2. 1 \in Int /\ n \in Int /\ n \in Nat /\ 1 .. n \subseteq 1 .. Len(s)
  BY <1>1, SMT
<1>3. \A k \in 1 .. n : s[k] \in S
  BY <1>2, ElementOfSeq
<1> HIDE DEF n
<1>4. /\ SubSeq(s, 1, n) \in Seq(S)
      /\ Len(SubSeq(s, 1, n)) = IF 1 <= n THEN n - 1 + 1 ELSE 0
      /\ \A k \in 1 .. n - 1 + 1 : SubSeq(s, 1, n)[k] = s[1 + k - 1]
  BY <1>2, <1>3, SubSeqProperties
<1>5. Len(SubSeq(s, 1, n)) = n /\ n - 1 + 1 = n
  BY <1>2, <1>4, SMT
<1>6. \A k \in 1 .. n : 1 + k - 1 = k
  BY <1>2, SMT
<1> QED
  BY <1>4, <1>5, <1>6 DEF n

\* A frame of a running call.
LEMMA StackFacts ==
  ASSUME Types, pc # "done"
  PROVE  /\ Len(stack) \in Nat \ {0}
         /\ Inner = stack[Len(stack)] /\ Inner \in FrameType
         /\ Outer \in Seq(FrameType) /\ Len(Outer) = Len(stack) - 1
         /\ \A k \in 1 .. Len(stack) - 1 : Outer[k] = stack[k]
         /\ \A k \in 1 .. Len(stack) : stack[k] \in FrameType
<1>1. stack \in Seq(FrameType) /\ stack # <<>>
  BY DEF Types
<1>2. Len(stack) \in Nat \ {0}
  BY <1>1, EmptySeq
<1>3. Inner = stack[Len(stack)] /\ Outer = SubSeq(stack, 1, Len(stack) - 1)
  BY DEF Inner, Outer, Last, Front
<1>4. \A k \in 1 .. Len(stack) : stack[k] \in FrameType
  BY <1>1, ElementOfSeq
<1>5. Inner \in FrameType
  BY <1>2, <1>3, <1>4
<1>6. /\ Outer \in Seq(FrameType) /\ Len(Outer) = Len(stack) - 1
      /\ \A k \in 1 .. Len(stack) - 1 : Outer[k] = stack[k]
  BY <1>1, <1>2, <1>3, FrontFacts
<1> QED
  BY <1>2, <1>3, <1>4, <1>5, <1>6

\* The stack after an entry was passed, and after a folder was entered.
LEMMA GoOnFacts ==
  ASSUME Types, pc # "done", NEW f \in FrameType, stack' = Append(Outer, f)
  PROVE  /\ stack' \in Seq(FrameType) /\ Len(stack') = Len(stack) /\ stack' # <<>>
         /\ stack'[Len(stack)] = f
         /\ \A k \in 1 .. Len(stack) - 1 : stack'[k] = stack[k]
<1>1. /\ Len(stack) \in Nat \ {0} /\ Outer \in Seq(FrameType)
      /\ Len(Outer) = Len(stack) - 1
      /\ \A k \in 1 .. Len(stack) - 1 : Outer[k] = stack[k]
  BY StackFacts
<1>2. /\ stack' \in Seq(FrameType) /\ Len(stack') = Len(Outer) + 1
      /\ stack'[Len(Outer) + 1] = f
      /\ \A k \in 1 .. Len(Outer) : stack'[k] = Outer[k]
  BY <1>1, AppendProperties
<1>3. Len(Outer) + 1 = Len(stack)
  BY <1>1, SMT
<1>4. stack' # <<>>
  BY <1>1, <1>2, <1>3, EmptySeq, SMT
<1> QED
  BY <1>1, <1>2, <1>3, <1>4

LEMMA EnterFacts ==
  ASSUME Types, pc # "done", NEW f \in FrameType, NEW g \in FrameType,
         stack' = Outer \o <<f, g>>
  PROVE  /\ stack' \in Seq(FrameType) /\ Len(stack') = Len(stack) + 1
         /\ stack' # <<>>
         /\ stack'[Len(stack)] = f /\ stack'[Len(stack) + 1] = g
         /\ \A k \in 1 .. Len(stack) - 1 : stack'[k] = stack[k]
<1>1. /\ Len(stack) \in Nat \ {0} /\ Outer \in Seq(FrameType)
      /\ Len(Outer) = Len(stack) - 1
      /\ \A k \in 1 .. Len(stack) - 1 : Outer[k] = stack[k]
  BY StackFacts
<1> DEFINE two == <<f, g>>
<1>2. two \in Seq(FrameType) /\ Len(two) = 2 /\ two[1] = f /\ two[2] = g
  BY SMT
<1>3. stack' = Outer \o two
  OBVIOUS
<1> HIDE DEF two
<1>4. /\ stack' \in Seq(FrameType) /\ Len(stack') = Len(Outer) + 2
      /\ \A k \in 1 .. Len(Outer) + 2 :
           stack'[k] = IF k <= Len(Outer) THEN Outer[k] ELSE two[k - Len(Outer)]
  BY <1>1, <1>2, <1>3, ConcatProperties
<1>5. Len(stack') = Len(stack) + 1
  BY <1>1, <1>4, SMT
<1>8. ASSUME NEW k \in 1 .. Len(stack) - 1
      PROVE  stack'[k] = stack[k]
  <2>1. k \in 1 .. Len(Outer) + 2 /\ k <= Len(Outer)
    BY <1>1, SMT
  <2> QED
    BY <1>1, <1>4, <2>1
<1>6. stack'[Len(stack)] = two[1] /\ stack'[Len(stack) + 1] = two[2]
  <2>1. /\ Len(stack) \in 1 .. Len(Outer) + 2
        /\ Len(stack) + 1 \in 1 .. Len(Outer) + 2
        /\ ~(Len(stack) <= Len(Outer)) /\ ~(Len(stack) + 1 <= Len(Outer))
        /\ Len(stack) - Len(Outer) = 1 /\ Len(stack) + 1 - Len(Outer) = 2
    BY <1>1, SMT
  <2>2. /\ stack'[Len(stack)] = two[Len(stack) - Len(Outer)]
        /\ stack'[Len(stack) + 1] = two[Len(stack) + 1 - Len(Outer)]
    <3>1. ASSUME NEW k \in 1 .. Len(Outer) + 2, ~(k <= Len(Outer))
          PROVE  stack'[k] = two[k - Len(Outer)]
      BY <1>4, <3>1
    <3>2. stack'[Len(stack)] = two[Len(stack) - Len(Outer)]
      BY ONLY <2>1, <3>1, Zenon
    <3>3. stack'[Len(stack) + 1] = two[Len(stack) + 1 - Len(Outer)]
      BY ONLY <2>1, <3>1, SMT
    <3> QED
      BY <3>2, <3>3, Zenon
  <2> QED
    BY <2>1, <2>2, Zenon
<1>7. stack' # <<>>
  BY <1>1, <1>4, <1>5, EmptySeq, SMT
<1> QED
  BY <1>2, <1>4, <1>5, <1>6, <1>7, <1>8

\* A count is added to the frame around, or there is none.
LEMMA CountReturnsFacts ==
  ASSUME Types, pc # "done", Outer # <<>>,
         stack' = [Outer EXCEPT ![Len(Outer)].nReturn = @ + ret]
  PROVE  /\ stack' \in Seq(FrameType) /\ Len(stack') = Len(stack) - 1
         /\ stack' # <<>>
         /\ \A k \in 1 .. Len(stack) - 1 :
              /\ stack'[k].folder = stack[k].folder
              /\ stack'[k].rest = stack[k].rest
<1>1. /\ Len(stack) \in Nat \ {0} /\ Outer \in Seq(FrameType)
      /\ Len(Outer) = Len(stack) - 1
      /\ \A k \in 1 .. Len(stack) - 1 : Outer[k] = stack[k]
  BY StackFacts
<1>2. Len(Outer) \in Nat \ {0}
  BY <1>1, EmptySeq
<1> DEFINE last == Outer[Len(Outer)]
           f == [last EXCEPT !.nReturn = @ + ret]
<1>3. last \in FrameType /\ ret \in Nat
  BY <1>1, <1>2, ElementOfSeq DEF Types
<1>4. f \in FrameType /\ f.folder = last.folder /\ f.rest = last.rest
  BY <1>3, SMTT(30) DEF FrameType
<1>5. stack' = [Outer EXCEPT ![Len(Outer)] = f]
  OBVIOUS
<1> HIDE DEF f
<1>6. /\ [Outer EXCEPT ![Len(Outer)] = f] \in Seq(FrameType)
      /\ Len([Outer EXCEPT ![Len(Outer)] = f]) = Len(Outer)
      /\ \A j \in 1 .. Len(Outer) : [Outer EXCEPT ![Len(Outer)] = f][j] =
           IF j = Len(Outer) THEN f ELSE Outer[j]
  BY <1>1, <1>2, <1>4, ExceptSeq
<1>7. /\ stack' \in Seq(FrameType) /\ Len(stack') = Len(Outer)
      /\ \A j \in 1 .. Len(Outer) :
           stack'[j] = IF j = Len(Outer) THEN f ELSE Outer[j]
  BY <1>5, <1>6, Zenon
<1>8. ASSUME NEW k \in 1 .. Len(stack) - 1
      PROVE  /\ stack'[k].folder = stack[k].folder
             /\ stack'[k].rest = stack[k].rest
  <2>1. k \in 1 .. Len(Outer) /\ Outer[k] = stack[k]
    BY <1>1
  <2> QED
    BY <1>4, <1>7, <2>1
<1>9. stack' # <<>>
  BY <1>2, <1>7, EmptySeq, SMT
<1> QED
  BY <1>1, <1>7, <1>8, <1>9

LEMMA AnswerFacts ==
  ASSUME Types
  PROVE  /\ DOMAIN asked = 1 .. Len(asked) /\ Len(asked) \in Nat
         /\ \A k \in 1 .. Len(asked) :
              asked[k].node \in Nodes /\ asked[k].answer \in Int
         /\ \A S : AskedWith(S) \subseteq Asked
         /\ Asked = {asked[k].node : k \in 1 .. Len(asked)}
<1>1. asked \in Seq(AnswerType)
  BY DEF Types
<1>2. DOMAIN asked = 1 .. Len(asked) /\ Len(asked) \in Nat
  BY <1>1, LenProperties
<1>3. \A k \in 1 .. Len(asked) : asked[k] \in AnswerType
  BY <1>1, ElementOfSeq
<1>4. \A k \in 1 .. Len(asked) :
        asked[k].node \in Nodes /\ asked[k].answer \in Int
  BY <1>3 DEF AnswerType
<1> QED
  BY <1>2, <1>4 DEF Asked, AskedWith

\* A question and its answer.
LEMMA AskFacts ==
  ASSUME Types, NEW e \in Nodes, NEW answer \in Int, Ask(e, answer)
  PROVE  /\ asked' \in Seq(AnswerType)
         /\ Len(asked) \in Nat /\ Len(asked') = Len(asked) + 1
         /\ asked'[Len(asked) + 1].node = e
         /\ asked'[Len(asked) + 1].answer = answer
         /\ \A k \in 1 .. Len(asked) : asked'[k] = asked[k]
         /\ Asked' = Asked \cup {e}
<1> DEFINE a == [node |-> e, answer |-> answer]
<1>1. a \in AnswerType /\ asked \in Seq(AnswerType) /\ asked' = Append(asked, a)
  BY DEF AnswerType, Types, Ask
<1>2. a.node = e /\ a.answer = answer
  OBVIOUS
<1> HIDE DEF a
<1>3. /\ asked' \in Seq(AnswerType)
      /\ Len(asked) \in Nat /\ Len(asked') = Len(asked) + 1
      /\ asked'[Len(asked) + 1] = a
      /\ \A k \in 1 .. Len(asked) : asked'[k] = asked[k]
  BY <1>1, AppendProperties, LenProperties
<1>4. /\ DOMAIN asked = 1 .. Len(asked) /\ DOMAIN asked' = 1 .. Len(asked')
      /\ 1 .. Len(asked') = (1 .. Len(asked)) \cup {Len(asked) + 1}
  <2>1. DOMAIN asked = 1 .. Len(asked) /\ DOMAIN asked' = 1 .. Len(asked')
    BY <1>1, <1>3, LenProperties
  <2>2. 1 .. Len(asked') = (1 .. Len(asked)) \cup {Len(asked) + 1}
    BY <1>3, SMT
  <2> QED
    BY <2>1, <2>2
<1>5. Asked' = Asked \cup {e}
  BY <1>2, <1>3, <1>4 DEF Asked
<1> QED
  BY <1>2, <1>3, <1>5

LEMMA AskedWithFacts ==
  ASSUME Types, NEW e \in Nodes, NEW answer \in Int, Ask(e, answer), NEW S
  PROVE  AskedWith(S)' = AskedWith(S) \cup (IF answer \in S THEN {e} ELSE {})
<1>1. /\ asked' \in Seq(AnswerType) /\ asked \in Seq(AnswerType)
      /\ Len(asked) \in Nat /\ Len(asked') = Len(asked) + 1
      /\ asked'[Len(asked) + 1].node = e
      /\ asked'[Len(asked) + 1].answer = answer
      /\ \A k \in 1 .. Len(asked) : asked'[k] = asked[k]
  BY AskFacts DEF Types
<1>2. /\ DOMAIN asked = 1 .. Len(asked) /\ DOMAIN asked' = 1 .. Len(asked')
      /\ 1 .. Len(asked') = (1 .. Len(asked)) \cup {Len(asked) + 1}
  <2>1. DOMAIN asked = 1 .. Len(asked) /\ DOMAIN asked' = 1 .. Len(asked')
    BY <1>1, LenProperties
  <2>2. 1 .. Len(asked') = (1 .. Len(asked)) \cup {Len(asked) + 1}
    BY <1>1, SMT
  <2> QED
    BY <2>1, <2>2
<1>3. \A x : x \in AskedWith(S)' <=>
         \E k \in 1 .. Len(asked') : asked'[k].answer \in S /\ x = asked'[k].node
  BY <1>2 DEF AskedWith
<1>4. \A x : x \in AskedWith(S) <=>
         \E k \in 1 .. Len(asked) : asked[k].answer \in S /\ x = asked[k].node
  BY <1>2 DEF AskedWith
<1>5. \A x : x \in AskedWith(S)' <=> x \in AskedWith(S) \/ (answer \in S /\ x = e)
  BY <1>1, <1>2, <1>3, <1>4
<1> QED
  BY <1>5

-----------------------------------------------------------------------------
\* A step deals with the entry e: the frame passes it, a new frame is for it,
\* or the frame returns.
Touches(e) ==
  /\ pc = "loop" /\ e \in Inner.rest /\ UNCHANGED call
  /\ exists' \subseteq exists /\ exists \ {e} \subseteq exists'
  /\ \/ \E answer \in Int : Ask(e, answer)
     \/ UNCHANGED asked /\ ~Walking /\ op # "CopyFiles"
  /\ \/ pc' = "return" /\ UNCHANGED <<stack, exists>>
     \/ \E f \in FrameType :
          /\ f.folder = Inner.folder /\ f.rest = Inner.rest \ {e}
          /\ \/ stack' = Append(Outer, f) /\ pc' = "loop"
             \/ /\ stack' = Outer \o <<f, Frame(e)>> /\ pc' \in {"loop", "begin"}
                /\ e \in Folders /\ UNCHANGED exists

StackAfter(e) ==
  /\ stack' \in Seq(FrameType) /\ stack' # <<>>
  /\ Len(stack') \in {Len(stack), Len(stack) + 1}
  /\ \A k \in 1 .. Len(stack) - 1 : stack'[k] = stack[k]
  /\ stack'[Len(stack)].folder = Inner.folder
  /\ \/ pc' = "return" /\ stack' = stack /\ exists' = exists
     \/ pc' # "return" /\ stack'[Len(stack)].rest = Inner.rest \ {e}
  /\ Len(stack') = Len(stack) + 1 =>
       /\ stack'[Len(stack) + 1] = Frame(e) /\ UNCHANGED exists /\ e \in Folders

LEMMA FrameFacts ==
  ASSUME Types, NEW e \in Folders
  PROVE  /\ Frame(e) \in FrameType /\ Frame(e).folder = e
         /\ Frame(e).rest = Found(e) /\ Found(e) \subseteq Entries(e)
BY DEF Types, Frame, FrameType, Found, Entries

LEMMA TouchesStack ==
  ASSUME Types, NEW e, Touches(e)
  PROVE  StackAfter(e)
<1>1. pc = "loop" /\ pc # "done"
  BY DEF Touches
<1>2. /\ Len(stack) \in Nat \ {0} /\ Inner = stack[Len(stack)]
      /\ stack \in Seq(FrameType) /\ stack # <<>>
  BY <1>1, StackFacts DEF Types
<1>3. CASE pc' = "return" /\ stack' = stack /\ exists' = exists
  <2>1. Len(stack') = Len(stack) /\ Len(stack) # Len(stack) + 1
    BY <1>2, <1>3, SMT
  <2> QED
    BY <1>2, <1>3, <2>1 DEF StackAfter
<1>4. ASSUME NEW f \in FrameType, f.folder = Inner.folder,
             f.rest = Inner.rest \ {e}, stack' = Append(Outer, f), pc' = "loop"
      PROVE  StackAfter(e)
  <2>1. /\ stack' \in Seq(FrameType) /\ Len(stack') = Len(stack) /\ stack' # <<>>
        /\ stack'[Len(stack)] = f
        /\ \A k \in 1 .. Len(stack) - 1 : stack'[k] = stack[k]
    BY <1>1, <1>4, GoOnFacts
  <2>2. Len(stack) # Len(stack) + 1
    BY <1>2, SMT
  <2> QED
    BY <1>4, <2>1, <2>2 DEF StackAfter
<1>5. ASSUME NEW f \in FrameType, f.folder = Inner.folder,
             f.rest = Inner.rest \ {e}, stack' = Outer \o <<f, Frame(e)>>,
             pc' \in {"loop", "begin"}, e \in Folders, exists' = exists
      PROVE  StackAfter(e)
  <2>1. Frame(e) \in FrameType
    BY <1>5, FrameFacts
  <2>2. /\ stack' \in Seq(FrameType) /\ Len(stack') = Len(stack) + 1
        /\ stack' # <<>>
        /\ stack'[Len(stack)] = f /\ stack'[Len(stack) + 1] = Frame(e)
        /\ \A k \in 1 .. Len(stack) - 1 : stack'[k] = stack[k]
    BY <1>1, <1>5, <2>1, EnterFacts
  <2> QED
    BY <1>5, <2>2 DEF StackAfter
<1> QED
  BY <1>3, <1>4, <1>5 DEF Touches

\* The tree has no cycle.
LEMMA NoCycle ==
  ASSUME NEW V \in SUBSET Nodes, NEW s \in V, s # Root,
         \A x \in V \ {s} : x # Root /\ Parent[x] \in V
  PROVE  Parent[s] \notin V
<1> SUFFICES ASSUME Parent[s] \in V
             PROVE  FALSE
  OBVIOUS
<1> DEFINE S == Nodes \ V
<1>1. Root \in S
  BY TreeAssumption DEF Nodes
<1>2. \A e \in Nodes \ {Root} : Parent[e] \in S => e \in S
  OBVIOUS
<1>3. S = Nodes
  BY <1>1, <1>2, TreeAssumption
<1> QED
  BY <1>3

LEMMA SearchTouches ==
  ASSUME Types, NEW U, Search(U), NEW e, Touches(e)
  PROVE  /\ Search(U \cup {e})'
         /\ e \in Nodes \ U /\ e # Root /\ e \in exists /\ Parent[e] = Inner.folder
         /\ Inner.folder \in U /\ Inner.folder \notin unsearchable
<1> DEFINE n == Len(stack)
           V == U \cup {e}
<1>1. pc = "loop" /\ pc # "done" /\ pc # "return" /\ e \in Inner.rest
  BY DEF Touches
<1>2. /\ n \in Nat \ {0} /\ Inner = stack[n]
      /\ \A k \in 1 .. n : stack[k] \in FrameType
  BY <1>1, StackFacts
<1>3. n \in 1 .. n
  BY <1>2, SMT
<1>4. /\ Inner.folder \in U /\ Inner.rest \cap U = {}
      /\ \A x \in Inner.rest : x \in exists \ {Root} /\ Parent[x] = Inner.folder
                              /\ Parent[x] \notin unsearchable
  BY <1>1, <1>2, <1>3 DEF Search
<1>5. /\ e \in Nodes \ U /\ e # Root /\ e \in exists /\ Parent[e] = Inner.folder
      /\ Inner.folder \notin unsearchable
  BY <1>1, <1>4 DEF Types
<1>6. StackAfter(e)
  BY TouchesStack
<1>7. /\ V \subseteq Nodes /\ source' = source /\ source \in V /\ e # source
      /\ unsearchable' = unsearchable
  BY <1>5 DEF Search, Touches, call
<1>8. \A x \in V \ {source} : x # Root /\ Parent[x] \in V \ unsearchable
  BY <1>4, <1>5 DEF Search
<1>9. Asked' = Asked \cup {e} \/ (Asked' = Asked /\ ~Walking /\ op # "CopyFiles")
  <2>1. CASE \E answer \in Int : Ask(e, answer)
    BY <1>5, <2>1, AskFacts
  <2>2. CASE asked' = asked /\ ~Walking /\ op # "CopyFiles"
    BY <2>2 DEF Asked
  <2> QED
    BY <2>1, <2>2 DEF Touches
<1>10. \A k \in 1 .. n - 1 :
         /\ stack[k].folder \in U /\ stack[k].folder # Inner.folder
         /\ \A x \in stack[k].rest :
              /\ x \in exists \ {Root} /\ Parent[x] = stack[k].folder
              /\ Parent[x] \notin unsearchable
         /\ stack[k].rest \cap U = {}
  <2> TAKE k \in 1 .. n - 1
  <2>1. k \in 1 .. n /\ k < n /\ k # n
    BY <1>2, SMT
  <2> QED
    BY <1>2, <1>3, <2>1 DEF Search
<1>11. \A k \in 1 .. n - 1 : e \notin stack[k].rest
  BY <1>5, <1>10
<1>12. \A x \in exists \ {Root} : Parent[x] = e => x \notin V
  <2> SUFFICES ASSUME NEW x \in exists \ {Root}, Parent[x] = e, x \in V
               PROVE  FALSE
    OBVIOUS
  <2>1. x # e
    BY <1>4, <1>5
  <2>2. x = source
    BY <1>5, <2>1 DEF Search
  <2>3. source # Root /\ Parent[source] \in V
    BY <2>2
  <2> QED
    BY <1>7, <1>8, <2>3, NoCycle
<1>13. ASSUME NEW k \in 1 .. Len(stack')
       PROVE  /\ stack'[k].folder \in V
              /\ \A x \in stack'[k].rest :
                   /\ x \in exists' \ {Root} /\ Parent[x] = stack'[k].folder
                   /\ Parent[x] \notin unsearchable
              /\ k < Len(stack') \/ pc' # "return" => stack'[k].rest \cap V = {}
  <2>1. CASE k \in 1 .. n - 1
    <3>1. stack'[k] = stack[k]
      BY <1>6, <2>1 DEF StackAfter
    <3>2. \A x \in stack[k].rest : x \in exists'
      BY <1>10, <1>11, <2>1 DEF Touches
    <3> QED
      BY <1>10, <1>11, <2>1, <3>1, <3>2
  <2>2. CASE k = n /\ stack'[n].rest = Inner.rest \ {e} /\ pc' # "return"
    <3>1. stack'[k].folder = Inner.folder
      BY <1>6, <2>2 DEF StackAfter
    <3>2. \A x \in Inner.rest \ {e} : x \in exists'
      BY <1>4 DEF Touches
    <3> QED
      BY <1>4, <2>2, <3>1, <3>2
  <2>3. CASE k = n /\ stack' = stack /\ exists' = exists /\ pc' = "return"
    <3>1. ~(k < Len(stack'))
      BY <1>2, <2>3, SMT
    <3> QED
      BY <1>2, <1>4, <2>3, <3>1
  <2>4. CASE k = n + 1 /\ Len(stack') = n + 1
    <3>1. stack'[k] = Frame(e) /\ e \in Folders /\ exists' = exists
      BY <1>6, <2>4 DEF StackAfter
    <3>2. stack'[k].folder = e /\ stack'[k].rest = Found(e)
      BY <3>1, FrameFacts
    <3>3. \A x \in Found(e) :
            x \in exists \ {Root} /\ Parent[x] = e /\ e \notin unsearchable
      BY DEF Found, Entries
    <3> QED
      BY <1>12, <3>1, <3>2, <3>3
  <2>5. k \in 1 .. n - 1 \/ k = n \/ (k = n + 1 /\ Len(stack') = n + 1)
    BY <1>2, <1>6, SMT DEF StackAfter
  <2> QED
    BY <1>6, <2>1, <2>2, <2>3, <2>4, <2>5 DEF StackAfter
<1>14. ASSUME NEW k \in 1 .. Len(stack'), NEW l \in 1 .. Len(stack'),
              stack'[k].folder = stack'[l].folder
       PROVE  k = l
  <2>1. \A i \in 1 .. Len(stack') :
          \/ i \in 1 .. n /\ stack'[i].folder = stack[i].folder
          \/ i = n + 1 /\ stack'[i].folder = e
    <3> TAKE i \in 1 .. Len(stack')
    <3>1. \/ i \in 1 .. n - 1 \/ i = n \/ (i = n + 1 /\ Len(stack') = n + 1)
      BY <1>2, <1>6, SMT DEF StackAfter
    <3>2. CASE i \in 1 .. n - 1
      BY <1>2, <1>6, <3>2, SMT DEF StackAfter
    <3>3. CASE i = n
      BY <1>2, <1>3, <1>6, <3>3 DEF StackAfter
    <3>4. CASE i = n + 1 /\ Len(stack') = n + 1
      BY <1>6, <3>4, FrameFacts DEF StackAfter
    <3> QED
      BY <3>1, <3>2, <3>3, <3>4
  <2>2. \A i \in 1 .. n : stack[i].folder # e
    BY <1>5 DEF Search
  <2> QED
    BY <1>14, <2>1, <2>2 DEF Search
<1>15. (Walking \/ op = "CopyFiles")' => V = Asked' \cup {source}
  BY <1>9 DEF Search, Touches, call, Walking
<1>16. Asked' \subseteq V \ {source}
  BY <1>5, <1>7, <1>9 DEF Search
<1>17. Search(V)'
  BY <1>7, <1>8, <1>13, <1>14, <1>15, <1>16 DEF Search
<1> QED
  BY <1>4, <1>5, <1>17

\* What is asked now was not asked before, nor anything in it.
LEMMA OrderTouches ==
  ASSUME Types, AskedInOrder, NEW U, Search(U), NEW e \in Nodes \ U, e # Root,
         Parent[e] \in U,
         UNCHANGED asked \/ \E answer \in Int : Ask(e, answer)
  PROVE  AskedInOrder'
<1>1. Parent[e] # e
  OBVIOUS
<1>2. CASE asked' = asked
  BY <1>2 DEF AskedInOrder
<1>3. ASSUME NEW answer \in Int, Ask(e, answer)
      PROVE  AskedInOrder'
  <2>1. /\ Len(asked) \in Nat /\ Len(asked') = Len(asked) + 1
        /\ asked'[Len(asked) + 1].node = e
        /\ \A k \in 1 .. Len(asked) : asked'[k] = asked[k]
    BY <1>1, <1>3, AskFacts
  <2>2. \A k \in 1 .. Len(asked) :
          /\ asked[k].node # e
          /\ asked[k].node # Root => Parent[asked[k].node] # e
    BY AnswerFacts DEF Search
  <2>3. \A k \in 1 .. Len(asked') : k \in 1 .. Len(asked) \/ k = Len(asked) + 1
    BY <2>1, SMT
  <2>4. ASSUME NEW k \in 1 .. Len(asked'), NEW l \in 1 .. Len(asked')
        PROVE  /\ asked'[k].node = asked'[l].node => k = l
               /\ asked'[k].node # Root /\ Parent[asked'[k].node] = asked'[l].node
                    => l < k
    <3>1. CASE k \in 1 .. Len(asked) /\ l \in 1 .. Len(asked)
      BY <2>1, <3>1 DEF AskedInOrder
    <3>2. CASE k \in 1 .. Len(asked) /\ l = Len(asked) + 1
      BY <2>1, <2>2, <3>2
    <3>3. CASE k = Len(asked) + 1 /\ l \in 1 .. Len(asked)
      <4>1. asked'[k].node # asked'[l].node
        BY <2>1, <2>2, <3>3
      <4>2. l < k
        BY <2>1, <3>3, SMT
      <4> QED
        BY <4>1, <4>2
    <3>4. CASE k = Len(asked) + 1 /\ l = Len(asked) + 1
      BY <1>1, <2>1, <3>4
    <3> QED
      BY <2>3, <3>1, <3>2, <3>3, <3>4
  <2> QED
    BY <2>4 DEF AskedInOrder
<1> QED
  BY <1>2, <1>3

\* A step that asks nothing and leaves the frames as they are, or drops the
\* innermost.
Shrinks ==
  /\ UNCHANGED <<call, asked>>
  /\ stack' \in Seq(FrameType) /\ Len(stack') \in Nat
  /\ Len(stack') < Len(stack) \/ (Len(stack') = Len(stack) /\ pc # "return")
  /\ exists' \subseteq exists
  /\ \A k \in 1 .. Len(stack') :
       /\ stack'[k].folder = stack[k].folder /\ stack'[k].rest = stack[k].rest
       /\ stack[k].rest \subseteq exists'

LEMMA SearchShrinks ==
  ASSUME Types, NEW U, Search(U), pc # "done", Shrinks
  PROVE  Search(U)'
<1> DEFINE n == Len(stack)
<1>1. /\ n \in Nat \ {0} /\ Len(stack') \in Nat
  BY StackFacts DEF Shrinks
<1>2. \A k \in 1 .. Len(stack') : k \in 1 .. n
  BY <1>1, SMT DEF Shrinks
<1>3. ASSUME NEW k \in 1 .. Len(stack')
      PROVE  /\ stack'[k].folder \in U
             /\ \A x \in stack'[k].rest :
                  /\ x \in exists' \ {Root} /\ Parent[x] = stack'[k].folder
                  /\ Parent[x] \notin unsearchable
             /\ k < Len(stack') \/ pc' # "return" => stack'[k].rest \cap U = {}
  <2>1. k < n \/ pc # "return"
    BY <1>1, SMT DEF Shrinks
  <2> QED
    BY <1>2, <2>1 DEF Search, Shrinks
<1>4. \A k, l \in 1 .. Len(stack') : stack'[k].folder = stack'[l].folder => k = l
  BY <1>2 DEF Search, Shrinks
<1>5. /\ Asked' = Asked /\ source' = source /\ op' = op
      /\ unsearchable' = unsearchable
  BY DEF Shrinks, call, Asked
<1> QED
  BY <1>3, <1>4, <1>5 DEF Search, Walking

\* A new call.
LEMMA SearchBegins ==
  ASSUME Types, NEW name, NEW folder \in Folders, Begin(name, folder)
  PROVE  Search({folder})' /\ AskedInOrder' /\ stack' \in Seq(FrameType)
         /\ Len(stack') = 1 /\ stack'[1] = Frame(folder)' /\ stack' # <<>>
         /\ stack'[1].folder = folder /\ stack'[1].rest = Found(folder)'
         /\ Asked' = {} /\ Len(asked') = 0 /\ asked' \in Seq(AnswerType)
<1>1. /\ stack' = <<Frame(folder)'>> /\ asked' = <<>> /\ source' = folder
      /\ exists' = exists
  BY DEF Begin
<1> DEFINE f == Frame(folder)'
<1>2. f \in FrameType /\ f.folder = folder /\ f.rest = Found(folder)'
  BY <1>1 DEF Types, Frame, FrameType, Found, Entries
<1> HIDE DEF f
<1>3. <<f>> \in Seq(FrameType) /\ Len(<<f>>) = 1 /\ <<f>>[1] = f /\ <<f>> # <<>>
  BY <1>2, SMT DEF f
<1>4. /\ stack' \in Seq(FrameType) /\ Len(stack') = 1
      /\ stack'[1] = f /\ stack' # <<>>
  BY <1>1, <1>3 DEF f
<1>5. /\ asked' \in Seq(AnswerType) /\ Len(asked') = 0 /\ 1 .. Len(asked') = {}
      /\ Asked' = {}
  BY <1>1 DEF Asked
<1>6. AskedInOrder'
  BY <1>5 DEF AskedInOrder
<1>7. \A k \in 1 .. Len(stack') : k = 1
  BY <1>4, SMT
<1>8. \A x \in Found(folder)' :
        /\ x \in exists' \ {Root} /\ Parent[x] = folder /\ x # folder
        /\ folder \notin unsearchable'
  <2> SUFFICES ASSUME NEW x \in Found(folder)'
               PROVE  /\ x \in exists' \ {Root} /\ Parent[x] = folder
                      /\ x # folder /\ folder \notin unsearchable'
    OBVIOUS
  <2>1. /\ x \in exists' \ {Root} /\ Parent[x] = folder
        /\ folder \notin unsearchable'
    BY <1>1 DEF Found, Entries
  <2>2. ~(x = folder)
    <3> SUFFICES ASSUME x = folder PROVE FALSE
      OBVIOUS
    <3>1. {folder} \in SUBSET Nodes /\ folder \in {folder} /\ folder # Root
      BY <2>1 DEF Nodes
    <3>2. Parent[folder] \notin {folder}
      BY <3>1, NoCycle
    <3> QED
      BY <2>1, <3>2
  <2> QED
    BY <2>1, <2>2
<1>9. Search({folder})'
  BY <1>1, <1>2, <1>4, <1>5, <1>7, <1>8 DEF Search, Nodes
<1> QED
  BY <1>2, <1>4, <1>5, <1>6, <1>9 DEF f

-----------------------------------------------------------------------------
LEMMA PassedFacts ==
  ASSUME Types, pc = "loop", NEW e \in Inner.rest
  PROVE  /\ e \in Nodes
         /\ Passed(e) \in FrameType /\ Passed(e).folder = Inner.folder
         /\ Passed(e).rest = Inner.rest \ {e}
         /\ LET f == [Passed(e) EXCEPT !.nReturn = @ + 1] IN
              f \in FrameType /\ f.folder = Inner.folder /\ f.rest = Inner.rest \ {e}
         /\ LET f == [Passed(e) EXCEPT !.nFailed = @ + 1] IN
              f \in FrameType /\ f.folder = Inner.folder /\ f.rest = Inner.rest \ {e}
<1>1. Inner \in FrameType
  BY StackFacts
<1>2. /\ e \in Nodes
      /\ Passed(e) \in FrameType /\ Passed(e).folder = Inner.folder
      /\ Passed(e).rest = Inner.rest \ {e}
  BY <1>1 DEF Passed, FrameType
<1> DEFINE p == Passed(e)
<1>3. p \in FrameType /\ p.folder = Inner.folder /\ p.rest = Inner.rest \ {e}
  BY <1>2
<1> HIDE DEF p
<1>4. /\ [p EXCEPT !.nReturn = @ + 1] \in FrameType
      /\ [p EXCEPT !.nReturn = @ + 1].folder = p.folder
      /\ [p EXCEPT !.nReturn = @ + 1].rest = p.rest
  BY <1>3 DEF FrameType
<1>5. /\ [p EXCEPT !.nFailed = @ + 1] \in FrameType
      /\ [p EXCEPT !.nFailed = @ + 1].folder = p.folder
      /\ [p EXCEPT !.nFailed = @ + 1].rest = p.rest
  BY <1>3 DEF FrameType
<1> QED
  BY <1>2, <1>3, <1>4, <1>5 DEF p

LEMMA TouchesKeeps ==
  ASSUME IndInv, NEW e, Touches(e), dest' \in [Nodes -> There], ret' \in Nat,
         failed' \in Nat, pc' = "begin" => op = "CopyFiles"
  PROVE  Types' /\ Searches' /\ AskedInOrder'
<1>1. Types /\ AskedInOrder /\ Searches
  BY DEF IndInv
<1>2. PICK U \in SUBSET Nodes : Search(U)
  BY <1>1 DEF Searches
<1>3. Search(U \cup {e})' /\ U \cup {e} \in SUBSET Nodes
  BY <1>1, <1>2, SearchTouches
<1>4. Searches'
  BY <1>3 DEF Searches
<1>5. AskedInOrder'
  <2>1. e \in Nodes \ U /\ e # Root /\ Parent[e] \in U
    BY <1>1, <1>2, SearchTouches
  <2>2. UNCHANGED asked \/ \E answer \in Int : Ask(e, answer)
    BY DEF Touches
  <2> QED
    BY <1>1, <1>2, <2>1, <2>2, OrderTouches
<1>6. stack' \in Seq(FrameType) /\ stack' # <<>>
  BY <1>1, TouchesStack DEF StackAfter
<1>7. asked' \in Seq(AnswerType)
  <2>1. e \in Nodes
    BY <1>1, <1>2, SearchTouches
  <2>2. ASSUME NEW answer \in Int, Ask(e, answer)
        PROVE  asked' \in Seq(AnswerType)
    BY <1>1, <2>1, <2>2, AskFacts
  <2> QED
    BY <1>1, <2>2 DEF Touches, Types
<1>8. pc' \in {"begin", "loop", "return"}
  BY DEF Touches
<1>9. Types'
  BY <1>1, <1>6, <1>7, <1>8 DEF Types, Touches, call
<1> QED
  BY <1>4, <1>5, <1>9

LEMMA ShrinksKeeps ==
  ASSUME IndInv, pc # "done", Shrinks, dest' \in [Nodes -> There], ret' \in Nat,
         failed' \in Nat, pc' \in {"loop", "return", "done"},
         pc' = "done" <=> stack' = <<>>
  PROVE  Types' /\ Searches' /\ AskedInOrder'
<1>1. Types /\ AskedInOrder /\ Searches
  BY DEF IndInv
<1>2. PICK U \in SUBSET Nodes : Search(U)
  BY <1>1 DEF Searches
<1>3. Search(U)'
  BY <1>1, <1>2, SearchShrinks
<1>4. Searches'
  BY <1>3 DEF Searches
<1>5. AskedInOrder' /\ asked' = asked
  BY <1>1 DEF Shrinks, AskedInOrder
<1>6. Types'
  BY <1>1, <1>5 DEF Types, Shrinks, call
<1> QED
  BY <1>4, <1>5, <1>6

\* The innermost frame stays.
LEMMA StaysShrinks ==
  ASSUME IndInv, pc \in {"loop", "begin"}, UNCHANGED <<call, asked, stack, exists>>
  PROVE  Shrinks
<1>1. Types /\ Searches
  BY DEF IndInv
<1>2. PICK U \in SUBSET Nodes : Search(U)
  BY <1>1 DEF Searches
<1>3. stack \in Seq(FrameType) /\ Len(stack) \in Nat
  BY <1>1, StackFacts DEF Types
<1> QED
  BY <1>2, <1>3 DEF Shrinks, Search

\* The innermost frame returns.
LEMMA PopShrinks ==
  ASSUME IndInv, pc = "return", UNCHANGED <<call, asked, exists>>,
         \/ stack' = Outer
         \/ Outer = <<>> /\ stack' = <<>>
         \/ Outer # <<>> /\ stack' = [Outer EXCEPT ![Len(Outer)].nReturn = @ + ret]
  PROVE  Shrinks /\ Len(stack') = Len(stack) - 1 /\ (stack' = <<>> <=> Outer = <<>>)
         /\ Len(stack) \in Nat \ {0}
<1>1. Types /\ Searches
  BY DEF IndInv
<1>2. PICK U \in SUBSET Nodes : Search(U)
  BY <1>1 DEF Searches
<1>3. /\ Len(stack) \in Nat \ {0} /\ Outer \in Seq(FrameType)
      /\ Len(Outer) = Len(stack) - 1
      /\ \A k \in 1 .. Len(stack) - 1 : Outer[k] = stack[k]
  BY <1>1, StackFacts
<1>4. /\ stack' \in Seq(FrameType) /\ Len(stack') = Len(stack) - 1
      /\ stack' = <<>> <=> Outer = <<>>
      /\ \A k \in 1 .. Len(stack) - 1 :
           stack'[k].folder = stack[k].folder /\ stack'[k].rest = stack[k].rest
  <2>1. CASE stack' = Outer
    BY <1>3, <2>1
  <2>2. CASE Outer # <<>> /\ stack' = [Outer EXCEPT ![Len(Outer)].nReturn = @ + ret]
    BY <1>1, <2>2, CountReturnsFacts
  <2> QED
    BY <2>1, <2>2
<1>5. Len(stack') \in Nat /\ Len(stack') < Len(stack)
  BY <1>3, <1>4, SMT
<1>6. \A k \in 1 .. Len(stack') : k \in 1 .. Len(stack)
  BY <1>3, <1>5, SMT
<1>7. \A k \in 1 .. Len(stack) : stack[k].rest \subseteq exists'
  BY <1>2 DEF Search
<1> QED
  BY <1>3, <1>4, <1>5, <1>6, <1>7 DEF Shrinks

\* What a step of one kind of call does not disturb of the others.
LEMMA NotWalking ==
  ASSUME ~Walking, UNCHANGED call
  PROVE  WalkAnswers' /\ WalkCovers'
BY DEF Walking, call, WalkAnswers, WalkCovers

LEMMA NotCopying ==
  ASSUME op # "CopyFiles", UNCHANGED call
  PROVE  CopyCovers'
BY DEF call, CopyCovers

LEMMA KeptInvStays ==
  ASSUME KeptInv, UNCHANGED <<call, exists>>, op # "DestroyFolder" \/ asked' = asked
  PROVE  KeptInv'
BY DEF KeptInv, call

\* What waits after an entry was passed.
LEMMA WaitingAfter ==
  ASSUME Types, NEW e, Touches(e), pc' # "return"
  PROVE  /\ Waiting \ {e} \subseteq Waiting'
         /\ Len(stack') = Len(stack) + 1 => Found(e) \subseteq Waiting'
<1>1. StackAfter(e) /\ pc # "done"
  BY TouchesStack DEF Touches
<1>2. Len(stack) \in Nat \ {0} /\ Inner = stack[Len(stack)]
  BY <1>1, StackFacts
<1>3. Len(stack') \in {Len(stack), Len(stack) + 1}
  BY <1>1 DEF StackAfter
<1>4. ASSUME NEW x \in Waiting, x # e
      PROVE  x \in Waiting'
  <2>1. PICK k \in 1 .. Len(stack) : x \in stack[k].rest
    BY DEF Waiting
  <2>2. k \in 1 .. Len(stack')
    BY <1>2, <1>3, SMT
  <2>3. k \in 1 .. Len(stack) - 1 \/ k = Len(stack)
    BY <1>2, SMT
  <2>4. CASE k \in 1 .. Len(stack) - 1
    BY <1>1, <2>1, <2>2, <2>4 DEF StackAfter, Waiting
  <2>5. CASE k = Len(stack)
    <3>1. stack'[k].rest = Inner.rest \ {e}
      BY <1>1, <2>5 DEF StackAfter
    <3>2. x \in stack'[k].rest
      BY <1>2, <1>4, <2>1, <2>5, <3>1
    <3> QED
      BY <2>2, <3>2 DEF Waiting
  <2> QED
    BY <2>3, <2>4, <2>5
<1>5. ASSUME Len(stack') = Len(stack) + 1
      PROVE  Found(e) \subseteq Waiting'
  <2>1. stack'[Len(stack) + 1].rest = Found(e)
    BY <1>1, <1>5, FrameFacts DEF StackAfter
  <2>2. Len(stack) + 1 \in 1 .. Len(stack')
    BY <1>2, <1>5, SMT
  <2> QED
    BY <2>1, <2>2 DEF Waiting
<1> QED
  BY <1>4, <1>5

\* The frames after it.
LEMMA FoldersAfter ==
  ASSUME Types, NEW e, Touches(e), NEW k \in 1 .. Len(stack')
  PROVE  \/ k \in 1 .. Len(stack) /\ stack'[k].folder = stack[k].folder
         \/ /\ k = Len(stack) + 1 /\ Len(stack') = Len(stack) + 1
            /\ stack'[k].folder = e
<1>1. StackAfter(e) /\ pc # "done"
  BY TouchesStack DEF Touches
<1>2. Len(stack) \in Nat \ {0} /\ Inner = stack[Len(stack)]
  BY <1>1, StackFacts
<1>3. \/ k \in 1 .. Len(stack) - 1 /\ k \in 1 .. Len(stack)
      \/ k = Len(stack) /\ k \in 1 .. Len(stack)
      \/ k = Len(stack) + 1 /\ Len(stack') = Len(stack) + 1
  BY <1>1, <1>2, SMT DEF StackAfter
<1>4. CASE k \in 1 .. Len(stack) - 1 /\ k \in 1 .. Len(stack)
  BY <1>1, <1>4 DEF StackAfter
<1>5. CASE k = Len(stack) /\ k \in 1 .. Len(stack)
  BY <1>1, <1>2, <1>5 DEF StackAfter
<1>6. CASE k = Len(stack) + 1 /\ Len(stack') = Len(stack) + 1
  BY <1>1, <1>6, FrameFacts DEF StackAfter
<1> QED
  BY <1>3, <1>4, <1>5, <1>6

-----------------------------------------------------------------------------
\* RunForeach.

LEMMA VisitTouches ==
  ASSUME IndInv, NEW e \in Inner.rest, NEW answer \in Answers, Ask(e, answer),
         pc = "loop", Walking, UNCHANGED <<disk, call, failed>>,
         \/ Heard(answer) > 0 /\ Return(1) /\ UNCHANGED stack
         \/ ~(Heard(answer) > 0) /\ nRecursive /\ e \in Folders /\ Enter(e)
         \/ ~(Heard(answer) > 0) /\ ~(nRecursive /\ e \in Folders) /\ GoOn(Passed(e))
  PROVE  Touches(e) /\ answer \in Int /\ Types' /\ Searches' /\ AskedInOrder'
<1>1. Types
  BY DEF IndInv
<1>2. answer \in Int
  BY WalkAssumption, SMT DEF Answers
<1>3. Passed(e) \in FrameType /\ Passed(e).folder = Inner.folder
      /\ Passed(e).rest = Inner.rest \ {e}
  BY <1>1, PassedFacts
<1>4. exists' = exists /\ dest' = dest /\ call' = call /\ failed' = failed
  BY DEF disk
<1>5. CASE Return(1) /\ UNCHANGED stack
  <2>1. Touches(e)
    BY <1>2, <1>4, <1>5 DEF Touches, Return
  <2> QED
    BY <1>1, <1>2, <1>4, <1>5, <2>1, TouchesKeeps DEF Types, Return
<1>6. CASE e \in Folders /\ Enter(e)
  <2>1. Touches(e)
    BY <1>2, <1>3, <1>4, <1>6 DEF Touches, Enter
  <2> QED
    BY <1>1, <1>2, <1>4, <1>6, <2>1, TouchesKeeps DEF Types, Enter
<1>7. CASE GoOn(Passed(e))
  <2>1. Touches(e)
    BY <1>2, <1>3, <1>4, <1>7 DEF Touches, GoOn
  <2> QED
    BY <1>1, <1>2, <1>4, <1>7, <2>1, TouchesKeeps DEF Types, GoOn
<1> QED
  BY <1>5, <1>6, <1>7

LEMMA VisitKeeps ==
  ASSUME IndInv, Visit
  PROVE  IndInv'
<1>1. /\ Types /\ WalkAnswers /\ WalkCovers /\ KeptInv /\ pc = "loop" /\ Walking
      /\ Searches
  BY DEF IndInv, Visit
<1>2. PICK e \in Inner.rest, answer \in Answers :
        /\ Ask(e, answer)
        /\ \/ Heard(answer) > 0 /\ Return(1) /\ UNCHANGED stack
           \/ ~(Heard(answer) > 0) /\ nRecursive /\ e \in Folders /\ Enter(e)
           \/ ~(Heard(answer) > 0) /\ ~(nRecursive /\ e \in Folders) /\ GoOn(Passed(e))
  <2>1. PICK e \in Inner.rest, answer \in Answers :
        /\ Ask(e, answer)
        /\ IF Heard(answer) > 0 THEN Return(1) /\ UNCHANGED stack
           ELSE IF nRecursive /\ e \in Folders THEN Enter(e)
           ELSE GoOn(Passed(e))
    BY DEF Visit
  <2> QED
    BY <2>1
<1>3. UNCHANGED <<disk, call, failed>> /\ exists' = exists /\ op' = op
      /\ nRecursive' = nRecursive /\ source' = source
      /\ unsearchable' = unsearchable
  BY DEF Visit, disk, call
<1>4. Touches(e) /\ answer \in Int /\ Types' /\ Searches' /\ AskedInOrder'
  BY <1>1, <1>2, <1>3, VisitTouches
<1>5. PICK U \in SUBSET Nodes : Search(U)
  BY <1>1 DEF Searches
<1>6. /\ e \in Nodes /\ e # Root /\ e \in exists /\ Parent[e] = Inner.folder
      /\ e \notin Asked /\ Inner.folder \notin unsearchable
  BY <1>1, <1>4, <1>5, SearchTouches DEF Search
<1>7. /\ Len(asked) \in Nat /\ Len(asked') = Len(asked) + 1
      /\ asked'[Len(asked) + 1].answer = answer
      /\ \A k \in 1 .. Len(asked) : asked'[k] = asked[k]
      /\ Asked' = Asked \cup {e}
  BY <1>1, <1>2, <1>4, <1>6, AskFacts
<1>8. /\ Len(stack) \in Nat \ {0} /\ Inner = stack[Len(stack)]
      /\ Len(stack) \in 1 .. Len(stack) /\ pc # "done"
  BY <1>1, StackFacts, SMT
<1>9. /\ \A k \in 1 .. Len(asked) : ~Stops(k)'
      /\ \A k : k = Len(asked) + 1 => (Stops(k)' <=> Heard(answer) > 0)
      /\ Heard(answer) > 0 => op = "RunForeach"
  <2>1. \A k \in 1 .. Len(asked) : ~Stops(k)'
    BY <1>1, <1>3, <1>7 DEF WalkAnswers, NoneStops, Stops
  <2>2. CASE op = "FileTraversal"
    <3>1. answer # 2 /\ ~(Heard(answer) > 0)
      BY <2>2, SMT DEF Answers, Heard
    <3>2. \A k : k = Len(asked) + 1 => ~Stops(k)'
      BY <1>3, <1>7, <2>2, <3>1 DEF Stops, LuaError
    <3> QED
      BY <2>1, <3>1, <3>2
  <2>3. CASE op = "RunForeach"
    <3>1. Heard(answer) = answer
      BY <2>3 DEF Heard
    <3>2. \A k : k = Len(asked) + 1 => (Stops(k)' <=> answer > 0)
      BY <1>3, <1>7, <2>3 DEF Stops
    <3> QED
      BY <2>1, <2>3, <3>1, <3>2
  <2> QED
    BY <1>1, <2>2, <2>3 DEF Walking
<1>10. WalkAnswers'
  <2>1. Len(asked') - 1 = Len(asked) /\ Len(asked') > 0
    BY <1>7, SMT
  <2>2. NoneStops(Len(asked) - 1)'
    BY <1>9, <2>1 DEF NoneStops
  <2>3. CASE Heard(answer) > 0 /\ Return(1)
    <3>1. Stops(Len(asked))' /\ op' = "RunForeach"
      BY <1>3, <1>7, <1>9, <2>3
    <3> QED
      BY <1>1, <1>3, <2>1, <2>2, <2>3, <3>1 DEF WalkAnswers, Walking, Return
  <2>4. CASE ~(Heard(answer) > 0)
    <3>2. pc' = "loop"
      BY <1>1, <1>2, <2>4 DEF Enter, GoOn
    <3>3. \A k \in 1 .. Len(asked') : k \in 1 .. Len(asked) \/ k = Len(asked) + 1
      BY <1>7, SMT
    <3>4. NoneStops(Len(asked))'
      BY <1>7, <1>9, <2>4, <3>3 DEF NoneStops
    <3> QED
      BY <1>1, <1>3, <2>2, <3>2, <3>4 DEF WalkAnswers, Walking
  <2> QED
    BY <1>2, <2>3, <2>4
<1>11. /\ Opened \subseteq Opened' /\ Searched \subseteq Searched'
       /\ Inner.folder \in Opened /\ Inner.folder \in Searched
       /\ Opened' = Opened \cup (IF nRecursive /\ e \in Folders THEN {e} ELSE {})
  BY <1>1, <1>3, <1>6, <1>7, <1>8 DEF Opened, Searched, WalkCovers
<1>12. \A k \in 1 .. Len(stack') : stack'[k].folder \in Opened'
  <2> TAKE k \in 1 .. Len(stack')
  <2>1. CASE k \in 1 .. Len(stack) /\ stack'[k].folder = stack[k].folder
    BY <1>1, <1>11, <2>1 DEF WalkCovers
  <2>2. CASE Len(stack') = Len(stack) + 1 /\ stack'[k].folder = e
    <3>1. CASE Enter(e) /\ nRecursive /\ e \in Folders
      BY <1>11, <2>2, <3>1
    <3>2. CASE stack' = stack
      BY <1>8, <2>2, <3>2, SMT
    <3>3. CASE GoOn(Passed(e))
      <4>1. Len(stack') = Len(stack)
        BY <1>1, <1>8, <3>3, GoOnFacts, PassedFacts DEF GoOn
      <4> QED
        BY <1>8, <2>2, <4>1, SMT
    <3> QED
      BY <1>2, <3>1, <3>2, <3>3
  <2> QED
    BY <1>1, <1>4, <2>1, <2>2, FoldersAfter
<1>13. ASSUME NoneStops(Len(asked))'
       PROVE  /\ pc' = "loop"
              /\ \A x \in exists \ {Root} :
                   Parent[x] \in Searched' => x \in Asked' \cup Waiting'
  <2>1. Len(asked) + 1 \in 1 .. Len(asked')
    BY <1>7, SMT
  <2>3. ~(Heard(answer) > 0)
    BY <1>9, <1>13, <2>1 DEF NoneStops
  <2>4. pc' = "loop"
    BY <1>1, <1>2, <2>3 DEF Enter, GoOn
  <2>5. /\ Waiting \ {e} \subseteq Waiting'
        /\ Len(stack') = Len(stack) + 1 => Found(e) \subseteq Waiting'
    BY <1>1, <1>4, <2>4, WaitingAfter
  <2>6. nRecursive /\ e \in Folders => Len(stack') = Len(stack) + 1
    <3> SUFFICES ASSUME nRecursive, e \in Folders
                 PROVE  Len(stack') = Len(stack) + 1
      OBVIOUS
    <3>1. Enter(e)
      BY <1>2, <2>3
    <3> QED
      BY <1>1, <1>8, <3>1, EnterFacts, PassedFacts, FrameFacts DEF Enter
  <2>7. ASSUME NEW x \in exists \ {Root}, Parent[x] \in Searched'
        PROVE  x \in Asked' \cup Waiting'
    <3>1. CASE Parent[x] \in Searched
      <4>1. NoneStops(Len(asked))
        BY <1>1 DEF WalkAnswers
      <4>2. x \in Asked \cup Waiting
        BY <1>1, <3>1, <4>1 DEF WalkCovers
      <4> QED
        BY <1>7, <2>5, <4>2
    <3>2. CASE /\ Parent[x] = e /\ nRecursive /\ e \in Folders
               /\ e \notin unsearchable
      BY <2>5, <2>6, <3>2 DEF Found, Entries
    <3> QED
      BY <1>3, <1>11, <2>7, <3>1, <3>2 DEF Searched
  <2> QED
    BY <2>4, <2>7
<1>14. WalkCovers'
  <2>1. Asked' \subseteq exists' /\ \A a \in Asked' : Parent[a] \in Searched'
    BY <1>1, <1>3, <1>6, <1>7, <1>11 DEF WalkCovers
  <2> QED
    BY <1>3, <1>12, <1>13, <2>1 DEF WalkCovers
<1>15. KeptInv' /\ CopyCovers'
  BY <1>1, <1>3, KeptInvStays, NotCopying DEF Walking
<1> QED
  BY <1>4, <1>10, <1>14, <1>15 DEF IndInv

LEMMA FMTravFailsKeeps ==
  ASSUME IndInv, FMTravFails
  PROVE  IndInv'
<1>1. /\ Types /\ WalkAnswers /\ WalkCovers /\ KeptInv /\ pc = "loop"
      /\ op = "FileTraversal" /\ Walking /\ Searches /\ AskedInOrder
  BY DEF IndInv, FMTravFails, Walking
<1>2. PICK e \in Inner.rest : Ask(e, LuaError)
  BY DEF FMTravFails
<1>3. /\ stack' = <<>> /\ pc' = "done" /\ ret' = 0 /\ exists' = exists
      /\ dest' = dest /\ UNCHANGED call /\ failed' = failed /\ op' = op
      /\ nRecursive' = nRecursive /\ source' = source
      /\ unsearchable' = unsearchable
  BY DEF FMTravFails, disk, call
<1>4. PICK U \in SUBSET Nodes : Search(U)
  BY <1>1 DEF Searches
<1>5. /\ Len(stack) \in Nat \ {0} /\ Inner = stack[Len(stack)]
      /\ Len(stack) \in 1 .. Len(stack) /\ pc # "done" /\ Inner \in FrameType
  BY <1>1, StackFacts, SMT
<1>6. /\ e \in exists \ {Root} /\ Parent[e] = Inner.folder /\ e \notin U
      /\ Inner.folder \in U \ unsearchable /\ e \in Nodes
      /\ LuaError \in Int
  BY <1>1, <1>4, <1>5 DEF Search, Types, LuaError
<1>7. /\ asked' \in Seq(AnswerType)
      /\ Len(asked) \in Nat /\ Len(asked') = Len(asked) + 1
      /\ asked'[Len(asked) + 1].answer = LuaError
      /\ asked'[Len(asked) + 1].node = e
      /\ \A k \in 1 .. Len(asked) : asked'[k] = asked[k]
      /\ Asked' = Asked \cup {e}
  BY <1>1, <1>2, <1>6, AskFacts
<1>8. 1 .. Len(stack') = {}
  BY <1>3
<1>9. Search(U \cup {e})'
  BY <1>3, <1>4, <1>6, <1>7, <1>8, <1>1 DEF Search, Walking
<1>10. Searches'
  BY <1>6, <1>9 DEF Searches
<1>11. AskedInOrder'
  BY <1>1, <1>2, <1>4, <1>6, OrderTouches
<1>12. Types'
  BY <1>1, <1>3, <1>7 DEF Types, call
<1>13. WalkAnswers'
  <2>1. Len(asked') - 1 = Len(asked) /\ Len(asked') > 0
    BY <1>7, SMT
  <2>2. NoneStops(Len(asked) - 1)'
    BY <1>1, <1>3, <1>7, <2>1 DEF WalkAnswers, NoneStops, Stops
  <2>3. Stops(Len(asked))'
    BY <1>1, <1>3, <1>7 DEF Stops
  <2> QED
    BY <1>1, <1>3, <2>1, <2>2, <2>3 DEF WalkAnswers, Walking
<1>14. WalkCovers'
  <2>1. Inner.folder \in Searched /\ Searched \subseteq Searched'
    BY <1>1, <1>3, <1>5, <1>6, <1>7 DEF WalkCovers, Opened, Searched
  <2>2. Asked' \subseteq exists' /\ \A a \in Asked' : Parent[a] \in Searched'
    BY <1>1, <1>3, <1>6, <1>7, <2>1 DEF WalkCovers
  <2>3. Len(asked) + 1 \in 1 .. Len(asked')
    BY <1>7, SMT
  <2>4. ~NoneStops(Len(asked))'
    BY <1>1, <1>3, <1>7, <2>3 DEF NoneStops, Stops
  <2> QED
    BY <1>3, <1>8, <2>2, <2>4 DEF WalkCovers
<1>15. KeptInv' /\ CopyCovers'
  BY <1>1, <1>3, KeptInvStays, NotCopying
<1> QED
  BY <1>10, <1>11, <1>12, <1>13, <1>14, <1>15 DEF IndInv

LEMMA WalkedKeeps ==
  ASSUME IndInv, Walked
  PROVE  IndInv'
<1>1. /\ Types /\ WalkAnswers /\ WalkCovers /\ KeptInv /\ pc = "loop" /\ Walking
      /\ Inner.rest = {} /\ pc # "done"
  BY DEF IndInv, Walked
<1>2. /\ pc' = "return" /\ ret' = 0 /\ exists' = exists /\ dest' = dest
      /\ UNCHANGED call /\ stack' = stack /\ failed' = failed /\ asked' = asked
      /\ op' = op /\ nRecursive' = nRecursive /\ source' = source
      /\ unsearchable' = unsearchable
  BY DEF Walked, Return, disk, call, hist
<1>3. Shrinks
  BY <1>1, <1>2, StaysShrinks
<1>4. Types' /\ Searches' /\ AskedInOrder'
  BY <1>1, <1>2, <1>3, ShrinksKeeps DEF Types
<1>5. WalkAnswers'
  BY <1>1, <1>2 DEF WalkAnswers, Walking, NoneStops, Stops
<1>6. Inner = stack[Len(stack)]
  BY <1>1, StackFacts
<1>7. WalkCovers'
  BY <1>1, <1>2, <1>6 DEF WalkCovers, Walking, NoneStops, Stops, Asked, Opened,
     Searched, Waiting
<1>8. KeptInv' /\ CopyCovers'
  BY <1>1, <1>2, KeptInvStays, NotCopying DEF Walking
<1> QED
  BY <1>4, <1>5, <1>7, <1>8 DEF IndInv

LEMMA WalkReturnsKeeps ==
  ASSUME IndInv, WalkReturns
  PROVE  IndInv'
<1>1. /\ Types /\ WalkAnswers /\ WalkCovers /\ KeptInv /\ pc = "return" /\ Walking
      /\ pc # "done"
  BY DEF IndInv, WalkReturns
<1>2. /\ stack' = Outer /\ ret' = ret /\ exists' = exists /\ dest' = dest
      /\ pc' = IF Outer = <<>> THEN "done" ELSE IF ret > 0 THEN "return" ELSE "loop"
      /\ UNCHANGED call /\ failed' = failed /\ asked' = asked
      /\ op' = op /\ nRecursive' = nRecursive /\ source' = source
      /\ unsearchable' = unsearchable
  BY DEF WalkReturns, disk, call, hist
<1>3. Shrinks /\ Len(stack') = Len(stack) - 1 /\ Len(stack) \in Nat \ {0}
  BY <1>1, <1>2, PopShrinks
<1>4. Types' /\ Searches' /\ AskedInOrder'
  BY <1>1, <1>2, <1>3, ShrinksKeeps DEF Types
<1>5. WalkAnswers'
  <2>1. CASE NoneStops(Len(asked)) /\ ret = 0
    BY <1>1, <1>2, <2>1 DEF WalkAnswers, Walking, NoneStops, Stops
  <2>2. CASE Len(asked) > 0 /\ Stops(Len(asked)) /\ op = "RunForeach" /\ ret = 1
    BY <1>1, <1>2, <2>2 DEF WalkAnswers, Walking, NoneStops, Stops
  <2> QED
    BY <1>1, <2>1, <2>2 DEF WalkAnswers
<1>6. Asked' = Asked /\ Opened' = Opened /\ Searched' = Searched
  BY <1>2 DEF Asked, Opened, Searched
<1>7. \A k \in 1 .. Len(stack') : k \in 1 .. Len(stack)
  BY <1>3, SMT
<1>8. ASSUME NoneStops(Len(asked))
      PROVE  Waiting \subseteq Waiting' /\ pc' # "return"
  <2>1. ret = 0
    <3>1. ASSUME Len(asked) > 0, Stops(Len(asked))
          PROVE  FALSE
      <4>1. Len(asked) \in 1 .. Len(asked)
        BY <1>1, <3>1, LenProperties, SMT DEF Types
      <4> QED
        BY <1>8, <3>1, <4>1 DEF NoneStops
    <3> QED
      BY <1>1, <3>1 DEF WalkAnswers
  <2>2. stack[Len(stack)].rest = {}
    BY <1>1, <1>8 DEF WalkCovers
  <2>3. ASSUME NEW k \in 1 .. Len(stack), NEW x \in stack[k].rest
        PROVE  x \in Waiting'
    <3>1. k # Len(stack)
      BY <2>2, <2>3
    <3>2. k \in 1 .. Len(stack')
      BY <1>3, <3>1, SMT
    <3>3. stack'[k].rest = stack[k].rest
      BY <1>3, <3>2 DEF Shrinks
    <3> QED
      BY <2>3, <3>2, <3>3 DEF Waiting
  <2> QED
    BY <1>2, <2>1, <2>3 DEF Waiting
<1>9. \A k \in 1 .. Len(stack') : stack'[k].folder \in Opened
  BY <1>1, <1>3, <1>7 DEF Shrinks, WalkCovers
<1>10. NoneStops(Len(asked))' => NoneStops(Len(asked))
  BY <1>2 DEF NoneStops, Stops
<1>11. WalkCovers'
  BY <1>1, <1>2, <1>6, <1>8, <1>9, <1>10 DEF WalkCovers
<1>12. KeptInv' /\ CopyCovers'
  BY <1>1, <1>2, KeptInvStays, NotCopying DEF Walking
<1> QED
  BY <1>4, <1>5, <1>11, <1>12 DEF IndInv

-----------------------------------------------------------------------------
\* DestroyFolder.

LEMMA NotEmptyKeeps ==
  ASSUME IndInv, NotEmpty
  PROVE  IndInv'
<1>1. /\ Types /\ KeptInv /\ pc = "loop" /\ op = "DestroyFolder" /\ pc # "done"
  BY DEF IndInv, NotEmpty
<1>2. /\ pc' = "return" /\ ret' = 0 /\ exists' = exists /\ dest' = dest
      /\ UNCHANGED call /\ stack' = stack /\ failed' = failed /\ asked' = asked
  BY DEF NotEmpty, Return, disk, hist
<1>3. Shrinks
  BY <1>1, <1>2, StaysShrinks
<1>4. Types' /\ Searches' /\ AskedInOrder'
  BY <1>1, <1>2, <1>3, ShrinksKeeps DEF Types
<1> QED
  BY <1>1, <1>2, <1>4, NotWalking, NotCopying, KeptInvStays DEF IndInv, Walking

LEMMA DestroySubfolderKeeps ==
  ASSUME IndInv, DestroySubfolder
  PROVE  IndInv'
<1>1. /\ Types /\ KeptInv /\ pc = "loop" /\ op = "DestroyFolder" /\ ~Walking
  BY DEF IndInv, DestroySubfolder, Destroying, Walking
<1>2. PICK e \in Inner.rest \cap Folders : Enter(e)
  BY DEF DestroySubfolder
<1>3. /\ exists' = exists /\ dest' = dest /\ UNCHANGED call /\ failed' = failed
      /\ asked' = asked
  BY DEF DestroySubfolder, disk, hist
<1>4. Passed(e) \in FrameType /\ Passed(e).folder = Inner.folder
      /\ Passed(e).rest = Inner.rest \ {e}
  BY <1>1, PassedFacts
<1>5. Touches(e)
  BY <1>1, <1>2, <1>3, <1>4 DEF Touches, Enter
<1>6. Types' /\ Searches' /\ AskedInOrder'
  BY <1>1, <1>2, <1>3, <1>5, TouchesKeeps DEF Types, Enter
<1> QED
  BY <1>1, <1>3, <1>6, NotWalking, NotCopying, KeptInvStays DEF IndInv

\* A file that was asked about: it goes only when the answer was 0.
LEMMA DestroyFileKept ==
  ASSUME IndInv, op = "DestroyFolder", NEW e \in Files, NEW answer \in Int,
         Touches(e), Ask(e, answer),
         exists' = exists \/ (exists' = exists \ {e} /\ answer = 0)
  PROVE  KeptInv'
<1>1. Types /\ KeptInv /\ Searches
  BY DEF IndInv
<1>2. PICK U \in SUBSET Nodes : Search(U)
  BY <1>1 DEF Searches
<1>3. e \in Nodes /\ e \in exists /\ e \notin Asked
  BY <1>1, <1>2, SearchTouches DEF Search
<1>4. /\ Len(asked) \in Nat /\ Len(asked') = Len(asked) + 1
      /\ asked'[Len(asked) + 1].node = e
      /\ asked'[Len(asked) + 1].answer = answer
      /\ \A k \in 1 .. Len(asked) : asked'[k] = asked[k]
  BY <1>1, <1>3, AskFacts
<1>5. \A x \in exists' \ {Root} : Parent[x] \in exists'
  <2> TAKE x \in exists' \ {Root}
  <2>1. x \in exists \ {Root} /\ x \in Nodes
    BY <1>1 DEF Types
  <2>2. Parent[x] \in Folders /\ Parent[x] # e
    BY <2>1, TreeAssumption
  <2> QED
    BY <1>1, <2>1, <2>2 DEF KeptInv
<1>6. ASSUME NEW k \in 1 .. Len(asked')
      PROVE  /\ asked'[k].node \in Files
             /\ asked'[k].answer # 0 => asked'[k].node \in exists'
  <2>1. k \in 1 .. Len(asked) \/ k = Len(asked) + 1
    BY <1>4, SMT
  <2>2. CASE k \in 1 .. Len(asked)
    <3>1. asked[k].node # e
      BY <1>1, <1>3, <2>2, AnswerFacts
    <3> QED
      BY <1>1, <1>4, <2>2, <3>1 DEF KeptInv
  <2>3. CASE k = Len(asked) + 1
    BY <1>3, <1>4, <2>3
  <2> QED
    BY <2>1, <2>2, <2>3
<1> QED
  BY <1>5, <1>6 DEF KeptInv

LEMMA DestroyFileKeeps ==
  ASSUME IndInv, DestroyFile
  PROVE  IndInv'
<1>1. /\ Types /\ pc = "loop" /\ op = "DestroyFolder" /\ ~Walking /\ pc # "done"
      /\ dest' = dest /\ UNCHANGED call /\ failed' = failed
  BY DEF IndInv, DestroyFile, Destroying, Walking
<1>2. PICK e \in Inner.rest \cap Files :
        \/ Ask(e, 2) /\ Return(Inner.nReturn) /\ UNCHANGED <<exists, stack>>
        \/ Ask(e, 1) /\ GoOn(Passed(e)) /\ UNCHANGED exists
        \/ /\ Ask(e, 0) /\ exists' = exists \ {e}
           /\ GoOn([Passed(e) EXCEPT !.nReturn = @ + 1])
        \/ /\ Ask(e, 0) /\ GoOn([Passed(e) EXCEPT !.nFailed = @ + 1])
           /\ UNCHANGED exists
  BY DEF DestroyFile
<1>3. PICK answer \in Int :
        /\ Ask(e, answer)
        /\ exists' = exists \/ (exists' = exists \ {e} /\ answer = 0)
  BY <1>2
<1>4. /\ Passed(e) \in FrameType /\ Passed(e).folder = Inner.folder
      /\ Passed(e).rest = Inner.rest \ {e}
      /\ LET f == [Passed(e) EXCEPT !.nReturn = @ + 1] IN
              f \in FrameType /\ f.folder = Inner.folder /\ f.rest = Inner.rest \ {e}
      /\ LET f == [Passed(e) EXCEPT !.nFailed = @ + 1] IN
              f \in FrameType /\ f.folder = Inner.folder /\ f.rest = Inner.rest \ {e}
  BY <1>1, <1>2, PassedFacts
<1>5. Touches(e) /\ ret' \in Nat /\ pc' # "begin"
  <2>1. CASE Return(Inner.nReturn) /\ UNCHANGED <<exists, stack>>
    <3>1. Inner.nReturn \in Nat
      BY <1>1, StackFacts DEF FrameType
    <3> QED
      BY <1>1, <1>2, <1>3, <2>1, <3>1 DEF Touches, Return
  <2>2. ASSUME NEW f \in FrameType, f.folder = Inner.folder,
               f.rest = Inner.rest \ {e}, GoOn(f)
        PROVE  Touches(e) /\ ret' \in Nat /\ pc' # "begin"
    BY <1>1, <1>2, <1>3, <2>2 DEF Touches, GoOn, Types
  <2> QED
    BY <1>2, <1>4, <2>1, <2>2
<1>6. Types' /\ Searches' /\ AskedInOrder'
  BY <1>1, <1>5, TouchesKeeps DEF Types
<1>7. KeptInv'
  BY <1>1, <1>2, <1>3, <1>5, DestroyFileKept
<1> QED
  BY <1>1, <1>6, <1>7, NotWalking, NotCopying DEF IndInv

LEMMA RemoveFolderKeeps ==
  ASSUME IndInv, RemoveFolder
  PROVE  IndInv'
<1>1. /\ Types /\ KeptInv /\ Searches /\ pc = "loop" /\ op = "DestroyFolder"
      /\ ~Walking /\ pc # "done" /\ pc # "return" /\ Inner.rest = {}
  BY DEF IndInv, RemoveFolder, Walking
<1>2. /\ dest' = dest /\ UNCHANGED call /\ stack' = stack /\ asked' = asked
      /\ pc' = "return" /\ op' = op
      /\ \/ Entries(Inner.folder) = {} /\ exists' = exists \ {Inner.folder}
         \/ exists' = exists
  BY DEF RemoveFolder, Return, hist, call
<1>3. /\ Len(stack) \in Nat \ {0} /\ Inner = stack[Len(stack)]
      /\ Inner \in FrameType /\ stack \in Seq(FrameType)
      /\ Len(stack) \in 1 .. Len(stack)
  BY <1>1, StackFacts, SMT DEF Types
<1>4. ret' \in Nat /\ failed' \in Nat
  <2>1. /\ Inner.nReturn \in Nat /\ Inner.nFailed \in Nat /\ failed \in Nat
    BY <1>1, <1>3 DEF FrameType, Types
  <2>2. /\ ret' \in {Inner.nReturn, Inner.nReturn + 1}
        /\ failed' \in {failed + Inner.nFailed, failed + Inner.nFailed + 1}
    BY DEF RemoveFolder, Return
  <2> QED
    BY <2>1, <2>2, SMT
<1>5. PICK U \in SUBSET Nodes : Search(U)
  BY <1>1 DEF Searches
<1>6. \A k \in 1 .. Len(stack) : stack[k].rest \subseteq exists'
  <2> TAKE k \in 1 .. Len(stack)
  <2>1. stack[k].rest \subseteq exists /\ stack[k].rest \cap U = {}
    BY <1>1, <1>5 DEF Search
  <2>2. Inner.folder \in U
    BY <1>3, <1>5 DEF Search
  <2> QED
    BY <1>2, <2>1, <2>2
<1>7. Shrinks
  BY <1>1, <1>2, <1>3, <1>6 DEF Shrinks
<1>8. Types' /\ Searches' /\ AskedInOrder'
  BY <1>1, <1>2, <1>4, <1>7, ShrinksKeeps DEF Types
<1>9. KeptInv'
  <2>1. Inner.folder \notin Files
    BY <1>3, TreeAssumption DEF FrameType
  <2>2. \A x \in exists' \ {Root} : Parent[x] \in exists'
    BY <1>1, <1>2 DEF KeptInv, Entries
  <2> QED
    BY <1>1, <1>2, <2>1, <2>2 DEF KeptInv
<1> QED
  BY <1>1, <1>2, <1>8, <1>9, NotWalking, NotCopying DEF IndInv

-----------------------------------------------------------------------------
\* GetNumberOfFilesInFolder.

LEMMA CountEntryKeeps ==
  ASSUME IndInv, CountEntry
  PROVE  IndInv'
<1>1. /\ Types /\ KeptInv /\ pc = "loop" /\ op = "GetNumberOfFilesInFolder"
      /\ ~Walking
  BY DEF IndInv, CountEntry, Counting, Walking
<1>2. /\ exists' = exists /\ dest' = dest /\ UNCHANGED call /\ failed' = failed
      /\ asked' = asked
  BY DEF CountEntry, disk, hist
<1>3. PICK e \in Inner.rest, f \in FrameType :
        /\ f.folder = Inner.folder /\ f.rest = Inner.rest \ {e}
        /\ \/ /\ e \in Folders /\ stack' = Outer \o <<f, Frame(e)>>
              /\ UNCHANGED <<pc, ret>>
           \/ GoOn(f)
  <2>1. PICK e \in Inner.rest :
          LET counted == [Passed(e) EXCEPT !.nReturn = @ + 1] IN
            IF nRecursive /\ e \in Folders
              THEN stack' = Outer \o <<counted, Frame(e)>> /\ UNCHANGED <<pc, ret>>
              ELSE GoOn(counted)
    BY DEF CountEntry
  <2> DEFINE f == [Passed(e) EXCEPT !.nReturn = @ + 1]
  <2>2. f \in FrameType /\ f.folder = Inner.folder /\ f.rest = Inner.rest \ {e}
    BY <1>1, PassedFacts
  <2>3. \/ /\ e \in Folders /\ stack' = Outer \o <<f, Frame(e)>>
           /\ UNCHANGED <<pc, ret>>
        \/ GoOn(f)
    BY <2>1
  <2> HIDE DEF f
  <2> QED
    BY <2>2, <2>3
<1>4. Touches(e) /\ ret' = ret /\ pc' = "loop"
  <2>1. CASE e \in Folders /\ stack' = Outer \o <<f, Frame(e)>> /\ UNCHANGED <<pc, ret>>
    BY <1>1, <1>2, <1>3, <2>1 DEF Touches
  <2>2. CASE GoOn(f)
    BY <1>1, <1>2, <1>3, <2>2 DEF Touches, GoOn
  <2> QED
    BY <1>3, <2>1, <2>2
<1>5. Types' /\ Searches' /\ AskedInOrder'
  BY <1>1, <1>2, <1>4, TouchesKeeps DEF Types
<1> QED
  BY <1>1, <1>2, <1>5, NotWalking, NotCopying, KeptInvStays DEF IndInv

LEMMA CountedKeeps ==
  ASSUME IndInv, Counted
  PROVE  IndInv'
<1>1. /\ Types /\ KeptInv /\ pc = "loop" /\ op = "GetNumberOfFilesInFolder"
      /\ ~Walking /\ pc # "done"
  BY DEF IndInv, Counted, Counting, Walking
<1>2. /\ pc' = "return" /\ ret' = Inner.nReturn /\ exists' = exists /\ dest' = dest
      /\ UNCHANGED call /\ stack' = stack /\ failed' = failed /\ asked' = asked
  BY DEF Counted, Return, disk, hist
<1>3. ret' \in Nat
  BY <1>1, <1>2, StackFacts DEF FrameType
<1>4. Shrinks
  BY <1>1, <1>2, StaysShrinks
<1>5. Types' /\ Searches' /\ AskedInOrder'
  BY <1>1, <1>2, <1>3, <1>4, ShrinksKeeps DEF Types
<1> QED
  BY <1>1, <1>2, <1>5, NotWalking, NotCopying, KeptInvStays DEF IndInv

-----------------------------------------------------------------------------
\* CopyFiles.

LEMMA CopyTouches ==
  ASSUME IndInv, op = "CopyFiles", NEW e, NEW answer \in 0 .. 1, Touches(e),
         Ask(e, answer), exists' = exists,
         \A f \in Folders : dest'[f] = "folder" <=> dest[f] = "folder",
         \/ pc' = "loop" /\ Len(stack') = Len(stack) /\ (nRecursive => e \notin Folders)
         \/ pc' = "begin" /\ Len(stack') = Len(stack) + 1 /\ nRecursive
  PROVE  CopyCovers'
<1>1. Types /\ Searches /\ CopyCovers /\ pc = "loop" /\ pc # "done"
  BY DEF IndInv, Touches
<1>2. PICK U \in SUBSET Nodes : Search(U)
  BY <1>1 DEF Searches
<1>3. e \in Nodes /\ e \in exists /\ e # Root /\ Parent[e] = Inner.folder
  BY <1>1, <1>2, SearchTouches
<1>4. /\ source' = source /\ nRecursive' = nRecursive /\ op' = op
      /\ unsearchable' = unsearchable
  BY DEF Touches, call
<1>5. answer \in Int /\ answer \in {0, 1} /\ answer \notin {2}
  BY SMT
<1>6. /\ Asked' = Asked \cup {e} /\ AskedWith({0, 1})' = AskedWith({0, 1}) \cup {e}
      /\ AskedWith({2})' = AskedWith({2})
  <2>1. Asked' = Asked \cup {e}
    BY <1>1, <1>3, <1>5, AskFacts
  <2>2. AskedWith({0, 1})' = AskedWith({0, 1}) \cup {e}
    BY <1>1, <1>3, <1>5, AskedWithFacts
  <2>3. AskedWith({2})' = AskedWith({2})
    <3>1. AskedWith({2})' = AskedWith({2}) \cup (IF answer \in {2} THEN {e} ELSE {})
      BY <1>1, <1>3, <1>5, AskedWithFacts
    <3> QED
      BY <1>5, <3>1
  <2> QED
    BY <2>1, <2>2, <2>3
<1>7. /\ Len(stack) \in Nat \ {0} /\ Inner = stack[Len(stack)]
      /\ Len(stack) \in 1 .. Len(stack)
  BY <1>1, StackFacts, SMT
<1>8. StackAfter(e)
  BY <1>1, TouchesStack
<1>9. Entered \subseteq Entered' /\ Entered' \subseteq Entered \cup {e}
      /\ (e \in Entered' => e \in Entered \/ Len(stack') = Len(stack) + 1)
  <2>1. \A f \in (exists \cap Folders) \ unsearchable :
          f \in Entered' <=>
            /\ dest[f] = "folder"
            /\ f = source \/ (nRecursive /\ f \in AskedWith({0, 1}) \cup {e})
    BY <1>4, <1>6 DEF Entered
  <2>2. /\ Entered \subseteq (exists \cap Folders) \ unsearchable
        /\ Entered' \subseteq (exists \cap Folders) \ unsearchable
    BY <1>4 DEF Entered
  <2> QED
    BY <2>1, <2>2 DEF Entered
<1>10. Inner.folder \in Entered
  BY <1>1, <1>7 DEF CopyCovers
<1>11. Asked' \subseteq exists' /\ \A a \in Asked' : Parent[a] \in Entered'
  BY <1>1, <1>3, <1>6, <1>9, <1>10 DEF CopyCovers
<1>12. ASSUME NEW k \in 1 .. Len(stack')
       PROVE  /\ stack'[k].folder = source
                   \/ (nRecursive /\ stack'[k].folder \in AskedWith({0, 1})')
              /\ k < Len(stack') \/ pc' = "loop" => stack'[k].folder \in Entered'
  <2>1. CASE k \in 1 .. Len(stack) /\ stack'[k].folder = stack[k].folder
    BY <1>1, <1>6, <1>7, <1>9, <2>1 DEF CopyCovers
  <2>2. CASE k = Len(stack) + 1 /\ Len(stack') = Len(stack) + 1 /\ stack'[k].folder = e
    <3>1. pc' = "begin" /\ nRecursive
      BY <1>7, <2>2, SMT
    <3>2. ~(k < Len(stack'))
      BY <1>7, <2>2, SMT
    <3> QED
      BY <1>6, <2>2, <3>1, <3>2
  <2> QED
    BY <1>1, <2>1, <2>2, FoldersAfter
<1>13. /\ Waiting \ {e} \subseteq Waiting'
       /\ Len(stack') = Len(stack) + 1 => Found(e) \subseteq Waiting'
  BY <1>1, WaitingAfter
<1>14. ASSUME NEW f \in Entered', ~CancelledIn(f)', NEW x \in Entries(f)'
       PROVE  x \in Asked' \cup Waiting'
  <2>1. x \in Entries(f)
    BY <1>14 DEF Entries
  <2>2. CASE f \in Entered
    <3>1. ~CancelledIn(f)
      BY <1>6, <1>14 DEF CancelledIn
    <3>2. x \in Asked \cup Waiting
      BY <1>1, <2>1, <2>2, <3>1 DEF CopyCovers
    <3> QED
      BY <1>6, <1>13, <3>2
  <2>3. CASE f = e /\ Len(stack') = Len(stack) + 1
    <3>1. f \notin unsearchable
      BY <1>4, <1>14 DEF Entered
    <3> QED
      BY <1>13, <2>1, <2>3, <3>1 DEF Found
  <2> QED
    BY <1>9, <2>2, <2>3
<1>15. pc' = "begin" =>
         Found(stack[Len(stack)].folder)' \subseteq stack'[Len(stack')].rest
  <2> SUFFICES ASSUME pc' = "begin"
               PROVE  Found(stack[Len(stack)].folder)'
                        \subseteq stack'[Len(stack')].rest
    OBVIOUS
  <2>1. Len(stack') = Len(stack) + 1
    OBVIOUS
  <2>2. stack'[Len(stack')].folder = e /\ stack'[Len(stack')].rest = Found(e)
    BY <1>1, <1>8, <2>1, FrameFacts DEF StackAfter
  <2> QED
    BY <1>4, <2>2 DEF Found, Entries
<1>16. pc' # "return"
  OBVIOUS
<1> QED
  BY <1>4, <1>11, <1>12, <1>14, <1>15, <1>16 DEF CopyCovers

LEMMA CopyCancelledKeeps ==
  ASSUME IndInv, CopyCancelled
  PROVE  IndInv'
<1>1. /\ Types /\ KeptInv /\ CopyCovers /\ Searches /\ pc = "loop"
      /\ op = "CopyFiles" /\ ~Walking /\ pc # "done"
  BY DEF IndInv, CopyCancelled, Copying, Walking
<1>2. PICK e \in Inner.rest : Ask(e, 2)
  BY DEF CopyCancelled
<1>3. /\ exists' = exists /\ dest' = dest /\ UNCHANGED call /\ failed' = failed
      /\ stack' = stack /\ pc' = "return" /\ ret' = Inner.nReturn
      /\ source' = source /\ nRecursive' = nRecursive /\ op' = op
      /\ unsearchable' = unsearchable
  BY DEF CopyCancelled, Return, disk, call
<1>4. Touches(e)
  <2>1. 2 \in Int
    OBVIOUS
  <2> QED
    BY <1>1, <1>2, <1>3, <2>1 DEF Touches
<1>5. ret' \in Nat
  BY <1>1, <1>3, StackFacts DEF FrameType
<1>6. Types' /\ Searches' /\ AskedInOrder'
  BY <1>1, <1>3, <1>4, <1>5, TouchesKeeps DEF Types
<1>7. PICK U \in SUBSET Nodes : Search(U)
  BY <1>1 DEF Searches
<1>8. e \in Nodes /\ e \in exists /\ e # Root /\ Parent[e] = Inner.folder
  BY <1>1, <1>4, <1>7, SearchTouches
<1>9. /\ Asked' = Asked \cup {e} /\ AskedWith({0, 1})' = AskedWith({0, 1})
      /\ AskedWith({2})' = AskedWith({2}) \cup {e}
  <2>1. 2 \in Int /\ 2 \notin {0, 1} /\ 2 \in {2}
    BY SMT
  <2>2. Asked' = Asked \cup {e}
    BY <1>1, <1>2, <1>8, <2>1, AskFacts
  <2>3. AskedWith({0, 1})' = AskedWith({0, 1})
    <3>1. AskedWith({0, 1})' =
            AskedWith({0, 1}) \cup (IF 2 \in {0, 1} THEN {e} ELSE {})
      BY <1>1, <1>2, <1>8, <2>1, AskedWithFacts
    <3> QED
      BY <2>1, <3>1
  <2>4. AskedWith({2})' = AskedWith({2}) \cup {e}
    BY <1>1, <1>2, <1>8, <2>1, AskedWithFacts
  <2> QED
    BY <2>2, <2>3, <2>4
<1>10. /\ Inner = stack[Len(stack)] /\ Len(stack) \in 1 .. Len(stack)
  BY <1>1, StackFacts, SMT
<1>11. Entered' = Entered /\ Waiting' = Waiting /\ Inner.folder \in Entered
  BY <1>1, <1>3, <1>9, <1>10 DEF Entered, Waiting, CopyCovers
<1>12. \E a \in AskedWith({2})' : a # Root /\ Parent[a] = Inner.folder
  BY <1>8, <1>9
<1>13. \A f : CancelledIn(f) => CancelledIn(f)'
  BY <1>9 DEF CancelledIn
<1>14. Inner'.folder = Inner.folder /\ \A f : Entries(f)' = Entries(f)
  BY <1>3 DEF Inner, Entries
<1>15. CopyCovers'
  <2>1. Asked' \subseteq exists' /\ \A a \in Asked' : Parent[a] \in Entered'
    BY <1>1, <1>3, <1>8, <1>9, <1>11 DEF CopyCovers
  <2>2. \A f \in Entered' : CancelledIn(f)' \/ Entries(f)' \subseteq Asked' \cup Waiting'
    BY <1>1, <1>9, <1>11, <1>13, <1>14 DEF CopyCovers
  <2> QED
    BY <1>1, <1>3, <1>9, <1>10, <1>11, <1>12, <2>1, <2>2 DEF CopyCovers, CancelledIn
<1> QED
  BY <1>1, <1>3, <1>6, <1>15, NotWalking, KeptInvStays DEF IndInv

\* What a copy does with an entry but for cancelling it.
LEMMA CopyPasses ==
  ASSUME IndInv, op = "CopyFiles", pc = "loop", NEW e \in Inner.rest,
         NEW answer \in 0 .. 1, Ask(e, answer), UNCHANGED <<exists, call>>,
         NEW f \in FrameType, f.folder = Inner.folder, f.rest = Inner.rest \ {e},
         dest' \in [Nodes -> There], failed' \in Nat,
         \A g \in Folders : dest'[g] = "folder" <=> dest[g] = "folder",
         \/ GoOn(f) /\ (nRecursive => e \notin Folders)
         \/ /\ stack' = Outer \o <<f, Frame(e)>> /\ nRecursive
            /\ e \in Folders /\ pc' = "begin" /\ UNCHANGED ret
  PROVE  IndInv'
<1>1. Types /\ KeptInv /\ ~Walking /\ ret \in Nat /\ pc # "done"
  BY DEF IndInv, Walking, Types
<1>2. answer \in Int
  BY SMT
<1>4. CASE GoOn(f) /\ (nRecursive => e \notin Folders)
  <2>1. stack' = Append(Outer, f) /\ pc' = "loop" /\ ret' = ret
    BY <1>4 DEF GoOn
  <2>2. Touches(e)
    BY <1>2, <2>1 DEF Touches
  <2>3. Len(stack') = Len(stack)
    BY <1>1, <2>1, GoOnFacts
  <2>4. CopyCovers'
    BY <1>4, <2>1, <2>2, <2>3, CopyTouches
  <2>5. Types' /\ Searches' /\ AskedInOrder'
    BY <1>1, <2>1, <2>2, TouchesKeeps
  <2> QED
    BY <1>1, <2>4, <2>5, NotWalking, KeptInvStays DEF IndInv
<1>5. CASE /\ stack' = Outer \o <<f, Frame(e)>> /\ nRecursive
           /\ e \in Folders /\ pc' = "begin" /\ UNCHANGED ret
  <2>1. Touches(e)
    BY <1>2, <1>5 DEF Touches
  <2>2. Len(stack') = Len(stack) + 1
    BY <1>1, <1>5, EnterFacts, FrameFacts
  <2>3. CopyCovers'
    BY <1>5, <2>1, <2>2, CopyTouches
  <2>4. Types' /\ Searches' /\ AskedInOrder'
    BY <1>1, <1>5, <2>1, TouchesKeeps
  <2> QED
    BY <1>1, <2>3, <2>4, NotWalking, KeptInvStays DEF IndInv
<1> QED
  BY <1>4, <1>5

LEMMA CopyFolderKeeps ==
  ASSUME IndInv, CopyFolder
  PROVE  IndInv'
<1>1. Types /\ pc = "loop" /\ op = "CopyFiles" /\ nRecursive
  BY DEF IndInv, CopyFolder, Copying
<1>2. PICK e \in Inner.rest \cap Folders, answer \in 0 .. 1 :
        Ask(e, answer) /\ stack' = Outer \o <<Passed(e), Frame(e)>>
  BY DEF CopyFolder
<1>3. /\ exists' = exists /\ dest' = dest /\ UNCHANGED call /\ failed' = failed
      /\ ret' = ret /\ pc' = "begin"
  BY DEF CopyFolder, disk
<1>4. dest' \in [Nodes -> There] /\ failed' \in Nat
  BY <1>1, <1>3 DEF Types
<1>5. Passed(e) \in FrameType /\ Passed(e).folder = Inner.folder
      /\ Passed(e).rest = Inner.rest \ {e}
  BY <1>1, PassedFacts
<1> QED
  BY <1>1, <1>2, <1>3, <1>4, <1>5, CopyPasses

LEMMA CopySkipsKeeps ==
  ASSUME IndInv, CopySkips
  PROVE  IndInv'
<1>1. Types /\ pc = "loop" /\ op = "CopyFiles"
  BY DEF IndInv, CopySkips, Copying
<1>2. PICK e \in Copied : Ask(e, 1) /\ GoOn(Passed(e))
  BY DEF CopySkips
<1>3. e \in Inner.rest /\ (nRecursive => e \notin Folders) /\ 1 \in 0 .. 1
  <2>1. Folders \cap Files = {}
    BY TreeAssumption
  <2>2. 1 \in 0 .. 1
    BY SMT
  <2> QED
    BY <2>1, <2>2 DEF Copied
<1>4. /\ exists' = exists /\ dest' = dest /\ UNCHANGED call /\ failed' = failed
  BY DEF CopySkips, disk
<1>5. dest' \in [Nodes -> There] /\ failed' \in Nat
  BY <1>1, <1>4 DEF Types
<1>6. Passed(e) \in FrameType /\ Passed(e).folder = Inner.folder
      /\ Passed(e).rest = Inner.rest \ {e}
  BY <1>1, <1>3, PassedFacts
<1> QED
  BY <1>1, <1>2, <1>3, <1>4, <1>5, <1>6, CopyPasses

LEMMA CopyFileKeeps ==
  ASSUME IndInv, CopyFile
  PROVE  IndInv'
<1>1. Types /\ pc = "loop" /\ op = "CopyFiles" /\ pc # "done"
  BY DEF IndInv, CopyFile, Copying
<1>2. PICK e \in Copied :
        /\ Ask(e, 0)
        /\ \/ /\ e \in Files
              /\ dest' = [dest EXCEPT ![e] = "copy"]
              /\ GoOn([Passed(e) EXCEPT !.nReturn = @ + 1])
              /\ UNCHANGED failed
           \/ failed' = failed + 1 /\ GoOn(Passed(e)) /\ UNCHANGED dest
  BY DEF CopyFile
<1>3. e \in Inner.rest /\ (nRecursive => e \notin Folders) /\ 0 \in 0 .. 1
      /\ (e \in Files => e \notin Folders)
  <2>1. Folders \cap Files = {}
    BY TreeAssumption
  <2>2. 0 \in 0 .. 1
    BY SMT
  <2> QED
    BY <2>1, <2>2 DEF Copied
<1>4. exists' = exists /\ UNCHANGED call
  BY DEF CopyFile
<1>5. /\ dest' \in [Nodes -> There] /\ failed' \in Nat
      /\ \A g \in Folders : dest'[g] = "folder" <=> dest[g] = "folder"
  <2>1. dest \in [Nodes -> There] /\ failed \in Nat
    BY <1>1 DEF Types
  <2>2. CASE dest' = [dest EXCEPT ![e] = "copy"] /\ e \in Files /\ UNCHANGED failed
    BY <1>3, <2>1, <2>2 DEF There, Nodes
  <2>3. CASE failed' = failed + 1 /\ UNCHANGED dest
    BY <2>1, <2>3
  <2> QED
    BY <1>2, <2>2, <2>3
<1>6. PICK f \in FrameType :
        f.folder = Inner.folder /\ f.rest = Inner.rest \ {e} /\ GoOn(f)
  <2>1. /\ Passed(e) \in FrameType /\ Passed(e).folder = Inner.folder
        /\ Passed(e).rest = Inner.rest \ {e}
        /\ LET f == [Passed(e) EXCEPT !.nReturn = @ + 1] IN
             /\ f \in FrameType /\ f.folder = Inner.folder
             /\ f.rest = Inner.rest \ {e}
    BY <1>1, <1>3, PassedFacts
  <2> QED
    BY <1>2, <2>1
<1> QED
  BY <1>1, <1>2, <1>3, <1>4, <1>5, <1>6, CopyPasses

\* The folder whose copy begins is entered, or the copy returns.
LEMMA CopyBeginsEnters ==
  ASSUME IndInv, CopyBegins
  PROVE  /\ Entered \subseteq Entered' /\ Entered' \subseteq Entered \cup {Inner.folder}
         /\ pc' \in {"loop", "return"}
         /\ pc' = "loop" => Inner.folder \in Entered'
         /\ pc' = "return" => Inner.folder \notin Entered'
<1>1. Types /\ CopyCovers /\ pc = "begin" /\ op = "CopyFiles" /\ pc # "done"
  BY DEF IndInv, CopyBegins, Types
<1>2. /\ exists' = exists /\ asked' = asked /\ source' = source
      /\ nRecursive' = nRecursive /\ unsearchable' = unsearchable
  BY DEF CopyBegins, call, hist
<1> DEFINE F == Inner.folder
<1>3. \/ /\ dest' = [dest EXCEPT ![F] = "folder"]
         /\ pc' = IF F \in exists \ unsearchable THEN "loop" ELSE "return"
      \/ dest[F] # "folder" /\ pc' = "return" /\ dest' = dest
  BY DEF CopyBegins
<1>4. /\ Inner = stack[Len(stack)] /\ Len(stack) \in 1 .. Len(stack)
      /\ Inner \in FrameType /\ Len(stack) \in Nat \ {0}
  BY <1>1, StackFacts, SMT
<1>5. F \in Folders /\ F \in Nodes /\ dest \in [Nodes -> There]
  BY <1>1, <1>4 DEF FrameType, Nodes, Types
<1>8. \A S : AskedWith(S)' = AskedWith(S)
  BY <1>2 DEF AskedWith
<1>9. F = source \/ (nRecursive /\ F \in AskedWith({0, 1}))
  BY <1>1, <1>4 DEF CopyCovers
<1> HIDE DEF F
<1>10. /\ Entered \subseteq Entered' /\ Entered' \subseteq Entered \cup {F}
       /\ pc' = "loop" => F \in Entered'
       /\ pc' = "return" => F \notin Entered'
  <2>1. \A f \in (exists \cap Folders) \ unsearchable :
          f \in Entered' <=>
            /\ dest'[f] = "folder"
            /\ f = source \/ (nRecursive /\ f \in AskedWith({0, 1}))
    BY <1>2, <1>8 DEF Entered
  <2>2. /\ Entered \subseteq (exists \cap Folders) \ unsearchable
        /\ Entered' \subseteq (exists \cap Folders) \ unsearchable
    BY <1>2 DEF Entered
  <2>3. \A f \in Folders : f # F => dest'[f] = dest[f]
    BY <1>3, <1>5 DEF Nodes
  <2>4. dest[F] = "folder" => dest'[F] = "folder"
    BY <1>3, <1>5
  <2>5. /\ pc' = "loop" => F \in exists \ unsearchable /\ dest'[F] = "folder"
        /\ pc' = "return" => F \notin exists \ unsearchable \/ dest'[F] # "folder"
    BY <1>3, <1>5
  <2>6. Entered \subseteq Entered'
    BY <2>1, <2>2, <2>3, <2>4 DEF Entered
  <2>7. Entered' \subseteq Entered \cup {F}
    BY <2>1, <2>2, <2>3 DEF Entered
  <2> QED
    BY <1>5, <1>9, <2>1, <2>2, <2>5, <2>6, <2>7
<1> QED
  BY <1>3, <1>10 DEF F

LEMMA CopyBeginsKeeps ==
  ASSUME IndInv, CopyBegins
  PROVE  IndInv'
<1>1. /\ Types /\ KeptInv /\ CopyCovers /\ Searches /\ pc = "begin"
      /\ op = "CopyFiles" /\ ~Walking /\ pc # "done"
  BY DEF IndInv, CopyBegins, Walking, Types
<1>2. /\ exists' = exists /\ UNCHANGED call /\ failed' = failed /\ stack' = stack
      /\ ret' = 0 /\ asked' = asked /\ source' = source
      /\ nRecursive' = nRecursive /\ op' = op /\ unsearchable' = unsearchable
  BY DEF CopyBegins, call, hist
<1> DEFINE F == Inner.folder
<1>3. \/ /\ dest' = [dest EXCEPT ![F] = "folder"]
         /\ pc' = IF F \in exists \ unsearchable THEN "loop" ELSE "return"
      \/ dest[F] # "folder" /\ pc' = "return" /\ dest' = dest
  BY DEF CopyBegins
<1>4. /\ Inner = stack[Len(stack)] /\ Len(stack) \in 1 .. Len(stack)
      /\ Inner \in FrameType /\ Len(stack) \in Nat \ {0}
  BY <1>1, StackFacts, SMT
<1>5. F \in Folders /\ F \in Nodes /\ dest \in [Nodes -> There]
  BY <1>1, <1>4 DEF FrameType, Nodes, Types
<1> HIDE DEF F
<1>6. dest' \in [Nodes -> There] /\ pc' \in {"loop", "return"}
  BY <1>3, <1>5 DEF There
<1>7. Types' /\ Searches' /\ AskedInOrder'
  <2>1. Shrinks
    BY <1>1, <1>2, StaysShrinks
  <2>2. ret' \in Nat /\ failed' \in Nat /\ (pc' = "done" <=> stack' = <<>>)
    BY <1>1, <1>2, <1>6 DEF Types
  <2> QED
    BY <1>1, <1>6, <2>1, <2>2, ShrinksKeeps
<1>8. /\ Asked' = Asked /\ Waiting' = Waiting
      /\ \A S : AskedWith(S)' = AskedWith(S)
      /\ \A f : Entries(f)' = Entries(f) /\ CancelledIn(f)' = CancelledIn(f)
  BY <1>2 DEF Asked, Waiting, AskedWith, Entries, CancelledIn
<1>10. /\ Entered \subseteq Entered' /\ Entered' \subseteq Entered \cup {F}
       /\ pc' = "loop" => F \in Entered'
       /\ pc' = "return" => F \notin Entered'
  BY CopyBeginsEnters DEF F
<1>11. Found(F) \subseteq Waiting
  BY <1>1, <1>4 DEF CopyCovers, Waiting, F
<1>12. ASSUME NEW f \in Entered'
       PROVE  CancelledIn(f)' \/ Entries(f)' \subseteq Asked' \cup Waiting'
  <2>1. CASE f \in Entered
    BY <1>1, <1>8, <2>1 DEF CopyCovers
  <2>2. CASE f = F
    <3>1. F \notin unsearchable
      BY <1>2, <1>12, <2>2 DEF Entered
    <3> QED
      BY <1>8, <1>11, <2>2, <3>1 DEF Found
  <2> QED
    BY <1>10, <2>1, <2>2
<1>13. ASSUME NEW k \in 1 .. Len(stack)
       PROVE  /\ stack[k].folder = source
                    \/ (nRecursive /\ stack[k].folder \in AskedWith({0, 1}))
              /\ k < Len(stack) \/ pc' = "loop" => stack[k].folder \in Entered'
  <2>1. k < Len(stack) \/ k = Len(stack)
    BY <1>4, SMT
  <2> QED
    BY <1>1, <1>4, <1>10, <2>1 DEF CopyCovers, F
<1>14. Asked' \subseteq exists' /\ \A a \in Asked' : Parent[a] \in Entered'
  BY <1>1, <1>2, <1>8, <1>10 DEF CopyCovers
<1>15. pc' = "return" => stack'[Len(stack')].folder \notin Entered'
  BY <1>2, <1>4, <1>10 DEF F
<1>16. CopyCovers'
  BY <1>2, <1>6, <1>8, <1>12, <1>13, <1>14, <1>15 DEF CopyCovers
<1> QED
  BY <1>1, <1>2, <1>7, <1>16, NotWalking, KeptInvStays DEF IndInv

LEMMA CopyDoneKeeps ==
  ASSUME IndInv, CopyDone
  PROVE  IndInv'
<1>1. /\ Types /\ KeptInv /\ CopyCovers /\ pc = "loop" /\ op = "CopyFiles"
      /\ ~Walking /\ pc # "done" /\ Inner.rest = {}
  BY DEF IndInv, CopyDone, Copying, Walking
<1>2. /\ pc' = "return" /\ ret' = Inner.nReturn + 1 /\ exists' = exists
      /\ dest' = dest /\ UNCHANGED call /\ stack' = stack /\ failed' = failed
      /\ asked' = asked /\ source' = source /\ nRecursive' = nRecursive
      /\ op' = op /\ unsearchable' = unsearchable
  BY DEF CopyDone, Return, disk, hist, call
<1>3. /\ ret' \in Nat /\ Inner = stack[Len(stack)]
      /\ Len(stack) \in 1 .. Len(stack)
  BY <1>1, <1>2, StackFacts DEF FrameType
<1>4. Shrinks
  BY <1>1, <1>2, StaysShrinks
<1>5. Types' /\ Searches' /\ AskedInOrder'
  BY <1>1, <1>2, <1>3, <1>4, ShrinksKeeps DEF Types
<1>6. /\ Asked' = Asked /\ Waiting' = Waiting /\ Entered' = Entered
      /\ \A S : AskedWith(S)' = AskedWith(S)
      /\ \A f : Entries(f)' = Entries(f) /\ CancelledIn(f)' = CancelledIn(f)
  BY <1>2 DEF Asked, Waiting, AskedWith, Entries, CancelledIn, Entered
<1>7. CopyCovers'
  BY <1>1, <1>2, <1>3, <1>6 DEF CopyCovers
<1> QED
  BY <1>1, <1>2, <1>5, <1>7, NotWalking, KeptInvStays DEF IndInv

\* The frame that returns has nothing left of a folder that counts.
LEMMA CountReturnsKeeps ==
  ASSUME IndInv, CountReturns
  PROVE  IndInv'
<1>1. /\ Types /\ KeptInv /\ CopyCovers /\ Searches /\ pc = "return" /\ ~Walking
      /\ pc # "done"
  BY DEF IndInv, CountReturns
<1>2. /\ \/ Outer = <<>> /\ stack' = <<>> /\ pc' = "done"
         \/ /\ Outer # <<>> /\ pc' = "loop"
            /\ stack' = [Outer EXCEPT ![Len(Outer)].nReturn = @ + ret]
      /\ exists' = exists /\ dest' = dest /\ UNCHANGED call /\ failed' = failed
      /\ ret' = ret /\ asked' = asked /\ source' = source
      /\ nRecursive' = nRecursive /\ op' = op /\ unsearchable' = unsearchable
  BY DEF CountReturns, disk, hist, call
<1>3. /\ Shrinks /\ Len(stack') = Len(stack) - 1 /\ (stack' = <<>> <=> Outer = <<>>)
      /\ Len(stack) \in Nat \ {0}
  BY <1>1, <1>2, PopShrinks
<1>4. Types' /\ Searches' /\ AskedInOrder'
  BY <1>1, <1>2, <1>3, ShrinksKeeps DEF Types
<1>5. PICK U \in SUBSET Nodes : Search(U)
  BY <1>1 DEF Searches
<1>6. ASSUME op = "CopyFiles"
      PROVE  CopyCovers'
  <2>1. /\ Asked' = Asked /\ Entered' = Entered
        /\ \A S : AskedWith(S)' = AskedWith(S)
        /\ \A f : Entries(f)' = Entries(f) /\ CancelledIn(f)' = CancelledIn(f)
    BY <1>2 DEF Asked, AskedWith, Entries, CancelledIn, Entered
  <2>2. ASSUME NEW k \in 1 .. Len(stack')
        PROVE  /\ stack'[k].folder = source
                    \/ (nRecursive /\ stack'[k].folder \in AskedWith({0, 1}))
               /\ stack'[k].folder \in Entered
    <3>1. k \in 1 .. Len(stack) /\ k < Len(stack)
      BY <1>3, SMT
    <3>2. stack'[k].folder = stack[k].folder
      BY <1>3 DEF Shrinks
    <3> QED
      BY <1>1, <1>6, <3>1, <3>2 DEF CopyCovers
  <2>3. ASSUME NEW f \in Entered, ~CancelledIn(f), NEW x \in Entries(f)
        PROVE  x \in Asked \cup Waiting'
    <3>1. x \in Asked \cup Waiting
      BY <1>1, <1>6, <2>3 DEF CopyCovers
    <3>2. CASE x \in Waiting
      <4>1. PICK k \in 1 .. Len(stack) : x \in stack[k].rest
        BY <3>2 DEF Waiting
      <4>2. stack[k].folder = f
        BY <1>5, <2>3, <4>1 DEF Search, Entries
      <4>3. k # Len(stack)
        BY <1>1, <1>6, <2>3, <4>1, <4>2 DEF CopyCovers
      <4>4. k \in 1 .. Len(stack')
        BY <1>3, <4>3, SMT
      <4>5. stack'[k].rest = stack[k].rest
        BY <1>3, <4>4 DEF Shrinks
      <4> QED
        BY <4>1, <4>4, <4>5 DEF Waiting
    <3> QED
      BY <3>1, <3>2
  <2>4. pc' # "begin" /\ pc' # "return"
    BY <1>2
  <2> QED
    BY <1>1, <1>2, <1>6, <2>1, <2>2, <2>3, <2>4 DEF CopyCovers
<1>7. CopyCovers'
  BY <1>2, <1>6, NotCopying
<1> QED
  BY <1>1, <1>2, <1>4, <1>7, NotWalking, KeptInvStays DEF IndInv

-----------------------------------------------------------------------------
\* A new call, and the initial state.

LEMMA BeginKeeps ==
  ASSUME IndInv, NEW folder \in Folders,
         NEW name \in {"RunForeach", "FileTraversal", "DestroyFolder",
                       "GetNumberOfFilesInFolder", "CopyFiles"},
         Begin(name, folder), nRecursive' \in BOOLEAN, dest' \in [Nodes -> There],
         \/ name # "CopyFiles" /\ pc' = "loop" /\ folder = Root
         \/ name = "CopyFiles" /\ pc' = "begin"
  PROVE  IndInv'
<1>1. Types /\ KeptInv
  BY DEF IndInv
<1>2. /\ op' = name /\ source' = folder /\ ret' = 0 /\ failed' = 0
      /\ exists' = exists /\ unsearchable' \subseteq Folders
  BY WalkAssumption DEF Begin
<1>3. /\ Search({folder})' /\ AskedInOrder' /\ stack' \in Seq(FrameType)
      /\ Len(stack') = 1 /\ stack' # <<>>
      /\ Asked' = {} /\ Len(asked') = 0 /\ asked' \in Seq(AnswerType)
  BY <1>1, SearchBegins
<1>4. stack'[1].folder = folder /\ stack'[1].rest = Found(folder)'
  BY <1>1, SearchBegins
<1>5. 1 .. Len(stack') = {1} /\ 1 .. Len(asked') = {}
  BY <1>3, SMT
<1>6. Waiting' = Found(folder)'
  BY <1>4, <1>5 DEF Waiting
<1>7. \A S : AskedWith(S)' = {}
  <2>1. DOMAIN asked' = {}
    BY <1>3, <1>5, LenProperties
  <2> QED
    BY <2>1 DEF AskedWith
<1>8. Searches'
  BY <1>3 DEF Searches, Nodes
<1>9. Types'
  BY <1>1, <1>2, <1>3 DEF Types
<1>10. WalkAnswers'
  <2>1. 1 .. Len(asked') - 1 = {}
    BY <1>3, SMT
  <2>2. NoneStops(Len(asked))' /\ NoneStops(Len(asked) - 1)'
    BY <1>5, <2>1 DEF NoneStops
  <2> QED
    BY <1>2, <2>2 DEF WalkAnswers, Walking
<1>11. WalkCovers'
  <2> SUFFICES ASSUME Walking'
               PROVE  WalkCovers'
    BY DEF WalkCovers
  <2>1. folder = Root /\ pc' = "loop" /\ Opened' = {Root}
    BY <1>2, <1>3 DEF Walking, Opened
  <2>2. \A x \in exists' \ {Root} :
          Parent[x] \in Searched' => x \in Asked' \cup Waiting'
    BY <1>2, <1>6, <2>1 DEF Searched, Found, Entries
  <2> QED
    BY <1>3, <1>4, <1>5, <2>1, <2>2 DEF WalkCovers
<1>12. KeptInv'
  BY <1>1, <1>2, <1>5 DEF KeptInv
<1>13. CopyCovers'
  <2> SUFFICES ASSUME op' = "CopyFiles"
               PROVE  CopyCovers'
    BY DEF CopyCovers
  <2>1. pc' = "begin" /\ ~(1 < Len(stack'))
    BY <1>2, <1>3, SMT
  <2>2. \A f \in Entered' : f = folder
    BY <1>2, <1>7 DEF Entered
  <2>3. \A f \in Entered' : Entries(f)' = Found(f)'
    BY DEF Entered, Found
  <2> QED
    BY <1>2, <1>3, <1>4, <1>5, <1>6, <2>1, <2>2, <2>3 DEF CopyCovers
<1> QED
  BY <1>3, <1>8, <1>9, <1>10, <1>11, <1>12, <1>13 DEF IndInv

LEMMA CallsKeep ==
  ASSUME IndInv, Calls
  PROVE  IndInv'
<1>1. Types
  BY DEF IndInv
<1>2. Root \in Folders /\ NothingThere \in [Nodes -> There]
  BY TreeAssumption DEF NothingThere, There
<1>3. ASSUME NEW name \in {"RunForeach", "FileTraversal", "DestroyFolder",
                           "GetNumberOfFilesInFolder"},
             CallWalk(name), nRecursive' \in BOOLEAN
      PROVE  IndInv'
  <2>1. /\ Begin(name, Root) /\ pc' = "loop" /\ dest' \in [Nodes -> There]
    BY <1>2, <1>3 DEF CallWalk
  <2> QED
    BY <1>2, <1>3, <2>1, BeginKeeps
<1>4. CASE CallForeach
  BY <1>3, <1>4 DEF CallForeach
<1>5. CASE FileTraversal
  BY <1>3, <1>5 DEF FileTraversal
<1>6. CASE CallDestroy
  BY <1>1, <1>3, <1>6 DEF CallDestroy, Types
<1>7. CASE CallCount
  BY <1>3, <1>7 DEF CallCount
<1>8. CASE CallCopy
  <2>1. PICK folder \in Sources : Begin("CopyFiles", folder)
    BY <1>8 DEF CallCopy
  <2>2. /\ folder \in Folders /\ dest' \in [Nodes -> There] /\ nRecursive' \in BOOLEAN
        /\ pc' = "begin"
    <3>1. Sources \subseteq Folders /\ Destinations \subseteq [Nodes -> There \ {"copy"}]
      BY CopyAssumption
    <3>2. [Nodes -> There \ {"copy"}] \subseteq [Nodes -> There]
      OBVIOUS
    <3> QED
      BY <1>8, <3>1, <3>2 DEF CallCopy
  <2> QED
    BY <2>1, <2>2, BeginKeeps
<1> QED
  BY <1>4, <1>5, <1>6, <1>7, <1>8 DEF Calls

LEMMA InitIndInv ==
  ASSUME Init
  PROVE  IndInv
<1>1. /\ exists = Nodes /\ op = "none" /\ nRecursive = FALSE /\ source = Root
      /\ dest = NothingThere /\ stack = <<>> /\ pc = "done" /\ ret = 0
      /\ failed = 0 /\ asked = <<>> /\ unsearchable = {}
  BY DEF Init
<1>2. Root \in Folders /\ Parent \in [Nodes \ {Root} -> Folders]
  BY TreeAssumption
<1>3. Types
  <2>1. stack \in Seq(FrameType) /\ asked \in Seq(AnswerType)
    BY <1>1, EmptySeq
  <2>2. dest \in [Nodes -> There]
    BY <1>1 DEF NothingThere, There
  <2> QED
    BY <1>1, <1>2, <2>1, <2>2 DEF Types
<1>4. 1 .. Len(stack) = {} /\ 1 .. Len(asked) = {}
  BY <1>1
<1>5. Search({Root})
  <2>1. Asked = {}
    BY <1>3, <1>4, AnswerFacts
  <2> QED
    BY <1>1, <1>2, <1>4, <2>1 DEF Search, Nodes, Walking
<1>6. Searches
  BY <1>2, <1>5 DEF Searches, Nodes
<1>7. AskedInOrder /\ WalkAnswers /\ WalkCovers /\ CopyCovers
  BY <1>1, <1>4 DEF AskedInOrder, WalkAnswers, WalkCovers, CopyCovers, Walking
<1>8. KeptInv
  BY <1>1, <1>2 DEF KeptInv, Nodes
<1> QED
  BY <1>3, <1>6, <1>7, <1>8 DEF IndInv

LEMMA StutterKeeps ==
  ASSUME IndInv, UNCHANGED vars
  PROVE  IndInv'
<1>1. /\ exists' = exists /\ dest' = dest /\ op' = op /\ nRecursive' = nRecursive
      /\ source' = source /\ stack' = stack /\ pc' = pc /\ ret' = ret
      /\ failed' = failed /\ asked' = asked /\ unsearchable' = unsearchable
  BY DEF vars, disk, call, hist
<1>2. /\ Asked' = Asked /\ Waiting' = Waiting /\ Opened' = Opened
      /\ Searched' = Searched /\ Entered' = Entered /\ (Walking' <=> Walking)
      /\ \A S : AskedWith(S)' = AskedWith(S)
      /\ \A f : /\ Entries(f)' = Entries(f) /\ Found(f)' = Found(f)
               /\ CancelledIn(f)' = CancelledIn(f)
      /\ \A m : NoneStops(m)' = NoneStops(m) /\ Stops(m)' = Stops(m)
  BY <1>1 DEF Asked, Waiting, Opened, Searched, Entered, AskedWith, Found, Entries,
     CancelledIn, Walking, NoneStops, Stops
<1>3. Types' /\ AskedInOrder' /\ KeptInv'
  BY <1>1 DEF IndInv, Types, AskedInOrder, KeptInv
<1>4. Searches'
  BY <1>1, <1>2 DEF IndInv, Searches, Search
<1>5. WalkAnswers' /\ WalkCovers'
  BY <1>1, <1>2 DEF IndInv, WalkAnswers, WalkCovers
<1>6. CopyCovers'
  BY <1>1, <1>2 DEF IndInv, CopyCovers
<1> QED
  BY <1>3, <1>4, <1>5, <1>6 DEF IndInv

\* The inductive invariant holds at every step of every run.
THEOREM Invariance == Spec => []IndInv
<1>1. Init => IndInv
  BY InitIndInv
<1>2. IndInv /\ [Next]_vars => IndInv'
  <2> SUFFICES ASSUME IndInv, [Next]_vars
               PROVE  IndInv'
    OBVIOUS
  <2>1. CASE Calls
    BY <2>1, CallsKeep
  <2>2. CASE Visit \/ FMTravFails \/ Walked \/ WalkReturns
    BY <2>2, VisitKeeps, FMTravFailsKeeps, WalkedKeeps, WalkReturnsKeeps
  <2>3. CASE NotEmpty \/ DestroySubfolder \/ DestroyFile \/ RemoveFolder
    BY <2>3, NotEmptyKeeps, DestroySubfolderKeeps, DestroyFileKeeps, RemoveFolderKeeps
  <2>4. CASE CountEntry \/ Counted \/ CountReturns
    BY <2>4, CountEntryKeeps, CountedKeeps, CountReturnsKeeps
  <2>5. CASE CopyBegins \/ CopyCancelled \/ CopyFolder \/ CopySkips \/ CopyFile \/ CopyDone
    BY <2>5, CopyBeginsKeeps, CopyCancelledKeeps, CopyFolderKeeps, CopySkipsKeeps,
       CopyFileKeeps, CopyDoneKeeps
  <2>6. CASE UNCHANGED vars
    BY <2>6, StutterKeeps
  <2> QED
    BY <2>1, <2>2, <2>3, <2>4, <2>5, <2>6 DEF Next, Steps, Gone
<1> QED
  BY <1>1, <1>2, PTL DEF Spec

\* Whatever the function answers, the first number above 0 is the last thing it
\* is asked, however deep in the folders, and RunForeach returns 1 then and 0
\* otherwise; a FileTraversal is ended by a Lua error only (FileManager.cpp,
\* RunForeach, and luafilemanager/main.cpp, FMTrav).
THEOREM StopsAtOnceHolds == Spec => []StopsAtOnce
<1>1. IndInv => StopsAtOnce
  <2> SUFFICES ASSUME IndInv, Walking
               PROVE  StopsAtOnce
    BY DEF StopsAtOnce
  <2>1. Types /\ WalkAnswers
    BY DEF IndInv
  <2>2. /\ DOMAIN asked = 1 .. Len(asked) /\ Len(asked) \in Nat
    BY <2>1, AnswerFacts
  <2>3. \A k \in 1 .. Len(asked) - 1 : ~Stops(k)
    BY <2>1 DEF WalkAnswers, NoneStops
  <2>4. Len(asked) > 0 => Len(asked) \in DOMAIN asked
    BY <2>2, SMT
  <2>5. ASSUME pc = "done"
        PROVE  ret = 1 <=> op = "RunForeach" /\ \E k \in DOMAIN asked : Stops(k)
    <3>1. CASE NoneStops(Len(asked)) /\ ret = 0
      BY <2>2, <3>1 DEF NoneStops
    <3>2. CASE Len(asked) > 0 /\ Stops(Len(asked)) /\ op = "RunForeach" /\ ret = 1
      BY <2>4, <3>2
    <3>3. CASE op = "FileTraversal" /\ ret = 0
      BY <3>3
    <3> QED
      BY <2>1, <2>5, <3>1, <3>2, <3>3 DEF WalkAnswers
  <2> QED
    BY <2>3, <2>5 DEF StopsAtOnce
<1> QED
  BY <1>1, Invariance, PTL

\* A walk that was not stopped asked about all its searches reach, once, and a
\* folder before what is in it, whichever searches fail (FileManager.cpp,
\* RunForeach).
THEOREM VisitsAllHolds == Spec => []VisitsAll
<1>1. IndInv => VisitsAll
  <2> SUFFICES ASSUME IndInv, Walking
               PROVE  VisitsAll
    BY DEF VisitsAll
  <2>1. /\ Types /\ WalkAnswers /\ WalkCovers /\ AskedInOrder /\ Searches
    BY DEF IndInv
  <2>2. DOMAIN asked = 1 .. Len(asked)
    BY <2>1, AnswerFacts
  <2>3. ASSUME pc = "done", \A k \in DOMAIN asked : ~Stops(k)
        PROVE  Reached(Asked)
    <3>1. Waiting = {}
      <4>1. 1 .. Len(stack) = {}
        BY <2>1, <2>3 DEF Types
      <4> QED
        BY <4>1 DEF Waiting
    <3>2. \A x \in exists \ {Root} : Parent[x] \in Searched => x \in Asked
      BY <2>1, <2>2, <2>3, <3>1 DEF WalkCovers, NoneStops
    <3>3. Asked \subseteq exists \ {Root} /\ \A a \in Asked : Parent[a] \in Searched
      BY <2>1 DEF WalkCovers, WalkAnswers, Searches, Search
    <3>4. \A e \in exists \ {Root} : Parent[e] \in Folders
      BY <2>1, TreeAssumption DEF Types
    <3>5. op # "DestroyFolder"
      BY DEF Walking
    <3>6. \A e \in exists \ {Root} : Parent[e] \in Searched <=>
            /\ Parent[e] \notin unsearchable
            /\ Parent[e] = Root \/ (nRecursive /\ Parent[e] \in Asked)
      BY <3>4 DEF Searched, Opened
    <3> QED
      BY <3>2, <3>3, <3>5, <3>6 DEF Reached
  <2> QED
    BY <2>1, <2>2, <2>3 DEF VisitsAll, AskedInOrder
<1> QED
  BY <1>1, Invariance, PTL

\* A file the function kept is still there, and so are the folders above it
\* (FileManager.cpp, DestroyFolder).
THEOREM KeptFilesStayHolds == Spec => []KeptFilesStay
<1>1. IndInv => KeptFilesStay
  <2> SUFFICES ASSUME IndInv
               PROVE  KeptFilesStay
    OBVIOUS
  <2>1. Types /\ KeptInv
    BY DEF IndInv
  <2>2. DOMAIN asked = 1 .. Len(asked)
    BY <2>1, AnswerFacts
  <2>3. \A a : a \in {1, 2} => a # 0
    BY SMT
  <2> QED
    BY <2>1, <2>2, <2>3 DEF KeptFilesStay, KeptInv, AskedWith
<1> QED
  BY <1>1, Invariance, PTL

\* A copy asks about no entry twice, and about none in a folder it did not make
\* or could not search; when it is not cancelled it asks about every entry of
\* the folders it went into (FileManager.cpp, CopyFiles).
THEOREM CopyAsksHolds == Spec => []CopyAsks
<1>1. IndInv => CopyAsks
  <2> SUFFICES ASSUME IndInv, op = "CopyFiles"
               PROVE  CopyAsks
    BY DEF CopyAsks
  <2>1. Types /\ CopyCovers /\ AskedInOrder
    BY DEF IndInv
  <2>2. DOMAIN asked = 1 .. Len(asked)
    BY <2>1, AnswerFacts
  <2>3. pc = "done" => Waiting = {}
    <3> SUFFICES ASSUME pc = "done"
                 PROVE  Waiting = {}
      OBVIOUS
    <3>1. 1 .. Len(stack) = {}
      BY <2>1 DEF Types
    <3> QED
      BY <3>1 DEF Waiting
  <2>4. AskedWith({2}) = {} => \A f : ~CancelledIn(f)
    BY DEF CancelledIn
  <2> QED
    BY <2>1, <2>2, <2>3, <2>4 DEF CopyAsks, CopyCovers, AskedInOrder
<1> QED
  BY <1>1, Invariance, PTL
=============================================================================
