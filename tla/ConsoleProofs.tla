------------------------------ MODULE ConsoleProofs ------------------------------
(***************************************************************************)
(* For any number of lines: the print queue never follows a pointer to a   *)
(* deleted node, loses nothing, and implements PrintLog.  Nodes carry the  *)
(* number of their push, so the two lists are intervals of numbers: what   *)
(* was handed, what was detached and what is on the stack.  The invariant  *)
(* says so of every Next and Prev.                                         *)
(*                                                                         *)
(* For any limits and lines: the output box shows the end of what was      *)
(* written.  A character is never the terminator, so the string in the     *)
(* buffer ends at one place, which the lemma StringIs finds.               *)
(*                                                                         *)
(* Queue and box together do what each of them does alone.                 *)
(***************************************************************************)
EXTENDS MCConsole, Integers, SequenceTheorems, TLAPS

-----------------------------------------------------------------------------
(* The print queue.                                                        *)

\* The newest node allocated.
Top == IF pushPc = "publish" THEN printed + 1 ELSE printed

\* Where each thread may be, and what the bound still admits.
ControlInv ==
  /\ lock = "main" => mainPc \in {"echo", "nestedEcho"}
  /\ Promised <= MaxLines
  /\ handed <= detached /\ detached <= printed
  /\ mainPc = "detach" \/ pushPc = "link" => detached < printed
  /\ mainPc = "walk" => handed < detached

\* Deleted, detached and queued nodes are consecutive intervals.
PointerInv ==
  /\ allocated = handed + 1 .. Top
  /\ root = IF detached < printed THEN printed ELSE NULL
  /\ mainPc \in {"pump", "handler", "echo", "check", "detach", "ended"} =>
       handed = detached /\ node = NULL
  /\ mainPc = "walk" => node \in handed + 1 .. detached
  /\ mainPc \in {"show", "nested", "nestedHandler", "nestedEcho"} =>
       node = IF handed < detached THEN handed + 1 ELSE NULL

\* Next leads to the older node, to NULL from the oldest one of each list.
NextInv ==
  /\ \A n \in detached + 1 .. Top :
       next[n] = IF n = detached + 1 THEN NULL ELSE n - 1
  /\ mainPc = "walk" =>
       \A n \in handed + 1 .. detached :
         next[n] = IF n = handed + 1 THEN NULL ELSE n - 1

\* Prev leads to the newer node, to NULL from the newest one of each list; the
\* link back to a node just published is still missing.
PrevInv ==
  /\ \A n \in handed + 1 .. detached :
       prev[n] = IF n = detached THEN NULL ELSE n + 1
  /\ \A n \in detached + 1 .. Top :
       prev[n] = IF n >= printed \/ (pushPc = "link" /\ n = printed - 1)
                   THEN NULL ELSE n + 1

IndInv == TypeOK /\ ControlInv /\ PointerInv /\ NextInv /\ PrevInv

-----------------------------------------------------------------------------
\* The empty queue satisfies the invariant.
LEMMA InitIndInv == Init => IndInv
<1> SUFFICES ASSUME Init PROVE IndInv
  OBVIOUS
<1>1. ok \in BOOLEAN /\ visible \in BOOLEAN
  BY Zenon DEF Init
<1> QED
  BY <1>1, QueueAssumption, SMT
     DEF QueueAssumption, Init, IndInv, TypeOK, ControlInv, PointerInv,
         NextInv, PrevInv, Top, Promised, Pushing, Lines, NULL

\* The first half of Push: a node is made on top of the stack, and nothing is
\* yet seen to have changed.
LEMMA BeginPushIndInv ==
  ASSUME IndInv, NEW thread \in {"engine", "main"}, BeginPush(thread),
         thread = "main" => mainPc \in {"echo", "nestedEcho"},
         thread = "engine" => Promised < MaxLines
  PROVE  IndInv'
<1>1. /\ lock = "none" /\ pushPc = "idle" /\ pushPc' = "publish"
      /\ lock' = thread /\ lock' # "none"
      /\ UNCHANGED <<root, printed, mainPc, node, LetsPeek, ok, handed,
                     detached, visible, screen>>
  BY SMT DEF BeginPush, IndInv, TypeOK, Pushing, drain, window
<1>2. printed \in Nat /\ printed + 1 \in Lines /\ MaxLines \in Nat
  BY <1>1, QueueAssumption, SMT
     DEF QueueAssumption, IndInv, TypeOK, ControlInv, Promised, Lines
<1>3. Top = printed /\ Top' = printed + 1
  BY <1>1, SMT DEF Top
<1>4. /\ allocated' = allocated \cup {printed + 1}
      /\ next' = [next EXCEPT ![printed + 1] = root]
      /\ prev' = [prev EXCEPT ![printed + 1] = NULL]
  BY DEF BeginPush, NewNode
<1>5. TypeOK'
  <2>1. /\ next' \in [Lines -> 0 .. MaxLines]
        /\ prev' \in [Lines -> 0 .. MaxLines]
    BY <1>2, <1>4, SMT DEF IndInv, TypeOK, NULL
  <2>2. allocated' \subseteq Lines
    BY <1>2, <1>4, SMT DEF IndInv, TypeOK
  <2>3. lock' \in {"none", "engine", "main"} /\ (pushPc' = "idle" <=> ~Pushing')
    BY <1>1, SMT DEF Pushing
  <2> QED
    BY <1>1, <2>1, <2>2, <2>3 DEF IndInv, TypeOK
<1>6. ControlInv'
  BY <1>1, <1>2, SMT DEF IndInv, TypeOK, ControlInv, Promised
<1>7. PointerInv'
  <2>1. allocated' = handed + 1 .. printed + 1
    BY <1>2, <1>3, <1>4, SMT DEF IndInv, TypeOK, ControlInv, PointerInv
  <2> QED
    BY <1>1, <1>3, <2>1 DEF IndInv, PointerInv
<1>8. NextInv'
  <2>1. next'[printed + 1] = root
        /\ \A n \in Lines : n # printed + 1 => next'[n] = next[n]
    BY <1>2, <1>4, SMT DEF IndInv, TypeOK
  <2>2. \A n \in handed + 1 .. printed + 1 : n \in Lines
    BY <1>2, SMT DEF IndInv, TypeOK, Lines
  <2>3. /\ handed \in Nat /\ detached \in Nat
        /\ handed <= detached /\ detached <= printed
        /\ root = IF detached < printed THEN printed ELSE NULL
    BY QueueAssumption, SMT
       DEF QueueAssumption, IndInv, TypeOK, ControlInv, PointerInv
  <2> QED
    BY <1>1, <1>2, <1>3, <2>1, <2>2, <2>3, SMT DEF IndInv, NextInv, NULL
<1>9. PrevInv'
  <2>1. prev'[printed + 1] = NULL
        /\ \A n \in Lines : n # printed + 1 => prev'[n] = prev[n]
    BY <1>2, <1>4, SMT DEF IndInv, TypeOK
  <2>2. \A n \in handed + 1 .. printed + 1 : n \in Lines
    BY <1>2, SMT DEF IndInv, TypeOK, Lines
  <2>3. /\ handed \in Nat /\ detached \in Nat
        /\ handed <= detached /\ detached <= printed
    BY QueueAssumption, SMT
       DEF QueueAssumption, IndInv, TypeOK, ControlInv
  <2> QED
    BY <1>1, <1>2, <1>3, <2>1, <2>2, <2>3, SMT DEF IndInv, PrevInv, NULL
<1> QED
  BY <1>5, <1>6, <1>7, <1>8, <1>9 DEF IndInv

\* The second half: the node becomes the root, and the root of before is
\* linked back to it.
LEMMA PublishIndInv ==
  ASSUME IndInv, PublishRoot \/ LinkBack
  PROVE  IndInv'
<1>1. CASE PublishRoot
  <2>1. /\ pushPc = "publish" /\ pushPc' = "link" /\ root' = printed + 1
        /\ printed' = printed + 1
        /\ UNCHANGED <<next, prev, allocated, lock, mainPc, drain, window>>
    BY <1>1 DEF PublishRoot, NewNode
  <2>2. /\ printed \in Nat /\ detached \in Nat /\ detached <= printed
        /\ printed + 1 \in Lines /\ MaxLines \in Nat
    BY <2>1, QueueAssumption, SMT
       DEF QueueAssumption, IndInv, TypeOK, ControlInv, Promised, Lines
  <2>3. Top = printed + 1 /\ Top' = printed + 1
    BY <2>1 DEF Top
  <2>4. TypeOK'
    BY <2>1, <2>2, SMT DEF IndInv, TypeOK, Pushing, Lines, drain, window
  <2>5. ControlInv'
    BY <2>1, <2>2, SMT DEF IndInv, TypeOK, ControlInv, Promised, drain, window
  <2>6. PointerInv'
    <3>1. root' = IF detached' < printed' THEN printed' ELSE NULL
      <4>1. detached' = detached
        BY <2>1 DEF drain
      <4>2. detached < printed + 1
        BY <2>2, SMT
      <4> QED
        BY <2>1, <4>1, <4>2
    <3>2. allocated' = handed' + 1 .. Top'
      BY <2>1, <2>3 DEF IndInv, PointerInv, drain
    <3> QED
      BY <2>1, <3>1, <3>2 DEF IndInv, PointerInv, drain
  <2>7. NextInv'
    BY <2>1, <2>3 DEF IndInv, NextInv, drain, window
  <2>8. PrevInv'
    BY <2>1, <2>2, <2>3, SMT
       DEF IndInv, TypeOK, PrevInv, drain, window
  <2> QED
    BY <2>4, <2>5, <2>6, <2>7, <2>8 DEF IndInv
<1>2. CASE LinkBack
  <2>1. /\ pushPc = "link" /\ pushPc' = "idle" /\ lock' = "none"
        /\ lock # "none"
        /\ UNCHANGED <<next, allocated, root, printed, node, LetsPeek, ok,
                       handed, detached, visible, screen>>
    BY <1>2, SMT DEF LinkBack, IndInv, TypeOK, Pushing, drain, window
  <2>2. /\ lock = "main" => mainPc \in {"echo", "nestedEcho"}
        /\ lock = "main" /\ mainPc = "echo" => mainPc' = "check"
        /\ lock = "main" /\ mainPc = "nestedEcho" => mainPc' = "show"
        /\ lock # "main" => mainPc' = mainPc
    BY <1>2, SMT DEF LinkBack, AfterHandler, IndInv, ControlInv
  <2>3. Top = printed /\ Top' = printed /\ MaxLines \in Nat
    BY <2>1, QueueAssumption, SMT DEF Top, QueueAssumption
  <2>0. /\ printed \in Lines
        /\ next[printed] = IF printed = detached + 1 THEN NULL ELSE printed - 1
        /\ detached \in Nat /\ detached < printed
    <3>1. /\ detached \in Nat /\ printed \in Nat /\ detached < printed
          /\ printed <= MaxLines
      BY <2>1, <2>3, SMT DEF IndInv, TypeOK, ControlInv
    <3>2. \A n \in detached + 1 .. printed :
            next[n] = IF n = detached + 1 THEN NULL ELSE n - 1
      BY <2>3 DEF IndInv, NextInv
    <3> QED
      BY <3>1, <3>2, SMT DEF Lines
  <2>4. /\ prev' \in [Lines -> 0 .. MaxLines]
        /\ \A n \in Lines :
             prev'[n] = IF n = next[printed] THEN printed ELSE prev[n]
    <3>1. prev \in [Lines -> 0 .. MaxLines]
      BY DEF IndInv, TypeOK
    <3>2. prev' = IF next[printed] = NULL THEN prev
                  ELSE [prev EXCEPT ![next[printed]] = printed]
      BY <1>2 DEF LinkBack
    <3> QED
      BY <2>0, <2>3, <3>1, <3>2, SMT DEF Lines, NULL
  <2>5. TypeOK'
    BY <2>1, <2>2, <2>4, SMT DEF IndInv, TypeOK, Pushing
  <2>6. ControlInv'
    BY <2>1, <2>2, <2>3, SMT DEF IndInv, TypeOK, ControlInv, Promised
  <2>7. PointerInv'
    BY <2>1, <2>2, <2>3, SMT DEF IndInv, PointerInv
  <2>8. NextInv'
    BY <2>1, <2>2, <2>3, SMT DEF IndInv, NextInv
  <2>9. PrevInv'
    <3>1. /\ handed \in Nat /\ printed \in Nat /\ handed <= detached
          /\ \A n \in handed + 1 .. printed : n \in Lines
      BY <2>0, <2>3, SMT DEF IndInv, TypeOK, ControlInv, Lines
    <3>2. \A n \in handed + 1 .. detached :
            prev'[n] = IF n = detached THEN NULL ELSE n + 1
      BY <2>0, <2>4, <3>1, SMT DEF IndInv, PrevInv, NULL
    <3>3. \A n \in detached + 1 .. printed :
            prev'[n] = IF n >= printed THEN NULL ELSE n + 1
      BY <2>0, <2>1, <2>3, <2>4, <3>1, SMT DEF IndInv, PrevInv, NULL
    <3> QED
      BY <2>1, <2>3, <3>2, <3>3 DEF PrevInv
  <2> QED
    BY <2>5, <2>6, <2>7, <2>8, <2>9 DEF IndInv
<1> QED
  BY <1>1, <1>2

\* MessageLoop and ApplyMsgToConsole.
LEMMA DrainIndInv ==
  ASSUME IndInv, Dispatch \/ CheckEmpty \/ Detach \/ Walk \/ ShowLine
                   \/ DispatchNested \/ Drained \/ Handler
  PROVE  IndInv'
<1> USE QueueAssumption
        DEF QueueAssumption, Top, Pushing, Lines, NULL, stack, drain, window
<1>1. CASE Dispatch \/ DispatchNested
  <2>1. ok' \in BOOLEAN
    BY <1>1, Zenon DEF Dispatch, DispatchNested, IndInv, TypeOK
  <2>2. /\ UNCHANGED <<stack, node, LetsPeek, handed, detached, window>>
        /\ ok' => ok
        /\ \/ mainPc = "pump" /\ mainPc' \in {"handler", "ended"}
           \/ mainPc = "nested" /\ mainPc' \in {"nestedHandler", "show"}
    BY <1>1, SMT DEF Dispatch, DispatchNested
  <2>3. TypeOK'
    BY <2>1, <2>2, SMTT(30) DEF IndInv, TypeOK
  <2>4. ControlInv'
    BY <2>2, SMT DEF IndInv, TypeOK, ControlInv, Promised
  <2>5. PointerInv' /\ NextInv' /\ PrevInv'
    BY <2>2, SMT DEF IndInv, PointerInv, NextInv, PrevInv
  <2> QED
    BY <2>3, <2>4, <2>5 DEF IndInv
<1>2. CASE CheckEmpty
  BY <1>2, SMT DEF CheckEmpty, IndInv, TypeOK, ControlInv, PointerInv, NextInv,
                   PrevInv, Promised
<1>3. CASE Detach
  BY <1>3, SMT DEF Detach, IndInv, TypeOK, ControlInv, PointerInv, NextInv,
                   PrevInv, Promised
<1>4. CASE Walk
  <2>1. /\ mainPc = "walk" /\ UNCHANGED <<stack, ok, handed, detached, window>>
        /\ \/ next[node] = NULL /\ mainPc' = "show" /\ LetsPeek' = 0
              /\ node' = node
           \/ next[node] # NULL /\ mainPc' = mainPc /\ LetsPeek' = LetsPeek
              /\ node' = next[node]
    BY <1>4, SMT DEF Walk
  <2>2. /\ node \in handed + 1 .. detached /\ node \in Lines
        /\ next[node] = IF node = handed + 1 THEN NULL ELSE node - 1
        /\ handed \in Nat /\ detached \in Nat
    BY <2>1, SMT DEF IndInv, TypeOK, PointerInv, NextInv
  <2>3. TypeOK'
    <3>1. node' \in 0 .. MaxLines
      BY <2>1, <2>2, SMT DEF IndInv, TypeOK
    <3>2. LetsPeek' \in Nat /\ (ok => LetsPeek' <= PeekAfter)
      BY <2>1, SMT DEF IndInv, TypeOK
    <3> QED
      BY <2>1, <3>1, <3>2, SMT DEF IndInv, TypeOK
  <2>4. ControlInv'
    BY <2>1, SMT DEF IndInv, ControlInv, Promised
  <2>5. PointerInv'
    BY <2>1, <2>2, SMT DEF IndInv, PointerInv
  <2>6. NextInv' /\ PrevInv'
    BY <2>1, SMT DEF IndInv, NextInv, PrevInv
  <2> QED
    BY <2>3, <2>4, <2>5, <2>6 DEF IndInv
<1>5. CASE ShowLine
  <2>1. /\ mainPc = "show" /\ mainPc' \in {"show", "nested"} /\ node # NULL
        /\ UNCHANGED <<next, prev, root, lock, pushPc, printed, ok, detached,
                       visible>>
        /\ screen' = screen \/ screen' = Append(screen, node)
        /\ node' = prev[node] /\ allocated' = allocated \ {node}
        /\ handed' = handed + 1
    BY <1>5, SMT DEF ShowLine
  <2>2. /\ node = handed + 1 /\ node \in Lines /\ handed < detached
        /\ handed \in Nat /\ detached \in Nat /\ printed \in Nat
        /\ detached <= printed
        /\ prev[node] = IF node = detached THEN NULL ELSE node + 1
    BY <2>1, SMT DEF IndInv, TypeOK, ControlInv, PointerInv, PrevInv
  <2>3. TypeOK'
    <3>1. LetsPeek' \in Nat /\ (ok => LetsPeek' <= PeekAfter)
      BY <1>5, SMT DEF ShowLine, IndInv, TypeOK
    <3>2. screen' \in Seq(Lines)
      <4>1. screen \in Seq(Lines) /\ node \in Lines
        BY <2>2 DEF IndInv, TypeOK
      <4>2. Append(screen, node) \in Seq(Lines)
        BY <4>1, AppendProperties, Zenon
      <4> QED
        BY <2>1, <4>1, <4>2, Zenon
    <3>3. handed' \in 0 .. MaxLines /\ node' \in 0 .. MaxLines
      BY <2>1, <2>2, SMT DEF IndInv, TypeOK
    <3> QED
      BY <2>1, <3>1, <3>2, <3>3, SMT DEF IndInv, TypeOK
  <2>4. ControlInv'
    BY <2>1, <2>2, SMT DEF IndInv, ControlInv, Promised
  <2>5. PointerInv'
    <3>1. allocated' = handed' + 1 .. Top'
      BY <2>1, <2>2, SMT DEF IndInv, PointerInv
    <3> QED
      BY <2>1, <2>2, <3>1, SMT DEF IndInv, PointerInv
  <2>6. NextInv' /\ PrevInv'
    BY <2>1, <2>2, SMT DEF IndInv, NextInv, PrevInv
  <2> QED
    BY <2>3, <2>4, <2>5, <2>6 DEF IndInv
<1>6. CASE Drained
  BY <1>6, SMT DEF Drained, IndInv, TypeOK, ControlInv, PointerInv, NextInv,
                   PrevInv, Promised
<1>7. CASE Handler
  <2>1. /\ UNCHANGED <<stack, drain, window>>
        /\ \/ mainPc = "handler" /\ mainPc' \in {"echo", "check"}
           \/ mainPc = "nestedHandler" /\ mainPc' \in {"nestedEcho", "show"}
        /\ mainPc' \in {"echo", "nestedEcho"} => Promised < MaxLines
    BY <1>7, SMT DEF Handler, HandlerReturns, HandlerPrints, InHandler,
                     AfterHandler
  <2>2. TypeOK'
    BY <2>1, SMTT(30) DEF IndInv, TypeOK
  <2>3. ControlInv'
    BY <2>1, SMT DEF IndInv, TypeOK, ControlInv, Promised
  <2>4. PointerInv' /\ NextInv' /\ PrevInv'
    BY <2>1, SMT DEF IndInv, PointerInv, NextInv, PrevInv
  <2> QED
    BY <2>2, <2>3, <2>4 DEF IndInv
<1> QED
  BY <1>1, <1>2, <1>3, <1>4, <1>5, <1>6, <1>7

\* The invariant holds in every reachable state.
THEOREM Invariance == Spec => []IndInv
<1>1. IndInv /\ [Next]_vars => IndInv'
  <2> SUFFICES ASSUME IndInv, [Next]_vars PROVE IndInv'
    OBVIOUS
  <2>1. CASE EnginePush
    BY <2>1, BeginPushIndInv DEF EnginePush
  <2>2. CASE MainPush
    BY <2>2, BeginPushIndInv DEF MainPush
  <2>3. CASE PublishRoot \/ LinkBack
    BY <2>3, PublishIndInv
  <2>4. CASE Dispatch \/ CheckEmpty \/ Detach \/ Walk \/ ShowLine
               \/ DispatchNested \/ Drained \/ Handler
    BY <2>4, DrainIndInv
  <2>5. CASE Clear \/ SetVisible
    <3>1. /\ UNCHANGED <<stack, mainPc, drain>> /\ visible' \in BOOLEAN
          /\ screen' = screen \/ screen' = <<>>
      BY <2>5 DEF Clear, SetVisible, IndInv, TypeOK
    <3>2. screen' \in Seq(Lines)
      BY <3>1, EmptySeq DEF IndInv, TypeOK
    <3> QED
      BY <3>1, <3>2 DEF stack, drain, IndInv, TypeOK, ControlInv, PointerInv,
                        NextInv, PrevInv, Top, Promised, Pushing
  <2>6. CASE UNCHANGED vars
    BY <2>6 DEF vars, stack, drain, window, IndInv, TypeOK, ControlInv,
                PointerInv, NextInv, PrevInv, Top, Promised, Pushing
  <2> QED
    BY <2>1, <2>2, <2>3, <2>4, <2>5, <2>6
       DEF Next, PushSteps, MainThread, Ended
<1> QED
  BY InitIndInv, <1>1, PTL DEF Spec

-----------------------------------------------------------------------------
\* Neither thread ever follows a pointer to a node that was deleted.
THEOREM NoDanglingHolds == Spec => []NoDangling
<1>1. IndInv => NoDangling
  <2> SUFFICES ASSUME IndInv PROVE NoDangling
    OBVIOUS
  <2>1. /\ handed \in Nat /\ detached \in Nat /\ printed \in Nat
        /\ handed <= detached /\ detached <= printed
        /\ printed <= Top /\ Top \in Nat
        /\ pushPc = "link" => detached < printed
    BY SMT DEF IndInv, TypeOK, ControlInv, Top
  <2>2. allocated = handed + 1 .. Top
    BY DEF IndInv, PointerInv
  <2>3. root # NULL => root \in allocated
    BY <2>1, <2>2, SMT DEF IndInv, PointerInv, NULL
  <2>4. node # NULL => node \in allocated
    BY <2>1, <2>2, SMT DEF IndInv, TypeOK, PointerInv, NULL
  <2>5. mainPc = "walk" => next[node] \in allocated \cup {NULL}
    BY <2>1, <2>2, SMT DEF IndInv, PointerInv, NextInv
  <2>6. pushPc = "link" => next[printed] \in allocated \cup {NULL}
    BY <2>1, <2>2, SMT DEF IndInv, NextInv
  <2> QED
    BY <2>3, <2>4, <2>5, <2>6 DEF NoDangling
<1> QED
  BY Invariance, <1>1, PTL

\* Every node is deleted, queued or being shown, and an empty stack means that
\* nothing waits.
THEOREM AllAccountedHolds == Spec => []AllAccounted
<1>1. IndInv => AllAccounted
  BY SMT DEF IndInv, TypeOK, ControlInv, PointerInv, AllAccounted, Top, NewNode,
             NULL
<1> QED
  BY Invariance, <1>1, PTL

\* The pointers, the critical section and the nested message pump implement
\* the plain log: each line once, oldest first.
THEOREM Refinement == Spec => ImplementsPrintLog
<1>1. Init => Log!Init
  BY DEF Init, Log!Init
<1>2. IndInv /\ [Next]_vars => [Log!Next]_(Log!vars)
  <2> SUFFICES ASSUME IndInv, [Next]_vars PROVE [Log!Next]_(Log!vars)
    OBVIOUS
  <2> USE DEF stack, drain, window
  <2>1. CASE PublishRoot
    BY <2>1 DEF PublishRoot, Log!Next, Log!PrintLine
  <2>2. CASE ShowLine
    <3>1. node = handed + 1 /\ handed < printed
      BY <2>2, SMT
         DEF ShowLine, IndInv, TypeOK, ControlInv, PointerInv
    <3> QED
      BY <2>2, <3>1 DEF ShowLine, Log!Next, Log!Show
  <2>3. CASE Clear
    BY <2>3 DEF Clear, Log!Next, Log!Clear
  <2>4. CASE SetVisible
    BY <2>4 DEF SetVisible, Log!Next, Log!SetVisible
  <2>5. CASE Dispatch \/ DispatchNested
    BY <2>5 DEF Dispatch, DispatchNested, Log!Next, Log!Close, Log!vars
  <2>6. CASE EnginePush \/ MainPush \/ LinkBack
    BY <2>6 DEF EnginePush, MainPush, BeginPush, LinkBack, Log!vars
  <2>7. CASE CheckEmpty \/ Detach \/ Walk \/ Drained \/ Handler
    BY <2>7 DEF CheckEmpty, Detach, Walk, Drained, Handler, HandlerReturns,
                HandlerPrints, Log!vars
  <2>8. CASE UNCHANGED vars
    BY <2>8 DEF vars, Log!vars
  <2> QED
    BY <2>1, <2>2, <2>3, <2>4, <2>5, <2>6, <2>7, <2>8
       DEF Next, PushSteps, MainThread, Ended
<1> QED
  BY <1>1, <1>2, Invariance, PTL DEF Spec, ImplementsPrintLog, Log!Spec

\* Every pointer of the queue is a node or NULL, and the counts are in their bounds,
\* for any number of lines.
THEOREM TypeCorrect == Spec => []TypeOK
<1>1. IndInv => TypeOK
  BY DEF IndInv
<1> QED
  BY <1>1, Invariance, PTL

-----------------------------------------------------------------------------
(* The output box.                                                         *)

Characters == (DOMAIN LineLengths) \X (Nat \ {0})

IsText(s) == s \in Seq(Characters)

\* s is the end of t.
Ends(s, t) ==
  /\ Len(s) <= Len(t)
  /\ \A k \in 1 .. Len(s) : s[k] = t[Len(t) - Len(s) + k]

LEMMA NoTerminator == Terminator \notin Characters
BY DEF Terminator, Characters

LEMMA Joined ==
  ASSUME NEW s, IsText(s), NEW t, IsText(t)
  PROVE  /\ IsText(s \o t) /\ Len(s \o t) = Len(s) + Len(t)
         /\ \A k \in 1 .. Len(s) : (s \o t)[k] = s[k]
         /\ \A k \in 1 .. Len(t) : (s \o t)[Len(s) + k] = t[k]
BY DEF IsText

LEMMA Lengths ==
  ASSUME NEW s, IsText(s)
  PROVE  Len(s) \in Nat /\ \A k \in 1 .. Len(s) : s[k] \in Characters
BY DEF IsText

LEMMA LineFacts ==
  ASSUME NEW n \in DOMAIN LineLengths
  PROVE  IsText(LineText(n)) /\ Len(LineText(n)) = LineLengths[n]
<1>1. LineLengths[n] \in Nat
  BY BoxAssumption
<1>2. LineText(n) \in [1 .. LineLengths[n] -> Characters]
  BY <1>1 DEF LineText, Characters
<1>3. ASSUME NEW m \in Nat, NEW f \in [1 .. m -> Characters]
      PROVE  f \in Seq(Characters) /\ Len(f) = m
  OBVIOUS
<1> QED BY <1>1, <1>2, <1>3 DEF IsText

\* What ends with the end of t is the end of all that t ends.
LEMMA Onward ==
  ASSUME NEW s, IsText(s), NEW t, IsText(t), NEW u, IsText(u),
         Ends(s, t), Ends(t, u)
  PROVE  Ends(s, u)
<1>1. PICK a \in Nat, b \in Nat, c \in Nat :
        a = Len(s) /\ b = Len(t) /\ c = Len(u)
  BY Lengths
<1>2. a <= b /\ b <= c
  BY <1>1 DEF Ends
<1>3. ASSUME NEW k \in 1 .. a
      PROVE  s[k] = u[c - a + k]
  <2>1. PICK j \in 1 .. b : j = b - a + k
    <3>1. b - a + k \in 1 .. b
      BY <1>2
    <3> QED BY <3>1
  <2>2. s[k] = t[j]
    BY <1>1, <2>1 DEF Ends
  <2>3. t[j] = u[c - b + j]
    BY <1>1 DEF Ends
  <2>4. c - b + j = c - a + k
    BY <2>1
  <2> QED BY <2>2, <2>3, <2>4
<1> QED BY <1>1, <1>2, <1>3 DEF Ends

\* The same text written behind both.
LEMMA Continued ==
  ASSUME NEW s, IsText(s), NEW t, IsText(t), NEW u, IsText(u), Ends(s, t)
  PROVE  Ends(s \o u, t \o u)
<1>1. PICK a \in Nat, b \in Nat, c \in Nat :
        a = Len(s) /\ b = Len(t) /\ c = Len(u)
  BY Lengths
<1>2. a <= b /\ \A k \in 1 .. a : s[k] = t[b - a + k]
  BY <1>1 DEF Ends
<1>3. /\ Len(s \o u) = a + c /\ \A k \in 1 .. a : (s \o u)[k] = s[k]
      /\ \A k \in 1 .. c : (s \o u)[a + k] = u[k]
  BY <1>1, Joined
<1>4. /\ Len(t \o u) = b + c /\ \A k \in 1 .. b : (t \o u)[k] = t[k]
      /\ \A k \in 1 .. c : (t \o u)[b + k] = u[k]
  BY <1>1, Joined
<1> DEFINE x == s \o u  y == t \o u
<1> HIDE DEF x, y
<1>5. /\ Len(x) = a + c /\ \A k \in 1 .. a : x[k] = s[k]
      /\ \A k \in 1 .. c : x[a + k] = u[k]
  BY <1>3 DEF x
<1>6. /\ Len(y) = b + c /\ \A k \in 1 .. b : y[k] = t[k]
      /\ \A k \in 1 .. c : y[b + k] = u[k]
  BY <1>4 DEF y
<1>7. ASSUME NEW k \in 1 .. a + c
      PROVE  x[k] = y[(b + c) - (a + c) + k]
  <2>1. CASE k <= a
    <3>1. PICK j \in 1 .. b : j = (b + c) - (a + c) + k /\ j = b - a + k
      <4>1. /\ b - a + k \in 1 .. b
            /\ b - a + k = (b + c) - (a + c) + k
        BY <1>2, <2>1
      <4> QED BY <4>1
    <3>2. k \in 1 .. a
      BY <2>1
    <3> QED BY <1>2, <1>5, <1>6, <3>1, <3>2
  <2>2. CASE k > a
    <3>1. PICK j \in 1 .. c : k = a + j
      <4>1. k - a \in 1 .. c /\ k = a + (k - a)
        BY <2>2
      <4> QED BY <4>1
    <3>2. (b + c) - (a + c) + k = b + j
      BY <3>1
    <3> QED BY <1>5, <1>6, <3>1, <3>2
  <2> QED BY <2>1, <2>2
<1>8. Ends(x, y)
  BY <1>2, <1>5, <1>6, <1>7 DEF Ends
<1> QED BY <1>8 DEF x, y

\* The string in a buffer of m bytes whose first terminator is at place e.
LEMMA StringIs ==
  ASSUME NEW m \in Nat, NEW e \in 1 .. m,
         NEW buf \in [1 .. m -> Characters \cup {Terminator}],
         buf[e] = Terminator, \A k \in 1 .. e - 1 : buf[k] \in Characters
  PROVE  /\ IsText(String(buf)) /\ Len(String(buf)) = e - 1
         /\ \A k \in 1 .. e - 1 : String(buf)[k] = buf[k]
<1> DEFINE IsEnd(k) ==
      /\ buf[k] = Terminator
      /\ \A j \in 1 .. k - 1 : buf[j] # Terminator
<1>1. IsEnd(e)
  BY NoTerminator
<1>2. ASSUME NEW k \in 1 .. m, IsEnd(k)
      PROVE  k = e
  <2>1. CASE k < e
    <3>1. k \in 1 .. e - 1
      BY <2>1
    <3> QED BY <1>2, <3>1, NoTerminator
  <2>2. CASE e < k
    <3>1. e \in 1 .. k - 1
      BY <2>2
    <3> QED BY <1>2, <3>1
  <2> QED BY <2>1, <2>2
<1>3. e = CHOOSE k \in DOMAIN buf : IsEnd(k)
  <2>1. DOMAIN buf = 1 .. m
    OBVIOUS
  <2> QED BY <1>1, <1>2, <2>1
<1>4. String(buf) = SubSeq(buf, 1, e - 1)
  BY <1>3 DEF String
<1> DEFINE s == [k \in 1 .. e - 1 |-> buf[k]]
<1>5. SubSeq(buf, 1, e - 1) = s
  OBVIOUS
<1>6. s \in [1 .. e - 1 -> Characters] /\ \A k \in 1 .. e - 1 : s[k] = buf[k]
  OBVIOUS
<1>7. ASSUME NEW n \in Nat, NEW f \in [1 .. n -> Characters]
      PROVE  f \in Seq(Characters) /\ Len(f) = n
  OBVIOUS
<1> HIDE DEF s
<1>8. e - 1 \in Nat
  OBVIOUS
<1> QED BY <1>4, <1>5, <1>6, <1>7, <1>8 DEF IsText
-----------------------------------------------------------------------------
(* RawPuts.                                                                *)

\* The text written and the line, or its end.
LEMMA RawPutsShows ==
  ASSUME IsText(box), TextMax \in Nat, NEW n \in DOMAIN LineLengths, RawPuts(n)
  PROVE  /\ IsText(box') /\ Ends(box', box \o LineText(n))
         /\ IF TextMax > 0 /\ Len(box) > TextMax
              THEN Len(box') = TextMax - 1
              ELSE Len(box') = Len(box) + LineLengths[n]
<1> DEFINE line == LineText(n)
           text == box \o line
           buf == text \o <<Terminator>>
<1>1. PICK b \in Nat, l \in Nat :
        b = Len(box) /\ l = LineLengths[n] /\ IsText(line) /\ Len(line) = l
  BY Lengths, LineFacts, BoxAssumption
<1> HIDE DEF line
<1>2. IsText(text) /\ Len(text) = b + l
  BY <1>1, Joined
<1> DEFINE m == b + l + 1
<1>3. /\ Len(buf) = m /\ buf \in [1 .. m -> Characters \cup {Terminator}]
      /\ buf[m] = Terminator /\ \A k \in 1 .. b + l : buf[k] = text[k]
  <2>1. text \in Seq(Characters \cup {Terminator})
    BY <1>2 DEF IsText
  <2> HIDE DEF text
  <2>2. /\ Len(buf) = Len(text) + 1
        /\ buf \in Seq(Characters \cup {Terminator})
        /\ \A k \in 1 .. Len(text) : buf[k] = text[k]
        /\ buf[Len(text) + 1] = Terminator
    BY <2>1
  <2> HIDE DEF buf
  <2>3. buf \in [1 .. Len(buf) -> Characters \cup {Terminator}]
    BY <2>2
  <2> QED BY <1>2, <2>2, <2>3
<1>4. \A k \in 1 .. b + l : buf[k] = text[k] /\ text[k] \in Characters
  BY <1>2, <1>3, Lengths
<1>5. PICK limit \in Nat : limit = TextMax
  OBVIOUS
<1> DEFINE moved == [k \in DOMAIN buf |->
             IF Len(box) > TextMax /\ k <= TextMax
               THEN buf[Len(buf) - TextMax + k] ELSE buf[k]]
<1>6. box' = String(moved)
  BY DEF RawPuts, line
<1> HIDE DEF text, buf
<1>7. moved = [k \in 1 .. m |->
             IF b > limit /\ k <= limit THEN buf[m - limit + k] ELSE buf[k]]
  BY <1>1, <1>3, <1>5
<1> HIDE DEF moved
<1>8. CASE ~(limit > 0 /\ b > limit)
  <2>1. moved = buf
    <3>1. \A k \in 1 .. m : ~(b > limit /\ k <= limit)
      BY <1>8
    <3>2. moved = [k \in 1 .. m |-> buf[k]]
      BY <1>7, <3>1
    <3> QED BY <1>3, <3>2
  <2>2. m \in Nat /\ m \in 1 .. m /\ m - 1 = b + l
    OBVIOUS
  <2>3. /\ IsText(box') /\ Len(box') = b + l
        /\ \A k \in 1 .. b + l : box'[k] = text[k]
    BY <1>3, <1>4, <1>6, <2>1, <2>2, StringIs
  <2>4. Ends(box', text)
    BY <1>2, <2>3 DEF Ends
  <2> QED BY <1>1, <1>5, <1>8, <2>3, <2>4 DEF text, line
<1>9. CASE limit > 0 /\ b > limit
  <2>1. ASSUME NEW k \in 1 .. limit
        PROVE  k \in 1 .. m /\ m - limit + k \in 1 .. m
               /\ moved[k] = buf[m - limit + k]
    <3>1. k \in 1 .. m /\ m - limit + k \in 1 .. m
      BY <1>9
    <3> QED BY <1>7, <1>9, <3>1
  <2>2. moved \in [1 .. m -> Characters \cup {Terminator}]
    <3>1. ASSUME NEW k \in 1 .. m
          PROVE  moved[k] \in Characters \cup {Terminator}
      <4>1. CASE k <= limit
        <5>1. k \in 1 .. limit
          BY <4>1
        <5> QED BY <1>3, <2>1, <5>1
      <4>2. CASE ~(k <= limit)
        BY <1>3, <1>7, <4>2
      <4> QED BY <4>1, <4>2
    <3>2. moved = [k \in 1 .. m |-> moved[k]]
      BY <1>7
    <3> QED BY <3>1, <3>2
  <2>3. moved[limit] = Terminator
    <3>1. limit \in 1 .. limit /\ m - limit + limit = m
      BY <1>9
    <3> QED BY <1>3, <2>1, <3>1
  <2>4. ASSUME NEW k \in 1 .. limit - 1
        PROVE  /\ m - limit + k \in 1 .. b + l
               /\ moved[k] = text[m - limit + k] /\ moved[k] \in Characters
    <3>1. k \in 1 .. limit /\ m - limit + k \in 1 .. b + l
      BY <1>9
    <3> QED BY <1>4, <2>1, <3>1
  <2>5. m \in Nat /\ limit \in 1 .. m
    BY <1>9
  <2>6. /\ IsText(box') /\ Len(box') = limit - 1
        /\ \A k \in 1 .. limit - 1 : box'[k] = moved[k]
    BY <1>6, <2>2, <2>3, <2>4, <2>5, StringIs
  <2>7. limit - 1 <= b + l
    BY <1>9
  <2>8. ASSUME NEW k \in 1 .. limit - 1
        PROVE  box'[k] = text[(b + l) - (limit - 1) + k]
    <3>1. (b + l) - (limit - 1) + k = m - limit + k
      OBVIOUS
    <3> QED BY <2>4, <2>6, <3>1
  <2>9. Ends(box', text)
    BY <1>2, <2>6, <2>7, <2>8 DEF Ends
  <2> QED BY <1>1, <1>5, <1>9, <2>6, <2>9 DEF text, line
<1> QED BY <1>8, <1>9

BoxInv ==
  /\ IsText(box) /\ IsText(written) /\ TextMax \in Nat /\ cutAt \in Nat
  /\ ShowsLatest

LEMMA RawPutsKeeps ==
  ASSUME BoxInv, NEW n \in DOMAIN LineLengths, RawPuts(n)
  PROVE  BoxInv'
<1> DEFINE line == LineText(n)
<1>1. IsText(box) /\ IsText(written) /\ TextMax \in Nat /\ ShowsLatest
  BY DEF BoxInv
<1>2. IsText(line) /\ Len(line) = LineLengths[n]
  BY LineFacts
<1>3. /\ IsText(box') /\ Ends(box', box \o line)
      /\ IF TextMax > 0 /\ Len(box) > TextMax
           THEN Len(box') = TextMax - 1
           ELSE Len(box') = Len(box) + LineLengths[n]
  BY <1>1, RawPutsShows
<1>4. /\ written' = written \o line
      /\ cutAt' = IF TextMax > 0 /\ Len(box) > TextMax THEN TextMax ELSE cutAt
      /\ room' = IF TextMax > 0 THEN TextMax + LineLengths[n] ELSE 0
      /\ TextMax' = TextMax
  BY DEF RawPuts, Recorded
<1>5. Ends(box, written)
  BY <1>1 DEF ShowsLatest, Ends
<1> HIDE DEF line
<1>6. IsText(box \o line) /\ IsText(written')
      /\ Len(written') = Len(written) + Len(line)
  BY <1>1, <1>2, <1>4, Joined
<1>7. Ends(box \o line, written')
  BY <1>1, <1>2, <1>4, <1>5, Continued
<1>8. Ends(box', written')
  BY <1>3, <1>6, <1>7, Onward
<1>9. PICK b \in Nat, w \in Nat, l \in Nat, limit \in Nat, c \in Nat,
           cut \in Nat :
        /\ b = Len(box) /\ w = Len(written) /\ l = LineLengths[n]
        /\ limit = TextMax /\ c = Len(box') /\ cut = cutAt
  BY <1>1, <1>3, Lengths, BoxAssumption DEF BoxInv
<1>10. IF limit > 0 /\ b > limit THEN c = limit - 1 ELSE c = b + l
  BY <1>3, <1>9
<1>11. IF cut = 0 THEN b = w ELSE b >= cut - 1
  BY <1>1, <1>9 DEF ShowsLatest
<1>12. Len(written') = w + l
  BY <1>2, <1>6, <1>9
<1>13. cutAt' \in Nat
       /\ IF cutAt' = 0 THEN c = w + l ELSE c >= cutAt' - 1
  <2>1. cutAt' = IF limit > 0 /\ b > limit THEN limit ELSE cut
    BY <1>4, <1>9
  <2> QED
    BY <1>10, <1>11, <2>1
<1>14. room' # 0 => c <= room'
  <2>1. room' = IF limit > 0 THEN limit + l ELSE 0
    BY <1>4, <1>9
  <2> QED
    BY <1>10, <2>1
<1>15. ShowsLatest'
  BY <1>8, <1>9, <1>12, <1>13, <1>14 DEF ShowsLatest, Ends
<1> QED BY <1>1, <1>3, <1>4, <1>6, <1>13, <1>15 DEF BoxInv

-----------------------------------------------------------------------------
\* However lines, clears and new limits alternate, and whatever the limits and
\* the lengths of the lines, the output box shows the end of the text, all of it
\* or as much as fitted the limit it was last cut at, in order.
THEOREM ShowsLatestHolds == BoxSpec => []ShowsLatest
<1>0. IsText(<<>>) /\ Len(<<>>) = 0
  BY DEF IsText
<1>1. BoxInit => BoxInv
  <2> SUFFICES ASSUME BoxInit PROVE BoxInv
    OBVIOUS
  <2>1. TextMax \in Nat /\ cutAt = 0 /\ room = 0
    BY BoxAssumption, SMT DEF BoxInit
  <2> QED
    BY <1>0, <2>1 DEF BoxInit, BoxInv, ShowsLatest
<1>2. BoxInv /\ [BoxNext]_boxVars => BoxInv'
  <2> SUFFICES ASSUME BoxInv, [BoxNext]_boxVars
               PROVE  BoxInv'
    OBVIOUS
  <2>1. CASE \E n \in DOMAIN LineLengths : RawPuts(n)
    BY <2>1, RawPutsKeeps
  <2>2. CASE ClearBox
    BY <1>0, <2>2 DEF ClearBox, BoxInv, ShowsLatest
  <2>3. CASE SetLimit
    <3>1. TextMax' \in Nat
      BY <2>3, BoxAssumption, SMT DEF SetLimit
    <3> QED
      BY <2>3, <3>1 DEF SetLimit, BoxInv, ShowsLatest, IsText
  <2>4. CASE UNCHANGED boxVars
    BY <2>4 DEF boxVars, BoxInv, ShowsLatest, IsText
  <2> QED BY <2>1, <2>2, <2>3, <2>4 DEF BoxNext
<1>3. BoxInv => ShowsLatest
  BY DEF BoxInv
<1> QED BY <1>1, <1>2, <1>3, PTL DEF BoxSpec

-----------------------------------------------------------------------------
(* The console: the queue writes to the box.                               *)

\* A step of the console is one of the queue.
LEMMA QueueSteps == ConsoleNext => [Next]_vars
BY DEF ConsoleNext, Next, PushSteps, MainThread, Handler

\* ... and one of the box, which is only given lines that were printed.
LEMMA BoxSteps ==
  ASSUME IndInv, ConsoleNext
  PROVE  [BoxNext]_boxVars
<1>1. CASE ShowLine /\ RawPuts(node)
  <2>1. node \in Lines
    BY <1>1, SMT DEF ShowLine, IndInv, TypeOK, Lines, NULL
  <2> QED
    BY <1>1, <2>1, LinesHaveLengths DEF BoxNext
<1>2. CASE ClearBox
  BY <1>2 DEF BoxNext
<1>3. CASE SetLimit
  BY <1>3 DEF BoxNext
<1>4. CASE UNCHANGED boxVars
  BY <1>4
<1> QED
  BY <1>1, <1>2, <1>3, <1>4 DEF ConsoleNext

\* ApplyMsgToConsole with RawPuts in the middle of its walk behaves as queue and
\* as box: all that is proved of each holds of the console.
THEOREM ConsoleComposes == ConsoleSpec => Spec /\ BoxSpec
<1>1. [ConsoleNext]_<<vars, boxVars>> => [Next]_vars
  BY QueueSteps DEF boxVars
<1>2. IndInv /\ [ConsoleNext]_<<vars, boxVars>> => [BoxNext]_boxVars
  BY BoxSteps DEF boxVars
<1>3. ConsoleInit => Init /\ BoxInit
  BY DEF ConsoleInit
<1>4. ConsoleSpec => Spec
  BY <1>1, <1>3, PTL DEF ConsoleSpec, Spec
<1>5. ConsoleSpec => []IndInv
  BY <1>4, Invariance, PTL
<1> QED
  BY <1>2, <1>3, <1>4, <1>5, PTL DEF ConsoleSpec, BoxSpec
=============================================================================
