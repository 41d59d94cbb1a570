----------------------------- MODULE ConsoleQueue -----------------------------
(***************************************************************************)
(* The print queue of TerrahIRC: TerrahConsole::Puts pushes a node on a    *)
(* doubly linked TerrahStack from any thread; ApplyMsgToConsole, on the    *)
(* main thread, detaches the whole list under the critical section, walks  *)
(* to its oldest node and shows and frees the nodes back to the newest,    *)
(* outside the critical section, pumping a window message now and then.    *)
(*                                                                         *)
(* A node is named by the number of the push that made it, so that an      *)
(* address is never reused and a dangling pointer can be seen.             *)
(***************************************************************************)
EXTENDS Naturals, Sequences

CONSTANTS
  MaxLines,   \* bound: how many lines are printed
  PeekAfter   \* the 12 of LetsPeek++ >= 12

ASSUME QueueAssumption == MaxLines \in Nat /\ PeekAfter \in Nat

VARIABLES
  next, prev,  \* TSNode::Next and TSNode::Prev; NULL is 0
  allocated,   \* the nodes that are not deleted
  root,        \* TerrahStack::root
  lock,        \* owner of the critical section
  pushPc,      \* where its owner is in Push
  printed,     \* number of nodes that were made the root
  mainPc,      \* where the main thread is
  node,        \* ApplyMsgToConsole's cursor
  LetsPeek,    \* ... its counter
  ok,          \* ... its result
  visible,     \* IsWindowVisible(hwnd)
  screen,      \* the lines in the output box
  handed,      \* history: number of nodes shown or passed over
  detached     \* history: number of nodes taken off the stack

stack == <<next, prev, allocated, root, lock, pushPc, printed>>
drain == <<node, LetsPeek, ok, handed, detached>>
window == <<visible, screen>>
vars == <<stack, mainPc, drain, window>>

NULL == 0
Lines == 1 .. MaxLines

Init ==
  /\ next = [n \in Lines |-> NULL] /\ prev = [n \in Lines |-> NULL]
  /\ allocated = {} /\ root = NULL /\ lock = "none" /\ pushPc = "idle"
  /\ printed = 0
  /\ mainPc = "pump" /\ node = NULL /\ LetsPeek = 0 /\ ok = TRUE
  /\ visible = TRUE /\ screen = <<>>
  /\ handed = 0 /\ detached = 0

-----------------------------------------------------------------------------
(* Push, by the engine thread (print, an error message) or by a message    *)
(* handler of the main thread (echo of a typed line).                      *)

Pushing == lock # "none"
NewNode == printed + 1               \* the node of the Push in progress

\* Pushes done, begun, or about to be made by a handler: for the bound only.
Promised ==
  printed + (IF pushPc = "publish" THEN 1 ELSE 0)
          + (IF mainPc \in {"echo", "nestedEcho"} /\ lock # "main" THEN 1 ELSE 0)

BeginPush(thread) ==
  /\ lock = "none"
  /\ lock' = thread /\ pushPc' = "publish"
  /\ allocated' = allocated \cup {NewNode}
  /\ next' = [next EXCEPT ![NewNode] = root]
  /\ prev' = [prev EXCEPT ![NewNode] = NULL]
  /\ UNCHANGED <<root, printed, mainPc, drain, window>>

EnginePush == Promised < MaxLines /\ BeginPush("engine")

MainPush == mainPc \in {"echo", "nestedEcho"} /\ BeginPush("main")

PublishRoot ==
  /\ pushPc = "publish"
  /\ root' = NewNode
  /\ printed' = printed + 1
  /\ pushPc' = "link"
  /\ UNCHANGED <<next, prev, allocated, lock, mainPc, drain, window>>

\* Where the main thread goes on after a message handler.
AfterHandler == IF mainPc \in {"handler", "echo"} THEN "check" ELSE "show"

\* node->Next->Prev = node, and LeaveCriticalSection.
LinkBack ==
  /\ pushPc = "link"
  /\ prev' = IF next[printed] = NULL THEN prev
             ELSE [prev EXCEPT ![next[printed]] = printed]
  /\ lock' = "none" /\ pushPc' = "idle"
  /\ mainPc' = IF lock = "main" THEN AfterHandler ELSE mainPc
  /\ UNCHANGED <<next, allocated, root, printed, drain, window>>

-----------------------------------------------------------------------------
(* The main thread: MessageLoop and ApplyMsgToConsole.                     *)

\* GetMessage returns a message, for its handler, or WM_QUIT.
Dispatch ==
  /\ mainPc = "pump"
  /\ \/ mainPc' = "handler" /\ UNCHANGED ok
     \/ mainPc' = "ended" /\ ok' = FALSE
  /\ UNCHANGED <<stack, node, LetsPeek, handed, detached, window>>

\* A message handler is at work.  It may stay so for ever: in the modal loop of
\* a dialog, or in the wait loop of MainToLuaThreadCall.
InHandler == mainPc \in {"handler", "nestedHandler"}

HandlerReturns ==
  /\ InHandler
  /\ mainPc' = AfterHandler
  /\ UNCHANGED <<stack, drain, window>>

\* The echo of a typed line is the last thing its handler does.
HandlerPrints ==
  /\ InHandler /\ Promised < MaxLines
  /\ mainPc' = IF mainPc = "handler" THEN "echo" ELSE "nestedEcho"
  /\ UNCHANGED <<stack, drain, window>>

\* Mutant: a list of one node counts as empty.
CheckEmptyButOne ==
  /\ mainPc = "check"
  /\ mainPc' = IF root = NULL \/ (root \in Lines /\ next[root] = NULL)
                 THEN "pump" ELSE "detach"
  /\ UNCHANGED <<stack, drain, window>>

\* IsEmpty reads root outside the critical section.
CheckEmpty ==
  /\ mainPc = "check"
  /\ mainPc' = IF root = NULL THEN "pump" ELSE "detach"
  /\ UNCHANGED <<stack, drain, window>>

\* Mutant: the list is taken without the critical section.
DetachUnlocked ==
  /\ mainPc = "detach"
  /\ node' = root
  /\ root' = NULL
  /\ detached' = printed
  /\ mainPc' = "walk"
  /\ UNCHANGED <<next, prev, allocated, lock, pushPc, printed, LetsPeek, ok,
                 handed, window>>

Detach ==
  /\ mainPc = "detach" /\ lock = "none"
  /\ node' = root
  /\ root' = NULL
  /\ detached' = printed
  /\ mainPc' = "walk"
  /\ UNCHANGED <<next, prev, allocated, lock, pushPc, printed, LetsPeek, ok,
                 handed, window>>

\* Mutant: the lines are shown from the newest node on.
WalkNot ==
  /\ mainPc = "walk"
  /\ mainPc' = "show" /\ LetsPeek' = 0
  /\ UNCHANGED <<node, stack, ok, handed, detached, window>>

\* To the oldest node.
Walk ==
  /\ mainPc = "walk"
  /\ IF next[node] = NULL
       THEN mainPc' = "show" /\ LetsPeek' = 0 /\ UNCHANGED node
       ELSE node' = next[node] /\ UNCHANGED <<mainPc, LetsPeek>>
  /\ UNCHANGED <<stack, ok, handed, detached, window>>

\* Mutants: the counter is not reset; lines are shown after WM_QUIT too.
ShowLineNoReset ==
  /\ mainPc = "show" /\ node # NULL
  /\ screen' = IF ok /\ visible THEN Append(screen, node) ELSE screen
  /\ node' = prev[node]
  /\ allocated' = allocated \ {node}
  /\ handed' = handed + 1
  /\ LetsPeek' = LetsPeek + 1
  /\ mainPc' = IF LetsPeek >= PeekAfter /\ ok THEN "nested" ELSE mainPc
  /\ UNCHANGED <<next, prev, root, lock, pushPc, printed, ok, detached,
                 visible>>

ShowLineAfterQuit ==
  /\ mainPc = "show" /\ node # NULL
  /\ screen' = IF visible THEN Append(screen, node) ELSE screen
  /\ node' = prev[node]
  /\ allocated' = allocated \ {node}
  /\ handed' = handed + 1
  /\ IF LetsPeek >= PeekAfter /\ ok
       THEN LetsPeek' = 0 /\ mainPc' = "nested"
       ELSE LetsPeek' = LetsPeek + 1 /\ UNCHANGED mainPc
  /\ UNCHANGED <<next, prev, root, lock, pushPc, printed, ok, detached,
                 visible>>

\* RawPuts (which shows nothing in a hidden window), then on to the newer node
\* and delete; a message is pumped once the counter is over PeekAfter.
ShowLine ==
  /\ mainPc = "show" /\ node # NULL
  /\ screen' = IF ok /\ visible THEN Append(screen, node) ELSE screen
  /\ node' = prev[node]
  /\ allocated' = allocated \ {node}
  /\ handed' = handed + 1
  /\ IF LetsPeek >= PeekAfter /\ ok
       THEN LetsPeek' = 0 /\ mainPc' = "nested"
       ELSE LetsPeek' = LetsPeek + 1 /\ UNCHANGED mainPc
  /\ UNCHANGED <<next, prev, root, lock, pushPc, printed, ok, detached,
                 visible>>

\* GetMessage in the middle of the list.
DispatchNested ==
  /\ mainPc = "nested"
  /\ \/ mainPc' = "nestedHandler" /\ UNCHANGED ok
     \/ mainPc' = "show" /\ ok' = FALSE
  /\ UNCHANGED <<stack, node, LetsPeek, handed, detached, window>>

Drained ==
  /\ mainPc = "show" /\ node = NULL
  /\ mainPc' = IF ok THEN "pump" ELSE "ended"
  /\ UNCHANGED <<stack, drain, window>>

-----------------------------------------------------------------------------
(* KSC.Clear and KSC.SetVisible on the engine thread.  Both send to a      *)
(* window of the main thread and wait until it takes messages: in          *)
(* GetMessage, or in the modal loop of a dialog.  The handler of the clear *)
(* button does what KSC.Clear does.                                        *)

TakesMessages == mainPc \in {"pump", "nested"} \/ InHandler

Clear ==
  /\ InHandler \/ (TakesMessages /\ lock # "engine")
  /\ screen' = <<>>
  /\ UNCHANGED <<stack, mainPc, drain, visible>>

SetVisible ==
  /\ TakesMessages /\ lock # "engine"
  /\ visible' \in BOOLEAN
  /\ UNCHANGED <<stack, mainPc, drain, screen>>

\* WinMain left its loop; the engine may print on, unseen.
Ended == mainPc = "ended" /\ ~Pushing /\ UNCHANGED vars

-----------------------------------------------------------------------------
PushSteps == PublishRoot \/ LinkBack

MainThread ==
  MainPush \/ Dispatch \/ CheckEmpty \/ Detach \/ Walk \/ ShowLine
    \/ DispatchNested \/ Drained

Handler == HandlerReturns \/ HandlerPrints

Next ==
  EnginePush \/ PushSteps \/ MainThread \/ Handler \/ Clear \/ SetVisible
    \/ Ended

Spec == Init /\ [][Next]_vars

-----------------------------------------------------------------------------
TypeOK ==
  /\ next \in [Lines -> 0 .. MaxLines] /\ prev \in [Lines -> 0 .. MaxLines]
  /\ allocated \subseteq Lines
  /\ root \in 0 .. MaxLines /\ node \in 0 .. MaxLines
  /\ lock \in {"none", "engine", "main"}
  /\ pushPc \in {"idle", "publish", "link"} /\ (pushPc = "idle" <=> ~Pushing)
  /\ mainPc \in {"pump", "handler", "echo", "check", "detach", "walk", "show",
                 "nested", "nestedHandler", "nestedEcho", "ended"}
  /\ LetsPeek \in Nat /\ (ok => LetsPeek <= PeekAfter)
  /\ ok \in BOOLEAN /\ visible \in BOOLEAN
  /\ printed \in 0 .. MaxLines /\ handed \in 0 .. MaxLines
  /\ detached \in 0 .. MaxLines
  /\ screen \in Seq(Lines)

\* No thread holds or follows a pointer to a deleted node, although the main
\* thread deletes nodes outside the critical section while Push writes to the
\* node next to its own.
NoDangling ==
  /\ root # NULL => root \in allocated
  /\ node # NULL => node \in allocated
  /\ mainPc = "walk" => next[node] \in allocated \cup {NULL}
  /\ pushPc = "link" => next[printed] \in allocated \cup {NULL}

\* Every node is shown and deleted, still queued, or in the list being shown;
\* nothing stays behind in a list the console is done with.
AllAccounted ==
  /\ allocated = handed + 1 .. (IF pushPc = "publish" THEN NewNode ELSE printed)
  /\ mainPc \in {"pump", "handler", "echo", "check", "detach"} =>
       handed = detached
  /\ root = NULL => detached = printed

\* The queue does what PrintLog promises: oldest line first, none twice, none
\* skipped while the window shows.
Log == INSTANCE PrintLog WITH open <- ok
ImplementsPrintLog == Log!Spec

\* Every printed line is dealt with, unless the application closes, as long as
\* every message handler comes back: a dialog that stays open stops the console.
LinesAreHandled ==
  []<>~InHandler =>
    \A n \in Lines : printed >= n ~> (handed >= n \/ mainPc = "ended")
=============================================================================
