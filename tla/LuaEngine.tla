------------------------------ MODULE LuaEngine ------------------------------
(***************************************************************************)
(* The two threads of TerrahIRC and the hand-made protocol between them.   *)
(*                                                                         *)
(* The main thread (WinMain) pumps window messages.  When the user presses *)
(* Enter, subEditProc copies the typed line to a fresh buffer and calls    *)
(* MainToLuaThreadCall, which hands the line to the Lua engine thread      *)
(* through the word ExhangeMutex and the slots ThreadExhange.  The engine  *)
(* thread (LuaMain) polls that word, runs Lua code, and may suspend itself *)
(* when the heartbeat is off and no socket is open.                        *)
(*                                                                         *)
(* Every action is one access (or one uninterrupted run of accesses) of a  *)
(* thread to the state the two threads share.                              *)
(***************************************************************************)
EXTENDS Naturals, Sequences

CONSTANTS
  MaxLines,    \* bound: how many lines the user enters
  MaxOptions,  \* bound: how many times the options dialog is confirmed
  RetryLimit,  \* the 1000 of MainToLuaThreadCall's retry counter
  Kinds,       \* the kinds of Lua execution the scripts exhibit
  HeartBeats   \* the values MilisecondTicks >= 0 may take

ASSUME BoundsAssumption ==
  MaxLines \in Nat /\ MaxOptions \in Nat /\ RetryLimit \in Nat
ASSUME KindsAssumption ==
  Kinds # {} /\ Kinds \subseteq {"short", "long", "runaway"}
ASSUME HeartBeatsAssumption ==
  HeartBeats # {} /\ HeartBeats \subseteq BOOLEAN

VARIABLES
  mainPc,        \* where the main thread is
  request,       \* arguments of the MainToLuaThreadCall in progress
  typed,         \* number of Enter presses handled; names their buffers
  prevlua,       \* the one input buffer not yet deleted (0: none)
  EnterIsDown,   \* the Enter key is held
  retries,       \* MainToLuaThreadCall's local counter
  ExhangeMutex,  \* 0 free, 1 being written, 2 call posted, 3 run the script
  slots,         \* ThreadExhange: function name and parameter
  LuaMustDie,    \* ask the count hook to abort the running Lua code
  Alive,         \* the engine's loop condition
  suspended,     \* the engine thread's suspend count is 1
  heartbeat,     \* MilisecondTicks >= 0
  SendFunc,      \* generation of the SendFunc string; older ones are deleted
  luaPc,         \* where the engine thread is
  exec,          \* kind of the Lua execution in progress
  inError,       \* ... which is the error event of a failed execution
  openSockets,   \* MultiSocket::GetOpenSockets() > 0
  overdue,       \* GetLuaAlive() > MsgLoopTimer
  pending,       \* history: the call posted and not yet taken (0: none)
  delivered,     \* history: the calls the engine took, in order
  overran        \* history: LuaMustDie was raised during this execution

mainVars == <<mainPc, request, typed, prevlua, EnterIsDown, retries>>
luaVars  == <<luaPc, exec, inError, openSockets>>
histVars == <<pending, delivered, overran>>
vars == <<mainVars, ExhangeMutex, slots, LuaMustDie, Alive, suspended,
          heartbeat, SendFunc, luaVars, overdue, histVars>>

NoFunc == 0                          \* func == NULL: the parameter is Lua code
Call == [func : 0 .. MaxOptions + 1, param : 0 .. MaxLines]

Executing == exec # "none"

-----------------------------------------------------------------------------
(* WinMain up to its message loop: the engine thread is resumed and runs   *)
(* the start script.                                                       *)
Init ==
  /\ mainPc = "loop" /\ typed = 0 /\ prevlua = 0 /\ EnterIsDown = FALSE
  /\ retries = 0
  /\ request = [func |-> NoFunc, param |-> 0]
  /\ slots = [func |-> NoFunc, param |-> 0]
  /\ ExhangeMutex = 0 /\ LuaMustDie = FALSE /\ Alive = TRUE
  /\ suspended = FALSE
  /\ heartbeat \in HeartBeats
  /\ SendFunc = 1
  /\ luaPc = "start" /\ exec \in Kinds /\ inError = FALSE
  /\ openSockets = FALSE /\ overdue = FALSE
  /\ pending = 0 /\ delivered = <<>> /\ overran = FALSE

-----------------------------------------------------------------------------
(* The main thread: message handlers.                                      *)

\* VK_RETURN reaches the input box.  The previous buffer is deleted and the
\* new one filled before anything is known about the previous call.  An empty
\* line makes no call; "/LUA code" passes no function name.
PressEnter ==
  /\ mainPc = "loop" /\ ~EnterIsDown /\ typed < MaxLines
  /\ EnterIsDown' = TRUE
  /\ typed' = typed + 1
  /\ prevlua' = typed'
  /\ \/ UNCHANGED <<mainPc, request>>
     \/ \E f \in {NoFunc, SendFunc} :
          /\ request' = [func |-> f, param |-> typed']
          /\ mainPc' = "resume"
  /\ UNCHANGED <<retries, ExhangeMutex, slots, LuaMustDie, Alive, suspended,
                 heartbeat, SendFunc, luaVars, overdue, histVars>>

\* WM_KEYUP of a held Enter key.
ReleaseEnter ==
  /\ mainPc = "loop" /\ EnterIsDown
  /\ EnterIsDown' = FALSE
  /\ UNCHANGED <<mainPc, request, typed, prevlua, retries, ExhangeMutex, slots,
                 LuaMustDie, Alive, suspended, heartbeat, SendFunc, luaVars,
                 overdue, histVars>>

\* The "run Lua script" menu item.
RunScript ==
  /\ mainPc = "loop"
  /\ ExhangeMutex' = 3
  /\ UNCHANGED <<mainVars, slots, LuaMustDie, Alive, suspended, heartbeat,
                 SendFunc, luaVars, overdue, histVars>>

\* OK in the options dialog: the old SendFunc string is deleted.
ConfirmOptions ==
  /\ mainPc = "loop" /\ SendFunc <= MaxOptions
  /\ SendFunc' = SendFunc + 1
  /\ heartbeat' \in HeartBeats
  /\ UNCHANGED <<mainVars, ExhangeMutex, slots, LuaMustDie, Alive, suspended,
                 luaVars, overdue, histVars>>

\* The anti-hang test after each message: with a socket ready, an engine that
\* has not come round for MsgLoopTimer is told to abort its Lua code; with no
\* socket ready its clock is restarted.
KeepAlive ==
  /\ mainPc = "loop" /\ overdue
  /\ \/ /\ openSockets /\ ~LuaMustDie
        /\ LuaMustDie' = TRUE
        /\ overran' = Executing
     \/ UNCHANGED <<LuaMustDie, overran>>
  /\ overdue' = FALSE
  /\ UNCHANGED <<mainVars, ExhangeMutex, slots, Alive, suspended, heartbeat,
                 SendFunc, luaVars, pending, delivered>>

-----------------------------------------------------------------------------
(* The main thread: MainToLuaThreadCall, one action per shared access.     *)

ResumeEngine ==
  /\ mainPc = "resume"
  /\ suspended' = FALSE
  /\ retries' = 0
  /\ mainPc' = "wait"
  /\ UNCHANGED <<request, typed, prevlua, EnterIsDown, ExhangeMutex, slots,
                 LuaMustDie, Alive, heartbeat, SendFunc, luaVars, overdue,
                 histVars>>

\* Mutants of WaitTurn: the counter is not reset; LuaMustDie is not raised.
WaitTurnNoReset ==
  /\ mainPc = "wait" /\ ExhangeMutex >= 1
  /\ retries' = retries + 1
  /\ LuaMustDie' = (LuaMustDie \/ retries >= RetryLimit)
  /\ overran' = (IF retries >= RetryLimit THEN Executing ELSE overran)
  /\ UNCHANGED <<mainPc, request, typed, prevlua, EnterIsDown, ExhangeMutex,
                 slots, Alive, suspended, heartbeat, SendFunc, luaVars,
                 overdue, pending, delivered>>

WaitTurnPatient ==
  /\ mainPc = "wait" /\ ExhangeMutex >= 1
  /\ retries' = IF retries >= RetryLimit THEN 0 ELSE retries + 1
  /\ UNCHANGED <<mainPc, request, typed, prevlua, EnterIsDown, ExhangeMutex,
                 slots, LuaMustDie, Alive, suspended, heartbeat, SendFunc,
                 luaVars, overdue, histVars>>

\* One turn of the wait loop; after RetryLimit turns the Lua code must die.
WaitTurn ==
  /\ mainPc = "wait" /\ ExhangeMutex >= 1
  /\ IF retries >= RetryLimit
       THEN /\ LuaMustDie' = TRUE
            /\ overran' = Executing
            /\ retries' = 0
       ELSE /\ retries' = retries + 1
            /\ UNCHANGED <<LuaMustDie, overran>>
  /\ UNCHANGED <<mainPc, request, typed, prevlua, EnterIsDown, ExhangeMutex,
                 slots, Alive, suspended, heartbeat, SendFunc, luaVars,
                 overdue, pending, delivered>>

\* Mutant: the wait minds only a half-written call (ExhangeMutex == 1).
WaitOverTooSoon ==
  /\ mainPc = "wait" /\ ExhangeMutex # 1
  /\ mainPc' = "clear"
  /\ UNCHANGED <<request, typed, prevlua, EnterIsDown, retries, ExhangeMutex,
                 slots, LuaMustDie, Alive, suspended, heartbeat, SendFunc,
                 luaVars, overdue, histVars>>

WaitOver ==
  /\ mainPc = "wait" /\ ExhangeMutex < 1
  /\ mainPc' = "clear"
  /\ UNCHANGED <<request, typed, prevlua, EnterIsDown, retries, ExhangeMutex,
                 slots, LuaMustDie, Alive, suspended, heartbeat, SendFunc,
                 luaVars, overdue, histVars>>

ClearMustDie ==
  /\ mainPc = "clear"
  /\ LuaMustDie' = FALSE
  /\ mainPc' = "claim"
  /\ UNCHANGED <<request, typed, prevlua, EnterIsDown, retries, ExhangeMutex,
                 slots, Alive, suspended, heartbeat, SendFunc, luaVars,
                 overdue, histVars>>

\* Mutant: the call is posted before its slots are written.
ClaimExchangePosted ==
  /\ mainPc = "claim"
  /\ ExhangeMutex' = 2
  /\ mainPc' = "write"
  /\ UNCHANGED <<request, typed, prevlua, EnterIsDown, retries, slots,
                 LuaMustDie, Alive, suspended, heartbeat, SendFunc, luaVars,
                 overdue, histVars>>

ClaimExchange ==
  /\ mainPc = "claim"
  /\ ExhangeMutex' = 1
  /\ mainPc' = "write"
  /\ UNCHANGED <<request, typed, prevlua, EnterIsDown, retries, slots,
                 LuaMustDie, Alive, suspended, heartbeat, SendFunc, luaVars,
                 overdue, histVars>>

WriteSlots ==
  /\ mainPc = "write"
  /\ slots' = request
  /\ mainPc' = "post"
  /\ UNCHANGED <<request, typed, prevlua, EnterIsDown, retries, ExhangeMutex,
                 LuaMustDie, Alive, suspended, heartbeat, SendFunc, luaVars,
                 overdue, histVars>>

PostCall ==
  /\ mainPc = "post"
  /\ ExhangeMutex' = 2
  /\ pending' = request.param
  /\ mainPc' = "loop"
  /\ UNCHANGED <<request, typed, prevlua, EnterIsDown, retries, slots,
                 LuaMustDie, Alive, suspended, heartbeat, SendFunc, luaVars,
                 overdue, delivered, overran>>

-----------------------------------------------------------------------------
(* The main thread: the end of WinMain.                                    *)

Quit ==
  /\ mainPc = "loop"
  /\ Alive' = FALSE
  /\ mainPc' = "join"
  /\ UNCHANGED <<request, typed, prevlua, EnterIsDown, retries, ExhangeMutex,
                 slots, LuaMustDie, suspended, heartbeat, SendFunc, luaVars,
                 overdue, histVars>>

JoinTimeout ==
  /\ mainPc = "join" /\ luaPc # "dead"
  /\ LuaMustDie' = TRUE
  /\ overran' = Executing
  /\ mainPc' = "rouse"
  /\ UNCHANGED <<request, typed, prevlua, EnterIsDown, retries, ExhangeMutex,
                 slots, Alive, suspended, heartbeat, SendFunc, luaVars,
                 overdue, pending, delivered>>

RouseEngine ==
  /\ mainPc = "rouse"
  /\ suspended' = FALSE
  /\ mainPc' = "joinForever"
  /\ UNCHANGED <<request, typed, prevlua, EnterIsDown, retries, ExhangeMutex,
                 slots, LuaMustDie, Alive, heartbeat, SendFunc, luaVars,
                 overdue, histVars>>

Joined ==
  /\ mainPc \in {"join", "joinForever"} /\ luaPc = "dead"
  /\ mainPc' = "done"
  /\ UNCHANGED <<request, typed, prevlua, EnterIsDown, retries, ExhangeMutex,
                 slots, LuaMustDie, Alive, suspended, heartbeat, SendFunc,
                 luaVars, overdue, histVars>>

-----------------------------------------------------------------------------
(* The engine thread: Lua code.  An execution is short (over before the    *)
(* count hook fires), long (the hook sees it, and it ends), or runaway (it *)
(* ends only if the hook aborts it).                                       *)

StartLua(pc) ==
  /\ luaPc' = pc
  /\ exec' \in Kinds
  /\ overran' = FALSE

\* Where LuaMain goes on when the Lua code started at luaPc is over.
AfterLua ==
  [start |-> "top", call |-> "return", script |-> "reset", tick |-> "net",
   event |-> "listen", exit |-> "dead"]

LuaOver ==
  /\ luaPc' = AfterLua[luaPc]
  /\ exec' = "none"
  /\ inError' = FALSE
  /\ UNCHANGED overran

\* Mutant: a failure of the error event runs the error event again.
LuaFailedAgain ==
  /\ inError' = TRUE
  /\ StartLua(luaPc)

\* A failed or aborted execution runs the error event, whose own failure is
\* only printed.
LuaFailed ==
  IF inError
    THEN LuaOver
    ELSE /\ inError' = TRUE
         /\ StartLua(luaPc)

ExecEnds ==
  /\ ~suspended /\ exec \in {"short", "long"}
  /\ LuaOver \/ LuaFailed
  /\ openSockets' \in BOOLEAN
  /\ UNCHANGED <<mainVars, ExhangeMutex, slots, LuaMustDie, Alive, suspended,
                 heartbeat, SendFunc, overdue, pending, delivered>>

\* luadiehook: luaL_error leaves the hook, so LuaMustDie stays raised.
ExecAborted ==
  /\ ~suspended /\ exec \in {"long", "runaway"} /\ LuaMustDie
  /\ LuaFailed
  /\ openSockets' \in BOOLEAN
  /\ UNCHANGED <<mainVars, ExhangeMutex, slots, LuaMustDie, Alive, suspended,
                 heartbeat, SendFunc, overdue, pending, delivered>>

\* Time passes while the engine is anywhere in a turn of its loop.
ClockRuns ==
  /\ luaPc # "dead" /\ ~overdue
  /\ overdue' = TRUE
  /\ UNCHANGED <<mainVars, ExhangeMutex, slots, LuaMustDie, Alive, suspended,
                 heartbeat, SendFunc, luaVars, histVars>>

-----------------------------------------------------------------------------
(* The engine thread: the loop of LuaMain.                                 *)

LoopTop ==
  /\ luaPc = "top" /\ ~suspended
  /\ IF Alive
       THEN /\ luaPc' = "check"
            /\ overdue' = FALSE
            /\ UNCHANGED <<exec, overran>>
       ELSE /\ StartLua("exit")
            /\ UNCHANGED overdue
  /\ UNCHANGED <<mainVars, ExhangeMutex, slots, LuaMustDie, Alive, suspended,
                 heartbeat, SendFunc, inError, openSockets, pending, delivered>>

CheckExchange ==
  /\ luaPc = "check" /\ ~suspended
  /\ CASE ExhangeMutex = 2 -> luaPc' = "read" /\ UNCHANGED <<exec, overran>>
       [] ExhangeMutex = 3 -> StartLua("script")
       [] OTHER -> luaPc' = "beat" /\ UNCHANGED <<exec, overran>>
  /\ UNCHANGED <<mainVars, ExhangeMutex, slots, LuaMustDie, Alive, suspended,
                 heartbeat, SendFunc, inError, openSockets, overdue, pending,
                 delivered>>

\* CallLuaFunction reads the strings the slots point to: if one was deleted
\* in the meantime, what it reads is arbitrary.
SlotsIntact ==
  slots.param = prevlua /\ slots.func \in {NoFunc, SendFunc}

ReadCall ==
  /\ luaPc = "read" /\ ~suspended
  /\ \E ok \in IF SlotsIntact THEN {TRUE} ELSE BOOLEAN :
       delivered' = Append(delivered, [line |-> slots.param, intact |-> ok])
  /\ pending' = 0
  /\ StartLua("call")
  /\ UNCHANGED <<mainVars, ExhangeMutex, slots, LuaMustDie, Alive, suspended,
                 heartbeat, SendFunc, inError, openSockets, overdue>>

\* Mutant: CallLuaFunction returns and nobody frees the exchange.
ReturnFromCallKept ==
  /\ luaPc = "return" /\ ~suspended
  /\ luaPc' = "beat"
  /\ UNCHANGED <<mainVars, ExhangeMutex, slots, LuaMustDie, Alive, suspended,
                 heartbeat, SendFunc, exec, inError, openSockets, overdue,
                 histVars>>

\* CallLuaFunction frees the exchange before it returns to LuaMain ...
ReturnFromCall ==
  /\ luaPc = "return" /\ ~suspended
  /\ ExhangeMutex' = 0
  /\ luaPc' = "reset"
  /\ UNCHANGED <<mainVars, slots, LuaMustDie, Alive, suspended, heartbeat,
                 SendFunc, exec, inError, openSockets, overdue, histVars>>

\* ... and LuaMain frees it again.
ResetExchange ==
  /\ luaPc = "reset" /\ ~suspended
  /\ ExhangeMutex' = 0
  /\ luaPc' = "beat"
  /\ UNCHANGED <<mainVars, slots, LuaMustDie, Alive, suspended, heartbeat,
                 SendFunc, exec, inError, openSockets, overdue, histVars>>

\* TimeForLua runs the tick event once its interval is over.
HeartBeat ==
  /\ luaPc = "beat" /\ ~suspended
  /\ \/ heartbeat /\ StartLua("tick")
     \/ luaPc' = "net" /\ UNCHANGED <<exec, overran>>
  /\ UNCHANGED <<mainVars, ExhangeMutex, slots, LuaMustDie, Alive, suspended,
                 heartbeat, SendFunc, inError, openSockets, overdue, pending,
                 delivered>>

\* Listen, or the idle branch: SuspendThread on itself with the heartbeat off,
\* Sleep(1) otherwise.
PollNetwork ==
  /\ luaPc = "net" /\ ~suspended
  /\ luaPc' = IF openSockets THEN "listen" ELSE "top"
  /\ suspended' = (~openSockets /\ ~heartbeat)
  /\ UNCHANGED <<mainVars, ExhangeMutex, slots, LuaMustDie, Alive, heartbeat,
                 SendFunc, exec, inError, openSockets, overdue, histVars>>

\* One turn of the loop of Listen with a packet or an error: the Recv event.
\* After an error the loop visits the same server again, so that nothing in
\* LuaMain bounds the number of these turns (Network.tla has that loop).
ListenEvent ==
  /\ luaPc = "listen" /\ ~suspended
  /\ StartLua("event")
  /\ UNCHANGED <<mainVars, ExhangeMutex, slots, LuaMustDie, Alive, suspended,
                 heartbeat, SendFunc, inError, openSockets, overdue, pending,
                 delivered>>

ListenReturns ==
  /\ luaPc = "listen" /\ ~suspended
  /\ luaPc' = "top"
  /\ UNCHANGED <<mainVars, ExhangeMutex, slots, LuaMustDie, Alive, suspended,
                 heartbeat, SendFunc, exec, inError, openSockets, overdue,
                 histVars>>

-----------------------------------------------------------------------------
Terminated == mainPc = "done" /\ UNCHANGED vars

UserOrClock ==
  PressEnter \/ ReleaseEnter \/ RunScript \/ ConfirmOptions \/ KeepAlive
    \/ Quit \/ ClockRuns

MainThread ==
  ResumeEngine \/ WaitTurn \/ WaitOver \/ ClearMustDie \/ ClaimExchange
    \/ WriteSlots \/ PostCall \/ JoinTimeout \/ RouseEngine \/ Joined

EngineThread ==
  ExecEnds \/ ExecAborted \/ LoopTop \/ CheckExchange \/ ReadCall
    \/ ReturnFromCall \/ ResetExchange \/ HeartBeat \/ PollNetwork
    \/ ListenEvent \/ ListenReturns

Next == UserOrClock \/ MainThread \/ EngineThread \/ Terminated

Spec == Init /\ [][Next]_vars

\* The scheduler runs both threads; the user and the clock owe nothing, and
\* nor does the loop of Listen, which may go on for ever.
Fairness == WF_vars(MainThread) /\ WF_vars(EngineThread)

FairSpec == Spec /\ Fairness

-----------------------------------------------------------------------------
(* Safety.                                                                 *)

TypeOK ==
  /\ mainPc \in {"loop", "resume", "wait", "clear", "claim", "write", "post",
                 "join", "rouse", "joinForever", "done"}
  /\ luaPc \in {"start", "top", "check", "read", "call", "return", "script",
                "reset", "beat", "tick", "net", "listen", "event", "exit",
                "dead"}
  /\ request \in Call /\ slots \in Call
  /\ typed \in 0 .. MaxLines /\ prevlua \in 0 .. MaxLines
  /\ retries \in 0 .. RetryLimit + 1
  /\ ExhangeMutex \in 0 .. 3
  /\ SendFunc \in 1 .. MaxOptions + 1
  /\ exec \in Kinds \cup {"none"}
  /\ Executing <=> luaPc \in {"start", "call", "script", "tick", "event",
                               "exit"}
  /\ inError => Executing
  /\ EnterIsDown \in BOOLEAN /\ LuaMustDie \in BOOLEAN /\ Alive \in BOOLEAN
  /\ suspended \in BOOLEAN /\ heartbeat \in BOOLEAN /\ inError \in BOOLEAN
  /\ openSockets \in BOOLEAN /\ overdue \in BOOLEAN /\ overran \in BOOLEAN
  /\ pending \in 0 .. MaxLines
  /\ delivered \in Seq([line : 0 .. MaxLines, intact : BOOLEAN])

\* The engine is at work on the call in the exchange.
EngineHoldsSlots == luaPc \in {"read", "call", "return"}
\* The main thread is replacing it.
MainHoldsSlots == mainPc \in {"clear", "claim", "write", "post"}

\* The exchange slots are never rewritten while the engine uses them: the word
\* ExhangeMutex does what a mutex would, though nothing locks it and both
\* LuaMain and CallLuaFunction free it.
SlotsExclusive == ~(EngineHoldsSlots /\ MainHoldsSlots)

\* When CallLuaFunction is about to read the slots a call is outstanding, and
\* the slots name that call: not an older one, nor a half-written one.
TakesPostedCall ==
  luaPc = "read" => pending # 0 /\ slots.param = pending

\* Lines reach Lua in the order they were typed, none of them twice (some may
\* not arrive at all, as the runs of the findings show).
DeliveredInOrder ==
  \A i, j \in 1 .. Len(delivered) :
    i < j => delivered[i].line < delivered[j].line

-----------------------------------------------------------------------------
(* Liveness.  Two things can hold the engine where no abort of Lua code     *)
(* frees it: with the heartbeat off it may miss its resume, and Listen may  *)
(* revisit a server with an error for ever.  Neither happens below.         *)

\* Every call of Listen handles finitely many events.  An event that never
\* ends is not excluded by this: aborting it is what the counter is for.
ListenEndsItsLoop ==
  []<>(luaPc = "listen") => []<>(luaPc \notin {"listen", "event"})

\* MainToLuaThreadCall gives the window back to the user, even when Lua code
\* runs away (in a Recv event too): its retry counter has the hook abort it.
CallReturns ==
  []heartbeat /\ ListenEndsItsLoop => (mainPc = "wait" ~> mainPc = "loop")

\* Closing the application ends: LuaMain leaves its loop, runs the Exit event
\* and WinMain joins it.
ShutdownCompletes ==
  []heartbeat /\ ListenEndsItsLoop => (~Alive ~> mainPc = "done")

-----------------------------------------------------------------------------
(* What comments and the README say and the code does not keep.            *)

\* "Signal ready to be processed" (MainToLuaThreadCall): no step of the engine
\* frees an exchange in which a call waits that it has not taken.
EngineKeepsPostedCall ==
  [][ExhangeMutex = 2 /\ luaPc' # luaPc /\ ~EngineHoldsSlots
       => ExhangeMutex' = 2]_vars

\* "Send(str) - [...] this is the data the user typed" (README): the strings a
\* call points to still exist when CallLuaFunction reads them.
ReceivesWhatWasTyped ==
  \A i \in 1 .. Len(delivered) : delivered[i].intact

\* "Incase thread is suspended" (MainToLuaThreadCall): the engine does not stay
\* suspended over a call that was posted to it.
EngineWakesForCall == ExhangeMutex = 2 /\ suspended ~> ~suspended

\* "Application closed lua execution! (Timeout: %ld)" (luadiehook): only an
\* execution during which a timeout expired is aborted.
OnlyOverdueAborted == [][ExecAborted => overran]_vars
=============================================================================
