--------------------------- MODULE LuaEngineProofs ---------------------------
(***************************************************************************)
(* For every value of the constants: the types of LuaEngine, and the three *)
(* safety properties of its hand-made mutex.  ExhangeMutex alone does not  *)
(* say who may touch the slots; the inductive invariant ties its value to  *)
(* both program counters, and the numbers of the lines to its value.       *)
(***************************************************************************)
EXTENDS LuaEngine, SequenceTheorems, TLAPS

\* Init establishes the types.
LEMMA InitTypeOK == Init => TypeOK
<1> SUFFICES ASSUME Init PROVE TypeOK
  OBVIOUS
<1>1. /\ EnterIsDown \in BOOLEAN /\ LuaMustDie \in BOOLEAN
      /\ suspended \in BOOLEAN /\ inError \in BOOLEAN
      /\ openSockets \in BOOLEAN /\ overdue \in BOOLEAN /\ overran \in BOOLEAN
  BY Zenon DEF Init
<1> QED
  BY <1>1, BoundsAssumption, KindsAssumption, HeartBeatsAssumption, SMT
     DEF Init, TypeOK, Call, NoFunc, Executing

\* Every message handler, the end of the loop and the clock keep the types.
LEMMA UserTypeOK == TypeOK /\ UserOrClock => TypeOK'
<1> SUFFICES ASSUME TypeOK, UserOrClock PROVE TypeOK'
  OBVIOUS
<1> USE BoundsAssumption, KindsAssumption, HeartBeatsAssumption
        DEF TypeOK, Call, NoFunc, Executing, mainVars, luaVars, histVars
<1>1. CASE PressEnter
  BY <1>1, SMT DEF PressEnter
<1>2. CASE ReleaseEnter
  <2>1. EnterIsDown' \in BOOLEAN
    BY <1>2, Zenon DEF ReleaseEnter
  <2> QED
    BY <1>2, <2>1, SMT DEF ReleaseEnter
<1>3. CASE RunScript
  BY <1>3, SMT DEF RunScript
<1>4. CASE ConfirmOptions
  BY <1>4, SMT DEF ConfirmOptions
<1>5. CASE KeepAlive
  <2>1. overdue' \in BOOLEAN /\ LuaMustDie' \in BOOLEAN /\ overran' \in BOOLEAN
    BY <1>5, Zenon DEF KeepAlive
  <2> QED
    BY <1>5, <2>1, SMT DEF KeepAlive
<1>6. CASE Quit
  <2>1. Alive' \in BOOLEAN
    BY <1>6, Zenon DEF Quit
  <2> QED
    BY <1>6, <2>1, SMT DEF Quit
<1>7. CASE ClockRuns
  BY <1>7, SMT DEF ClockRuns
<1> QED
  BY <1>1, <1>2, <1>3, <1>4, <1>5, <1>6, <1>7
     DEF UserOrClock

\* So does every step of MainToLuaThreadCall and of the end of WinMain.
LEMMA MainTypeOK == TypeOK /\ MainThread => TypeOK'
<1> SUFFICES ASSUME TypeOK, MainThread PROVE TypeOK'
  OBVIOUS
<1> USE BoundsAssumption, KindsAssumption, HeartBeatsAssumption
        DEF TypeOK, Call, NoFunc, Executing, mainVars, luaVars, histVars
<1>1. CASE ResumeEngine
  <2>1. suspended' \in BOOLEAN
    BY <1>1, Zenon DEF ResumeEngine
  <2> QED
    BY <1>1, <2>1, SMT DEF ResumeEngine
<1>2. CASE WaitTurn
  <2>1. LuaMustDie' \in BOOLEAN /\ overran' \in BOOLEAN
    BY <1>2, Zenon DEF WaitTurn
  <2> QED
    BY <1>2, <2>1, SMT DEF WaitTurn
<1>3. CASE WaitOver
  BY <1>3, SMT DEF WaitOver
<1>4. CASE ClearMustDie
  <2>1. LuaMustDie' \in BOOLEAN
    BY <1>4, Zenon DEF ClearMustDie
  <2> QED
    BY <1>4, <2>1, SMT DEF ClearMustDie
<1>5. CASE ClaimExchange
  BY <1>5, SMT DEF ClaimExchange
<1>6. CASE WriteSlots
  BY <1>6, SMT DEF WriteSlots
<1>7. CASE PostCall
  BY <1>7, SMT DEF PostCall
<1>8. CASE JoinTimeout
  <2>1. overran' \in BOOLEAN
    BY <1>8, Zenon DEF JoinTimeout
  <2> QED
    BY <1>8, <2>1, SMT DEF JoinTimeout
<1>9. CASE RouseEngine
  <2>1. suspended' \in BOOLEAN
    BY <1>9, Zenon DEF RouseEngine
  <2> QED
    BY <1>9, <2>1, SMT DEF RouseEngine
<1>10. CASE Joined
  BY <1>10, SMT DEF Joined
<1> QED
  BY <1>1, <1>2, <1>3, <1>4, <1>5, <1>6, <1>7, <1>8, <1>9, <1>10
     DEF MainThread

\* So does every step of the engine thread.
LEMMA EngineTypeOK == TypeOK /\ EngineThread => TypeOK'
<1> SUFFICES ASSUME TypeOK, EngineThread PROVE TypeOK'
  OBVIOUS
<1> USE BoundsAssumption, KindsAssumption, HeartBeatsAssumption
        DEF TypeOK, Call, NoFunc, Executing, mainVars, luaVars, histVars
<1>1. CASE ExecEnds
  <2>1. inError' \in BOOLEAN /\ overran' \in BOOLEAN /\ openSockets' \in BOOLEAN
    BY <1>1, Zenon DEF ExecEnds, LuaOver, LuaFailed, StartLua, AfterLua
  <2> QED
    BY <1>1, <2>1, SMT DEF ExecEnds, LuaOver, LuaFailed, StartLua, AfterLua
<1>2. CASE ExecAborted
  <2>1. inError' \in BOOLEAN /\ overran' \in BOOLEAN /\ openSockets' \in BOOLEAN
    BY <1>2, Zenon DEF ExecAborted, LuaOver, LuaFailed, StartLua, AfterLua
  <2> QED
    BY <1>2, <2>1, SMT DEF ExecAborted, LuaOver, LuaFailed, StartLua, AfterLua
<1>3. CASE LoopTop
  <2>1. overdue' \in BOOLEAN /\ overran' \in BOOLEAN
    BY <1>3, Zenon DEF LoopTop, StartLua
  <2> QED
    BY <1>3, <2>1, SMT DEF LoopTop, StartLua
<1>4. CASE CheckExchange
  <2>1. overran' \in BOOLEAN
    BY <1>4, Zenon DEF CheckExchange, StartLua
  <2>2. CASE ExhangeMutex = 2
    BY <1>4, <2>1, <2>2, SMT DEF CheckExchange
  <2>3. CASE ExhangeMutex = 3
    <3>1. luaPc' = "script" /\ exec' \in Kinds
      BY <1>4, <2>3, SMT DEF CheckExchange, StartLua
    <3>2. UNCHANGED <<mainVars, ExhangeMutex, slots, LuaMustDie, Alive,
                      suspended, heartbeat, SendFunc, inError, openSockets,
                      overdue, pending, delivered>>
      BY <1>4, SMT DEF CheckExchange
    <3> QED
      BY <2>1, <3>1, <3>2, SMT
  <2>4. CASE ExhangeMutex \notin {2, 3}
    BY <1>4, <2>1, <2>4, SMTT(30) DEF CheckExchange
  <2> QED
    BY <2>2, <2>3, <2>4
<1>5. CASE ReadCall
  <2>1. overran' \in BOOLEAN
    BY <1>5, Zenon DEF ReadCall, StartLua
  <2>2. delivered' \in Seq([line : 0 .. MaxLines, intact : BOOLEAN])
    <3> PICK ok \in BOOLEAN :
               delivered' = Append(delivered, [line |-> slots.param, intact |-> ok])
      BY <1>5, Zenon DEF ReadCall
    <3>1. [line |-> slots.param, intact |-> ok]
            \in [line : 0 .. MaxLines, intact : BOOLEAN]
      OBVIOUS
    <3> QED
      BY <3>1, SMT
  <2> QED
    BY <1>5, <2>1, <2>2, SMT DEF ReadCall, StartLua
<1>6. CASE ReturnFromCall
  BY <1>6, SMT DEF ReturnFromCall
<1>7. CASE ResetExchange
  BY <1>7, SMT DEF ResetExchange
<1>8. CASE HeartBeat
  <2>1. overran' \in BOOLEAN
    BY <1>8, Zenon DEF HeartBeat, StartLua
  <2> QED
    BY <1>8, <2>1, SMT DEF HeartBeat, StartLua
<1>9. CASE PollNetwork
  <2>1. suspended' \in BOOLEAN
    BY <1>9, Zenon DEF PollNetwork
  <2> QED
    BY <1>9, <2>1, SMT DEF PollNetwork
<1>10. CASE ListenEvent
  <2>1. overran' \in BOOLEAN
    BY <1>10, Zenon DEF ListenEvent, StartLua
  <2> QED
    BY <1>10, <2>1, SMT DEF ListenEvent, StartLua
<1>11. CASE ListenReturns
  BY <1>11, SMT DEF ListenReturns
<1> QED
  BY <1>1, <1>2, <1>3, <1>4, <1>5, <1>6, <1>7, <1>8, <1>9, <1>10, <1>11
     DEF EngineThread

\* The types hold in every reachable state of the two threads.
THEOREM TypeCorrect == Spec => []TypeOK
<1>1. TypeOK /\ [Next]_vars => TypeOK'
  <2> SUFFICES ASSUME TypeOK, [Next]_vars PROVE TypeOK'
    OBVIOUS
  <2>1. CASE UserOrClock \/ MainThread \/ EngineThread
    BY <2>1, UserTypeOK, MainTypeOK, EngineTypeOK
  <2>2. CASE UNCHANGED vars
    BY <2>2 DEF vars, mainVars, luaVars, histVars, TypeOK, Executing
  <2> QED
    BY <2>1, <2>2 DEF Next, Terminated
<1> QED
  BY InitTypeOK, <1>1, PTL DEF Spec

-----------------------------------------------------------------------------
(* The inductive invariant.                                                *)

\* MainToLuaThreadCall is under way.
InCall == mainPc \in {"resume", "wait", "clear", "claim", "write", "post"}

\* What the word says about the two program counters.
ExchangeInv ==
  /\ mainPc \in {"clear", "claim"} => ExhangeMutex = 0
  /\ mainPc \in {"write", "post"} => ExhangeMutex \in {0, 1}
  /\ EngineHoldsSlots => ExhangeMutex \in {2, 3} /\ ~MainHoldsSlots

\* What the slots hold.
CallInv ==
  /\ InCall => request.param = typed /\ typed > 0
  /\ mainPc = "post" => slots = request
  /\ ExhangeMutex = 2 /\ ~EngineHoldsSlots =>
       pending # 0 /\ slots.param = pending
  /\ TakesPostedCall

\* How the numbers of the lines are ordered.
OrderInv ==
  /\ pending <= typed
  /\ InCall => pending < typed
  /\ \A i \in 1 .. Len(delivered) :
       /\ delivered[i].line <= typed
       /\ InCall => delivered[i].line < typed
       /\ pending # 0 => delivered[i].line < pending
  /\ DeliveredInOrder

IndInv == ExchangeInv /\ CallInv /\ OrderInv

\* Nothing is posted, held or delivered at first.
LEMMA InitIndInv == Init => IndInv
  BY SMT DEF Init, IndInv, ExchangeInv, CallInv, OrderInv, EngineHoldsSlots,
             MainHoldsSlots, InCall, TakesPostedCall, DeliveredInOrder

\* What IndInv reads, but for the program counters.
exchangeVars == <<request, typed, ExhangeMutex, slots, pending, delivered>>

\* A step of the main thread outside MainToLuaThreadCall that leaves the
\* exchange alone keeps the invariant.
LEMMA MainMoves ==
  ASSUME IndInv, UNCHANGED <<exchangeVars, luaPc>>,
         mainPc' = mainPc \/ mainPc' \in {"join", "rouse", "joinForever", "done"}
  PROVE  IndInv'
  BY SMT DEF IndInv, ExchangeInv, CallInv, OrderInv, EngineHoldsSlots,
             MainHoldsSlots, InCall, TakesPostedCall, DeliveredInOrder,
             exchangeVars

\* So does a step of the engine that neither starts nor ends its hold of the
\* slots.
LEMMA EngineMoves ==
  ASSUME IndInv, UNCHANGED <<exchangeVars, mainPc>>,
         EngineHoldsSlots' = EngineHoldsSlots, luaPc' # "read"
  PROVE  IndInv'
  BY SMT DEF IndInv, ExchangeInv, CallInv, OrderInv, MainHoldsSlots, InCall,
             TakesPostedCall, DeliveredInOrder, exchangeVars

\* The numbers of the lines are natural numbers.
LEMMA LinesAreNumbers ==
  ASSUME TypeOK
  PROVE  /\ typed \in Nat /\ pending \in Nat /\ Len(delivered) \in Nat
         /\ \A i \in 1 .. Len(delivered) : delivered[i].line \in Nat
<1>1. delivered \in Seq([line : 0 .. MaxLines, intact : BOOLEAN])
  BY DEF TypeOK
<1>2. \A i \in 1 .. Len(delivered) :
        delivered[i] \in [line : 0 .. MaxLines, intact : BOOLEAN]
  BY <1>1, ElementOfSeq
<1>3. Len(delivered) \in Nat
  BY <1>1, SMT
<1>4. typed \in 0 .. MaxLines /\ pending \in 0 .. MaxLines
  BY DEF TypeOK
<1>5. typed \in Nat /\ pending \in Nat
  BY <1>4, BoundsAssumption, SMT DEF BoundsAssumption
<1>6. \A k \in 0 .. MaxLines : k \in Nat
  BY BoundsAssumption, SMT DEF BoundsAssumption
<1>7. \A i \in 1 .. Len(delivered) : delivered[i].line \in 0 .. MaxLines
  BY <1>2
<1> QED
  BY <1>3, <1>5, <1>6, <1>7

\* The user and the clock: only Enter and the menu touch the exchange.
LEMMA UserIndInv == TypeOK /\ IndInv /\ UserOrClock => IndInv'
<1> SUFFICES ASSUME TypeOK, IndInv, UserOrClock PROVE IndInv'
  OBVIOUS
<1> USE DEF mainVars, luaVars, histVars
<1>1. CASE PressEnter
  <2>1. /\ typed' = typed + 1 /\ mainPc = "loop"
        /\ \/ mainPc' = mainPc /\ request' = request
           \/ mainPc' = "resume" /\ request'.param = typed'
        /\ UNCHANGED <<ExhangeMutex, slots, pending, delivered, luaPc>>
    BY <1>1, SMT DEF PressEnter
  <2>2. typed \in Nat /\ pending \in Nat
        /\ \A i \in 1 .. Len(delivered) : delivered[i].line \in Nat
    BY LinesAreNumbers
  <2> QED
    BY <2>1, <2>2, SMT
       DEF IndInv, ExchangeInv, CallInv, OrderInv, EngineHoldsSlots,
           MainHoldsSlots, InCall, TakesPostedCall, DeliveredInOrder
<1>2. CASE ReleaseEnter
  BY <1>2, MainMoves DEF ReleaseEnter, exchangeVars
<1>3. CASE RunScript
  BY <1>3, SMT
     DEF RunScript, IndInv, ExchangeInv, CallInv, OrderInv, EngineHoldsSlots,
         MainHoldsSlots, InCall, TakesPostedCall, DeliveredInOrder
<1>4. CASE ConfirmOptions
  BY <1>4, MainMoves DEF ConfirmOptions, exchangeVars
<1>5. CASE KeepAlive
  BY <1>5, MainMoves DEF KeepAlive, exchangeVars
<1>6. CASE Quit
  BY <1>6, MainMoves DEF Quit, exchangeVars
<1>7. CASE ClockRuns
  BY <1>7, MainMoves DEF ClockRuns, exchangeVars
<1> QED
  BY <1>1, <1>2, <1>3, <1>4, <1>5, <1>6, <1>7 DEF UserOrClock

\* MainToLuaThreadCall: it claims the exchange only when it is free, and what
\* it posts is newer than all that was delivered.
LEMMA MainIndInv == TypeOK /\ IndInv /\ MainThread => IndInv'
<1> SUFFICES ASSUME TypeOK, IndInv, MainThread PROVE IndInv'
  OBVIOUS
<1> USE DEF mainVars, luaVars, histVars
<1>1. CASE ResumeEngine
  BY <1>1, SMT
     DEF ResumeEngine, IndInv, ExchangeInv, CallInv, OrderInv, EngineHoldsSlots,
         MainHoldsSlots, InCall, TakesPostedCall, DeliveredInOrder
<1>2. CASE WaitTurn
  BY <1>2, MainMoves DEF WaitTurn, exchangeVars
<1>3. CASE WaitOver
  <2>1. ExhangeMutex = 0
    BY <1>3, SMT DEF WaitOver, TypeOK
  <2> QED
    BY <1>3, <2>1, SMT
       DEF WaitOver, IndInv, ExchangeInv, CallInv, OrderInv, EngineHoldsSlots,
           MainHoldsSlots, InCall, TakesPostedCall, DeliveredInOrder
<1>4. CASE ClearMustDie
  BY <1>4, SMT
     DEF ClearMustDie, IndInv, ExchangeInv, CallInv, OrderInv, EngineHoldsSlots,
         MainHoldsSlots, InCall, TakesPostedCall, DeliveredInOrder
<1>5. CASE ClaimExchange
  BY <1>5, SMT
     DEF ClaimExchange, IndInv, ExchangeInv, CallInv, OrderInv,
         EngineHoldsSlots, MainHoldsSlots, InCall, TakesPostedCall,
         DeliveredInOrder
<1>6. CASE WriteSlots
  BY <1>6, SMT
     DEF WriteSlots, IndInv, ExchangeInv, CallInv, OrderInv, EngineHoldsSlots,
         MainHoldsSlots, InCall, TakesPostedCall, DeliveredInOrder
<1>7. CASE PostCall
  <2>1. InCall /\ ~EngineHoldsSlots /\ slots.param = typed /\ typed > 0
    BY <1>7, SMT DEF PostCall, IndInv, ExchangeInv, CallInv, InCall,
                     EngineHoldsSlots, MainHoldsSlots
  <2>2. /\ pending' = typed /\ mainPc' = "loop" /\ ExhangeMutex' = 2
        /\ UNCHANGED <<request, typed, slots, delivered, luaPc>>
    BY <1>7, <2>1, SMT DEF PostCall, IndInv, CallInv
  <2>3. typed \in Nat
    BY BoundsAssumption, SMT DEF TypeOK, BoundsAssumption
  <2> QED
    BY <2>1, <2>2, <2>3, SMT
       DEF IndInv, ExchangeInv, CallInv, OrderInv, EngineHoldsSlots,
           MainHoldsSlots, InCall, TakesPostedCall, DeliveredInOrder
<1>8. CASE JoinTimeout
  BY <1>8, MainMoves DEF JoinTimeout, exchangeVars
<1>9. CASE RouseEngine
  BY <1>9, MainMoves DEF RouseEngine, exchangeVars
<1>10. CASE Joined
  BY <1>10, MainMoves DEF Joined, exchangeVars
<1> QED
  BY <1>1, <1>2, <1>3, <1>4, <1>5, <1>6, <1>7, <1>8, <1>9, <1>10
     DEF MainThread

\* The engine: it takes a call only from an exchange that reads 2, and what it
\* takes is newer than all it took before.
LEMMA EngineIndInv == TypeOK /\ IndInv /\ EngineThread => IndInv'
<1> SUFFICES ASSUME TypeOK, IndInv, EngineThread PROVE IndInv'
  OBVIOUS
<1> USE DEF mainVars, luaVars, histVars
<1>1. CASE ExecEnds \/ ExecAborted
  <2>1. /\ luaPc \in {"start", "call", "script", "tick", "event", "exit"}
        /\ luaPc' = luaPc \/ luaPc' = AfterLua[luaPc]
        /\ UNCHANGED <<exchangeVars, mainPc>>
    BY <1>1, SMT DEF ExecEnds, ExecAborted, LuaOver, LuaFailed, StartLua,
                     TypeOK, Executing, exchangeVars
  <2>2. luaPc' # "read" /\ EngineHoldsSlots' = EngineHoldsSlots
    BY <2>1, SMT DEF EngineHoldsSlots, AfterLua
  <2> QED
    BY <2>1, <2>2, EngineMoves
<1>2. CASE LoopTop \/ HeartBeat \/ PollNetwork \/ ListenEvent \/ ListenReturns
  <2>1. /\ luaPc \in {"top", "beat", "net", "listen"}
        /\ luaPc' \in {"top", "check", "exit", "tick", "net", "listen", "event"}
        /\ UNCHANGED <<exchangeVars, mainPc>>
    BY <1>2, SMT DEF LoopTop, HeartBeat, PollNetwork, ListenEvent,
                     ListenReturns, StartLua, exchangeVars
  <2>2. luaPc' # "read" /\ EngineHoldsSlots' = EngineHoldsSlots
    BY <2>1, SMT DEF EngineHoldsSlots
  <2> QED
    BY <2>1, <2>2, EngineMoves
<1>3. CASE CheckExchange
  <2>1. /\ luaPc = "check"
        /\ \/ ExhangeMutex = 2 /\ luaPc' = "read"
           \/ ExhangeMutex # 2 /\ luaPc' \in {"script", "beat"}
        /\ UNCHANGED <<exchangeVars, mainPc>>
    BY <1>3, SMT DEF CheckExchange, StartLua, exchangeVars
  <2>2. CASE luaPc' = "read"
    BY <2>1, <2>2, SMT
       DEF IndInv, ExchangeInv, CallInv, OrderInv, EngineHoldsSlots,
           MainHoldsSlots, InCall, TakesPostedCall, DeliveredInOrder,
           exchangeVars
  <2>3. CASE luaPc' # "read"
    BY <2>1, <2>3, EngineMoves, SMT DEF EngineHoldsSlots
  <2> QED
    BY <2>2, <2>3
<1>4. CASE ReadCall
  <2>1. PICK ok \in BOOLEAN :
          delivered' = Append(delivered, [line |-> slots.param, intact |-> ok])
    BY <1>4, Zenon DEF ReadCall
  <2>2. /\ luaPc = "read" /\ luaPc' = "call" /\ pending' = 0
        /\ UNCHANGED <<mainPc, request, typed, ExhangeMutex, slots>>
    BY <1>4, SMT DEF ReadCall, StartLua
  <2>3. pending # 0 /\ slots.param = pending
    BY <2>2, SMT DEF IndInv, CallInv, TakesPostedCall
  <2>4. ExchangeInv' /\ CallInv'
    BY <2>2, SMT DEF IndInv, ExchangeInv, CallInv, EngineHoldsSlots,
                     MainHoldsSlots, InCall, TakesPostedCall
  <2>5. /\ Len(delivered') = Len(delivered) + 1 /\ Len(delivered) \in Nat
        /\ \A i \in 1 .. Len(delivered) : delivered'[i] = delivered[i]
        /\ delivered'[Len(delivered) + 1].line = pending
    <3>1. delivered \in Seq([line : 0 .. MaxLines, intact : BOOLEAN])
      BY DEF TypeOK
    <3> QED
      BY <2>1, <2>3, <3>1, SMT
  <2>6. OrderInv'
    <3> DEFINE len == Len(delivered)
    <3>1. /\ pending \in Nat /\ len \in Nat /\ typed \in Nat
          /\ \A i \in 1 .. len : delivered[i].line \in Nat
      BY LinesAreNumbers
    <3>2. \A i \in 1 .. len :
            delivered'[i].line < pending /\ delivered'[i].line <= typed
      BY <2>3, <2>5, <3>1, SMT DEF IndInv, OrderInv
    <3>3. /\ delivered'[len + 1].line <= typed
          /\ InCall => delivered'[len + 1].line < typed
      BY <2>5, SMT DEF IndInv, OrderInv
    <3>4. \A i \in 1 .. len : InCall => delivered'[i].line < typed
      BY <2>5, SMT DEF IndInv, OrderInv
    <3>5. \A i \in 1 .. len + 1 : i = len + 1 \/ i \in 1 .. len
      BY <3>1, SMT
    <3>6. DeliveredInOrder'
      <4> SUFFICES ASSUME NEW i \in 1 .. len + 1, NEW j \in 1 .. len + 1, i < j
                   PROVE  delivered'[i].line < delivered'[j].line
        BY <2>5 DEF DeliveredInOrder
      <4>1. i \in 1 .. len
        BY <3>1, SMT
      <4>2. CASE j = len + 1
        BY <2>5, <3>2, <4>1, <4>2
      <4>3. CASE j \in 1 .. len
        BY <2>5, <4>1, <4>3 DEF IndInv, OrderInv, DeliveredInOrder
      <4> QED
        BY <3>5, <4>2, <4>3
    <3>7. pending' <= typed' /\ (InCall' => pending' < typed')
      BY <2>2, <2>3, <3>1, SMT DEF IndInv, OrderInv, InCall
    <3> QED
      BY <2>2, <2>5, <3>2, <3>3, <3>4, <3>5, <3>6, <3>7, SMT
         DEF OrderInv, InCall
  <2> QED
    BY <2>4, <2>6 DEF IndInv
<1>5. CASE ReturnFromCall \/ ResetExchange
  <2>1. /\ luaPc' \in {"reset", "beat"} /\ ExhangeMutex' = 0
        /\ UNCHANGED <<mainPc, request, typed, slots, pending, delivered>>
    BY <1>5, SMT DEF ReturnFromCall, ResetExchange
  <2> QED
    BY <2>1, SMT
       DEF IndInv, ExchangeInv, CallInv, OrderInv, EngineHoldsSlots,
           MainHoldsSlots, InCall, TakesPostedCall, DeliveredInOrder
<1> QED
  BY <1>1, <1>2, <1>3, <1>4, <1>5 DEF EngineThread

\* The invariant holds in every reachable state.
THEOREM Invariance == Spec => []IndInv
<1>1. TypeOK /\ IndInv /\ [Next]_vars => IndInv'
  <2> SUFFICES ASSUME TypeOK, IndInv, [Next]_vars PROVE IndInv'
    OBVIOUS
  <2>1. CASE UserOrClock \/ MainThread \/ EngineThread
    BY <2>1, UserIndInv, MainIndInv, EngineIndInv
  <2>2. CASE UNCHANGED vars
    BY <2>2, MainMoves DEF vars, mainVars, luaVars, histVars, exchangeVars
  <2> QED
    BY <2>1, <2>2 DEF Next, Terminated
<1> QED
  BY InitIndInv, TypeCorrect, <1>1, PTL DEF Spec

\* The main thread never rewrites the exchange while the engine reads it.
THEOREM SlotsExclusiveHolds == Spec => []SlotsExclusive
<1>1. IndInv => SlotsExclusive
  BY DEF IndInv, ExchangeInv, SlotsExclusive
<1> QED
  BY Invariance, <1>1, PTL

\* What the engine reads is the whole of the call last posted.
THEOREM TakesPostedCallHolds == Spec => []TakesPostedCall
<1>1. IndInv => TakesPostedCall
  BY DEF IndInv, CallInv
<1> QED
  BY Invariance, <1>1, PTL

\* However the threads interleave, lines reach Lua in the order typed and none
\* twice.
THEOREM DeliveredInOrderHolds == Spec => []DeliveredInOrder
<1>1. IndInv => DeliveredInOrder
  BY DEF IndInv, OrderInv
<1> QED
  BY Invariance, <1>1, PTL

=============================================================================
