------------------------------- MODULE MCConsole -------------------------------
(* The print queue with the output box it writes to, and lines for TLC.    *)
EXTENDS ConsoleQueue, OutputBox

\* By number: the empty line, one longer than the limit, and between.
SomeLengths == [n \in Lines |-> (2 * n) % 5]

\* Two limits, one lower than the other, and one that SaveAllShit makes 0.
SomeLimits == {-1, 2, 3}

\* The lines of the queue are those that the box is given.
ASSUME LinesHaveLengths == DOMAIN LineLengths = Lines

ConsoleInit == Init /\ BoxInit

\* Next of ConsoleQueue, action by action; ShowLine calls RawPuts.
ConsoleNext ==
  \/ EnginePush /\ UNCHANGED boxVars
  \/ MainPush /\ UNCHANGED boxVars
  \/ PublishRoot /\ UNCHANGED boxVars
  \/ LinkBack /\ UNCHANGED boxVars
  \/ Dispatch /\ UNCHANGED boxVars
  \/ CheckEmpty /\ UNCHANGED boxVars
  \/ Detach /\ UNCHANGED boxVars
  \/ Walk /\ UNCHANGED boxVars
  \/ ShowLine /\ IF ok /\ visible THEN RawPuts(node) ELSE UNCHANGED boxVars
  \/ DispatchNested /\ UNCHANGED boxVars
  \/ Drained /\ UNCHANGED boxVars
  \/ HandlerReturns /\ UNCHANGED boxVars
  \/ HandlerPrints /\ UNCHANGED boxVars
  \/ InHandler /\ SetLimit /\ UNCHANGED vars
  \/ Clear /\ ClearBox
  \/ SetVisible /\ UNCHANGED boxVars
  \/ Ended /\ UNCHANGED boxVars

\* A Push, once begun, runs to its end; the timer set in WinMain keeps
\* GetMessage supplied.  The engine need not print, and a message handler need
\* not return.
ConsoleSpec ==
  /\ ConsoleInit /\ [][ConsoleNext]_<<vars, boxVars>>
  /\ WF_vars(PushSteps) /\ WF_vars(MainThread)

=============================================================================
