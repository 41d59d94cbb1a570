------------------------------- MODULE SqlWorker -------------------------------
(***************************************************************************)
(* The luasqlite library: the Lua engine thread (the caller) hands SQL     *)
(* statements to a worker thread.  ExecuteSQL allocates a job, pushes it   *)
(* on a stack that both threads share and, when the worker is not active,  *)
(* resumes it; for a synchronous statement it then spins on the job's flag *)
(* hasSomeoneWaiting.  The worker pops jobs until the stack is empty, with *)
(* the critical section SQLSECT held throughout, and suspends itself.      *)
(*                                                                         *)
(* A job is named by the number of the call that allocated it, so that an  *)
(* address is never reused and a dangling pointer can be seen.             *)
(***************************************************************************)
EXTENDS Naturals, Sequences

CONSTANTS
  Connections,  \* the LSQLite userdata
  MaxJobs       \* bound: how many statements are executed

ASSUME JobsAssumption == MaxJobs \in Nat

VARIABLES
  open,               \* the connections with dbptr # NULL
  db,                 \* SQLS::dbptr, as the connection it was copied from
  hasSomeoneWaiting,  \* SQLS::hasSomeoneWaiting
  allocated,          \* the jobs that are not deleted
  made,               \* number of jobs allocated
  SQLStack,           \* the stack, top first
  WTActive,           \* the worker is at work
  SQLSECT,            \* owner of the critical section
  suspended,          \* the worker thread's suspend count is 1
  workerPc, cursor,   \* where the worker is, and its job
  callerPc, sqls,     \* where the caller is, and its job
  waitForRet,         \* ... and whether it waits for it
  leaked,             \* a Lua error left Close with the section entered
  ran                 \* history: the jobs executed

jobs == <<db, hasSomeoneWaiting, allocated, made>>
worker == <<workerPc, cursor>>
caller == <<callerPc, sqls, waitForRet>>
vars == <<open, jobs, SQLStack, WTActive, SQLSECT, suspended, worker, caller,
          leaked, ran>>

Jobs == 1 .. MaxJobs

\* luaopen_luasqlite: the worker is created suspended.
Init ==
  /\ open = {}
  /\ db \in [Jobs -> Connections]
  /\ hasSomeoneWaiting = [j \in Jobs |-> FALSE]
  /\ allocated = {} /\ made = 0 /\ SQLStack = <<>>
  /\ WTActive = FALSE /\ SQLSECT = "none" /\ suspended = TRUE
  /\ workerPc = "enter" /\ cursor = 0
  /\ callerPc = "idle" /\ sqls = 0 /\ waitForRet = FALSE /\ leaked = FALSE
  /\ ran = {}

-----------------------------------------------------------------------------
(* The caller: connections.                                                *)

Open ==
  /\ callerPc = "idle"
  /\ \E c \in Connections \ open : open' = open \cup {c}
  /\ UNCHANGED <<jobs, SQLStack, WTActive, SQLSECT, suspended, worker, caller,
                 leaked, ran>>

\* Close waits for the critical section; the finalizer does not.
Disconnect ==
  /\ callerPc = "idle"
  /\ \E c \in open : open' = open \ {c}
  /\ UNCHANGED <<jobs, SQLStack, WTActive, SQLSECT, suspended, worker, caller,
                 leaked, ran>>

\* The section is re-entrant: the caller passes it when it owns it.
SectionFree == SQLSECT \in {"none", "caller"}

Close == SectionFree /\ Disconnect
Collect == Disconnect

\* Close of something that is no connection, such as the nil of an Open that
\* failed: checkLSQLite raises its Lua error inside the section.
CloseFails ==
  /\ callerPc = "idle" /\ SectionFree
  /\ SQLSECT' = "caller" /\ leaked' = TRUE
  /\ UNCHANGED <<open, jobs, SQLStack, WTActive, suspended, worker, caller,
                 ran>>

-----------------------------------------------------------------------------
(* The caller: ExecuteSQL.                                                 *)

\* Mutant: the flag is left for after the push.
ExecuteSQLFlagLate(c, wait) ==
  /\ callerPc = "idle" /\ made < MaxJobs
  /\ made' = made + 1 /\ sqls' = made' /\ waitForRet' = wait
  /\ allocated' = allocated \cup {made'}
  /\ db' = [db EXCEPT ![made'] = c]
  /\ SQLStack' = <<made'>> \o SQLStack
  /\ callerPc' = "test"
  /\ UNCHANGED <<open, hasSomeoneWaiting, WTActive, SQLSECT, suspended, worker,
                 leaked, ran>>

ExecuteSQL(c, wait) ==
  /\ callerPc = "idle" /\ made < MaxJobs
  /\ made' = made + 1 /\ sqls' = made' /\ waitForRet' = wait
  /\ allocated' = allocated \cup {made'}
  /\ db' = [db EXCEPT ![made'] = c]
  /\ hasSomeoneWaiting' = [hasSomeoneWaiting EXCEPT ![made'] = wait]
  /\ SQLStack' = <<made'>> \o SQLStack
  /\ callerPc' = "test"
  /\ UNCHANGED <<open, WTActive, SQLSECT, suspended, worker, leaked, ran>>

\* Mutant: the test of dbptr is missing.
ExecuteUnchecked == \E c \in Connections, wait \in BOOLEAN : ExecuteSQL(c, wait)

\* Execute and Querry refuse a closed connection; Insert does not look.
Execute == \E c \in open, wait \in BOOLEAN : ExecuteSQL(c, wait)
Querry == \E c \in open : ExecuteSQL(c, TRUE)
Insert == \E c \in Connections : ExecuteSQL(c, FALSE)

AfterPush == IF waitForRet THEN "spin" ELSE "idle"

TestActive ==
  /\ callerPc = "test"
  /\ callerPc' = IF WTActive THEN AfterPush ELSE "resume"
  /\ UNCHANGED <<open, jobs, SQLStack, WTActive, SQLSECT, suspended, worker,
                 sqls, waitForRet, leaked, ran>>

ResumeWorker ==
  /\ callerPc = "resume"
  /\ suspended' = FALSE
  /\ callerPc' = AfterPush
  /\ UNCHANGED <<open, jobs, SQLStack, WTActive, SQLSECT, worker, sqls,
                 waitForRet, leaked, ran>>

Spin ==
  /\ callerPc = "spin"
  /\ callerPc' = IF hasSomeoneWaiting[sqls] THEN "spinEnter" ELSE "collect"
  /\ UNCHANGED <<open, jobs, SQLStack, WTActive, SQLSECT, suspended, worker,
                 sqls, waitForRet, leaked, ran>>

\* EnterCriticalSection and LeaveCriticalSection, in ExecuteSQL and in Wait.
EnterSection ==
  /\ callerPc \in {"spinEnter", "waitEnter"} /\ SectionFree
  /\ SQLSECT' = "caller"
  /\ callerPc' = IF callerPc = "spinEnter" THEN "spinLeave" ELSE "waitLeave"
  /\ UNCHANGED <<open, jobs, SQLStack, WTActive, suspended, worker, sqls,
                 waitForRet, leaked, ran>>

LeaveSection ==
  /\ callerPc \in {"spinLeave", "waitLeave"}
  /\ SQLSECT' = IF leaked THEN "caller" ELSE "none"
  /\ callerPc' = IF callerPc = "spinLeave" THEN "spin" ELSE "wait"
  /\ UNCHANGED <<open, jobs, SQLStack, WTActive, suspended, worker, sqls,
                 waitForRet, leaked, ran>>

\* The result is read and the job deleted.
TakeResult ==
  /\ callerPc = "collect"
  /\ allocated' = allocated \ {sqls}
  /\ callerPc' = "idle"
  /\ UNCHANGED <<open, db, hasSomeoneWaiting, made, SQLStack, WTActive, SQLSECT,
                 suspended, worker, sqls, waitForRet, leaked, ran>>

-----------------------------------------------------------------------------
(* The caller: Wait.                                                       *)

BeginWait ==
  /\ callerPc = "idle"
  /\ callerPc' = "wait"
  /\ UNCHANGED <<open, jobs, SQLStack, WTActive, SQLSECT, suspended, worker,
                 sqls, waitForRet, leaked, ran>>

TestWait ==
  /\ callerPc = "wait"
  /\ callerPc' = IF WTActive THEN "waitEnter" ELSE "idle"
  /\ UNCHANGED <<open, jobs, SQLStack, WTActive, SQLSECT, suspended, worker,
                 sqls, waitForRet, leaked, ran>>

-----------------------------------------------------------------------------
(* The worker: SQLThreadSpin.                                              *)

Activate ==
  /\ workerPc = "enter" /\ ~suspended /\ SQLSECT = "none"
  /\ SQLSECT' = "worker"
  /\ WTActive' = TRUE
  /\ workerPc' = "pop"
  /\ UNCHANGED <<open, jobs, SQLStack, suspended, cursor, caller, leaked, ran>>

\* Mutant: the job is peeked at.
PopNothing ==
  /\ workerPc = "pop"
  /\ IF SQLStack = <<>> THEN cursor' = 0 /\ workerPc' = "deactivate"
     ELSE cursor' = Head(SQLStack) /\ workerPc' = "run"
  /\ UNCHANGED <<open, jobs, SQLStack, WTActive, SQLSECT, suspended, caller,
                 leaked, ran>>

\* Mutant: the oldest job is taken.
PopOldest ==
  /\ workerPc = "pop"
  /\ IF SQLStack = <<>>
       THEN cursor' = 0 /\ workerPc' = "deactivate" /\ UNCHANGED SQLStack
       ELSE /\ cursor' = SQLStack[Len(SQLStack)]
            /\ SQLStack' = SubSeq(SQLStack, 1, Len(SQLStack) - 1)
            /\ workerPc' = "run"
  /\ UNCHANGED <<open, jobs, WTActive, SQLSECT, suspended, caller, leaked, ran>>

Pop ==
  /\ workerPc = "pop"
  /\ IF SQLStack = <<>>
       THEN cursor' = 0 /\ workerPc' = "deactivate" /\ UNCHANGED SQLStack
       ELSE /\ cursor' = Head(SQLStack)
            /\ SQLStack' = Tail(SQLStack)
            /\ workerPc' = "run"
  /\ UNCHANGED <<open, jobs, WTActive, SQLSECT, suspended, caller, leaked, ran>>

\* sqlite3_exec or sqlite3_prepare_v2.
Run ==
  /\ workerPc = "run"
  /\ ran' = ran \cup {cursor}
  /\ workerPc' = "finish"
  /\ UNCHANGED <<open, jobs, SQLStack, WTActive, SQLSECT, suspended, cursor,
                 caller, leaked>>

\* Mutants: the worker deletes every job; it does not lower the flag.
FinishDeleting ==
  /\ workerPc = "finish"
  /\ allocated' = allocated \ {cursor}
  /\ hasSomeoneWaiting' = [hasSomeoneWaiting EXCEPT ![cursor] = FALSE]
  /\ workerPc' = "pop"
  /\ UNCHANGED <<open, db, made, SQLStack, WTActive, SQLSECT, suspended, cursor,
                 caller, leaked, ran>>

FinishSilent ==
  /\ workerPc = "finish"
  /\ allocated' = IF hasSomeoneWaiting[cursor] THEN allocated
                  ELSE allocated \ {cursor}
  /\ workerPc' = "pop"
  /\ UNCHANGED <<open, db, hasSomeoneWaiting, made, SQLStack, WTActive, SQLSECT,
                 suspended, cursor, caller, leaked, ran>>

\* A job nobody waits for is deleted, another handed over to its caller.
Finish ==
  /\ workerPc = "finish"
  /\ IF hasSomeoneWaiting[cursor]
       THEN /\ hasSomeoneWaiting' = [hasSomeoneWaiting EXCEPT ![cursor] = FALSE]
            /\ UNCHANGED allocated
       ELSE /\ allocated' = allocated \ {cursor}
            /\ UNCHANGED hasSomeoneWaiting
  /\ workerPc' = "pop"
  /\ UNCHANGED <<open, db, made, SQLStack, WTActive, SQLSECT, suspended, cursor,
                 caller, leaked, ran>>

\* Mutant: the flag is not lowered.
DeactivateNot ==
  /\ workerPc = "deactivate"
  /\ workerPc' = "leave"
  /\ UNCHANGED <<open, jobs, SQLStack, WTActive, SQLSECT, suspended, cursor,
                 caller, leaked, ran>>

Deactivate ==
  /\ workerPc = "deactivate"
  /\ WTActive' = FALSE
  /\ workerPc' = "leave"
  /\ UNCHANGED <<open, jobs, SQLStack, SQLSECT, suspended, cursor, caller,
                 leaked, ran>>

Leave ==
  /\ workerPc = "leave"
  /\ SQLSECT' = "none"
  /\ workerPc' = "suspend"
  /\ UNCHANGED <<open, jobs, SQLStack, WTActive, suspended, cursor, caller,
                 leaked, ran>>

\* A resume that came before this is lost.
Suspend ==
  /\ workerPc = "suspend"
  /\ suspended' = TRUE
  /\ workerPc' = "enter"
  /\ UNCHANGED <<open, jobs, SQLStack, WTActive, SQLSECT, cursor, caller,
                 leaked, ran>>

-----------------------------------------------------------------------------
Scripts ==
  Open \/ Close \/ CloseFails \/ Collect \/ Execute \/ Querry \/ Insert
    \/ BeginWait

Caller ==
  TestActive \/ ResumeWorker \/ Spin \/ EnterSection \/ LeaveSection
    \/ TakeResult \/ TestWait

Worker ==
  Activate \/ Pop \/ Run \/ Finish \/ Deactivate \/ Leave \/ Suspend

Next == Scripts \/ Caller \/ Worker

Spec == Init /\ [][Next]_vars

\* Both threads run.  Nothing is assumed of the critical section: a thread that
\* enters and leaves it in a loop may keep the other out for ever.
FairSpec == Spec /\ WF_vars(Caller) /\ WF_vars(Worker)

-----------------------------------------------------------------------------
Holding == {"pop", "run", "finish", "deactivate"}

TypeOK ==
  /\ open \subseteq Connections
  /\ db \in [Jobs -> Connections]
  /\ hasSomeoneWaiting \in [Jobs -> BOOLEAN]
  /\ allocated \subseteq Jobs /\ ran \subseteq Jobs
  /\ made \in 0 .. MaxJobs /\ cursor \in 0 .. MaxJobs /\ sqls \in 0 .. MaxJobs
  /\ SQLStack \in Seq(Jobs)
  /\ workerPc \in {"enter", "leave", "suspend"} \cup Holding
  /\ callerPc \in {"idle", "test", "resume", "spin", "spinEnter", "spinLeave",
                   "collect", "wait", "waitEnter", "waitLeave"}
  /\ waitForRet \in BOOLEAN /\ suspended \in BOOLEAN /\ leaked \in BOOLEAN
  /\ SQLSECT \in {"none", "caller", "worker"}
  /\ SQLSECT = "worker" <=> workerPc \in Holding \cup {"leave"}
  /\ SQLSECT = "caller" <=> callerPc \in {"spinLeave", "waitLeave"} \/ leaked
  /\ WTActive = (workerPc \in Holding)
  /\ suspended => workerPc = "enter"

CallerHoldsJob ==
  waitForRet /\ callerPc \in {"test", "resume", "spin", "spinEnter",
                             "spinLeave", "collect"}

\* Neither thread holds a job that the other deleted: the worker deletes those
\* nobody waits for, and does not touch another after it lowered its flag.
NoDanglingJob ==
  /\ workerPc \in {"run", "finish"} => cursor \in allocated
  /\ CallerHoldsJob => sqls \in allocated
  /\ \A k \in DOMAIN SQLStack : SQLStack[k] \in allocated

\* However pushes, pops and suspensions interleave, no statement is dropped and
\* none is executed twice: each waits on the stack, is with the worker or ran.
RunOnce ==
  \A j \in 1 .. made :
    LET places == {k \in DOMAIN SQLStack : SQLStack[k] = j}
        taken == workerPc = "run" /\ cursor = j
    IN  /\ \A k, l \in places : k = l
        /\ (j \in ran) <=> (places = {} /\ ~taken)
        /\ ~(places # {} /\ taken)

\* A synchronous call does not take the result of a statement that has not
\* been executed.
ResultReady == callerPc = "collect" => sqls \in ran

\* A statement whose caller waits runs on an open connection (one whose caller
\* does not wait may find it closed).
SyncOnOpen ==
  workerPc = "run" /\ hasSomeoneWaiting[cursor] => db[cursor] \in open

\* Stack, flags, critical section and suspensions do what SqlService promises:
\* each statement once, the newest first, and a caller that waits goes on after
\* its own, which nobody closed the connection of.
Service ==
  INSTANCE SqlService WITH
    waiting <- {SQLStack[k] : k \in DOMAIN SQLStack},
    taken <- IF workerPc = "run" THEN cursor ELSE 0,
    awaited <- IF CallerHoldsJob THEN sqls ELSE 0
ImplementsService == Service!Spec

\* A synchronous call whose job is there before an active worker has found the
\* stack empty is served, with all the older statements on the stack, and does
\* not lose its place in the critical section.  (One that comes later may wait
\* for a worker that is not resumed, or not let in.)
ActiveServes ==
  CallerHoldsJob /\ workerPc \in {"pop", "run", "finish"} ~> callerPc = "idle"

\* Wait returns.
WaitEnds == callerPc \in {"wait", "waitEnter", "waitLeave"} ~> callerPc = "idle"
=============================================================================
