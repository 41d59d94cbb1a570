---------------------------- MODULE SqlWorkerProofs ----------------------------
(***************************************************************************)
(* For any number of statements and any connections: no thread holds a     *)
(* deleted job, every statement runs once, and a synchronous call takes    *)
(* the result of its statement, from a connection that is open.  Jobs are  *)
(* numbered as they are made, so the stack decreases from its top, and a   *)
(* flag that is up says that the caller still is with its newest job.      *)
(***************************************************************************)
EXTENDS SqlWorker, SequenceTheorems, TLAPS

\* What is on the stack: jobs not run and not deleted, none of them twice.
StackInv ==
  /\ \A k, l \in 1 .. Len(SQLStack) : k < l => SQLStack[l] < SQLStack[k]
  /\ \A k \in 1 .. Len(SQLStack) :
       /\ SQLStack[k] <= made
       /\ SQLStack[k] \in allocated /\ SQLStack[k] \notin ran

\* What the worker has in hand, and that no job is missing.
WorkInv ==
  /\ workerPc \in {"run", "finish"} =>
       /\ cursor \in 1 .. made /\ cursor \in allocated
       /\ (cursor \in ran <=> workerPc = "finish")
       /\ \A k \in 1 .. Len(SQLStack) : SQLStack[k] # cursor
  /\ ran \subseteq 1 .. made
  /\ \A j \in 1 .. made : j \notin ran =>
       \/ workerPc = "run" /\ cursor = j
       \/ \E k \in 1 .. Len(SQLStack) : SQLStack[k] = j

\* What the flag of a job tells the two threads.
FlagInv ==
  /\ \A j \in Jobs : hasSomeoneWaiting[j] => CallerHoldsJob /\ j = sqls
  /\ CallerHoldsJob =>
       /\ sqls \in 1 .. made /\ sqls \in allocated /\ db[sqls] \in open
       /\ hasSomeoneWaiting[sqls] \/
            (sqls \in ran /\ ~(workerPc = "finish" /\ cursor = sqls))
  /\ callerPc \in {"spin", "spinEnter", "spinLeave", "collect"} => waitForRet
  /\ callerPc = "collect" => ~hasSomeoneWaiting[sqls]

IndInv == TypeOK /\ StackInv /\ WorkInv /\ FlagInv

-----------------------------------------------------------------------------
\* What a push does to a sequence.
LEMMA PushFacts ==
  ASSUME NEW S, NEW s \in Seq(S), NEW x \in S
  PROVE  /\ <<x>> \o s \in Seq(S)
         /\ Len(<<x>> \o s) = Len(s) + 1
         /\ (<<x>> \o s)[1] = x
         /\ \A k \in 2 .. Len(s) + 1 : (<<x>> \o s)[k] = s[k - 1]
  BY SMT

\* What a pop does to it.
LEMMA PopFacts ==
  ASSUME NEW S, NEW s \in Seq(S), s # <<>>
  PROVE  /\ Head(s) \in S /\ Head(s) = s[1] /\ Len(s) >= 1
         /\ Tail(s) \in Seq(S)
         /\ Len(Tail(s)) = Len(s) - 1
         /\ \A k \in 1 .. Len(s) - 1 : Tail(s)[k] = s[k + 1]
  BY SMT

\* The truth value of a membership that fails.
LEMMA NotMember == ASSUME NEW x, NEW S, x \notin S PROVE (x \in S) = FALSE
  OBVIOUS

\* Nothing is made at first.
LEMMA InitIndInv == Init => IndInv
<1> SUFFICES ASSUME Init PROVE IndInv
  OBVIOUS
<1>1. TypeOK
  <2>1. 0 \in 0 .. MaxJobs
    BY JobsAssumption, SMT DEF JobsAssumption
  <2>2. SQLStack \in Seq(Jobs)
    BY SMT DEF Init
  <2>3. WTActive = (workerPc \in Holding)
    <3>1. workerPc \notin Holding /\ WTActive = FALSE
      BY SMT DEF Init, Holding
    <3> QED
      BY <3>1, NotMember, Zenon
  <2>4. /\ SQLSECT = "worker" <=> workerPc \in Holding \cup {"leave"}
        /\ SQLSECT = "caller" <=> callerPc \in {"spinLeave", "waitLeave"} \/ leaked
    BY SMT DEF Init, Holding
  <2> QED
    BY <2>1, <2>2, <2>3, <2>4 DEF Init, TypeOK
<1>2. StackInv /\ WorkInv /\ FlagInv
  BY SMT DEF Init, StackInv, WorkInv, FlagInv, CallerHoldsJob, Jobs
<1> QED
  BY <1>1, <1>2 DEF IndInv

\* Allocating and pushing a job; a synchronous one has an open connection.
LEMMA ExecuteIndInv ==
  ASSUME IndInv, NEW c \in Connections, NEW wait \in BOOLEAN,
         ExecuteSQL(c, wait), wait => c \in open
  PROVE  IndInv'
<1>1. /\ callerPc = "idle" /\ callerPc' = "test"
      /\ made \in Nat /\ made' = made + 1 /\ made' \in Jobs /\ sqls' = made'
      /\ waitForRet' = wait /\ allocated' = allocated \cup {made'}
      /\ UNCHANGED <<open, WTActive, SQLSECT, suspended, workerPc, cursor, leaked,
                     ran>>
  BY JobsAssumption, SMT
     DEF ExecuteSQL, IndInv, TypeOK, Jobs, JobsAssumption, worker
<1>2. /\ db' = [db EXCEPT ![made'] = c]
      /\ hasSomeoneWaiting' = [hasSomeoneWaiting EXCEPT ![made'] = wait]
      /\ SQLStack' = <<made'>> \o SQLStack
  BY DEF ExecuteSQL
<1>3. /\ SQLStack' \in Seq(Jobs) /\ Len(SQLStack') = Len(SQLStack) + 1
      /\ SQLStack'[1] = made'
      /\ \A k \in 2 .. Len(SQLStack) + 1 : SQLStack'[k] = SQLStack[k - 1]
  BY <1>1, <1>2, PushFacts DEF IndInv, TypeOK
<1>4. Len(SQLStack) \in Nat
  BY DEF IndInv, TypeOK
<1>5. TypeOK'
  <2>1. db' \in [Jobs -> Connections] /\ hasSomeoneWaiting' \in [Jobs -> BOOLEAN]
    BY <1>1, <1>2 DEF IndInv, TypeOK
  <2>2. allocated' \subseteq Jobs /\ made' \in 0 .. MaxJobs /\ sqls' \in 0 .. MaxJobs
    BY <1>1, JobsAssumption, SMT DEF IndInv, TypeOK, Jobs, JobsAssumption
  <2> QED
    BY <1>1, <1>3, <2>1, <2>2 DEF IndInv, TypeOK
<1>6. StackInv'
  <2>1. \A k \in 1 .. Len(SQLStack) : SQLStack[k] \in Nat /\ SQLStack[k] <= made
    BY JobsAssumption, SMT DEF IndInv, TypeOK, StackInv, Jobs, JobsAssumption
  <2>2. made' \notin ran
    BY <1>1, SMT DEF IndInv, WorkInv
  <2>3. ASSUME NEW k \in 1 .. Len(SQLStack')
        PROVE  \/ k = 1 /\ SQLStack'[k] = made'
               \/ /\ k - 1 \in 1 .. Len(SQLStack)
                  /\ SQLStack'[k] = SQLStack[k - 1]
    BY <1>3, <1>4, SMT
  <2>4. ASSUME NEW k \in 1 .. Len(SQLStack'), NEW l \in 1 .. Len(SQLStack'), k < l
        PROVE  SQLStack'[l] < SQLStack'[k]
    BY <1>1, <1>3, <1>4, <2>1, <2>3, <2>4, SMT DEF IndInv, StackInv
  <2>5. ASSUME NEW k \in 1 .. Len(SQLStack')
        PROVE  /\ SQLStack'[k] <= made'
               /\ SQLStack'[k] \in allocated' /\ SQLStack'[k] \notin ran'
    <3>1. CASE k = 1 /\ SQLStack'[k] = made'
      BY <1>1, <2>2, <3>1, SMT
    <3>2. CASE k - 1 \in 1 .. Len(SQLStack) /\ SQLStack'[k] = SQLStack[k - 1]
      <4>1. /\ SQLStack[k - 1] \in Nat /\ SQLStack[k - 1] <= made
            /\ SQLStack[k - 1] \in allocated /\ SQLStack[k - 1] \notin ran
        BY <2>1, <3>2 DEF IndInv, StackInv
      <4>2. SQLStack[k - 1] <= made'
        BY <1>1, <4>1, SMT
      <4> QED
        BY <1>1, <3>2, <4>1, <4>2
    <3> QED
      BY <2>3, <3>1, <3>2
  <2> QED
    BY <2>4, <2>5 DEF StackInv
<1>7. WorkInv'
  <2>1. \A j \in 1 .. made :
          (\E k \in 1 .. Len(SQLStack) : SQLStack[k] = j) =>
             \E k \in 1 .. Len(SQLStack') : SQLStack'[k] = j
    <3> TAKE j \in 1 .. made
    <3> HAVE \E k \in 1 .. Len(SQLStack) : SQLStack[k] = j
    <3>1. PICK k \in 1 .. Len(SQLStack) : SQLStack[k] = j
      OBVIOUS
    <3>2. k + 1 \in 1 .. Len(SQLStack') /\ SQLStack'[k + 1] = j
      BY <1>3, <1>4, <3>1, SMT
    <3> QED
      BY <3>2
  <2>2. made' \notin ran /\ 1 \in 1 .. Len(SQLStack')
    BY <1>1, <1>3, <1>4, SMT DEF IndInv, WorkInv
  <2>3. workerPc' \notin {"run", "finish"} \/
          \A k \in 1 .. Len(SQLStack') : SQLStack'[k] # cursor'
    BY <1>1, <1>3, <1>4, SMT DEF IndInv, WorkInv
  <2>4. workerPc' \in {"run", "finish"} =>
          /\ cursor' \in 1 .. made' /\ cursor' \in allocated'
          /\ (cursor' \in ran' <=> workerPc' = "finish")
    BY <1>1, SMT DEF IndInv, WorkInv
  <2>5. ran' \subseteq 1 .. made'
    BY <1>1, SMT DEF IndInv, WorkInv
  <2>6. ASSUME NEW j \in 1 .. made', j \notin ran'
        PROVE  \/ workerPc' = "run" /\ cursor' = j
               \/ \E k \in 1 .. Len(SQLStack') : SQLStack'[k] = j
    <3>1. CASE j = made'
      BY <1>3, <2>2, <3>1
    <3>2. CASE j \in 1 .. made
      BY <1>1, <2>1, <2>6, <3>2 DEF IndInv, WorkInv
    <3> QED
      BY <1>1, <3>1, <3>2, SMT
  <2> QED
    BY <2>3, <2>4, <2>5, <2>6 DEF WorkInv
<1>8. FlagInv'
  <2>1. \A j \in Jobs : ~hasSomeoneWaiting[j]
    BY <1>1 DEF IndInv, FlagInv, CallerHoldsJob
  <2>2. hasSomeoneWaiting'[made'] = wait /\ db'[made'] = c
        /\ \A j \in Jobs : j # made' => ~hasSomeoneWaiting'[j]
    BY <1>1, <1>2, <2>1 DEF IndInv, TypeOK
  <2> QED
    BY <1>1, <2>2, SMT DEF FlagInv, CallerHoldsJob
<1> QED
  BY <1>5, <1>6, <1>7, <1>8 DEF IndInv

\* The scripts' steps.
LEMMA ScriptsIndInv == IndInv /\ Scripts => IndInv'
<1> SUFFICES ASSUME IndInv, Scripts PROVE IndInv'
  OBVIOUS
<1>1. ASSUME Open \/ Close \/ Collect PROVE IndInv'
  <2>1. /\ callerPc = "idle" /\ open' \subseteq Connections
        /\ UNCHANGED <<jobs, SQLStack, WTActive, SQLSECT, suspended, worker,
                       caller, leaked, ran>>
    BY <1>1 DEF Open, Close, Collect, Disconnect, IndInv, TypeOK
  <2>2. TypeOK' /\ StackInv' /\ WorkInv'
    BY <2>1 DEF IndInv, TypeOK, StackInv, WorkInv, jobs, worker, caller
  <2>3. FlagInv'
    BY <2>1 DEF IndInv, FlagInv, CallerHoldsJob, jobs, worker, caller
  <2> QED
    BY <2>2, <2>3 DEF IndInv
<1>2. ASSUME Execute \/ Querry \/ Insert PROVE IndInv'
  <2>1. PICK c \in Connections, wait \in BOOLEAN :
          ExecuteSQL(c, wait) /\ (wait => c \in open)
    BY <1>2 DEF Execute, Querry, Insert, IndInv, TypeOK
  <2> QED
    BY <2>1, ExecuteIndInv
<1>3. ASSUME BeginWait PROVE IndInv'
  BY <1>3, SMT
     DEF BeginWait, IndInv, TypeOK, StackInv, WorkInv, FlagInv, CallerHoldsJob,
         jobs, worker, Holding
<1>4. ASSUME CloseFails PROVE IndInv'
  <2>1. /\ callerPc = "idle" /\ SQLSECT' = "caller" /\ leaked' = TRUE
        /\ SQLSECT # "worker"
        /\ UNCHANGED <<open, jobs, SQLStack, WTActive, suspended, worker, caller,
                       ran>>
    BY <1>4 DEF CloseFails, SectionFree
  <2>2. TypeOK' /\ StackInv' /\ WorkInv'
    BY <2>1 DEF IndInv, TypeOK, StackInv, WorkInv, jobs, worker, caller
  <2>3. FlagInv'
    BY <2>1 DEF IndInv, FlagInv, CallerHoldsJob, jobs, worker, caller
  <2> QED
    BY <2>2, <2>3 DEF IndInv
<1> QED
  BY <1>1, <1>2, <1>3, <1>4 DEF Scripts

\* The caller's steps: it moves on, or deletes the job it is with.
LEMMA CallerIndInv == IndInv /\ Caller => IndInv'
<1> SUFFICES ASSUME IndInv, Caller PROVE IndInv'
  OBVIOUS
<1>1. ASSUME TestActive \/ ResumeWorker \/ Spin \/ TestWait
      PROVE  IndInv'
  <2>1. /\ UNCHANGED <<open, jobs, SQLStack, WTActive, SQLSECT, workerPc, cursor,
                       sqls, waitForRet, leaked, ran>>
        /\ suspended' = suspended \/ suspended' = FALSE
    BY <1>1 DEF TestActive, ResumeWorker, Spin, TestWait, worker
  <2>2. /\ callerPc' \in {"idle", "test", "resume", "spin", "spinEnter",
                          "collect", "wait", "waitEnter"}
        /\ callerPc \notin {"spinLeave", "waitLeave"}
    BY <1>1 DEF TestActive, ResumeWorker, Spin, TestWait, AfterPush
  <2>3. suspended' \in BOOLEAN /\ (suspended' => workerPc = "enter")
    <3>1. suspended \in BOOLEAN /\ (suspended => workerPc = "enter")
      BY DEF IndInv, TypeOK
    <3>2. CASE suspended' = suspended
      BY <3>1, <3>2, Zenon
    <3>3. CASE suspended' = FALSE
      BY <3>3, Zenon
    <3> QED
      BY <2>1, <3>2, <3>3
  <2>4. TypeOK' /\ StackInv' /\ WorkInv'
    BY <2>1, <2>2, <2>3 DEF IndInv, TypeOK, StackInv, WorkInv, jobs
  <2>5. /\ CallerHoldsJob' <=> CallerHoldsJob
        /\ callerPc' \in {"spin", "spinEnter", "spinLeave", "collect"} => waitForRet
        /\ callerPc' = "collect" => ~hasSomeoneWaiting[sqls]
    BY <1>1, <2>1, SMT
       DEF TestActive, ResumeWorker, Spin, TestWait, AfterPush,
           CallerHoldsJob, IndInv, TypeOK, FlagInv
  <2>6. FlagInv'
    BY <2>1, <2>5 DEF IndInv, FlagInv, jobs
  <2> QED
    BY <2>4, <2>6 DEF IndInv
<1>2. ASSUME TakeResult PROVE IndInv'
  <2>1. /\ callerPc = "collect" /\ callerPc' = "idle"
        /\ allocated' = allocated \ {sqls}
        /\ UNCHANGED <<open, db, hasSomeoneWaiting, made, SQLStack, WTActive,
                       SQLSECT, suspended, workerPc, cursor, sqls, waitForRet,
                       leaked, ran>>
    BY <1>2 DEF TakeResult, worker
  <2>2. sqls \in ran /\ ~(workerPc = "finish" /\ cursor = sqls)
        /\ \A j \in Jobs : ~hasSomeoneWaiting[j]
    BY <2>1 DEF IndInv, FlagInv, CallerHoldsJob
  <2> QED
    BY <2>1, <2>2, SMT
       DEF IndInv, TypeOK, StackInv, WorkInv, FlagInv, CallerHoldsJob, Holding
<1>3. ASSUME EnterSection \/ LeaveSection PROVE IndInv'
  <2>1. /\ UNCHANGED <<open, jobs, SQLStack, WTActive, suspended, workerPc,
                       cursor, sqls, waitForRet, leaked, ran>>
        /\ SQLSECT # "worker" /\ SQLSECT' # "worker"
        /\ SQLSECT' \in {"none", "caller"}
        /\ SQLSECT' = "caller" <=>
             callerPc' \in {"spinLeave", "waitLeave"} \/ leaked
        /\ callerPc' \in {"spin", "spinLeave", "wait", "waitLeave"}
    <3>1. CASE EnterSection
      BY <3>1, SMT DEF EnterSection, SectionFree, worker
    <3>2. CASE LeaveSection
      <4>1. SQLSECT = "caller"
        BY <3>2 DEF LeaveSection, IndInv, TypeOK
      <4>2. leaked \in BOOLEAN
        BY DEF IndInv, TypeOK
      <4> QED
        BY <3>2, <4>1, <4>2 DEF LeaveSection, worker
    <3> QED
      BY <1>3, <3>1, <3>2
  <2>2. TypeOK' /\ StackInv' /\ WorkInv'
    BY <2>1 DEF IndInv, TypeOK, StackInv, WorkInv, jobs
  <2>3. /\ CallerHoldsJob' <=> CallerHoldsJob
        /\ callerPc' \in {"spin", "spinEnter", "spinLeave", "collect"} => waitForRet
        /\ callerPc' # "collect"
    BY <1>3, <2>1, SMT
       DEF EnterSection, LeaveSection, CallerHoldsJob, IndInv, FlagInv
  <2>4. FlagInv'
    BY <2>1, <2>3 DEF IndInv, FlagInv, jobs
  <2> QED
    BY <2>2, <2>4 DEF IndInv
<1> QED
  BY <1>1, <1>2, <1>3 DEF Caller

\* The worker's steps.
LEMMA WorkerIndInv == IndInv /\ Worker => IndInv'
<1> SUFFICES ASSUME IndInv, Worker PROVE IndInv'
  OBVIOUS
<1>1. ASSUME Activate \/ Deactivate \/ Leave \/ Suspend PROVE IndInv'
  <2>1. /\ UNCHANGED <<open, jobs, SQLStack, cursor, caller, leaked, ran>>
        /\ workerPc' \notin {"run", "finish"}
        /\ workerPc \notin {"run", "finish"}
    BY <1>1 DEF Activate, Deactivate, Leave, Suspend
  <2>2. /\ workerPc' \in {"enter", "leave", "suspend"} \cup Holding
        /\ suspended' \in BOOLEAN /\ (suspended' => workerPc' = "enter")
    <3>1. suspended \in BOOLEAN /\ (suspended => workerPc = "enter")
      BY DEF IndInv, TypeOK
    <3>2. CASE Activate \/ Deactivate \/ Leave
      <4>1. /\ workerPc' \in {"pop", "leave", "suspend"}
            /\ suspended' = suspended
            /\ ~suspended
        BY <3>1, <3>2 DEF Activate, Deactivate, Leave
      <4> QED
        BY <3>1, <4>1, Zenon DEF Holding
    <3>3. CASE Suspend
      BY <3>3, Zenon DEF Suspend
    <3> QED
      BY <1>1, <3>2, <3>3
  <2>3. /\ WTActive' = (workerPc' \in Holding)
        /\ SQLSECT' \in {"none", "caller", "worker"}
        /\ SQLSECT' = "worker" <=> workerPc' \in Holding \cup {"leave"}
        /\ SQLSECT' = "caller" <=> SQLSECT = "caller"
    <3>1. CASE Activate
      <4>1. workerPc' = "pop" /\ SQLSECT = "none" /\ SQLSECT' = "worker"
            /\ WTActive' = TRUE
        BY <3>1 DEF Activate
      <4>2. workerPc' \in Holding
        BY <4>1 DEF Holding
      <4> QED
        BY <4>1, <4>2, Zenon
    <3>2. CASE Deactivate
      <4>1. workerPc' = "leave" /\ SQLSECT = "worker" /\ SQLSECT' = "worker"
            /\ WTActive' = FALSE
        BY <3>2 DEF Deactivate, IndInv, TypeOK, Holding
      <4>2. workerPc' \notin Holding
        BY <4>1 DEF Holding
      <4> QED
        BY <4>1, <4>2, NotMember, Zenon
    <3>3. CASE Leave \/ Suspend
      <4>1. /\ workerPc \in {"leave", "suspend"}
            /\ workerPc' \in {"suspend", "enter"}
            /\ WTActive' = WTActive
            /\ SQLSECT' = IF workerPc = "leave" THEN "none" ELSE SQLSECT
        BY <3>3 DEF Leave, Suspend
      <4>2. /\ workerPc' \notin Holding /\ workerPc' \notin Holding \cup {"leave"}
            /\ workerPc \notin Holding
        BY <4>1 DEF Holding
      <4>3. WTActive = FALSE
        <5>1. WTActive = (workerPc \in Holding)
          BY DEF IndInv, TypeOK
        <5> QED
          BY <4>2, <5>1, NotMember, Zenon
      <4>4. WTActive' = (workerPc' \in Holding)
        BY <4>1, <4>2, <4>3, NotMember, Zenon
      <4>5. /\ SQLSECT \in {"none", "caller", "worker"}
            /\ SQLSECT = "worker" <=> workerPc = "leave"
        BY <4>1, <4>2, Zenon DEF IndInv, TypeOK
      <4> QED
        BY <4>1, <4>2, <4>4, <4>5, Zenon
    <3> QED
      BY <1>1, <3>1, <3>2, <3>3
  <2>5. TypeOK'
    BY <2>1, <2>2, <2>3 DEF IndInv, TypeOK, jobs, caller
  <2>6. StackInv' /\ WorkInv' /\ FlagInv'
    BY <2>1 DEF IndInv, StackInv, WorkInv, FlagInv, CallerHoldsJob, jobs, caller
  <2> QED
    BY <2>5, <2>6 DEF IndInv
<1>2. ASSUME Pop PROVE IndInv'
  <2>1. CASE SQLStack = <<>>
    BY <1>2, <2>1, JobsAssumption, SMT
       DEF Pop, IndInv, TypeOK, StackInv, WorkInv, FlagInv, CallerHoldsJob, jobs,
           caller, Holding, JobsAssumption
  <2>2. CASE SQLStack # <<>>
    <3>1. /\ workerPc = "pop" /\ workerPc' = "run" /\ cursor' = Head(SQLStack)
          /\ SQLStack' = Tail(SQLStack)
          /\ UNCHANGED <<open, db, hasSomeoneWaiting, allocated, made, WTActive,
                         SQLSECT, suspended, callerPc, sqls, waitForRet,
                         leaked, ran>>
      BY <1>2, <2>2 DEF Pop, jobs, caller
    <3>2. /\ cursor' \in Jobs /\ cursor' = SQLStack[1] /\ Len(SQLStack) >= 1
          /\ SQLStack' \in Seq(Jobs) /\ Len(SQLStack') = Len(SQLStack) - 1
          /\ \A k \in 1 .. Len(SQLStack) - 1 : SQLStack'[k] = SQLStack[k + 1]
          /\ Len(SQLStack) \in Nat
      BY <2>2, <3>1, PopFacts DEF IndInv, TypeOK
    <3>3. TypeOK'
      BY <3>1, <3>2, SMT DEF IndInv, TypeOK, Jobs, Holding
    <3>4. StackInv'
      BY <3>1, <3>2, SMT DEF IndInv, StackInv
    <3>5. WorkInv'
      <4>1. \A k \in 1 .. Len(SQLStack') : SQLStack'[k] # cursor'
        BY <3>2, SMT DEF IndInv, TypeOK, StackInv, Jobs
      <4>2. /\ cursor' \in 1 .. made' /\ cursor' \in allocated'
            /\ cursor' \notin ran'
        BY <3>1, <3>2, SMT DEF IndInv, TypeOK, StackInv, Jobs
      <4>3. ASSUME NEW j \in 1 .. made', j \notin ran', j # cursor'
            PROVE  \E k \in 1 .. Len(SQLStack') : SQLStack'[k] = j
        <5>1. PICK k \in 1 .. Len(SQLStack) : SQLStack[k] = j
          BY <3>1, <4>3 DEF IndInv, WorkInv
        <5>2. k - 1 \in 1 .. Len(SQLStack') /\ SQLStack'[k - 1] = j
          BY <3>2, <4>3, <5>1, SMT
        <5> QED
          BY <5>2
      <4> QED
        BY <3>1, <4>1, <4>2, <4>3 DEF IndInv, WorkInv
    <3>6. FlagInv'
      BY <3>1 DEF IndInv, FlagInv, CallerHoldsJob
    <3> QED
      BY <3>3, <3>4, <3>5, <3>6 DEF IndInv
  <2> QED
    BY <2>1, <2>2
<1>3. ASSUME Run PROVE IndInv'
  BY <1>3, JobsAssumption, SMT
     DEF Run, IndInv, TypeOK, StackInv, WorkInv, FlagInv, CallerHoldsJob, jobs,
         caller, Holding, Jobs, JobsAssumption
<1>4. ASSUME Finish PROVE IndInv'
  <2>1. /\ workerPc = "finish" /\ workerPc' = "pop" /\ cursor \in ran
        /\ cursor \in Jobs
        /\ UNCHANGED <<open, db, made, SQLStack, WTActive, SQLSECT, suspended,
                       cursor, callerPc, sqls, waitForRet, leaked, ran>>
    BY <1>4, JobsAssumption, SMT
       DEF Finish, IndInv, TypeOK, WorkInv, caller, Jobs, JobsAssumption
  <2>2. CASE hasSomeoneWaiting[cursor]
    <3>1. /\ hasSomeoneWaiting' = [hasSomeoneWaiting EXCEPT ![cursor] = FALSE]
          /\ allocated' = allocated
      BY <1>4, <2>2 DEF Finish
    <3>2. /\ hasSomeoneWaiting' \in [Jobs -> BOOLEAN]
          /\ \A j \in Jobs : hasSomeoneWaiting'[j] =>
                               hasSomeoneWaiting[j] /\ j # cursor
          /\ CallerHoldsJob /\ sqls = cursor
      BY <2>1, <2>2, <3>1 DEF IndInv, TypeOK, FlagInv
    <3>3. TypeOK' /\ StackInv' /\ WorkInv'
      BY <2>1, <3>1, <3>2, SMT
         DEF IndInv, TypeOK, StackInv, WorkInv, Holding
    <3>4. FlagInv'
      BY <2>1, <3>1, <3>2 DEF IndInv, FlagInv, CallerHoldsJob
    <3> QED
      BY <3>3, <3>4 DEF IndInv
  <2>3. CASE ~hasSomeoneWaiting[cursor]
    <3>1. /\ allocated' = allocated \ {cursor}
          /\ hasSomeoneWaiting' = hasSomeoneWaiting
      BY <1>4, <2>3 DEF Finish
    <3>2. ~(CallerHoldsJob /\ sqls = cursor)
      BY <2>1, <2>3 DEF IndInv, FlagInv
    <3>3. TypeOK' /\ StackInv' /\ WorkInv'
      BY <2>1, <3>1, SMT DEF IndInv, TypeOK, StackInv, WorkInv, Holding
    <3>4. FlagInv'
      BY <2>1, <3>1, <3>2, SMT DEF IndInv, FlagInv, CallerHoldsJob
    <3> QED
      BY <3>3, <3>4 DEF IndInv
  <2> QED
    BY <2>2, <2>3
<1> QED
  BY <1>1, <1>2, <1>3, <1>4 DEF Worker

\* The invariant holds of every behaviour of the library.
THEOREM Invariance == Spec => []IndInv
<1>1. IndInv /\ [Next]_vars => IndInv'
  <2> SUFFICES ASSUME IndInv, [Next]_vars PROVE IndInv'
    OBVIOUS
  <2>1. CASE UNCHANGED vars
    BY <2>1 DEF vars, jobs, worker, caller, IndInv, TypeOK, StackInv, WorkInv,
                FlagInv, CallerHoldsJob
  <2> QED
    BY <2>1, ScriptsIndInv, CallerIndInv, WorkerIndInv DEF Next
<1> QED
  BY InitIndInv, <1>1, PTL DEF Spec

\* Worker and caller never hold a job that the other one deleted, and the stack
\* never does: exactly one of them deletes it, when both are done with it.
THEOREM NoDanglingJobHolds == Spec => []NoDanglingJob
<1>1. IndInv => NoDanglingJob
  BY SMT DEF IndInv, TypeOK, StackInv, WorkInv, FlagInv, NoDanglingJob
<1> QED
  BY Invariance, <1>1, PTL

\* Whatever the interleaving, no statement is dropped or executed twice.
THEOREM RunOnceHolds == Spec => []RunOnce
<1>1. IndInv => RunOnce
  BY SMT DEF IndInv, TypeOK, StackInv, WorkInv, RunOnce, Jobs
<1> QED
  BY Invariance, <1>1, PTL

\* The result ExecuteSQL reads is that of its statement, executed.
THEOREM ResultReadyHolds == Spec => []ResultReady
<1>1. IndInv => ResultReady
  BY DEF IndInv, FlagInv, CallerHoldsJob, ResultReady
<1> QED
  BY Invariance, <1>1, PTL

\* A statement somebody waits for runs on an open connection.
THEOREM SyncOnOpenHolds == Spec => []SyncOnOpen
<1>1. IndInv => SyncOnOpen
  BY SMT DEF IndInv, TypeOK, WorkInv, FlagInv, SyncOnOpen, Jobs
<1> QED
  BY Invariance, <1>1, PTL

\* The stack, the worker's position and the flags keep their types, and the
\* critical section is held by whoever works, for any number of statements.
THEOREM TypeCorrect == Spec => []TypeOK
<1>1. IndInv => TypeOK
  BY DEF IndInv
<1> QED
  BY <1>1, Invariance, PTL

-----------------------------------------------------------------------------
(* The library implements SqlService.                                      *)

\* What SqlService sees of the stack, the worker and the caller.
Waiting == {SQLStack[k] : k \in DOMAIN SQLStack}
Taken == IF workerPc = "run" THEN cursor ELSE 0
Awaited == IF CallerHoldsJob THEN sqls ELSE 0

\* A step that SqlService does not see.
LEMMA Unseen ==
  ASSUME UNCHANGED <<open, db, made, SQLStack, ran, Taken, Awaited>>
  PROVE  UNCHANGED Service!vars
BY DEF Service!vars, Taken, Awaited

\* A push is a statement given.
LEMMA ExecuteSubmits ==
  ASSUME IndInv, NEW c \in Connections, NEW wait \in BOOLEAN,
         ExecuteSQL(c, wait), wait => c \in open
  PROVE  Service!Submit
<1>1. /\ callerPc = "idle" /\ callerPc' = "test" /\ made < MaxJobs
      /\ made' = made + 1 /\ sqls' = made' /\ waitForRet' = wait
      /\ db' = [db EXCEPT ![made'] = c] /\ SQLStack' = <<made'>> \o SQLStack
      /\ UNCHANGED <<open, workerPc, cursor, ran>>
  BY DEF ExecuteSQL, worker
<1>2. made' \in Jobs /\ SQLStack \in Seq(Jobs) /\ db \in [Jobs -> Connections]
  BY <1>1, JobsAssumption, SMT DEF IndInv, TypeOK, Jobs, JobsAssumption
<1>3. Waiting' = Waiting \cup {made'}
  <2>1. PICK m \in Nat : m = Len(SQLStack) /\ DOMAIN SQLStack = 1 .. m
    BY <1>2
  <2>2. /\ Len(SQLStack') = m + 1 /\ DOMAIN SQLStack' = 1 .. m + 1
        /\ SQLStack'[1] = made'
        /\ \A k \in 2 .. m + 1 : SQLStack'[k] = SQLStack[k - 1]
    BY <1>1, <1>2, <2>1, PushFacts
  <2>3. ASSUME NEW k \in 1 .. m + 1
        PROVE  SQLStack'[k] \in Waiting \cup {made'}
    <3>1. CASE k = 1
      BY <2>2, <3>1
    <3>2. CASE k # 1
      <4>1. k \in 2 .. m + 1 /\ k - 1 \in 1 .. m
        BY <3>2, SMT
      <4>2. SQLStack[k - 1] \in Waiting
        BY <2>1, <4>1 DEF Waiting
      <4> QED
        BY <2>2, <4>1, <4>2
    <3> QED
      BY <3>1, <3>2
  <2>4. ASSUME NEW k \in 1 .. m
        PROVE  SQLStack[k] \in Waiting'
    <3>1. k + 1 \in 2 .. m + 1 /\ k + 1 \in 1 .. m + 1 /\ (k + 1) - 1 = k
      BY SMT
    <3>2. SQLStack'[k + 1] = SQLStack[k]
      BY <2>2, <3>1
    <3> QED
      BY <2>2, <3>1, <3>2 DEF Waiting
  <2>5. made' \in Waiting'
    <3>1. 1 \in 1 .. m + 1
      BY SMT
    <3> QED
      BY <2>2, <3>1 DEF Waiting
  <2>6. Waiting' \subseteq Waiting \cup {made'}
    BY <2>2, <2>3 DEF Waiting
  <2>7. Waiting \subseteq Waiting'
    BY <2>1, <2>4 DEF Waiting
  <2> QED
    BY <2>5, <2>6, <2>7
<1>4. /\ Awaited = 0 /\ Taken' = Taken
      /\ Awaited' = IF wait THEN made' ELSE 0
  BY <1>1 DEF Awaited, Taken, CallerHoldsJob
<1>5. db'[made'] = c
  BY <1>1, <1>2
<1>6. \/ Awaited' = 0
      \/ Awaited' = made' /\ db'[made'] \in open
  BY <1>4, <1>5
<1> QED
  BY <1>1, <1>3, <1>4, <1>6 DEF Service!Submit, Waiting, Awaited, Taken

\* The worker takes the newest statement off the stack.
LEMMA PopTakes ==
  ASSUME IndInv, Pop, SQLStack # <<>>
  PROVE  Service!Take
<1>1. /\ workerPc = "pop" /\ workerPc' = "run" /\ cursor' = Head(SQLStack)
      /\ SQLStack' = Tail(SQLStack)
      /\ UNCHANGED <<open, db, made, callerPc, sqls, waitForRet, ran>>
  BY DEF Pop, jobs, caller
<1>2. SQLStack \in Seq(Jobs)
  BY DEF IndInv, TypeOK
<1>3. PICK m \in Nat : m = Len(SQLStack) /\ DOMAIN SQLStack = 1 .. m
  BY <1>2
<1>4. /\ m >= 1 /\ cursor' = SQLStack[1] /\ cursor' \in Jobs
      /\ DOMAIN SQLStack' = 1 .. m - 1
      /\ \A k \in 1 .. m - 1 : SQLStack'[k] = SQLStack[k + 1]
  <2>1. /\ Head(SQLStack) \in Jobs /\ Head(SQLStack) = SQLStack[1]
        /\ Len(SQLStack) >= 1 /\ Tail(SQLStack) \in Seq(Jobs)
        /\ Len(Tail(SQLStack)) = Len(SQLStack) - 1
        /\ \A k \in 1 .. Len(SQLStack) - 1 :
             Tail(SQLStack)[k] = SQLStack[k + 1]
    BY <1>2, PopFacts
  <2>2. DOMAIN Tail(SQLStack) = 1 .. Len(Tail(SQLStack))
    BY <2>1
  <2> QED
    BY <1>1, <1>3, <2>1, <2>2
<1>5. ASSUME NEW k \in 1 .. m
      PROVE  k = 1 \/ (SQLStack[k] < cursor' /\ k - 1 \in 1 .. m - 1)
  <2>1. 1 \in 1 .. m
    BY <1>4, SMT
  <2>2. k = 1 \/ 1 < k
    BY SMT
  <2>3. 1 < k => SQLStack[k] < SQLStack[1]
    BY <1>3, <2>1 DEF IndInv, StackInv
  <2> QED
    BY <1>4, <2>2, <2>3, SMT
<1>6. ASSUME NEW k \in 1 .. m
      PROVE  SQLStack[k] \in Nat
  <2>1. SQLStack[k] \in Jobs
    BY <1>2, <1>3, ElementOfSeq
  <2> QED
    BY <2>1, SMT DEF Jobs
<1>7. cursor' \in Nat
  BY <1>4, SMT DEF Jobs
<1>8. cursor' \in Waiting /\ \A j \in Waiting : j <= cursor'
  <2>1. 1 \in 1 .. m
    BY <1>4, SMT
  <2>2. ASSUME NEW k \in 1 .. m
        PROVE  SQLStack[k] <= cursor'
    BY <1>4, <1>5, <1>6, <1>7, SMT
  <2> QED
    BY <1>3, <1>4, <2>1, <2>2 DEF Waiting
<1>9. Waiting' = Waiting \ {cursor'}
  <2>1. ASSUME NEW k \in 1 .. m - 1
        PROVE  SQLStack'[k] \in Waiting \ {cursor'}
    <3>1. k + 1 \in 1 .. m /\ k + 1 # 1
      BY SMT
    <3>2. SQLStack[k + 1] < cursor' /\ SQLStack[k + 1] \in Nat
      BY <1>5, <1>6, <3>1
    <3>3. SQLStack[k + 1] # cursor'
      BY <1>7, <3>2, SMT
    <3>4. SQLStack[k + 1] \in Waiting
      BY <1>3, <3>1 DEF Waiting
    <3> QED
      BY <1>4, <3>3, <3>4
  <2>2. ASSUME NEW k \in 1 .. m, SQLStack[k] # cursor'
        PROVE  SQLStack[k] \in Waiting'
    <3>1. k # 1
      BY <1>4, <2>2
    <3>2. k - 1 \in 1 .. m - 1 /\ (k - 1) + 1 = k
      BY <1>5, <3>1, SMT
    <3>3. SQLStack'[k - 1] = SQLStack[k]
      BY <1>4, <3>2
    <3> QED
      BY <1>4, <3>2, <3>3 DEF Waiting
  <2>3. Waiting' \subseteq Waiting \ {cursor'}
    BY <1>4, <2>1 DEF Waiting
  <2>4. Waiting \ {cursor'} \subseteq Waiting'
    BY <1>3, <2>2 DEF Waiting
  <2> QED
    BY <2>3, <2>4
<1>10. Taken = 0 /\ Taken' = cursor' /\ Awaited' = Awaited
  BY <1>1 DEF Taken, Awaited, CallerHoldsJob
<1> QED
  BY <1>1, <1>8, <1>9, <1>10 DEF Service!Take, Waiting, Awaited, Taken

\* The steps of the scripts and of the caller.
LEMMA CallerRefines ==
  ASSUME IndInv, Scripts \/ Caller
  PROVE  [Service!Next]_(Service!vars)
<1>1. CASE Open \/ Close \/ Collect
  <2>1. /\ callerPc = "idle" /\ open' \subseteq Connections
        /\ UNCHANGED <<jobs, SQLStack, worker, caller, ran>>
    BY <1>1 DEF Open, Close, Collect, Disconnect, IndInv, TypeOK
  <2>2. Awaited = 0 /\ UNCHANGED <<db, made, SQLStack, ran, Taken, Awaited>>
    BY <2>1 DEF Awaited, Taken, CallerHoldsJob, jobs, worker, caller
  <2>3. Service!Connect
    BY <2>1, <2>2 DEF Service!Connect, Awaited, Taken
  <2> QED
    BY <2>3 DEF Service!Next
<1>2. CASE Execute \/ Querry \/ Insert
  <2>1. PICK c \in Connections, wait \in BOOLEAN :
          ExecuteSQL(c, wait) /\ (wait => c \in open)
    BY <1>2 DEF Execute, Querry, Insert, IndInv, TypeOK
  <2> QED
    BY <2>1, ExecuteSubmits DEF Service!Next
<1>3. CASE \/ BeginWait \/ TestActive \/ ResumeWorker \/ Spin \/ TestWait
           \/ CloseFails \/ EnterSection \/ LeaveSection
  <2>1. /\ UNCHANGED <<open, jobs, SQLStack, worker, sqls, waitForRet, ran>>
        /\ CallerHoldsJob' <=> CallerHoldsJob
    BY <1>3, SMT
       DEF BeginWait, TestActive, ResumeWorker, Spin, TestWait, CloseFails,
           EnterSection, LeaveSection, caller, AfterPush, CallerHoldsJob, worker, IndInv, FlagInv
  <2>2. UNCHANGED <<open, db, made, SQLStack, ran, Taken, Awaited>>
    BY <2>1 DEF jobs, worker, Taken, Awaited
  <2> QED
    BY <2>2, Unseen
<1>4. CASE TakeResult
  <2>1. /\ callerPc = "collect" /\ callerPc' = "idle"
        /\ UNCHANGED <<open, db, made, SQLStack, workerPc, cursor, ran>>
    BY <1>4 DEF TakeResult, worker
  <2>2. CallerHoldsJob /\ sqls \in ran
    BY <2>1 DEF IndInv, FlagInv, CallerHoldsJob
  <2>3. /\ Awaited = sqls /\ Awaited' = 0 /\ Taken' = Taken
    BY <2>1, <2>2 DEF Awaited, Taken, CallerHoldsJob
  <2>4. Service!GoOn
    BY <2>1, <2>2, <2>3 DEF Service!GoOn, Awaited, Taken
  <2> QED
    BY <2>4 DEF Service!Next
<1> QED
  BY <1>1, <1>2, <1>3, <1>4 DEF Scripts, Caller

\* The steps of the worker.
LEMMA WorkerRefines ==
  ASSUME IndInv, Worker
  PROVE  [Service!Next]_(Service!vars)
<1>1. CASE \/ Activate \/ Deactivate \/ Leave \/ Suspend \/ Finish
           \/ Pop /\ SQLStack = <<>>
  <2>1. /\ UNCHANGED <<open, db, made, SQLStack, caller, ran>>
        /\ workerPc # "run" /\ workerPc' # "run"
    BY <1>1 DEF Activate, Deactivate, Leave, Suspend, Finish, Pop, jobs
  <2>2. UNCHANGED <<open, db, made, SQLStack, ran, Taken, Awaited>>
    BY <2>1 DEF Taken, Awaited, CallerHoldsJob, caller
  <2> QED
    BY <2>2, Unseen
<1>2. CASE Pop /\ SQLStack # <<>>
  BY <1>2, PopTakes DEF Service!Next
<1>3. CASE Run
  <2>1. /\ workerPc = "run" /\ workerPc' = "finish" /\ ran' = ran \cup {cursor}
        /\ UNCHANGED <<open, db, made, SQLStack, caller>>
    BY <1>3 DEF Run, jobs
  <2>2. cursor # 0 /\ Taken = cursor /\ Taken' = 0 /\ Awaited' = Awaited
    BY <2>1, SMT
       DEF Taken, Awaited, CallerHoldsJob, caller, IndInv, WorkInv
  <2>3. cursor = Awaited => db[cursor] \in open
    BY <2>2 DEF Awaited, IndInv, FlagInv
  <2>4. Service!Execute
    BY <2>1, <2>2, <2>3 DEF Service!Execute, Taken, Awaited
  <2> QED
    BY <2>4 DEF Service!Next
<1> QED
  BY <1>1, <1>2, <1>3 DEF Worker

\* ExecuteSQL and SQLThreadSpin implement the plain service: a push is a statement
\* given, a pop is one taken, and a result taken is the end of its caller's wait;
\* flags, critical section and suspensions are not seen.
THEOREM Refinement == Spec => ImplementsService
<1>1. Init => Service!Init
  <2> SUFFICES ASSUME Init PROVE Service!Init
    OBVIOUS
  <2>1. /\ SQLStack = <<>> /\ workerPc = "enter" /\ callerPc = "idle"
        /\ open = {} /\ made = 0 /\ ran = {}
    BY DEF Init
  <2>2. {SQLStack[k] : k \in DOMAIN SQLStack} = {}
    BY <2>1
  <2>3. ~CallerHoldsJob
    BY <2>1 DEF CallerHoldsJob
  <2> QED
    BY <2>1, <2>2, <2>3 DEF Service!Init
<1>2. IndInv /\ [Next]_vars => [Service!Next]_(Service!vars)
  <2> SUFFICES ASSUME IndInv, [Next]_vars
               PROVE  [Service!Next]_(Service!vars)
    OBVIOUS
  <2>1. CASE UNCHANGED vars
    <3>1. UNCHANGED <<open, db, made, SQLStack, ran, Taken, Awaited>>
      BY <2>1 DEF vars, jobs, worker, caller, Taken, Awaited, CallerHoldsJob
    <3> QED
      BY <3>1, Unseen
  <2> QED
    BY <2>1, CallerRefines, WorkerRefines DEF Next
<1> QED
  BY <1>1, <1>2, Invariance, PTL DEF Spec, ImplementsService, Service!Spec
=============================================================================
