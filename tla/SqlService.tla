------------------------------ MODULE SqlService ------------------------------
(***************************************************************************)
(* What luasqlite promises: every SQL statement is executed once, one at a *)
(* time, and of those that wait the newest is taken first.  A script that  *)
(* waits for its statement goes on after it was executed, on a connection  *)
(* that is open; one that does not wait goes on at once.                   *)
(***************************************************************************)
EXTENDS Naturals

CONSTANT Connections

VARIABLES
  open,     \* the connections that are open
  db,       \* per statement, its connection
  made,     \* number of statements given; statement k is the k-th
  waiting,  \* the statements that wait to be executed
  taken,    \* the statement that is being executed (0: none)
  ran,      \* the statements that were executed
  awaited   \* the statement the script waits for (0: none)

vars == <<open, db, made, waiting, taken, ran, awaited>>

Init ==
  /\ open = {} /\ made = 0 /\ waiting = {} /\ taken = 0 /\ ran = {}
  /\ awaited = 0

Connect ==
  /\ awaited = 0
  /\ open' \subseteq Connections
  /\ UNCHANGED <<db, made, waiting, taken, ran, awaited>>

Submit ==
  /\ awaited = 0
  /\ made' = made + 1
  /\ waiting' = waiting \cup {made'}
  /\ \E c \in Connections : db' = [db EXCEPT ![made'] = c]
  /\ \/ awaited' = 0
     \/ awaited' = made' /\ db'[made'] \in open
  /\ UNCHANGED <<open, taken, ran>>

Take ==
  /\ taken = 0
  /\ taken' \in waiting /\ \A j \in waiting : j <= taken'
  /\ waiting' = waiting \ {taken'}
  /\ UNCHANGED <<open, db, made, ran, awaited>>

Execute ==
  /\ taken # 0
  /\ taken = awaited => db[taken] \in open
  /\ ran' = ran \cup {taken}
  /\ taken' = 0
  /\ UNCHANGED <<open, db, made, waiting, awaited>>

GoOn ==
  /\ awaited \in ran
  /\ awaited' = 0
  /\ UNCHANGED <<open, db, made, waiting, taken, ran>>

Next == Connect \/ Submit \/ Take \/ Execute \/ GoOn

Spec == Init /\ [][Next]_vars
=============================================================================
