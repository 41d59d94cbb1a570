-------------------------------- MODULE Network --------------------------------
(***************************************************************************)
(* The sockets of TerrahIRC, all used on the Lua engine thread: the table  *)
(* of MultiSocket, whose Listen visits every TerrahSocket; a server        *)
(* TerrahSocket with the connections it accepted (ServerClients); the      *)
(* handles Winsock gives out and takes back; the userdata (LSock) through  *)
(* which scripts open, close and send; and the peers.                      *)
(*                                                                         *)
(* One iteration of a loop is one action, so that packets arrive between   *)
(* the visits of Listen.  The Recv event runs script code in the middle of *)
(* Listen, which may open, close and send.                                 *)
(***************************************************************************)
EXTENDS Naturals, Sequences, FiniteSets, SequencesExt

CONSTANTS
  Handles,      \* the SOCKET values Winsock gives out
  NoHandle,     \* 0, and what else is no socket
  MaxOpens,     \* bound: how many sockets the script opens
  MaxBacklog,   \* connections that wait for accept; 5 in the code
  Growth,       \* the 10 by which the table grows
  PeersLeave    \* peers may close or reset connections

ASSUME NetworkAssumption ==
  /\ NoHandle \notin Handles /\ IsFiniteSet(Handles)
  /\ MaxOpens \in Nat /\ MaxBacklog \in Nat /\ Growth \in Nat \ {0}
  /\ PeersLeave \in BOOLEAN

VARIABLES
  conn,        \* per handle, the connection behind it
  inbox,       \* the handles with data to receive
  backlog,     \* per handle, connections to accept
  Sockets,     \* MultiSocket's table, up to SocketsLen
  SocketSize,  \* room in the table
  held,        \* per handle, the number of LSock userdata that hold it
  opens,       \* number of sockets opened
  pc,          \* where the engine is: in a script, or in Listen
  n, i,        \* Listen's positions in the table and in a server's clients
  RecvSock,    \* Listen's out parameter
  event        \* the arguments of the Recv event

kernel == <<conn, inbox, backlog>>
script == <<held, opens>>
listen == <<n, i, RecvSock>>
vars == <<kernel, Sockets, SocketSize, script, pc, listen, event>>

NoEvent == [to |-> NoHandle, from |-> NoHandle, flag |-> 0]
FreeHandles == {h \in Handles : conn[h] = "free"}
SCOf(k) == Range(Sockets[k].SC)
ClientHandles(k) == {c.socket : c \in SCOf(k)}
TableHandles == {Sockets[k].Socket : k \in DOMAIN Sockets}
Accepted == UNION {ClientHandles(k) : k \in DOMAIN Sockets}

Init ==
  /\ conn = [h \in Handles |-> "free"] /\ inbox = {}
  /\ backlog = [h \in Handles |-> 0]
  /\ Sockets = <<>> /\ SocketSize = 0
  /\ held = [h \in Handles |-> 0] /\ opens = 0
  /\ pc = "script" /\ n = 1 /\ i = 1 /\ RecvSock = NoHandle
  /\ event = NoEvent

-----------------------------------------------------------------------------
(* The peers.                                                              *)

PeerConnects ==
  /\ \E h \in Handles :
       /\ conn[h] = "listening" /\ backlog[h] < MaxBacklog
       /\ backlog' = [backlog EXCEPT ![h] = @ + 1]
  /\ UNCHANGED <<conn, inbox, Sockets, SocketSize, script, pc, listen, event>>

PeerSends ==
  /\ \E h \in Handles \ inbox : conn[h] = "open" /\ inbox' = inbox \cup {h}
  /\ UNCHANGED <<conn, backlog, Sockets, SocketSize, script, pc, listen, event>>

\* recv returns 0 after the data of a closed connection, -1 of a reset one.
PeerLeaves ==
  /\ PeersLeave
  /\ \E h \in Handles, how \in {"closed", "reset"} :
       /\ conn[h] = "open"
       /\ conn' = [conn EXCEPT ![h] = how]
       /\ inbox' = IF how = "reset" THEN inbox \ {h} ELSE inbox
  /\ UNCHANGED <<backlog, Sockets, SocketSize, script, pc, listen, event>>

-----------------------------------------------------------------------------
(* MultiSocket's operations, called by scripts, outside Listen or in the   *)
(* Recv event.                                                             *)

InScript == pc \in {"script", "event", "errorEvent"}

Entry(h, server) ==
  [Socket |-> h, isServer |-> server, LastError |-> FALSE, SC |-> <<>>]

\* realloc in place, memset over the whole block, memcpy of the block to itself
\* and free of it: every growth but the first leaves NULLs for the old entries.
Grown ==
  IF Len(Sockets) >= SocketSize
    THEN [k \in DOMAIN Sockets |-> Entry(NoHandle, FALSE)] ELSE Sockets

\* Mutant: the table is found full one entry too late.
OpenLateGrowth(server) ==
  /\ InScript /\ opens < MaxOpens
  /\ \E h \in FreeHandles :
       /\ conn' = [conn EXCEPT ![h] = IF server THEN "listening" ELSE "open"]
       /\ Sockets' = Append(Sockets, Entry(h, server))
       /\ held' = [held EXCEPT ![h] = @ + 1]
  /\ SocketSize' = IF Len(Sockets) > SocketSize THEN SocketSize + Growth
                   ELSE SocketSize
  /\ opens' = opens + 1
  /\ UNCHANGED <<inbox, backlog, pc, listen, event>>

Open(server) ==
  /\ InScript /\ opens < MaxOpens
  /\ \E h \in FreeHandles :
       /\ conn' = [conn EXCEPT ![h] = IF server THEN "listening" ELSE "open"]
       /\ Sockets' = Append(Grown, Entry(h, server))
       /\ held' = [held EXCEPT ![h] = @ + 1]
  /\ SocketSize' = IF Len(Sockets) >= SocketSize THEN SocketSize + Growth
                   ELSE SocketSize
  /\ opens' = opens + 1
  /\ UNCHANGED <<inbox, backlog, pc, listen, event>>

OpenServerSocket == Open(TRUE)
OpenClientSocket == Open(FALSE)

\* closesocket.
Released(hs) ==
  /\ conn' = [h \in Handles |-> IF h \in hs THEN "free" ELSE conn[h]]
  /\ inbox' = inbox \ hs
  /\ backlog' = [h \in Handles |-> IF h \in hs THEN 0 ELSE backlog[h]]

\* The last entry of the table takes the place of the k-th.
SwapRemove(s, k) ==
  [j \in 1 .. Len(s) - 1 |-> IF j = k THEN s[Len(s)] ELSE s[j]]

\* Mutant: the handle of an accepted socket is closed when it is marked.
KillSocketAtOnce(h) ==
  \/ \E k \in DOMAIN Sockets :
       /\ Sockets[k].Socket = h
       /\ Sockets' = SwapRemove(Sockets, k)
       /\ Released({h})
  \/ \E k \in DOMAIN Sockets : \E m \in DOMAIN Sockets[k].SC :
       /\ h \notin TableHandles
       /\ Sockets[k].SC[m].socket = h
       /\ Sockets' = [Sockets EXCEPT ![k].SC[m].die = TRUE]
       /\ Released({h})
  \/ /\ h \notin TableHandles \cup Accepted
     /\ UNCHANGED <<Sockets, kernel>>

\* A socket of the table is deleted, and with a server the array SC but not
\* the ServerClients in it; an accepted socket is only marked.
KillSocket(h) ==
  \/ \E k \in DOMAIN Sockets :
       /\ Sockets[k].Socket = h
       /\ Sockets' = SwapRemove(Sockets, k)
       /\ Released({h})
  \/ \E k \in DOMAIN Sockets : \E m \in DOMAIN Sockets[k].SC :
       /\ h \notin TableHandles
       /\ Sockets[k].SC[m].socket = h
       /\ Sockets' = [Sockets EXCEPT ![k].SC[m].die = TRUE]
       /\ UNCHANGED kernel
  \/ /\ h \notin TableHandles \cup Accepted
     /\ UNCHANGED <<Sockets, kernel>>

\* lua_closesocket: the userdata keeps the handle.
Close ==
  /\ InScript
  /\ \E h \in Handles : held[h] > 0 /\ KillSocket(h)
  /\ UNCHANGED <<SocketSize, script, pc, listen, event>>

\* ls__gc.
Collect ==
  /\ InScript
  /\ \E h \in Handles :
       /\ held[h] > 0 /\ KillSocket(h)
       /\ held' = [held EXCEPT ![h] = @ - 1]
  /\ UNCHANGED <<SocketSize, opens, pc, listen, event>>

Broken(h) == conn[h] \in {"closed", "reset"}

\* A send that fails.  A server is told the socket to send to by the script,
\* which may name any number: the server keeps the error.  A client keeps its
\* own, and when a server sends to all its accepted sockets, so do they.
SendFails ==
  /\ InScript
  /\ \E k \in DOMAIN Sockets :
       \/ /\ Sockets[k].isServer \/ Broken(Sockets[k].Socket)
          /\ Sockets' = [Sockets EXCEPT ![k].LastError = TRUE]
       \/ /\ \E c \in SCOf(k) : Broken(c.socket)
          /\ Sockets' = [Sockets EXCEPT ![k].SC =
               [m \in DOMAIN @ |->
                  IF Broken(@[m].socket) /\ ~@[m].die
                    THEN [@[m] EXCEPT !.LastError = TRUE] ELSE @[m]]]
  /\ UNCHANGED <<kernel, SocketSize, script, pc, listen, event>>

-----------------------------------------------------------------------------
(* MultiSocket::Listen.                                                    *)

\* LuaMain calls Listen while a socket is open.  RecvSock is not initialised.
ListenStarts ==
  /\ pc = "script" /\ Sockets # <<>>
  /\ pc' = "visit" /\ n' = 1 /\ i' = 1
  /\ RecvSock' \in Handles \cup {NoHandle}
  /\ UNCHANGED <<kernel, Sockets, SocketSize, script, event>>

\* A NULL entry is not visited: the process is gone.
Visiting ==
  pc = "visit" /\ n <= Len(Sockets) /\ Sockets[n].Socket # NoHandle
Scanning == Visiting /\ Sockets[n].isServer /\ ~Sockets[n].LastError

ListenReturns ==
  /\ pc = "visit" /\ n > Len(Sockets)
  /\ pc' = "script" /\ n' = 1 /\ i' = 1 /\ RecvSock' = NoHandle
  /\ event' = NoEvent
  /\ UNCHANGED <<kernel, Sockets, SocketSize, script>>

\* TerrahSocket::Listen returned: a packet or a new connection (flag 0 or 2),
\* or an error, whose Recv event (flag 1) is given RecvSock as it is.
Raise(to, from, flag) ==
  /\ pc' = IF flag = 1 THEN "errorEvent" ELSE "event"
  /\ event' = [to |-> to, from |-> from, flag |-> flag]
  /\ UNCHANGED <<SocketSize, script, n>>

\* A pending error is returned before out is set.
PendingError ==
  /\ Visiting /\ Sockets[n].LastError
  /\ Raise(Sockets[n].Socket, RecvSock, 1)
  /\ UNCHANGED <<kernel, Sockets, i, RecvSock>>

ClientPacket ==
  /\ Visiting /\ ~Sockets[n].isServer /\ ~Sockets[n].LastError
  /\ LET h == Sockets[n].Socket IN
       /\ h \in inbox
       /\ inbox' = inbox \ {h}
       /\ RecvSock' = h
       /\ Raise(h, h, 0)
  /\ UNCHANGED <<conn, backlog, Sockets, i>>

ClientGone ==
  /\ Visiting /\ ~Sockets[n].isServer /\ ~Sockets[n].LastError
  /\ LET h == Sockets[n].Socket IN
       /\ h \notin inbox /\ Broken(h)
       /\ RecvSock' = h
       /\ Raise(h, h, 1)
  /\ UNCHANGED <<kernel, Sockets, i>>

ClientQuiet ==
  /\ Visiting /\ ~Sockets[n].isServer /\ ~Sockets[n].LastError
  /\ Sockets[n].Socket \notin inbox /\ ~Broken(Sockets[n].Socket)
  /\ n' = n + 1 /\ i' = 1
  /\ UNCHANGED <<kernel, Sockets, SocketSize, script, pc, RecvSock, event>>

\* The scan of a server's clients; SC is the one at position i.
AtClient == Scanning /\ i <= Len(Sockets[n].SC)
SC == Sockets[n].SC[i]

\* Remove and delete; the scan goes on at n = 0, then n++.
RemoveDead ==
  /\ AtClient /\ SC.die
  /\ Sockets' = [Sockets EXCEPT ![n].SC = RemoveAt(@, i)]
  /\ Released({SC.socket})
  /\ i' = 2
  /\ UNCHANGED <<SocketSize, script, pc, n, RecvSock, event>>

ReportError ==
  /\ AtClient /\ ~SC.die /\ SC.LastError
  /\ Sockets' = [Sockets EXCEPT ![n].SC[i].die = TRUE]
  /\ RecvSock' = SC.socket
  /\ Raise(Sockets[n].Socket, SC.socket, 1)
  /\ UNCHANGED <<kernel, i>>

\* Mutant: the ignore flag is never cleared.
SkipForever ==
  /\ AtClient /\ ~SC.die /\ ~SC.LastError /\ SC.ignore
  /\ i' = i + 1
  /\ UNCHANGED <<kernel, Sockets, SocketSize, script, pc, n, RecvSock, event>>

\* "Ignore the last socket that recived": once.
SkipIgnored ==
  /\ AtClient /\ ~SC.die /\ ~SC.LastError /\ SC.ignore
  /\ Sockets' = [Sockets EXCEPT ![n].SC[i].ignore = FALSE]
  /\ i' = i + 1
  /\ UNCHANGED <<kernel, SocketSize, script, pc, n, RecvSock, event>>

\* Mutant: the ignore flag is not set.
ReceiveAgain ==
  /\ AtClient /\ ~SC.die /\ ~SC.LastError /\ ~SC.ignore
  /\ SC.socket \in inbox
  /\ inbox' = inbox \ {SC.socket}
  /\ RecvSock' = SC.socket
  /\ Raise(Sockets[n].Socket, SC.socket, 0)
  /\ UNCHANGED <<conn, Sockets, backlog, i>>

Receive ==
  /\ AtClient /\ ~SC.die /\ ~SC.LastError /\ ~SC.ignore
  /\ SC.socket \in inbox
  /\ inbox' = inbox \ {SC.socket}
  /\ Sockets' = [Sockets EXCEPT ![n].SC[i].ignore = TRUE]
  /\ RecvSock' = SC.socket
  /\ Raise(Sockets[n].Socket, SC.socket, 0)
  /\ UNCHANGED <<conn, backlog, i>>

\* Nothing, or a recv of 0 or -1, which the scan treats alike; out is set when
\* select found the socket readable.
NothingReceived ==
  /\ AtClient /\ ~SC.die /\ ~SC.LastError /\ ~SC.ignore
  /\ SC.socket \notin inbox
  /\ RecvSock' = IF Broken(SC.socket) THEN SC.socket ELSE RecvSock
  /\ i' = i + 1
  /\ UNCHANGED <<kernel, Sockets, SocketSize, script, pc, n, event>>

ScanOver == Scanning /\ i > Len(Sockets[n].SC)

Accept ==
  /\ ScanOver /\ backlog[Sockets[n].Socket] > 0
  /\ \E h \in FreeHandles :
       /\ conn' = [conn EXCEPT ![h] = "open"]
       /\ backlog' = [backlog EXCEPT ![Sockets[n].Socket] = @ - 1]
       /\ Sockets' = [Sockets EXCEPT ![n].SC =
            Append(@, [socket |-> h, LastError |-> FALSE, ignore |-> FALSE,
                       die |-> FALSE])]
       /\ Raise(Sockets[n].Socket, h, 2)
  /\ RecvSock' = Sockets[n].Socket
  /\ UNCHANGED <<inbox, i>>

\* No connection waits, or accept fails.
ServerQuiet ==
  /\ ScanOver
  /\ backlog[Sockets[n].Socket] = 0 \/ FreeHandles = {}
  /\ n' = n + 1 /\ i' = 1
  /\ UNCHANGED <<kernel, Sockets, SocketSize, script, pc, RecvSock, event>>

\* Mutant: the socket of the event is visited again.
EventReturnsSame ==
  /\ pc = "event"
  /\ pc' = "visit" /\ i' = 1 /\ event' = NoEvent
  /\ UNCHANGED <<kernel, Sockets, SocketSize, script, n, RecvSock>>

\* The Recv event returned.
EventReturns ==
  /\ pc = "event"
  /\ pc' = "visit" /\ n' = n + 1 /\ i' = 1 /\ event' = NoEvent
  /\ UNCHANGED <<kernel, Sockets, SocketSize, script, RecvSock>>

\* After an error the socket in RecvSock is killed and n visited again.
ErrorEventReturns ==
  /\ pc = "errorEvent"
  /\ KillSocket(RecvSock)
  /\ pc' = "visit" /\ i' = 1 /\ event' = NoEvent
  /\ UNCHANGED <<SocketSize, script, n, RecvSock>>

-----------------------------------------------------------------------------
Peers == PeerConnects \/ PeerSends \/ PeerLeaves

Script == OpenServerSocket \/ OpenClientSocket \/ Close \/ Collect \/ SendFails

Listen ==
  ListenStarts \/ ListenReturns \/ PendingError \/ ClientPacket \/ ClientGone
    \/ ClientQuiet \/ RemoveDead \/ ReportError \/ SkipIgnored \/ Receive
    \/ NothingReceived \/ Accept \/ ServerQuiet \/ EventReturns
    \/ ErrorEventReturns

\* With no socket open LuaMain does not call Listen.
Idle == pc = "script" /\ Sockets = <<>> /\ UNCHANGED vars

Next == Peers \/ Script \/ Listen \/ Idle

Spec == Init /\ [][Next]_vars

\* LuaMain calls Listen over and over, and Recv events end; the script and
\* the peers owe nothing.
FairSpec == Spec /\ WF_vars(Listen)

-----------------------------------------------------------------------------
(* Safety.                                                                 *)

ServerClient ==
  [socket : Handles, LastError : BOOLEAN, ignore : BOOLEAN, die : BOOLEAN]

TypeOK ==
  /\ conn \in [Handles -> {"free", "listening", "open", "closed", "reset"}]
  /\ inbox \subseteq Handles
  /\ backlog \in [Handles -> 0 .. MaxBacklog]
  /\ Sockets \in Seq([Socket : Handles \cup {NoHandle}, isServer : BOOLEAN,
                     LastError : BOOLEAN, SC : Seq(ServerClient)])
  /\ SocketSize \in Nat /\ Len(Sockets) <= SocketSize
  /\ held \in [Handles -> 0 .. MaxOpens] /\ opens \in 0 .. MaxOpens
  /\ pc \in {"script", "visit", "event", "errorEvent"}
  /\ n \in Nat \ {0} /\ i \in Nat \ {0}
  /\ RecvSock \in Handles \cup {NoHandle}
  /\ event \in [to : Handles \cup {NoHandle}, from : Handles \cup {NoHandle},
                flag : 0 .. 2]

\* Whatever scripts close and collect, twice or too late, and whatever handle
\* Winsock gives out again: every socket object owns an open handle, of its
\* own kind, that no other object owns; so no handle is closed twice.
HandlesOwnedOnce ==
  /\ \A k \in DOMAIN Sockets :
       /\ conn[Sockets[k].Socket] # "free"
       /\ Sockets[k].isServer <=> conn[Sockets[k].Socket] = "listening"
       /\ \A l \in DOMAIN Sockets :
            Sockets[k].Socket = Sockets[l].Socket => k = l
       /\ \A l \in DOMAIN Sockets :
            \A a \in DOMAIN Sockets[k].SC, b \in DOMAIN Sockets[l].SC :
              Sockets[k].SC[a].socket = Sockets[l].SC[b].socket =>
                k = l /\ a = b
  /\ \A h \in Accepted : conn[h] \in {"open", "closed", "reset"}
  /\ TableHandles \cap Accepted = {}

-----------------------------------------------------------------------------
(* Liveness.  An error that the object in the table itself keeps, a         *)
(* client's or a server's, is reported with an out parameter that is not    *)
(* set: what KillSocket then finds may be nothing, and Listen visits the    *)
(* same object again for ever.  As long as no object keeps one, whatever    *)
(* else fails:                                                              *)

NoKeptError == \A k \in DOMAIN Sockets : ~Sockets[k].LastError

\* Listen comes to its end and LuaMain's loop goes on, though an error makes it
\* visit the same place again and events open and close sockets under it.
ListenEnds == []NoKeptError => (pc # "script" ~> pc = "script")

\* An accepted connection with data is read however busy the ones before it
\* in the array are: the ignore flags make room for it.
NoStarvation ==
  []NoKeptError =>
    \A h \in Handles :
      h \in inbox /\ h \in Accepted ~> ~(h \in inbox /\ h \in Accepted)

\* A connection is accepted at last, however busy the accepted ones are.
ConnectionsAccepted ==
  []NoKeptError =>
    \A h \in Handles : backlog[h] > 0 ~> backlog[h] = 0 \/ FreeHandles = {}

\* A connection that is to die leaves its server's array at last, however busy
\* the ones before it are: to be marked is not to wait for ever.
Dying == {c.socket : c \in {d \in UNION {SCOf(k) : k \in DOMAIN Sockets} : d.die}}

DyingAreRemoved ==
  []NoKeptError => \A h \in Handles : h \in Dying ~> h \notin Dying

-----------------------------------------------------------------------------
(* What comments and the README say and the code does not keep.            *)

\* "out will be filled out with the socket that recived the packet"
\* (TerrahSocket.h): the error event of a server names the socket that failed,
\* one of its own.
ErrorNamesFailedSocket ==
  [][pc' = "errorEvent" /\ pc # "errorEvent" =>
       \E k \in DOMAIN Sockets :
         /\ Sockets[k].Socket = event'.to
         /\ Sockets[k].isServer =>
              event'.from \in {event'.to} \cup ClientHandles(k)]_vars

\* "Returns [...] -1 or error" (TerrahSocket.h): a connection reset by its peer
\* is reported.
ResetsReported ==
  \A h \in Handles :
    conn[h] = "reset" /\ h \in Accepted ~> event.flag = 1 \/ h \notin Accepted
=============================================================================
