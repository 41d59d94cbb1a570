----------------------------- MODULE NetworkProofs -----------------------------
(***************************************************************************)
(* For any number of handles, connections and opened sockets, and as long  *)
(* as the table never holds more sockets at a time than it has room for at *)
(* first: every socket object owns its handle alone.  The argument is that *)
(* a step either takes a free handle or leaves every object with a handle  *)
(* it owned before.                                                        *)
(***************************************************************************)
EXTENDS Network, SequenceTheorems, TLAPS

EntryType ==
  [Socket : Handles \cup {NoHandle}, isServer : BOOLEAN, LastError : BOOLEAN,
   SC : Seq(ServerClient)]

Connected == {"open", "closed", "reset"}

\* One entry of the table: its own handle and those of its connections.
OwnEntry(k) ==
  /\ Sockets[k].Socket \in Handles
  /\ conn[Sockets[k].Socket] # "free"
  /\ Sockets[k].isServer <=> conn[Sockets[k].Socket] = "listening"
  /\ \A a \in 1 .. Len(Sockets[k].SC) :
       conn[Sockets[k].SC[a].socket] \in Connected
  /\ \A a, b \in 1 .. Len(Sockets[k].SC) :
       Sockets[k].SC[a].socket = Sockets[k].SC[b].socket => a = b

\* Two entries.
OwnPair(k, l) ==
  /\ Sockets[k].Socket = Sockets[l].Socket => k = l
  /\ \A a \in 1 .. Len(Sockets[l].SC) :
       Sockets[k].Socket # Sockets[l].SC[a].socket
  /\ k # l => \A a \in 1 .. Len(Sockets[k].SC), b \in 1 .. Len(Sockets[l].SC) :
       Sockets[k].SC[a].socket # Sockets[l].SC[b].socket

Own ==
  /\ \A k \in 1 .. Len(Sockets) : OwnEntry(k)
  /\ \A k, l \in 1 .. Len(Sockets) : OwnPair(k, l)

\* The sockets the table first has room for: with one more it grows a second
\* time, and loses its entries.
Within == Len(Sockets) <= Growth

\* The table has no room, or what its first growth gave it.
Room ==
  /\ Len(Sockets) <= opens
  /\ SocketSize = 0 \/ SocketSize >= Growth
  /\ \A h \in Handles : held[h] <= opens

IndInv == TypeOK /\ Room /\ Own

-----------------------------------------------------------------------------
\* What closing the gap of a removed element does to a sequence.
LEMMA RemoveAtFacts ==
  ASSUME NEW S, NEW s \in Seq(S), NEW k \in 1 .. Len(s)
  PROVE  /\ RemoveAt(s, k) \in Seq(S)
         /\ Len(RemoveAt(s, k)) = Len(s) - 1
         /\ \A j \in 1 .. Len(s) - 1 :
              RemoveAt(s, k)[j] = IF j < k THEN s[j] ELSE s[j + 1]
<1>1. Len(s) \in Nat
  OBVIOUS
<1> DEFINE before == SubSeq(s, 1, k - 1)
           after == SubSeq(s, k + 1, Len(s))
<1>2. /\ before \in Seq(S) /\ Len(before) = k - 1
      /\ \A j \in 1 .. k - 1 : before[j] = s[j]
  BY <1>1, SMT
<1>3. /\ after \in Seq(S) /\ Len(after) = Len(s) - k
      /\ \A j \in 1 .. Len(s) - k : after[j] = s[k + j]
  BY <1>1, SMT
<1>4. RemoveAt(s, k) = before \o after
  BY DEF RemoveAt
<1> HIDE DEF before, after
<1>5. /\ before \o after \in Seq(S)
      /\ Len(before \o after) = Len(before) + Len(after)
      /\ \A j \in 1 .. Len(before) + Len(after) :
           (before \o after)[j] =
             IF j <= Len(before) THEN before[j] ELSE after[j - Len(before)]
  BY <1>2, <1>3, ConcatProperties
<1>6. Len(before) + Len(after) = Len(s) - 1
  BY <1>1, <1>2, <1>3, SMT
<1>7. ASSUME NEW j \in 1 .. Len(s) - 1
      PROVE  (before \o after)[j] = IF j < k THEN s[j] ELSE s[j + 1]
  <2>1. CASE j < k
    BY <1>1, <1>2, <1>3, <1>5, <1>6, <2>1, SMT
  <2>2. CASE ~(j < k)
    <3>1. /\ (before \o after)[j] = after[j - (k - 1)]
          /\ j - (k - 1) \in 1 .. Len(s) - k
      BY <1>1, <1>2, <1>3, <1>5, <1>6, <2>2, SMT
    <3>2. after[j - (k - 1)] = s[k + (j - (k - 1))]
      BY <1>3, <3>1
    <3>3. k + (j - (k - 1)) = j + 1
      BY <1>1, SMT
    <3> QED
      BY <2>2, <3>1, <3>2, <3>3
  <2> QED
    BY <2>1, <2>2
<1> QED
  BY <1>5, <1>4, <1>6, <1>7

\* What the last element taking the place of the k-th does.
LEMMA SwapRemoveFacts ==
  ASSUME NEW S, NEW s \in Seq(S), NEW k \in 1 .. Len(s)
  PROVE  /\ SwapRemove(s, k) \in Seq(S)
         /\ Len(SwapRemove(s, k)) = Len(s) - 1
         /\ \A j \in 1 .. Len(s) - 1 :
              SwapRemove(s, k)[j] = IF j = k THEN s[Len(s)] ELSE s[j]
<1>1. Len(s) \in Nat /\ Len(s) - 1 \in Nat
  OBVIOUS
<1>2. SwapRemove(s, k) \in [1 .. Len(s) - 1 -> S]
  BY <1>1, SMT DEF SwapRemove
<1>3. SwapRemove(s, k) \in Seq(S)
  BY <1>1, <1>2, SeqDef
<1>4. DOMAIN SwapRemove(s, k) = 1 .. Len(s) - 1
  BY <1>2
<1>5. Len(SwapRemove(s, k)) = Len(s) - 1
  BY <1>1, <1>3, <1>4, LenProperties, SMT
<1>6. ASSUME NEW j \in 1 .. Len(s) - 1
      PROVE  SwapRemove(s, k)[j] = IF j = k THEN s[Len(s)] ELSE s[j]
  BY DEF SwapRemove
<1> QED
  BY <1>3, <1>5, <1>6

\* What TypeOK says of the table.
LEMMA TableFacts ==
  ASSUME TypeOK
  PROVE  /\ Sockets \in Seq(EntryType) /\ Len(Sockets) \in Nat
         /\ DOMAIN Sockets = 1 .. Len(Sockets)
         /\ \A k \in 1 .. Len(Sockets) :
              /\ Sockets[k] \in EntryType /\ Sockets[k].SC \in Seq(ServerClient)
              /\ Len(Sockets[k].SC) \in Nat
              /\ DOMAIN Sockets[k].SC = 1 .. Len(Sockets[k].SC)
              /\ \A a \in 1 .. Len(Sockets[k].SC) :
                   /\ Sockets[k].SC[a] \in ServerClient
                   /\ Sockets[k].SC[a].socket \in Handles
<1>1. Sockets \in Seq(EntryType)
  BY DEF TypeOK, EntryType
<1>2. Len(Sockets) \in Nat /\ DOMAIN Sockets = 1 .. Len(Sockets)
  BY <1>1, LenProperties
<1>3. ASSUME NEW k \in 1 .. Len(Sockets)
      PROVE  /\ Sockets[k] \in EntryType /\ Sockets[k].SC \in Seq(ServerClient)
             /\ Len(Sockets[k].SC) \in Nat
             /\ DOMAIN Sockets[k].SC = 1 .. Len(Sockets[k].SC)
             /\ \A a \in 1 .. Len(Sockets[k].SC) :
                  /\ Sockets[k].SC[a] \in ServerClient
                  /\ Sockets[k].SC[a].socket \in Handles
  <2>1. Sockets[k] \in EntryType
    BY <1>1, ElementOfSeq
  <2>2. Sockets[k].SC \in Seq(ServerClient)
    BY <2>1 DEF EntryType
  <2>3. Len(Sockets[k].SC) \in Nat /\ DOMAIN Sockets[k].SC = 1 .. Len(Sockets[k].SC)
    BY <2>2, LenProperties
  <2>4. ASSUME NEW a \in 1 .. Len(Sockets[k].SC)
        PROVE  /\ Sockets[k].SC[a] \in ServerClient
               /\ Sockets[k].SC[a].socket \in Handles
    <3>1. Sockets[k].SC[a] \in ServerClient
      BY <2>2, ElementOfSeq
    <3> QED
      BY <3>1 DEF ServerClient
  <2> QED
    BY <2>1, <2>2, <2>3, <2>4
<1> QED
  BY <1>1, <1>2, <1>3

\* A handle that stays what it is, or a connection that stays one.
Kept(h) == conn'[h] = conn[h] \/ (conn[h] \in Connected /\ conn'[h] \in Connected)

\* A step after which each entry has the handles, or some of the handles, of one
\* entry before, and no two of them the same, keeps them owned once.
LEMMA FewerHandles ==
  ASSUME TypeOK, Own,
         NEW f \in [1 .. Len(Sockets') -> 1 .. Len(Sockets)],
         \A k, l \in 1 .. Len(Sockets') : f[k] = f[l] => k = l,
         \A k \in 1 .. Len(Sockets') :
           /\ Sockets'[k].Socket = Sockets[f[k]].Socket
           /\ Sockets'[k].isServer = Sockets[f[k]].isServer
           /\ Kept(Sockets'[k].Socket)
           /\ \A a \in 1 .. Len(Sockets'[k].SC) :
                /\ \E m \in 1 .. Len(Sockets[f[k]].SC) :
                     Sockets'[k].SC[a].socket = Sockets[f[k]].SC[m].socket
                /\ Kept(Sockets'[k].SC[a].socket)
           /\ \A a, b \in 1 .. Len(Sockets'[k].SC) :
                Sockets'[k].SC[a].socket = Sockets'[k].SC[b].socket => a = b
  PROVE  Own'
<1>1. ASSUME NEW k \in 1 .. Len(Sockets')
      PROVE  OwnEntry(k)'
  <2>1. f[k] \in 1 .. Len(Sockets) /\ OwnEntry(f[k])
    BY DEF Own
  <2>2. /\ Sockets'[k].Socket \in Handles
        /\ conn'[Sockets'[k].Socket] # "free"
        /\ Sockets'[k].isServer <=> conn'[Sockets'[k].Socket] = "listening"
    BY <2>1, SMT DEF OwnEntry, Kept, Connected
  <2>3. \A a \in 1 .. Len(Sockets'[k].SC) :
          conn'[Sockets'[k].SC[a].socket] \in Connected
    <3> TAKE a \in 1 .. Len(Sockets'[k].SC)
    <3>1. PICK m \in 1 .. Len(Sockets[f[k]].SC) :
            Sockets'[k].SC[a].socket = Sockets[f[k]].SC[m].socket
      BY ZenonT(60)
    <3>2. conn[Sockets'[k].SC[a].socket] \in Connected
      BY <2>1, <3>1 DEF OwnEntry
    <3>3. Kept(Sockets'[k].SC[a].socket)
      OBVIOUS
    <3> QED
      BY <3>2, <3>3 DEF Kept
  <2> QED
    BY <2>2, <2>3 DEF OwnEntry, Connected
<1>2. ASSUME NEW k \in 1 .. Len(Sockets'), NEW l \in 1 .. Len(Sockets')
      PROVE  OwnPair(k, l)'
  <2>1. /\ f[k] \in 1 .. Len(Sockets) /\ f[l] \in 1 .. Len(Sockets)
        /\ OwnPair(f[k], f[l])
    BY DEF Own
  <2>2. Sockets'[k].Socket = Sockets'[l].Socket => k = l
    BY <2>1 DEF OwnPair
  <2>3. \A a \in 1 .. Len(Sockets'[l].SC) :
          Sockets'[k].Socket # Sockets'[l].SC[a].socket
    BY <2>1 DEF OwnPair
  <2>4. ASSUME k # l, NEW a \in 1 .. Len(Sockets'[k].SC),
               NEW b \in 1 .. Len(Sockets'[l].SC)
        PROVE  Sockets'[k].SC[a].socket # Sockets'[l].SC[b].socket
    <3>1. f[k] # f[l]
      BY <2>4
    <3>2. PICK m \in 1 .. Len(Sockets[f[k]].SC) :
            Sockets'[k].SC[a].socket = Sockets[f[k]].SC[m].socket
      BY ZenonT(60)
    <3>3. PICK p \in 1 .. Len(Sockets[f[l]].SC) :
            Sockets'[l].SC[b].socket = Sockets[f[l]].SC[p].socket
      BY ZenonT(60)
    <3> QED
      BY <2>1, <3>1, <3>2, <3>3, SMTT(30) DEF OwnPair
  <2> QED
    BY <2>2, <2>3, <2>4 DEF OwnPair
<1> QED
  BY <1>1, <1>2 DEF Own

\* The case in which no entry goes and no connection leaves its array.
LEMMA SameHandles ==
  ASSUME TypeOK, Own, Len(Sockets') = Len(Sockets),
         \A k \in 1 .. Len(Sockets) :
           /\ Sockets'[k].Socket = Sockets[k].Socket
           /\ Sockets'[k].isServer = Sockets[k].isServer
           /\ Len(Sockets'[k].SC) = Len(Sockets[k].SC)
           /\ \A a \in 1 .. Len(Sockets[k].SC) :
                Sockets'[k].SC[a].socket = Sockets[k].SC[a].socket,
         \A h \in Handles : Kept(h)
  PROVE  Own'
<1> DEFINE f == [k \in 1 .. Len(Sockets') |-> k]
<1>1. f \in [1 .. Len(Sockets') -> 1 .. Len(Sockets)]
  OBVIOUS
<1>2. \A k, l \in 1 .. Len(Sockets') : f[k] = f[l] => k = l
  OBVIOUS
<1>3. ASSUME NEW k \in 1 .. Len(Sockets')
      PROVE  /\ Sockets'[k].Socket = Sockets[f[k]].Socket
             /\ Sockets'[k].isServer = Sockets[f[k]].isServer
             /\ Kept(Sockets'[k].Socket)
             /\ \A a \in 1 .. Len(Sockets'[k].SC) :
                  /\ \E m \in 1 .. Len(Sockets[f[k]].SC) :
                       Sockets'[k].SC[a].socket = Sockets[f[k]].SC[m].socket
                  /\ Kept(Sockets'[k].SC[a].socket)
             /\ \A a, b \in 1 .. Len(Sockets'[k].SC) :
                  Sockets'[k].SC[a].socket = Sockets'[k].SC[b].socket => a = b
  <2>1. OwnEntry(k) /\ f[k] = k
    BY DEF Own
  <2>2. Kept(Sockets'[k].Socket)
    BY <2>1 DEF OwnEntry
  <2>3. \A a \in 1 .. Len(Sockets'[k].SC) : Kept(Sockets'[k].SC[a].socket)
    BY TableFacts
  <2>4. ASSUME NEW a \in 1 .. Len(Sockets'[k].SC)
        PROVE  \E m \in 1 .. Len(Sockets[f[k]].SC) :
                 Sockets'[k].SC[a].socket = Sockets[f[k]].SC[m].socket
    BY <2>1
  <2>5. \A a, b \in 1 .. Len(Sockets'[k].SC) :
          Sockets'[k].SC[a].socket = Sockets'[k].SC[b].socket => a = b
    BY <2>1 DEF OwnEntry
  <2> QED
    BY <2>1, <2>2, <2>3, <2>4, <2>5
<1> HIDE DEF f
<1> QED
  BY <1>1, <1>2, <1>3, FewerHandles

-----------------------------------------------------------------------------
\* The connections of one server are replaced.
LEMMA PutClients ==
  ASSUME TypeOK, NEW k \in 1 .. Len(Sockets), NEW sc \in Seq(ServerClient),
         Sockets' = [Sockets EXCEPT ![k].SC = sc]
  PROVE  /\ Sockets' \in Seq(EntryType) /\ Len(Sockets') = Len(Sockets)
         /\ \A j \in 1 .. Len(Sockets) :
              /\ Sockets'[j].Socket = Sockets[j].Socket
              /\ Sockets'[j].isServer = Sockets[j].isServer
              /\ Sockets'[j].SC = IF j = k THEN sc ELSE Sockets[j].SC
<1> DEFINE e == [Sockets[k] EXCEPT !.SC = sc]
<1>1. /\ e \in EntryType /\ e.Socket = Sockets[k].Socket
      /\ e.isServer = Sockets[k].isServer /\ e.SC = sc
  <2>1. Sockets[k] \in EntryType
    BY TableFacts
  <2> QED
    BY <2>1 DEF EntryType
<1>2. Sockets' = [Sockets EXCEPT ![k] = e]
  OBVIOUS
<1> HIDE DEF e
<1>3. /\ Sockets' \in Seq(EntryType) /\ Len(Sockets') = Len(Sockets)
      /\ \A j \in 1 .. Len(Sockets) : Sockets'[j] = IF j = k THEN e ELSE Sockets[j]
  <2>1. Sockets \in Seq(EntryType)
    BY TableFacts
  <2>2. /\ [Sockets EXCEPT ![k] = e] \in Seq(EntryType)
        /\ Len([Sockets EXCEPT ![k] = e]) = Len(Sockets)
        /\ \A j \in 1 .. Len(Sockets) :
             [Sockets EXCEPT ![k] = e][j] = IF j = k THEN e ELSE Sockets[j]
    BY <1>1, <2>1, ExceptSeq
  <2> QED
    BY <1>2, <2>2, Zenon
<1> QED
  BY <1>1, <1>3

\* The flags of connections change and their handles do not.
LEMMA PutFlags ==
  ASSUME TypeOK, Own, NEW k \in 1 .. Len(Sockets), NEW sc \in Seq(ServerClient),
         Sockets' = [Sockets EXCEPT ![k].SC = sc],
         Len(sc) = Len(Sockets[k].SC),
         \A a \in 1 .. Len(sc) : sc[a].socket = Sockets[k].SC[a].socket,
         conn' = conn
  PROVE  Sockets' \in Seq(EntryType) /\ Len(Sockets') = Len(Sockets) /\ Own'
<1>1. /\ Sockets' \in Seq(EntryType) /\ Len(Sockets') = Len(Sockets)
      /\ \A j \in 1 .. Len(Sockets) :
           /\ Sockets'[j].Socket = Sockets[j].Socket
           /\ Sockets'[j].isServer = Sockets[j].isServer
           /\ Sockets'[j].SC = IF j = k THEN sc ELSE Sockets[j].SC
  BY PutClients
<1>2. \A h \in Handles : Kept(h)
  BY DEF Kept
<1>3. ASSUME NEW j \in 1 .. Len(Sockets)
      PROVE  /\ Sockets'[j].Socket = Sockets[j].Socket
             /\ Sockets'[j].isServer = Sockets[j].isServer
             /\ Len(Sockets'[j].SC) = Len(Sockets[j].SC)
             /\ \A a \in 1 .. Len(Sockets[j].SC) :
                  Sockets'[j].SC[a].socket = Sockets[j].SC[a].socket
  <2>1. CASE j = k
    BY <1>1, <2>1
  <2>2. CASE j # k
    BY <1>1, <2>2
  <2> QED
    BY <2>1, <2>2
<1>4. Own'
  BY <1>1, <1>2, <1>3, SameHandles
<1> QED
  BY <1>1, <1>4

\* One connection's flags change.
LEMMA PutFlag ==
  ASSUME TypeOK, Own, NEW k \in 1 .. Len(Sockets),
         NEW m \in 1 .. Len(Sockets[k].SC), NEW c \in ServerClient,
         c.socket = Sockets[k].SC[m].socket,
         Sockets' = [Sockets EXCEPT ![k].SC[m] = c], conn' = conn
  PROVE  Sockets' \in Seq(EntryType) /\ Len(Sockets') = Len(Sockets) /\ Own'
<1> DEFINE sc == [Sockets[k].SC EXCEPT ![m] = c]
<1>1. Sockets[k].SC \in Seq(ServerClient)
  BY TableFacts
<1>2. /\ sc \in Seq(ServerClient) /\ Len(sc) = Len(Sockets[k].SC)
      /\ \A a \in 1 .. Len(Sockets[k].SC) :
           sc[a] = IF a = m THEN c ELSE Sockets[k].SC[a]
  BY <1>1, ExceptSeq
<1>3. Sockets' = [Sockets EXCEPT ![k].SC = sc]
  OBVIOUS
<1> HIDE DEF sc
<1>4. \A a \in 1 .. Len(sc) : sc[a].socket = Sockets[k].SC[a].socket
  BY <1>2
<1> QED
  BY <1>2, <1>3, <1>4, PutFlags

\* What closesocket changes besides.
LEMMA ReleasedFacts ==
  ASSUME TypeOK, NEW h \in Handles, Released({h})
  PROVE  /\ conn' \in [Handles -> {"free", "listening", "open", "closed", "reset"}]
         /\ inbox' \subseteq Handles /\ backlog' \in [Handles -> 0 .. MaxBacklog]
         /\ \A o \in Handles : o # h => conn'[o] = conn[o]
  BY NetworkAssumption, SMT DEF TypeOK, Released, NetworkAssumption

\* The part of TypeOK about Winsock and the table.
TableType ==
  /\ conn \in [Handles -> {"free", "listening", "open", "closed", "reset"}]
  /\ inbox \subseteq Handles /\ backlog \in [Handles -> 0 .. MaxBacklog]
  /\ Sockets \in Seq(EntryType)

\* KillSocket, called by a script, by the collector or by Listen.
LEMMA KillSocketKeeps ==
  ASSUME TypeOK, Own, NEW h \in Handles, KillSocket(h)
  PROVE  TableType' /\ Len(Sockets') <= Len(Sockets) /\ Own'
<1>1. CASE \E k \in DOMAIN Sockets :
             /\ Sockets[k].Socket = h
             /\ Sockets' = SwapRemove(Sockets, k)
             /\ Released({h})
  <2>1. PICK k \in 1 .. Len(Sockets) :
          /\ Sockets[k].Socket = h
          /\ Sockets' = SwapRemove(Sockets, k)
          /\ Released({h})
    BY <1>1, TableFacts
  <2>2. /\ Sockets' \in Seq(EntryType) /\ Len(Sockets') = Len(Sockets) - 1
        /\ \A j \in 1 .. Len(Sockets) - 1 :
             Sockets'[j] = IF j = k THEN Sockets[Len(Sockets)] ELSE Sockets[j]
    BY <2>1, TableFacts, SwapRemoveFacts
  <2>3. TableType' /\ \A o \in Handles : o # h => conn'[o] = conn[o]
    BY <2>1, <2>2, ReleasedFacts DEF TableType
  <2> DEFINE f == [j \in 1 .. Len(Sockets') |-> IF j = k THEN Len(Sockets) ELSE j]
  <2>4. Len(Sockets) \in Nat
    BY TableFacts
  <2>5. f \in [1 .. Len(Sockets') -> 1 .. Len(Sockets)]
    BY <2>2, <2>4, SMT
  <2>6. /\ \A j, l \in 1 .. Len(Sockets') : f[j] = f[l] => j = l
        /\ \A j \in 1 .. Len(Sockets') : f[j] # k /\ Sockets'[j] = Sockets[f[j]]
    BY <2>2, <2>4, SMT
  <2> HIDE DEF f
  <2>7. ASSUME NEW j \in 1 .. Len(Sockets')
        PROVE  /\ Sockets'[j].Socket = Sockets[f[j]].Socket
               /\ Sockets'[j].isServer = Sockets[f[j]].isServer
               /\ Kept(Sockets'[j].Socket)
               /\ \A a \in 1 .. Len(Sockets'[j].SC) :
                    /\ \E m \in 1 .. Len(Sockets[f[j]].SC) :
                         Sockets'[j].SC[a].socket = Sockets[f[j]].SC[m].socket
                    /\ Kept(Sockets'[j].SC[a].socket)
               /\ \A a, b \in 1 .. Len(Sockets'[j].SC) :
                    Sockets'[j].SC[a].socket = Sockets'[j].SC[b].socket => a = b
    <3>1. /\ f[j] \in 1 .. Len(Sockets) /\ f[j] # k /\ Sockets'[j] = Sockets[f[j]]
          /\ OwnEntry(f[j]) /\ OwnPair(f[j], k) /\ OwnPair(k, f[j])
      BY <2>5, <2>6 DEF Own
    <3>2. Kept(Sockets'[j].Socket)
      <4>1. Sockets[f[j]].Socket \in Handles /\ Sockets[f[j]].Socket # h
        BY <2>1, <3>1 DEF OwnEntry, OwnPair
      <4> QED
        BY <2>3, <3>1, <4>1 DEF Kept
    <3>3. ASSUME NEW a \in 1 .. Len(Sockets'[j].SC)
          PROVE  Kept(Sockets'[j].SC[a].socket)
      <4>1. Sockets'[j].SC[a].socket \in Handles
        BY <3>1, TableFacts
      <4>2. Sockets'[j].SC[a].socket # h
        BY <2>1, <3>1 DEF OwnPair
      <4> QED
        BY <2>3, <4>1, <4>2 DEF Kept
    <3> QED
      BY <3>1, <3>2, <3>3 DEF OwnEntry
  <2>8. Own'
    BY <2>5, <2>6, <2>7, FewerHandles
  <2> QED
    BY <2>2, <2>3, <2>4, <2>8, SMT
<1>2. CASE \E k \in DOMAIN Sockets : \E m \in DOMAIN Sockets[k].SC :
             /\ h \notin TableHandles
             /\ Sockets[k].SC[m].socket = h
             /\ Sockets' = [Sockets EXCEPT ![k].SC[m].die = TRUE]
             /\ UNCHANGED kernel
  <2>1. PICK k \in 1 .. Len(Sockets) : \E m \in DOMAIN Sockets[k].SC :
          /\ Sockets' = [Sockets EXCEPT ![k].SC[m].die = TRUE]
          /\ UNCHANGED kernel
    BY <1>2, TableFacts
  <2>2. PICK m \in 1 .. Len(Sockets[k].SC) :
          /\ Sockets' = [Sockets EXCEPT ![k].SC[m].die = TRUE]
          /\ UNCHANGED kernel
    BY <2>1, TableFacts
  <2> DEFINE c == [Sockets[k].SC[m] EXCEPT !.die = TRUE]
  <2>3. c \in ServerClient /\ c.socket = Sockets[k].SC[m].socket
    <3>1. Sockets[k].SC[m] \in ServerClient
      BY TableFacts
    <3> QED
      BY <3>1 DEF ServerClient
  <2>4. Sockets' = [Sockets EXCEPT ![k].SC[m] = c]
    BY <2>2
  <2> HIDE DEF c
  <2>5. conn' = conn /\ inbox' = inbox /\ backlog' = backlog
    BY <2>2 DEF kernel
  <2>6. Sockets' \in Seq(EntryType) /\ Len(Sockets') = Len(Sockets) /\ Own'
    BY <2>3, <2>4, <2>5, PutFlag
  <2>7. Len(Sockets) \in Nat
    BY TableFacts
  <2>8. TableType'
    BY <2>5, <2>6 DEF TableType, TypeOK
  <2> QED
    BY <2>6, <2>7, <2>8, SMT
<1>3. CASE h \notin TableHandles \cup Accepted /\ UNCHANGED <<Sockets, kernel>>
  <2>1. /\ Sockets' = Sockets /\ conn' = conn /\ inbox' = inbox
        /\ backlog' = backlog
    BY <1>3 DEF kernel
  <2>2. Len(Sockets) \in Nat
    BY TableFacts
  <2>3. TableType'
    BY <2>1 DEF TableType, TypeOK, EntryType
  <2>4. Own'
    BY <2>1 DEF Own, OwnEntry, OwnPair
  <2> QED
    BY <2>1, <2>2, <2>3, <2>4, SMT
<1> QED
  BY <1>1, <1>2, <1>3 DEF KillSocket

-----------------------------------------------------------------------------
\* An open adds one entry, to the old ones or to what is left of them.
LEMMA OpenLengthens ==
  ASSUME IndInv, NEW server \in BOOLEAN, Open(server)
  PROVE  Len(Sockets') = Len(Sockets) + 1
<1>1. Sockets \in Seq(EntryType) /\ DOMAIN Sockets = 1 .. Len(Sockets)
      /\ Len(Sockets) \in Nat
  BY TableFacts DEF IndInv
<1>2. Grown \in Seq(EntryType) /\ Len(Grown) = Len(Sockets)
  <2>1. CASE Len(Sockets) >= SocketSize
    <3>1. Grown = [k \in 1 .. Len(Sockets) |-> Entry(NoHandle, FALSE)]
      BY <1>1, <2>1 DEF Grown
    <3>2. Entry(NoHandle, FALSE) \in EntryType
      BY EmptySeq DEF Entry, EntryType
    <3>3. PICK l \in Nat : l = Len(Sockets)
      BY <1>1
    <3>4. PICK e \in EntryType : e = Entry(NoHandle, FALSE)
      BY <3>2
    <3>5. Grown = [k \in 1 .. l |-> e]
      BY <3>1, <3>3, <3>4
    <3>6. Grown \in Seq(EntryType) /\ Len(Grown) = l
      BY ONLY <3>5, l \in Nat, e \in EntryType
    <3> QED
      BY <3>3, <3>6
  <2>2. CASE ~(Len(Sockets) >= SocketSize)
    BY <1>1, <2>2 DEF Grown
  <2> QED
    BY <2>1, <2>2
<1>3. PICK h \in FreeHandles : Sockets' = Append(Grown, Entry(h, server))
  BY DEF Open
<1> QED
  BY <1>2, <1>3

\* A socket is opened: the table has room, and the handle was free.
LEMMA OpenKeeps ==
  ASSUME IndInv, Within', NEW server \in BOOLEAN, Open(server)
  PROVE  IndInv'
<1>1. /\ opens \in Nat /\ opens < MaxOpens /\ opens' = opens + 1
      /\ Len(Sockets) \in Nat /\ SocketSize \in Nat /\ Len(Sockets) <= SocketSize
      /\ Len(Sockets) <= opens /\ (SocketSize = 0 \/ SocketSize >= Growth)
      /\ Growth \in Nat \ {0} /\ MaxOpens \in Nat
      /\ UNCHANGED <<inbox, backlog, pc, n, i, RecvSock, event>>
  BY NetworkAssumption, TableFacts, SMT
     DEF IndInv, TypeOK, Room, Open, NetworkAssumption, listen
<1>2. SocketSize = 0 \/ Len(Sockets) < SocketSize
  <2>1. Len(Sockets') = Len(Sockets) + 1 /\ Len(Sockets') <= Growth
    BY OpenLengthens DEF Within
  <2> QED
    BY <1>1, <2>1, SMT
<1>3. Grown = Sockets
  <2>1. CASE Len(Sockets) < SocketSize
    <3>1. ~(Len(Sockets) >= SocketSize)
      BY <1>1, <2>1, SMT
    <3> QED
      BY <3>1 DEF Grown
  <2>2. CASE SocketSize = 0
    <3>1. Sockets = <<>>
      BY <1>1, <2>2, TableFacts, EmptySeq, SMT DEF IndInv
    <3> QED
      BY <3>1, SMT DEF Grown
  <2> QED
    BY <1>2, <2>1, <2>2
<1>4. PICK h \in FreeHandles :
        /\ conn' = [conn EXCEPT ![h] = IF server THEN "listening" ELSE "open"]
        /\ Sockets' = Append(Sockets, Entry(h, server))
        /\ held' = [held EXCEPT ![h] = @ + 1]
  BY <1>3 DEF Open
<1>5. h \in Handles /\ conn[h] = "free"
  BY DEF FreeHandles
<1>6. /\ Entry(h, server) \in EntryType /\ Entry(h, server).Socket = h
      /\ Entry(h, server).isServer = server /\ Entry(h, server).SC = <<>>
  BY <1>5 DEF Entry, EntryType
<1>7. /\ Sockets' \in Seq(EntryType) /\ Len(Sockets') = Len(Sockets) + 1
      /\ \A k \in 1 .. Len(Sockets) : Sockets'[k] = Sockets[k]
      /\ Sockets'[Len(Sockets) + 1] = Entry(h, server)
  <2>1. Sockets \in Seq(EntryType)
    BY TableFacts DEF IndInv
  <2> QED
    BY <1>4, <1>6, <2>1, AppendProperties
<1>8. /\ conn' \in [Handles -> {"free", "listening", "open", "closed", "reset"}]
      /\ conn'[h] = IF server THEN "listening" ELSE "open"
      /\ \A o \in Handles : o # h => conn'[o] = conn[o]
  BY <1>4, <1>5 DEF IndInv, TypeOK
<1>9. TypeOK' /\ Room'
  <2>1. SocketSize' \in Nat /\ Len(Sockets') <= SocketSize'
        /\ (SocketSize' = 0 \/ SocketSize' >= Growth)
    BY <1>1, <1>2, <1>7, SMT DEF Open
  <2>2. held' \in [Handles -> 0 .. MaxOpens] /\ \A o \in Handles : held'[o] <= opens'
    <3>1. /\ held \in [Handles -> 0 .. MaxOpens]
          /\ \A o \in Handles : held[o] <= opens /\ held[o] \in Nat
      BY <1>1, SMT DEF IndInv, TypeOK, Room
    <3>2. held[h] + 1 \in 0 .. MaxOpens /\ held[h] + 1 <= opens'
      BY <1>1, <1>5, <3>1, SMT
    <3>3. \A o \in Handles : held[o] <= opens'
      BY <1>1, <3>1, SMT
    <3> QED
      BY <1>4, <1>5, <3>1, <3>2, <3>3
  <2>3. opens' \in 0 .. MaxOpens /\ Len(Sockets') <= opens'
    BY <1>1, <1>7, SMT
  <2>4. Sockets' \in Seq([Socket : Handles \cup {NoHandle}, isServer : BOOLEAN,
                     LastError : BOOLEAN, SC : Seq(ServerClient)])
    BY <1>7 DEF EntryType
  <2> QED
    BY <1>1, <1>8, <2>1, <2>2, <2>3, <2>4 DEF IndInv, TypeOK, Room
<1>10. \A k \in 1 .. Len(Sockets) :
         /\ Sockets[k].Socket # h
         /\ \A a \in 1 .. Len(Sockets[k].SC) :
              Sockets[k].SC[a].socket \in Handles \ {h}
  <2> TAKE k \in 1 .. Len(Sockets)
  <2>1. OwnEntry(k)
    BY DEF IndInv, Own
  <2>2. \A a \in 1 .. Len(Sockets[k].SC) : Sockets[k].SC[a].socket \in Handles
    BY TableFacts DEF IndInv
  <2> QED
    BY <1>5, <2>1, <2>2 DEF OwnEntry, Connected
<1>11. ASSUME NEW k \in 1 .. Len(Sockets')
       PROVE  k \in 1 .. Len(Sockets) \/ k = Len(Sockets) + 1
  BY <1>1, <1>7, SMT
<1>12. ASSUME NEW k \in 1 .. Len(Sockets')
       PROVE  OwnEntry(k)'
  <2>1. CASE k \in 1 .. Len(Sockets)
    <3>1. OwnEntry(k) /\ Sockets'[k] = Sockets[k] /\ Sockets[k].Socket # h
      BY <1>7, <1>10, <2>1 DEF IndInv, Own
    <3>2. conn'[Sockets[k].Socket] = conn[Sockets[k].Socket]
      BY <1>8, <3>1 DEF OwnEntry
    <3>3. \A a \in 1 .. Len(Sockets[k].SC) :
            conn'[Sockets[k].SC[a].socket] = conn[Sockets[k].SC[a].socket]
      BY <1>8, <1>10, <2>1
    <3> QED
      BY <3>1, <3>2, <3>3 DEF OwnEntry
  <2>2. CASE k = Len(Sockets) + 1
    <3>1. /\ Sockets'[k].Socket = h /\ Sockets'[k].isServer = server
          /\ Len(Sockets'[k].SC) = 0
      BY <1>6, <1>7, <2>2
    <3>2. \A a \in 1 .. Len(Sockets'[k].SC) : FALSE
      BY <3>1, SMT
    <3>3. /\ conn'[h] # "free"
          /\ server <=> conn'[h] = "listening"
      BY <1>8
    <3> QED
      BY <1>5, <3>1, <3>2, <3>3 DEF OwnEntry
  <2> QED
    BY <1>11, <2>1, <2>2
<1>13. ASSUME NEW k \in 1 .. Len(Sockets'), NEW l \in 1 .. Len(Sockets')
       PROVE  OwnPair(k, l)'
  <2>0. ASSUME NEW j \in 1 .. Len(Sockets'), j \notin 1 .. Len(Sockets)
        PROVE  /\ j = Len(Sockets) + 1 /\ Sockets'[j].Socket = h
               /\ \A a \in 1 .. Len(Sockets'[j].SC) : FALSE
    <3>1. j = Len(Sockets) + 1 /\ Len(Sockets'[j].SC) = 0 /\ Sockets'[j].Socket = h
      BY <1>6, <1>7, <1>11, <2>0
    <3> QED
      BY <3>1, SMT
  <2>1. CASE k \in 1 .. Len(Sockets) /\ l \in 1 .. Len(Sockets)
    <3>1. OwnPair(k, l) /\ Sockets'[k] = Sockets[k] /\ Sockets'[l] = Sockets[l]
      BY <1>7, <2>1 DEF IndInv, Own
    <3> QED
      BY <3>1 DEF OwnPair
  <2>2. CASE k \in 1 .. Len(Sockets) /\ l \notin 1 .. Len(Sockets)
    <3>1. /\ Sockets'[k] = Sockets[k] /\ Sockets[k].Socket # h
          /\ Sockets'[l].Socket = h
          /\ \A a \in 1 .. Len(Sockets'[l].SC) : FALSE
      BY <1>7, <1>10, <2>0, <2>2
    <3> QED
      BY <3>1 DEF OwnPair
  <2>3. CASE k \notin 1 .. Len(Sockets) /\ l \in 1 .. Len(Sockets)
    <3>1. /\ Sockets'[l] = Sockets[l] /\ Sockets[l].Socket # h
          /\ \A a \in 1 .. Len(Sockets[l].SC) : Sockets[l].SC[a].socket # h
          /\ Sockets'[k].Socket = h
          /\ \A a \in 1 .. Len(Sockets'[k].SC) : FALSE
      BY <1>7, <1>10, <2>0, <2>3
    <3> QED
      BY <3>1 DEF OwnPair
  <2>4. CASE k \notin 1 .. Len(Sockets) /\ l \notin 1 .. Len(Sockets)
    <3>1. /\ k = l /\ \A a \in 1 .. Len(Sockets'[l].SC) : FALSE
      BY <2>0, <2>4
    <3> QED
      BY <3>1 DEF OwnPair
  <2> QED
    BY <2>1, <2>2, <2>3, <2>4
<1> QED
  BY <1>9, <1>12, <1>13 DEF IndInv, Own

-----------------------------------------------------------------------------
\* Where Listen is.
ListenType ==
  /\ pc \in {"script", "visit", "event", "errorEvent"}
  /\ n \in Nat \ {0} /\ i \in Nat \ {0}
  /\ RecvSock \in Handles \cup {NoHandle}
  /\ event \in [to : Handles \cup {NoHandle}, from : Handles \cup {NoHandle},
                flag : 0 .. 2]

\* A step that opens nothing.
LEMMA NoOpen ==
  ASSUME IndInv, TableType', Own', ListenType', Len(Sockets') <= Len(Sockets),
         SocketSize' = SocketSize, opens' = opens,
         held' = held \/ \E h \in Handles :
           held[h] > 0 /\ held' = [held EXCEPT ![h] = @ - 1]
  PROVE  IndInv'
<1>1. /\ Len(Sockets) \in Nat /\ Len(Sockets') \in Nat /\ opens \in 0 .. MaxOpens
      /\ SocketSize \in Nat /\ Len(Sockets) <= SocketSize /\ Len(Sockets) <= opens
      /\ Growth \in Nat /\ MaxOpens \in Nat
  BY TableFacts, LenProperties, NetworkAssumption
     DEF IndInv, TypeOK, Room, TableType, NetworkAssumption
<1>2. Len(Sockets') <= SocketSize' /\ Len(Sockets') <= opens'
  BY <1>1, SMT
<1>3. /\ held \in [Handles -> 0 .. MaxOpens]
      /\ \A h \in Handles : held[h] \in Nat /\ held[h] <= opens
  BY <1>1, SMT DEF IndInv, TypeOK, Room
<1>4. held' \in [Handles -> 0 .. MaxOpens] /\ \A h \in Handles : held'[h] <= opens'
  <2>1. CASE held' = held
    BY <1>3, <2>1
  <2>2. CASE \E h \in Handles : held[h] > 0 /\ held' = [held EXCEPT ![h] = @ - 1]
    <3>1. PICK h \in Handles : held[h] > 0 /\ held' = [held EXCEPT ![h] = @ - 1]
      BY <2>2
    <3>2. held[h] - 1 \in 0 .. MaxOpens /\ held[h] - 1 <= opens
      BY <1>1, <1>3, <3>1, SMT
    <3> QED
      BY <1>3, <3>1, <3>2
  <2> QED
    BY <2>1, <2>2
<1>5. TypeOK'
  BY <1>1, <1>2, <1>4 DEF IndInv, TypeOK, TableType, ListenType, EntryType
<1>6. Room'
  BY <1>2, <1>4 DEF IndInv, Room
<1> QED
  BY <1>5, <1>6 DEF IndInv

\* A step that changes neither the table nor what is open.
LEMMA SameTable ==
  ASSUME IndInv, ListenType', UNCHANGED <<Sockets, SocketSize, held, opens>>,
         conn' \in [Handles -> {"free", "listening", "open", "closed", "reset"}],
         inbox' \subseteq Handles, backlog' \in [Handles -> 0 .. MaxBacklog],
         \A h \in Handles : Kept(h)
  PROVE  IndInv'
<1>1. Len(Sockets) \in Nat /\ Sockets \in Seq(EntryType)
  BY TableFacts DEF IndInv
<1>2. TableType'
  BY <1>1 DEF TableType
<1>3. Own'
  BY SameHandles DEF IndInv
<1>4. Len(Sockets') <= Len(Sockets)
  BY <1>1, SMT
<1> QED
  BY <1>2, <1>3, <1>4, NoOpen

\* A step after which the connections of one server have other flags.
LEMMA SameOwners ==
  ASSUME IndInv, ListenType', UNCHANGED <<SocketSize, held, opens>>,
         conn' = conn, inbox' \subseteq Handles, backlog' = backlog,
         Sockets' \in Seq(EntryType), Len(Sockets') = Len(Sockets), Own'
  PROVE  IndInv'
<1>1. Len(Sockets) \in Nat
  BY TableFacts DEF IndInv
<1>2. TableType'
  BY DEF TableType, IndInv, TypeOK
<1>3. Len(Sockets') <= Len(Sockets)
  BY <1>1, SMT
<1> QED
  BY <1>2, <1>3, NoOpen

\* Listen is at an entry of the table, which has a handle.
LEMMA VisitingFacts ==
  ASSUME TypeOK, Visiting
  PROVE  /\ n \in 1 .. Len(Sockets) /\ Sockets[n].Socket \in Handles
         /\ Sockets[n] \in EntryType
<1>1. n \in 1 .. Len(Sockets)
  BY TableFacts, SMT DEF TypeOK, Visiting
<1> QED
  BY <1>1, TableFacts DEF Visiting, EntryType

\* Listen is at an accepted connection.
LEMMA AtClientFacts ==
  ASSUME TypeOK, AtClient
  PROVE  /\ n \in 1 .. Len(Sockets) /\ Sockets[n].Socket \in Handles
         /\ i \in 1 .. Len(Sockets[n].SC)
         /\ SC = Sockets[n].SC[i] /\ SC \in ServerClient /\ SC.socket \in Handles
<1>1. /\ n \in 1 .. Len(Sockets) /\ Sockets[n].Socket \in Handles
  BY VisitingFacts DEF AtClient, Scanning
<1>2. i \in 1 .. Len(Sockets[n].SC)
  BY <1>1, TableFacts, SMT DEF TypeOK, AtClient
<1> QED
  BY <1>1, <1>2, TableFacts DEF SC

\* What an event is made of.
LEMMA RaiseFacts ==
  ASSUME TypeOK, NEW to \in Handles, NEW from \in Handles \cup {NoHandle},
         NEW flag \in 0 .. 2, Raise(to, from, flag),
         RecvSock' \in Handles \cup {NoHandle}, i' = i
  PROVE  ListenType' /\ UNCHANGED <<SocketSize, held, opens>>
  BY DEF TypeOK, Raise, ListenType, script

\* A connection that was marked, or that failed, is removed and its handle closed.
LEMMA RemoveDeadKeeps ==
  ASSUME IndInv, RemoveDead
  PROVE  IndInv'
<1>1. /\ n \in 1 .. Len(Sockets) /\ i \in 1 .. Len(Sockets[n].SC)
      /\ SC = Sockets[n].SC[i] /\ SC.socket \in Handles
  BY AtClientFacts DEF IndInv, RemoveDead
<1> DEFINE sc == RemoveAt(Sockets[n].SC, i)
<1>2. Sockets[n].SC \in Seq(ServerClient) /\ Len(Sockets[n].SC) \in Nat
  BY <1>1, TableFacts DEF IndInv
<1>3. /\ sc \in Seq(ServerClient) /\ Len(sc) = Len(Sockets[n].SC) - 1
      /\ \A a \in 1 .. Len(Sockets[n].SC) - 1 :
           sc[a] = IF a < i THEN Sockets[n].SC[a] ELSE Sockets[n].SC[a + 1]
  BY <1>1, <1>2, RemoveAtFacts
<1>4. Sockets' = [Sockets EXCEPT ![n].SC = sc] /\ Released({SC.socket})
  BY DEF RemoveDead
<1> HIDE DEF sc
<1>5. /\ Sockets' \in Seq(EntryType) /\ Len(Sockets') = Len(Sockets)
      /\ \A j \in 1 .. Len(Sockets) :
           /\ Sockets'[j].Socket = Sockets[j].Socket
           /\ Sockets'[j].isServer = Sockets[j].isServer
           /\ Sockets'[j].SC = IF j = n THEN sc ELSE Sockets[j].SC
  BY <1>1, <1>3, <1>4, PutClients DEF IndInv
<1>6. TableType' /\ \A o \in Handles : o # SC.socket => conn'[o] = conn[o]
  BY <1>1, <1>4, <1>5, ReleasedFacts DEF IndInv, TableType
<1>7. \A a \in 1 .. Len(sc) : \E m \in 1 .. Len(Sockets[n].SC) :
        m # i /\ sc[a] = Sockets[n].SC[m] /\ m = IF a < i THEN a ELSE a + 1
  <2> TAKE a \in 1 .. Len(sc)
  <2>1. CASE a < i
    <3>1. a \in 1 .. Len(Sockets[n].SC) /\ a # i /\ sc[a] = Sockets[n].SC[a]
      BY <1>1, <1>2, <1>3, <2>1, SMT
    <3> QED
      BY <2>1, <3>1
  <2>2. CASE ~(a < i)
    <3>1. a + 1 \in 1 .. Len(Sockets[n].SC) /\ a + 1 # i
      BY <1>1, <1>2, <1>3, <2>2, SMT
    <3>2. sc[a] = Sockets[n].SC[a + 1]
      BY <1>3, <2>2
    <3> QED
      BY <2>2, <3>1, <3>2
  <2> QED
    BY <2>1, <2>2
<1>8. \A a, b \in 1 .. Len(sc) : sc[a].socket = sc[b].socket => a = b
  <2> SUFFICES ASSUME NEW a \in 1 .. Len(sc), NEW b \in 1 .. Len(sc),
                      sc[a].socket = sc[b].socket
               PROVE  a = b
    OBVIOUS
  <2>1. PICK m \in 1 .. Len(Sockets[n].SC) :
          sc[a] = Sockets[n].SC[m] /\ m = IF a < i THEN a ELSE a + 1
    BY <1>7
  <2>2. PICK p \in 1 .. Len(Sockets[n].SC) :
          sc[b] = Sockets[n].SC[p] /\ p = IF b < i THEN b ELSE b + 1
    BY <1>7
  <2>3. m = p
    BY <1>1, <2>1, <2>2 DEF IndInv, Own, OwnEntry
  <2>4. a \in Nat /\ b \in Nat /\ i \in Nat
    BY <1>1, <1>2, <1>3, SMT
  <2> QED
    BY <2>1, <2>2, <2>3, <2>4, SMT
<1> DEFINE f == [j \in 1 .. Len(Sockets') |-> j]
<1>9. /\ f \in [1 .. Len(Sockets') -> 1 .. Len(Sockets)]
      /\ \A j, l \in 1 .. Len(Sockets') : f[j] = f[l] => j = l
      /\ \A j \in 1 .. Len(Sockets') : f[j] = j
  BY <1>5
<1> HIDE DEF f
<1>10. ASSUME NEW j \in 1 .. Len(Sockets')
       PROVE  /\ Sockets'[j].Socket = Sockets[f[j]].Socket
              /\ Sockets'[j].isServer = Sockets[f[j]].isServer
              /\ Kept(Sockets'[j].Socket)
              /\ \A a \in 1 .. Len(Sockets'[j].SC) :
                   /\ \E m \in 1 .. Len(Sockets[f[j]].SC) :
                        Sockets'[j].SC[a].socket = Sockets[f[j]].SC[m].socket
                   /\ Kept(Sockets'[j].SC[a].socket)
              /\ \A a, b \in 1 .. Len(Sockets'[j].SC) :
                   Sockets'[j].SC[a].socket = Sockets'[j].SC[b].socket => a = b
  <2>1. /\ j \in 1 .. Len(Sockets) /\ f[j] = j /\ OwnEntry(j) /\ OwnEntry(n)
        /\ OwnPair(j, n) /\ Sockets'[j].Socket = Sockets[j].Socket
        /\ Sockets'[j].isServer = Sockets[j].isServer
    BY <1>1, <1>5, <1>9 DEF IndInv, Own
  <2>2. Kept(Sockets'[j].Socket)
    <3>1. Sockets[j].Socket \in Handles /\ Sockets[j].Socket # SC.socket
      BY <1>1, <2>1 DEF OwnEntry, OwnPair
    <3> QED
      BY <1>6, <2>1, <3>1 DEF Kept
  <2>3. CASE j = n
    <3>1. Sockets'[j].SC = sc
      BY <1>1, <1>5, <2>3
    <3>2. ASSUME NEW a \in 1 .. Len(sc)
          PROVE  /\ \E m \in 1 .. Len(Sockets[n].SC) :
                      sc[a].socket = Sockets[n].SC[m].socket
                 /\ Kept(sc[a].socket)
      <4>1. PICK m \in 1 .. Len(Sockets[n].SC) : m # i /\ sc[a] = Sockets[n].SC[m]
        BY <1>7
      <4>2. sc[a].socket \in Handles
        BY <1>1, <4>1, TableFacts DEF IndInv
      <4>3. sc[a].socket # SC.socket
        BY <1>1, <2>1, <4>1 DEF OwnEntry
      <4> QED
        BY <1>6, <4>1, <4>2, <4>3 DEF Kept
    <3> QED
      BY <1>8, <2>1, <2>2, <2>3, <3>1, <3>2
  <2>4. CASE j # n
    <3>1. Sockets'[j].SC = Sockets[j].SC
      BY <1>5, <2>1, <2>4
    <3>2. ASSUME NEW a \in 1 .. Len(Sockets[j].SC)
          PROVE  Kept(Sockets[j].SC[a].socket)
      <4>1. Sockets[j].SC[a].socket \in Handles
        BY <2>1, TableFacts DEF IndInv
      <4>2. Sockets[j].SC[a].socket # SC.socket
        BY <1>1, <2>1, <2>4 DEF OwnPair
      <4> QED
        BY <1>6, <4>1, <4>2 DEF Kept
    <3> QED
      BY <2>1, <2>2, <3>1, <3>2 DEF OwnEntry
  <2> QED
    BY <2>3, <2>4
<1>11. Own'
  BY <1>9, <1>10, FewerHandles DEF IndInv
<1>12. ListenType' /\ UNCHANGED <<SocketSize, held, opens>>
  BY DEF RemoveDead, ListenType, IndInv, TypeOK, script
<1>13. Len(Sockets') <= Len(Sockets)
  BY <1>5, TableFacts, SMT DEF IndInv
<1> QED
  BY <1>6, <1>11, <1>12, <1>13, NoOpen

\* A connection is accepted, on a handle that was free.
LEMMA AcceptKeeps ==
  ASSUME IndInv, Accept
  PROVE  IndInv'
<1>1. n \in 1 .. Len(Sockets) /\ Sockets[n].Socket \in Handles
  BY VisitingFacts DEF IndInv, Accept, ScanOver, Scanning
<1> DEFINE c(h) == [socket |-> h, LastError |-> FALSE, ignore |-> FALSE, die |-> FALSE]
<1>2. PICK h \in FreeHandles :
        /\ conn' = [conn EXCEPT ![h] = "open"]
        /\ backlog' = [backlog EXCEPT ![Sockets[n].Socket] = @ - 1]
        /\ Sockets' = [Sockets EXCEPT ![n].SC = Append(@, c(h))]
        /\ Raise(Sockets[n].Socket, h, 2)
  BY DEF Accept
<1> DEFINE old == Sockets[n].SC
           sc == Append(old, c(h))
<1>3. h \in Handles /\ conn[h] = "free"
  BY DEF FreeHandles
<1>4. old \in Seq(ServerClient) /\ Len(old) \in Nat
  BY <1>1, TableFacts DEF IndInv
<1>5. c(h) \in ServerClient /\ c(h).socket = h
  BY <1>3 DEF ServerClient
<1>6. Sockets' = [Sockets EXCEPT ![n].SC = sc]
  BY <1>2
<1> HIDE DEF c
<1>7. /\ sc \in Seq(ServerClient) /\ Len(sc) = Len(old) + 1
      /\ \A a \in 1 .. Len(old) : sc[a] = old[a]
      /\ sc[Len(old) + 1] = c(h)
  BY <1>4, <1>5, AppendProperties
<1> HIDE DEF sc
<1>8. /\ Sockets' \in Seq(EntryType) /\ Len(Sockets') = Len(Sockets)
      /\ \A j \in 1 .. Len(Sockets) :
           /\ Sockets'[j].Socket = Sockets[j].Socket
           /\ Sockets'[j].isServer = Sockets[j].isServer
           /\ Sockets'[j].SC = IF j = n THEN sc ELSE Sockets[j].SC
  BY <1>1, <1>6, <1>7, PutClients DEF IndInv
<1>9. /\ conn' \in [Handles -> {"free", "listening", "open", "closed", "reset"}]
      /\ conn'[h] = "open"
      /\ \A o \in Handles : o # h => conn'[o] = conn[o]
  BY <1>2, <1>3 DEF IndInv, TypeOK
<1>10. TableType'
  <2>1. backlog[Sockets[n].Socket] > 0 /\ inbox' = inbox
    BY DEF Accept, ScanOver
  <2>2. backlog \in [Handles -> 0 .. MaxBacklog] /\ MaxBacklog \in Nat
    BY NetworkAssumption DEF IndInv, TypeOK, NetworkAssumption
  <2>3. backlog[Sockets[n].Socket] - 1 \in 0 .. MaxBacklog
    BY <1>1, <2>1, <2>2, SMT
  <2>4. backlog' \in [Handles -> 0 .. MaxBacklog]
    BY <1>1, <1>2, <2>2, <2>3
  <2> QED
    BY <1>8, <1>9, <2>1, <2>4 DEF TableType, IndInv, TypeOK
<1>11. \A k \in 1 .. Len(Sockets) :
         /\ Sockets[k].Socket # h
         /\ \A a \in 1 .. Len(Sockets[k].SC) :
              Sockets[k].SC[a].socket \in Handles \ {h}
  <2> TAKE k \in 1 .. Len(Sockets)
  <2>1. OwnEntry(k)
    BY DEF IndInv, Own
  <2>2. \A a \in 1 .. Len(Sockets[k].SC) : Sockets[k].SC[a].socket \in Handles
    BY TableFacts DEF IndInv
  <2> QED
    BY <1>3, <2>1, <2>2 DEF OwnEntry, Connected
<1>12. ASSUME NEW j \in 1 .. Len(Sockets), NEW a \in 1 .. Len(Sockets'[j].SC)
       PROVE  \/ /\ a \in 1 .. Len(Sockets[j].SC)
                 /\ Sockets'[j].SC[a].socket = Sockets[j].SC[a].socket
                 /\ Sockets[j].SC[a].socket \in Handles \ {h}
              \/ /\ j = n /\ a = Len(old) + 1
                 /\ Sockets'[j].SC[a].socket = h
  <2>1. CASE j = n
    <3>1. Sockets'[j].SC = sc
      BY <1>8, <2>1
    <3>2. a \in 1 .. Len(old) \/ a = Len(old) + 1
      BY <1>4, <1>7, <3>1, SMT
    <3>3. CASE a \in 1 .. Len(old)
      BY <1>7, <1>11, <2>1, <3>1, <3>3
    <3>4. CASE a = Len(old) + 1
      BY <1>5, <1>7, <2>1, <3>1, <3>4
    <3> QED
      BY <3>2, <3>3, <3>4
  <2>2. CASE j # n
    BY <1>8, <1>11, <2>2
  <2> QED
    BY <2>1, <2>2
<1> HIDE DEF old
<1>13. ASSUME NEW k \in 1 .. Len(Sockets')
       PROVE  OwnEntry(k)'
  <2>1. /\ k \in 1 .. Len(Sockets) /\ OwnEntry(k)
        /\ Sockets'[k].Socket = Sockets[k].Socket
        /\ Sockets'[k].isServer = Sockets[k].isServer
    BY <1>8 DEF IndInv, Own
  <2>2. /\ Sockets'[k].Socket \in Handles
        /\ conn'[Sockets'[k].Socket] = conn[Sockets[k].Socket]
    BY <1>9, <1>11, <2>1 DEF OwnEntry
  <2>3. \A a \in 1 .. Len(Sockets'[k].SC) :
          conn'[Sockets'[k].SC[a].socket] \in Connected
    <3> TAKE a \in 1 .. Len(Sockets'[k].SC)
    <3>1. CASE Sockets'[k].SC[a].socket = h
      BY <1>9, <3>1 DEF Connected
    <3>2. CASE Sockets'[k].SC[a].socket # h
      <4>1. /\ a \in 1 .. Len(Sockets[k].SC)
            /\ Sockets'[k].SC[a].socket = Sockets[k].SC[a].socket
            /\ Sockets[k].SC[a].socket \in Handles \ {h}
        BY <1>12, <2>1, <3>2
      <4>2. conn[Sockets[k].SC[a].socket] \in Connected
        BY <2>1, <4>1 DEF OwnEntry
      <4> QED
        BY <1>9, <4>1, <4>2
    <3> QED
      BY <3>1, <3>2
  <2>4. \A a, b \in 1 .. Len(Sockets'[k].SC) :
          Sockets'[k].SC[a].socket = Sockets'[k].SC[b].socket => a = b
    <3> TAKE a, b \in 1 .. Len(Sockets'[k].SC)
    <3> HAVE Sockets'[k].SC[a].socket = Sockets'[k].SC[b].socket
    <3>1. CASE a = Len(old) + 1 /\ b = Len(old) + 1
      BY <3>1
    <3>2. CASE Sockets'[k].SC[a].socket # h
      <4>1. /\ a \in 1 .. Len(Sockets[k].SC) /\ b \in 1 .. Len(Sockets[k].SC)
            /\ Sockets[k].SC[a].socket = Sockets[k].SC[b].socket
        BY <1>12, <2>1, <3>2
      <4> QED
        BY <2>1, <4>1 DEF OwnEntry
    <3> QED
      BY <1>12, <2>1, <3>1, <3>2
  <2> QED
    BY <2>1, <2>2, <2>3, <2>4 DEF OwnEntry
<1>14. ASSUME NEW k \in 1 .. Len(Sockets'), NEW l \in 1 .. Len(Sockets')
       PROVE  OwnPair(k, l)'
  <2>1. /\ k \in 1 .. Len(Sockets) /\ l \in 1 .. Len(Sockets) /\ OwnPair(k, l)
        /\ Sockets'[k].Socket = Sockets[k].Socket
        /\ Sockets'[l].Socket = Sockets[l].Socket
    BY <1>8 DEF IndInv, Own
  <2>2. \A a \in 1 .. Len(Sockets'[l].SC) :
          Sockets'[k].Socket # Sockets'[l].SC[a].socket
    BY <1>11, <1>12, <2>1 DEF OwnPair
  <2>3. ASSUME k # l, NEW a \in 1 .. Len(Sockets'[k].SC),
               NEW b \in 1 .. Len(Sockets'[l].SC)
        PROVE  Sockets'[k].SC[a].socket # Sockets'[l].SC[b].socket
    <3>1. CASE k = n
      <4>1. /\ b \in 1 .. Len(Sockets[l].SC)
            /\ Sockets'[l].SC[b].socket = Sockets[l].SC[b].socket
            /\ Sockets[l].SC[b].socket # h
        BY <1>12, <2>1, <2>3, <3>1
      <4> QED
        BY <1>12, <2>1, <2>3, <4>1, SMTT(30) DEF OwnPair
    <3>2. CASE k # n
      <4>1. /\ a \in 1 .. Len(Sockets[k].SC)
            /\ Sockets'[k].SC[a].socket = Sockets[k].SC[a].socket
            /\ Sockets[k].SC[a].socket # h
        BY <1>12, <2>1, <3>2
      <4> QED
        BY <1>12, <2>1, <2>3, <4>1, SMTT(30) DEF OwnPair
    <3> QED
      BY <3>1, <3>2
  <2> QED
    BY <2>1, <2>2, <2>3 DEF OwnPair
<1>15. Own'
  BY <1>13, <1>14 DEF Own
<1>16. ListenType' /\ UNCHANGED <<SocketSize, held, opens>>
  BY <1>1, <1>2, <1>3, RaiseFacts DEF IndInv, Accept
<1>17. Len(Sockets') <= Len(Sockets)
  BY <1>8, TableFacts, SMT DEF IndInv
<1> QED
  BY <1>10, <1>15, <1>16, <1>17, NoOpen

\* A send that fails leaves flags.
LEMMA SendFailsKeeps ==
  ASSUME IndInv, SendFails
  PROVE  IndInv'
<1>1. /\ conn' = conn /\ inbox' \subseteq Handles /\ backlog' = backlog
      /\ ListenType' /\ UNCHANGED <<SocketSize, held, opens>>
  BY DEF SendFails, ListenType, IndInv, TypeOK, kernel, script, listen
<1>2. PICK k \in 1 .. Len(Sockets) :
        \/ Sockets' = [Sockets EXCEPT ![k].LastError = TRUE]
        \/ Sockets' = [Sockets EXCEPT ![k].SC =
             [m \in DOMAIN @ |->
                IF Broken(@[m].socket) /\ ~@[m].die
                  THEN [@[m] EXCEPT !.LastError = TRUE] ELSE @[m]]]
  BY TableFacts DEF IndInv, SendFails
<1>3. CASE Sockets' = [Sockets EXCEPT ![k].LastError = TRUE]
  <2> DEFINE e == [Sockets[k] EXCEPT !.LastError = TRUE]
  <2>1. Sockets[k] \in EntryType /\ Sockets \in Seq(EntryType)
    BY TableFacts DEF IndInv
  <2>2. /\ e \in EntryType /\ e.Socket = Sockets[k].Socket
        /\ e.isServer = Sockets[k].isServer /\ e.SC = Sockets[k].SC
    BY <2>1 DEF EntryType
  <2>3. Sockets' = [Sockets EXCEPT ![k] = e]
    BY <1>3
  <2> HIDE DEF e
  <2>4. /\ [Sockets EXCEPT ![k] = e] \in Seq(EntryType)
        /\ Len([Sockets EXCEPT ![k] = e]) = Len(Sockets)
        /\ \A j \in 1 .. Len(Sockets) :
             [Sockets EXCEPT ![k] = e][j] = IF j = k THEN e ELSE Sockets[j]
    BY <2>1, <2>2, ExceptSeq
  <2>5. \A j \in 1 .. Len(Sockets) :
          /\ Sockets'[j].Socket = Sockets[j].Socket
          /\ Sockets'[j].isServer = Sockets[j].isServer
          /\ Sockets'[j].SC = Sockets[j].SC
    BY <2>2, <2>3, <2>4
  <2>6. Sockets' \in Seq(EntryType) /\ Len(Sockets') = Len(Sockets)
    BY <2>3, <2>4, Zenon
  <2>7. \A h \in Handles : Kept(h)
    BY <1>1 DEF Kept
  <2>8. Own'
    BY <2>5, <2>6, <2>7, SameHandles DEF IndInv
  <2> QED
    BY <1>1, <2>6, <2>8, SameOwners
<1>4. CASE Sockets' = [Sockets EXCEPT ![k].SC =
             [m \in DOMAIN @ |->
                IF Broken(@[m].socket) /\ ~@[m].die
                  THEN [@[m] EXCEPT !.LastError = TRUE] ELSE @[m]]]
  <2> DEFINE old == Sockets[k].SC
             sc == [m \in DOMAIN old |->
                      IF Broken(old[m].socket) /\ ~old[m].die
                        THEN [old[m] EXCEPT !.LastError = TRUE] ELSE old[m]]
  <2>1. /\ old \in Seq(ServerClient) /\ Len(old) \in Nat
        /\ DOMAIN old = 1 .. Len(old)
        /\ \A m \in 1 .. Len(old) : old[m] \in ServerClient
    BY TableFacts DEF IndInv
  <2>2. Sockets' = [Sockets EXCEPT ![k].SC = sc]
    BY <1>4
  <2> HIDE DEF old
  <2>3. ASSUME NEW m \in 1 .. Len(old)
        PROVE  sc[m] \in ServerClient /\ sc[m].socket = old[m].socket
    BY <2>1 DEF ServerClient
  <2>4. sc \in [1 .. Len(old) -> ServerClient]
    BY <2>1, <2>3
  <2> HIDE DEF sc
  <2>5. sc \in Seq(ServerClient)
    BY <2>1, <2>4, SeqDef
  <2>6. DOMAIN sc = 1 .. Len(old)
    BY <2>4
  <2>7. Len(sc) = Len(old)
    BY <2>1, <2>5, <2>6, LenProperties, SMT
  <2>8. \A a \in 1 .. Len(sc) : sc[a].socket = old[a].socket
    BY <2>3, <2>7
  <2>9. Sockets' \in Seq(EntryType) /\ Len(Sockets') = Len(Sockets) /\ Own'
    BY <1>1, <2>2, <2>5, <2>7, <2>8, PutFlags DEF IndInv, old
  <2> QED
    BY <1>1, <2>9, SameOwners
<1> QED
  BY <1>2, <1>3, <1>4

\* A flag of the connection Listen is at changes.
LEMMA ClientFlag ==
  ASSUME IndInv, AtClient, NEW c \in ServerClient, c.socket = SC.socket,
         Sockets' = [Sockets EXCEPT ![n].SC[i] = c], conn' = conn
  PROVE  Sockets' \in Seq(EntryType) /\ Len(Sockets') = Len(Sockets) /\ Own'
  BY AtClientFacts, PutFlag DEF IndInv

\* The scan meets a connection on which a send failed.
LEMMA ReportErrorKeeps ==
  ASSUME IndInv, ReportError
  PROVE  IndInv'
<1>1. /\ n \in 1 .. Len(Sockets) /\ Sockets[n].Socket \in Handles
      /\ SC = Sockets[n].SC[i] /\ SC \in ServerClient /\ SC.socket \in Handles
  BY AtClientFacts DEF IndInv, ReportError
<1>2. conn' = conn /\ inbox' \subseteq Handles /\ backlog' = backlog
  BY DEF ReportError, kernel, IndInv, TypeOK
<1>3. ListenType' /\ UNCHANGED <<SocketSize, held, opens>>
  BY <1>1, RaiseFacts DEF IndInv, ReportError
<1> DEFINE c == [SC EXCEPT !.die = TRUE]
<1>4. c \in ServerClient /\ c.socket = SC.socket
  BY <1>1 DEF ServerClient
<1>5. Sockets' = [Sockets EXCEPT ![n].SC[i] = c]
  BY <1>1 DEF ReportError
<1> HIDE DEF c
<1>6. Sockets' \in Seq(EntryType) /\ Len(Sockets') = Len(Sockets) /\ Own'
  BY <1>2, <1>4, <1>5, ClientFlag DEF ReportError
<1> QED
  BY <1>2, <1>3, <1>6, SameOwners

\* ... one that was read last.
LEMMA SkipIgnoredKeeps ==
  ASSUME IndInv, SkipIgnored
  PROVE  IndInv'
<1>1. SC = Sockets[n].SC[i] /\ SC \in ServerClient
  BY AtClientFacts DEF IndInv, SkipIgnored
<1>2. conn' = conn /\ inbox' \subseteq Handles /\ backlog' = backlog
  BY DEF SkipIgnored, kernel, IndInv, TypeOK
<1>3. ListenType' /\ UNCHANGED <<SocketSize, held, opens>>
  BY DEF SkipIgnored, ListenType, IndInv, TypeOK, script
<1> DEFINE c == [SC EXCEPT !.ignore = FALSE]
<1>4. c \in ServerClient /\ c.socket = SC.socket
  BY <1>1 DEF ServerClient
<1>5. Sockets' = [Sockets EXCEPT ![n].SC[i] = c]
  BY <1>1 DEF SkipIgnored
<1> HIDE DEF c
<1>6. Sockets' \in Seq(EntryType) /\ Len(Sockets') = Len(Sockets) /\ Own'
  BY <1>2, <1>4, <1>5, ClientFlag DEF SkipIgnored
<1> QED
  BY <1>2, <1>3, <1>6, SameOwners

\* ... one that has data.
LEMMA ReceiveKeeps ==
  ASSUME IndInv, Receive
  PROVE  IndInv'
<1>1. /\ n \in 1 .. Len(Sockets) /\ Sockets[n].Socket \in Handles
      /\ SC = Sockets[n].SC[i] /\ SC \in ServerClient /\ SC.socket \in Handles
  BY AtClientFacts DEF IndInv, Receive
<1>2. conn' = conn /\ inbox' \subseteq Handles /\ backlog' = backlog
  BY DEF Receive, IndInv, TypeOK
<1>3. ListenType' /\ UNCHANGED <<SocketSize, held, opens>>
  BY <1>1, RaiseFacts DEF IndInv, Receive
<1> DEFINE c == [SC EXCEPT !.ignore = TRUE]
<1>4. c \in ServerClient /\ c.socket = SC.socket
  BY <1>1 DEF ServerClient
<1>5. Sockets' = [Sockets EXCEPT ![n].SC[i] = c]
  BY <1>1 DEF Receive
<1> HIDE DEF c
<1>6. Sockets' \in Seq(EntryType) /\ Len(Sockets') = Len(Sockets) /\ Own'
  BY <1>2, <1>4, <1>5, ClientFlag DEF Receive
<1> QED
  BY <1>2, <1>3, <1>6, SameOwners

\* The peers, and the steps of Listen that leave the table as it is.
Quiet ==
  Peers \/ ListenStarts \/ ListenReturns \/ PendingError \/ ClientPacket
    \/ ClientGone \/ ClientQuiet \/ NothingReceived \/ ServerQuiet \/ EventReturns

\* They open and close nothing of the program's.
LEMMA QuietKeeps ==
  ASSUME IndInv, Quiet
  PROVE  IndInv'
<1>1. UNCHANGED <<Sockets, SocketSize, held, opens>>
  BY DEF Quiet, Peers, PeerConnects, PeerSends, PeerLeaves, ListenStarts,
         ListenReturns, PendingError, ClientPacket, ClientGone, ClientQuiet,
         NothingReceived, ServerQuiet, EventReturns, Raise, script
<1>2. /\ conn' \in [Handles -> {"free", "listening", "open", "closed", "reset"}]
      /\ inbox' \subseteq Handles /\ backlog' \in [Handles -> 0 .. MaxBacklog]
      /\ \A h \in Handles : Kept(h)
  <2>1. CASE PeerConnects
    <3>1. PICK h \in Handles : /\ backlog[h] < MaxBacklog
                               /\ backlog' = [backlog EXCEPT ![h] = @ + 1]
      BY <2>1 DEF PeerConnects
    <3>2. backlog \in [Handles -> 0 .. MaxBacklog] /\ MaxBacklog \in Nat
      BY NetworkAssumption DEF IndInv, TypeOK, NetworkAssumption
    <3>3. backlog[h] + 1 \in 0 .. MaxBacklog
      BY <3>1, <3>2, SMT
    <3>4. backlog' \in [Handles -> 0 .. MaxBacklog]
      BY <3>1, <3>2, <3>3
    <3> QED
      BY <2>1, <3>4 DEF PeerConnects, IndInv, TypeOK, Kept
  <2>2. CASE PeerSends
    BY <2>2 DEF PeerSends, IndInv, TypeOK, Kept
  <2>3. CASE PeerLeaves
    BY <2>3 DEF PeerLeaves, IndInv, TypeOK, Kept, Connected
  <2>4. CASE ~Peers
    <3>1. conn' = conn /\ inbox' \subseteq Handles /\ backlog' = backlog
      BY <2>4 DEF Quiet, ListenStarts, ListenReturns, PendingError, ClientPacket,
         ClientGone, ClientQuiet, NothingReceived, ServerQuiet, EventReturns,
         kernel, IndInv, TypeOK
    <3> QED
      BY <3>1 DEF IndInv, TypeOK, Kept
  <2> QED
    BY <2>1, <2>2, <2>3, <2>4 DEF Peers
<1>3. ListenType'
  <2>1. CASE Peers
    BY <2>1 DEF Peers, PeerConnects, PeerSends, PeerLeaves, ListenType, IndInv,
         TypeOK, listen
  <2>2. CASE ListenStarts \/ ListenReturns
    BY <2>2 DEF ListenStarts, ListenReturns, ListenType, IndInv, TypeOK, NoEvent
  <2>3. CASE PendingError
    <3>1. Sockets[n].Socket \in Handles
      BY <2>3, VisitingFacts DEF PendingError, IndInv
    <3>2. RecvSock' = RecvSock /\ i' = i /\ RecvSock \in Handles \cup {NoHandle}
      BY <2>3 DEF PendingError, IndInv, TypeOK
    <3> QED
      BY <2>3, <3>1, <3>2, RaiseFacts DEF PendingError, IndInv
  <2>4. CASE ClientPacket
    <3>1. Sockets[n].Socket \in Handles
      BY <2>4, VisitingFacts DEF ClientPacket, IndInv
    <3> QED
      BY <2>4, <3>1, RaiseFacts DEF ClientPacket, IndInv
  <2>5. CASE ClientGone
    <3>1. Sockets[n].Socket \in Handles
      BY <2>5, VisitingFacts DEF ClientGone, IndInv
    <3> QED
      BY <2>5, <3>1, RaiseFacts DEF ClientGone, IndInv
  <2>6. CASE NothingReceived
    <3>1. SC.socket \in Handles
      BY <2>6, AtClientFacts DEF NothingReceived, IndInv
    <3> QED
      BY <2>6, <3>1 DEF NothingReceived, ListenType, IndInv, TypeOK
  <2>7. CASE ClientQuiet \/ ServerQuiet \/ EventReturns
    <3>1. CASE ClientQuiet
      BY <3>1 DEF ClientQuiet, ListenType, IndInv, TypeOK, NoEvent
    <3>2. CASE ServerQuiet
      BY <3>2 DEF ServerQuiet, ListenType, IndInv, TypeOK, NoEvent
    <3>3. CASE EventReturns
      BY <3>3 DEF EventReturns, ListenType, IndInv, TypeOK, NoEvent
    <3> QED
      BY <2>7, <3>1, <3>2, <3>3
  <2> QED
    BY <2>1, <2>2, <2>3, <2>4, <2>5, <2>6, <2>7 DEF Quiet
<1> QED
  BY <1>1, <1>2, <1>3, SameTable

\* The three calls of KillSocket.
LEMMA KillsKeep ==
  ASSUME IndInv, Close \/ Collect \/ ErrorEventReturns
  PROVE  IndInv'
<1>1. CASE Close \/ Collect
  <2>1. PICK h \in Handles :
          /\ held[h] > 0 /\ KillSocket(h)
          /\ held' = held \/ held' = [held EXCEPT ![h] = @ - 1]
    BY <1>1 DEF Close, Collect, script
  <2>2. TableType' /\ Len(Sockets') <= Len(Sockets) /\ Own'
    BY <2>1, KillSocketKeeps DEF IndInv
  <2>3. ListenType' /\ SocketSize' = SocketSize /\ opens' = opens
    BY <1>1 DEF Close, Collect, ListenType, IndInv, TypeOK, script, listen
  <2> QED
    BY <2>1, <2>2, <2>3, NoOpen
<1>2. CASE ErrorEventReturns
  <2>1. KillSocket(RecvSock) /\ RecvSock \in Handles \cup {NoHandle}
    BY <1>2 DEF ErrorEventReturns, IndInv, TypeOK
  <2>2. TableType' /\ Len(Sockets') <= Len(Sockets) /\ Own'
    <3>1. CASE RecvSock \in Handles
      BY <2>1, <3>1, KillSocketKeeps DEF IndInv
    <3>2. CASE RecvSock = NoHandle
      <4>1. \A k \in 1 .. Len(Sockets) : Sockets[k].Socket # NoHandle
        BY NetworkAssumption DEF IndInv, Own, OwnEntry, NetworkAssumption
      <4>2. \A k \in 1 .. Len(Sockets) : \A m \in 1 .. Len(Sockets[k].SC) :
              Sockets[k].SC[m].socket # NoHandle
        BY NetworkAssumption, TableFacts DEF IndInv, NetworkAssumption
      <4>3. UNCHANGED <<Sockets, kernel>>
        BY <2>1, <3>2, <4>1, <4>2, TableFacts DEF KillSocket, IndInv
      <4>4. Len(Sockets) \in Nat
        BY TableFacts DEF IndInv
      <4>5. TableType'
        BY <4>3 DEF TableType, IndInv, TypeOK, EntryType, kernel
      <4>6. Own'
        BY <4>3 DEF IndInv, Own, OwnEntry, OwnPair, kernel
      <4> QED
        BY <4>3, <4>4, <4>5, <4>6, SMT
    <3> QED
      BY <2>1, <3>1, <3>2
  <2>3. ListenType' /\ UNCHANGED <<SocketSize, held, opens>>
    BY <1>2 DEF ErrorEventReturns, ListenType, IndInv, TypeOK, script, NoEvent
  <2> QED
    BY <2>2, <2>3, NoOpen
<1> QED
  BY <1>1, <1>2

\* Nothing is open at first.
LEMMA InitIndInv == Init => IndInv
<1> SUFFICES ASSUME Init PROVE IndInv
  OBVIOUS
<1>1. /\ MaxOpens \in Nat /\ MaxBacklog \in Nat
      /\ 0 \in 0 .. MaxOpens /\ 0 \in 0 .. MaxBacklog
  BY NetworkAssumption, SMT DEF NetworkAssumption
<1>2. Sockets \in Seq(EntryType) /\ Len(Sockets) = 0
  BY EmptySeq DEF Init
<1>3. TypeOK
  <2>1. Len(Sockets) <= SocketSize
    BY <1>2, SMT DEF Init
  <2> QED
    BY <1>1, <1>2, <2>1 DEF Init, TypeOK, EntryType, NoEvent
<1>4. Room
  BY <1>2, SMT DEF Init, Room
<1>5. Own
  BY <1>2, SMT DEF Own
<1> QED
  BY <1>3, <1>4, <1>5 DEF IndInv

\* Every action, by the lemma about it.
LEMMA NextIndInv ==
  ASSUME IndInv, [Next]_vars,
         OpenServerSocket \/ OpenClientSocket => Within'
  PROVE  IndInv'
<1>1. CASE Quiet
  BY <1>1, QuietKeeps
<1>2. CASE OpenServerSocket \/ OpenClientSocket
  BY <1>2, OpenKeeps DEF OpenServerSocket, OpenClientSocket
<1>3. CASE Close \/ Collect \/ ErrorEventReturns
  BY <1>3, KillsKeep
<1>4. CASE SendFails
  BY <1>4, SendFailsKeeps
<1>5. CASE RemoveDead
  BY <1>5, RemoveDeadKeeps
<1>6. CASE ReportError
  BY <1>6, ReportErrorKeeps
<1>7. CASE SkipIgnored
  BY <1>7, SkipIgnoredKeeps
<1>8. CASE Receive
  BY <1>8, ReceiveKeeps
<1>9. CASE Accept
  BY <1>9, AcceptKeeps
<1>10. CASE Idle \/ UNCHANGED vars
  <2>1. UNCHANGED <<conn, inbox, backlog, Sockets, SocketSize, held, opens>>
    BY <1>10 DEF Idle, vars, kernel, script
  <2>2. ListenType'
    BY <1>10 DEF Idle, vars, listen, ListenType, IndInv, TypeOK
  <2>3. /\ conn' \in [Handles -> {"free", "listening", "open", "closed", "reset"}]
        /\ inbox' \subseteq Handles /\ backlog' \in [Handles -> 0 .. MaxBacklog]
        /\ \A h \in Handles : Kept(h)
    BY <2>1 DEF IndInv, TypeOK, Kept
  <2> QED
    BY <2>1, <2>2, <2>3, SameTable
<1> QED
  BY <1>1, <1>2, <1>3, <1>4, <1>5, <1>6, <1>7, <1>8, <1>9, <1>10
     DEF Next, Script, Listen, Quiet

\* What no step may disturb, however many sockets are opened one after the
\* other, while no more than Growth are in the table at a time (a second growth
\* of the table loses its entries).
THEOREM Invariance == Spec /\ []Within => []IndInv
<1>1. IndInv /\ [Next]_vars /\ Within' => IndInv'
  BY NextIndInv
<1> QED
  BY InitIndInv, <1>1, PTL DEF Spec

\* A script that opens no more than Growth sockets in all needs no hypothesis.
THEOREM FewOpensFit == MaxOpens <= Growth => (Spec => []Within)
<1>1. IndInv => Within \/ ~(MaxOpens <= Growth)
  <2>1. IndInv => /\ Len(Sockets) \in Nat /\ opens \in 0 .. MaxOpens
                  /\ Len(Sockets) <= opens
    BY TableFacts DEF IndInv, TypeOK, Room
  <2> QED
    BY <2>1, NetworkAssumption, SMT DEF Within, NetworkAssumption
<1>2. ASSUME MaxOpens <= Growth, IndInv, [Next]_vars
      PROVE  IndInv'
  <2>1. ASSUME NEW server \in BOOLEAN, Open(server)
        PROVE  Within'
    <3>1. /\ Len(Sockets) \in Nat /\ opens \in 0 .. MaxOpens
          /\ Len(Sockets) <= opens /\ opens < MaxOpens
      BY <1>2, <2>1, TableFacts DEF IndInv, TypeOK, Room, Open
    <3>2. Len(Sockets') = Len(Sockets) + 1
      BY <1>2, <2>1, OpenLengthens
    <3> QED
      BY <1>2, <3>1, <3>2, NetworkAssumption, SMT DEF Within, NetworkAssumption
  <2>2. OpenServerSocket \/ OpenClientSocket => Within'
    BY <2>1 DEF OpenServerSocket, OpenClientSocket
  <2> QED
    BY <1>2, <2>2, NextIndInv
<1> SUFFICES ASSUME MaxOpens <= Growth PROVE Spec => []Within
  OBVIOUS
<1>3. IndInv => Within
  BY <1>1
<1>4. IndInv /\ [Next]_vars => IndInv'
  BY <1>2
<1> QED
  BY InitIndInv, <1>3, <1>4, PTL DEF Spec

\* The table, the handles and the positions of Listen keep their types, and the
\* table never holds more than it has room for, however scripts and peers act.
THEOREM TypeCorrect == Spec /\ []Within => []TypeOK
<1>1. IndInv => TypeOK
  BY DEF IndInv
<1> QED
  BY <1>1, Invariance, PTL

\* Every socket object owns an open handle of its kind that no other object
\* owns, whatever is closed and collected, twice or too late.
THEOREM HandlesOwnedOnceHolds == Spec /\ []Within => []HandlesOwnedOnce
<1>1. ASSUME IndInv
      PROVE  HandlesOwnedOnce
  <2>1. /\ DOMAIN Sockets = 1 .. Len(Sockets)
        /\ \A k \in 1 .. Len(Sockets) :
             DOMAIN Sockets[k].SC = 1 .. Len(Sockets[k].SC)
    BY <1>1, TableFacts DEF IndInv
  <2>2. ASSUME NEW k \in DOMAIN Sockets
        PROVE  /\ conn[Sockets[k].Socket] # "free"
               /\ Sockets[k].isServer <=> conn[Sockets[k].Socket] = "listening"
    BY <1>1, <2>1 DEF IndInv, Own, OwnEntry
  <2>3. ASSUME NEW k \in DOMAIN Sockets, NEW l \in DOMAIN Sockets
        PROVE  /\ Sockets[k].Socket = Sockets[l].Socket => k = l
               /\ \A a \in DOMAIN Sockets[k].SC, b \in DOMAIN Sockets[l].SC :
                    Sockets[k].SC[a].socket = Sockets[l].SC[b].socket =>
                      k = l /\ a = b
    <3>1. OwnPair(k, l) /\ OwnEntry(k)
      BY <1>1, <2>1 DEF IndInv, Own
    <3> QED
      BY <2>1, <3>1 DEF OwnPair, OwnEntry
  <2>4. ASSUME NEW h \in Accepted
        PROVE  /\ conn[h] \in {"open", "closed", "reset"}
               /\ h \notin TableHandles
    <3>1. PICK k \in 1 .. Len(Sockets) : h \in ClientHandles(k)
      BY <2>1 DEF Accepted
    <3>2. PICK a \in 1 .. Len(Sockets[k].SC) : h = Sockets[k].SC[a].socket
      BY <2>1, <3>1 DEF ClientHandles, SCOf, Range
    <3>3. conn[h] \in {"open", "closed", "reset"}
      BY <1>1, <3>2 DEF IndInv, Own, OwnEntry, Connected
    <3>4. ASSUME NEW l \in 1 .. Len(Sockets)
          PROVE  Sockets[l].Socket # h
      BY <1>1, <3>2 DEF IndInv, Own, OwnPair
    <3> QED
      BY <2>1, <3>3, <3>4 DEF TableHandles
  <2>5. TableHandles \cap Accepted = {}
    BY <2>4
  <2> QED
    BY <2>2, <2>3, <2>4, <2>5 DEF HandlesOwnedOnce
<1>2. IndInv => HandlesOwnedOnce
  BY <1>1
<1> QED
  BY <1>2, Invariance, PTL
=============================================================================
