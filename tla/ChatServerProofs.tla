-------------------------- MODULE ChatServerProofs --------------------------
(***************************************************************************)
(* Nothing but select() blocks the chat server, its loop loses no client,  *)
(* and it ends for want of descriptors only, for any number of clients,    *)
(* entries and descriptors, any size of the buffer and any messages.       *)
(***************************************************************************)
EXTENDS ChatServer, FiniteSetTheorems, WellFoundedInduction, TLAPS

TypeOK ==
  /\ pc \in {"select", "accept", "read", "write", "exited"}
  /\ index \in Indices /\ held \in Nat
  /\ readFds \subseteq Fds /\ open \subseteq Fds
  /\ allFds \subseteq Fds \cup {NoFd} /\ maxFd \in Fds
  /\ users \in [Indices -> Fds \cup {NoFd}]
  /\ socket \in [Clients -> Fds \cup {NoSocket}]
  /\ client \in [Clients -> {"new", "send", "recv", "closed", "reset"}]
  /\ left \in [Clients -> Nat] /\ \A c \in Clients : left[c] =< MaxMessages[c]
  /\ unread \in [Clients -> Nat] /\ echoed \in [Clients -> Nat]

(* No two clients have one descriptor, nor two entries, and a new one is   *)
(* neither.                                                                *)
SocketsApart ==
  /\ \A c \in Clients : socket[c] # NoSocket =>
       socket[c] > Listen /\ client[c] # "new" /\ (socket[c] \in open \/ pc = "exited")
  /\ \A c, e \in Clients : socket[c] = socket[e] /\ socket[c] # NoSocket => c = e
  /\ \A i \in Indices : users[i] # NoFd => users[i] > Listen /\ (users[i] \in open \/ pc = "exited")
  /\ \A i, j \in Indices : users[i] = users[j] /\ users[i] # NoFd => i = j
  /\ pc = "exited" \/ 0 .. Listen \subseteq open

HasInput(fd) == \E c \in Clients : socket[c] = fd /\ (unread[c] > 0 \/ c \notin Connected)

(* What select() said of the entries that the loop has still to come to is *)
(* true for as long as they are not served.                                *)
SnapshotHolds ==
  /\ pc = "accept" => \A fd \in readFds : fd = Listen \/ HasInput(fd)
  /\ pc \in {"read", "write"} => Chosen(users[index])
  /\ pc = "read" => HasInput(users[index])
  /\ pc \in {"read", "write"} =>
       \A i \in Indices : i > index /\ Chosen(users[i]) => HasInput(users[i])

Held(c) == IF pc = "write" /\ Serving(c) THEN held ELSE 0

(* The bytes under way, by what the client does next.  One that may write  *)
(* has at most one message under way, in one place; one that waits for an  *)
(* echo has two at most, and one at most beside an echo.                   *)
Exchange(c) ==
  LET u == unread[c]
      h == Held(c)
      e == echoed[c]
  IN
  /\ client[c] = "new" => u = 0 /\ h = 0 /\ e = 0
  /\ client[c] = "send" =>
       /\ left[c] = MaxMessages[c] => u = 0 /\ h = 0 /\ e = 0
       /\ (h = 0 /\ e = 0) \/ (u = 0 /\ e = 0) \/ (u = 0 /\ h = 0)
       /\ u + h + e =< BufSize
  /\ client[c] = "recv" =>
       /\ left[c] < MaxMessages[c]
       /\ h > 0 => u =< BufSize
       /\ e > 0 => u + h =< BufSize
       /\ e > 0 /\ h > 0 => u = 0
  /\ u + h + e =< 2 * BufSize

ChatInv == TypeOK /\ SocketsApart /\ SnapshotHolds /\ \A c \in Clients : Exchange(c)

-----------------------------------------------------------------------------
(* The loop over users[], and the lowest free number.                      *)

LEMMA LowestIn == ASSUME NEW S \in SUBSET Nat, S # {} PROVE Lowest(S) \in S
<1>1. PICK x \in S : \A y \in S : ~(<<y, x>> \in OpToRel(<, Nat))
  BY NatLessThanWellFounded, WFMin, Zenon
<1>2. \A y \in S : ~(y < x)
  BY <1>1 DEF OpToRel
<1>3. \A y \in S : x =< y
  BY <1>2
<1> QED BY <1>3 DEF Lowest

LEMMA Sizes ==
  /\ 0 \in Indices /\ Indices \subseteq Nat /\ Fds \subseteq Nat
  /\ NoFd \notin Fds /\ NoSocket \notin Fds /\ NoFd # NoSocket /\ Listen \in Fds /\ Listen \in Nat
  /\ BufSize \in Nat /\ BufSize > 0 /\ ClientRoom \in Nat /\ ClientRoom >= 2 * BufSize
BY SizesAssumption, MaxFdAssumption DEF Indices, Fds, NoFd, NoSocket, Listen, ClientRoom

(* An echo is no longer than what was read.                                *)
LEMMA EchoFits == ASSUME held \in Nat, NEW c PROVE EchoBytes(c) \subseteq 0 .. held
BY DEF EchoBytes

(* Where the loop goes on from entry n.                                    *)
LEMMA ServeEffect ==
  ASSUME NEW n \in Nat, Serve(n), readFds' = readFds
  PROVE  /\ pc' \in {"select", "read"} /\ index' \in Indices
         /\ pc' = "read" => /\ n =< index'
                            /\ users'[index'] # NoFd /\ users'[index'] \in readFds
<1> DEFINE todo == {i \in Indices : n =< i /\ Chosen(users'[i])}
<1>1. todo \subseteq Indices /\ todo \subseteq Nat
  BY Sizes
<1>2. CASE todo = {}
  BY <1>2, Sizes DEF Serve
<1>3. CASE todo # {}
  <2>1. Lowest(todo) \in todo
    BY <1>1, <1>3, LowestIn
  <2>2. pc' = "read" /\ index' = Lowest(todo)
    BY <1>3 DEF Serve
  <2> QED BY <2>1, <2>2 DEF Chosen
<1> QED BY <1>2, <1>3

-----------------------------------------------------------------------------
(* Types.                                                                  *)

LEMMA InitType == Init => TypeOK
<1> SUFFICES ASSUME Init PROVE TypeOK
  OBVIOUS
<1>1. open \subseteq Fds /\ index \in Indices /\ maxFd \in Fds /\ allFds \subseteq Fds
  BY Sizes, MaxFdAssumption DEF Init, Fds, Listen
<1>2. left \in [Clients -> Nat] /\ \A c \in Clients : left[c] =< MaxMessages[c]
  BY MessagesAssumption DEF Init
<1> QED BY <1>1, <1>2 DEF Init, TypeOK

LEMMA ClientType ==
  ASSUME TypeOK, NEW c \in Clients, Client(c)
  PROVE  TypeOK'
<1> USE Sizes DEF TypeOK, serverVars, clientVars, tableVars
<1>1. CASE Connect(c)
  BY <1>1 DEF Connect
<1>2. CASE SendMessage(c)
  <2>1. PICK n \in 1 .. BufSize : unread' = [unread EXCEPT ![c] = @ + n]
    BY <1>2 DEF SendMessage
  <2>2. unread' \in [Clients -> Nat]
    BY <2>1
  <2>3. left[c] > 0 /\ left' = [left EXCEPT ![c] = @ - 1]
    BY <1>2 DEF SendMessage
  <2>4. left' \in [Clients -> Nat] /\ \A e \in Clients : left'[e] =< left[e]
    BY <2>3
  <2>5. \A e \in Clients : left'[e] =< MaxMessages[e]
    BY <2>4, MessagesAssumption
  <2>6. client' \in [Clients -> {"new", "send", "recv", "closed", "reset"}]
    BY <1>2 DEF SendMessage
  <2>7. UNCHANGED <<serverVars, echoed>>
    BY <1>2 DEF SendMessage
  <2> QED BY <2>2, <2>4, <2>5, <2>6, <2>7
<1>3. CASE Receive(c)
  <2>1. echoed' \in [Clients -> Nat]
    BY <1>3 DEF Receive
  <2> QED BY <1>3, <2>1 DEF Receive
<1>4. CASE Leave(c)
  BY <1>4 DEF Leave
<1> QED BY <1>1, <1>2, <1>3, <1>4 DEF Client

LEMMA RemoveType ==
  ASSUME TypeOK, Remove(users[index])
  PROVE  users' \in [Indices -> Fds \cup {NoFd}] /\ allFds' \subseteq Fds \cup {NoFd}
BY DEF TypeOK, Remove

LEMMA ServerType ==
  ASSUME TypeOK, Server
  PROVE  TypeOK'
<1> USE Sizes DEF TypeOK, serverVars, clientVars, tableVars
<1>1. CASE Select
  <2>1. readFds' \subseteq Asked
    BY <1>1 DEF Select
  <2>2. Asked \subseteq Fds
    <3>1. \A fd \in allFds : 0 =< fd => fd \in Fds
      BY DEF NoFd
    <3> QED BY <3>1 DEF Asked
  <2> QED BY <1>1, <2>1, <2>2 DEF Select
<1>2. CASE NoConnection \/ TableFull
  BY <1>2, ServeEffect DEF NoConnection, TableFull
<1>3. CASE AcceptConnection
  <2>1. PICK c \in Waiting, fd \in {Lowest(FreeFds)} :
          /\ users' = [users EXCEPT ![Lowest(FreeEntries)] = fd]
          /\ socket' = [socket EXCEPT ![c] = fd]
          /\ open' = open \cup {fd}
          /\ maxFd' = MaxFdWith(fd)
          /\ allFds' = allFds \cup {fd}
    BY <1>3 DEF AcceptConnection
  <2>2. fd \in Fds
    <3>1. FreeFds \in SUBSET Nat /\ FreeFds # {}
      BY <1>3 DEF AcceptConnection, FreeFds
    <3> QED BY <2>1, <3>1, LowestIn DEF FreeFds
  <2>3. /\ users' \in [Indices -> Fds \cup {NoFd}] /\ open' \subseteq Fds
        /\ socket' \in [Clients -> Fds \cup {NoSocket}]
        /\ allFds' \subseteq Fds \cup {NoFd} /\ maxFd' \in Fds
    BY <2>1, <2>2 DEF MaxFdWith
  <2>4. pc' \in {"select", "read"} /\ index' \in Indices
    BY <1>3, ServeEffect DEF AcceptConnection
  <2> QED BY <1>3, <2>3, <2>4 DEF AcceptConnection
<1>4. CASE AcceptFails
  BY <1>4 DEF AcceptFails
<1>5. ASSUME NEW c \in Clients, Read(c) PROVE TypeOK'
  <2>1. held' \in Nat /\ unread' \in [Clients -> Nat]
    BY <1>5 DEF Read, Taken
  <2> QED BY <1>5, <2>1 DEF Read
<1>6. ASSUME NEW c \in Clients, Write(c) PROVE TypeOK'
  <2>1. held' \in Nat /\ echoed' \in [Clients -> Nat]
    <3>1. PICK n \in 0 .. held : echoed' = [echoed EXCEPT ![c] = @ + n]
      BY <1>6, EchoFits DEF Write
    <3> QED BY <1>6, <3>1 DEF Write
  <2>2. pc' \in {"select", "read"} /\ index' \in Indices
    BY <1>6, ServeEffect DEF Write
  <2> QED BY <1>6, <2>1, <2>2 DEF Write
<1>7. ASSUME NEW c \in Clients, WriteToGone(c) PROVE TypeOK'
  <2>1. /\ client' \in [Clients -> {"new", "send", "recv", "closed", "reset"}]
        /\ unread' \in [Clients -> Nat] /\ users' \in [Indices -> Fds \cup {NoFd}]
        /\ allFds' \subseteq Fds \cup {NoFd}
    BY <1>7, RemoveType DEF WriteToGone
  <2>2. pc' \in {"select", "read"} /\ index' \in Indices
    BY <1>7, ServeEffect DEF WriteToGone
  <2> QED BY <1>7, <2>1, <2>2 DEF WriteToGone
<1>8. ASSUME NEW c \in Clients, Eof(c) PROVE TypeOK'
  <2>1. pc' \in {"select", "read"} /\ index' \in Indices
    BY <1>8, ServeEffect DEF Eof
  <2> QED BY <1>8, <2>1, RemoveType DEF Eof
<1>9. ASSUME NEW c \in Clients, ReadFails(c) PROVE TypeOK'
  <2>1. /\ client' \in [Clients -> {"new", "send", "recv", "closed", "reset"}]
        /\ users' \in [Indices -> Fds \cup {NoFd}] /\ allFds' \subseteq Fds \cup {NoFd}
    BY <1>9, RemoveType DEF ReadFails
  <2>2. pc' \in {"select", "read"} /\ index' \in Indices
    BY <1>9, ServeEffect DEF ReadFails
  <2> QED BY <1>9, <2>1, <2>2 DEF ReadFails
<1> QED BY <1>1, <1>2, <1>3, <1>4, <1>5, <1>6, <1>7, <1>8, <1>9 DEF Server

LEMMA NextType == TypeOK /\ [Next]_vars => TypeOK'
<1>1. TypeOK /\ UNCHANGED vars => TypeOK'
  BY DEF TypeOK, vars, serverVars, clientVars, tableVars
<1> QED BY <1>1, ClientType, ServerType DEF Next, Quiet

-----------------------------------------------------------------------------
(* Descriptors.                                                            *)

LEMMA SocketsInit == Init => SocketsApart
BY Sizes DEF Init, SocketsApart

(* Steps that give no descriptor out.                                      *)
LEMMA SocketsKept ==
  ASSUME TypeOK, SocketsApart, UNCHANGED <<socket, open>>, pc' = "exited" <=> pc = "exited",
         \A c \in Clients : client'[c] = "new" => client[c] = "new",
         \A i \in Indices : users'[i] \in {users[i], NoFd}
  PROVE  SocketsApart'
BY Sizes DEF SocketsApart

LEMMA SocketsNext == TypeOK /\ SocketsApart /\ [Next]_vars => SocketsApart'
<1> SUFFICES ASSUME TypeOK, SocketsApart, [Next]_vars PROVE SocketsApart'
  OBVIOUS
<1> USE Sizes DEF serverVars, clientVars, tableVars
<1>1. ASSUME NEW c \in Clients, Client(c) PROVE SocketsApart'
  <2>1. UNCHANGED serverVars
    BY <1>1 DEF Client, Connect, SendMessage, Receive, Leave
  <2>2. \A e \in Clients : client'[e] = "new" => client[e] = "new"
    BY <1>1 DEF Client, Connect, SendMessage, Receive, Leave, Connected, TypeOK
  <2> QED BY <2>1, <2>2, SocketsKept
<1>2. ASSUME UNCHANGED <<socket, open, users, client>>, pc' = "exited" <=> pc = "exited"
      PROVE  SocketsApart'
  BY <1>2, SocketsKept
<1>3. CASE Select \/ \E c \in Clients : Read(c)
  BY <1>2, <1>3 DEF Select, Read
<1>4. CASE NoConnection \/ TableFull \/ \E c \in Clients : Write(c)
  <2>1. pc' \in {"select", "read"}
    BY <1>4, ServeEffect DEF NoConnection, TableFull, Write, TypeOK
  <2> QED BY <1>2, <1>4, <2>1 DEF NoConnection, TableFull, Write
<1>5. CASE AcceptFails
  BY <1>5 DEF AcceptFails, SocketsApart
<1>6. CASE AcceptConnection
  <2>1. PICK c \in Waiting, fd \in {Lowest(FreeFds)} :
          /\ users' = [users EXCEPT ![Lowest(FreeEntries)] = fd]
          /\ socket' = [socket EXCEPT ![c] = fd]
          /\ open' = open \cup {fd}
    BY <1>6 DEF AcceptConnection
  <2>2. fd \in Fds \ open
    <3>1. FreeFds \in SUBSET Nat /\ FreeFds # {}
      BY <1>6 DEF AcceptConnection, FreeFds
    <3> QED BY <2>1, <3>1, LowestIn DEF FreeFds
  <2>3. fd > Listen
    BY <1>6, <2>2 DEF SocketsApart, AcceptConnection, Listen
  <2>4. client[c] # "new" /\ c \in Clients /\ client' = client
    BY <1>6, <2>1 DEF Waiting, AcceptConnection
  <2>5. pc = "accept" /\ pc' \in {"select", "read"}
    BY <1>6, ServeEffect DEF AcceptConnection
  <2>6. /\ \A e \in Clients : socket'[e] = IF e = c THEN fd ELSE socket[e]
        /\ \A i \in Indices :
             (users'[i] = fd /\ i = Lowest(FreeEntries)) \/ users'[i] = users[i]
        /\ fd # NoFd /\ fd # NoSocket
    BY <2>1, <2>2, <2>4 DEF TypeOK
  <2>7. \A e \in Clients : socket[e] # NoSocket => socket[e] \in open
    BY <2>5 DEF SocketsApart
  <2>8. \A i \in Indices : users[i] # NoFd => users[i] \in open
    BY <2>5 DEF SocketsApart
  <2>9. \A e \in Clients : socket'[e] # NoSocket =>
           socket'[e] > Listen /\ client'[e] # "new" /\ socket'[e] \in open'
    BY <2>1, <2>3, <2>4, <2>6, <2>7 DEF SocketsApart
  <2>10. \A a, e \in Clients : socket'[a] = socket'[e] /\ socket'[a] # NoSocket => a = e
    BY <2>2, <2>6, <2>7 DEF SocketsApart
  <2>11. \A i \in Indices : users'[i] # NoFd => users'[i] > Listen /\ users'[i] \in open'
    BY <2>1, <2>3, <2>6, <2>8 DEF SocketsApart
  <2>12. \A i, j \in Indices : users'[i] = users'[j] /\ users'[i] # NoFd => i = j
    BY <2>2, <2>6, <2>8 DEF SocketsApart
  <2>13. 0 .. Listen \subseteq open'
    BY <2>1, <2>5 DEF SocketsApart
  <2> QED BY <2>9, <2>10, <2>11, <2>12, <2>13 DEF SocketsApart
<1>7. ASSUME NEW c \in Clients, WriteToGone(c) \/ Eof(c) \/ ReadFails(c) PROVE SocketsApart'
  <2>1. /\ UNCHANGED <<socket, open>> /\ pc # "exited"
        /\ \A e \in Clients : client'[e] = "new" => client[e] = "new"
        /\ \A i \in Indices : users'[i] \in {users[i], NoFd}
    BY <1>7 DEF WriteToGone, Eof, ReadFails, Remove, TypeOK
  <2>2. pc' \in {"select", "read"}
    BY <1>7, ServeEffect DEF WriteToGone, Eof, ReadFails, TypeOK
  <2> QED BY <2>1, <2>2, SocketsKept
<1>8. CASE UNCHANGED vars
  BY <1>2, <1>8 DEF vars
<1> QED BY <1>1, <1>3, <1>4, <1>5, <1>6, <1>7, <1>8 DEF Next, Server, Quiet

-----------------------------------------------------------------------------
(* The snapshot of select().                                               *)

LEMMA SnapshotInit == Init => SnapshotHolds
BY DEF Init, SnapshotHolds

(* Clients only give the server more to read.                              *)
LEMMA SnapshotClient ==
  ASSUME TypeOK, SocketsApart, SnapshotHolds, NEW c \in Clients, Client(c)
  PROVE  SnapshotHolds'
<1>1. UNCHANGED serverVars
  BY DEF Client, Connect, SendMessage, Receive, Leave
<1>2. ASSUME NEW e \in Clients, socket[e] # NoSocket, client[e] # "new",
             unread[e] > 0 \/ e \notin Connected
      PROVE  unread'[e] > 0 \/ client'[e] \notin {"send", "recv"}
  <2>1. CASE Connect(c)
    BY <1>2, <2>1 DEF Connect, TypeOK, Connected
  <2>2. CASE SendMessage(c)
    <3>1. PICK n \in 1 .. BufSize : unread' = [unread EXCEPT ![c] = @ + n]
      BY <2>2 DEF SendMessage
    <3>2. unread'[e] >= unread[e] /\ (e = c => unread'[e] > 0)
      BY <3>1, Sizes DEF TypeOK
    <3>3. e # c => client'[e] = client[e]
      BY <2>2 DEF SendMessage, TypeOK
    <3>4. unread[e] \in Nat /\ unread'[e] \in Int
      BY <3>1, Sizes DEF TypeOK
    <3>5. unread[e] > 0 => unread'[e] > 0
      BY <3>2, <3>4
    <3> QED BY <1>2, <3>2, <3>3, <3>5 DEF Connected
  <2>3. CASE Receive(c)
    BY <1>2, <2>3 DEF Receive, TypeOK, Connected
  <2>4. CASE Leave(c)
    BY <1>2, <2>4 DEF Leave, TypeOK, Connected
  <2> QED BY <2>1, <2>2, <2>3, <2>4 DEF Client
<1>3. ASSUME NEW fd \in Fds, HasInput(fd) PROVE HasInput(fd)'
  <2>1. PICK e \in Clients : socket[e] = fd /\ (unread[e] > 0 \/ e \notin Connected)
    BY <1>3 DEF HasInput
  <2>2. unread'[e] > 0 \/ client'[e] \notin {"send", "recv"}
    BY <1>2, <2>1, Sizes DEF SocketsApart
  <2>3. socket'[e] = fd
    BY <1>1, <2>1 DEF serverVars
  <2> QED BY <2>2, <2>3 DEF HasInput, Connected
<1>4. UNCHANGED <<pc, index, readFds, users>>
  BY <1>1 DEF serverVars, tableVars
<1>5. /\ \A fd \in readFds : fd \in Fds
      /\ \A i \in Indices : users[i] # NoFd => users[i] \in Fds
      /\ index \in Indices
  BY DEF TypeOK
<1>6. pc = "accept" => \A fd \in readFds : fd = Listen \/ HasInput(fd)'
  BY <1>3, <1>5 DEF SnapshotHolds
<1>7. pc = "read" => HasInput(users[index])'
  <2> SUFFICES ASSUME pc = "read" PROVE HasInput(users[index])'
    OBVIOUS
  <2>1. HasInput(users[index]) /\ users[index] \in Fds
    BY <1>5 DEF SnapshotHolds, Chosen
  <2>2. PICK fd \in Fds : fd = users[index]
    BY <2>1
  <2>3. HasInput(fd)'
    BY <1>3, <2>1, <2>2
  <2> QED BY <1>4, <2>2, <2>3
<1>8. ASSUME pc \in {"read", "write"}, NEW i \in Indices, i > index, Chosen(users[i])
      PROVE  HasInput(users[i])'
  <2>1. HasInput(users[i]) /\ users[i] \in Fds
    BY <1>5, <1>8 DEF SnapshotHolds, Chosen
  <2>2. PICK fd \in Fds : fd = users[i]
    BY <2>1
  <2>3. HasInput(fd)'
    BY <1>3, <2>1, <2>2
  <2> QED BY <1>4, <2>2, <2>3
<1>9. pc \in {"read", "write"} => Chosen(users[index])
  BY DEF SnapshotHolds
<1> QED BY <1>4, <1>6, <1>7, <1>8, <1>9 DEF SnapshotHolds, Chosen

(* The loop goes on to an entry whose input nothing has taken.             *)
LEMMA SnapshotServe ==
  ASSUME TypeOK', NEW n \in Nat, Serve(n), UNCHANGED readFds,
         ASSUME NEW i \in Indices, n =< i, Chosen(users[i])'
         PROVE  HasInput(users[i])'
  PROVE  SnapshotHolds'
<1>1. /\ pc' \in {"select", "read"} /\ index' \in Indices
      /\ pc' = "read" => /\ n =< index'
                         /\ users'[index'] # NoFd /\ users'[index'] \in readFds
  BY ServeEffect
<1>2. CASE pc' = "read"
  <2>1. Chosen(users[index])'
    BY <1>1, <1>2 DEF Chosen
  <2>2. \A i \in Indices : n =< i /\ Chosen(users[i])' => HasInput(users[i])'
    OBVIOUS
  <2>3. PICK k \in Indices : k = index'
    BY <1>1
  <2>4. Chosen(users[k])' /\ n =< k
    BY <1>1, <1>2, <2>1, <2>3
  <2>5. HasInput(users[index])'
    BY <2>2, <2>3, <2>4
  <2>6. \A i \in Indices : i > index' => n =< i
    BY <1>1, <1>2, Sizes
  <2> QED BY <1>2, <2>1, <2>2, <2>5, <2>6 DEF SnapshotHolds
<1> QED BY <1>1, <1>2 DEF SnapshotHolds

LEMMA SnapshotNext ==
  TypeOK /\ SocketsApart /\ SnapshotHolds /\ [Next]_vars => SnapshotHolds'
<1> SUFFICES ASSUME TypeOK, SocketsApart, SnapshotHolds, [Next]_vars PROVE SnapshotHolds'
  OBVIOUS
<1>0. TypeOK' /\ SocketsApart'
  BY NextType, SocketsNext
<1>1. ASSUME NEW c \in Clients, Client(c) PROVE SnapshotHolds'
  BY <1>1, SnapshotClient
<1>2. CASE Select
  <2>1. ASSUME NEW fd \in readFds' PROVE fd = Listen \/ HasInput(fd)'
    <3>1. Readable(fd)
      BY <1>2, <2>1 DEF Select
    <3> QED BY <1>2, <3>1 DEF Readable, HasInput, Select, clientVars, Connected
  <2>2. pc' = "accept"
    BY <1>2 DEF Select
  <2> QED BY <2>1, <2>2 DEF SnapshotHolds
<1>3. CASE NoConnection \/ TableFull
  <2>1. ASSUME NEW i \in Indices, Chosen(users[i])' PROVE HasInput(users[i])'
    <3>1. pc = "accept" /\ UNCHANGED <<users, readFds, socket, client, unread>>
      BY <1>3 DEF NoConnection, TableFull, tableVars, clientVars
    <3>2. users[i] \in readFds /\ users[i] # Listen
      BY <2>1, <3>1, Sizes DEF Chosen, SocketsApart
    <3>3. HasInput(users[i])
      BY <3>1, <3>2 DEF SnapshotHolds
    <3> QED BY <3>1, <3>3 DEF HasInput, Connected
  <2> QED BY <1>0, <1>3, <2>1, SnapshotServe DEF NoConnection, TableFull
<1>4. CASE AcceptConnection
  <2>1. PICK c \in Waiting, fd \in {Lowest(FreeFds)} : socket' = [socket EXCEPT ![c] = fd]
    BY <1>4 DEF AcceptConnection
  <2>2. c \in Clients /\ socket[c] = NoSocket /\ \A e \in Clients : e # c => socket'[e] = socket[e]
    BY <2>1 DEF Waiting, TypeOK
  <2>3. ASSUME NEW i \in Indices, Chosen(users[i])' PROVE HasInput(users[i])'
    <3>1. pc = "accept" /\ UNCHANGED <<client, unread, readFds>>
      BY <1>4 DEF AcceptConnection, clientVars
    <3>2. users'[i] \in readFds /\ users'[i] # Listen
      BY <1>0, <2>3, <3>1, Sizes DEF Chosen, SocketsApart
    <3>3. PICK s \in readFds : s = users'[i]
      BY <3>2
    <3>4. HasInput(s) /\ s # NoSocket
      BY <3>1, <3>2, <3>3, Sizes DEF SnapshotHolds, TypeOK
    <3>5. PICK e \in Clients : socket[e] = s /\ (unread[e] > 0 \/ e \notin Connected)
      BY <3>4 DEF HasInput
    <3>6. socket'[e] = s
      BY <2>2, <3>4, <3>5
    <3> QED BY <3>1, <3>3, <3>5, <3>6 DEF HasInput, Connected
  <2> QED BY <1>0, <1>4, <2>3, SnapshotServe DEF AcceptConnection
<1>5. CASE AcceptFails
  BY <1>5 DEF AcceptFails, SnapshotHolds
<1>6. ASSUME NEW c \in Clients, NEW i \in Indices, i > index, pc \in {"read", "write"},
             Serving(c), Chosen(users[i]), UNCHANGED socket,
             \A e \in Clients : e # c => unread'[e] = unread[e] /\ client'[e] = client[e]
      PROVE  /\ HasInput(users[i])
             /\ \E e \in Clients : /\ socket'[e] = users[i]
                                   /\ unread'[e] > 0 \/ client'[e] \notin {"send", "recv"}
  <2>1. HasInput(users[i])
    BY <1>6 DEF SnapshotHolds
  <2>2. PICK e \in Clients : socket[e] = users[i] /\ (unread[e] > 0 \/ e \notin Connected)
    BY <2>1 DEF HasInput
  <2>3. users[i] # users[index]
    BY <1>6, Sizes DEF SocketsApart, Chosen, TypeOK
  <2>4. e # c
    BY <1>6, <2>2, <2>3 DEF Serving
  <2> QED BY <1>6, <2>1, <2>2, <2>4 DEF Connected
<1>7. ASSUME NEW c \in Clients, Read(c) PROVE SnapshotHolds'
  <2>1. /\ pc = "read" /\ pc' = "write" /\ Serving(c)
        /\ UNCHANGED <<index, readFds, users, socket, client>>
        /\ \A e \in Clients : e # c => unread'[e] = unread[e]
    BY <1>7 DEF Read, tableVars, clientVars, TypeOK
  <2>2. ASSUME NEW i \in Indices, i > index, Chosen(users[i]) PROVE HasInput(users[i])'
    BY <1>6, <2>1, <2>2 DEF HasInput, Connected
  <2>3. Chosen(users[index])
    BY <2>1 DEF SnapshotHolds
  <2> QED BY <2>1, <2>2, <2>3 DEF SnapshotHolds, Chosen
<1>8. ASSUME NEW c \in Clients, Write(c) \/ WriteToGone(c) \/ Eof(c) \/ ReadFails(c)
      PROVE  SnapshotHolds'
  <2>1. /\ pc \in {"read", "write"} /\ Serving(c) /\ Serve(index + 1)
        /\ UNCHANGED <<readFds, socket>>
    BY <1>8 DEF Write, WriteToGone, Eof, ReadFails
  <2>2. \A e \in Clients : e # c => unread'[e] = unread[e] /\ client'[e] = client[e]
    BY <1>8 DEF Write, WriteToGone, Eof, ReadFails, clientVars, TypeOK
  <2>3. \A i \in Indices : users'[i] \in {users[i], NoFd}
    BY <1>8 DEF Write, WriteToGone, Eof, ReadFails, Remove, tableVars, TypeOK
  <2>4. ASSUME NEW i \in Indices, index + 1 =< i, Chosen(users[i])' PROVE HasInput(users[i])'
    <3>1. users'[i] = users[i] /\ Chosen(users[i])
      BY <2>1, <2>3, <2>4 DEF Chosen
    <3>2. i > index
      BY <2>4, Sizes DEF TypeOK
    <3>3. \E e \in Clients : /\ socket'[e] = users[i]
                             /\ unread'[e] > 0 \/ client'[e] \notin {"send", "recv"}
      BY <1>6, <2>1, <2>2, <3>1, <3>2
    <3> QED BY <3>1, <3>3 DEF HasInput, Connected
  <2>5. index + 1 \in Nat
    BY Sizes DEF TypeOK
  <2> QED BY <1>0, <2>1, <2>4, <2>5, SnapshotServe
<1>9. CASE UNCHANGED vars
  BY <1>9 DEF vars, serverVars, clientVars, tableVars, SnapshotHolds, HasInput, Chosen, Connected
<1> QED BY <1>1, <1>2, <1>3, <1>4, <1>5, <1>7, <1>8, <1>9 DEF Next, Server, Quiet

-----------------------------------------------------------------------------
(* The bytes under way.                                                    *)

LEMMA ExchangeInit == Init => \A c \in Clients : Exchange(c)
BY Sizes DEF Init, Exchange, Held

(* A step that moves none of a client's bytes.                             *)
LEMMA ExchangeKept ==
  ASSUME NEW c \in Clients, Exchange(c), unread'[c] = unread[c], echoed'[c] = echoed[c],
         Held(c)' = Held(c), client'[c] = client[c], left'[c] = left[c]
  PROVE  Exchange(c)'
BY DEF Exchange

(* The loop holds bytes of the client it serves, and of no other.          *)
LEMMA HeldAlone ==
  ASSUME TypeOK, SocketsApart, SnapshotHolds, pc \in {"read", "write"}, NEW c \in Clients, Serving(c)
  PROVE  \A e \in Clients : e # c => ~Serving(e)
BY Sizes DEF TypeOK, SocketsApart, SnapshotHolds, Chosen, Serving

LEMMA ExchangeClient ==
  ASSUME TypeOK, NEW c \in Clients, Client(c), NEW e \in Clients, Exchange(e)
  PROVE  Exchange(e)'
<1>0. UNCHANGED <<pc, held, socket, users, index>>
  BY DEF Client, Connect, SendMessage, Receive, Leave, serverVars, tableVars
<1>1. Held(e)' = Held(e)
  BY <1>0 DEF Held, Serving
<1>2. CASE e # c
  <2>1. /\ unread'[e] = unread[e] /\ echoed'[e] = echoed[e]
        /\ client'[e] = client[e] /\ left'[e] = left[e]
    BY <1>2 DEF Client, Connect, SendMessage, Receive, Leave, TypeOK
  <2> QED BY <1>1, <2>1, ExchangeKept
<1>3. CASE e = c
  <2>0. /\ unread[c] \in Nat /\ echoed[c] \in Nat /\ Held(c) \in Nat /\ left[c] \in Nat
        /\ client[c] \in {"new", "send", "recv", "closed", "reset"} /\ MaxMessages[c] \in Nat
        /\ left[c] =< MaxMessages[c]
    BY MessagesAssumption DEF TypeOK, Held
  <2>1. CASE Connect(c)
    <3>1. UNCHANGED <<unread, echoed, left>> /\ client[c] = "new" /\ client'[c] = "send"
      BY <2>1 DEF Connect, TypeOK
    <3> QED BY <1>1, <1>3, <2>0, <3>1, Sizes DEF Exchange
  <2>2. CASE SendMessage(c)
    <3>1. PICK n \in 1 .. BufSize : unread' = [unread EXCEPT ![c] = @ + n]
      BY <2>2 DEF SendMessage
    <3>2. /\ unread'[c] = unread[c] + n /\ echoed' = echoed /\ client[c] = "send"
          /\ left[c] > 0 /\ left'[c] = left[c] - 1
      BY <2>2, <3>1 DEF SendMessage, TypeOK
    <3>3. client'[c] = IF left[c] = MaxMessages[c] THEN "send" ELSE "recv"
      BY <2>2 DEF SendMessage, TypeOK
    <3>4. n \in Nat /\ n > 0 /\ n =< BufSize
      BY Sizes
    <3>5. CASE left[c] = MaxMessages[c]
      BY <1>1, <1>3, <2>0, <3>2, <3>3, <3>4, <3>5, Sizes DEF Exchange
    <3>6. CASE left[c] # MaxMessages[c]
      BY <1>1, <1>3, <2>0, <3>2, <3>3, <3>4, <3>6, Sizes DEF Exchange
    <3> QED BY <3>5, <3>6
  <2>3. CASE Receive(c)
    <3>1. /\ UNCHANGED <<unread, left>> /\ client[c] = "recv" /\ client'[c] = "send"
          /\ echoed[c] > 0
          /\ echoed'[c] = IF echoed[c] > ClientRoom THEN echoed[c] - ClientRoom ELSE 0
      BY <2>3 DEF Receive, TypeOK
    <3>2. unread[c] + Held(c) + echoed[c] =< 2 * BufSize
      BY <1>3 DEF Exchange
    <3>3. echoed'[c] = 0
      BY <2>0, <3>1, <3>2, Sizes
    <3> QED BY <1>1, <1>3, <2>0, <3>1, <3>3, Sizes DEF Exchange
  <2>4. CASE Leave(c)
    <3>1. /\ client'[c] \in {"closed", "reset"} /\ unread'[c] \in {unread[c], 0}
          /\ echoed'[c] = 0
      BY <2>4 DEF Leave, TypeOK
    <3> QED BY <1>1, <1>3, <2>0, <3>1, Sizes DEF Exchange
  <2> QED BY <2>1, <2>2, <2>3, <2>4 DEF Client
<1> QED BY <1>2, <1>3

LEMMA ExchangeServer ==
  ASSUME TypeOK, SocketsApart, SnapshotHolds, Server, NEW e \in Clients, Exchange(e)
  PROVE  Exchange(e)'
<1>0. /\ unread[e] \in Nat /\ echoed[e] \in Nat /\ held \in Nat /\ left[e] \in Nat
      /\ client[e] \in {"new", "send", "recv", "closed", "reset"} /\ MaxMessages[e] \in Nat
      /\ left[e] =< MaxMessages[e]
  BY MessagesAssumption DEF TypeOK
<1>1. CASE Select \/ NoConnection \/ TableFull \/ AcceptConnection \/ AcceptFails
  <2>1. pc # "write" /\ pc' # "write"
    BY <1>1, ServeEffect DEF Select, NoConnection, TableFull, AcceptConnection, AcceptFails
  <2>2. UNCHANGED <<client, left, unread, echoed>>
    BY <1>1 DEF Select, NoConnection, TableFull, AcceptConnection, AcceptFails, clientVars
  <2> QED BY <2>1, <2>2, ExchangeKept DEF Held
<1>2. ASSUME NEW c \in Clients, Read(c) PROVE Exchange(e)'
  <2>1. /\ pc = "read" /\ pc' = "write" /\ Serving(c) /\ UNCHANGED <<users, index, socket>>
        /\ UNCHANGED <<client, left, echoed>> /\ held' = Taken(c) /\ unread[c] > 0
    BY <1>2 DEF Read, tableVars, clientVars
  <2>2. unread' = [unread EXCEPT ![c] = @ - Taken(c)]
    BY <1>2 DEF Read
  <2>3. CASE e # c
    <3>1. ~Serving(e) /\ unread'[e] = unread[e]
      BY <2>1, <2>2, <2>3, HeldAlone DEF TypeOK
    <3>2. Held(e)' = Held(e)
      BY <2>1, <3>1 DEF Held, Serving
    <3> QED BY <2>1, <3>1, <3>2, ExchangeKept
  <2>4. CASE e = c
    <3>1. unread'[e] = unread[e] - Taken(e) /\ Held(e) = 0 /\ Held(e)' = Taken(e)
      BY <2>1, <2>2, <2>4 DEF TypeOK, Held, Serving
    <3>2. CASE unread[e] > BufSize
      <4>1. Taken(e) = BufSize
        BY <3>2 DEF Taken
      <4> QED BY <1>0, <2>1, <2>4, <3>1, <3>2, <4>1, Sizes DEF Exchange
    <3>3. CASE unread[e] =< BufSize
      <4>1. Taken(e) = unread[e]
        BY <1>0, <3>3, Sizes DEF Taken
      <4>2. unread'[e] = 0
        BY <1>0, <3>1, <4>1
      <4> QED BY <1>0, <2>1, <2>4, <3>1, <3>3, <4>1, <4>2, Sizes DEF Exchange
    <3> QED BY <1>0, <3>2, <3>3, Sizes
  <2> QED BY <2>3, <2>4
<1>3. ASSUME NEW c \in Clients, Write(c) PROVE Exchange(e)'
  <2>1. /\ pc = "write" /\ Serving(c) /\ c \in Connected
        /\ UNCHANGED <<client, left, unread>>
    BY <1>3 DEF Write, clientVars
  <2>6. PICK n \in 0 .. held : echoed' = [echoed EXCEPT ![c] = @ + n]
    BY <1>3, EchoFits DEF Write, TypeOK
  <2>2. pc' # "write"
    BY <1>3, ServeEffect, Sizes DEF Write, TypeOK
  <2>3. Held(e)' = 0
    BY <2>2 DEF Held
  <2>4. CASE e # c
    <3>1. ~Serving(e) /\ echoed'[e] = echoed[e]
      BY <2>1, <2>4, <2>6, HeldAlone DEF TypeOK
    <3>2. Held(e) = 0
      BY <3>1 DEF Held
    <3> QED BY <2>1, <2>3, <3>1, <3>2, ExchangeKept
  <2>5. CASE e = c
    <3>1. echoed'[e] = echoed[e] + n /\ Held(e) = held /\ n =< held /\ n \in Nat /\ held \in Nat
      BY <2>1, <2>5, <2>6 DEF TypeOK, Held
    <3>2. unread'[e] = unread[e] /\ client'[e] = client[e] /\ left'[e] = left[e]
      BY <2>1
    <3>3. /\ echoed'[e] \in Nat /\ echoed'[e] =< echoed[e] + Held(e)
          /\ echoed'[e] > 0 => echoed[e] > 0 \/ Held(e) > 0
      BY <1>0, <3>1
    <3>4. /\ unread[e] \in Nat /\ echoed[e] \in Nat /\ Held(e) \in Nat /\ Held(e)' = 0
          /\ echoed'[e] > 0 /\ Held(e) = 0 => echoed'[e] =< echoed[e]
      BY <1>0, <2>3, <3>1
    <3> HIDE DEF Held
    <3>5. unread'[e] + echoed'[e] =< unread[e] + Held(e) + echoed[e]
      BY <3>2, <3>3, <3>4
    <3>6. CASE client[e] = "send"
      <4>1. unread'[e] = 0 \/ echoed'[e] = 0
        BY <3>2, <3>3, <3>4, <3>6 DEF Exchange
      <4>2. left'[e] = MaxMessages[e] => unread'[e] = 0 /\ echoed'[e] = 0
        BY <3>2, <3>3, <3>4, <3>6 DEF Exchange
      <4>3. unread'[e] + echoed'[e] =< BufSize /\ unread'[e] + echoed'[e] =< 2 * BufSize
        BY <3>2, <3>3, <3>4, <3>5, <3>6, Sizes DEF Exchange
      <4>4. client'[e] = "send"
        BY <3>2, <3>6
      <4> QED BY <3>2, <3>3, <3>4, <4>1, <4>2, <4>3, <4>4, MessagesAssumption DEF Exchange
    <3>7. CASE client[e] = "recv"
      BY <3>2, <3>3, <3>4, <3>5, <3>7, Sizes DEF Exchange
    <3> QED BY <2>1, <2>5, <3>6, <3>7 DEF Connected
  <2> QED BY <2>4, <2>5
<1>4. ASSUME NEW c \in Clients, WriteToGone(c) \/ Eof(c) \/ ReadFails(c) PROVE Exchange(e)'
  <2>1. pc \in {"read", "write"} /\ Serving(c) /\ UNCHANGED <<left, echoed>>
    BY <1>4 DEF WriteToGone, Eof, ReadFails, clientVars
  <2>2. pc' # "write"
    BY <1>4, ServeEffect, Sizes DEF WriteToGone, Eof, ReadFails, TypeOK
  <2>3. Held(e)' = 0
    BY <2>2 DEF Held
  <2>4. CASE e # c
    <3>1. ~Serving(e) /\ unread'[e] = unread[e] /\ client'[e] = client[e]
      BY <1>4, <2>1, <2>4, HeldAlone DEF WriteToGone, Eof, ReadFails, clientVars, TypeOK
    <3>2. Held(e) = 0
      BY <3>1 DEF Held
    <3> QED BY <2>1, <2>3, <3>1, <3>2, ExchangeKept
  <2>5. CASE e = c
    <3>1. unread'[e] \in {unread[e], 0} /\ client'[e] \in {"closed", "reset"}
      <4>1. client[e] # "new"
        BY <2>1, <2>5, Sizes DEF SnapshotHolds, SocketsApart, Chosen, Serving, TypeOK
      <4> QED
        BY <1>0, <1>4, <2>5, <4>1 DEF WriteToGone, Eof, ReadFails, clientVars, Connected, TypeOK
    <3>2. Held(e) \in Nat
      BY <1>0 DEF Held
    <3> QED BY <1>0, <2>1, <2>3, <3>1, <3>2, Sizes DEF Exchange
  <2> QED BY <2>4, <2>5
<1> QED BY <1>1, <1>2, <1>3, <1>4 DEF Server

LEMMA InvInit == Init => ChatInv
BY InitType, SocketsInit, SnapshotInit, ExchangeInit DEF ChatInv

LEMMA InvNext == ChatInv /\ [Next]_vars => ChatInv'
<1> SUFFICES ASSUME ChatInv, [Next]_vars PROVE ChatInv'
  OBVIOUS
<1>1. TypeOK' /\ SocketsApart' /\ SnapshotHolds'
  BY NextType, SocketsNext, SnapshotNext DEF ChatInv
<1>2. ASSUME NEW e \in Clients PROVE Exchange(e)'
  <2>1. TypeOK /\ SocketsApart /\ SnapshotHolds /\ Exchange(e)
    BY DEF ChatInv
  <2>2. CASE UNCHANGED vars
    BY <2>1, <2>2 DEF vars, serverVars, clientVars, tableVars, Exchange, Held, Serving
  <2> QED BY <2>1, <2>2, ExchangeClient, ExchangeServer DEF Next, Quiet
<1> QED BY <1>1, <1>2 DEF ChatInv

-----------------------------------------------------------------------------
(* What the descriptors are for.                                           *)

(* Descriptors given to clients, those that have left since included.      *)
Given == {socket[c] : c \in Clients} \ {NoSocket}

SpentInv == (pc # "exited" => open = 0 .. Listen \cup Given) /\ ExitsWhenSpent

(* An entry given up is that of a client that has gone.                    *)
LEMMA RemoveKeeps ==
  ASSUME TypeOK, SocketsApart, ClientsKept, NEW c \in Clients, Serving(c), Remove(users[index]),
         users[index] # NoFd, UNCHANGED <<socket, maxFd>>, Connected' \subseteq Connected \ {c}
  PROVE  ClientsKept'
<1>1. /\ users[index] = socket[c] /\ users[index] > Listen /\ index \in Indices
      /\ \A i \in Indices : i # index => users'[i] = users[i]
      /\ allFds' = allFds \ {users[index]}
  BY DEF Serving, Remove, SocketsApart, TypeOK
<1>2. Listen \in Asked'
  BY <1>1, Sizes DEF ClientsKept, Asked
<1>3. ASSUME NEW e \in Connected', socket[e] # NoSocket
      PROVE  socket[e] \in Asked' /\ \E i \in Indices : users'[i] = socket[e]
  <2>1. e \in Clients /\ e \in Connected /\ e # c
    BY <1>3 DEF Connected
  <2>2. socket[e] # socket[c]
    BY <1>3, <2>1 DEF SocketsApart
  <2>3. socket[e] \in Asked /\ \E i \in Indices : users[i] = socket[e]
    BY <1>3, <2>1 DEF ClientsKept
  <2> QED BY <1>1, <2>2, <2>3 DEF Asked
<1> QED BY <1>2, <1>3 DEF ClientsKept

LEMMA SameTable ==
  ASSUME ClientsKept, UNCHANGED <<socket, maxFd, users>>, allFds \subseteq allFds',
         \A c \in Clients : c \in Connected' /\ socket[c] # NoSocket => c \in Connected
  PROVE  ClientsKept'
<1>1. Asked \subseteq Asked'
  BY DEF Asked
<1>2. \A c \in Connected' : c \in Clients
  BY DEF Connected
<1> QED BY <1>1, <1>2 DEF ClientsKept

LEMMA KeptInit == Init => ClientsKept /\ SpentInv
<1> SUFFICES ASSUME Init PROVE ClientsKept /\ SpentInv
  OBVIOUS
<1>1. Listen \in Asked
  BY Sizes DEF Init, Asked, Listen
<1>2. Given = {} /\ \A c \in Connected : FALSE
  BY DEF Init, Given, Connected
<1> QED BY <1>1, <1>2 DEF Init, ClientsKept, SpentInv, ExitsWhenSpent

LEMMA AcceptKeeps ==
  ASSUME TypeOK, SocketsApart, ClientsKept, SpentInv, AcceptConnection
  PROVE  ClientsKept' /\ SpentInv'
<1>1. PICK c \in Waiting, fd \in {Lowest(FreeFds)} :
        /\ users' = [users EXCEPT ![Lowest(FreeEntries)] = fd]
        /\ socket' = [socket EXCEPT ![c] = fd]
        /\ open' = open \cup {fd}
        /\ maxFd' = MaxFdWith(fd)
        /\ allFds' = allFds \cup {fd}
  BY DEF AcceptConnection
<1>2. pc = "accept" /\ pc' \in {"select", "read"} /\ client' = client
  BY ServeEffect, Sizes DEF AcceptConnection, clientVars
<1>3. fd \in Fds /\ fd \in Nat
  <2>1. FreeFds \in SUBSET Nat /\ FreeFds # {}
    BY Sizes DEF AcceptConnection, FreeFds
  <2> QED BY <2>1, LowestIn DEF FreeFds
<1> DEFINE k == Lowest(FreeEntries)
<1>4. k \in Indices /\ users[k] = NoFd
  <2>1. FreeEntries \in SUBSET Nat /\ FreeEntries # {}
    BY Sizes DEF AcceptConnection, FreeEntries
  <2> QED BY <2>1, LowestIn DEF FreeEntries
<1> HIDE DEF k
<1>5. /\ users'[k] = fd /\ \A i \in Indices : i # k => users'[i] = users[i]
      /\ c \in Clients /\ socket[c] = NoSocket /\ socket'[c] = fd
      /\ \A e \in Clients : e # c => socket'[e] = socket[e]
  BY <1>1, <1>4 DEF TypeOK, Waiting, k
<1>6. ClientsKept'
  <2>1. Asked \subseteq Asked' /\ fd \in Asked'
    <3>1. maxFd \in Nat /\ maxFd =< maxFd' /\ fd =< maxFd' /\ maxFd' \in Nat
      BY <1>1, <1>3, Sizes DEF MaxFdWith, TypeOK
    <3>2. ASSUME NEW a \in Asked PROVE a \in Asked'
      <4>1. a \in allFds' /\ a \in Int /\ 0 =< a /\ a =< maxFd
        BY <1>1, Sizes DEF Asked, TypeOK, NoFd
      <4>2. a =< maxFd'
        BY <3>1, <4>1
      <4> QED BY <4>1, <4>2 DEF Asked
    <3>3. fd \in allFds' /\ 0 =< fd
      BY <1>1, <1>3
    <3> QED BY <3>1, <3>2, <3>3 DEF Asked
  <2>2. ASSUME NEW e \in Connected', socket'[e] # NoSocket
        PROVE  socket'[e] \in Asked' /\ \E i \in Indices : users'[i] = socket'[e]
    <3>1. e \in Clients /\ e \in Connected
      BY <1>2 DEF Connected
    <3>2. CASE e = c
      BY <1>4, <1>5, <2>1, <3>2
    <3>3. CASE e # c
      <4>1. PICK i \in Indices : users[i] = socket[e]
        BY <1>5, <2>2, <3>1, <3>3 DEF ClientsKept
      <4>2. socket[e] # NoFd
        BY <1>5, <2>2, <3>1, <3>3, Sizes DEF TypeOK
      <4>3. users'[i] = socket'[e]
        BY <1>4, <1>5, <3>1, <3>3, <4>1, <4>2
      <4>4. socket'[e] \in Asked
        BY <1>5, <2>2, <3>1, <3>3 DEF ClientsKept
      <4> QED BY <2>1, <4>3, <4>4
    <3> QED BY <3>2, <3>3
  <2>3. Listen \in Asked'
    BY <2>1 DEF ClientsKept
  <2> QED BY <2>2, <2>3 DEF ClientsKept
<1>7. SpentInv'
  <2>1. Given' = Given \cup {fd}
    BY <1>3, <1>5, Sizes DEF Given
  <2> QED BY <1>1, <1>2, <2>1 DEF SpentInv, ExitsWhenSpent
<1> QED BY <1>6, <1>7

(* The step by which the server ends.                                      *)
LEMMA FailsSpent ==
  ASSUME SocketsApart, TypeOK, SpentInv, AcceptFails
  PROVE  ExitsWhenSpent'
<1>1. Fds \subseteq open /\ pc = "accept" /\ socket' = socket
  BY DEF AcceptFails, FreeFds
<1>2. Fds \subseteq 0 .. Listen \cup Given
  BY <1>1 DEF SpentInv
<1>3. \A g \in Given : g \in Fds /\ g > Listen
  BY DEF Given, SocketsApart, TypeOK
<1>4. Given = Listen + 1 .. MaxFd
  <2>1. \A g \in Given : g \in Listen + 1 .. MaxFd
    BY <1>3, MaxFdAssumption DEF Fds, Listen
  <2>2. \A g \in Listen + 1 .. MaxFd : g \in Fds /\ g \notin 0 .. Listen
    BY MaxFdAssumption DEF Fds, Listen
  <2> QED BY <1>2, <2>1, <2>2
<1> QED BY <1>1, <1>4 DEF ExitsWhenSpent, Given

LEMMA KeptNext ==
  ASSUME TypeOK, SocketsApart, SnapshotHolds, ClientsKept, SpentInv, [Next]_vars
  PROVE  ClientsKept' /\ SpentInv'
<1> USE Sizes DEF serverVars, clientVars, tableVars
<1>1. ASSUME UNCHANGED <<socket, open>>, pc' = "exited" <=> pc = "exited" PROVE SpentInv'
  BY <1>1 DEF SpentInv, ExitsWhenSpent, Given
<1>2. ASSUME NEW c \in Clients, Client(c) PROVE ClientsKept' /\ SpentInv'
  <2>1. UNCHANGED serverVars
    BY <1>2 DEF Client, Connect, SendMessage, Receive, Leave
  <2>2. \A e \in Clients : e \in Connected' /\ socket[e] # NoSocket => e \in Connected
    <3> SUFFICES ASSUME NEW e \in Clients, e \in Connected', socket[e] # NoSocket PROVE e \in Connected
      OBVIOUS
    <3>1. client[e] # "new"
      BY DEF SocketsApart
    <3>2. CASE e = c
      BY <1>2, <3>1, <3>2 DEF Client, Connect, SendMessage, Receive, Leave, Connected, TypeOK
    <3>3. CASE e # c
      <4>1. client'[e] = client[e]
        BY <1>2, <3>3 DEF Client, Connect, SendMessage, Receive, Leave, TypeOK
      <4> QED BY <4>1 DEF Connected
    <3> QED BY <3>2, <3>3
  <2> QED BY <1>1, <2>1, <2>2, SameTable
<1>3. ASSUME UNCHANGED <<socket, maxFd, users, client>>, allFds \subseteq allFds' PROVE ClientsKept'
  BY <1>3, SameTable DEF Connected
<1>4. CASE Select \/ \E c \in Clients : Read(c)
  <2>1. UNCHANGED <<socket, maxFd, users, client, allFds, open>> /\ pc # "exited" /\ pc' # "exited"
    BY <1>4 DEF Select, Read
  <2> QED BY <1>1, <1>3, <2>1
<1>5. CASE NoConnection \/ TableFull \/ \E c \in Clients : Write(c)
  <2>1. /\ UNCHANGED <<socket, maxFd, users, client, open>> /\ allFds \subseteq allFds'
        /\ pc # "exited"
    BY <1>5 DEF NoConnection, TableFull, Write
  <2>2. pc' # "exited"
    BY <1>5, ServeEffect DEF NoConnection, TableFull, Write, TypeOK
  <2> QED BY <1>1, <1>3, <2>1, <2>2
<1>6. CASE AcceptFails
  <2>1. UNCHANGED <<socket, maxFd, users, client, allFds>> /\ pc' = "exited"
    BY <1>6 DEF AcceptFails
  <2> QED BY <1>3, <1>6, <2>1, FailsSpent DEF SpentInv
<1>7. ASSUME NEW c \in Clients, WriteToGone(c) \/ Eof(c) \/ ReadFails(c) PROVE ClientsKept' /\ SpentInv'
  <2>1. /\ UNCHANGED <<socket, maxFd, open>> /\ pc # "exited" /\ Serving(c) /\ c \notin Connected
        /\ pc \in {"read", "write"}
    BY <1>7 DEF WriteToGone, Eof, ReadFails, Connected
  <2>2. pc' # "exited"
    BY <1>7, ServeEffect DEF WriteToGone, Eof, ReadFails, TypeOK
  <2>3. Connected' \subseteq Connected \ {c}
    <3>1. \A e \in Clients : client'[e] = client[e] \/ client'[e] \in {"closed", "reset"}
      BY <1>7 DEF WriteToGone, Eof, ReadFails, TypeOK
    <3> QED BY <2>1, <3>1 DEF Connected
  <2>4. (UNCHANGED <<users, allFds>>) \/ Remove(users[index])
    BY <1>7 DEF WriteToGone, Eof, ReadFails
  <2>5. users[index] # NoFd
    BY <2>1 DEF SnapshotHolds, Chosen
  <2>6. ClientsKept'
    <3>1. CASE UNCHANGED <<users, allFds>>
      BY <2>1, <2>3, <3>1, SameTable
    <3>2. CASE Remove(users[index])
      BY <2>1, <2>3, <2>5, <3>2, RemoveKeeps
    <3> QED BY <2>4, <3>1, <3>2
  <2> QED BY <1>1, <2>1, <2>2, <2>6
<1>8. CASE UNCHANGED vars
  BY <1>1, <1>3, <1>8 DEF vars
<1> QED BY <1>2, <1>4, <1>5, <1>6, <1>7, <1>8, AcceptKeeps DEF Next, Server, Quiet

-----------------------------------------------------------------------------
(* Every reachable state satisfies the invariant of the chat server: its   *)
(* types; clients and entries of users[] have descriptors of their own;    *)
(* the entries that the loop has still to serve have something to read;    *)
(* and what is under way of each client is bounded by what it does next.   *)
THEOREM ChatInvariantCorrect == Spec => []ChatInv
BY InvInit, InvNext, PTL DEF Spec

(* Whatever clients do between select() and the calls that rest on what it *)
(* returned, no read() of the loop waits for bytes, and what a client and  *)
(* the server have under way between them never exceeds two buffers, so    *)
(* that no write() of the loop waits for room.                             *)
THEOREM OnlySelectCorrect == Spec => []OnlySelectBlocks
<1>1. ChatInv => OnlySelectBlocks
  <2> SUFFICES ASSUME ChatInv PROVE OnlySelectBlocks
    OBVIOUS
  <2>1. pc = "read" => Readable(users[index])
    BY DEF ChatInv, SnapshotHolds, HasInput, Readable
  <2>2. ASSUME NEW c \in Clients PROVE InFlight(c) =< 2 * BufSize
    <3>1. unread[c] \in Nat /\ echoed[c] \in Nat /\ Held(c) \in Nat
      BY DEF ChatInv, TypeOK, Held
    <3>2. unread[c] + Held(c) + echoed[c] =< 2 * BufSize
      BY DEF ChatInv, Exchange
    <3>3. InFlight(c) = unread[c] + echoed[c] + Held(c)
      BY DEF InFlight, Held
    <3> QED BY <3>1, <3>2, <3>3, Sizes
  <2> QED BY <2>1, <2>2 DEF OnlySelectBlocks
<1> QED BY <1>1, ChatInvariantCorrect, PTL

LEMMA KeptAlways == Spec => [](ClientsKept /\ SpentInv)
<1>1. Init => ChatInv /\ ClientsKept /\ SpentInv
  BY InvInit, KeptInit
<1>2. ChatInv /\ ClientsKept /\ SpentInv /\ [Next]_vars => (ChatInv /\ ClientsKept /\ SpentInv)'
  BY InvNext, KeptNext DEF ChatInv
<1> QED BY <1>1, <1>2, PTL DEF Spec

(* The loop over users[], with entries and descriptors used again and a    *)
(* full table, never drops a client that is connected: select() goes on to *)
(* watch it and the listening socket, and its entry is there.              *)
THEOREM ClientsKeptCorrect == Spec => []ClientsKept
BY KeptAlways, PTL

(* The server, which closes no descriptor, exits only after it has given   *)
(* every one it can have to a client of its own.                           *)
THEOREM ExitCorrect == Spec => []ExitsWhenSpent
<1>1. SpentInv => ExitsWhenSpent
  BY DEF SpentInv
<1> QED BY <1>1, KeptAlways, PTL
=============================================================================
