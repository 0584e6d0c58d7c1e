----------------------------- MODULE ChatServer ------------------------------
(***************************************************************************)
(* The chat server and client of src/Tutorial-Labs/lab11.  The server is   *)
(* one process that waits with select() on its listening socket and on the *)
(* sockets of its clients and echoes what a client sends; what its loop    *)
(* does rests on the snapshot select() left, while clients go on           *)
(* connecting, writing and closing.  A client sends a name, and then a     *)
(* message for each answer it reads.                                       *)
(***************************************************************************)
EXTENDS Integers, FiniteSets

CONSTANTS Clients,
          MaxConnections, \* MAX_CONNECTIONS, entries of users[]
          BufSize,        \* BUF_SIZE, the most bytes of a message and of a read()
          MaxFd,          \* the highest descriptor the server may have
          MaxMessages,    \* bound: messages of each client, its name included
          NulClients      \* clients whose input may hold NUL bytes

ASSUME ClientsAssumption == IsFiniteSet(Clients)
ASSUME SizesAssumption ==
  MaxConnections \in Nat \ {0} /\ BufSize \in Nat \ {0}
ASSUME MessagesAssumption == MaxMessages \in [Clients -> Nat]
ASSUME MaxFdAssumption == MaxFd \in Nat /\ MaxFd > 3

Listen   == 3                        \* sock_fd; 0 to 2 are the standard streams
NoFd     == -1
NoSocket == -2                       \* a client without a socket at the server
Fds      == 0 .. MaxFd
Indices  == 0 .. MaxConnections - 1

VARIABLES
  pc,        \* "select", "accept", "read" and "write" in the loop over users[], "exited"
  index,     \* the entry of users[] the loop is at
  readFds,   \* read_fds, what select() returned
  allFds,    \* all_fds
  maxFd,     \* max_fd
  users,     \* sock_fd of each entry of users[]
  open,      \* descriptors the server has open
  held,      \* num_read, between the read() and the write() of an echo
  client,    \* per client: "new"; "send", "recv" (what it does next); "closed", "reset" (gone)
  left,      \* per client: messages it may still send
  socket,    \* per client: the server's descriptor for it
  unread,    \* per client: bytes it sent that the server has not read
  echoed     \* per client: bytes the server sent that it has not read

tableVars  == <<allFds, maxFd, users, open>>
serverVars == <<pc, index, readFds, held, tableVars, socket>>
clientVars == <<client, left>>
vars == <<serverVars, clientVars, unread, echoed>>

Connected == {c \in Clients : client[c] \in {"send", "recv"}}

-----------------------------------------------------------------------------
(* The clients.                                                            *)

Connect(c) ==
  /\ client[c] = "new" /\ pc # "exited"
  /\ client' = [client EXCEPT ![c] = "send"]
  /\ UNCHANGED <<serverVars, left, unread, echoed>>

(* A message of any length that fits the client's read of its input.  The  *)
(* first one is the name, whose echo the client does not wait for.         *)
SendMessage(c) ==
  /\ client[c] = "send" /\ left[c] > 0 /\ pc # "exited"
  /\ \E n \in 1 .. BufSize : unread' = [unread EXCEPT ![c] = @ + n]
  /\ left' = [left EXCEPT ![c] = @ - 1]
  /\ client' = [client EXCEPT ![c] = IF left[c] = MaxMessages[c] THEN "send" ELSE "recv"]
  /\ UNCHANGED <<serverVars, echoed>>

ClientRoom == 2 * BufSize + 2 - 1

(* One read of all that has come back, up to the size of the client's own  *)
(* buffer, of which one byte is kept for the end of the string.            *)
Receive(c) ==
  /\ client[c] = "recv" /\ echoed[c] > 0
  /\ echoed' = [echoed EXCEPT ![c] = IF @ > ClientRoom THEN @ - ClientRoom ELSE 0]
  /\ client' = [client EXCEPT ![c] = "send"]
  /\ UNCHANGED <<serverVars, left, unread>>

(* The end of the client's input, or of the client.  A socket closed with  *)
(* bytes left to read resets the connection, and what the server has not   *)
(* read of it is lost.                                                     *)
Leave(c) ==
  /\ c \in Connected
  /\ IF echoed[c] = 0
       THEN client' = [client EXCEPT ![c] = "closed"] /\ UNCHANGED unread
       ELSE client' = [client EXCEPT ![c] = "reset"] /\ unread' = [unread EXCEPT ![c] = 0]
  /\ echoed' = [echoed EXCEPT ![c] = 0]
  /\ UNCHANGED <<serverVars, left>>

-----------------------------------------------------------------------------
(* The server.                                                             *)

Waiting == {c \in Clients : client[c] # "new" /\ socket[c] = NoSocket}

Readable(fd) ==
  \/ fd = Listen /\ Waiting # {}
  \/ \E c \in Clients : socket[c] = fd /\ (unread[c] > 0 \/ c \notin Connected)

Asked == {fd \in allFds : 0 =< fd /\ fd =< maxFd}

SelectInPlace ==                         \* mutant: select() is given all_fds itself
  /\ pc = "select"
  /\ readFds' = {fd \in Asked : Readable(fd)} /\ readFds' # {}
  /\ allFds' = readFds'
  /\ pc' = "accept"
  /\ UNCHANGED <<index, held, maxFd, users, open, socket, clientVars, unread, echoed>>

(* select() looks at the descriptors up to max_fd of a copy of the set and *)
(* returns when one of them is readable.                                   *)
Select ==
  /\ pc = "select"
  /\ readFds' = {fd \in Asked : Readable(fd)} /\ readFds' # {}
  /\ pc' = "accept"
  /\ UNCHANGED <<index, held, tableVars, socket, clientVars, unread, echoed>>

FreeEntries == {i \in Indices : users[i] = NoFd}
FreeFds     == Fds \ open
Lowest(S)   == CHOOSE i \in S : \A j \in S : i =< j

ChosenUnasked(fd) == fd # NoFd          \* mutant: FD_ISSET is not tested
Chosen(fd) == fd # NoFd /\ fd \in readFds

(* The loop over users[] goes on from entry n to the next it has to read.  *)
Serve(n) ==
  LET todo == {i \in Indices : n =< i /\ Chosen(users'[i])} IN
  IF todo = {} THEN pc' = "select" /\ index' = 0
               ELSE pc' = "read" /\ index' = Lowest(todo)

NoConnection ==
  /\ pc = "accept" /\ Listen \notin readFds
  /\ UNCHANGED <<held, readFds, tableVars, socket, clientVars, unread, echoed>>
  /\ Serve(0)

MaxFdNotRaised(fd) == maxFd              \* mutant: max_fd is not updated
MaxFdWith(fd) == IF fd > maxFd THEN fd ELSE maxFd

AcceptStream ==                          \* mutant: a second descriptor, for a stream
  /\ pc = "accept" /\ Listen \in readFds /\ FreeEntries # {} /\ FreeFds # {}
  /\ \E c \in Waiting, fd \in {Lowest(FreeFds)} :
       /\ users' = [users EXCEPT ![Lowest(FreeEntries)] = fd]
       /\ socket' = [socket EXCEPT ![c] = fd]
       /\ \E dup \in FreeFds : open' = open \cup {fd, dup}
       /\ maxFd' = MaxFdWith(fd)
       /\ allFds' = allFds \cup {fd}
  /\ Serve(0)
  /\ UNCHANGED <<held, readFds, clientVars, unread, echoed>>

(* accept_connection takes a waiting client into the first free entry.     *)
AcceptConnection ==
  /\ pc = "accept" /\ Listen \in readFds /\ FreeEntries # {} /\ FreeFds # {}
  /\ \E c \in Waiting, fd \in {Lowest(FreeFds)} :
       /\ users' = [users EXCEPT ![Lowest(FreeEntries)] = fd]
       /\ socket' = [socket EXCEPT ![c] = fd]
       /\ open' = open \cup {fd}
       /\ maxFd' = MaxFdWith(fd)
       /\ allFds' = allFds \cup {fd}
  /\ Serve(0)
  /\ UNCHANGED <<held, readFds, clientVars, unread, echoed>>

(* No free entry: -1 comes back, is no greater than max_fd, and goes to    *)
(* FD_SET, which is undefined for it; the build sets a bit that belongs to *)
(* no descriptor here.  The client goes on waiting.                        *)
TableFull ==
  /\ pc = "accept" /\ Listen \in readFds /\ FreeEntries = {}
  /\ allFds' = allFds \cup {NoFd}
  /\ UNCHANGED <<held, readFds, maxFd, users, open, socket, clientVars, unread, echoed>>
  /\ Serve(0)

(* accept() fails for want of a descriptor: the server exits.              *)
AcceptFails ==
  /\ pc = "accept" /\ Listen \in readFds /\ FreeEntries # {} /\ FreeFds = {}
  /\ pc' = "exited" /\ open' = {}
  /\ UNCHANGED <<index, held, readFds, allFds, maxFd, users, socket, clientVars, unread, echoed>>

(* read_from gives the entry up, and main clears the descriptor's bit.     *)
Remove(fd) ==
  /\ users' = [users EXCEPT ![index] = NoFd]
  /\ allFds' = allFds \ {fd}

Serving(c) == socket[c] = users[index]

Taken(c) == IF unread[c] > BufSize THEN BufSize ELSE unread[c]

Read(c) ==
  /\ pc = "read" /\ Serving(c) /\ unread[c] > 0
  /\ held' = Taken(c)
  /\ unread' = [unread EXCEPT ![c] = @ - Taken(c)]
  /\ pc' = "write"
  /\ UNCHANGED <<index, readFds, tableVars, socket, clientVars, echoed>>

WriteOfBuffer(c) ==                      \* mutant: sizeof for strlen in the test of write()
  /\ pc = "write" /\ Serving(c) /\ c \in Connected
  /\ echoed' = [echoed EXCEPT ![c] = @ + held]
  /\ held' = 0
  /\ IF held < BufSize THEN Remove(users[index]) ELSE UNCHANGED <<users, allFds>>
  /\ UNCHANGED <<readFds, maxFd, open, socket, clientVars, unread>>
  /\ Serve(index + 1)

(* The bytes of an echo: strlen() of what was read, so that it ends at a   *)
(* NUL, which may be the first byte.                                       *)
EchoBytes(c) == IF c \in NulClients THEN 0 .. held ELSE {held}

Write(c) ==
  /\ pc = "write" /\ Serving(c) /\ c \in Connected
  /\ \E n \in EchoBytes(c) : echoed' = [echoed EXCEPT ![c] = @ + n]
  /\ held' = 0
  /\ UNCHANGED <<readFds, tableVars, socket, clientVars, unread>>
  /\ Serve(index + 1)

(* The first write to a client that has closed succeeds and resets the     *)
(* connection; one to a connection that was reset fails.  Of no bytes it   *)
(* resets nothing, and may succeed.                                        *)
WriteToGone(c) ==
  /\ pc = "write" /\ Serving(c) /\ c \notin Connected
  /\ \/ /\ client[c] = "closed"
        /\ client' = [client EXCEPT ![c] = "reset"]
        /\ unread' = [unread EXCEPT ![c] = 0]
        /\ UNCHANGED <<users, allFds>>
     \/ client[c] = "reset" /\ Remove(users[index]) /\ UNCHANGED <<client, unread>>
     \/ 0 \in EchoBytes(c) /\ UNCHANGED <<client, unread, users, allFds>>
  /\ held' = 0
  /\ UNCHANGED <<readFds, maxFd, open, socket, left, echoed>>
  /\ Serve(index + 1)

Eof(c) ==
  /\ pc = "read" /\ Serving(c) /\ unread[c] = 0 /\ client[c] = "closed"
  /\ Remove(users[index])
  /\ UNCHANGED <<held, readFds, maxFd, open, socket, clientVars, unread, echoed>>
  /\ Serve(index + 1)

(* read() returns -1, which is not tested: buf[-1] is cleared, and what is *)
(* written is what the stack held.  The write fails, or there is nothing   *)
(* to write, and then the next read is the end of file.                    *)
ReadFails(c) ==
  /\ pc = "read" /\ Serving(c) /\ client[c] = "reset"
  /\ \/ Remove(users[index]) /\ UNCHANGED client
     \/ client' = [client EXCEPT ![c] = "closed"] /\ UNCHANGED <<users, allFds>>
  /\ UNCHANGED <<held, readFds, maxFd, open, socket, left, unread, echoed>>
  /\ Serve(index + 1)

-----------------------------------------------------------------------------
Init ==
  /\ pc = "select" /\ index = 0 /\ readFds = {} /\ held = 0
  /\ allFds = {Listen} /\ maxFd = Listen /\ open = 0 .. Listen
  /\ users = [i \in Indices |-> NoFd]
  /\ client = [c \in Clients |-> "new"]
  /\ left = MaxMessages
  /\ socket = [c \in Clients |-> NoSocket]
  /\ unread = [c \in Clients |-> 0]
  /\ echoed = [c \in Clients |-> 0]

Server ==
  \/ Select \/ NoConnection \/ AcceptConnection \/ TableFull \/ AcceptFails
  \/ \E c \in Clients : Read(c) \/ Write(c) \/ WriteToGone(c) \/ Eof(c) \/ ReadFails(c)
Client(c) == Connect(c) \/ SendMessage(c) \/ Receive(c) \/ Leave(c)

(* No client is left, and the server waits or has exited.                  *)
Quiet ==
  /\ pc = "exited" \/ (pc = "select" /\ \A fd \in Asked : ~Readable(fd))
  /\ \A c \in Clients : client[c] \in {"closed", "reset"} \/ pc = "exited"
  /\ UNCHANGED vars

Next == Server \/ (\E c \in Clients : Client(c)) \/ Quiet

Spec == Init /\ [][Next]_vars

(* The server runs, and a client whose answer is there reads it; nobody    *)
(* has to connect, to write or to leave.                                   *)
FairSpec == Spec /\ WF_vars(Server) /\ \A c \in Clients : WF_vars(Receive(c))

-----------------------------------------------------------------------------
(* Nothing blocks the loop but select().  A read never does: whatever the   *)
(* clients have done since select() returned, there are bytes to read or    *)
(* the end of the connection.  Nor a write: what is on its way to the       *)
(* server and back never exceeds two buffers, as a client may answer a      *)
(* short echo with a full message, but a short echo leaves nothing unread   *)
(* behind it.                                                               *)
InFlight(c) == unread[c] + echoed[c] + IF pc = "write" /\ Serving(c) THEN held ELSE 0
OnlySelectBlocks ==
  /\ pc = "read" => Readable(users[index])
  /\ \A c \in Clients : InFlight(c) =< 2 * BufSize

(* The loop loses nobody: whoever else came, was turned away or left, and  *)
(* whatever entries and numbers were used again, select() watches the      *)
(* listening socket and that of every client accepted and not gone, and    *)
(* the client has its entry of users[].                                    *)
ClientsKept ==
  /\ Listen \in Asked
  /\ \A c \in Connected : socket[c] # NoSocket =>
       socket[c] \in Asked /\ \E i \in Indices : users[i] = socket[c]

(* Descriptors are never closed, so that the server ends; but a client     *)
(* costs it one and one that meets a full table none, so that it does not  *)
(* end before it has served as many clients as it can have descriptors.    *)
ExitsWhenSpent ==
  pc = "exited" => {socket[c] : c \in Clients} \ {NoSocket} = Listen + 1 .. MaxFd

(* A client that the server has accepted and that sends no NUL gets its    *)
(* answer, whoever else connects, writes, leaves or waits for an answer    *)
(* that never comes, and with a full table as well.                        *)
MessagesAnswered ==
  \A c \in Clients \ NulClients :
    client[c] = "recv" /\ socket[c] # NoSocket ~> (client[c] # "recv" \/ pc = "exited")

(* The clients that wait are all accepted, unless no entry becomes free    *)
(* again.  A client connects once, so that each of them is.                *)
WaitingAccepted ==
  []<>(FreeEntries # {}) => (Waiting # {} ~> (Waiting = {} \/ pc = "exited"))
=============================================================================
