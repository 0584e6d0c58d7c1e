----------------------------- MODULE LineServer ------------------------------
(***************************************************************************)
(* The line server of src/Tutorial-Labs/lab10 (bufserver.c) with clients   *)
(* of the kind of randclient.c.  A client writes a message a number of     *)
(* times, in pieces; TCP delivers bytes, not pieces; the server gathers    *)
(* them in a buffer of fixed size and prints every line that ends in       *)
(* "\r\n".  It serves one client at a time, the others wait in the queue   *)
(* of the listening socket.                                                *)
(***************************************************************************)
EXTENDS Integers, Sequences, FiniteSets, FiniteSetsExt

CONSTANTS Clients,
          Message,            \* MESSAGE of each client's randclient.c, a sequence of characters
          Times,              \* TIMES
          MinChars, MaxChars, \* MINCHARS, MAXCHARS: sizes of the pieces
          BufSize,            \* BUFSIZE of bufserver.c
          Backlog             \* num_queue

ASSUME ClientsAssumption == IsFiniteSet(Clients)
ASSUME MessageAssumption == \A c \in Clients : Len(Message[c]) \in Nat \ {0}
ASSUME SizesAssumption ==
  Times \in Nat /\ MinChars \in Nat \ {0} /\ MaxChars \in Nat /\ MinChars =< MaxChars
  /\ BufSize \in Nat \ {0} /\ Backlog \in Nat \ {0}

CR  == "cr"
LF  == "lf"
NUL == "nul"

Total(c)  == Times * Len(Message[c])
Stream(c) == [i \in 1 .. Total(c) |-> Message[c][((i - 1) % Len(Message[c])) + 1]]

NoClient == "nobody"

VARIABLES
  step,     \* the server: in accept(), in read(), or in the loop over the lines
  clientfd, \* the client it serves
  buf,      \* buf[], its bytes beyond inbuf included
  inbuf,    \* bytes of it in use
  conn,     \* per client, at the server: "none", "queued", "open", "closed"
  client,   \* per client: "new", "writing", "done", or "killed" by SIGPIPE
  sent,     \* current_byte of write_random_pieces
  wire,     \* bytes on their way from each client
  printed   \* history: the lines the server printed for each client

serverVars == <<step, clientfd, buf, inbuf, printed>>
lineVars == <<serverVars, conn, client, sent, wire>>

Index == 0 .. BufSize - 1

-----------------------------------------------------------------------------
(* The clients.                                                            *)

(* connect() waits for room in the queue of the listening socket.          *)
Connect(c) ==
  /\ client[c] = "new"
  /\ Cardinality({k \in Clients : conn[k] = "queued"}) < Backlog
  /\ client' = [client EXCEPT ![c] = "writing"]
  /\ conn' = [conn EXCEPT ![c] = "queued"]
  /\ UNCHANGED <<serverVars, sent, wire>>

(* The size of the next piece, a random one but for the last.              *)
PieceSize(c, size) == IF size > Total(c) - sent[c] THEN Total(c) - sent[c] ELSE size

WritePiece(c) ==
  /\ client[c] = "writing" /\ sent[c] < Total(c)
  /\ \E size \in MinChars .. MaxChars :
       LET n == PieceSize(c, size) IN
       /\ sent' = [sent EXCEPT ![c] = @ + n]
       /\ wire' = IF conn[c] = "closed" THEN wire
                  ELSE [wire EXCEPT ![c] = @ \o SubSeq(Stream(c), sent[c] + 1, sent[c] + n)]
  /\ UNCHANGED <<serverVars, conn, client>>

(* A write after the server's reset raises SIGPIPE.                        *)
SigPipe(c) ==
  /\ client[c] = "writing" /\ sent[c] < Total(c) /\ conn[c] = "closed"
  /\ client' = [client EXCEPT ![c] = "killed"]
  /\ UNCHANGED <<serverVars, conn, sent, wire>>

CloseClient(c) ==
  /\ client[c] = "writing" /\ sent[c] = Total(c)
  /\ client' = [client EXCEPT ![c] = "done"]
  /\ UNCHANGED <<serverVars, conn, sent, wire>>

-----------------------------------------------------------------------------
(* The server.                                                             *)

Accept(c) ==
  /\ step = "accept" /\ conn[c] = "queued"
  /\ step' = "read" /\ clientfd' = c
  /\ buf' = [i \in Index |-> NUL] /\ inbuf' = 0
  /\ conn' = [conn EXCEPT ![c] = "open"]
  /\ UNCHANGED <<client, sent, wire, printed>>

RoomForNul(n) == BufSize - 1 - n       \* mutant: a byte is kept for '\0'
Room(n) == BufSize - n

(* buf with the bytes s from position i on.                                *)
Put(i, s) == [j \in Index |-> IF i =< j /\ j < i + Len(s) THEN s[j - i + 1] ELSE buf[j]]

(* read() returns some of the bytes that have arrived.                     *)
Read ==
  /\ step = "read"
  /\ \E n \in 1 .. Room(inbuf) :
       /\ n =< Len(wire[clientfd])
       /\ buf' = Put(inbuf, SubSeq(wire[clientfd], 1, n))
       /\ inbuf' = inbuf + n
       /\ wire' = [wire EXCEPT ![clientfd] = SubSeq(@, n + 1, Len(@))]
  /\ step' = "scan"
  /\ UNCHANGED <<clientfd, conn, client, sent, printed>>

(* read() returns 0: at end of file, and when it is asked for no bytes.    *)
ReadsNothing ==
  \/ Room(inbuf) = 0
  \/ wire[clientfd] = <<>> /\ client[clientfd] \in {"done", "killed"}

ReadAgain ==                           \* mutant: >= 0 for > 0
  /\ step = "read" /\ ReadsNothing
  /\ UNCHANGED lineVars

CloseConnection ==
  /\ step = "read" /\ ReadsNothing
  /\ step' = "accept" /\ clientfd' = NoClient
  /\ conn' = [conn EXCEPT ![clientfd] = "closed"]
  /\ wire' = [wire EXCEPT ![clientfd] = <<>>]
  /\ UNCHANGED <<buf, inbuf, client, sent, printed>>

(* find_network_newline: one past the first "\r\n" in n bytes, or -1.      *)
FindNetworkNewline(n) ==
  LET found == {i \in 0 .. n - 2 : buf[i] = CR /\ buf[i + 1] = LF}
  IN IF found = {} THEN -1 ELSE Min(found) + 2

(* A full line is printed, its '\0' in place of '\r', and the rest of the  *)
(* data moved to the front.                                                *)
TakeLine ==
  LET where == FindNetworkNewline(inbuf)
      leftover == inbuf - where
  IN
  /\ where > 0
  /\ printed' = [printed EXCEPT ![clientfd] = Append(@, [i \in 1 .. where - 2 |-> buf[i - 1]])]
  /\ buf' = [j \in Index |-> IF j < leftover THEN buf[where + j]
                             ELSE IF j = where - 2 THEN NUL ELSE buf[j]]
  /\ inbuf' = leftover

PrintOneLine ==                        \* mutant: if for while
  /\ step = "scan" /\ TakeLine
  /\ step' = "read"
  /\ UNCHANGED <<clientfd, conn, client, sent, wire>>

PrintLine ==
  /\ step = "scan" /\ TakeLine
  /\ UNCHANGED <<step, clientfd, conn, client, sent, wire>>

ReadMore ==
  /\ step = "scan" /\ FindNetworkNewline(inbuf) =< 0
  /\ step' = "read"
  /\ UNCHANGED <<clientfd, buf, inbuf, conn, client, sent, wire, printed>>

-----------------------------------------------------------------------------
LineInit ==
  /\ step = "accept" /\ clientfd = NoClient /\ inbuf = 0
  /\ buf = [i \in Index |-> NUL]
  /\ conn = [c \in Clients |-> "none"]
  /\ client = [c \in Clients |-> "new"]
  /\ sent = [c \in Clients |-> 0]
  /\ wire = [c \in Clients |-> <<>>]
  /\ printed = [c \in Clients |-> <<>>]

Server == (\E c \in Clients : Accept(c)) \/ Read \/ CloseConnection \/ PrintLine \/ ReadMore
Client(c) == Connect(c) \/ WritePiece(c) \/ SigPipe(c) \/ CloseClient(c)

(* All clients have come and gone; the server waits for another.           *)
Quiet ==
  /\ step = "accept" /\ \A c \in Clients : client[c] \in {"done", "killed"} /\ conn[c] = "closed"
  /\ UNCHANGED lineVars

LineNext == Server \/ (\E c \in Clients : Client(c)) \/ Quiet

LineSpec == LineInit /\ [][LineNext]_lineVars

(* The server runs, and a client that has begun writes on and closes; a    *)
(* client need not come.                                                   *)
FairLineSpec ==
  /\ LineSpec /\ WF_lineVars(Server)
  /\ \A c \in Clients : WF_lineVars(WritePiece(c) \/ SigPipe(c) \/ CloseClient(c))

-----------------------------------------------------------------------------
(* The lines of a sequence of bytes, by the places where its newlines end. *)
Ends(s) == {e \in 2 .. Len(s) : s[e - 1] = CR /\ s[e] = LF}
LineEnd(s, k) == CHOOSE e \in {d \in Ends(s) : Cardinality({n \in Ends(s) : n =< d}) = k} : TRUE
Lines(s)  == [k \in 1 .. Cardinality(Ends(s)) |->
                SubSeq(s, IF k = 1 THEN 1 ELSE LineEnd(s, k - 1) + 1, LineEnd(s, k) - 2)]

Received(c) == SubSeq(Stream(c), 1, sent[c] - Len(wire[c]))

(* No line of c, and not the rest after the last one, fills the buffer.    *)
LinesFit(c) ==
  \A i \in {0} \cup Ends(Stream(c)) :
    Total(c) - i < BufSize \/ \E e \in Ends(Stream(c)) : i < e /\ e =< i + BufSize

(* Before the server waits in read() it has printed exactly the lines that *)
(* have arrived, in order, however the bytes were cut: no line is held     *)
(* back, joined, split or made of bytes left from an earlier one or from   *)
(* an earlier client.                                                      *)
LinesPrinted == step = "read" => printed[clientfd] = Lines(Received(clientfd))

(* When a client's lines fit in the buffer, their newlines included, its    *)
(* connection is not closed before it has closed it and all are printed.   *)
ClosedAfterLastLine ==
  \A c \in Clients : LinesFit(c) =>
    (conn[c] = "closed" => client[c] = "done" /\ printed[c] = Lines(Stream(c)))

(* Every client that comes is served to its end, whatever the others send; *)
(* a line that fills the buffer does not hold up the next client.          *)
EveryClientServed == \A c \in Clients : client[c] = "writing" ~> conn[c] = "closed"
=============================================================================
