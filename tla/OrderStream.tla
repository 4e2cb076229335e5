----------------------------- MODULE OrderStream -----------------------------
(***************************************************************************)
(* order_handler::handle, which cuts the bytes of TCP connections into      *)
(* order structs.  matching_tcp_service gives one handler the bytes of all  *)
(* its connections, and no handler is told when a connection breaks.  A     *)
(* byte is known by who sent it and by its place in that client's stream.   *)
(***************************************************************************)
EXTENDS Naturals, Sequences

CONSTANTS
  Clients,     \* the connections of the service
  Size,        \* sizeof(order)
  MaxMessages  \* bound: structs each client sends

ASSUME SizeAssumption == Size \in Nat \ {0}
ASSUME MessagesAssumption == MaxMessages \in Nat

VARIABLES
  got,        \* the bytes read from each client's stream
  buff,       \* the first rest_ bytes of buff_
  chunk,      \* what handle still has to look at: size bytes from ptr
  hpc,        \* where handle is: "idle", "fill" (rest_ # 0), "whole"
  delivered,  \* the structs passed to h_
  arrived,    \* history: all bytes given to handle, in their order
  interrupted \* history: in the middle of a struct bytes of another connection
              \* came, or the connection broke

streamVars == <<got, buff, chunk, hpc, delivered, arrived, interrupted>>

Byte(c, k) == [from |-> c, at |-> k]

StreamInit ==
  /\ got = [c \in Clients |-> 0]
  /\ buff = <<>>
  /\ chunk = <<>>
  /\ hpc = "idle"
  /\ delivered = <<>>
  /\ arrived = <<>>
  /\ interrupted = FALSE

\* Mistake: the bytes stay in the stream and are read again.
RecvAgain(c, n) ==
  /\ hpc = "idle"
  /\ got[c] + n <= MaxMessages * Size
  /\ chunk' = [k \in 1 .. n |-> Byte(c, got[c] + k)]
  /\ arrived' = arrived \o chunk'
  /\ hpc' = IF buff # <<>> THEN "fill" ELSE "whole"
  /\ interrupted' = (interrupted \/ (buff # <<>> /\ Head(buff).from # c))
  /\ UNCHANGED <<got, buff, delivered>>

\* recv returns n bytes of client c, and on_msg hands them to the one handler.
Recv(c, n) ==
  /\ hpc = "idle"
  /\ got[c] + n <= MaxMessages * Size
  /\ chunk' = [k \in 1 .. n |-> Byte(c, got[c] + k)]
  /\ arrived' = arrived \o chunk'
  /\ got' = [got EXCEPT ![c] = @ + n]
  /\ hpc' = IF buff # <<>> THEN "fill" ELSE "whole"
  /\ interrupted' = (interrupted \/ (buff # <<>> /\ Head(buff).from # c))
  /\ UNCHANGED <<buff, delivered>>

\* Mistake: the bytes that complete a struct are looked at again.
AdvanceNone(n) == chunk' = chunk

\* ptr += n, size -= n
Advance(n) == chunk' = SubSeq(chunk, n + 1, Len(chunk))

Deliver(bytes) == delivered' = Append(delivered, bytes)

\* The chunk is copied behind what is there; a struct that is complete goes out.
FillBuff ==
  /\ hpc = "fill"
  /\ LET need == Size - Len(buff)
     IN \/ /\ Len(chunk) < need
           /\ buff' = buff \o chunk
           /\ chunk' = <<>>
           /\ hpc' = "idle"
           /\ UNCHANGED delivered
        \/ /\ Len(chunk) >= need
           /\ Deliver(buff \o SubSeq(chunk, 1, need))
           /\ Advance(need)
           /\ buff' = <<>>
           /\ hpc' = "whole"
  /\ UNCHANGED <<got, arrived, interrupted>>

\* Whole structs are passed on where they are.
DeliverWhole ==
  /\ hpc = "whole"
  /\ Len(chunk) >= Size
  /\ Deliver(SubSeq(chunk, 1, Size))
  /\ Advance(Size)
  /\ UNCHANGED <<got, buff, hpc, arrived, interrupted>>

SaveRest ==
  /\ hpc = "whole"
  /\ Len(chunk) < Size
  /\ buff' = chunk
  /\ chunk' = <<>>
  /\ hpc' = "idle"
  /\ UNCHANGED <<got, delivered, arrived, interrupted>>

\* The connection of c breaks: tcp_client::close drops what it had not sent, and
\* the next connection starts with a whole struct.  buff_ stays as it is.
Break(c) ==
  /\ hpc = "idle"
  /\ got[c] < MaxMessages * Size
  /\ got' = [got EXCEPT ![c] = ((@ + Size - 1) \div Size) * Size]
  /\ interrupted' = (interrupted \/ (buff # <<>> /\ Head(buff).from = c))
  /\ UNCHANGED <<buff, chunk, hpc, delivered, arrived>>

\* The connection breaks inside tcp_client::send: close has dropped the buffer,
\* then the tail of the struct that ::send had not taken is put in it and goes
\* out first on the next connection.  Bytes ::send took may not have arrived.
BreakInSend(c, taken) ==
  /\ hpc = "idle"
  /\ got[c] < taken
  /\ taken \div Size = got[c] \div Size
  /\ got' = [got EXCEPT ![c] = taken]
  /\ interrupted' = TRUE
  /\ UNCHANGED <<buff, chunk, hpc, delivered, arrived>>

StreamNext ==
  \/ \E c \in Clients : Break(c)
  \/ \E c \in Clients, n \in 1 .. MaxMessages * Size : Recv(c, n) \/ BreakInSend(c, n)
  \/ FillBuff \/ DeliverWhole \/ SaveRest

StreamSpec == StreamInit /\ [][StreamNext]_streamVars

-----------------------------------------------------------------------------
(* Properties.                                                             *)

\* Struct m of client c, counted from 0.
Message(c, m) == [k \in 1 .. Size |-> Byte(c, m * Size + k)]

\* Whatever the chunks, what goes to the engine is the arriving bytes in pieces
\* of sizeof(order): none is lost, doubled or moved, also when it is not a struct
\* any client sent.
ChopsArrivals ==
  /\ \A i \in DOMAIN delivered :
       delivered[i] = SubSeq(arrived, (i - 1) * Size + 1, i * Size)
  /\ buff \o chunk = SubSeq(arrived, Len(delivered) * Size + 1, Len(arrived))
  /\ hpc = "idle" => Len(buff) < Size /\ chunk = <<>>

\* As long as no struct is interrupted, the engine gets from each client the
\* structs it sent, all of them, once and in their order, however they were split.
StructsIntact ==
  ~interrupted /\ hpc = "idle" =>
    /\ \A c \in Clients : \A m \in 0 .. (got[c] \div Size) - 1 :
         \E i \in DOMAIN delivered : delivered[i] = Message(c, m)
    /\ \A i \in DOMAIN delivered : \E c \in Clients :
         \E m \in 0 .. (got[c] \div Size) - 1 :
           /\ delivered[i] = Message(c, m)
           /\ \A j \in 1 .. i - 1 : \A l \in m .. got[c] \div Size : delivered[j] # Message(c, l)
=============================================================================
