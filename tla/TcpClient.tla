------------------------------- MODULE TcpClient -------------------------------
(***************************************************************************)
(* The connecting side of the TCP transport: net::tcp_client with its send *)
(* buffer, and matching_tcp_client, which puts a locked queue in front of  *)
(* it.  The application thread pushes orders; the network thread calls     *)
(* run() forever, which serves the connection and then hands the queued    *)
(* orders to tcp_client::send.                                             *)
(*                                                                         *)
(* The bytes handed to tcp_client::send are numbered from 1; every order   *)
(* has OrderLen of them, so that byte n is the first of an order when      *)
(* n - 1 is a multiple of OrderLen.  The socket calls are external: each   *)
(* ::send loop accepts any number of bytes and ends with all of them       *)
(* taken, with EAGAIN or with an error; a connect is refused at once, in   *)
(* progress, or done.                                                      *)
(***************************************************************************)
EXTENDS Integers, Sequences, SequencesExt

CONSTANTS
  OrderLen,    \* Bytes of an order.
  MaxOrders,   \* Bound: orders the application pushes.
  MaxFaults,   \* Bound: errors of the network.
  MaxFds       \* File descriptors the process may open.

ASSUME TcpClientAssumption ==
  /\ OrderLen \in Nat \ {0} /\ MaxFds \in Nat \ {0}
  /\ MaxOrders \in Nat /\ MaxFaults \in Nat

VARIABLES
  sta,      \* _sta.
  buffer,   \* _buffer: nodes [data, snd].
  q,        \* matching_tcp_client::q_: orders that wait (their number).
  pc,       \* The network thread: in c_.run() or in _send_odrs().
  fds,      \* Descriptors the process can still open.
  pushed,   \* Orders pushed so far.
  faults,   \* Network errors so far.
  handed,   \* History: bytes handed to tcp_client::send.
  stream,   \* History: the bytes the current connection's socket accepted.
  leaked,   \* History: descriptors that refused connects left open.
  torn      \* History: the last connection ended inside send().

vars == <<sta, buffer, q, pc, fds, pushed, faults, handed, stream, leaked, torn>>

-----------------------------------------------------------------------------

Node(bytes) == [data |-> bytes, snd |-> 0]

Unsent(node) == SubSeq(node.data, node.snd + 1, Len(node.data))

(* The bytes in the buffer that no socket has accepted, oldest first.       *)
Waiting == FlattenSeq([i \in DOMAIN buffer |-> Unsent(buffer[i])])

(* The buffer after the socket took n bytes more: finished nodes are popped *)
(* and the first one left remembers how far it got.                         *)
Taken(n) ==
  LET total == [i \in 0 .. Len(buffer) |->
                  Len(FlattenSeq([j \in 1 .. i |-> Unsent(buffer[j])]))]
      done  == CHOOSE i \in 0 .. Len(buffer) :
                 /\ total[i] <= n
                 /\ i < Len(buffer) => n < total[i + 1]
      rest  == SubSeq(buffer, done + 1, Len(buffer))
  IN  IF rest = << >> THEN rest
      ELSE [rest EXCEPT ![1].snd = @ + n - total[done]]

Init ==
  /\ sta = "CLOSED" /\ buffer = << >> /\ q = 0 /\ pc = "run"
  /\ fds = MaxFds /\ pushed = 0 /\ faults = 0
  /\ handed = 0 /\ stream = << >> /\ leaked = 0 /\ torn = FALSE

(* matching_tcp_client::send.  The mutex keeps it out of _send_odrs.        *)
Push ==
  /\ pc = "run"
  /\ pushed < MaxOrders
  /\ pushed' = pushed + 1
  /\ q' = q + 1
  /\ UNCHANGED <<sta, buffer, pc, fds, faults, handed, stream, leaked, torn>>

Fault == faults < MaxFaults /\ faults' = faults + 1

(* tcp_client::close in a state that has a socket, leaving rest buffered.   *)
(* Mutant: the socket is not closed.                                       *)
Close_NoFd(rest, inSend) ==
  /\ sta' = "CLOSED" /\ fds' = fds
  /\ buffer' = rest
  /\ stream' = << >> /\ torn' = inSend

Close(rest, inSend) ==
  /\ sta' = "CLOSED" /\ fds' = fds + 1
  /\ buffer' = rest
  /\ stream' = << >> /\ torn' = inSend

(* One call of c_.run(), after which the queue is flushed.                  *)
InCall == pc = "run" /\ pc' = "flush" /\ UNCHANGED <<q, pushed, handed>>

(* run() while CLOSED: _connect.  A refused connect calls close(), which    *)
(* does nothing in this state: the descriptor stays open.                   *)
NoSocket ==
  /\ InCall /\ sta = "CLOSED" /\ fds = 0
  /\ UNCHANGED <<sta, buffer, fds, faults, stream, leaked, torn>>

ConnectRefused ==
  /\ InCall /\ sta = "CLOSED" /\ fds > 0 /\ Fault
  /\ fds' = fds - 1
  /\ leaked' = leaked + 1
  /\ UNCHANGED <<sta, buffer, stream, torn>>

Connect ==
  /\ InCall /\ sta = "CLOSED" /\ fds > 0
  /\ fds' = fds - 1
  /\ sta' \in {"CONNECTING", "CONNECTED"}
  /\ UNCHANGED <<buffer, faults, stream, leaked, torn>>

(* run() while CONNECTING: _check_connect.                                  *)
ConnectPending ==
  /\ InCall /\ sta = "CONNECTING"
  /\ UNCHANGED <<sta, buffer, fds, faults, stream, leaked, torn>>

ConnectDone ==
  /\ InCall /\ sta = "CONNECTING"
  /\ sta' = "CONNECTED"
  /\ UNCHANGED <<buffer, fds, faults, stream, leaked, torn>>

ConnectFailed ==
  /\ InCall /\ sta = "CONNECTING" /\ Fault
  /\ Close(<< >>, FALSE)
  /\ UNCHANGED leaked

(* run() while CONNECTED: _do_send takes n of the waiting bytes, _do_recv   *)
(* finds the connection alive.                                              *)
Serve(n) ==
  /\ InCall /\ sta = "CONNECTED"
  /\ stream' = stream \o SubSeq(Waiting, 1, n)
  /\ buffer' = Taken(n)
  /\ UNCHANGED <<sta, fds, faults, leaked, torn>>

(* The same when _do_send or _do_recv meets an error or the end of the      *)
(* stream.  After an error of _do_send, _do_recv reads from descriptor 0    *)
(* and its close() does nothing.                                            *)
ServeFailed ==
  /\ InCall /\ sta = "CONNECTED" /\ Fault
  /\ Close(<< >>, FALSE)
  /\ UNCHANGED leaked

(* tcp_client::send: buffered, or accepted by the socket up to n bytes with *)
(* the tail buffered; on an error close() comes before the tail is stored.  *)
Mine == [i \in 1 .. OrderLen |-> handed + i]

Remainder(n) ==
  IF n = OrderLen THEN << >> ELSE << Node(SubSeq(Mine, n + 1, OrderLen)) >>

Buffered_Closed == sta # "CONNECTED"

Buffered == buffer # << >> \/ sta # "CONNECTED"

Popped == pc = "flush" /\ q > 0 /\ q' = q - 1 /\ handed' = handed + OrderLen

SendBuffered ==
  /\ Popped /\ Buffered
  /\ buffer' = Append(buffer, Node(Mine))
  /\ UNCHANGED <<sta, pc, fds, pushed, faults, stream, leaked, torn>>

SendDirect(n) ==
  /\ Popped /\ ~Buffered
  /\ stream' = stream \o SubSeq(Mine, 1, n)
  /\ buffer' = buffer \o Remainder(n)
  /\ UNCHANGED <<sta, pc, fds, pushed, faults, leaked, torn>>

SendFailed(n) ==
  /\ Popped /\ ~Buffered /\ n < OrderLen /\ Fault
  /\ Close(Remainder(n), n > 0)
  /\ UNCHANGED <<pc, pushed, leaked>>

(* _send_odrs has emptied the queue.                                        *)
Flushed ==
  /\ pc = "flush" /\ q = 0
  /\ pc' = "run"
  /\ UNCHANGED <<sta, buffer, q, fds, pushed, faults, handed, stream, leaked, torn>>

Next ==
  \/ Push
  \/ NoSocket
  \/ ConnectRefused
  \/ Connect
  \/ ConnectPending
  \/ ConnectDone
  \/ ConnectFailed
  \/ \E n \in 0 .. Len(Waiting) : Serve(n)
  \/ ServeFailed
  \/ SendBuffered
  \/ \E n \in 0 .. OrderLen : SendDirect(n)
  \/ \E n \in 0 .. OrderLen : SendFailed(n)
  \/ Flushed

Spec == Init /\ [][Next]_vars

(* The network thread never stops.  A peer that can be reached completes a  *)
(* connect and reads: among the run() calls some finish the connect, and    *)
(* some find room for what waits.                                           *)
ServeSome == Waiting # << >> /\ \E n \in 1 .. Len(Waiting) : Serve(n)

FairSpec ==
  /\ Spec
  /\ WF_vars(SendBuffered \/ Flushed
             \/ (\E n \in 0 .. OrderLen : SendDirect(n) \/ SendFailed(n)))
  /\ WF_vars(NoSocket \/ ConnectRefused \/ Connect \/ ConnectPending
             \/ ServeFailed \/ \E n \in 0 .. Len(Waiting) : Serve(n))
  /\ SF_vars(Connect)
  /\ SF_vars(ConnectDone)
  /\ SF_vars(ServeSome)
-----------------------------------------------------------------------------

(* Bytes are never skipped, repeated or reordered within a connection: what *)
(* the socket accepted since the connect, followed by what waits in         *)
(* _buffer, are consecutive bytes up to the last one handed to send().      *)
(* They start with the first byte of an order, unless the previous          *)
(* connection ended inside send() after part of an order was accepted: only *)
(* then does the tail pushed after close() make the peer's order_handler    *)
(* start in the middle of a struct.                                         *)
StreamHasNoGap ==
  LET all == stream \o Waiting
  IN  /\ all = [i \in 1 .. Len(all) |-> handed - Len(all) + i]
      /\ all # << >> /\ (all[1] - 1) % OrderLen # 0 => torn

(* Once the network errors end, everything pushed leaves the process: the   *)
(* client is connected with nothing queued or buffered, unless refused      *)
(* connects have left all descriptors of the process open.                  *)
EverythingSent ==
  <>[](\/ leaked = MaxFds
       \/ sta = "CONNECTED" /\ q = 0 /\ buffer = << >>)
=============================================================================
