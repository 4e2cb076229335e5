---------------------------- MODULE TransportProofs ----------------------------
(***************************************************************************)
(* The two ends of a byte stream of orders: order_handler::handle, which   *)
(* receives, and the connecting side of the TCP transport, which sends.    *)
(*                                                                         *)
(* order_handler::handle for any number of clients, any struct size and    *)
(* any chunks.  ChopsArrivals needs the shape of the handler between two   *)
(* of its steps: what is in buff_ is less than a struct, and is not empty  *)
(* while it is being filled.  StructsIntact needs, besides, whose bytes    *)
(* the handler holds and where in that client's stream they are.           *)
(*                                                                         *)
(* TcpClient for any length of an order, any number of orders, errors and  *)
(* descriptors.  StreamHasNoGap is inductive once the buffer is typed and  *)
(* orders are handed over whole.  The work is in _do_send: that what it    *)
(* takes off the nodes of the buffer is the front of the bytes that wait,  *)
(* and that the rest waits on.  FlattenSeq, which joins the nodes, is a    *)
(* recursive function; what it computes is proved from its definition, by  *)
(* induction on the number of nodes.                                       *)
(***************************************************************************)
EXTENDS OrderStream, TcpClient, SequenceTheorems, WellFoundedInduction, TLAPS

-----------------------------------------------------------------------------
(* order_handler::handle.                                                  *)

Bytes == [from : Clients, at : Nat]

StreamTypeOK ==
  /\ got \in [Clients -> Nat]
  /\ buff \in Seq(Bytes)
  /\ chunk \in Seq(Bytes)
  /\ hpc \in {"idle", "fill", "whole"}
  /\ delivered \in Seq(Seq(Bytes))
  /\ arrived \in Seq(Bytes)
  /\ interrupted \in BOOLEAN

\* What handle has in its hands in each of its parts.
HandlerInv ==
  /\ Len(buff) < Size
  /\ hpc = "idle" => chunk = <<>>
  /\ hpc = "fill" => buff # <<>>
  /\ hpc = "whole" => buff = <<>>

\* Every byte that arrived went out in a struct, or is still held.
CutInv ==
  /\ Len(arrived) = Len(delivered) * Size + Len(buff) + Len(chunk)
  /\ ChopsArrivals

StreamInv == StreamTypeOK /\ HandlerInv /\ CutInv

-----------------------------------------------------------------------------
(* Lemmas on sequences.                                                     *)

(* A piece from the front of a sequence stays when the sequence grows.      *)
LEMMA SubSeqOfFront ==
  ASSUME NEW S, NEW s \in Seq(S), NEW t \in Seq(S),
         NEW m \in Nat \ {0}, NEW n \in Nat, n <= Len(s)
  PROVE  SubSeq(s \o t, m, n) = SubSeq(s, m, n)
<1>1. \A i \in m .. n : (s \o t)[i] = s[i] /\ s[i] \in S
  BY ConcatProperties, LenProperties
<1>2. /\ SubSeq(s \o t, m, n) \in Seq(S)
      /\ Len(SubSeq(s \o t, m, n)) = IF m <= n THEN n - m + 1 ELSE 0
      /\ \A i \in 1 .. n - m + 1 : SubSeq(s \o t, m, n)[i] = (s \o t)[m + i - 1]
  BY <1>1, SubSeqProperties
<1>3. /\ SubSeq(s, m, n) \in Seq(S)
      /\ Len(SubSeq(s, m, n)) = IF m <= n THEN n - m + 1 ELSE 0
      /\ \A i \in 1 .. n - m + 1 : SubSeq(s, m, n)[i] = s[m + i - 1]
  BY <1>1, SubSeqProperties
<1> QED BY <1>1, <1>2, <1>3, SeqEqual

(* The tail of a sequence that grows is the tail before, and what is added. *)
LEMMA SubSeqOfGrown ==
  ASSUME NEW S, NEW s \in Seq(S), NEW t \in Seq(S), NEW d \in 0 .. Len(s)
  PROVE  SubSeq(s \o t, d + 1, Len(s \o t)) = SubSeq(s, d + 1, Len(s)) \o t
<1> DEFINE u == SubSeq(s \o t, d + 1, Len(s \o t))
           v == SubSeq(s, d + 1, Len(s))
<1>1. /\ Len(s) \in Nat /\ Len(t) \in Nat
      /\ s \o t \in Seq(S) /\ Len(s \o t) = Len(s) + Len(t)
      /\ \A i \in 1 .. Len(s) + Len(t) :
           (s \o t)[i] = IF i <= Len(s) THEN s[i] ELSE t[i - Len(s)]
  BY ConcatProperties, LenProperties
<1>2. \A i \in d + 1 .. Len(s) + Len(t) : (s \o t)[i] \in S
  BY <1>1, ElementOfSeq
<1>3. /\ u \in Seq(S) /\ Len(u) = Len(s) + Len(t) - d
      /\ \A i \in 1 .. Len(s) + Len(t) - d : u[i] = (s \o t)[d + i]
  BY <1>1, <1>2, SubSeqProperties
<1>4. \A i \in d + 1 .. Len(s) : s[i] \in S
  BY <1>1, ElementOfSeq
<1>5. /\ v \in Seq(S) /\ Len(v) = Len(s) - d
      /\ \A i \in 1 .. Len(s) - d : v[i] = s[d + i]
  BY <1>1, <1>4, SubSeqProperties
<1> HIDE DEF u, v
<1>6. /\ v \o t \in Seq(S) /\ Len(v \o t) = Len(s) - d + Len(t)
      /\ \A i \in 1 .. Len(s) - d + Len(t) :
           (v \o t)[i] = IF i <= Len(s) - d THEN v[i] ELSE t[i - (Len(s) - d)]
  <2>1. /\ v \o t \in Seq(S) /\ Len(v \o t) = Len(v) + Len(t)
        /\ \A i \in 1 .. Len(v) + Len(t) :
             (v \o t)[i] = IF i <= Len(v) THEN v[i] ELSE t[i - Len(v)]
    BY <1>5, ConcatProperties
  <2> QED BY <2>1, <1>5
<1>7. \A i \in 1 .. Len(u) : u[i] = (v \o t)[i]
  <2> TAKE i \in 1 .. Len(u)
  <2>1. u[i] = (s \o t)[d + i]
    BY <1>1, <1>3
  <2>2. CASE i <= Len(s) - d
    BY <2>1, <2>2, <1>1, <1>3, <1>5, <1>6
  <2>3. CASE ~(i <= Len(s) - d)
    <3>1. d + i \in 1 .. Len(s) + Len(t) /\ ~(d + i <= Len(s))
      BY <2>3, <1>1, <1>3
    <3>2. (s \o t)[d + i] = t[d + i - Len(s)]
      BY <3>1, <1>1
    <3>3. u[i] = t[d + i - Len(s)]
      BY <2>1, <3>2
    <3>4. i \in 1 .. Len(s) - d + Len(t) /\ ~(i <= Len(s) - d)
      BY <2>3, <1>1, <1>3
    <3>5. (v \o t)[i] = t[i - (Len(s) - d)]
      BY <3>4, <1>6
    <3>6. d + i - Len(s) = i - (Len(s) - d)
      BY <1>1, <1>3
    <3> QED BY <3>3, <3>5, <3>6
  <2> QED BY <2>2, <2>3
<1>8. Len(u) = Len(v \o t)
  BY <1>1, <1>3, <1>6
<1>9. u = v \o t
  BY <1>3, <1>6, <1>7, <1>8, SeqEqual
<1> QED BY <1>9 DEF u, v

(* The first k elements of a tail, and what is behind them.                 *)
LEMMA TailPieces ==
  ASSUME NEW S, NEW s \in Seq(S), NEW d \in Nat, NEW k \in Nat, d + k <= Len(s),
         NEW rest, rest = SubSeq(s, d + 1, Len(s))
  PROVE  /\ SubSeq(rest, 1, k) = SubSeq(s, d + 1, d + k)
         /\ SubSeq(rest, k + 1, Len(rest)) = SubSeq(s, d + k + 1, Len(s))
<1>0. Len(s) \in Nat
  BY LenProperties
<1>1. \A i \in d + 1 .. Len(s) : s[i] \in S
  BY <1>0, ElementOfSeq
<1>2. /\ rest \in Seq(S) /\ Len(rest) = Len(s) - d
      /\ \A i \in 1 .. Len(s) - d : rest[i] = s[d + i]
  BY <1>0, <1>1, SubSeqProperties
<1>3. \A i \in 1 .. Len(s) - d : rest[i] \in S
  BY <1>0, <1>2, ElementOfSeq
<1>4. SubSeq(rest, 1, k) = SubSeq(s, d + 1, d + k)
  <2>1. /\ SubSeq(rest, 1, k) \in Seq(S)
        /\ Len(SubSeq(rest, 1, k)) = k
        /\ \A i \in 1 .. k : SubSeq(rest, 1, k)[i] = rest[i]
    BY <1>0, <1>2, <1>3, SubSeqProperties
  <2>2. /\ SubSeq(s, d + 1, d + k) \in Seq(S)
        /\ Len(SubSeq(s, d + 1, d + k)) = k
        /\ \A i \in 1 .. k : SubSeq(s, d + 1, d + k)[i] = s[d + i]
    BY <1>0, <1>1, SubSeqProperties
  <2>3. ASSUME NEW i \in 1 .. k
        PROVE  SubSeq(rest, 1, k)[i] = SubSeq(s, d + 1, d + k)[i]
    <3>1. i \in 1 .. Len(s) - d
      BY <1>0
    <3> QED BY <3>1, <2>1, <2>2, <1>2
  <2> QED BY <2>1, <2>2, <2>3, SeqEqual
<1>5. SubSeq(rest, k + 1, Len(rest)) = SubSeq(s, d + k + 1, Len(s))
  <2>1. /\ SubSeq(rest, k + 1, Len(rest)) \in Seq(S)
        /\ Len(SubSeq(rest, k + 1, Len(rest))) = Len(s) - d - k
        /\ \A i \in 1 .. Len(s) - d - k :
             SubSeq(rest, k + 1, Len(rest))[i] = rest[k + i]
    <3>1. Len(rest) \in Int /\ \A i \in k + 1 .. Len(rest) : rest[i] \in S
      BY <1>0, <1>2, <1>3
    <3>2. /\ SubSeq(rest, k + 1, Len(rest)) \in Seq(S)
          /\ Len(SubSeq(rest, k + 1, Len(rest)))
               = IF k + 1 <= Len(rest) THEN Len(rest) - (k + 1) + 1 ELSE 0
          /\ \A i \in 1 .. Len(rest) - (k + 1) + 1 :
               SubSeq(rest, k + 1, Len(rest))[i] = rest[k + 1 + i - 1]
      BY <3>1, SubSeqProperties
    <3> QED BY <3>2, <1>0, <1>2
  <2>2. /\ SubSeq(s, d + k + 1, Len(s)) \in Seq(S)
        /\ Len(SubSeq(s, d + k + 1, Len(s))) = Len(s) - d - k
        /\ \A i \in 1 .. Len(s) - d - k :
             SubSeq(s, d + k + 1, Len(s))[i] = s[d + k + i]
    BY <1>0, <1>1, SubSeqProperties
  <2>3. \A i \in 1 .. Len(s) - d - k :
          SubSeq(rest, k + 1, Len(rest))[i] = SubSeq(s, d + k + 1, Len(s))[i]
    BY <2>1, <2>2, <1>0, <1>2
  <2> QED BY <2>1, <2>2, <2>3, SeqEqual
<1> QED BY <1>4, <1>5

(* Taking elements of the second part of a concatenation: the first k       *)
(* elements of the whole, and what is behind them.                          *)
LEMMA ConcatPieces ==
  ASSUME NEW S, NEW s \in Seq(S), NEW t \in Seq(S),
         NEW k \in Nat, k <= Len(t)
  PROVE  /\ s \o SubSeq(t, 1, k) = SubSeq(s \o t, 1, Len(s) + k)
         /\ SubSeq(t, k + 1, Len(t)) = SubSeq(s \o t, Len(s) + k + 1, Len(s \o t))
<1>1. /\ Len(s) \in Nat /\ Len(t) \in Nat
      /\ s \o t \in Seq(S) /\ Len(s \o t) = Len(s) + Len(t)
      /\ \A i \in 1 .. Len(s) + Len(t) :
           (s \o t)[i] = IF i <= Len(s) THEN s[i] ELSE t[i - Len(s)]
  BY ConcatProperties, LenProperties
<1>2. \A i \in 1 .. Len(s) + Len(t) : (s \o t)[i] \in S
  BY <1>1, ElementOfSeq
<1>3. \A i \in 1 .. Len(t) : t[i] \in S
  BY <1>1, ElementOfSeq
<1>4. s \o SubSeq(t, 1, k) = SubSeq(s \o t, 1, Len(s) + k)
  <2>1. /\ SubSeq(t, 1, k) \in Seq(S) /\ Len(SubSeq(t, 1, k)) = k
        /\ \A i \in 1 .. k : SubSeq(t, 1, k)[i] = t[i]
    BY <1>1, <1>3, SubSeqProperties
  <2>2. /\ s \o SubSeq(t, 1, k) \in Seq(S)
        /\ Len(s \o SubSeq(t, 1, k)) = Len(s) + k
        /\ \A i \in 1 .. Len(s) + k : (s \o SubSeq(t, 1, k))[i] =
             IF i <= Len(s) THEN s[i] ELSE SubSeq(t, 1, k)[i - Len(s)]
    BY <2>1, ConcatProperties
  <2>3. /\ SubSeq(s \o t, 1, Len(s) + k) \in Seq(S)
        /\ Len(SubSeq(s \o t, 1, Len(s) + k)) = Len(s) + k
        /\ \A i \in 1 .. Len(s) + k : SubSeq(s \o t, 1, Len(s) + k)[i] = (s \o t)[i]
    BY <1>1, <1>2, SubSeqProperties
  <2>4. \A i \in 1 .. Len(s) + k :
          (s \o SubSeq(t, 1, k))[i] = SubSeq(s \o t, 1, Len(s) + k)[i]
    BY <2>1, <2>2, <2>3, <1>1
  <2> QED BY <2>2, <2>3, <2>4, SeqEqual
<1>5. SubSeq(t, k + 1, Len(t)) = SubSeq(s \o t, Len(s) + k + 1, Len(s \o t))
  <2>1. /\ SubSeq(t, k + 1, Len(t)) \in Seq(S)
        /\ Len(SubSeq(t, k + 1, Len(t))) = Len(t) - k
        /\ \A i \in 1 .. Len(t) - k : SubSeq(t, k + 1, Len(t))[i] = t[k + i]
    BY <1>1, <1>3, SubSeqProperties
  <2> DEFINE u == SubSeq(s \o t, Len(s) + k + 1, Len(s \o t))
  <2>2. /\ u \in Seq(S) /\ Len(u) = Len(t) - k
        /\ \A i \in 1 .. Len(t) - k : u[i] = (s \o t)[Len(s) + k + i]
    BY <1>1, <1>2, SubSeqProperties
  <2> HIDE DEF u
  <2>3. ASSUME NEW i \in 1 .. Len(t) - k
        PROVE  SubSeq(t, k + 1, Len(t))[i] = u[i]
    <3>1. /\ Len(s) + k + i \in 1 .. Len(s) + Len(t)
          /\ ~(Len(s) + k + i <= Len(s)) /\ Len(s) + k + i - Len(s) = k + i
      BY <1>1
    <3>2. (s \o t)[Len(s) + k + i] = t[k + i]
      BY <3>1, <1>1
    <3> QED BY <3>2, <2>1, <2>2
  <2>4. SubSeq(t, k + 1, Len(t)) = u
    BY <2>1, <2>2, <2>3, SeqEqual
  <2> QED BY <2>4 DEF u
<1> QED BY <1>4, <1>5

(* The quotient of a natural number, with the remainder it leaves.          *)
LEMMA NatDivision ==
  ASSUME NEW a \in Nat, NEW b \in Nat \ {0}
  PROVE  /\ a \div b \in Nat
         /\ a = b * (a \div b) + (a % b)
         /\ (a % b) \in 0 .. b - 1
BY SMT

(* Multiples of sizeof(order): where struct i of the arriving bytes is.      *)
LEMMA Multiples ==
  ASSUME NEW n \in Nat
  PROVE  /\ n * Size \in Nat
         /\ (n + 1) * Size = n * Size + Size
         /\ \A i \in 1 .. n : /\ (i - 1) * Size \in Nat
                              /\ i * Size = (i - 1) * Size + Size
                              /\ i * Size <= n * Size
<1>1. Size \in Nat /\ Size > 0
  BY SizeAssumption
<1>2. n * Size \in Nat /\ (n + 1) * Size = n * Size + Size
  BY <1>1
<1>3. ASSUME NEW i \in 1 .. n
      PROVE  /\ (i - 1) * Size \in Nat
             /\ i * Size = (i - 1) * Size + Size
             /\ i * Size <= n * Size
  <2>1. PICK k \in Nat : n = i + k
    <3>1. n - i \in Nat /\ n = i + (n - i)
      OBVIOUS
    <3> QED BY <3>1
  <2>2. PICK j \in Nat : i = j + 1
    <3>1. i - 1 \in Nat /\ i = (i - 1) + 1
      OBVIOUS
    <3> QED BY <3>1
  <2>3. j * Size \in Nat /\ (j + 1) * Size = j * Size + Size /\ k * Size \in Nat
    BY <1>1
  <2>4. (i + k) * Size = i * Size + k * Size
    BY <1>1
  <2>5. i - 1 = j
    BY <2>2
  <2>6. i * Size = j * Size + Size
    BY <2>2, <2>3
  <2>7. n * Size = i * Size + k * Size
    BY <2>1, <2>4
  <2>8. i * Size \in Nat /\ i * Size <= n * Size
    BY <2>3, <2>6, <2>7, <1>1
  <2>9. (i - 1) * Size = j * Size
    BY <2>5
  <2> QED BY <2>3, <2>6, <2>8, <2>9
<1> QED BY <1>2, <1>3

-----------------------------------------------------------------------------
(* The arriving bytes.                                                      *)

LEMMA InitStreamInv == StreamInit => StreamInv
<1> SUFFICES ASSUME StreamInit PROVE StreamInv
  OBVIOUS
<1> USE SizeAssumption DEF StreamInit
<1>1. StreamTypeOK
  <2>1. <<>> \in Seq(Bytes) /\ <<>> \in Seq(Seq(Bytes))
    BY EmptySeq
  <2>2. got \in [Clients -> Nat]
    OBVIOUS
  <2> QED BY <2>1, <2>2 DEF StreamTypeOK
<1>2. HandlerInv
  BY DEF HandlerInv
<1>3. Len(arrived) = Len(delivered) * Size + Len(buff) + Len(chunk)
  OBVIOUS
<1>4. ChopsArrivals
  <2>1. \A i \in DOMAIN delivered : FALSE
    OBVIOUS
  <2>2. SubSeq(arrived, Len(delivered) * Size + 1, Len(arrived)) = <<>>
    <3>1. Len(delivered) * Size + 1 = 1 /\ Len(arrived) = 0
      OBVIOUS
    <3> QED BY <3>1, SubSeqEmpty
  <2>3. buff \o chunk = <<>>
    OBVIOUS
  <2> QED BY <2>1, <2>2, <2>3 DEF ChopsArrivals
<1> QED BY <1>1, <1>2, <1>3, <1>4 DEF StreamInv, CutInv

(* The bytes recv returned are typed, and are n.                            *)
LEMMA ChunkType ==
  ASSUME NEW c \in Clients, NEW n \in Nat, NEW k \in Nat
  PROVE  LET new == [i \in 1 .. n |-> Byte(c, k + i)]
         IN  new \in Seq(Bytes) /\ Len(new) = n
<1> DEFINE new == [i \in 1 .. n |-> Byte(c, k + i)]
<1>1. \A i \in 1 .. n : Byte(c, k + i) \in Bytes
  BY DEF Byte, Bytes
<1>2. new \in [1 .. n -> Bytes]
  BY <1>1
<1>3. new \in Seq(Bytes)
  BY <1>2, SeqDef
<1>4. DOMAIN new = 1 .. n /\ DOMAIN new = 1 .. Len(new) /\ Len(new) \in Nat
  BY <1>3, LenProperties
<1> HIDE DEF new
<1>5. Len(new) = n
  BY <1>4
<1> QED BY <1>3, <1>5 DEF new

LEMMA RecvKeeps ==
  ASSUME StreamInv, NEW c \in Clients, NEW n \in Nat \ {0}, Recv(c, n)
  PROVE  StreamInv'
<1> USE DEF StreamInv
<1>1. /\ chunk = <<>> /\ hpc = "idle" /\ Len(buff) < Size
      /\ arrived' = arrived \o chunk' /\ buff' = buff /\ delivered' = delivered
      /\ interrupted' \in BOOLEAN
  BY DEF Recv, HandlerInv, StreamTypeOK
<1>2. chunk' \in Seq(Bytes) /\ Len(chunk') = n
  <2>1. got[c] \in Nat
    BY DEF StreamTypeOK
  <2> QED BY <2>1, ChunkType DEF Recv
<1>3. got' \in [Clients -> Nat]
  BY DEF Recv, StreamTypeOK
<1>4. arrived' \in Seq(Bytes) /\ Len(arrived') = Len(arrived) + n
  BY <1>1, <1>2, ConcatProperties DEF StreamTypeOK
<1>5. hpc' = IF buff # <<>> THEN "fill" ELSE "whole"
  BY DEF Recv
<1>6. StreamTypeOK'
  BY <1>1, <1>2, <1>3, <1>4, <1>5 DEF StreamTypeOK
<1>7. HandlerInv'
  BY <1>1, <1>5 DEF HandlerInv
<1>8. /\ Len(delivered) \in Nat /\ Len(buff) \in Nat /\ Len(arrived) \in Nat
      /\ DOMAIN delivered = 1 .. Len(delivered)
      /\ Len(chunk) = 0
      /\ Len(delivered) * Size \in Nat
      /\ Len(arrived) = Len(delivered) * Size + Len(buff)
  <2>1. Len(chunk) = 0
    BY <1>1
  <2>2. /\ Len(delivered) \in Nat /\ Len(buff) \in Nat /\ Len(arrived) \in Nat
        /\ DOMAIN delivered = 1 .. Len(delivered)
    BY LenProperties DEF StreamTypeOK
  <2> QED BY <2>1, <2>2, Multiples, SMTT(30) DEF CutInv
<1>9. Len(arrived') = Len(delivered') * Size + Len(buff') + Len(chunk')
  BY <1>1, <1>2, <1>4, <1>8
<1>10. ASSUME NEW i \in 1 .. Len(delivered)
       PROVE  delivered[i] = SubSeq(arrived', (i - 1) * Size + 1, i * Size)
  <2>1. /\ (i - 1) * Size + 1 \in Nat \ {0} /\ i * Size \in Nat
        /\ i * Size <= Len(arrived)
    BY <1>8, Multiples, SizeAssumption
  <2>2. delivered[i] = SubSeq(arrived, (i - 1) * Size + 1, i * Size)
    BY <1>8 DEF CutInv, ChopsArrivals
  <2>3. SubSeq(arrived \o chunk', (i - 1) * Size + 1, i * Size)
          = SubSeq(arrived, (i - 1) * Size + 1, i * Size)
    BY <2>1, <1>2, SubSeqOfFront, ZenonT(30) DEF StreamTypeOK
  <2> QED BY <2>2, <2>3, <1>1
<1>11. buff' \o chunk' = SubSeq(arrived', Len(delivered') * Size + 1, Len(arrived'))
  <2>1. Len(delivered) * Size \in 0 .. Len(arrived)
    BY <1>8
  <2>2. SubSeq(arrived \o chunk', Len(delivered) * Size + 1, Len(arrived \o chunk'))
          = SubSeq(arrived, Len(delivered) * Size + 1, Len(arrived)) \o chunk'
    BY <2>1, <1>2, SubSeqOfGrown DEF StreamTypeOK
  <2>3. buff = SubSeq(arrived, Len(delivered) * Size + 1, Len(arrived))
    <3>1. buff \o <<>> = buff
      BY ConcatEmptySeq DEF StreamTypeOK
    <3> QED BY <3>1, <1>1 DEF CutInv, ChopsArrivals
  <2> QED BY <2>2, <2>3, <1>1
<1>12. ChopsArrivals'
  BY <1>1, <1>5, <1>8, <1>10, <1>11 DEF ChopsArrivals
<1> QED BY <1>6, <1>7, <1>9, <1>12 DEF CutInv

(* A struct goes out: it is the next piece of the arriving bytes, and what  *)
(* is held afterwards is what is behind it.                                 *)
LEMMA StructOut ==
  ASSUME StreamInv,
         Len(buff \o chunk) >= Size,
         buff' = <<>>, chunk' = SubSeq(buff \o chunk, Size + 1, Len(buff \o chunk)),
         delivered' = Append(delivered, SubSeq(buff \o chunk, 1, Size)), arrived' = arrived, hpc' = "whole"
  PROVE  CutInv' /\ chunk' \in Seq(Bytes) /\ delivered' \in Seq(Seq(Bytes))
<1> DEFINE rest == buff \o chunk
           d == SubSeq(rest, 1, Size)
           n == Len(delivered)
           m == n * Size
<1>1. /\ buff \in Seq(Bytes) /\ chunk \in Seq(Bytes) /\ arrived \in Seq(Bytes)
      /\ delivered \in Seq(Seq(Bytes))
  BY DEF StreamInv, StreamTypeOK
<1>2. rest \in Seq(Bytes) /\ Len(rest) = Len(buff) + Len(chunk)
  BY <1>1, ConcatProperties
<1>3. /\ n \in Nat /\ Len(buff) \in Nat /\ Len(chunk) \in Nat /\ Len(arrived) \in Nat
      /\ Size \in Nat \ {0}
      /\ DOMAIN delivered = 1 .. n
      /\ m \in Nat /\ (n + 1) * Size = m + Size
  BY <1>1, LenProperties, Multiples, SizeAssumption
<1>4. Len(arrived) = m + Len(rest)
  BY <1>2, <1>3 DEF StreamInv, CutInv
<1>5. rest = SubSeq(arrived, m + 1, Len(arrived))
  BY DEF StreamInv, CutInv, ChopsArrivals
<1> HIDE DEF m
<1>6. /\ d = SubSeq(arrived, m + 1, m + Size)
      /\ chunk' = SubSeq(arrived, m + Size + 1, Len(arrived))
  <2>1. m + Size <= Len(arrived)
    BY <1>2, <1>3, <1>4
  <2>2. /\ SubSeq(rest, 1, Size) = SubSeq(arrived, m + 1, m + Size)
        /\ SubSeq(rest, Size + 1, Len(rest)) = SubSeq(arrived, m + Size + 1, Len(arrived))
    <3> HIDE DEF rest, n
    <3> QED BY <2>1, <1>1, <1>3, <1>5, TailPieces
  <2> QED BY <2>2
<1> DEFINE B == Seq(Bytes)
<1>0. delivered' = Append(delivered, d)
  OBVIOUS
<1> HIDE DEF rest
<1>7. d \in Seq(Bytes) /\ chunk' \in Seq(Bytes) /\ Len(chunk') = Len(rest) - Size
  <2>1. \A i \in 1 .. Len(rest) : rest[i] \in Bytes
    BY <1>2, ElementOfSeq
  <2>2. Len(rest) \in Int /\ Len(rest) >= Size
    BY <1>2, <1>3 DEF rest
  <2>3. SubSeq(rest, 1, Size) \in Seq(Bytes)
    BY <2>1, <2>2, <1>3, SubSeqProperties
  <2>4. /\ SubSeq(rest, Size + 1, Len(rest)) \in Seq(Bytes)
        /\ Len(SubSeq(rest, Size + 1, Len(rest)))
             = IF Size + 1 <= Len(rest) THEN Len(rest) - (Size + 1) + 1 ELSE 0
    BY <2>1, <2>2, <1>3, SubSeqProperties
  <2> QED BY <2>2, <2>3, <2>4, <1>3 DEF rest
<1>8. /\ delivered' \in Seq(Seq(Bytes)) /\ Len(delivered') = n + 1
      /\ \A i \in 1 .. n : delivered'[i] = delivered[i]
      /\ delivered'[n + 1] = d
      /\ DOMAIN delivered' = 1 .. n + 1
  <2> HIDE DEF d
  <2>1. /\ delivered' \in Seq(Seq(Bytes)) /\ Len(delivered') = n + 1
        /\ \A i \in 1 .. n : delivered'[i] = delivered[i]
        /\ delivered'[n + 1] = d
    <3>1. delivered \in Seq(B) /\ d \in B
      BY <1>1, <1>7
    <3> HIDE DEF B
    <3>2. /\ Append(delivered, d) \in Seq(B) /\ Len(Append(delivered, d)) = Len(delivered) + 1
          /\ \A i \in 1 .. Len(delivered) : Append(delivered, d)[i] = delivered[i]
          /\ Append(delivered, d)[Len(delivered) + 1] = d
      BY <3>1, AppendProperties
    <3> QED BY <3>2, <1>0 DEF B
  <2> QED BY <2>1, LenProperties
<1>9. Len(arrived') = Len(delivered') * Size + Len(buff') + Len(chunk')
  <2>1. Len(buff') = 0
    OBVIOUS
  <2>2. Len(rest) \in Nat
    BY <1>2, LenProperties
  <2>3. Len(delivered') * Size = m + Size
    BY <1>3, <1>8
  <2>4. Len(arrived') = m + Len(rest) /\ Len(chunk') = Len(rest) - Size
    BY <1>4, <1>7 DEF m
  <2>5. m \in Int /\ Size \in Int /\ Len(rest) \in Int
    BY <2>2, <1>3
  <2>6. m + Len(rest) = (m + Size) + 0 + (Len(rest) - Size)
    BY <2>5
  <2> QED BY <2>1, <2>3, <2>4, <2>6
<1> HIDE DEF n, d
<1>10. ASSUME NEW i \in DOMAIN delivered'
       PROVE  delivered'[i] = SubSeq(arrived', (i - 1) * Size + 1, i * Size)
  <2>1. CASE i \in 1 .. n
    BY <2>1, <1>3, <1>8 DEF StreamInv, CutInv, ChopsArrivals
  <2>2. CASE i = n + 1
    <3>1. (i - 1) * Size = m /\ i * Size = m + Size
      <4>1. i - 1 = n
        BY <2>2, <1>3
      <4> QED BY <4>1, <2>2, <1>3 DEF m
    <3> QED BY <3>1, <2>2, <1>6, <1>8 DEF d
  <2>3. i \in 1 .. n \/ i = n + 1
    <3>1. i \in 1 .. n + 1
      BY <1>8
    <3>2. n \in Nat
      BY <1>3
    <3> QED BY <3>1, <3>2
  <2> QED BY <2>1, <2>2, <2>3
<1>11. buff' \o chunk' = SubSeq(arrived', Len(delivered') * Size + 1, Len(arrived'))
  <2>1. buff' \o chunk' = chunk'
    BY <1>7, ConcatEmptySeq
  <2>2. Len(delivered') * Size = m + Size
    BY <1>3, <1>8
  <2> QED BY <2>1, <2>2, <1>6
<1>12. ChopsArrivals'
  BY <1>10, <1>11 DEF ChopsArrivals
<1> QED BY <1>7, <1>8, <1>9, <1>12 DEF CutInv

LEMMA FillBuffKeeps ==
  ASSUME StreamInv, FillBuff
  PROVE  StreamInv'
<1> DEFINE need == Size - Len(buff)
<1>1. /\ buff \in Seq(Bytes) /\ chunk \in Seq(Bytes) /\ arrived \in Seq(Bytes)
      /\ Len(buff) \in Nat /\ Len(chunk) \in Nat /\ Size \in Nat \ {0}
      /\ Len(buff) < Size /\ buff # <<>>
      /\ buff \o chunk \in Seq(Bytes) /\ Len(buff \o chunk) = Len(buff) + Len(chunk)
  BY ConcatProperties, LenProperties, SizeAssumption
     DEF StreamInv, StreamTypeOK, HandlerInv, FillBuff
<1>2. CASE /\ Len(chunk) < need
           /\ buff' = buff \o chunk /\ chunk' = <<>> /\ hpc' = "idle"
           /\ UNCHANGED <<got, delivered, arrived, interrupted>>
  <2>1. chunk' \in Seq(Bytes) /\ Len(chunk') = 0
    BY <1>2, EmptySeq
  <2>2. StreamTypeOK'
    BY <1>1, <1>2, <2>1 DEF StreamInv, StreamTypeOK
  <2>3. HandlerInv'
    BY <1>1, <1>2 DEF HandlerInv
  <2>4. buff' \o chunk' = buff \o chunk
    BY <1>1, <1>2, ConcatEmptySeq
  <2>5. ChopsArrivals'
    <3>1. Len(buff') < Size
      BY <1>1, <1>2
    <3>2. ChopsArrivals
      BY DEF StreamInv, CutInv
    <3> QED BY <3>1, <3>2, <1>2, <2>4 DEF ChopsArrivals
  <2>6. Len(arrived') = Len(delivered') * Size + Len(buff') + Len(chunk')
    <3>1. Len(delivered) * Size \in Nat
      BY Multiples, LenProperties DEF StreamInv, StreamTypeOK
    <3> QED BY <3>1, <1>1, <1>2, <2>1 DEF StreamInv, CutInv
  <2> QED BY <2>2, <2>3, <2>5, <2>6 DEF StreamInv, CutInv
<1>3. CASE /\ Len(chunk) >= need
           /\ delivered' = Append(delivered, buff \o SubSeq(chunk, 1, need))
           /\ chunk' = SubSeq(chunk, need + 1, Len(chunk))
           /\ buff' = <<>> /\ hpc' = "whole"
           /\ UNCHANGED <<got, arrived, interrupted>>
  <2>1. need \in Nat /\ need <= Len(chunk) /\ Len(buff) + need = Size
    BY <1>1, <1>3
  <2>2. /\ buff \o SubSeq(chunk, 1, need) = SubSeq(buff \o chunk, 1, Len(buff) + need)
        /\ SubSeq(chunk, need + 1, Len(chunk))
             = SubSeq(buff \o chunk, Len(buff) + need + 1, Len(buff \o chunk))
    <3> HIDE DEF need
    <3> QED BY <1>1, <2>1, ConcatPieces
  <2> HIDE DEF need
  <2>3. /\ delivered' = Append(delivered, SubSeq(buff \o chunk, 1, Size))
        /\ chunk' = SubSeq(buff \o chunk, Size + 1, Len(buff \o chunk))
    BY <1>3, <2>1, <2>2
  <2>4. Len(buff \o chunk) >= Size
    BY <1>1, <2>1
  <2>5. CutInv' /\ chunk' \in Seq(Bytes) /\ delivered' \in Seq(Seq(Bytes))
    BY <1>3, <2>3, <2>4, StructOut
  <2>6. buff' \in Seq(Bytes) /\ Len(buff') = 0
    BY <1>3, EmptySeq
  <2>7. StreamTypeOK'
    BY <1>3, <2>5, <2>6 DEF StreamInv, StreamTypeOK
  <2>8. HandlerInv'
    BY <1>1, <1>3, <2>6 DEF HandlerInv
  <2> QED BY <2>5, <2>7, <2>8 DEF StreamInv
<1> QED BY <1>2, <1>3 DEF FillBuff, Deliver, Advance

LEMMA DeliverWholeKeeps ==
  ASSUME StreamInv, DeliverWhole
  PROVE  StreamInv'
<1>1. /\ chunk \in Seq(Bytes) /\ buff = <<>> /\ Len(chunk) >= Size
      /\ Size \in Nat \ {0} /\ Len(buff) = 0
      /\ UNCHANGED <<got, buff, hpc, arrived, interrupted>> /\ hpc = "whole"
  BY SizeAssumption DEF StreamInv, StreamTypeOK, HandlerInv, DeliverWhole
<1>2. buff \o chunk = chunk
  BY <1>1, ConcatEmptySeq
<1>3. CutInv' /\ chunk' \in Seq(Bytes) /\ delivered' \in Seq(Seq(Bytes))
  BY <1>1, <1>2, StructOut DEF DeliverWhole, Deliver, Advance
<1>4. StreamTypeOK'
  BY <1>1, <1>3 DEF StreamInv, StreamTypeOK
<1>5. HandlerInv'
  BY <1>1 DEF HandlerInv
<1> QED BY <1>3, <1>4, <1>5 DEF StreamInv

LEMMA SaveRestKeeps ==
  ASSUME StreamInv, SaveRest
  PROVE  StreamInv'
<1>1. /\ chunk \in Seq(Bytes) /\ buff = <<>> /\ Len(chunk) < Size /\ Len(chunk) \in Nat
      /\ buff' = chunk /\ chunk' = <<>> /\ hpc' = "idle"
      /\ UNCHANGED <<got, delivered, arrived, interrupted>>
  BY LenProperties DEF StreamInv, StreamTypeOK, HandlerInv, SaveRest
<1>2. chunk' \in Seq(Bytes) /\ Len(chunk') = 0 /\ Len(buff) = 0
  BY <1>1, EmptySeq
<1>3. StreamTypeOK'
  BY <1>1, <1>2 DEF StreamInv, StreamTypeOK
<1>4. HandlerInv'
  BY <1>1 DEF HandlerInv
<1>5. buff' \o chunk' = buff \o chunk
  BY <1>1, ConcatEmptySeq
<1>6. ChopsArrivals'
  BY <1>1, <1>5 DEF StreamInv, CutInv, ChopsArrivals
<1>7. Len(arrived') = Len(delivered') * Size + Len(buff') + Len(chunk')
  <2>1. Len(delivered) * Size \in Nat
    BY Multiples, LenProperties DEF StreamInv, StreamTypeOK
  <2> QED BY <2>1, <1>1, <1>2 DEF StreamInv, CutInv
<1> QED BY <1>3, <1>4, <1>6, <1>7 DEF StreamInv, CutInv

(* A break of a connection changes nothing in the handler.                  *)
LEMMA BreakKeeps ==
  ASSUME StreamInv, got' \in [Clients -> Nat], interrupted' \in BOOLEAN,
         UNCHANGED <<buff, chunk, hpc, delivered, arrived>>
  PROVE  StreamInv'
BY DEF StreamInv, StreamTypeOK, HandlerInv, CutInv, ChopsArrivals

LEMMA NextStreamInv == StreamInv /\ [StreamNext]_streamVars => StreamInv'
<1> SUFFICES ASSUME StreamInv, [StreamNext]_streamVars PROVE StreamInv'
  OBVIOUS
<1>1. ASSUME NEW c \in Clients, Break(c) PROVE StreamInv'
  <2>1. got[c] \in Nat /\ Size \in Nat \ {0}
    BY SizeAssumption DEF StreamInv, StreamTypeOK
  <2>2. got[c] + Size - 1 \in Nat
    BY <2>1
  <2>3. (got[c] + Size - 1) \div Size \in Nat
    BY <2>1, <2>2, NatDivision
  <2>4. ((got[c] + Size - 1) \div Size) * Size \in Nat
    BY <2>1, <2>3
  <2>5. got' \in [Clients -> Nat]
    BY <1>1, <2>4 DEF Break, StreamInv, StreamTypeOK
  <2>6. interrupted' \in BOOLEAN
    BY <1>1 DEF Break, StreamInv, StreamTypeOK
  <2> QED BY <1>1, <2>5, <2>6, BreakKeeps DEF Break
<1>2. ASSUME NEW c \in Clients, NEW n \in 1 .. MaxMessages * Size, Recv(c, n)
      PROVE  StreamInv'
  <2>1. n \in Nat \ {0}
    BY SizeAssumption, MessagesAssumption
  <2> QED BY <1>2, <2>1, RecvKeeps
<1>3. ASSUME NEW c \in Clients, NEW n \in 1 .. MaxMessages * Size, BreakInSend(c, n)
      PROVE  StreamInv'
  <2>1. n \in Nat
    BY SizeAssumption, MessagesAssumption
  <2>2. got' \in [Clients -> Nat] /\ interrupted' \in BOOLEAN
    BY <1>3, <2>1 DEF BreakInSend, StreamInv, StreamTypeOK
  <2> QED BY <1>3, <2>2, BreakKeeps DEF BreakInSend
<1>4. CASE UNCHANGED streamVars
  BY <1>4 DEF streamVars, StreamInv, StreamTypeOK, HandlerInv, CutInv, ChopsArrivals
<1> QED
  BY <1>1, <1>2, <1>3, <1>4, FillBuffKeeps, DeliverWholeKeeps, SaveRestKeeps
     DEF StreamNext

(* The inductive invariant of the handler.                                  *)
THEOREM StreamInductive == StreamSpec => []StreamInv
BY InitStreamInv, NextStreamInv, PTL DEF StreamSpec

(* ChopsArrivals: whatever the chunks and whichever connections break,      *)
(* handle loses no byte, takes none twice and moves none.                   *)
THEOREM ChopsArrivalsHolds == StreamSpec => []ChopsArrivals
<1>1. StreamInv => ChopsArrivals
  BY DEF StreamInv, CutInv
<1> QED BY <1>1, StreamInductive, PTL

-----------------------------------------------------------------------------
(* The structs of the clients.                                              *)

\* What handle holds and has not passed on.
Held == buff \o chunk

\* Of each client the first done[c] structs went out, each once and in order.
Out(done) ==
  /\ \A c \in Clients : \A m \in 0 .. done[c] - 1 :
       \E i \in DOMAIN delivered : delivered[i] = Message(c, m)
  /\ \A i \in DOMAIN delivered : \E c \in Clients : \E m \in 0 .. done[c] - 1 :
       /\ delivered[i] = Message(c, m)
       /\ \A j \in 1 .. i - 1 : \A l \in Nat : l >= m => delivered[j] # Message(c, l)

\* Nothing is held, and all bytes read are of structs that went out.
NothingHeld(done) ==
  /\ Held = <<>>
  /\ \A c \in Clients : got[c] = done[c] * Size

\* What is held is of client p, and follows its structs that went out.
HeldOf(done, p) ==
  /\ Held = [k \in 1 .. Len(Held) |-> Byte(p, done[p] * Size + k)]
  /\ got[p] = done[p] * Size + Len(Held)
  /\ \A c \in Clients \ {p} : got[c] = done[c] * Size

IntactInv ==
  ~interrupted =>
    \E done \in [Clients -> Nat] :
      Out(done) /\ (NothingHeld(done) \/ \E p \in Clients : HeldOf(done, p))

(* The quotient is determined by a remainder that is less than the divisor. *)
LEMMA QuotientUnique ==
  ASSUME NEW d \in Nat, NEW r \in 0 .. Size - 1
  PROVE  (d * Size + r) \div Size = d
<1> DEFINE a == d * Size + r
           t == a \div Size
           e == a % Size
<1>1. Size \in Nat \ {0}
  BY SizeAssumption
<1>2. a \in Nat
  BY <1>1
<1>3. t \in Nat /\ a = Size * t + e /\ e \in 0 .. Size - 1
  <2> HIDE DEF a
  <2> QED BY <1>1, <1>2, NatDivision
<1>4. Size * t + e = d * Size + r
  BY <1>3
<1> HIDE DEF a, t, e
<1>5. ASSUME NEW x \in Nat, NEW y \in Nat, x >= y + 1 PROVE Size * x >= Size * y + Size
  <2>1. PICK k \in Nat : x = y + 1 + k
    <3>1. x - (y + 1) \in Nat /\ x = y + 1 + (x - (y + 1))
      BY <1>5
    <3> QED BY <3>1
  <2>2. Size * (y + 1 + k) = Size * y + Size + Size * k
    BY <1>1
  <2>3. Size * k \in Nat /\ Size * y \in Nat
    BY <1>1
  <2> QED BY <2>1, <2>2, <2>3, <1>1
<1>6. d * Size = Size * d /\ Size * d \in Nat /\ Size * t \in Nat
  BY <1>1, <1>3
<1>7. ~(t >= d + 1)
  <2>1. t >= d + 1 => Size * t >= Size * d + Size
    BY <1>3, <1>5
  <2> QED BY <2>1, <1>1, <1>3, <1>4, <1>6
<1>8. ~(d >= t + 1)
  <2>1. d >= t + 1 => Size * d >= Size * t + Size
    BY <1>3, <1>5
  <2> QED BY <2>1, <1>1, <1>3, <1>4, <1>6
<1>9. t = d
  BY <1>3, <1>7, <1>8
<1> QED BY <1>9 DEF t, a

(* Two structs with the same bytes are the same struct of the same client.  *)
LEMMA MessageInjective ==
  ASSUME NEW c \in Clients, NEW d \in Clients, NEW m \in Nat, NEW l \in Nat,
         Message(c, m) = Message(d, l)
  PROVE  c = d /\ m = l
<1>1. Size \in Nat \ {0} /\ 1 \in 1 .. Size
  BY SizeAssumption
<1>2. Message(c, m)[1] = Byte(c, m * Size + 1) /\ Message(d, l)[1] = Byte(d, l * Size + 1)
  BY <1>1 DEF Message
<1>3. Byte(c, m * Size + 1) = Byte(d, l * Size + 1)
  BY <1>2
<1>4. c = d /\ m * Size + 1 = l * Size + 1
  BY <1>3 DEF Byte
<1>5. m * Size \in Nat /\ l * Size \in Nat /\ 0 \in 0 .. Size - 1
  BY <1>1
<1>6. m * Size + 0 = l * Size + 0
  BY <1>4, <1>5
<1>7. m = (m * Size + 0) \div Size /\ l = (l * Size + 0) \div Size
  BY <1>5, QuotientUnique
<1> QED BY <1>4, <1>6, <1>7

(* The first n elements.                                                    *)
LEMMA SubSeqFront ==
  ASSUME NEW S, NEW s, NEW n \in Nat, \A i \in 1 .. n : s[i] \in S
  PROVE  /\ SubSeq(s, 1, n) \in Seq(S) /\ Len(SubSeq(s, 1, n)) = n
         /\ \A i \in 1 .. n : SubSeq(s, 1, n)[i] = s[i]
BY SubSeqProperties

(* A run of bytes of one client: its first k bytes and those behind them.   *)
LEMMA RunPieces ==
  ASSUME NEW p \in Clients, NEW b \in Nat, NEW n \in Nat, NEW k \in Nat, k <= n,
         NEW run, \A i \in 1 .. n : run[i] = Byte(p, b + i)
  PROVE  /\ SubSeq(run, 1, k) = [i \in 1 .. k |-> Byte(p, b + i)]
         /\ SubSeq(run, k + 1, n) = [i \in 1 .. n - k |-> Byte(p, b + k + i)]
<1> DEFINE u == [i \in 1 .. k |-> Byte(p, b + i)]
           v == [i \in 1 .. n - k |-> Byte(p, b + k + i)]
<1>1. \A i \in 1 .. n : run[i] = Byte(p, b + i) /\ run[i] \in Bytes
  BY DEF Byte, Bytes
<1>2. /\ SubSeq(run, 1, k) \in Seq(Bytes) /\ Len(SubSeq(run, 1, k)) = k
      /\ \A i \in 1 .. k : SubSeq(run, 1, k)[i] = run[i]
  <2>1. \A i \in 1 .. k : run[i] \in Bytes
    BY <1>1
  <2> QED BY <2>1, SubSeqFront
<1>3. /\ SubSeq(run, k + 1, n) \in Seq(Bytes) /\ Len(SubSeq(run, k + 1, n)) = n - k
      /\ \A i \in 1 .. n - k : SubSeq(run, k + 1, n)[i] = run[k + i]
  BY <1>1, SubSeqProperties
<1>4. u \in Seq(Bytes) /\ Len(u) = k
  BY ChunkType
<1>5. v \in Seq(Bytes) /\ Len(v) = n - k
  <2>1. b + k \in Nat /\ n - k \in Nat
    OBVIOUS
  <2> QED BY <2>1, ChunkType
<1>6. \A i \in 1 .. k : SubSeq(run, 1, k)[i] = u[i]
  <2> TAKE i \in 1 .. k
  <2>1. i \in 1 .. n
    OBVIOUS
  <2>2. u[i] = Byte(p, b + i)
    OBVIOUS
  <2> QED BY <2>1, <2>2, <1>1, <1>2
<1>7. \A i \in 1 .. n - k : SubSeq(run, k + 1, n)[i] = v[i]
  <2> TAKE i \in 1 .. n - k
  <2>1. k + i \in 1 .. n /\ b + (k + i) = b + k + i
    OBVIOUS
  <2>2. v[i] = Byte(p, b + k + i)
    OBVIOUS
  <2> QED BY <2>1, <2>2, <1>1, <1>3
<1> HIDE DEF u, v
<1>8. SubSeq(run, 1, k) = u
  BY <1>2, <1>4, <1>6, SeqEqual
<1>9. SubSeq(run, k + 1, n) = v
  BY <1>3, <1>5, <1>7, SeqEqual
<1> QED BY <1>8, <1>9 DEF u, v

(* A run of bytes goes on with the bytes behind it.                         *)
LEMMA RunsJoin ==
  ASSUME NEW p \in Clients, NEW b \in Nat, NEW n \in Nat, NEW k \in Nat,
         NEW run, run = [i \in 1 .. n |-> Byte(p, b + i)],
         NEW more, more = [i \in 1 .. k |-> Byte(p, b + n + i)]
  PROVE  run \o more = [i \in 1 .. n + k |-> Byte(p, b + i)]
<1> DEFINE w == [i \in 1 .. n + k |-> Byte(p, b + i)]
<1>1. run \in Seq(Bytes) /\ Len(run) = n
  BY ChunkType
<1>2. more \in Seq(Bytes) /\ Len(more) = k
  <2>1. b + n \in Nat
    OBVIOUS
  <2> QED BY <2>1, ChunkType
<1>3. w \in Seq(Bytes) /\ Len(w) = n + k
  <2>1. n + k \in Nat
    OBVIOUS
  <2> QED BY <2>1, ChunkType
<1>4. /\ run \o more \in Seq(Bytes) /\ Len(run \o more) = Len(run) + Len(more)
      /\ \A i \in 1 .. Len(run) + Len(more) :
           (run \o more)[i] = IF i <= Len(run) THEN run[i] ELSE more[i - Len(run)]
  BY <1>1, <1>2, ConcatProperties
<1>5. \A i \in 1 .. n + k : (run \o more)[i] = w[i]
  <2> TAKE i \in 1 .. n + k
  <2>1. (run \o more)[i] = IF i <= n THEN run[i] ELSE more[i - n]
    BY <1>1, <1>2, <1>4
  <2>2. w[i] = Byte(p, b + i)
    OBVIOUS
  <2>3. CASE i <= n
    <3>1. run[i] = Byte(p, b + i)
      BY <2>3
    <3> QED BY <3>1, <2>1, <2>2, <2>3
  <2>4. CASE ~(i <= n)
    <3>1. i - n \in 1 .. k /\ b + n + (i - n) = b + i
      BY <2>4
    <3>2. more[i - n] = Byte(p, b + i)
      BY <3>1
    <3> QED BY <3>2, <2>1, <2>2, <2>4
  <2> QED BY <2>3, <2>4
<1> HIDE DEF w
<1>6. run \o more = w
  BY <1>1, <1>2, <1>3, <1>4, <1>5, SeqEqual
<1> QED BY <1>6 DEF w

(* Nothing of Out changes while no struct goes out.                         *)
LEMMA OutSame ==
  ASSUME NEW done, Out(done), delivered' = delivered
  PROVE  Out(done)'
BY DEF Out

LEMMA IntactRecv ==
  ASSUME StreamInv, IntactInv, NEW c \in Clients, NEW n \in Nat \ {0}, Recv(c, n)
  PROVE  IntactInv'
<1> SUFFICES ASSUME ~interrupted'
             PROVE  \E done \in [Clients -> Nat] :
                      Out(done)' /\ \E p \in Clients : HeldOf(done, p)'
  BY DEF IntactInv
<1>1. /\ ~interrupted /\ ~(buff # <<>> /\ Head(buff).from # c)
      /\ chunk = <<>> /\ buff' = buff /\ delivered' = delivered
      /\ chunk' = [k \in 1 .. n |-> Byte(c, got[c] + k)]
      /\ got' = [got EXCEPT ![c] = @ + n]
  BY DEF Recv, StreamInv, StreamTypeOK, HandlerInv
<1>2. /\ buff \in Seq(Bytes) /\ Len(buff) \in Nat /\ got \in [Clients -> Nat]
      /\ Held = buff
  BY <1>1, LenProperties, ConcatEmptySeq DEF StreamInv, StreamTypeOK, Held
<1>3. PICK done \in [Clients -> Nat] :
        Out(done) /\ (NothingHeld(done) \/ \E p \in Clients : HeldOf(done, p))
  BY <1>1 DEF IntactInv
<1>4. /\ \A d \in Clients \ {c} : got[d] = done[d] * Size
      /\ buff = [k \in 1 .. Len(buff) |-> Byte(c, done[c] * Size + k)]
      /\ got[c] = done[c] * Size + Len(buff)
      /\ done[c] * Size \in Nat
  <2>0. done[c] * Size \in Nat
    BY <1>3, SizeAssumption
  <2>1. CASE buff = <<>>
    <3>1. Len(buff) = 0
      BY <2>1
    <3>2. \A d \in Clients : got[d] = done[d] * Size
      <4>1. CASE NothingHeld(done)
        BY <4>1 DEF NothingHeld
      <4>2. ASSUME NEW p \in Clients, HeldOf(done, p) PROVE \A d \in Clients : got[d] = done[d] * Size
        <5>1. got[p] = done[p] * Size
          <6>1. done[p] * Size \in Nat
            BY <1>3, SizeAssumption
          <6> QED BY <4>2, <3>1, <1>2, <6>1 DEF HeldOf
        <5> QED BY <4>2, <5>1 DEF HeldOf
      <4> QED BY <1>3, <4>1, <4>2
    <3>3. buff = [k \in 1 .. Len(buff) |-> Byte(c, done[c] * Size + k)]
      <4> DEFINE e == [k \in 1 .. 0 |-> Byte(c, done[c] * Size + k)]
      <4>1. e \in Seq(Bytes) /\ Len(e) = 0
        BY <2>0, ChunkType
      <4>2. e = <<>>
        <5> HIDE DEF e
        <5> QED BY <4>1, EmptySeq
      <4> QED BY <4>2, <3>1, <2>1
    <3> QED BY <2>0, <3>1, <3>2, <3>3
  <2>2. CASE buff # <<>>
    <3>1. Len(buff) > 0 /\ Head(buff) = buff[1]
      BY <2>2, <1>2, EmptySeq
    <3>2. PICK p \in Clients : HeldOf(done, p)
      BY <2>2, <1>2, <1>3 DEF NothingHeld
    <3>3. buff = [k \in 1 .. Len(buff) |-> Byte(p, done[p] * Size + k)]
      BY <1>2, <3>2 DEF HeldOf
    <3>4. buff[1] = Byte(p, done[p] * Size + 1)
      <4>1. 1 \in 1 .. Len(buff)
        BY <3>1, <1>2
      <4> QED BY <4>1, <3>3
    <3>5. p = c
      BY <1>1, <2>2, <3>1, <3>4 DEF Byte
    <3> QED BY <2>0, <1>2, <3>2, <3>3, <3>5 DEF HeldOf
  <2> QED BY <2>1, <2>2
<1>5. Held' = [k \in 1 .. Len(buff) + n |-> Byte(c, done[c] * Size + k)]
  <2>1. chunk' = [k \in 1 .. n |-> Byte(c, done[c] * Size + Len(buff) + k)]
    BY <1>1, <1>4
  <2> DEFINE b == done[c] * Size
             l == Len(buff)
  <2>2. b \in Nat /\ l \in Nat
    BY <1>2, <1>4
  <2>3. buff = [k \in 1 .. l |-> Byte(c, b + k)] /\ chunk' = [k \in 1 .. n |-> Byte(c, b + l + k)]
    BY <1>4, <2>1
  <2> HIDE DEF b, l
  <2>4. buff \o chunk' = [k \in 1 .. l + n |-> Byte(c, b + k)]
    BY <2>2, <2>3, RunsJoin
  <2> QED BY <1>1, <2>4 DEF Held, b, l
<1>6. Len(Held') = Len(buff) + n
  <2>1. Len(buff) + n \in Nat
    BY <1>2
  <2> QED BY <2>1, <1>4, <1>5, ChunkType
<1>7. got'[c] = done[c] * Size + Len(Held')
  BY <1>1, <1>2, <1>4, <1>6
<1>8. \A d \in Clients \ {c} : got'[d] = done[d] * Size
  BY <1>1, <1>2, <1>4
<1>9. HeldOf(done, c)'
  BY <1>5, <1>6, <1>7, <1>8 DEF HeldOf
<1>10. Out(done)'
  BY <1>1, <1>3, OutSame
<1> QED BY <1>3, <1>9, <1>10

(* The struct that goes out is the next one of the client whose bytes are   *)
(* held.                                                                    *)
LEMMA IntactStruct ==
  ASSUME StreamInv, IntactInv,
         Len(Held) >= Size,
         buff' = <<>>, chunk' = SubSeq(Held, Size + 1, Len(Held)),
         chunk' \in Seq(Bytes),
         delivered' = Append(delivered, SubSeq(Held, 1, Size)),
         delivered' \in Seq(Seq(Bytes)),
         UNCHANGED <<got, interrupted>>
  PROVE  IntactInv'
<1> SUFFICES ASSUME ~interrupted
             PROVE  \E done \in [Clients -> Nat] :
                      Out(done)' /\ \E p \in Clients : HeldOf(done, p)'
  BY DEF IntactInv
<1>1. Held \in Seq(Bytes) /\ Len(Held) \in Nat /\ Size \in Nat \ {0}
  BY ConcatProperties, LenProperties, SizeAssumption DEF Held, StreamInv, StreamTypeOK
<1>2. PICK done \in [Clients -> Nat] :
        Out(done) /\ (NothingHeld(done) \/ \E p \in Clients : HeldOf(done, p))
  BY DEF IntactInv
<1>3. ~NothingHeld(done)
  BY <1>1 DEF NothingHeld
<1>4. PICK p \in Clients : HeldOf(done, p)
  BY <1>2, <1>3
<1> DEFINE b == done[p] * Size
           l == Len(Held)
           next == [done EXCEPT ![p] = @ + 1]
<1>5. /\ done[p] \in Nat /\ b \in Nat /\ next \in [Clients -> Nat]
      /\ next[p] = done[p] + 1
      /\ \A c \in Clients \ {p} : next[c] = done[c]
      /\ next[p] * Size = b + Size
  BY <1>1, <1>2
<1>6. Held = [k \in 1 .. l |-> Byte(p, b + k)]
  BY <1>4 DEF HeldOf
<1>7. /\ SubSeq(Held, 1, Size) = [k \in 1 .. Size |-> Byte(p, b + k)]
      /\ SubSeq(Held, Size + 1, l) = [k \in 1 .. l - Size |-> Byte(p, b + Size + k)]
  <2>1. l \in Nat /\ Size \in Nat /\ Size <= l
    BY <1>1
  <2>2. \A i \in 1 .. l : Held[i] = Byte(p, b + i)
    BY <1>6
  <2> HIDE DEF b, l
  <2> QED BY <1>5, <2>1, <2>2, RunPieces, SMTT(30)
<1>8. SubSeq(Held, 1, Size) = Message(p, done[p])
  BY <1>7 DEF Message
<1>9. Held' = SubSeq(Held, Size + 1, l)
  <2>1. Held' = chunk'
    BY ConcatEmptySeq DEF Held
  <2> QED BY <2>1
<1>10. Len(Held') = l - Size
  <2>1. l - Size \in Nat /\ b + Size \in Nat
    BY <1>1, <1>5
  <2> QED BY <2>1, <1>7, <1>9, ChunkType, SMTT(30)
<1>11. HeldOf(next, p)'
  <2>1. Held' = [k \in 1 .. Len(Held') |-> Byte(p, next[p] * Size + k)]
    BY <1>5, <1>7, <1>9, <1>10
  <2>2. got'[p] = next[p] * Size + Len(Held')
    <3>1. got[p] = b + l
      BY <1>4 DEF HeldOf
    <3>2. b + l = (b + Size) + (l - Size)
      BY <1>1, <1>5
    <3> QED BY <3>1, <3>2, <1>5, <1>10
  <2>3. \A c \in Clients \ {p} : got'[c] = next[c] * Size
    BY <1>4, <1>5 DEF HeldOf
  <2> QED BY <2>1, <2>2, <2>3 DEF HeldOf
<1> DEFINE n == Len(delivered)
<1>12. /\ n \in Nat /\ DOMAIN delivered = 1 .. n
       /\ Len(delivered') = n + 1 /\ DOMAIN delivered' = 1 .. n + 1
       /\ \A i \in 1 .. n : delivered'[i] = delivered[i]
       /\ delivered'[n + 1] = Message(p, done[p])
  <2> DEFINE B == Seq(Bytes)
             d == SubSeq(Held, 1, Size)
  <2>1. delivered \in Seq(B)
    BY DEF StreamInv, StreamTypeOK
  <2>2. d \in B
    <3>1. \A i \in 1 .. Size : Held[i] \in Bytes
      BY <1>1, ElementOfSeq
    <3> QED BY <3>1, <1>1, SubSeqProperties
  <2> HIDE DEF B, d
  <2>3. /\ Len(Append(delivered, d)) = Len(delivered) + 1
        /\ \A i \in 1 .. Len(delivered) : Append(delivered, d)[i] = delivered[i]
        /\ Append(delivered, d)[Len(delivered) + 1] = d
    BY <2>1, <2>2, AppendProperties
  <2>4. n \in Nat /\ DOMAIN delivered = 1 .. n
    BY <2>1, LenProperties
  <2>5. DOMAIN delivered' = 1 .. Len(delivered')
    BY LenProperties
  <2> QED BY <2>3, <2>4, <2>5, <1>8 DEF d
<1> HIDE DEF n, next
<1>13. Out(next)'
  <2>1. ASSUME NEW c \in Clients, NEW m \in 0 .. next[c] - 1
        PROVE  \E i \in DOMAIN delivered' : delivered'[i] = Message(c, m)
    <3>1. CASE c = p /\ m = done[p]
      BY <3>1, <1>12, SMTT(30)
    <3>2. CASE ~(c = p /\ m = done[p])
      <4>1. m \in 0 .. done[c] - 1
        <5>1. CASE c = p
          <6>1. m \in 0 .. done[p] /\ m # done[p] /\ done[p] \in Nat
            BY <5>1, <3>2, <1>5
          <6> QED BY <5>1, <6>1
        <5>2. CASE c # p
          BY <5>2, <1>5
        <5> QED BY <5>1, <5>2
      <4>2. PICK i \in DOMAIN delivered : delivered[i] = Message(c, m)
        BY <4>1, <1>2 DEF Out
      <4> QED BY <4>2, <1>12
    <3> QED BY <3>1, <3>2
  <2>2. ASSUME NEW i \in DOMAIN delivered'
        PROVE  \E c \in Clients : \E m \in 0 .. next[c] - 1 :
                 /\ delivered'[i] = Message(c, m)
                 /\ \A j \in 1 .. i - 1 : \A k \in Nat : k >= m => delivered'[j] # Message(c, k)
    <3>1. CASE i \in 1 .. n
      <4>1. PICK c \in Clients : \E m \in 0 .. done[c] - 1 :
                 /\ delivered[i] = Message(c, m)
                 /\ \A j \in 1 .. i - 1 : \A k \in Nat : k >= m => delivered[j] # Message(c, k)
        BY <3>1, <1>2, <1>12 DEF Out
      <4>2. PICK m \in 0 .. done[c] - 1 :
                 /\ delivered[i] = Message(c, m)
                 /\ \A j \in 1 .. i - 1 : \A k \in Nat : k >= m => delivered[j] # Message(c, k)
        BY <4>1
      <4>3. m \in 0 .. next[c] - 1
        <5>1. CASE c = p
          <6>1. m \in 0 .. done[p] - 1 /\ next[c] - 1 = done[p] /\ done[p] \in Nat
            BY <5>1, <1>5
          <6> QED BY <6>1
        <5>2. CASE c # p
          BY <5>2, <1>5
        <5> QED BY <5>1, <5>2
      <4>4. \A j \in 1 .. i - 1 : delivered'[j] = delivered[j]
        BY <3>1, <1>12
      <4> QED BY <3>1, <4>2, <4>3, <4>4, <1>12
    <3>2. CASE i = n + 1
      <4>1. ASSUME NEW j \in 1 .. i - 1, NEW k \in Nat, k >= done[p],
                   delivered'[j] = Message(p, k)
            PROVE  FALSE
        <5>1. j \in DOMAIN delivered /\ delivered[j] = Message(p, k)
          BY <3>2, <4>1, <1>12
        <5>2. PICK c \in Clients : \E m \in 0 .. done[c] - 1 : delivered[j] = Message(c, m)
          BY <5>1, <1>2 DEF Out
        <5>3. PICK m \in 0 .. done[c] - 1 : delivered[j] = Message(c, m)
          BY <5>2
        <5>4. m \in Nat /\ Message(p, k) = Message(c, m)
          BY <5>1, <5>3
        <5>5. c = p /\ m = k
          BY <5>4, MessageInjective
        <5> QED BY <5>5, <4>1, <1>5
      <4>2. done[p] \in 0 .. next[p] - 1
        BY <1>5, SMTT(30)
      <4>3. delivered'[i] = Message(p, done[p])
        BY <3>2, <1>12
      <4> QED BY <4>1, <4>2, <4>3
    <3>3. i \in 1 .. n \/ i = n + 1
      <4>1. \A k \in 1 .. n + 1 : k \in 1 .. n \/ k = n + 1
        BY <1>12
      <4> QED BY <4>1, <1>12
    <3> QED BY <3>1, <3>2, <3>3
  <2> QED BY <2>1, <2>2 DEF Out
<1> QED BY <1>5, <1>11, <1>13 DEF next

(* Bytes that are copied behind what is there, or kept for the next call.   *)
LEMMA IntactKept ==
  ASSUME StreamInv, IntactInv, Held' = Held,
         UNCHANGED <<got, delivered, interrupted>>
  PROVE  IntactInv'
<1> SUFFICES ASSUME ~interrupted PROVE IntactInv'
  BY DEF IntactInv
<1>1. PICK done \in [Clients -> Nat] :
        Out(done) /\ (NothingHeld(done) \/ \E p \in Clients : HeldOf(done, p))
  BY DEF IntactInv
<1>2. Out(done)'
  BY <1>1, OutSame
<1>3. NothingHeld(done) => NothingHeld(done)'
  BY DEF NothingHeld
<1>4. ASSUME NEW p \in Clients PROVE HeldOf(done, p) => HeldOf(done, p)'
  BY DEF HeldOf
<1> QED BY <1>1, <1>2, <1>3, <1>4 DEF IntactInv

(* A connection that breaks between two structs takes up where it was.      *)
LEMMA IntactBreak ==
  ASSUME StreamInv, IntactInv, NEW c \in Clients, Break(c)
  PROVE  IntactInv'
<1> SUFFICES ASSUME ~interrupted' PROVE IntactInv'
  BY DEF IntactInv
<1>1. /\ ~interrupted /\ ~(buff # <<>> /\ Head(buff).from = c)
      /\ UNCHANGED <<buff, chunk, delivered>> /\ chunk = <<>>
      /\ got' = [got EXCEPT ![c] = ((@ + Size - 1) \div Size) * Size]
  BY DEF Break, StreamInv, StreamTypeOK, HandlerInv
<1>2. PICK done \in [Clients -> Nat] :
        Out(done) /\ (NothingHeld(done) \/ \E p \in Clients : HeldOf(done, p))
  BY <1>1 DEF IntactInv
<1>3. /\ Held = buff /\ buff \in Seq(Bytes) /\ Len(buff) \in Nat
      /\ got \in [Clients -> Nat] /\ Size \in Nat \ {0}
      /\ done[c] * Size \in Nat
  BY <1>1, <1>2, ConcatEmptySeq, LenProperties, SizeAssumption
     DEF Held, StreamInv, StreamTypeOK
<1>4. got[c] = done[c] * Size
  <2>1. CASE NothingHeld(done)
    BY <2>1 DEF NothingHeld
  <2>2. ASSUME NEW p \in Clients, HeldOf(done, p)
        PROVE  got[c] = done[c] * Size
    <3>1. CASE buff = <<>>
      <4>1. Len(Held) = 0
        BY <3>1, <1>3
      <4>2. got[p] = done[p] * Size
        <5>1. done[p] * Size \in Nat
          BY <1>2, <1>3
        <5> QED BY <2>2, <4>1, <5>1 DEF HeldOf
      <4> QED BY <2>2, <4>2 DEF HeldOf
    <3>2. CASE buff # <<>>
      <4>1. Len(buff) > 0 /\ Head(buff) = buff[1] /\ 1 \in 1 .. Len(buff)
        BY <3>2, <1>3, EmptySeq
      <4>2. buff = [k \in 1 .. Len(buff) |-> Byte(p, done[p] * Size + k)]
        BY <2>2, <1>3 DEF HeldOf
      <4>3. buff[1] = Byte(p, done[p] * Size + 1)
        BY <4>1, <4>2
      <4>4. p # c
        BY <1>1, <3>2, <4>1, <4>3 DEF Byte
      <4> QED BY <2>2, <4>4 DEF HeldOf
    <3> QED BY <3>1, <3>2
  <2> QED BY <1>2, <2>1, <2>2
<1>5. got' = got
  <2>1. Size - 1 \in 0 .. Size - 1
    BY <1>3
  <2>2. (done[c] * Size + (Size - 1)) \div Size = done[c]
    BY <1>2, <2>1, QuotientUnique
  <2>3. got[c] + Size - 1 = done[c] * Size + (Size - 1)
    BY <1>3, <1>4
  <2>4. ((got[c] + Size - 1) \div Size) * Size = got[c]
    BY <2>2, <2>3, <1>4
  <2> QED BY <1>1, <1>3, <2>4
<1>6. Held' = Held
  BY <1>1 DEF Held
<1>7. UNCHANGED <<got, delivered>> /\ interrupted' = interrupted
  BY <1>1, <1>5 DEF StreamInv, StreamTypeOK, Break
<1> QED BY <1>6, <1>7, IntactKept

LEMMA InitIntact == StreamInit => IntactInv
<1> SUFFICES ASSUME StreamInit PROVE IntactInv
  OBVIOUS
<1> DEFINE done == [c \in Clients |-> 0]
<1>1. done \in [Clients -> Nat]
  OBVIOUS
<1>2. Out(done)
  <2>1. DOMAIN delivered = {}
    BY DEF StreamInit
  <2>2. \A c \in Clients : \A m \in 0 .. done[c] - 1 : FALSE
    OBVIOUS
  <2> QED BY <2>1, <2>2 DEF Out
<1>3. NothingHeld(done)
  <2>1. Held = <<>>
    BY DEF StreamInit, Held
  <2>2. 0 * Size = 0
    BY SizeAssumption
  <2> QED BY <2>1, <2>2 DEF NothingHeld, StreamInit
<1> QED BY <1>1, <1>2, <1>3 DEF IntactInv

LEMMA NextIntact ==
  StreamInv /\ StreamInv' /\ IntactInv /\ [StreamNext]_streamVars => IntactInv'
<1> SUFFICES ASSUME StreamInv, StreamInv', IntactInv, [StreamNext]_streamVars
             PROVE  IntactInv'
  OBVIOUS
<1>0. /\ buff \in Seq(Bytes) /\ chunk \in Seq(Bytes) /\ Size \in Nat \ {0}
      /\ Len(buff) \in Nat /\ Len(chunk) \in Nat
      /\ Held \in Seq(Bytes) /\ Len(Held) = Len(buff) + Len(chunk)
      /\ Len(buff) < Size
      /\ chunk' \in Seq(Bytes) /\ delivered' \in Seq(Seq(Bytes))
  BY ConcatProperties, LenProperties, SizeAssumption
     DEF StreamInv, StreamTypeOK, HandlerInv, Held
<1>1. ASSUME NEW c \in Clients, Break(c) PROVE IntactInv'
  BY <1>1, IntactBreak
<1>2. ASSUME NEW c \in Clients, NEW n \in 1 .. MaxMessages * Size, Recv(c, n)
      PROVE  IntactInv'
  <2>1. n \in Nat \ {0}
    BY SizeAssumption, MessagesAssumption
  <2> QED BY <1>2, <2>1, IntactRecv
<1>3. ASSUME NEW c \in Clients, NEW n \in 1 .. MaxMessages * Size, BreakInSend(c, n)
      PROVE  IntactInv'
  BY <1>3 DEF BreakInSend, IntactInv
<1>4. CASE FillBuff
  <2> DEFINE need == Size - Len(buff)
  <2>1. CASE /\ Len(chunk) < need
             /\ buff' = buff \o chunk /\ chunk' = <<>> /\ hpc' = "idle"
             /\ UNCHANGED <<got, delivered, arrived, interrupted>>
    <3>1. Held' = Held
      BY <1>0, <2>1, ConcatEmptySeq DEF Held
    <3> QED BY <2>1, <3>1, IntactKept
  <2>2. CASE /\ Len(chunk) >= need
             /\ delivered' = Append(delivered, buff \o SubSeq(chunk, 1, need))
             /\ chunk' = SubSeq(chunk, need + 1, Len(chunk))
             /\ buff' = <<>> /\ hpc' = "whole"
             /\ UNCHANGED <<got, arrived, interrupted>>
    <3>1. need \in Nat /\ need <= Len(chunk) /\ Len(buff) + need = Size
      BY <1>0, <2>2
    <3>2. /\ buff \o SubSeq(chunk, 1, need) = SubSeq(buff \o chunk, 1, Len(buff) + need)
          /\ SubSeq(chunk, need + 1, Len(chunk))
               = SubSeq(buff \o chunk, Len(buff) + need + 1, Len(buff \o chunk))
      <4> HIDE DEF need
      <4> QED BY <1>0, <3>1, ConcatPieces
    <3> HIDE DEF need
    <3>3. /\ delivered' = Append(delivered, SubSeq(Held, 1, Size))
          /\ chunk' = SubSeq(Held, Size + 1, Len(Held))
      BY <2>2, <3>1, <3>2 DEF Held
    <3>4. Len(Held) >= Size
      BY <1>0, <3>1
    <3> QED BY <1>0, <2>2, <3>3, <3>4, IntactStruct
  <2> QED BY <1>4, <2>1, <2>2 DEF FillBuff, Deliver, Advance
<1>5. CASE DeliverWhole
  <2>1. /\ buff = <<>> /\ Len(chunk) >= Size
        /\ UNCHANGED <<got, buff, interrupted>>
        /\ delivered' = Append(delivered, SubSeq(chunk, 1, Size))
        /\ chunk' = SubSeq(chunk, Size + 1, Len(chunk))
    BY <1>5 DEF DeliverWhole, Deliver, Advance, StreamInv, HandlerInv
  <2>2. Held = chunk
    BY <1>0, <2>1, ConcatEmptySeq DEF Held
  <2> QED BY <1>0, <2>1, <2>2, IntactStruct
<1>6. CASE SaveRest
  <2>1. /\ buff = <<>> /\ buff' = chunk /\ chunk' = <<>>
        /\ UNCHANGED <<got, delivered, interrupted>>
    BY <1>6 DEF SaveRest, StreamInv, HandlerInv
  <2>2. Held' = Held
    BY <1>0, <2>1, ConcatEmptySeq DEF Held
  <2> QED BY <2>1, <2>2, IntactKept
<1>7. CASE UNCHANGED streamVars
  <2>1. Held' = Held /\ UNCHANGED <<got, delivered, interrupted>>
    BY <1>7 DEF streamVars, Held
  <2> QED BY <2>1, IntactKept
<1> QED BY <1>1, <1>2, <1>3, <1>4, <1>5, <1>6, <1>7 DEF StreamNext

(* What the invariant says between two calls of handle.                     *)
LEMMA IntactMeans == StreamInv /\ IntactInv => StructsIntact
<1> SUFFICES ASSUME StreamInv, IntactInv, ~interrupted, hpc = "idle"
             PROVE  StructsIntact
  BY DEF StructsIntact
<1>1. PICK done \in [Clients -> Nat] :
        Out(done) /\ (NothingHeld(done) \/ \E p \in Clients : HeldOf(done, p))
  BY DEF IntactInv
<1>2. /\ Size \in Nat \ {0} /\ Len(Held) \in 0 .. Size - 1
  <2>1. Held = buff /\ Len(buff) \in Nat /\ Len(buff) < Size
    BY ConcatEmptySeq, LenProperties DEF StreamInv, StreamTypeOK, HandlerInv, Held
  <2> QED BY <2>1, SizeAssumption
<1>3. ASSUME NEW c \in Clients PROVE got[c] \div Size = done[c]
  <2>1. \E r \in 0 .. Size - 1 : got[c] = done[c] * Size + r
    <3>1. done[c] * Size \in Nat /\ 0 \in 0 .. Size - 1
      BY <1>1, <1>2
    <3>2. got[c] = done[c] * Size => got[c] = done[c] * Size + 0
      BY <3>1
    <3> QED BY <1>1, <1>2, <3>1, <3>2 DEF NothingHeld, HeldOf
  <2>2. PICK r \in 0 .. Size - 1 : got[c] = done[c] * Size + r
    BY <2>1
  <2> QED BY <1>1, <2>2, QuotientUnique
<1>4. \A c \in Clients : \A m \in 0 .. (got[c] \div Size) - 1 :
        \E i \in DOMAIN delivered : delivered[i] = Message(c, m)
  BY <1>1, <1>3 DEF Out
<1>5. ASSUME NEW i \in DOMAIN delivered
      PROVE  \E c \in Clients : \E m \in 0 .. (got[c] \div Size) - 1 :
               /\ delivered[i] = Message(c, m)
               /\ \A j \in 1 .. i - 1 : \A l \in m .. got[c] \div Size :
                    delivered[j] # Message(c, l)
  <2>1. PICK c \in Clients : \E m \in 0 .. done[c] - 1 :
          /\ delivered[i] = Message(c, m)
          /\ \A j \in 1 .. i - 1 : \A l \in Nat : l >= m => delivered[j] # Message(c, l)
    BY <1>1 DEF Out
  <2>2. PICK m \in 0 .. done[c] - 1 :
          /\ delivered[i] = Message(c, m)
          /\ \A j \in 1 .. i - 1 : \A l \in Nat : l >= m => delivered[j] # Message(c, l)
    BY <2>1
  <2>3. \A l \in m .. done[c] : l \in Nat /\ l >= m
    BY <1>1
  <2> QED BY <2>2, <2>3, <1>3
<1> QED BY <1>4, <1>5 DEF StructsIntact

(* StructsIntact: as long as no struct is interrupted, the engine gets from *)
(* each client the structs it sent, all, once and in their order.           *)
THEOREM StructsIntactHolds == StreamSpec => []StructsIntact
<1>1. StreamSpec => []IntactInv
  BY InitIntact, NextIntact, StreamInductive, PTL DEF StreamSpec
<1> QED BY <1>1, StreamInductive, IntactMeans, PTL

-----------------------------------------------------------------------------
(* tcp_client and matching_tcp_client.                                     *)

Nodes == [data : Seq(Nat), snd : Nat]

\* A node remembers how much of its bytes was accepted.
Sound(node) == node \in Nodes /\ node.snd <= Len(node.data)

ClientTypeOK ==
  /\ sta \in {"CLOSED", "CONNECTING", "CONNECTED"}
  /\ buffer \in Seq(Nodes)
  /\ \A i \in DOMAIN buffer : Sound(buffer[i])
  /\ q \in Nat /\ pc \in {"run", "flush"}
  /\ fds \in Nat /\ pushed \in Nat /\ faults \in Nat /\ leaked \in Nat
  /\ handed \in Nat /\ handed % OrderLen = 0
  /\ stream \in Seq(Nat) /\ torn \in BOOLEAN

ClientInv == ClientTypeOK /\ StreamHasNoGap

-----------------------------------------------------------------------------
(* Induction.                                                               *)

(* A non-empty set of natural numbers has a least element.                  *)
LEMMA LeastElement ==
  ASSUME NEW S \in SUBSET Nat, S # {}
  PROVE  \E n \in S : \A k \in S : n <= k
<1> DEFINE R == OpToRel(<, Nat)
<1>1. IsWellFoundedOn(R, Nat)
  BY NatLessThanWellFounded
<1> HIDE DEF R
<1>2. PICK n \in S : \A k \in S : <<k, n>> \notin R
  BY <1>1, WFMin
<1>3. \A k \in S : ~(k < n)
  BY <1>2 DEF R, OpToRel
<1> QED BY <1>3

(* Induction on the natural numbers, for a set of them.                     *)
LEMMA NatInduct ==
  ASSUME NEW S \in SUBSET Nat, 0 \in S, \A n \in S : n + 1 \in S
  PROVE  S = Nat
<1> SUFFICES ASSUME S # Nat PROVE FALSE
  OBVIOUS
<1>1. PICK n \in Nat \ S : \A k \in Nat \ S : n <= k
  <2>1. Nat \ S \in SUBSET Nat /\ Nat \ S # {}
    OBVIOUS
  <2> QED BY <2>1, LeastElement
<1>2. n # 0 /\ n - 1 \in Nat /\ ~(n <= n - 1)
  BY <1>1
<1>3. n - 1 \in S
  BY <1>1, <1>2
<1>4. (n - 1) + 1 = n
  BY <1>1
<1> QED BY <1>1, <1>3, <1>4

-----------------------------------------------------------------------------
(* FlattenSeq.                                                              *)

\* The function FlattenSeq chooses: f[i] joins the first i sequences of v.
Joined(v, i, f) == IF i = 1 THEN v[i] ELSE f[i - 1] \o v[i]

Joins(v, n, f) == f = [i \in 1 .. n |-> Joined(v, i, f)]

JoinFcn(v, n) == CHOOSE f : Joins(v, n, f)

\* The first n sequences of v in one.
Join(v, n) == FlattenSeq([j \in 1 .. n |-> v[j]])

(* There is such a function.                                                *)
LEMMA JoinsExists ==
  ASSUME NEW v, NEW n \in Nat
  PROVE  Joins(v, n, JoinFcn(v, n))
<1> DEFINE Good == {k \in Nat : \E f : Joins(v, k, f)}
<1>1. 0 \in Good
  <2> DEFINE f == [i \in 1 .. 0 |-> 0]
  <2>1. f = [i \in 1 .. 0 |-> Joined(v, i, f)]
    OBVIOUS
  <2> HIDE DEF f
  <2>2. Joins(v, 0, f)
    BY <2>1 DEF Joins
  <2> QED BY <2>2
<1>2. ASSUME NEW k \in Good PROVE k + 1 \in Good
  <2>1. PICK f : Joins(v, k, f)
    OBVIOUS
  <2> DEFINE g == [i \in 1 .. k + 1 |-> IF i <= k THEN f[i] ELSE Joined(v, i, f)]
  <2>2. k \in Nat
    OBVIOUS
  <2>3. ASSUME NEW i \in 1 .. k + 1 PROVE g[i] = Joined(v, i, g)
    <3>1. i # 1 => i - 1 \in 1 .. k + 1 /\ i - 1 <= k
      BY <2>2, <2>3
    <3>2. Joined(v, i, g) = Joined(v, i, f)
      BY <3>1 DEF Joined
    <3>3. i <= k => f[i] = Joined(v, i, f)
      <4>1. i <= k => i \in 1 .. k
        BY <2>2, <2>3
      <4> QED BY <2>1, <4>1 DEF Joins
    <3> QED BY <3>2, <3>3
  <2>4. g = [i \in 1 .. k + 1 |-> g[i]]
    OBVIOUS
  <2> HIDE DEF g
  <2>5. g = [i \in 1 .. k + 1 |-> Joined(v, i, g)]
    BY <2>3, <2>4
  <2>6. Joins(v, k + 1, g)
    BY <2>5 DEF Joins
  <2> QED BY <2>2, <2>6
<1> HIDE DEF Good
<1>3. Good \in SUBSET Nat
  BY DEF Good
<1>4. Good = Nat
  BY <1>1, <1>2, <1>3, NatInduct
<1>5. \E f : Joins(v, n, f)
  BY <1>4 DEF Good
<1> QED BY <1>5 DEF JoinFcn

(* FlattenSeq gives the last value of that function.                        *)
LEMMA JoinIs ==
  ASSUME NEW v, NEW n \in Nat
  PROVE  Join(v, n) = IF n = 0 THEN << >> ELSE JoinFcn(v, n)[n]
<1> DEFINE u == [j \in 1 .. n |-> v[j]]
<1>1. u \in Seq({v[j] : j \in 1 .. n}) /\ Len(u) = n
  BY IsASeq
<1>2. \A j \in 1 .. n : u[j] = v[j]
  OBVIOUS
<1> HIDE DEF u
<1>3. n = 0 => u = << >>
  BY <1>1, EmptySeq
<1>4. FlattenSeq(u) = IF Len(u) = 0 THEN u ELSE JoinFcn(u, Len(u))[Len(u)]
  BY DEF FlattenSeq, JoinFcn, Joins, Joined
<1>5. \A f : Joins(u, n, f) <=> Joins(v, n, f)
  <2> SUFFICES ASSUME NEW f PROVE Joins(u, n, f) <=> Joins(v, n, f)
    OBVIOUS
  <2>1. \A i \in 1 .. n : Joined(u, i, f) = Joined(v, i, f)
    BY <1>2 DEF Joined
  <2>2. [i \in 1 .. n |-> Joined(u, i, f)] = [i \in 1 .. n |-> Joined(v, i, f)]
    BY <2>1
  <2> QED BY <2>2 DEF Joins
<1>6. JoinFcn(u, n) = JoinFcn(v, n)
  BY <1>5 DEF JoinFcn
<1> QED BY <1>1, <1>3, <1>4, <1>6 DEF Join, u

(* The functions for fewer sequences are prefixes of those for more.        *)
LEMMA JoinFcnPrefix ==
  ASSUME NEW v, NEW n \in Nat, NEW k \in 1 .. n
  PROVE  JoinFcn(v, n + 1)[k] = JoinFcn(v, n)[k]
<1> DEFINE f == JoinFcn(v, n + 1)
           g == JoinFcn(v, n)
           Good == {i \in Nat : i \in 1 .. n => f[i] = g[i]}
<1>1. Joins(v, n, g) /\ Joins(v, n + 1, f)
  BY JoinsExists
<1> HIDE DEF f, g
<1>2. \A i \in 1 .. n : f[i] = Joined(v, i, f) /\ g[i] = Joined(v, i, g)
  <2> SUFFICES ASSUME NEW i \in 1 .. n PROVE f[i] = Joined(v, i, f) /\ g[i] = Joined(v, i, g)
    OBVIOUS
  <2>1. i \in 1 .. n + 1
    OBVIOUS
  <2> QED BY <1>1, <2>1 DEF Joins
<1>3. 0 \in Good
  OBVIOUS
<1>4. ASSUME NEW i \in Good PROVE i + 1 \in Good
  <2>1. SUFFICES ASSUME i + 1 \in 1 .. n PROVE f[i + 1] = g[i + 1]
    OBVIOUS
  <2>2. (i + 1) - 1 = i /\ i \in Nat
    OBVIOUS
  <2>3. CASE i = 0
    BY <1>2, <2>1, <2>2, <2>3 DEF Joined
  <2>4. CASE i # 0
    <3>1. f[i] = g[i]
      BY <2>1, <2>4
    <3> QED BY <1>2, <2>1, <2>2, <3>1 DEF Joined
  <2> QED BY <2>3, <2>4
<1> HIDE DEF Good
<1>5. Good \in SUBSET Nat
  BY DEF Good
<1>6. Good = Nat
  BY <1>3, <1>4, <1>5, NatInduct
<1>7. f[k] = g[k]
  BY <1>6 DEF Good
<1> QED BY <1>7 DEF f, g

\* Sequences of bytes.
Chunks(v, n) == \A j \in 1 .. n : v[j] \in Seq(Nat)

(* Nothing joined is empty.                                                 *)
LEMMA JoinZero ==
  ASSUME NEW v
  PROVE  Join(v, 0) = << >>
  BY JoinIs

(* Joining two sequences of bytes and a third one.                          *)
LEMMA BytesAssociative ==
  ASSUME NEW s \in Seq(Nat), NEW t \in Seq(Nat), NEW u \in Seq(Nat)
  PROVE  (s \o t) \o u = s \o (t \o u)
  BY ConcatAssociative, SMTT(30)

(* One sequence more is put at the end.                                     *)
LEMMA JoinStep ==
  ASSUME NEW v, NEW n \in Nat, v[n + 1] \in Seq(Nat)
  PROVE  Join(v, n + 1) = Join(v, n) \o v[n + 1]
<1>1. Join(v, n + 1) = JoinFcn(v, n + 1)[n + 1]
  <2>1. n + 1 \in Nat /\ n + 1 # 0
    OBVIOUS
  <2> QED BY <2>1, JoinIs
<1>2. JoinFcn(v, n + 1)[n + 1] = Joined(v, n + 1, JoinFcn(v, n + 1))
  <2>1. Joins(v, n + 1, JoinFcn(v, n + 1)) /\ n + 1 \in 1 .. n + 1
    BY JoinsExists
  <2> QED BY <2>1 DEF Joins
<1>3. CASE n = 0
  <2>1. Join(v, n) = << >>
    BY <1>3, JoinZero
  <2>2. Join(v, n + 1) = v[n + 1]
    BY <1>1, <1>2, <1>3 DEF Joined
  <2> QED BY <2>1, <2>2, ConcatEmptySeq
<1>4. CASE n # 0
  <2>1. Join(v, n) = JoinFcn(v, n)[n]
    BY <1>4, JoinIs
  <2>2. JoinFcn(v, n + 1)[n] = JoinFcn(v, n)[n]
    BY <1>4, JoinFcnPrefix
  <2>3. (n + 1) - 1 = n /\ n + 1 # 1
    BY <1>4
  <2> QED BY <1>1, <1>2, <2>1, <2>2, <2>3 DEF Joined
<1> QED BY <1>3, <1>4

(* Joined chunks are a sequence of bytes.                                   *)
LEMMA JoinType ==
  ASSUME NEW v, NEW n \in Nat, Chunks(v, n)
  PROVE  Join(v, n) \in Seq(Nat)
<1> DEFINE Good == {k \in Nat : k <= n => Join(v, k) \in Seq(Nat)}
<1>1. 0 \in Good
  BY JoinZero, EmptySeq
<1>2. ASSUME NEW k \in Good PROVE k + 1 \in Good
  <2>1. SUFFICES ASSUME k + 1 <= n PROVE Join(v, k + 1) \in Seq(Nat)
    OBVIOUS
  <2>2. k \in Nat /\ k <= n /\ k + 1 \in 1 .. n
    BY <2>1
  <2>3. v[k + 1] \in Seq(Nat) /\ Join(v, k) \in Seq(Nat)
    BY <2>2 DEF Chunks
  <2>4. Join(v, k) \o v[k + 1] \in Seq(Nat)
    BY <2>3, ConcatProperties
  <2> QED BY <2>2, <2>3, <2>4, JoinStep
<1> HIDE DEF Good
<1>3. Good \in SUBSET Nat
  BY DEF Good
<1>4. Good = Nat
  BY <1>1, <1>2, <1>3, NatInduct
<1> QED BY <1>4 DEF Good

(* What is joined depends on the sequences only.                            *)
LEMMA JoinSame ==
  ASSUME NEW v, NEW w, NEW n \in Nat, \A j \in 1 .. n : v[j] = w[j]
  PROVE  Join(v, n) = Join(w, n)
<1>1. [j \in 1 .. n |-> v[j]] = [j \in 1 .. n |-> w[j]]
  OBVIOUS
<1> QED BY <1>1 DEF Join

\* w is what v has left after its first d sequences and the first m bytes of the next.
Cuts(v, w, d, m, n) ==
  /\ w[1] = SubSeq(v[d + 1], m + 1, Len(v[d + 1]))
  /\ \A j \in 2 .. n - d : w[j] = v[d + j]

(* Joined, the two are the bytes of v cut in two.                           *)
LEMMA JoinCut ==
  ASSUME NEW v, NEW n \in Nat, Chunks(v, n), NEW d \in Nat, d < n,
         NEW m \in 0 .. Len(v[d + 1]), NEW w, Cuts(v, w, d, m, n)
  PROVE  /\ Chunks(w, n - d)
         /\ Join(v, n) = (Join(v, d) \o SubSeq(v[d + 1], 1, m)) \o Join(w, n - d)
         /\ Len(Join(v, d) \o SubSeq(v[d + 1], 1, m)) = Len(Join(v, d)) + m
<1> DEFINE a == Join(v, d)
           b == SubSeq(v[d + 1], 1, m)
           c == v[d + 1]
           Good == {k \in Nat : k + 1 <= n - d =>
                      Join(v, d + (k + 1)) = (a \o b) \o Join(w, k + 1)}
<1>1. d + 1 \in 1 .. n /\ d + 1 \in Nat
  OBVIOUS
<1>2. c \in Seq(Nat) /\ Len(c) \in Nat /\ \A i \in 1 .. Len(c) : c[i] \in Nat
  <2>1. c \in Seq(Nat)
    BY <1>1 DEF Chunks
  <2> QED BY <2>1, ElementOfSeq, LenProperties
<1>3. a \in Seq(Nat)
  <2>1. Chunks(v, d)
    BY DEF Chunks
  <2> QED BY <2>1, JoinType
<1>4. w[1] = SubSeq(c, m + 1, Len(c)) /\ w[1] \in Seq(Nat)
  <2>1. w[1] = SubSeq(c, m + 1, Len(c))
    BY DEF Cuts
  <2>2. m + 1 \in Int /\ Len(c) \in Int /\ \A i \in m + 1 .. Len(c) : c[i] \in Nat
    BY <1>2
  <2>3. SubSeq(c, m + 1, Len(c)) \in Seq(Nat)
    BY ONLY <2>2, SubSeqProperties
  <2> QED BY <2>1, <2>3
<1>5. b \in Seq(Nat) /\ Len(b) = m
  <2>1. 1 \in Int /\ m \in Int /\ \A i \in 1 .. m : c[i] \in Nat
    BY <1>2
  <2>2. SubSeq(c, 1, m) \in Seq(Nat) /\ Len(SubSeq(c, 1, m)) = IF 1 <= m THEN m - 1 + 1 ELSE 0
    BY ONLY <2>1, SubSeqProperties
  <2> QED BY <2>1, <2>2
<1>6. c = b \o w[1]
  <2>1. /\ c \in Seq(Nat) /\ 1 \in 1 .. Len(c) + 1 /\ m \in 1 - 1 .. Len(c)
        /\ Len(c) \in m .. Len(c)
    BY <1>2
  <2>2. SubSeq(c, 1, m) \o SubSeq(c, m + 1, Len(c)) = SubSeq(c, 1, Len(c))
    BY ONLY <2>1, ConcatAdjacentSubSeq
  <2>3. SubSeq(c, 1, Len(c)) = c
    BY <1>2, SubSeqFull
  <2> QED BY <1>4, <2>2, <2>3
<1>7. Chunks(w, n - d)
  <2> SUFFICES ASSUME NEW j \in 1 .. n - d PROVE w[j] \in Seq(Nat)
    BY DEF Chunks
  <2>1. CASE j = 1
    BY <1>4, <2>1
  <2>2. CASE j # 1
    <3>1. j \in 2 .. n - d /\ d + j \in 1 .. n
      BY <2>2
    <3> QED BY <3>1 DEF Cuts, Chunks
  <2> QED BY <2>1, <2>2
<1>8. a \o b \in Seq(Nat) /\ Len(a \o b) = Len(a) + m
  BY <1>3, <1>5, ConcatProperties
<1>9. \A k \in 1 .. n - d : Join(w, k) \in Seq(Nat)
  <2> SUFFICES ASSUME NEW k \in 1 .. n - d PROVE Join(w, k) \in Seq(Nat)
    OBVIOUS
  <2>1. Chunks(w, k) /\ k \in Nat
    BY <1>7 DEF Chunks
  <2> QED BY <2>1, JoinType
<1> HIDE DEF a, b, c
<1>10. 0 \in Good
  <2>1. Join(v, d + 1) = a \o c
    BY <1>2, JoinStep DEF a, c
  <2>2. Join(w, 0 + 1) = w[1]
    <3>00. 0 + 1 = 1
      OBVIOUS
    <3>0. 0 \in Nat /\ 0 + 1 = 1 /\ w[0 + 1] \in Seq(Nat)
      BY <1>4, <3>00
    <3>1. Join(w, 0 + 1) = Join(w, 0) \o w[0 + 1]
      BY ONLY <3>0, JoinStep
    <3>2. << >> \o w[1] = w[1]
      BY <1>4, ConcatEmptySeq
    <3>3. Join(w, 0) = << >>
      BY JoinZero
    <3> QED BY ONLY <3>0, <3>1, <3>2, <3>3
  <2>3. a \o (b \o w[1]) = (a \o b) \o w[1]
    BY <1>3, <1>4, <1>5, BytesAssociative
  <2>4. d + (0 + 1) = d + 1
    OBVIOUS
  <2> QED BY <1>6, <2>1, <2>2, <2>3, <2>4
<1>11. ASSUME NEW k \in Good PROVE k + 1 \in Good
  <2>1. k \in Nat
    OBVIOUS
  <2>2. SUFFICES ASSUME (k + 1) + 1 <= n - d
                 PROVE  Join(v, d + ((k + 1) + 1)) = (a \o b) \o Join(w, (k + 1) + 1)
    BY <2>1
  <2>3. Join(v, d + (k + 1)) = (a \o b) \o Join(w, k + 1)
    BY <2>1, <2>2
  <2>4. /\ d + (k + 1) \in Nat /\ (d + (k + 1)) + 1 = d + ((k + 1) + 1) /\ k + 1 \in Nat
        /\ (k + 1) + 1 \in 2 .. n - d /\ (k + 1) + 1 \in 1 .. n - d /\ k + 1 \in 1 .. n - d
    BY <2>1, <2>2
  <2>5. w[(k + 1) + 1] = v[d + ((k + 1) + 1)] /\ w[(k + 1) + 1] \in Seq(Nat)
    BY <1>7, <2>4 DEF Cuts, Chunks
  <2>6. Join(w, (k + 1) + 1) = Join(w, k + 1) \o w[(k + 1) + 1]
    BY <2>4, <2>5, JoinStep
  <2>7. Join(v, (d + (k + 1)) + 1) = Join(v, d + (k + 1)) \o v[(d + (k + 1)) + 1]
    BY <2>4, <2>5, JoinStep
  <2>8. Join(w, k + 1) \in Seq(Nat)
    BY <1>9, <2>4
  <2>9. ((a \o b) \o Join(w, k + 1)) \o w[(k + 1) + 1]
          = (a \o b) \o (Join(w, k + 1) \o w[(k + 1) + 1])
    BY <1>8, <2>5, <2>8, BytesAssociative
  <2> QED BY <2>3, <2>4, <2>5, <2>6, <2>7, <2>9
<1> HIDE DEF Good
<1>12. Good = Nat
  <2>1. Good \in SUBSET Nat
    BY DEF Good
  <2> QED BY <1>10, <1>11, <2>1, NatInduct
<1>13. Join(v, n) = (a \o b) \o Join(w, n - d)
  <2>1. (n - d) - 1 \in Good
    BY <1>12
  <2>2. ((n - d) - 1) + 1 = n - d /\ d + (n - d) = n
    OBVIOUS
  <2> QED BY <2>1, <2>2 DEF Good
<1> QED BY <1>7, <1>8, <1>13 DEF a, b, c

(* A tail of a tail.                                                        *)
LEMMA SubSeqTwice ==
  ASSUME NEW x \in Seq(Nat), NEW e \in Nat, e = Len(x), NEW s \in 0 .. e, NEW m \in 0 .. e - s
  PROVE  SubSeq(SubSeq(x, s + 1, e), m + 1, e - s) = SubSeq(x, s + m + 1, e)
<1>1. \A i \in 1 .. e : x[i] \in Nat
  BY ElementOfSeq
<1>2. PICK y : y = SubSeq(x, s + 1, e)
  OBVIOUS
<1>3. s + 1 \in Int /\ e \in Int /\ \A i \in s + 1 .. e : x[i] \in Nat
  BY <1>1
<1>4. /\ y \in Seq(Nat) /\ Len(y) = IF s + 1 <= e THEN e - (s + 1) + 1 ELSE 0
      /\ \A i \in 1 .. e - (s + 1) + 1 : y[i] = x[(s + 1) + i - 1]
  BY ONLY <1>2, <1>3, SubSeqProperties
<1>5. Len(y) = e - s /\ \A i \in 1 .. e - s : y[i] = x[s + i]
  <2>1. (e - (s + 1) + 1 = e - s) /\ (~(s + 1 <= e) => e - s = 0)
    OBVIOUS
  <2>2. \A i \in 1 .. e - s : (s + 1) + i - 1 = s + i
    OBVIOUS
  <2> QED BY <1>4, <2>1, <2>2
<1>6. PICK p, r : p = m + 1 /\ r = e - s
  OBVIOUS
<1>7. p \in Int /\ r \in Int /\ \A i \in p .. r : y[i] \in Nat
  BY <1>1, <1>5, <1>6
<1>8. PICK z : z = SubSeq(y, p, r)
  OBVIOUS
<1>9. /\ z \in Seq(Nat) /\ Len(z) = IF p <= r THEN r - p + 1 ELSE 0
      /\ \A i \in 1 .. r - p + 1 : z[i] = y[p + i - 1]
  BY ONLY <1>7, <1>8, SubSeqProperties
<1>10. PICK k : k = s + m + 1
  OBVIOUS
<1>11. k \in Int /\ e \in Int /\ \A i \in k .. e : x[i] \in Nat
  BY <1>1, <1>10
<1>12. PICK t : t = SubSeq(x, k, e)
  OBVIOUS
<1>13. /\ t \in Seq(Nat) /\ Len(t) = IF k <= e THEN e - k + 1 ELSE 0
       /\ \A i \in 1 .. e - k + 1 : t[i] = x[k + i - 1]
  BY ONLY <1>11, <1>12, SubSeqProperties
<1>14. (r - p + 1 = e - k + 1) /\ (p <= r <=> k <= e)
  BY <1>6, <1>10
<1>15. Len(z) = Len(t)
  BY <1>9, <1>13, <1>14
<1>16. ASSUME NEW i \in 1 .. Len(z) PROVE z[i] = t[i]
  <2>1. i \in 1 .. r - p + 1 /\ i \in 1 .. e - k + 1
    BY <1>6, <1>7, <1>9, <1>14
  <2>2. p + i - 1 \in 1 .. e - s /\ s + (p + i - 1) = k + i - 1
    BY <1>6, <1>10, <2>1
  <2> QED BY <1>5, <1>9, <1>13, <2>1, <2>2
<1>17. z = t
  BY <1>9, <1>13, <1>15, <1>16, SeqEqual
<1> QED BY <1>2, <1>6, <1>8, <1>10, <1>12, <1>17

-----------------------------------------------------------------------------
(* _do_send.                                                                *)

\* What the nodes of a buffer b have left to send, node by node and in one.
Left(b) == [i \in DOMAIN b |-> Unsent(b[i])]

WaitingIn(b) == FlattenSeq(Left(b))

\* Buffers of tcp_client.
Buffers == {b \in Seq(Nodes) : \A i \in DOMAIN b : Sound(b[i])}

(* The bytes a node has left.                                               *)
LEMMA UnsentIs ==
  ASSUME NEW node, Sound(node)
  PROVE  /\ Unsent(node) \in Seq(Nat)
         /\ Len(Unsent(node)) = Len(node.data) - node.snd
         /\ node.snd \in Nat /\ node.data \in Seq(Nat) /\ Len(node.data) \in Nat
<1>1. node.data \in Seq(Nat) /\ node.snd \in Nat /\ node.snd <= Len(node.data)
  BY DEF Sound, Nodes
<1>2. Len(node.data) \in Nat /\ \A i \in 1 .. Len(node.data) : node.data[i] \in Nat
  BY <1>1, LenProperties, ElementOfSeq
<1>3. PICK d, s, n : d = node.data /\ s = node.snd + 1 /\ n = Len(node.data)
  OBVIOUS
<1>4. s \in Int /\ n \in Int /\ \A i \in s .. n : d[i] \in Nat
  BY <1>1, <1>2, <1>3
<1>5. SubSeq(d, s, n) \in Seq(Nat) /\ Len(SubSeq(d, s, n)) = IF s <= n THEN n - s + 1 ELSE 0
  BY ONLY <1>4, SubSeqProperties
<1> QED BY <1>1, <1>2, <1>3, <1>5 DEF Unsent

(* The bytes that wait in a buffer are those of its nodes, joined.          *)
LEMMA WaitingIs ==
  ASSUME NEW b \in Buffers
  PROVE  /\ Len(b) \in Nat /\ DOMAIN b = 1 .. Len(b)
         /\ Chunks(Left(b), Len(b))
         /\ \A i \in 1 .. Len(b) : Sound(b[i]) /\ Left(b)[i] = Unsent(b[i])
         /\ WaitingIn(b) = Join(Left(b), Len(b))
         /\ WaitingIn(b) \in Seq(Nat)
<1>1. b \in Seq(Nodes) /\ \A i \in DOMAIN b : Sound(b[i])
  BY DEF Buffers
<1>2. Len(b) \in Nat /\ DOMAIN b = 1 .. Len(b)
  BY <1>1, LenProperties
<1>3. \A i \in 1 .. Len(b) : Sound(b[i]) /\ Left(b)[i] = Unsent(b[i])
  BY <1>1, <1>2 DEF Left
<1>4. Chunks(Left(b), Len(b))
  BY <1>3, UnsentIs DEF Chunks
<1>5. Left(b) = [j \in 1 .. Len(b) |-> Left(b)[j]]
  BY <1>2 DEF Left
<1>6. WaitingIn(b) = Join(Left(b), Len(b))
  BY <1>5 DEF WaitingIn, Join
<1> QED BY <1>2, <1>3, <1>4, <1>6, JoinType

\* The bytes of the first i nodes.
Upto(i) == Len(Join(Left(buffer), i))

\* The first i nodes are finished by n more bytes, and no other.
Finished(n, i) == Upto(i) <= n /\ (i < Len(buffer) => n < Upto(i + 1))

(* What the socket takes is the front of the bytes that wait; the rest      *)
(* waits on.                                                                *)
LEMMA TakenIs ==
  ASSUME ClientTypeOK, NEW n \in 0 .. Len(Waiting)
  PROVE  /\ Taken(n) \in Buffers
         /\ \E a \in Seq(Nat) : Len(a) = n /\ Waiting = a \o WaitingIn(Taken(n))
<1> DEFINE N == Len(buffer)
           v == Left(buffer)
<1>1. buffer \in Buffers /\ buffer \in Seq(Nodes)
  BY DEF ClientTypeOK, Buffers
<1>2. /\ N \in Nat /\ DOMAIN buffer = 1 .. N /\ Chunks(v, N)
      /\ \A i \in 1 .. N : Sound(buffer[i]) /\ v[i] = Unsent(buffer[i])
      /\ Waiting = Join(v, N) /\ Waiting \in Seq(Nat)
  <2>1. Waiting = WaitingIn(buffer)
    BY DEF Waiting, WaitingIn, Left
  <2> QED BY <1>1, <2>1, WaitingIs
<1>3. \A i \in 0 .. N : Join(v, i) \in Seq(Nat) /\ Upto(i) \in Nat
  <2> SUFFICES ASSUME NEW i \in 0 .. N PROVE Join(v, i) \in Seq(Nat) /\ Upto(i) \in Nat
    OBVIOUS
  <2>1. i \in Nat /\ Chunks(v, i)
    BY <1>2 DEF Chunks
  <2>2. Join(v, i) \in Seq(Nat)
    BY <2>1, JoinType
  <2> QED BY <2>2, LenProperties DEF Upto
<1>4. Upto(0) = 0 /\ Upto(N) = Len(Waiting) /\ Len(Waiting) \in Nat /\ n \in Nat
  <2>1. Join(v, 0) = << >>
    BY JoinZero
  <2>2. Len(Waiting) \in Nat
    BY <1>2, LenProperties
  <2> QED BY <1>2, <2>1, <2>2 DEF Upto
<1>a. N \in Nat
  BY <1>2
<1>5. \E i \in 0 .. N : Finished(n, i)
  <2> DEFINE S == {i \in 0 .. N : i = N \/ n < Upto(i + 1)}
  <2>1. S \in SUBSET Nat /\ N \in S
    BY <1>2
  <2>2. PICK i \in S : \A k \in S : i <= k
    BY <2>1, LeastElement
  <2>a. i \in 0 .. N /\ (i = N \/ n < Upto(i + 1))
    BY <2>2
  <2>b. i < N => i # N
    BY <1>a, <2>a
  <2>3. i \in 0 .. N /\ (i < N => n < Upto(i + 1))
    BY <2>a, <2>b
  <2>4. Upto(i) <= n
    <3>1. CASE i = 0
      BY <1>4, <3>1
    <3>2. CASE i # 0
      <4>1. i - 1 \in 0 .. N /\ ~(i <= i - 1) /\ (i - 1) + 1 = i
        BY <1>a, <2>a, <3>2
      <4>2. i - 1 \notin S
        BY <2>2, <4>1
      <4>3. ~(n < Upto(i))
        BY <4>1, <4>2
      <4> QED BY <1>3, <1>4, <2>3, <4>3
    <3> QED BY <3>1, <3>2
  <2> QED BY <2>3, <2>4 DEF Finished
<1>6. PICK d : d = CHOOSE i \in 0 .. N : Finished(n, i)
  OBVIOUS
<1>7. d \in 0 .. N /\ Finished(n, d)
  BY <1>5, <1>6
<1> DEFINE rest == SubSeq(buffer, d + 1, N)
           m    == n - Upto(d)
<1>8. Taken(n) = IF rest = << >> THEN rest ELSE [rest EXCEPT ![1].snd = @ + n - Upto(d)]
  <2> DEFINE total == [i \in 0 .. N |-> Len(FlattenSeq([j \in 1 .. i |-> Unsent(buffer[j])]))]
  <2>1. ASSUME NEW i \in 0 .. N PROVE total[i] = Upto(i)
    <3>1. \A j \in 1 .. i : Unsent(buffer[j]) = v[j]
      BY <1>2
    <3>2. [j \in 1 .. i |-> Unsent(buffer[j])] = [j \in 1 .. i |-> v[j]]
      BY <3>1
    <3> QED BY <3>2 DEF Upto, Join
  <2> HIDE DEF total
  <2>2. ASSUME NEW i \in 0 .. N
        PROVE  (total[i] <= n /\ (i < N => n < total[i + 1])) <=> Finished(n, i)
    <3>1. i < N => i + 1 \in 0 .. N
      BY <1>2
    <3> QED BY <2>1, <3>1 DEF Finished
  <2>3. d = CHOOSE i \in 0 .. N : total[i] <= n /\ (i < N => n < total[i + 1])
    BY <1>6, <2>2
  <2>4. total[d] = Upto(d)
    BY <1>7, <2>1
  <2>5. Taken(n) = IF rest = << >> THEN rest ELSE [rest EXCEPT ![1].snd = @ + n - total[d]]
    BY <2>3 DEF Taken, total
  <2> QED BY <2>4, <2>5
<1>9. /\ rest \in Seq(Nodes) /\ Len(rest) = N - d
      /\ \A i \in 1 .. N - d : rest[i] = buffer[d + i]
  <2>1. PICK b, s, e : b = buffer /\ s = d + 1 /\ e = N
    OBVIOUS
  <2>2. \A i \in 1 .. N : buffer[i] \in Nodes
    BY <1>1, ElementOfSeq
  <2>3. s \in Int /\ e \in Int /\ \A i \in s .. e : b[i] \in Nodes
    BY <1>2, <1>7, <2>1, <2>2
  <2>4. /\ SubSeq(b, s, e) \in Seq(Nodes)
        /\ Len(SubSeq(b, s, e)) = IF s <= e THEN e - s + 1 ELSE 0
        /\ \A i \in 1 .. e - s + 1 : SubSeq(b, s, e)[i] = b[s + i - 1]
    BY ONLY <2>3, SubSeqProperties
  <2>a. d \in 0 .. N /\ s = d + 1 /\ e = N
    BY <1>7, <2>1
  <2> HIDE DEF N
  <2>5. e - s + 1 = N - d /\ (s <= e => e - s + 1 = N - d) /\ (~(s <= e) => N - d = 0)
    BY ONLY <1>a, <2>a
  <2>6. \A i \in 1 .. N - d : s + i - 1 = d + i
    BY ONLY <1>a, <2>a
  <2> USE DEF N
  <2> QED BY <2>1, <2>4, <2>5, <2>6
<1> HIDE DEF rest, N
<1>10. CASE d = N
  <2>1. rest = << >>
    BY <1>2, <1>9, <1>10, EmptySeq
  <2>2. Taken(n) = << >>
    BY <1>8, <2>1
  <2>3. n = Len(Waiting)
    BY <1>2, <1>3, <1>4, <1>7, <1>10 DEF Finished
  <2>4. << >> \in Buffers /\ WaitingIn(<< >>) = << >>
    <3>1. << >> \in Seq(Nodes) /\ Len(<< >>) = 0 /\ DOMAIN << >> = {}
      BY EmptySeq
    <3>2. << >> \in Buffers
      BY <3>1 DEF Buffers
    <3>3. WaitingIn(<< >>) = Join(Left(<< >>), Len(<< >>))
      BY <3>2, WaitingIs
    <3> QED BY <3>1, <3>2, <3>3, JoinZero
  <2>5. Waiting \o << >> = Waiting
    BY <1>2, ConcatEmptySeq
  <2> QED BY <1>2, <2>2, <2>3, <2>4, <2>5
<1>11. CASE d # N
  <2>1. /\ d \in Nat /\ d < N /\ d + 1 \in 1 .. N /\ N - d \in Nat /\ 1 \in 1 .. N - d
        /\ N \in Nat
    BY <1>a, <1>7, <1>11
  <2>2. rest # << >> /\ rest[1] = buffer[d + 1]
    BY <1>9, <2>1, EmptySeq
  <2>3. Sound(buffer[d + 1]) /\ v[d + 1] = Unsent(buffer[d + 1])
    BY <1>2, <2>1
  <2>4. m \in 0 .. Len(v[d + 1])
    <3>1. v[d + 1] \in Seq(Nat)
      BY <2>1, <1>2 DEF Chunks
    <3>2. Join(v, d + 1) = Join(v, d) \o v[d + 1]
      BY <2>1, <3>1, JoinStep
    <3>3. Upto(d + 1) = Upto(d) + Len(v[d + 1]) /\ Len(v[d + 1]) \in Nat
      BY <1>3, <1>7, <3>1, <3>2, ConcatProperties, LenProperties DEF Upto
    <3>4. Upto(d) <= n /\ n < Upto(d + 1) /\ Upto(d) \in Nat
      BY <1>3, <1>7, <2>1 DEF Finished, N
    <3> QED BY <1>4, <3>3, <3>4
  <2> HIDE DEF m
  <2>5. PICK w : w = Taken(n)
    OBVIOUS
  <2>6. w = [rest EXCEPT ![1].snd = @ + n - Upto(d)]
    BY <1>8, <2>2, <2>5
  <2>7. PICK first : first = [buffer[d + 1] EXCEPT !.snd = @ + m]
    OBVIOUS
  <2>8. /\ Sound(first) /\ first.snd = buffer[d + 1].snd + m
        /\ first.data = buffer[d + 1].data
    <3>1. buffer[d + 1] \in Nodes
      BY <2>3 DEF Sound
    <3>2. /\ Len(v[d + 1]) = Len(buffer[d + 1].data) - buffer[d + 1].snd
          /\ buffer[d + 1].snd \in Nat /\ Len(buffer[d + 1].data) \in Nat
      BY <2>3, UnsentIs
    <3>3. m \in Nat /\ buffer[d + 1].snd + m <= Len(buffer[d + 1].data)
      BY <2>4, <3>2
    <3>4. first.snd = buffer[d + 1].snd + m /\ first.data = buffer[d + 1].data /\ first \in Nodes
      BY <2>7, <3>1, <3>2, <3>3, SMTT(30) DEF Nodes
    <3> QED BY <3>3, <3>4 DEF Sound
  <2>9. w = [rest EXCEPT ![1] = first]
    <3>1. rest[1].snd + n - Upto(d) = buffer[d + 1].snd + m
      <4>1. buffer[d + 1].snd \in Nat /\ Upto(d) \in Nat
        BY <1>3, <1>7, <2>3, UnsentIs
      <4> QED BY <1>4, <2>2, <4>1 DEF m
    <3> QED BY <2>2, <2>6, <2>7, <3>1
  <2>10. /\ w \in Seq(Nodes) /\ Len(w) = N - d /\ w[1] = first
         /\ \A i \in 2 .. N - d : w[i] = buffer[d + i]
    <3>1. first \in Nodes
      BY <2>8 DEF Sound
    <3>2. w \in Seq(Nodes) /\ Len(w) = Len(rest)
      BY <1>9, <2>1, <2>9, <3>1, ExceptSeq
    <3>3. DOMAIN rest = 1 .. N - d
      BY <1>9, LenProperties
    <3> QED BY <1>9, <2>1, <2>9, <3>2, <3>3
  <2>11. w \in Buffers
    <3>1. DOMAIN w = 1 .. N - d
      BY <2>10, LenProperties
    <3>2. ASSUME NEW i \in 1 .. N - d PROVE Sound(w[i])
      <4>1. i # 1 => i \in 2 .. N - d /\ d + i \in 1 .. N
        BY <2>1
      <4> QED BY <1>2, <2>8, <2>10, <4>1
    <3> QED BY <2>10, <3>1, <3>2 DEF Buffers
  <2>12. PICK u : u = Left(w)
    OBVIOUS
  <2>13. WaitingIn(w) = Join(u, N - d) /\ WaitingIn(w) \in Seq(Nat)
         /\ \A i \in 1 .. N - d : u[i] = Unsent(w[i])
    BY <2>10, <2>11, <2>12, WaitingIs
  <2>14. Cuts(v, u, d, m, N)
    <3>1. u[1] = SubSeq(v[d + 1], m + 1, Len(v[d + 1]))
      <4>1. PICK x, s, e : x = buffer[d + 1].data /\ s = buffer[d + 1].snd /\ e = Len(x)
        OBVIOUS
      <4>2. x \in Seq(Nat) /\ s \in Nat /\ e \in Nat /\ s <= e /\ m \in 0 .. e - s
        BY <2>3, <2>4, <4>1, UnsentIs
      <4>3. u[1] = SubSeq(x, s + m + 1, e)
        BY <2>1, <2>8, <2>10, <2>13, <4>1 DEF Unsent
      <4>4. v[d + 1] = SubSeq(x, s + 1, e) /\ Len(v[d + 1]) = e - s
        BY <2>3, <4>1, UnsentIs DEF Unsent
      <4>5. PICK c : c = m
        OBVIOUS
      <4>6. s \in 0 .. e /\ c \in 0 .. e - s /\ e = Len(x)
        BY <4>1, <4>2, <4>5
      <4>7. SubSeq(SubSeq(x, s + 1, e), c + 1, e - s) = SubSeq(x, s + c + 1, e)
        BY <4>2, <4>6, SubSeqTwice
      <4> QED BY <4>3, <4>4, <4>5, <4>7
    <3>2. ASSUME NEW j \in 2 .. N - d PROVE u[j] = v[d + j]
      <4>1. j \in 1 .. N - d /\ d + j \in 1 .. N
        BY <2>1
      <4> QED BY <1>2, <2>10, <2>13, <4>1
    <3> QED BY <3>1, <3>2 DEF Cuts
  <2>15. PICK a : a = Join(v, d) \o SubSeq(v[d + 1], 1, m)
    OBVIOUS
  <2>16. Waiting = a \o WaitingIn(w) /\ Len(a) = Len(Join(v, d)) + m
    <3>1. PICK x, c, k : x = v /\ c = m /\ k = N
      OBVIOUS
    <3>2. /\ Cuts(x, u, d, c, k) /\ Chunks(x, k) /\ k \in Nat /\ d < k /\ d \in Nat
          /\ c \in 0 .. Len(x[d + 1])
      BY <1>2, <2>1, <2>4, <2>14, <3>1
    <3>3. /\ Chunks(u, k - d)
          /\ Join(x, k) = (Join(x, d) \o SubSeq(x[d + 1], 1, c)) \o Join(u, k - d)
          /\ Len(Join(x, d) \o SubSeq(x[d + 1], 1, c)) = Len(Join(x, d)) + c
      BY ONLY <3>2, JoinCut
    <3> QED BY <1>2, <2>13, <2>15, <3>1, <3>3
  <2>17. a \in Seq(Nat) /\ Len(a) = n
    <3>1. v[d + 1] \in Seq(Nat)
      BY <2>1, <1>2 DEF Chunks
    <3>2. PICK x : x = v[d + 1]
      OBVIOUS
    <3>3. Len(x) \in Nat /\ \A i \in 1 .. Len(x) : x[i] \in Nat
      BY <3>1, <3>2, LenProperties, ElementOfSeq
    <3>4. 1 \in Int /\ m \in Int /\ \A i \in 1 .. m : x[i] \in Nat
      BY <2>4, <3>2, <3>3
    <3>5. SubSeq(x, 1, m) \in Seq(Nat)
      BY ONLY <3>4, SubSeqProperties
    <3>6. Join(v, d) \in Seq(Nat)
      BY <1>3, <1>7
    <3>7. a \in Seq(Nat)
      BY <2>15, <3>2, <3>5, <3>6, ConcatProperties
    <3>8. Upto(d) = Len(Join(v, d)) /\ Upto(d) \in Nat
      BY <1>3, <1>7 DEF Upto
    <3> QED BY <1>4, <2>16, <3>7, <3>8 DEF m
  <2> QED BY <2>5, <2>11, <2>16, <2>17
<1> QED BY <1>10, <1>11

(* A buffer gets another node.                                              *)
LEMMA NodeAdded ==
  ASSUME NEW b \in Buffers, NEW bytes \in Seq(Nat)
  PROVE  /\ Append(b, Node(bytes)) \in Buffers
         /\ WaitingIn(Append(b, Node(bytes))) = WaitingIn(b) \o bytes
<1> DEFINE n == Len(b)
           c == Append(b, Node(bytes))
<1>1. b \in Seq(Nodes) /\ Node(bytes) \in Nodes /\ Len(bytes) \in Nat
  <2>1. Len(bytes) \in Nat
    BY LenProperties
  <2> QED BY <2>1 DEF Buffers, Nodes, Node
<1>2. /\ n \in Nat /\ DOMAIN b = 1 .. n /\ Chunks(Left(b), n)
      /\ \A i \in 1 .. n : Sound(b[i]) /\ Left(b)[i] = Unsent(b[i])
      /\ WaitingIn(b) = Join(Left(b), n)
  BY WaitingIs
<1>3. /\ c \in Seq(Nodes) /\ Len(c) = n + 1 /\ c[n + 1] = Node(bytes)
      /\ \A i \in 1 .. n : c[i] = b[i]
  BY <1>1, AppendProperties
<1>4. Sound(Node(bytes)) /\ Unsent(Node(bytes)) = bytes
  <2>1. Node(bytes).snd = 0 /\ Node(bytes).data = bytes /\ 0 + 1 = 1
    BY DEF Node
  <2>2. SubSeq(bytes, 1, Len(bytes)) = bytes
    BY SubSeqFull
  <2> QED BY <1>1, <2>1, <2>2 DEF Sound, Unsent
<1> HIDE DEF c, n
<1>5. c \in Buffers
  <2>1. DOMAIN c = 1 .. n + 1
    BY <1>3, LenProperties
  <2>2. \A i \in 1 .. n + 1 : i = n + 1 \/ i \in 1 .. n
    BY <1>2
  <2> QED BY <1>2, <1>3, <1>4, <2>1, <2>2 DEF Buffers
<1>6. /\ WaitingIn(c) = Join(Left(c), n + 1)
      /\ \A i \in 1 .. n + 1 : Left(c)[i] = Unsent(c[i])
  BY <1>3, <1>5, WaitingIs
<1>7. n + 1 \in 1 .. n + 1 /\ \A i \in 1 .. n : i \in 1 .. n + 1
  BY <1>2
<1>8. Left(c)[n + 1] = bytes
  BY <1>3, <1>4, <1>6, <1>7
<1>9. Join(Left(c), n + 1) = Join(Left(c), n) \o bytes
  <2>1. PICK v : v = Left(c)
    OBVIOUS
  <2>2. n \in Nat /\ v[n + 1] \in Seq(Nat)
    BY <1>2, <1>8, <2>1
  <2>3. Join(v, n + 1) = Join(v, n) \o v[n + 1]
    BY <2>2, JoinStep
  <2> QED BY <1>8, <2>1, <2>3
<1>10. Join(Left(c), n) = Join(Left(b), n)
  <2>1. \A i \in 1 .. n : Left(c)[i] = Left(b)[i]
    BY <1>2, <1>3, <1>6, <1>7
  <2> QED BY <1>2, <2>1, JoinSame
<1>11. WaitingIn(c) = WaitingIn(b) \o bytes
  BY <1>2, <1>6, <1>9, <1>10
<1> QED BY <1>5, <1>11 DEF c

(* An empty buffer holds nothing back.                                      *)
LEMMA NothingWaits == << >> \in Buffers /\ WaitingIn(<< >>) = << >>
<1>1. << >> \in Seq(Nodes) /\ Len(<< >>) = 0 /\ DOMAIN << >> = {}
  BY EmptySeq
<1>2. << >> \in Buffers
  BY <1>1 DEF Buffers
<1>3. WaitingIn(<< >>) = Join(Left(<< >>), Len(<< >>))
  BY <1>2, WaitingIs
<1> QED BY <1>1, <1>2, <1>3, JoinZero

-----------------------------------------------------------------------------
(* Streams without a gap.                                                   *)

\* The bytes of a stream that ends with byte h.
Numbered(all, h) == all = [i \in 1 .. Len(all) |-> h - Len(all) + i]

\* It starts with the first byte of an order unless the connection before was torn.
StartsWhole(all, t) == all # << >> /\ (all[1] - 1) % OrderLen # 0 => t

(* The property in these words.                                             *)
LEMMA StreamIs ==
  StreamHasNoGap <=> /\ Numbered(stream \o WaitingIn(buffer), handed)
                     /\ StartsWhole(stream \o WaitingIn(buffer), torn)
  BY DEF StreamHasNoGap, Numbered, StartsWhole, Waiting, WaitingIn, Left

(* The remainder of the next order's first byte.                            *)
LEMMA WholeOrders ==
  ASSUME NEW a \in Nat, a % OrderLen = 0
  PROVE  (a + OrderLen) % OrderLen = 0
<1>1. OrderLen \in Nat /\ OrderLen > 0
  BY TcpClientAssumption
<1>2. PICK L : L = OrderLen
  OBVIOUS
<1>3. PICK b : b = a + L
  OBVIOUS
<1>4. L \in Nat /\ L > 0 /\ b \in Nat
  BY <1>1, <1>2, <1>3
<1>5. PICK x, y, z : x = a \div L /\ y = b \div L /\ z = b % L
  OBVIOUS
<1>a. a % L = 0 /\ L \in Nat \ {0}
  BY <1>2, <1>4
<1>6. a = L * x + 0 /\ x \in Nat
  BY <1>a, <1>5, NatDivision
<1>7. b = L * y + z /\ y \in Nat /\ z \in 0 .. L - 1
  BY <1>a, <1>4, <1>5, NatDivision
<1>8. a = L * x
  <2>1. L * x \in Nat
    BY <1>4, <1>6
  <2> QED BY <1>6, <2>1
<1>9. L * (x + 1) = L * y + z
  <2>1. L * (x + 1) = L * x + L
    BY <1>4, <1>6
  <2> QED BY <1>3, <1>7, <1>8, <2>1
<1>10. z = L * (x + 1 - y)
  <2>1. L * (x + 1 - y) = L * (x + 1) - L * y
    BY <1>4, <1>6, <1>7
  <2>2. L * (x + 1) \in Nat /\ L * y \in Nat
    BY <1>4, <1>6, <1>7
  <2> QED BY <1>7, <1>9, <2>1, <2>2
<1>11. PICK k : k = x + 1 - y
  OBVIOUS
<1>12. k \in Int /\ z = L * k
  BY <1>6, <1>7, <1>10, <1>11
<1>13. k >= 1 => L * k >= L
  <2>1. k >= 1 => L * k = L + L * (k - 1) /\ L * (k - 1) \in Nat
    BY <1>4, <1>12
  <2> QED BY <1>4, <2>1
<1>14. k <= -1 => L * k <= -L
  <2>1. k <= -1 => L * k = -L - L * (-1 - k) /\ L * (-1 - k) \in Nat
    BY <1>4, <1>12
  <2> QED BY <1>4, <2>1
<1>15. k = 0
  BY <1>4, <1>7, <1>12, <1>13, <1>14
<1>16. z = 0
  BY <1>4, <1>12, <1>15
<1> QED BY <1>2, <1>3, <1>5, <1>16

(* An order more at the end of a stream.                                    *)
LEMMA OrderAdded ==
  ASSUME NEW all \in Seq(Nat), NEW h \in Nat, h % OrderLen = 0, NEW t,
         Numbered(all, h), StartsWhole(all, t),
         NEW mine, mine = [i \in 1 .. OrderLen |-> h + i]
  PROVE  Numbered(all \o mine, h + OrderLen) /\ StartsWhole(all \o mine, t)
<1> DEFINE L == OrderLen
           n == Len(all)
           new == all \o mine
<1>1. L \in Nat /\ L > 0
  BY TcpClientAssumption
<1>2. mine \in Seq(Nat) /\ Len(mine) = L /\ \A i \in 1 .. L : mine[i] = h + i
  <2>1. \A i \in 1 .. L : h + i \in Nat
    BY <1>1
  <2> QED BY <1>1, <2>1, IsASeq
<1>3. n \in Nat
  BY LenProperties
<1>4. /\ new \in Seq(Nat) /\ Len(new) = n + L
      /\ \A i \in 1 .. n + L : new[i] = IF i <= n THEN all[i] ELSE mine[i - n]
  <2>1. all \in Seq(Nat) /\ mine \in Seq(Nat)
    BY <1>2
  <2>2. /\ new \in Seq(Nat) /\ Len(new) = n + Len(mine)
        /\ \A i \in 1 .. n + Len(mine) : new[i] = IF i <= n THEN all[i] ELSE mine[i - n]
    BY ONLY <2>1, ConcatProperties
  <2> QED BY <1>2, <2>2
<1>5. \A i \in 1 .. n : all[i] = h - n + i
  BY DEF Numbered
<1> HIDE DEF new, L, n
<1>6. ASSUME NEW i \in 1 .. n + L PROVE new[i] = (h + L) - (n + L) + i
  <2>1. CASE i <= n
    <3>1. i \in 1 .. n
      BY <1>1, <1>3, <2>1
    <3>2. new[i] = h - n + i
      BY <1>4, <1>5, <2>1, <3>1
    <3>3. h - n + i = (h + L) - (n + L) + i
      BY <1>1, <1>3, <3>1
    <3> QED BY <3>2, <3>3
  <2>2. CASE ~(i <= n)
    <3>1. i - n \in 1 .. L
      BY <1>1, <1>3, <2>2
    <3>2. new[i] = h + (i - n)
      BY <1>2, <1>4, <2>2, <3>1
    <3> QED BY <1>1, <1>3, <3>2
  <2> QED BY <2>1, <2>2
<1>7. Numbered(new, h + L)
  <2>1. DOMAIN new = 1 .. n + L /\ new = [i \in DOMAIN new |-> new[i]]
    BY <1>4, LenProperties
  <2>2. new = [i \in 1 .. n + L |-> (h + L) - (n + L) + i]
    BY <1>6, <2>1
  <2> QED BY <1>4, <2>2 DEF Numbered
<1>8. StartsWhole(new, t)
  <2>1. 1 \in 1 .. n + L
    BY <1>1, <1>3
  <2>2. CASE n = 0
    <3>1. ~(1 <= n) /\ 1 - n = 1 /\ 1 \in 1 .. L
      BY <1>1, <2>2
    <3>2. new[1] = mine[1] /\ mine[1] = h + 1
      BY <1>2, <1>4, <2>1, <3>1
    <3>3. new[1] - 1 = h
      BY <3>2
    <3> QED BY <3>3 DEF StartsWhole
  <2>3. CASE n # 0
    <3>1. 1 <= n
      BY <1>3, <2>3
    <3>2. new[1] = all[1]
      BY <1>4, <2>1, <3>1
    <3>3. all # << >>
      BY <2>3, EmptySeq DEF n
    <3> QED BY <3>2, <3>3 DEF StartsWhole
  <2> QED BY <2>2, <2>3
<1> QED BY <1>7, <1>8 DEF new, L

(* A stream that starts with the tail of an order.                          *)
LEMMA TailLeft ==
  ASSUME NEW h \in Nat, h % OrderLen = 0, NEW n \in 0 .. OrderLen - 1, NEW new,
         new \in Seq(Nat), Len(new) = OrderLen - n, \A i \in 1 .. OrderLen - n : new[i] = h + (n + i)
  PROVE  Numbered(new, h + OrderLen) /\ StartsWhole(new, n > 0)
<1> DEFINE L == OrderLen
<1>1. L \in Nat /\ L > 0
  BY TcpClientAssumption
<1>a. Len(new) = L - n /\ \A i \in 1 .. L - n : new[i] = h + (n + i)
  OBVIOUS
<1>b. n \in Nat /\ n < L
  BY <1>1
<1> HIDE DEF L
<1>2. \A i \in 1 .. L - n : new[i] = (h + L) - (L - n) + i
  <2>1. \A i \in 1 .. L - n : h + (n + i) = (h + L) - (L - n) + i
    BY <1>1, <1>b
  <2> QED BY <1>a, <2>1
<1>3. Numbered(new, h + L)
  <2>1. DOMAIN new = 1 .. L - n /\ new = [i \in DOMAIN new |-> new[i]]
    BY <1>a, LenProperties
  <2>2. new = [i \in 1 .. L - n |-> (h + L) - (L - n) + i]
    BY <1>2, <2>1
  <2> QED BY <1>a, <2>2 DEF Numbered
<1>4. StartsWhole(new, n > 0)
  <2>1. CASE n = 0
    <3>1. 1 \in 1 .. L - n
      BY <1>1, <2>1
    <3>2. new[1] = h + (n + 1)
      BY <1>a, <3>1
    <3>3. new[1] - 1 = h
      BY <2>1, <3>2
    <3> QED BY <3>3 DEF StartsWhole
  <2>2. CASE n # 0
    <3>1. n > 0
      BY <1>b, <2>2
    <3> QED BY <3>1 DEF StartsWhole
  <2> QED BY <2>1, <2>2
<1> QED BY <1>3, <1>4 DEF L

-----------------------------------------------------------------------------
(* The steps.                                                               *)

\* The next order's bytes.
LEMMA MineIs ==
  ASSUME ClientTypeOK
  PROVE  /\ Mine \in Seq(Nat) /\ Len(Mine) = OrderLen
         /\ \A i \in 1 .. OrderLen : Mine[i] = handed + i
         /\ OrderLen \in Nat /\ OrderLen > 0
<1>1. OrderLen \in Nat /\ OrderLen > 0 /\ handed \in Nat
  BY TcpClientAssumption DEF ClientTypeOK
<1>2. \A i \in 1 .. OrderLen : handed + i \in Nat
  BY <1>1
<1> QED BY <1>1, <1>2, IsASeq DEF Mine

(* What send() keeps of an order when the socket took n bytes of it.        *)
LEMMA RemainderIs ==
  ASSUME ClientTypeOK, NEW n \in 0 .. OrderLen
  PROVE  /\ Remainder(n) \in Buffers
         /\ SubSeq(Mine, 1, n) \in Seq(Nat)
         /\ WaitingIn(Remainder(n)) \in Seq(Nat)
         /\ SubSeq(Mine, 1, n) \o WaitingIn(Remainder(n)) = Mine
         /\ Len(WaitingIn(Remainder(n))) = OrderLen - n
         /\ \A i \in 1 .. OrderLen - n : WaitingIn(Remainder(n))[i] = handed + (n + i)
<1>1. PICK x, e, h : x = Mine /\ e = OrderLen /\ h = handed
  OBVIOUS
<1>2. x \in Seq(Nat) /\ Len(x) = e /\ e \in Nat /\ \A i \in 1 .. e : x[i] = h + i
  BY <1>1, MineIs
<1>a. \A i \in 1 .. e : x[i] \in Nat
  BY <1>2, ElementOfSeq
<1>b. n \in 0 .. e
  BY <1>1
<1>3. PICK y : y = SubSeq(x, n + 1, e)
  OBVIOUS
<1>4. y \in Seq(Nat) /\ Len(y) = e - n /\ \A i \in 1 .. e - n : y[i] = x[n + i]
  <2>1. PICK k : k = n + 1
    OBVIOUS
  <2>2. k \in Int /\ e \in Int /\ \A i \in k .. e : x[i] \in Nat
    BY <1>2, <1>a, <1>b, <2>1
  <2>3. /\ SubSeq(x, k, e) \in Seq(Nat)
        /\ Len(SubSeq(x, k, e)) = IF k <= e THEN e - k + 1 ELSE 0
        /\ \A i \in 1 .. e - k + 1 : SubSeq(x, k, e)[i] = x[k + i - 1]
    BY ONLY <2>2, SubSeqProperties
  <2>4. e - k + 1 = e - n /\ (~(k <= e) => e - n = 0) /\ \A i \in 1 .. e - n : k + i - 1 = n + i
    BY <1>2, <1>b, <2>1
  <2> QED BY <1>3, <2>1, <2>3, <2>4
<1>5. PICK f : f = SubSeq(x, 1, n)
  OBVIOUS
<1>6. f \in Seq(Nat)
  <2>1. 1 \in Int /\ n \in Int /\ \A i \in 1 .. n : x[i] \in Nat
    BY <1>2, <1>a, <1>b
  <2> QED BY ONLY <1>5, <2>1, SubSeqProperties
<1>7. f \o y = x
  <2>1. /\ x \in Seq(Nat) /\ 1 \in 1 .. Len(x) + 1 /\ n \in 1 - 1 .. Len(x)
        /\ Len(x) \in n .. Len(x)
    BY <1>2, <1>b
  <2>2. SubSeq(x, 1, n) \o SubSeq(x, n + 1, Len(x)) = SubSeq(x, 1, Len(x))
    BY ONLY <2>1, ConcatAdjacentSubSeq
  <2>3. SubSeq(x, 1, Len(x)) = x
    BY <1>2, SubSeqFull
  <2> QED BY <1>2, <1>3, <1>5, <2>2, <2>3
<1>8. Remainder(n) \in Buffers /\ WaitingIn(Remainder(n)) = y
  <2>1. CASE n = OrderLen
    <3>1. y = << >>
      BY <1>1, <1>2, <1>4, <2>1, EmptySeq
    <3> QED BY <2>1, <3>1, NothingWaits DEF Remainder
  <2>2. CASE n # OrderLen
    <3>1. Remainder(n) = Append(<< >>, Node(y))
      BY <1>1, <1>3, <2>2 DEF Remainder
    <3>2. /\ Append(<< >>, Node(y)) \in Buffers
          /\ WaitingIn(Append(<< >>, Node(y))) = WaitingIn(<< >>) \o y
      BY <1>4, NothingWaits, NodeAdded
    <3>3. << >> \o y = y
      BY <1>4, ConcatEmptySeq
    <3> QED BY <3>1, <3>2, <3>3, NothingWaits
  <2> QED BY <2>1, <2>2
<1>9. \A i \in 1 .. e - n : y[i] = h + (n + i)
  <2>1. \A i \in 1 .. e - n : n + i \in 1 .. e
    BY <1>2, <1>b
  <2> QED BY <1>2, <1>4, <2>1
<1> QED BY <1>1, <1>4, <1>5, <1>6, <1>7, <1>8, <1>9

\* What the current connection took and what waits for it.
All == stream \o WaitingIn(buffer)

\* Nothing of the property is touched.
Still ==
  /\ buffer' = buffer /\ handed' = handed /\ stream' = stream /\ torn' = torn

(* A buffer and a stream whose bytes go on where they were.                 *)
LEMMA StillHasNoGap ==
  ASSUME StreamHasNoGap, All' = All, handed' = handed, torn' = torn
  PROVE  StreamHasNoGap'
<1>1. Numbered(All, handed) /\ StartsWhole(All, torn)
  BY StreamIs DEF All
<1>2. Numbered(All, handed)' /\ StartsWhole(All, torn)'
  BY <1>1 DEF Numbered, StartsWhole
<1>3. (StreamHasNoGap <=> Numbered(All, handed) /\ StartsWhole(All, torn))'
  BY StreamIs, PTL DEF All
<1> QED BY <1>2, <1>3

(* A connection that is closed leaves nothing behind but the rest of an     *)
(* order.                                                                   *)
LEMMA ClosedHasNoGap ==
  ASSUME ClientTypeOK, NEW h, NEW rest \in Buffers, NEW t,
         stream' = << >>, buffer' = rest, torn' = t, handed' = h,
         WaitingIn(rest) \in Seq(Nat),
         Numbered(WaitingIn(rest), h), StartsWhole(WaitingIn(rest), t)
  PROVE  StreamHasNoGap'
<1>1. << >> \o WaitingIn(rest) = WaitingIn(rest)
  BY ConcatEmptySeq
<1>2. All' = WaitingIn(rest)
  BY <1>1 DEF All, WaitingIn, Left
<1>3. (StreamHasNoGap <=> Numbered(All, handed) /\ StartsWhole(All, torn))'
  BY StreamIs, PTL DEF All
<1> QED BY <1>2, <1>3 DEF Numbered, StartsWhole

(* The bytes of a buffer are a sequence, and the streams with them.         *)
LEMMA AllIs ==
  ASSUME ClientTypeOK
  PROVE  /\ buffer \in Buffers /\ Waiting = WaitingIn(buffer)
         /\ WaitingIn(buffer) \in Seq(Nat) /\ stream \in Seq(Nat) /\ All \in Seq(Nat)
<1>1. buffer \in Buffers /\ stream \in Seq(Nat)
  BY DEF ClientTypeOK, Buffers
<1>2. Waiting = WaitingIn(buffer)
  BY DEF Waiting, WaitingIn, Left
<1>3. WaitingIn(buffer) \in Seq(Nat)
  BY <1>1, WaitingIs
<1> QED BY <1>1, <1>2, <1>3, ConcatProperties DEF All

(* The client starts with nothing handed over.                              *)
LEMMA InitClientInv == Init => ClientInv
<1>1. SUFFICES ASSUME Init PROVE ClientInv
  OBVIOUS
<1>2. << >> \in Buffers /\ WaitingIn(<< >>) = << >>
  BY NothingWaits
<1>3. ClientTypeOK
  <2>1. OrderLen \in Nat \ {0} /\ 0 % OrderLen = 0
    <3>1. OrderLen \in Nat \ {0} /\ 0 \in Nat
      BY TcpClientAssumption
    <3>2. PICK x, y : x = 0 \div OrderLen /\ y = 0 % OrderLen
      OBVIOUS
    <3>3. 0 = OrderLen * x + y /\ x \in Nat /\ y \in 0 .. OrderLen - 1
      BY <3>1, <3>2, NatDivision
    <3>4. OrderLen * x \in Nat
      BY <3>1, <3>3
    <3>5. y = 0
      BY <3>3, <3>4
    <3> QED BY <3>1, <3>2, <3>5
  <2>2. /\ << >> \in Seq(Nodes) /\ << >> \in Seq(Nat) /\ MaxFds \in Nat
        /\ \A i \in DOMAIN buffer : Sound(buffer[i])
    BY <1>1, <1>2, EmptySeq, TcpClientAssumption DEF Init, Buffers
  <2> QED BY <1>1, <2>1, <2>2 DEF Init, ClientTypeOK
<1>4. StreamHasNoGap
  <2>1. All = << >> /\ handed = 0 /\ torn = FALSE
    <3>1. << >> \o << >> = << >>
      BY EmptySeq, ConcatEmptySeq
    <3> QED BY <1>1, <1>2, <3>1 DEF Init, All
  <2>2. Len(<< >>) = 0 /\ << >> = [i \in 1 .. 0 |-> handed - 0 + i]
    OBVIOUS
  <2> QED BY <2>1, <2>2, StreamIs DEF All, Numbered, StartsWhole
<1> QED BY <1>3, <1>4 DEF ClientInv

(* An empty stream has no gap.                                              *)
LEMMA EmptyHasNoGap ==
  ASSUME NEW h \in Nat
  PROVE  Numbered(<< >>, h) /\ StartsWhole(<< >>, FALSE)
<1>1. Len(<< >>) = 0 /\ << >> = [i \in 1 .. 0 |-> h - 0 + i]
  OBVIOUS
<1> QED BY <1>1 DEF Numbered, StartsWhole

(* Everything but the buffer and the counters of the orders keeps its type. *)
LEMMA TypeKept ==
  ASSUME ClientTypeOK, NEW b \in Buffers, buffer' = b, stream' \in Seq(Nat),
         sta' \in {"CLOSED", "CONNECTING", "CONNECTED"}, pc' \in {"run", "flush"},
         q' \in Nat, fds' \in Nat, pushed' \in Nat, faults' \in Nat, leaked' \in Nat,
         torn' \in BOOLEAN, handed' \in {handed, handed + OrderLen}
  PROVE  ClientTypeOK'
<1>1. handed \in Nat /\ handed % OrderLen = 0 /\ OrderLen \in Nat
  BY TcpClientAssumption DEF ClientTypeOK
<1>2. (handed + OrderLen) % OrderLen = 0 /\ handed + OrderLen \in Nat
  <2>1. PICK h : h = handed
    OBVIOUS
  <2>2. (h + OrderLen) % OrderLen = 0
    BY <1>1, <2>1, WholeOrders
  <2> QED BY <1>1, <2>1, <2>2
<1>3. handed' \in Nat /\ handed' % OrderLen = 0
  BY <1>1, <1>2
<1>4. buffer' \in Seq(Nodes) /\ \A i \in DOMAIN buffer' : Sound(buffer'[i])
  BY DEF Buffers
<1> QED BY <1>3, <1>4 DEF ClientTypeOK

(* An error that closes the connection during run().                        *)
LEMMA CloseOk ==
  ASSUME ClientInv, InCall, Close(<< >>, FALSE), Fault, leaked' = leaked
  PROVE  ClientInv'
<1>1. ClientTypeOK /\ handed \in Nat
  BY DEF ClientInv, ClientTypeOK
<1>2. << >> \in Buffers /\ WaitingIn(<< >>) = << >> /\ << >> \in Seq(Nat)
  BY NothingWaits, EmptySeq
<1>3. PICK h : h = handed
  OBVIOUS
<1>4. /\ buffer' = << >> /\ stream' = << >> /\ torn' = FALSE /\ handed' = h
  BY <1>3 DEF Close, InCall
<1>5. StreamHasNoGap'
  <2>1. Numbered(<< >>, h) /\ StartsWhole(<< >>, FALSE)
    BY <1>1, <1>3, EmptyHasNoGap
  <2>2. PICK rest, t : rest = << >> /\ t = FALSE
    OBVIOUS
  <2>3. /\ rest \in Buffers /\ WaitingIn(rest) \in Seq(Nat)
        /\ stream' = << >> /\ buffer' = rest /\ torn' = t
        /\ Numbered(WaitingIn(rest), h) /\ StartsWhole(WaitingIn(rest), t)
    BY <1>2, <1>4, <2>1, <2>2
  <2> QED BY <1>1, <1>4, <2>3, ClosedHasNoGap
<1>6. /\ sta' = "CLOSED" /\ pc' = "flush" /\ q' = q /\ fds' = fds + 1 /\ pushed' = pushed
      /\ faults' = faults + 1 /\ leaked' = leaked
  BY DEF Close, InCall, Fault
<1>7. /\ q' \in Nat /\ fds' \in Nat /\ pushed' \in Nat /\ faults' \in Nat /\ leaked' \in Nat
      /\ sta' \in {"CLOSED", "CONNECTING", "CONNECTED"} /\ pc' \in {"run", "flush"}
      /\ torn' \in BOOLEAN /\ handed' \in {handed, handed + OrderLen}
      /\ stream' \in Seq(Nat)
  <2>1. /\ q \in Nat /\ fds + 1 \in Nat /\ pushed \in Nat /\ faults + 1 \in Nat
        /\ leaked \in Nat
    BY <1>1 DEF ClientTypeOK
  <2>2. q' \in Nat /\ fds' \in Nat /\ pushed' \in Nat /\ faults' \in Nat /\ leaked' \in Nat
    BY <1>6, <2>1
  <2>3. torn' \in BOOLEAN /\ handed' \in {handed, handed + OrderLen}
    BY <1>3, <1>4
  <2>4. stream' \in Seq(Nat)
    BY <1>2, <1>4
  <2>5. sta' \in {"CLOSED", "CONNECTING", "CONNECTED"} /\ pc' \in {"run", "flush"}
    BY <1>6
  <2> QED BY <2>2, <2>3, <2>4, <2>5
<1>8. ClientTypeOK'
  BY <1>1, <1>2, <1>4, <1>7, TypeKept
<1> QED BY <1>5, <1>8 DEF ClientInv

(* _do_send takes the front of the bytes that wait.                         *)
LEMMA ServeOk ==
  ASSUME ClientInv, NEW n \in 0 .. Len(Waiting), Serve(n)
  PROVE  ClientInv'
<1>1. ClientTypeOK
  BY DEF ClientInv
<1>2. /\ Waiting = WaitingIn(buffer) /\ WaitingIn(buffer) \in Seq(Nat) /\ stream \in Seq(Nat)
  BY <1>1, AllIs
<1>3. PICK b : b = Taken(n)
  OBVIOUS
<1>4. b \in Buffers /\ \E a \in Seq(Nat) : Len(a) = n /\ Waiting = a \o WaitingIn(b)
  BY <1>1, <1>3, TakenIs
<1>5. PICK a \in Seq(Nat) : Len(a) = n /\ Waiting = a \o WaitingIn(b)
  BY <1>4
<1>6. WaitingIn(b) \in Seq(Nat)
  BY <1>4, WaitingIs
<1>7. SubSeq(Waiting, 1, n) = a
  <2>1. PICK x, z : x = a \o z /\ z = WaitingIn(b)
    OBVIOUS
  <2>2. z \in Seq(Nat) /\ x = Waiting
    BY <1>5, <1>6, <2>1
  <2>3. /\ x \in Seq(Nat) /\ Len(x) = n + Len(z) /\ n \in Nat /\ Len(z) \in Nat
        /\ \A i \in 1 .. n + Len(z) : x[i] = IF i <= n THEN a[i] ELSE z[i - n]
    <3>1. /\ x = a \o z /\ a \in Seq(Nat) /\ z \in Seq(Nat)
      BY <1>5, <2>1, <2>2
    <3>2. /\ x \in Seq(Nat) /\ Len(x) = Len(a) + Len(z)
          /\ \A i \in 1 .. Len(a) + Len(z) : x[i] = IF i <= Len(a) THEN a[i] ELSE z[i - Len(a)]
      BY ONLY <3>1, ConcatProperties
    <3>3. Len(a) = n /\ n \in Nat /\ Len(z) \in Nat
      BY <1>5, <3>1, LenProperties
    <3> QED BY <3>2, <3>3
  <2>4. \A i \in 1 .. n : i \in 1 .. n + Len(z) /\ i <= n
    BY <2>3
  <2>5. \A i \in 1 .. n : x[i] = a[i] /\ x[i] \in Nat
    BY <1>5, <2>3, <2>4, ElementOfSeq
  <2>6. PICK y : y = SubSeq(x, 1, n)
    OBVIOUS
  <2>7. 1 \in Int /\ n \in Int /\ \A i \in 1 .. n : x[i] \in Nat
    BY <2>3, <2>5
  <2>8. /\ y \in Seq(Nat) /\ Len(y) = IF 1 <= n THEN n - 1 + 1 ELSE 0
        /\ \A i \in 1 .. n - 1 + 1 : y[i] = x[1 + i - 1]
    BY ONLY <2>6, <2>7, SubSeqProperties
  <2>9. Len(y) = n /\ \A i \in 1 .. n : y[i] = x[i]
    BY <2>3, <2>8
  <2>10. y = a
    BY <1>5, <2>5, <2>8, <2>9, SeqEqual
  <2> QED BY <2>2, <2>6, <2>10
<1>8. buffer' = b /\ stream' = stream \o a /\ handed' = handed /\ torn' = torn
  BY <1>3, <1>7 DEF Serve, InCall
<1>9. (stream \o a) \o WaitingIn(b) = stream \o (a \o WaitingIn(b))
  BY <1>2, <1>5, <1>6, BytesAssociative
<1>10. All' = All
  <2>1. All' = (stream \o a) \o WaitingIn(b)
    BY <1>8 DEF All, WaitingIn, Left
  <2>2. All = stream \o (a \o WaitingIn(b))
    BY <1>2, <1>5 DEF All
  <2> QED BY <1>9, <2>1, <2>2
<1>11. StreamHasNoGap'
  BY <1>8, <1>10, StillHasNoGap DEF ClientInv
<1>12. stream \o a \in Seq(Nat)
  BY <1>2, <1>5, ConcatProperties
<1>13. /\ q' \in Nat /\ fds' \in Nat /\ pushed' \in Nat /\ faults' \in Nat /\ leaked' \in Nat
       /\ sta' \in {"CLOSED", "CONNECTING", "CONNECTED"} /\ pc' \in {"run", "flush"}
       /\ torn' \in BOOLEAN /\ handed' \in {handed, handed + OrderLen}
  BY <1>1, <1>8 DEF ClientTypeOK, Serve, InCall
<1>14. ClientTypeOK'
  BY <1>1, <1>4, <1>8, <1>12, <1>13, TypeKept
<1> QED BY <1>11, <1>14 DEF ClientInv

(* send() hands over one order.                                             *)
LEMMA SendOk ==
  ASSUME ClientInv, Popped, NEW b \in Buffers, buffer' = b, stream' \in Seq(Nat),
         All' = All \o Mine, torn' = torn,
         sta' = sta, pc' = pc, fds' = fds, pushed' = pushed, faults' = faults, leaked' = leaked
  PROVE  ClientInv'
<1>1. ClientTypeOK
  BY DEF ClientInv
<1>2. PICK h, all, mine, t : h = handed /\ all = All /\ mine = Mine /\ t = torn
  OBVIOUS
<1>3. h \in Nat /\ h % OrderLen = 0 /\ all \in Seq(Nat)
  BY <1>1, <1>2, AllIs DEF ClientTypeOK
<1>4. Numbered(all, h) /\ StartsWhole(all, t)
  BY <1>2, StreamIs DEF ClientInv, All
<1>5. mine = [i \in 1 .. OrderLen |-> h + i]
  BY <1>2 DEF Mine
<1>6. Numbered(all \o mine, h + OrderLen) /\ StartsWhole(all \o mine, t)
  BY <1>3, <1>4, <1>5, OrderAdded
<1>7. handed' = h + OrderLen /\ All' = all \o mine /\ torn' = t
  BY <1>2 DEF Popped
<1>8. StreamHasNoGap'
  <2>1. (StreamHasNoGap <=> Numbered(All, handed) /\ StartsWhole(All, torn))'
    BY StreamIs, PTL DEF All
  <2> QED BY <1>6, <1>7, <2>1 DEF Numbered, StartsWhole
<1>9. /\ q' \in Nat /\ fds' \in Nat /\ pushed' \in Nat /\ faults' \in Nat /\ leaked' \in Nat
      /\ sta' \in {"CLOSED", "CONNECTING", "CONNECTED"} /\ pc' \in {"run", "flush"}
      /\ torn' \in BOOLEAN /\ handed' \in {handed, handed + OrderLen}
  BY <1>1 DEF ClientTypeOK, Popped
<1>10. ClientTypeOK'
  BY <1>1, <1>9, TypeKept
<1> QED BY <1>8, <1>10 DEF ClientInv

(* send() when bytes wait already or there is no connection.                *)
LEMMA SendBufferedOk ==
  ASSUME ClientInv, SendBuffered
  PROVE  ClientInv'
<1>1. ClientTypeOK
  BY DEF ClientInv
<1>2. PICK b, m, s : b = buffer /\ m = Mine /\ s = stream
  OBVIOUS
<1>3. b \in Buffers /\ m \in Seq(Nat) /\ s \in Seq(Nat) /\ WaitingIn(b) \in Seq(Nat)
  BY <1>1, <1>2, AllIs, MineIs
<1>4. PICK c : c = Append(b, Node(m))
  OBVIOUS
<1>5. c \in Buffers /\ WaitingIn(c) = WaitingIn(b) \o m
  BY <1>3, <1>4, NodeAdded
<1>6. /\ Popped /\ buffer' = c /\ stream' = s /\ torn' = torn
      /\ sta' = sta /\ pc' = pc /\ fds' = fds /\ pushed' = pushed /\ faults' = faults
      /\ leaked' = leaked
  BY <1>2, <1>4 DEF SendBuffered
<1>7. (s \o WaitingIn(b)) \o m = s \o (WaitingIn(b) \o m)
  BY <1>3, BytesAssociative
<1>8. All' = All \o Mine
  <2>1. All' = s \o WaitingIn(c)
    BY <1>6 DEF All, WaitingIn, Left
  <2>2. All = s \o WaitingIn(b)
    BY <1>2 DEF All
  <2> QED BY <1>2, <1>5, <1>7, <2>1, <2>2
<1> QED BY <1>3, <1>5, <1>6, <1>8, SendOk

(* send() when the socket takes the first n bytes.                          *)
LEMMA SendDirectOk ==
  ASSUME ClientInv, NEW n \in 0 .. OrderLen, SendDirect(n)
  PROVE  ClientInv'
<1>1. ClientTypeOK /\ buffer = << >>
  BY DEF ClientInv, SendDirect, Buffered
<1>2. PICK m, s, a, c : m = Mine /\ s = stream /\ a = SubSeq(Mine, 1, n) /\ c = Remainder(n)
  OBVIOUS
<1>3. /\ c \in Buffers /\ a \in Seq(Nat) /\ WaitingIn(c) \in Seq(Nat) /\ a \o WaitingIn(c) = m
      /\ s \in Seq(Nat)
  BY <1>1, <1>2, RemainderIs, AllIs
<1>4. << >> \o c = c
  <2>1. c \in Seq(Nodes)
    BY <1>3 DEF Buffers
  <2> QED BY <2>1, ConcatEmptySeq
<1>5. /\ Popped /\ buffer' = c /\ stream' = s \o a /\ torn' = torn
      /\ sta' = sta /\ pc' = pc /\ fds' = fds /\ pushed' = pushed /\ faults' = faults
      /\ leaked' = leaked
  BY <1>1, <1>2, <1>4 DEF SendDirect
<1>6. (s \o a) \o WaitingIn(c) = s \o (a \o WaitingIn(c))
  BY <1>3, BytesAssociative
<1>7. All' = All \o Mine
  <2>1. All' = (s \o a) \o WaitingIn(c)
    BY <1>5 DEF All, WaitingIn, Left
  <2>2. s \o WaitingIn(<< >>) = s
    BY <1>3, NothingWaits, ConcatEmptySeq
  <2>3. All = s
    BY <1>1, <1>2, <2>2 DEF All
  <2> QED BY <1>2, <1>3, <1>6, <2>1, <2>3
<1>8. s \o a \in Seq(Nat)
  BY <1>3, ConcatProperties
<1> QED BY <1>3, <1>5, <1>7, <1>8, SendOk

(* send() when the socket fails after n bytes.                              *)
LEMMA SendFailedOk ==
  ASSUME ClientInv, NEW n \in 0 .. OrderLen, SendFailed(n)
  PROVE  ClientInv'
<1>1. ClientTypeOK /\ handed \in Nat /\ handed % OrderLen = 0 /\ OrderLen \in Nat
  BY TcpClientAssumption DEF ClientInv, ClientTypeOK
<1>2. PICK h, c, w : h = handed /\ c = Remainder(n) /\ w = WaitingIn(Remainder(n))
  OBVIOUS
<1>3. /\ c \in Buffers /\ w \in Seq(Nat) /\ Len(w) = OrderLen - n
      /\ \A i \in 1 .. OrderLen - n : w[i] = h + (n + i)
  BY <1>1, <1>2, RemainderIs
<1>4. n \in 0 .. OrderLen - 1
  BY <1>1 DEF SendFailed
<1>5. PICK t : t = (n > 0)
  OBVIOUS
<1>6. t \in BOOLEAN
  BY <1>4, <1>5
<1>7. Numbered(w, h + OrderLen) /\ StartsWhole(w, n > 0)
  BY <1>1, <1>2, <1>3, <1>4, TailLeft
<1>8. /\ buffer' = c /\ stream' = << >> /\ torn' = t /\ handed' = h + OrderLen
      /\ sta' = "CLOSED" /\ pc' = pc /\ q' = q - 1 /\ q > 0 /\ fds' = fds + 1
      /\ pushed' = pushed /\ faults' = faults + 1 /\ leaked' = leaked
  BY <1>2, <1>5 DEF SendFailed, Close, Popped, Fault
<1>9. StreamHasNoGap'
  <2>1. PICK g : g = h + OrderLen
    OBVIOUS
  <2>2. Numbered(w, g) /\ StartsWhole(w, t) /\ w = WaitingIn(c)
    BY <1>2, <1>5, <1>7, <2>1
  <2>3. /\ stream' = << >> /\ buffer' = c /\ torn' = t /\ handed' = g
        /\ WaitingIn(c) \in Seq(Nat) /\ Numbered(WaitingIn(c), g) /\ StartsWhole(WaitingIn(c), t)
    BY <1>3, <1>8, <2>1, <2>2
  <2> QED BY <1>1, <1>3, <2>3, ClosedHasNoGap
<1>10. ClientTypeOK'
  <2>1. /\ q \in Nat /\ fds + 1 \in Nat /\ pushed \in Nat /\ faults + 1 \in Nat
        /\ leaked \in Nat /\ pc \in {"run", "flush"}
    BY <1>1 DEF ClientTypeOK
  <2>2. q' \in Nat
    BY <1>8, <2>1
  <2>3. /\ fds' \in Nat /\ pushed' \in Nat /\ faults' \in Nat /\ leaked' \in Nat
        /\ pc' \in {"run", "flush"}
    BY <1>8, <2>1
  <2>4. sta' \in {"CLOSED", "CONNECTING", "CONNECTED"}
    BY <1>8
  <2>5. torn' \in BOOLEAN /\ handed' \in {handed, handed + OrderLen}
    BY <1>2, <1>6, <1>8
  <2>6. stream' \in Seq(Nat)
    BY <1>8, EmptySeq
  <2> QED BY <1>1, <1>3, <1>8, <2>2, <2>3, <2>4, <2>5, <2>6, TypeKept
<1> QED BY <1>9, <1>10 DEF ClientInv

(* A step that touches neither the bytes nor what was handed over.          *)
LEMMA StillOk ==
  ASSUME ClientInv, Still, sta' \in {"CLOSED", "CONNECTING", "CONNECTED"},
         pc' \in {"run", "flush"},
         q' \in Nat, fds' \in Nat, pushed' \in Nat, faults' \in Nat, leaked' \in Nat
  PROVE  ClientInv'
<1>1. ClientTypeOK
  BY DEF ClientInv
<1>2. All' = All
  BY DEF Still, All, WaitingIn, Left
<1>3. StreamHasNoGap'
  BY <1>2, StillHasNoGap DEF ClientInv, Still
<1>4. PICK b : b = buffer
  OBVIOUS
<1>5. /\ b \in Buffers /\ buffer' = b /\ stream' \in Seq(Nat) /\ torn' \in BOOLEAN
      /\ handed' \in {handed, handed + OrderLen}
  BY <1>1, <1>4, AllIs DEF Still, ClientTypeOK
<1>6. ClientTypeOK'
  BY <1>1, <1>5, TypeKept
<1> QED BY <1>3, <1>6 DEF ClientInv

(* Pushing, connecting and flushing.                                        *)
LEMMA QuietOk ==
  ASSUME ClientInv,
         Push \/ NoSocket \/ ConnectRefused \/ Connect \/ ConnectPending \/ ConnectDone
         \/ Flushed \/ UNCHANGED vars
  PROVE  ClientInv'
<1>1. /\ sta \in {"CLOSED", "CONNECTING", "CONNECTED"} /\ pc \in {"run", "flush"}
      /\ q \in Nat /\ fds \in Nat /\ pushed \in Nat /\ faults \in Nat /\ leaked \in Nat
  BY DEF ClientInv, ClientTypeOK
<1>2. CASE Push
  <2>1. Still /\ sta' = sta /\ pc' = pc /\ q' = q + 1 /\ fds' = fds /\ pushed' = pushed + 1
        /\ faults' = faults /\ leaked' = leaked
    BY <1>2 DEF Push, Still
  <2>2. q' \in Nat /\ pushed' \in Nat
    BY <1>1, <2>1
  <2> QED BY <1>1, <2>1, <2>2, StillOk
<1>3. CASE NoSocket \/ ConnectPending
  <2>1. Still /\ sta' = sta /\ pc' = "flush" /\ q' = q /\ fds' = fds /\ pushed' = pushed
        /\ faults' = faults /\ leaked' = leaked
    BY <1>3 DEF NoSocket, ConnectPending, InCall, Still
  <2> QED BY <1>1, <2>1, StillOk
<1>4. CASE ConnectRefused
  <2>1. /\ Still /\ sta' = sta /\ pc' = "flush" /\ q' = q /\ fds' = fds - 1 /\ fds > 0
        /\ pushed' = pushed /\ faults' = faults + 1 /\ leaked' = leaked + 1
    BY <1>4 DEF ConnectRefused, Fault, InCall, Still
  <2>2. fds' \in Nat
    BY <1>1, <2>1
  <2>3. faults' \in Nat /\ leaked' \in Nat
    BY <1>1, <2>1
  <2> QED BY <1>1, <2>1, <2>2, <2>3, StillOk
<1>5. CASE Connect
  <2>1. /\ Still /\ sta' \in {"CONNECTING", "CONNECTED"} /\ pc' = "flush" /\ q' = q
        /\ fds' = fds - 1 /\ fds > 0 /\ pushed' = pushed /\ faults' = faults
        /\ leaked' = leaked
    BY <1>5 DEF Connect, InCall, Still
  <2>2. fds' \in Nat
    BY <1>1, <2>1
  <2>3. sta' \in {"CLOSED", "CONNECTING", "CONNECTED"}
    BY <2>1
  <2> QED BY <1>1, <2>1, <2>2, <2>3, StillOk
<1>6. CASE ConnectDone
  <2>1. Still /\ sta' = "CONNECTED" /\ pc' = "flush" /\ q' = q /\ fds' = fds
        /\ pushed' = pushed /\ faults' = faults /\ leaked' = leaked
    BY <1>6 DEF ConnectDone, InCall, Still
  <2> QED BY <1>1, <2>1, StillOk
<1>7. CASE Flushed \/ UNCHANGED vars
  <2>1. Still /\ sta' = sta /\ pc' \in {pc, "run"} /\ q' = q /\ fds' = fds
        /\ pushed' = pushed /\ faults' = faults /\ leaked' = leaked
    BY <1>7 DEF Flushed, vars, Still
  <2> QED BY <1>1, <2>1, StillOk
<1> QED BY <1>2, <1>3, <1>4, <1>5, <1>6, <1>7

-----------------------------------------------------------------------------

(* The orders of the buffer's nodes and the bytes the socket took stay one  *)
(* run of bytes through every call of the network thread and every push.    *)
THEOREM ClientInductive == Spec => []ClientInv
<1>1. ClientInv /\ [Next]_vars => ClientInv'
  <2> SUFFICES ASSUME ClientInv, [Next]_vars PROVE ClientInv'
    OBVIOUS
  <2>1. CASE \/ Push \/ NoSocket \/ ConnectRefused \/ Connect \/ ConnectPending \/ ConnectDone
             \/ Flushed \/ UNCHANGED vars
    BY <2>1, QuietOk
  <2>2. CASE ConnectFailed \/ ServeFailed
    <3>1. InCall /\ Fault /\ Close(<< >>, FALSE) /\ leaked' = leaked
      BY <2>2 DEF ConnectFailed, ServeFailed
    <3> QED BY <3>1, CloseOk
  <2>3. CASE \E n \in 0 .. Len(Waiting) : Serve(n)
    BY <2>3, ServeOk
  <2>4. CASE SendBuffered
    BY <2>4, SendBufferedOk
  <2>5. CASE \E n \in 0 .. OrderLen : SendDirect(n)
    BY <2>5, SendDirectOk
  <2>6. CASE \E n \in 0 .. OrderLen : SendFailed(n)
    BY <2>6, SendFailedOk
  <2> QED BY <2>1, <2>2, <2>3, <2>4, <2>5, <2>6 DEF Next
<1> QED BY <1>1, InitClientInv, PTL DEF Spec

(* tcp_client never skips, repeats or reorders a byte within a connection,  *)
(* and a connection starts inside an order only when the one before it      *)
(* ended inside send().                                                     *)
THEOREM StreamHasNoGapHolds == Spec => []StreamHasNoGap
<1>1. ClientInv => StreamHasNoGap
  BY DEF ClientInv
<1> QED BY <1>1, ClientInductive, PTL
=============================================================================
