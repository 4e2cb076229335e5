--------------------------- MODULE PulsarProxyProofs ---------------------------
(***************************************************************************)
(* The Pulsar proxy, for any number of orders, answers, failures, kills    *)
(* and pauses.                                                             *)
(*                                                                         *)
(* OrderInv says what becomes of an order: what is acknowledged is at the  *)
(* engine, in memory or lost; what the process was given it has            *)
(* acknowledged; what is in memory is in the order of the topic, and at    *)
(* the engine already only if a kill let the broker repeat it.  AnswerInv  *)
(* says that a send with a callback is newer than every send before it and *)
(* every answer in the topic, and that one without is a retry.             *)
(***************************************************************************)
EXTENDS PulsarProxy, SequenceTheorems, WellFoundedInduction, TLAPS

Orders  == 1 .. MaxOrders
Answers == 1 .. MaxAnswers

ProxyTypeOK ==
  /\ engine \in Seq(Orders) /\ q \in Seq(Orders)
  /\ hand \in 0 .. MaxOrders /\ cursor \in 0 .. MaxOrders
  /\ acks \subseteq Orders /\ acked \subseteq Orders
  /\ answers \in 0 .. MaxAnswers
  /\ sends \in Seq([n : Answers, cb : BOOLEAN])
  /\ topic \in Seq(Answers)
  /\ failed \in [Answers -> Nat]

\* The orders the process has and has not sent.
Memory == Range(q) \cup ({hand} \ {None})

OrderInv ==
  /\ acks \subseteq 1 .. cursor
  /\ Memory \subseteq acks \cup acked
  /\ 1 .. cursor \subseteq acks \cup acked
  /\ acks \cup acked \subseteq Range(engine) \cup Memory \cup lost
  /\ Range(engine) \subseteq acks \cup acked \cup repeated
  /\ Memory \cap Range(engine) \subseteq repeated
  /\ \A i \in 1 .. Len(q) :
       /\ q[i] <= cursor
       /\ hand # None => q[i] < hand
       /\ \A j \in i + 1 .. Len(q) : q[i] < q[j]
  /\ hand # None => hand = cursor

AnswerInv ==
  /\ \A i \in 1 .. Len(topic) : topic[i] <= answers
  /\ \A j \in 1 .. Len(sends) :
       /\ sends[j].n <= answers
       /\ ~sends[j].cb => failed[sends[j].n] > 0
       /\ sends[j].cb => /\ \A i \in 1 .. j - 1 : sends[i].n < sends[j].n
                         /\ \A i \in 1 .. Len(topic) : topic[i] < sends[j].n

ProxyInv ==
  /\ ProxyTypeOK
  /\ OrderInv /\ OrdersInTurn
  /\ AnswerInv /\ AnswersInTurn
-----------------------------------------------------------------------------
(* Lemmas about Range, the least number of a set, and the initial state.    *)

(* What Range of a sequence is, pointwise.                                  *)
LEMMA RangeIs ==
  ASSUME NEW S, NEW s \in Seq(S)
  PROVE  /\ \A x : x \in Range(s) <=> \E i \in 1 .. Len(s) : s[i] = x
         /\ Range(s) \subseteq S
<1>1. DOMAIN s = 1 .. Len(s) /\ \A i \in 1 .. Len(s) : s[i] \in S
  BY LenProperties, ElementOfSeq
<1> QED BY <1>1 DEF Range

(* Appending adds one element to the range, and keeps the others in place.  *)
LEMMA RangeAppend ==
  ASSUME NEW S, NEW s \in Seq(S), NEW x \in S
  PROVE  Range(Append(s, x)) = Range(s) \cup {x}
<1> DEFINE t == Append(s, x)
<1>1. /\ t \in Seq(S) /\ Len(t) = Len(s) + 1 /\ Len(s) \in Nat
      /\ \A i \in 1 .. Len(s) : t[i] = s[i]
      /\ t[Len(s) + 1] = x
  BY AppendProperties, LenProperties
<1> HIDE DEF t
<1>2. ASSUME NEW y PROVE y \in Range(t) <=> y \in Range(s) \cup {x}
  <2>1. y \in Range(t) <=> \E i \in 1 .. Len(t) : t[i] = y
    BY <1>1, RangeIs
  <2>2. y \in Range(s) <=> \E i \in 1 .. Len(s) : s[i] = y
    BY RangeIs
  <2> QED BY <2>1, <2>2, <1>1
<1> QED BY <1>2 DEF t

(* The range of two sequences in a row is that of both.                     *)
LEMMA RangeConcat ==
  ASSUME NEW S, NEW s \in Seq(S), NEW r \in Seq(S)
  PROVE  Range(s \o r) = Range(s) \cup Range(r)
<1> DEFINE t == s \o r
<1>1. /\ t \in Seq(S) /\ Len(t) = Len(s) + Len(r) /\ Len(s) \in Nat /\ Len(r) \in Nat
      /\ \A i \in 1 .. Len(t) : t[i] = IF i <= Len(s) THEN s[i] ELSE r[i - Len(s)]
  BY ConcatProperties, LenProperties
<1> HIDE DEF t
<1>2. \A i \in 1 .. Len(s) : i \in 1 .. Len(t) /\ t[i] = s[i]
  BY <1>1
<1>3. \A i \in 1 .. Len(r) : i + Len(s) \in 1 .. Len(t) /\ t[i + Len(s)] = r[i]
  BY <1>1
<1>4. \A i \in 1 .. Len(t) : \/ i \in 1 .. Len(s) /\ t[i] = s[i]
                             \/ i - Len(s) \in 1 .. Len(r) /\ t[i] = r[i - Len(s)]
  BY <1>1
<1>5. ASSUME NEW y PROVE y \in Range(t) <=> y \in Range(s) \cup Range(r)
  <2>1. y \in Range(t) <=> \E i \in 1 .. Len(t) : t[i] = y
    BY <1>1, RangeIs
  <2>2. y \in Range(s) <=> \E i \in 1 .. Len(s) : s[i] = y
    BY RangeIs
  <2>3. y \in Range(r) <=> \E i \in 1 .. Len(r) : r[i] = y
    BY RangeIs
  <2> QED BY <2>1, <2>2, <2>3, <1>2, <1>3, <1>4
<1> QED BY <1>5 DEF t

(* The empty sequence has no elements.                                      *)
LEMMA RangeEmpty == Range(<< >>) = {}
<1> DEFINE s == << >>
<1>1. s \in Seq(Nat) /\ Len(s) = 0
  BY EmptySeq
<1> HIDE DEF s
<1>2. \A x : x \in Range(s) <=> \E i \in 1 .. Len(s) : s[i] = x
  BY <1>1, RangeIs
<1>3. Range(s) = {}
  BY <1>1, <1>2
<1> QED BY <1>3 DEF s

(* A set of numbers that is not empty has a least one.                      *)
LEMMA LeastElement ==
  ASSUME NEW S \in SUBSET Nat, S # {}
  PROVE  \E n \in S : \A k \in S : n <= k
<1> DEFINE R == OpToRel(<, Nat)
<1>1. IsWellFoundedOn(R, Nat)
  BY NatLessThanWellFounded
<1> HIDE DEF R
<1>2. PICK n \in S : \A k \in S : <<k, n>> \notin R
  BY <1>1, WFMin
<1>3. \A k \in S : ~(k < n)
  BY <1>2 DEF R, OpToRel
<1> QED BY <1>3

(* The proxy starts in ProxyInv.                                            *)
LEMMA ProxyInit == Init => ProxyInv
<1> SUFFICES ASSUME Init PROVE ProxyInv
  OBVIOUS
<1> USE ProxyAssumption
<1>1. ProxyTypeOK
  BY EmptySeq DEF Init, ProxyTypeOK, Orders, Answers, None
<1>2. Memory = {} /\ Range(engine) = {}
  BY RangeEmpty DEF Init, Memory, None
<1>3. OrderInv
  BY <1>2, EmptySeq DEF Init, OrderInv, None
<1>4. OrdersInTurn
  BY DEF Init, OrdersInTurn
<1>5. AnswerInv /\ AnswersInTurn
  BY EmptySeq DEF Init, AnswerInv, AnswersInTurn
<1> QED BY <1>1, <1>3, <1>4, <1>5 DEF ProxyInv

-----------------------------------------------------------------------------
(* The orders.                                                              *)

(* An action that leaves the orders alone.                                  *)
LEMMA OrdersStay ==
  ASSUME ProxyInv,
         UNCHANGED <<hand, q, acks, acked, cursor, engine, lost, repeated>>
  PROVE  OrderInv' /\ OrdersInTurn'
<1>1. Memory' = Memory
  BY DEF Memory
<1> QED BY <1>1 DEF ProxyInv, OrderInv, OrdersInTurn

(* run() sends what is queued: it comes after what was sent, in turn.       *)
LEMMA RunKeepsOrders ==
  ASSUME ProxyInv, Run
  PROVE  OrderInv' /\ OrdersInTurn'
<1> USE ProxyAssumption
<1>0. /\ engine \in Seq(Orders) /\ q \in Seq(Orders) /\ hand \in 0 .. MaxOrders
      /\ cursor \in 0 .. MaxOrders
  BY DEF ProxyInv, ProxyTypeOK
<1>1. /\ engine' = engine \o q /\ q' = << >>
      /\ UNCHANGED <<hand, acks, acked, cursor, lost, repeated>>
  BY DEF Run, Emptied
<1>2. Range(engine') = Range(engine) \cup Range(q) /\ Range(q') = {}
  BY <1>0, <1>1, RangeConcat, RangeEmpty
<1>3. Memory' = {hand} \ {None} /\ Memory = Range(q) \cup ({hand} \ {None})
  BY <1>1, <1>2 DEF Memory
<1>4. \A x : x \in Range(q) <=> \E i \in 1 .. Len(q) : q[i] = x
  BY <1>0, RangeIs
<1>5. hand # None => hand \notin Range(q)
  <2>1. hand # None => \A i \in 1 .. Len(q) : q[i] < hand
    BY DEF ProxyInv, OrderInv
  <2>2. \A i \in 1 .. Len(q) : q[i] \in Orders
    BY <1>0, ElementOfSeq
  <2>3. hand # None => \A i \in 1 .. Len(q) : q[i] # hand
    BY <2>1, <2>2, <1>0 DEF Orders
  <2> QED BY <2>3, <1>4
<1>6. OrderInv'
  BY <1>1, <1>2, <1>3, <1>5, EmptySeq DEF ProxyInv, OrderInv, None
<1> DEFINE n == Len(engine)  t == engine \o q
<1>7. /\ n \in Nat /\ Len(q) \in Nat /\ DOMAIN engine = 1 .. n
      /\ DOMAIN t = 1 .. n + Len(q)
      /\ \A i \in 1 .. n : t[i] = engine[i]
      /\ \A i \in n + 1 .. n + Len(q) : t[i] = q[i - n]
      /\ \A i \in 1 .. n : engine[i] \in Orders
      /\ \A i \in 1 .. Len(q) : q[i] \in Orders
  <2>1. /\ t \in Seq(Orders) /\ Len(t) = n + Len(q)
        /\ \A i \in 1 .. Len(t) : t[i] = IF i <= n THEN engine[i] ELSE q[i - n]
    BY <1>0, ConcatProperties
  <2>2. n \in Nat /\ Len(q) \in Nat /\ DOMAIN engine = 1 .. n /\ DOMAIN t = 1 .. Len(t)
    BY <1>0, <2>1, LenProperties
  <2>3. /\ \A i \in 1 .. n : engine[i] \in Orders
        /\ \A i \in 1 .. Len(q) : q[i] \in Orders
    BY <1>0, ElementOfSeq
  <2> HIDE DEF t, n
  <2> QED BY <2>1, <2>2, <2>3
<1>8. \A x : x \in Range(engine) <=> \E i \in 1 .. n : engine[i] = x
  BY <1>0, RangeIs
<1> HIDE DEF n, t
<1>9. \A j \in 1 .. n :
        /\ \A k \in 1 .. engine[j] - 1 : k \in lost \/ \E i \in 1 .. j - 1 : engine[i] = k
        /\ engine[j] \notin repeated => \A i \in 1 .. j - 1 : engine[i] # engine[j]
  BY <1>7 DEF ProxyInv, OrdersInTurn
<1>10. ASSUME NEW j \in 1 .. n
       PROVE  /\ \A k \in 1 .. t[j] - 1 : k \in lost \/ \E i \in 1 .. j - 1 : t[i] = k
              /\ t[j] \notin repeated => \A i \in 1 .. j - 1 : t[i] # t[j]
  <2>1. t[j] = engine[j] /\ \A i \in 1 .. j - 1 : i \in 1 .. n /\ t[i] = engine[i]
    BY <1>7
  <2> QED BY <1>9, <2>1
<1>11. ASSUME NEW b \in 1 .. Len(q), NEW k \in 1 .. q[b] - 1
       PROVE  k \in lost \/ \E i \in 1 .. n + b - 1 : t[i] = k
  <2>1. q[b] \in Orders /\ q[b] <= cursor
    BY <1>7 DEF ProxyInv, OrderInv
  <2>2. k \in 1 .. cursor
    BY <2>1, <1>0, SMTT(30) DEF Orders
  <2>3. k \in Range(engine) \cup Range(q) \cup lost \/ (hand # None /\ k = hand)
    BY <2>2, <1>3 DEF ProxyInv, OrderInv
  <2>4. ~(hand # None /\ k = hand)
    BY <2>1, <1>0 DEF ProxyInv, OrderInv, Orders, None
  <2>5. CASE k \in Range(engine)
    <3>1. PICK i \in 1 .. n : engine[i] = k
      BY <2>5, <1>8
    <3>2. i \in 1 .. n + b - 1 /\ t[i] = k
      BY <3>1, <1>7
    <3> QED BY <3>2
  <2>6. CASE k \in Range(q)
    <3>1. PICK i \in 1 .. Len(q) : q[i] = k
      BY <2>6, <1>4
    <3>2. i < b
      <4>1. ~(b < i)
        BY <3>1, <2>1, <1>7 DEF ProxyInv, OrderInv, Orders
      <4>2. i # b
        BY <3>1, <2>1 DEF Orders
      <4> QED BY <4>1, <4>2, <1>7
    <3>3. /\ i + n \in n + 1 .. n + Len(q) /\ i + n \in 1 .. n + b - 1
          /\ (i + n) - n = i
      BY <3>2, <1>7
    <3>4. t[i + n] = k
      BY <3>1, <3>3, <1>7
    <3> QED BY <3>3, <3>4
  <2> QED BY <2>3, <2>4, <2>5, <2>6
<1>12. ASSUME NEW b \in 1 .. Len(q), q[b] \notin repeated, NEW i \in 1 .. n + b - 1
       PROVE  t[i] # q[b]
  <2>1. q[b] \in Range(q)
    BY <1>4
  <2>2. q[b] \notin Range(engine)
    BY <2>1, <1>12, <1>3 DEF ProxyInv, OrderInv
  <2>3. CASE i \in 1 .. n
    BY <2>2, <2>3, <1>7, <1>8
  <2>4. CASE i \notin 1 .. n
    <3>1. /\ i \in n + 1 .. n + Len(q) /\ i - n \in 1 .. Len(q) /\ i - n < b
          /\ b \in (i - n) + 1 .. Len(q)
      BY <2>4, <1>7
    <3>2. q[i - n] < q[b]
      BY <3>1 DEF ProxyInv, OrderInv
    <3>3. q[i - n] \in Orders /\ q[b] \in Orders
      BY <3>1, <1>7
    <3>4. q[i - n] # q[b]
      BY <3>2, <3>3 DEF Orders
    <3>5. i \in n + 1 .. n + Len(q) => t[i] = q[i - n]
      BY <1>7
    <3> QED BY <3>1, <3>4, <3>5
  <2> QED BY <2>3, <2>4
<1>13. ASSUME NEW j \in n + 1 .. n + Len(q)
       PROVE  /\ \A k \in 1 .. t[j] - 1 : k \in lost \/ \E i \in 1 .. j - 1 : t[i] = k
              /\ t[j] \notin repeated => \A i \in 1 .. j - 1 : t[i] # t[j]
  <2>0. j - n \in 1 .. Len(q) /\ j = n + (j - n)
    BY <1>7
  <2>1. PICK b \in 1 .. Len(q) : b = j - n /\ j = n + b
    BY <2>0
  <2>2. t[j] = q[b]
    BY <2>1, <1>7
  <2>3. \A k \in 1 .. q[b] - 1 : k \in lost \/ \E i \in 1 .. n + b - 1 : t[i] = k
    BY <1>11
  <2>4. q[b] \notin repeated => \A i \in 1 .. n + b - 1 : t[i] # q[b]
    BY <1>12
  <2>5. j - 1 = n + b - 1
    BY <2>1, <1>7
  <2> QED BY <2>2, <2>3, <2>4, <2>5
<1>14. engine' = t /\ lost' = lost /\ repeated' = repeated
  BY <1>1 DEF t
<1>15. \A j \in DOMAIN t : j \in 1 .. n \/ j \in n + 1 .. n + Len(q)
  BY <1>7
<1>16. OrdersInTurn'
  BY <1>10, <1>13, <1>14, <1>15 DEF OrdersInTurn
<1> QED BY <1>6, <1>16

(* cb_recv takes the next order of the topic that is not acknowledged.      *)
LEMMA RecvKeepsOrders ==
  ASSUME ProxyInv, CbRecv
  PROVE  /\ OrderInv' /\ OrdersInTurn'
         /\ hand' \in 0 .. MaxOrders /\ cursor' \in 0 .. MaxOrders /\ acks' \subseteq Orders
<1> USE ProxyAssumption
<1>0. /\ engine \in Seq(Orders) /\ q \in Seq(Orders) /\ hand = None
      /\ cursor \in 0 .. MaxOrders /\ acks \subseteq Orders
      /\ UNCHANGED <<q, acked, engine, lost, repeated>>
  BY DEF ProxyInv, ProxyTypeOK, CbRecv
<1> DEFINE first == CHOOSE n \in Undelivered : \A k \in Undelivered : n <= k
<1>1. Undelivered \in SUBSET Nat /\ Undelivered # {} /\ Undelivered \subseteq Orders
  BY <1>0, SMTT(30) DEF Undelivered, CbRecv, Orders
<1>2. \E n \in Undelivered : \A k \in Undelivered : n <= k
  BY <1>1, LeastElement
<1>3. first \in Undelivered /\ \A k \in Undelivered : first <= k
  BY <1>2
<1>4. hand' = first /\ cursor' = first /\ acks' = acks \cup {first}
  BY DEF CbRecv
<1> HIDE DEF first
<1>5. /\ first \in Orders /\ first > cursor /\ first \notin acked
      /\ \A n \in cursor + 1 .. first - 1 : n \in acked
  <2>1. first \in cursor + 1 .. MaxOrders /\ first \notin acked
    BY <1>3 DEF Undelivered
  <2>2. \A n \in cursor + 1 .. first - 1 : n \in cursor + 1 .. MaxOrders /\ ~(first <= n)
    BY <2>1, <1>0
  <2>3. \A n \in cursor + 1 .. first - 1 : n \notin Undelivered
    BY <2>2, <1>3
  <2> QED BY <2>1, <2>2, <2>3, <1>0 DEF Undelivered, Orders
<1>6. Memory = Range(q) /\ Memory' = Range(q) \cup {first}
  BY <1>0, <1>4, <1>5 DEF Memory, Orders, None
<1>7. acks' \subseteq 1 .. first
  BY <1>0, <1>4, <1>5 DEF ProxyInv, OrderInv, Orders
<1>8. 1 .. first \subseteq acks' \cup acked
  <2>1. \A n \in 1 .. first : n \in 1 .. cursor \/ n \in cursor + 1 .. first - 1 \/ n = first
    BY <1>0, <1>5 DEF Orders
  <2> QED BY <2>1, <1>4, <1>5 DEF ProxyInv, OrderInv
<1>9. Memory' \cap Range(engine) \subseteq repeated
  <2>1. first \notin acks
    BY <1>0, <1>5 DEF ProxyInv, OrderInv, Orders
  <2> QED BY <2>1, <1>5, <1>6 DEF ProxyInv, OrderInv
<1>10. \A i \in 1 .. Len(q) : q[i] <= cursor /\ q[i] \in Orders
  BY <1>0, ElementOfSeq DEF ProxyInv, OrderInv
<1>11. \A i \in 1 .. Len(q) : q[i] <= first /\ q[i] < first
  BY <1>10, <1>5, <1>0 DEF Orders
<1>12. OrderInv'
  BY <1>0, <1>4, <1>6, <1>7, <1>8, <1>9, <1>11 DEF ProxyInv, OrderInv
<1>13. OrdersInTurn'
  BY <1>0 DEF ProxyInv, OrdersInTurn
<1> QED BY <1>0, <1>4, <1>5, <1>12, <1>13 DEF Orders

(* c.send() queues the order of cb_recv, which is newer than those queued.  *)
LEMMA SendKeepsOrders ==
  ASSUME ProxyInv, CbSend
  PROVE  OrderInv' /\ OrdersInTurn' /\ q' \in Seq(Orders)
<1> USE ProxyAssumption
<1>0. /\ q \in Seq(Orders) /\ hand \in Orders /\ hand # None /\ cursor \in 0 .. MaxOrders
      /\ q' = Append(q, hand) /\ hand' = None
      /\ UNCHANGED <<acks, acked, cursor, engine, lost, repeated>>
  BY DEF ProxyInv, ProxyTypeOK, CbSend, Orders, None
<1>1. /\ q' \in Seq(Orders) /\ Len(q') = Len(q) + 1 /\ Len(q) \in Nat
      /\ \A i \in 1 .. Len(q) : q'[i] = q[i]
      /\ q'[Len(q) + 1] = hand
  BY <1>0, AppendProperties, LenProperties
<1>2. Range(q') = Range(q) \cup {hand}
  BY <1>0, RangeAppend
<1>3. Memory' = Memory
  BY <1>0, <1>2 DEF Memory
<1>4. /\ hand = cursor
      /\ \A i \in 1 .. Len(q) : q[i] <= cursor /\ q[i] < hand
      /\ \A i \in 1 .. Len(q) : \A j \in i + 1 .. Len(q) : q[i] < q[j]
  BY <1>0 DEF ProxyInv, OrderInv
<1>5. ASSUME NEW i \in 1 .. Len(q')
      PROVE  q'[i] <= cursor /\ \A j \in i + 1 .. Len(q') : q'[i] < q'[j]
  <2>1. CASE i = Len(q) + 1
    BY <2>1, <1>0, <1>1, <1>4
  <2>2. CASE i \in 1 .. Len(q)
    <3>1. q'[i] = q[i] /\ q[i] <= cursor /\ q[i] < hand
      BY <2>2, <1>1, <1>4
    <3>2. \A j \in i + 1 .. Len(q') : j \in i + 1 .. Len(q) \/ j = Len(q) + 1
      BY <2>2, <1>1
    <3>3. \A j \in i + 1 .. Len(q) : j \in 1 .. Len(q) /\ q[i] < q[j]
      BY <2>2, <1>1, <1>4
    <3> QED BY <3>1, <3>2, <3>3, <1>1
  <2>3. i = Len(q) + 1 \/ i \in 1 .. Len(q)
    BY <1>1
  <2> QED BY <2>1, <2>2, <2>3
<1>6. OrderInv'
  BY <1>0, <1>3, <1>5 DEF ProxyInv, OrderInv
<1>7. OrdersInTurn'
  BY <1>0 DEF ProxyInv, OrdersInTurn
<1> QED BY <1>1, <1>6, <1>7

(* An acknowledgement that arrives is no longer under way.                  *)
LEMMA AckKeepsOrders ==
  ASSUME ProxyInv, NEW n \in 1 .. MaxOrders, AckArrives(n)
  PROVE  OrderInv' /\ OrdersInTurn'
<1>1. /\ n \in acks /\ acks' = acks \ {n} /\ acked' = acked \cup {n}
      /\ UNCHANGED <<hand, q, cursor, engine, lost, repeated>>
  BY DEF AckArrives
<1>2. acks' \cup acked' = acks \cup acked /\ acks' \subseteq acks /\ Memory' = Memory
  BY <1>1 DEF Memory
<1>3. Range(engine') = Range(engine)
  BY <1>1
<1>4. /\ acks \subseteq 1 .. cursor
      /\ Memory \subseteq acks \cup acked
      /\ 1 .. cursor \subseteq acks \cup acked
      /\ acks \cup acked \subseteq Range(engine) \cup Memory \cup lost
      /\ Range(engine) \subseteq acks \cup acked \cup repeated
      /\ Memory \cap Range(engine) \subseteq repeated
  BY DEF ProxyInv, OrderInv
<1>5. /\ acks' \subseteq 1 .. cursor'
      /\ Memory' \subseteq acks' \cup acked'
      /\ 1 .. cursor' \subseteq acks' \cup acked'
      /\ acks' \cup acked' \subseteq Range(engine') \cup Memory' \cup lost'
      /\ Range(engine') \subseteq acks' \cup acked' \cup repeated'
      /\ Memory' \cap Range(engine') \subseteq repeated'
  BY <1>1, <1>2, <1>3, <1>4
<1>6. OrderInv'
  BY <1>1, <1>5 DEF ProxyInv, OrderInv
<1>7. OrdersInTurn'
  BY <1>1 DEF ProxyInv, OrdersInTurn
<1> QED BY <1>6, <1>7

(* A kill forgets what is in memory: what is acknowledged of it is lost,    *)
(* and what is sent but not acknowledged will be repeated.                  *)
LEMMA CrashKeepsOrders ==
  ASSUME ProxyInv, Crash
  PROVE  OrderInv' /\ OrdersInTurn'
<1> USE ProxyAssumption
<1>0. engine \in Seq(Orders)
  BY DEF ProxyInv, ProxyTypeOK
<1>1. /\ lost' = lost \cup (Memory \cap acked)
      /\ repeated' = repeated \cup (Range(engine) \ acked)
      /\ hand' = None /\ q' = << >> /\ acks' = {} /\ cursor' = 0
      /\ UNCHANGED <<acked, engine>>
  BY DEF Crash, Memory
<1>2. Memory' = {} /\ Range(engine') = Range(engine)
  BY <1>1, RangeEmpty DEF Memory
<1>3. Len(q') = 0
  BY <1>1, EmptySeq
<1>4. acks \cup acked \subseteq Range(engine) \cup Memory \cup lost
  BY DEF ProxyInv, OrderInv
<1>5. OrderInv'
  BY <1>1, <1>2, <1>3, <1>4 DEF OrderInv
<1>6. OrdersInTurn'
  BY <1>1 DEF ProxyInv, OrdersInTurn
<1> QED BY <1>5, <1>6

-----------------------------------------------------------------------------
(* The answers.                                                             *)

(* The types the lemmas about the answers need.                             *)
LEMMA AnswerTypes ==
  ASSUME ProxyInv
  PROVE  /\ answers \in 0 .. MaxAnswers /\ Len(sends) \in Nat /\ Len(topic) \in Nat
         /\ sends \in Seq([n : Answers, cb : BOOLEAN]) /\ topic \in Seq(Answers)
         /\ failed \in [Answers -> Nat] /\ DOMAIN topic = 1 .. Len(topic)
         /\ \A i \in 1 .. Len(sends) : sends[i].n \in Answers /\ sends[i].cb \in BOOLEAN
         /\ \A i \in 1 .. Len(topic) : topic[i] \in Answers
         /\ \A n \in Answers : failed[n] \in Nat
<1>1. /\ answers \in 0 .. MaxAnswers /\ failed \in [Answers -> Nat]
      /\ sends \in Seq([n : Answers, cb : BOOLEAN]) /\ topic \in Seq(Answers)
  BY DEF ProxyInv, ProxyTypeOK
<1>2. /\ Len(sends) \in Nat /\ Len(topic) \in Nat /\ DOMAIN topic = 1 .. Len(topic)
      /\ \A i \in 1 .. Len(topic) : topic[i] \in Answers
      /\ \A i \in 1 .. Len(sends) : sends[i] \in [n : Answers, cb : BOOLEAN]
  BY <1>1, LenProperties, ElementOfSeq
<1> QED BY <1>1, <1>2

(* A new answer is sent with a callback, and is the newest.                 *)
LEMMA AnsweredKeeps ==
  ASSUME ProxyInv, Answered, UNCHANGED <<topic, failed>>
  PROVE  /\ AnswerInv' /\ AnswersInTurn' /\ answers' \in 0 .. MaxAnswers
         /\ sends' \in Seq([n : Answers, cb : BOOLEAN])
<1> USE ProxyAssumption
<1>a. /\ answers \in 0 .. MaxAnswers /\ Len(sends) \in Nat /\ Len(topic) \in Nat
      /\ sends \in Seq([n : Answers, cb : BOOLEAN]) /\ topic \in Seq(Answers)
      /\ DOMAIN topic = 1 .. Len(topic)
      /\ \A i \in 1 .. Len(sends) : sends[i].n \in Answers /\ sends[i].cb \in BOOLEAN
      /\ \A i \in 1 .. Len(topic) : topic[i] \in Answers
      /\ \A k \in Answers : failed[k] \in Nat
  BY AnswerTypes
<1> DEFINE s == [n |-> answers + 1, cb |-> TRUE]
<1>1. answers < MaxAnswers /\ answers' = answers + 1 /\ sends' = Append(sends, s)
  BY DEF Answered
<1>2. s \in [n : Answers, cb : BOOLEAN] /\ s.n = answers + 1 /\ s.cb = TRUE
  BY <1>a, <1>1 DEF Answers
<1> HIDE DEF s
<1>3. /\ sends' \in Seq([n : Answers, cb : BOOLEAN]) /\ Len(sends') = Len(sends) + 1
      /\ \A i \in 1 .. Len(sends) : sends'[i] = sends[i]
      /\ sends'[Len(sends) + 1] = s
  BY <1>a, <1>1, <1>2, AppendProperties
<1>4. /\ \A i \in 1 .. Len(topic) : topic[i] <= answers
      /\ \A j \in 1 .. Len(sends) : sends[j].n <= answers
  BY DEF ProxyInv, AnswerInv
<1>5. /\ \A i \in 1 .. Len(topic) : topic[i] <= answers' /\ topic[i] < answers + 1
      /\ \A j \in 1 .. Len(sends) : sends[j].n <= answers' /\ sends[j].n < answers + 1
  <2>1. \A x \in Answers : x <= answers => x <= answers + 1 /\ x < answers + 1
    BY <1>a DEF Answers
  <2> QED BY <2>1, <1>1, <1>4, <1>a
<1>6. ASSUME NEW j \in 1 .. Len(sends')
      PROVE  /\ sends'[j].n <= answers'
             /\ ~sends'[j].cb => failed'[sends'[j].n] > 0
             /\ sends'[j].cb => /\ \A i \in 1 .. j - 1 : sends'[i].n < sends'[j].n
                                /\ \A i \in 1 .. Len(topic') : topic'[i] < sends'[j].n
  <2>1. CASE j = Len(sends) + 1
    <3>1. sends'[j] = s /\ s.n = answers' /\ \A i \in 1 .. j - 1 : sends'[i] = sends[i]
      BY <2>1, <1>1, <1>2, <1>3, <1>a
    <3>2. \A i \in 1 .. j - 1 : i \in 1 .. Len(sends)
      BY <2>1, <1>a
    <3>3. \A i \in 1 .. j - 1 : sends'[i].n < answers + 1
      BY <3>1, <3>2, <1>5
    <3>4. sends'[j].n = answers + 1 /\ sends'[j].n = answers' /\ sends'[j].cb = TRUE
      BY <3>1, <1>1, <1>2
    <3>5. \A i \in 1 .. Len(topic') : topic'[i] < answers + 1
      BY <1>5
    <3>6. answers' \in Nat
      BY <1>1, <1>a
    <3>7. sends'[j].n <= answers'
      BY <3>4, <3>6
    <3>8. \A i \in 1 .. j - 1 : sends'[i].n < sends'[j].n
      BY <3>3, <3>4
    <3>9. \A i \in 1 .. Len(topic') : topic'[i] < sends'[j].n
      BY <3>5, <3>4
    <3> QED BY <3>4, <3>7, <3>8, <3>9
  <2>2. CASE j \in 1 .. Len(sends)
    <3>1. sends'[j] = sends[j] /\ \A i \in 1 .. j - 1 : sends'[i] = sends[i]
      BY <2>2, <1>3, <1>a
    <3> QED BY <3>1, <2>2, <1>5 DEF ProxyInv, AnswerInv
  <2>3. j = Len(sends) + 1 \/ j \in 1 .. Len(sends)
    BY <1>3, <1>a
  <2> QED BY <2>1, <2>2, <2>3
<1>7. AnswerInv'
  BY <1>5, <1>6 DEF AnswerInv
<1>8. AnswersInTurn'
  BY DEF ProxyInv, AnswersInTurn
<1>9. answers' \in 0 .. MaxAnswers
  BY <1>1, <1>a
<1> QED BY <1>3, <1>7, <1>8, <1>9

(* What is put into the topic comes after what is there, unless it is a     *)
(* retry.                                                                   *)
LEMMA TopicStep ==
  ASSUME ProxyInv, sends # << >>,
         topic' \in {topic, Append(topic, Head(sends).n)},
         failed' \in [Answers -> Nat], \A n \in Answers : failed[n] > 0 => failed'[n] > 0
  PROVE  AnswersInTurn' /\ topic' \in Seq(Answers)
<1>a. /\ answers \in 0 .. MaxAnswers /\ Len(sends) \in Nat /\ Len(topic) \in Nat
      /\ sends \in Seq([n : Answers, cb : BOOLEAN]) /\ topic \in Seq(Answers)
      /\ DOMAIN topic = 1 .. Len(topic)
      /\ \A i \in 1 .. Len(sends) : sends[i].n \in Answers /\ sends[i].cb \in BOOLEAN
      /\ \A i \in 1 .. Len(topic) : topic[i] \in Answers
      /\ \A k \in Answers : failed[k] \in Nat
  BY AnswerTypes
<1> DEFINE n == Head(sends).n
<1>0. 1 \in 1 .. Len(sends) /\ Head(sends) = sends[1] /\ n \in Answers
  <2>1. Head(sends) = sends[1] /\ Len(sends) # 0
    BY <1>a, HeadTailProperties, EmptySeq
  <2> QED BY <2>1, <1>a
<1> HIDE DEF n
<1>1. CASE topic' = topic
  <2>1. \A i, j \in 1 .. Len(topic) :
          i < j /\ topic[i] >= topic[j] => failed[topic[j]] > 0
    BY <1>a DEF ProxyInv, AnswersInTurn
  <2>2. \A i, j \in 1 .. Len(topic) :
          i < j /\ topic[i] >= topic[j] => failed'[topic[j]] > 0
    BY <2>1, <1>a
  <2> QED BY <2>2, <1>1, <1>a DEF AnswersInTurn
<1>2. CASE topic' = Append(topic, n)
  <2>1. /\ topic' \in Seq(Answers) /\ Len(topic') = Len(topic) + 1
        /\ \A i \in 1 .. Len(topic) : topic'[i] = topic[i]
        /\ topic'[Len(topic) + 1] = n
    <3>1. /\ Append(topic, n) \in Seq(Answers) /\ Len(Append(topic, n)) = Len(topic) + 1
          /\ \A i \in 1 .. Len(topic) : Append(topic, n)[i] = topic[i]
          /\ Append(topic, n)[Len(topic) + 1] = n
      BY ONLY <1>a, <1>0, AppendProperties
    <3> QED BY <3>1, <1>2
  <2>2. DOMAIN topic' = 1 .. Len(topic) + 1
    BY <2>1, LenProperties, <1>a
  <2>3. failed[n] > 0 \/ \A i \in 1 .. Len(topic) : topic[i] < n
    BY <1>0 DEF ProxyInv, AnswerInv, n
  <2>4. ASSUME NEW i \in DOMAIN topic', NEW j \in DOMAIN topic',
               i < j, topic'[i] >= topic'[j]
        PROVE  failed'[topic'[j]] > 0
    <3>1. CASE j = Len(topic) + 1
      <4>1. i \in 1 .. Len(topic) /\ topic'[i] = topic[i] /\ topic'[j] = n
        BY <3>1, <2>1, <2>2, <2>4, <1>a
      <4>2. ~(topic[i] < n)
        BY <4>1, <2>4, <1>0, <1>a DEF Answers
      <4>3. failed[n] > 0
        BY <4>1, <4>2, <2>3
      <4> QED BY <4>1, <4>3, <1>0
    <3>2. CASE j # Len(topic) + 1
      <4>1. i \in 1 .. Len(topic) /\ j \in 1 .. Len(topic)
        BY <3>2, <2>2, <2>4, <1>a
      <4>2. failed[topic[j]] > 0
        BY <4>1, <2>1, <2>4, <1>a DEF ProxyInv, AnswersInTurn
      <4> QED BY <4>1, <4>2, <2>1, <1>a
    <3> QED BY <3>1, <3>2
  <2> QED BY <2>1, <2>4 DEF AnswersInTurn
<1>3. topic' = topic \/ topic' = Append(topic, n)
  BY DEF n
<1> QED BY <1>1, <1>2, <1>3, <1>a

(* What is left of the sends when the first of them ends: the rest, and the *)
(* retry at the end, which has no callback.                                 *)
LEMMA SendsLeft ==
  ASSUME ProxyInv, sends # << >>,
         NEW retry \in {<< >>, Retried(Head(sends))},
         NEW left, left = Tail(sends) \o retry
  PROVE  /\ left \in Seq([n : Answers, cb : BOOLEAN])
         /\ \A j \in 1 .. Len(left) :
              \/ /\ j + 1 \in 1 .. Len(sends) /\ left[j] = sends[j + 1]
                 /\ \A i \in 1 .. j - 1 : left[i] = sends[i + 1]
              \/ left[j].n = Head(sends).n /\ left[j].cb = FALSE
<1>a. /\ Len(sends) \in Nat /\ sends \in Seq([n : Answers, cb : BOOLEAN])
      /\ \A i \in 1 .. Len(sends) : sends[i].n \in Answers /\ sends[i].cb \in BOOLEAN
  BY AnswerTypes
<1> DEFINE R == [n : Answers, cb : BOOLEAN]  tl == Tail(sends)  h == Head(sends)
<1>1. /\ tl \in Seq(R) /\ Len(tl) = Len(sends) - 1
      /\ \A i \in 1 .. Len(tl) : tl[i] = sends[i + 1]
      /\ h = sends[1] /\ Len(sends) # 0
  BY <1>a, HeadTailProperties, EmptySeq
<1>2. h.n \in Answers
  BY <1>1, <1>a
<1>3. PICK again : again = [n |-> h.n, cb |-> FALSE]
  OBVIOUS
<1>4. again \in R /\ again.n = h.n /\ again.cb = FALSE
  BY <1>2, <1>3
<1>5. retry = << >> \/ retry = << again >>
  BY <1>3 DEF Retried
<1>6. /\ retry \in Seq(R) /\ Len(retry) \in {0, 1}
      /\ \A i \in 1 .. Len(retry) : retry[i] = again
  <2>1. CASE retry = << >>
    BY <2>1, EmptySeq
  <2>2. CASE retry = << again >>
    BY <2>2, <1>4
  <2> QED BY <1>5, <2>1, <2>2
<1> HIDE DEF R, tl, h
<1>7. /\ left \in Seq(R) /\ Len(left) = Len(tl) + Len(retry)
      /\ \A i \in 1 .. Len(left) : left[i] = IF i <= Len(tl) THEN tl[i] ELSE retry[i - Len(tl)]
  <2>1. left = tl \o retry
    BY DEF tl
  <2>2. /\ tl \o retry \in Seq(R) /\ Len(tl \o retry) = Len(tl) + Len(retry)
        /\ \A i \in 1 .. Len(tl) + Len(retry) :
             (tl \o retry)[i] = IF i <= Len(tl) THEN tl[i] ELSE retry[i - Len(tl)]
    BY ONLY <1>1, <1>6, ConcatProperties
  <2> QED BY <2>1, <2>2
<1>8. Len(tl) \in Nat
  BY <1>1, <1>a
<1>9. ASSUME NEW j \in 1 .. Len(left)
      PROVE  \/ /\ j + 1 \in 1 .. Len(sends) /\ left[j] = sends[j + 1]
                /\ \A i \in 1 .. j - 1 : left[i] = sends[i + 1]
             \/ left[j].n = h.n /\ left[j].cb = FALSE
  <2>1. CASE j <= Len(tl)
    <3>1. j \in 1 .. Len(tl) /\ j + 1 \in 1 .. Len(sends)
      BY <2>1, <1>1, <1>6, <1>7, <1>8, <1>a
    <3>2. left[j] = sends[j + 1]
      BY <3>1, <1>1, <1>7, <2>1
    <3>3. ASSUME NEW i \in 1 .. j - 1 PROVE left[i] = sends[i + 1]
      <4>1. i \in 1 .. Len(tl) /\ i \in 1 .. Len(left) /\ i <= Len(tl)
        BY <3>1, <1>6, <1>7, <1>8
      <4> QED BY <4>1, <1>1, <1>7
    <3> QED BY <3>1, <3>2, <3>3
  <2>2. CASE ~(j <= Len(tl))
    <3>1. j - Len(tl) \in 1 .. Len(retry) /\ left[j] = retry[j - Len(tl)]
      BY <2>2, <1>6, <1>7, <1>8
    <3>2. left[j] = again
      BY <3>1, <1>6
    <3> QED BY <3>2, <1>4
  <2> QED BY <2>1, <2>2
<1> QED BY <1>7, <1>9 DEF R, h

(* A send that ends, well or not: the answers in the topic stay older than  *)
(* those whose first send is still to end.                                  *)
LEMMA SendEnds ==
  ASSUME ProxyInv, sends # << >>, answers' = answers,
         NEW retry \in {<< >>, Retried(Head(sends))},
         sends' = Tail(sends) \o retry,
         retry # << >> => failed'[Head(sends).n] > 0,
         topic' \in {topic, Append(topic, Head(sends).n)},
         failed' \in [Answers -> Nat],
         \A n \in Answers : failed[n] > 0 => failed'[n] > 0
  PROVE  /\ AnswerInv' /\ AnswersInTurn' /\ topic' \in Seq(Answers)
         /\ sends' \in Seq([n : Answers, cb : BOOLEAN])
<1>a. /\ answers \in 0 .. MaxAnswers /\ Len(sends) \in Nat /\ Len(topic) \in Nat
      /\ sends \in Seq([n : Answers, cb : BOOLEAN]) /\ topic \in Seq(Answers)
      /\ \A i \in 1 .. Len(sends) : sends[i].n \in Answers /\ sends[i].cb \in BOOLEAN
      /\ \A i \in 1 .. Len(topic) : topic[i] \in Answers
  BY AnswerTypes
<1>0. PICK h : h = Head(sends)
  OBVIOUS
<1>1. h = sends[1] /\ Len(sends) # 0 /\ h.n \in Answers /\ 1 \in 1 .. Len(sends)
  <2>1. Head(sends) = sends[1] /\ Len(sends) # 0
    BY <1>a, HeadTailProperties, EmptySeq
  <2> QED BY <2>1, <1>a, <1>0
<1>2. AnswersInTurn' /\ topic' \in Seq(Answers)
  BY TopicStep
<1>3. PICK left : left = Tail(sends) \o retry
  OBVIOUS
<1>4. /\ left \in Seq([n : Answers, cb : BOOLEAN])
      /\ \A j \in 1 .. Len(left) :
           \/ /\ j + 1 \in 1 .. Len(sends) /\ left[j] = sends[j + 1]
              /\ \A i \in 1 .. j - 1 : left[i] = sends[i + 1]
           \/ left[j].n = h.n /\ left[j].cb = FALSE
  BY <1>0, <1>3, SendsLeft
<1>5. sends' = left /\ Len(left) \in Nat
  BY <1>3, <1>4, LenProperties
<1>6. /\ \A i \in 1 .. Len(topic) : topic[i] <= answers
      /\ \A j \in 1 .. Len(sends) :
           /\ sends[j].n <= answers
           /\ ~sends[j].cb => failed[sends[j].n] > 0
           /\ sends[j].cb => /\ \A i \in 1 .. j - 1 : sends[i].n < sends[j].n
                             /\ \A i \in 1 .. Len(topic) : topic[i] < sends[j].n
  BY DEF ProxyInv, AnswerInv
<1>7. \A i \in 1 .. Len(topic') : \/ topic'[i] = h.n
                                  \/ i \in 1 .. Len(topic) /\ topic'[i] = topic[i]
  <2>1. CASE topic' = topic
    BY <2>1
  <2>2. CASE topic' = Append(topic, h.n)
    <3>1. /\ Len(Append(topic, h.n)) = Len(topic) + 1
          /\ \A i \in 1 .. Len(topic) : Append(topic, h.n)[i] = topic[i]
          /\ Append(topic, h.n)[Len(topic) + 1] = h.n
      BY ONLY <1>a, <1>1, AppendProperties
    <3> QED BY <3>1, <2>2, <1>a
  <2> QED BY <2>1, <2>2, <1>0
<1>8. \A i \in 1 .. Len(topic') : topic'[i] <= answers
  BY <1>1, <1>6, <1>7
<1>9. failed'[h.n] > 0 \/ \A j \in 1 .. Len(left) : j + 1 \in 1 .. Len(sends) /\ left[j] = sends[j + 1]
  <2>1. CASE retry = << >>
    <3>1. left = Tail(sends)
      <4>1. Tail(sends) \in Seq([n : Answers, cb : BOOLEAN])
        BY <1>a, <1>1, HeadTailProperties, EmptySeq
      <4> QED BY <4>1, <2>1, <1>3, ConcatEmptySeq
    <3>2. /\ Len(Tail(sends)) = Len(sends) - 1
          /\ \A i \in 1 .. Len(Tail(sends)) : Tail(sends)[i] = sends[i + 1]
      BY <1>a, <1>1, HeadTailProperties, EmptySeq
    <3>3. \A j \in 1 .. Len(left) : j + 1 \in 1 .. Len(sends)
      BY <3>1, <3>2, <1>a, <1>1
    <3> QED BY <3>1, <3>2, <3>3
  <2>2. CASE retry # << >>
    BY <2>2, <1>0
  <2> QED BY <2>1, <2>2
<1>10. ASSUME NEW j \in 1 .. Len(left)
       PROVE  /\ left[j].n <= answers
              /\ ~left[j].cb => failed'[left[j].n] > 0
              /\ left[j].cb => /\ \A i \in 1 .. j - 1 : left[i].n < left[j].n
                               /\ \A i \in 1 .. Len(topic') : topic'[i] < left[j].n
  <2>1. CASE /\ j + 1 \in 1 .. Len(sends) /\ left[j] = sends[j + 1]
             /\ \A i \in 1 .. j - 1 : left[i] = sends[i + 1]
    <3>1. left[j].n <= answers /\ left[j].n \in Answers
      BY <2>1, <1>6, <1>a
    <3>2. ~left[j].cb => failed'[left[j].n] > 0
      BY <2>1, <3>1, <1>6
    <3>3. ASSUME left[j].cb
          PROVE  /\ \A i \in 1 .. j - 1 : left[i].n < left[j].n
                 /\ \A i \in 1 .. Len(topic') : topic'[i] < left[j].n
      <4>1. /\ \A i \in 1 .. j : sends[i].n < left[j].n
            /\ \A i \in 1 .. Len(topic) : topic[i] < left[j].n
        <5>1. (j + 1) - 1 = j
          BY <1>5
        <5> QED BY <5>1, <2>1, <3>3, <1>6
      <4>2. \A i \in 1 .. j - 1 : i + 1 \in 1 .. j
        BY <1>5
      <4>3. h.n < left[j].n
        <5>1. 1 \in 1 .. j
          BY <1>5
        <5> QED BY <5>1, <4>1, <1>1
      <4>4. \A i \in 1 .. j - 1 : left[i].n < left[j].n
        BY <4>1, <4>2, <2>1
      <4>5. \A i \in 1 .. Len(topic') : topic'[i] < left[j].n
        BY <4>1, <4>3, <1>7
      <4> QED BY <4>4, <4>5
    <3> QED BY <3>1, <3>2, <3>3
  <2>2. CASE left[j].n = h.n /\ left[j].cb = FALSE
    <3>1. h.n <= answers
      BY <1>1, <1>6
    <3>2. failed'[h.n] > 0
      <4>1. CASE failed'[h.n] > 0
        BY <4>1
      <4>2. CASE j + 1 \in 1 .. Len(sends) /\ left[j] = sends[j + 1]
        <5>1. failed[h.n] > 0
          BY <4>2, <2>2, <1>6
        <5> QED BY <5>1, <1>1
      <4> QED BY <4>1, <4>2, <1>9
    <3> QED BY <2>2, <3>1, <3>2
  <2> QED BY <2>1, <2>2, <1>4
<1>11. AnswerInv'
  BY <1>5, <1>8, <1>10 DEF AnswerInv
<1> QED BY <1>2, <1>4, <1>5, <1>11

(* A send that succeeds ends, and its answer is in the topic.               *)
LEMMA SendOkKeeps ==
  ASSUME ProxyInv, SendOk
  PROVE  /\ AnswerInv' /\ AnswersInTurn' /\ topic' \in Seq(Answers)
         /\ sends' \in Seq([n : Answers, cb : BOOLEAN])
<1>1. /\ sends # << >> /\ answers' = answers /\ failed' = failed
      /\ topic' = Append(topic, Head(sends).n) /\ sends' = Tail(sends)
  BY DEF SendOk
<1>a. /\ sends \in Seq([n : Answers, cb : BOOLEAN]) /\ failed \in [Answers -> Nat]
  BY AnswerTypes
<1>2. sends' = Tail(sends) \o << >>
  <2>1. Tail(sends) \in Seq([n : Answers, cb : BOOLEAN])
    BY <1>a, <1>1, HeadTailProperties
  <2> QED BY <2>1, <1>1, ConcatEmptySeq
<1>3. PICK retry \in {<< >>, Retried(Head(sends))} : retry = << >>
  OBVIOUS
<1>4. sends' = Tail(sends) \o retry /\ (retry # << >> => failed'[Head(sends).n] > 0)
  BY <1>2, <1>3
<1>5. /\ topic' \in {topic, Append(topic, Head(sends).n)}
      /\ failed' \in [Answers -> Nat]
      /\ \A n \in Answers : failed[n] > 0 => failed'[n] > 0
  BY <1>1, <1>a
<1> QED BY <1>1, <1>4, <1>5, SendEnds

(* A send that fails is tried again, once.                                  *)
LEMMA SendFailedKeeps ==
  ASSUME ProxyInv, SendFailed
  PROVE  /\ AnswerInv' /\ AnswersInTurn' /\ topic' \in Seq(Answers)
         /\ sends' \in Seq([n : Answers, cb : BOOLEAN]) /\ failed' \in [Answers -> Nat]
<1>1. /\ sends # << >> /\ answers' = answers
      /\ topic' \in {topic, Append(topic, Head(sends).n)}
      /\ sends' = Tail(sends) \o Retried(Head(sends))
      /\ failed' = [failed EXCEPT ![Head(sends).n] = @ + 1]
  BY DEF SendFailed
<1>a. /\ sends \in Seq([n : Answers, cb : BOOLEAN]) /\ failed \in [Answers -> Nat]
      /\ Len(sends) \in Nat
      /\ \A i \in 1 .. Len(sends) : sends[i].n \in Answers
      /\ \A k \in Answers : failed[k] \in Nat
  BY AnswerTypes
<1>2. Head(sends).n \in Answers
  <2>1. Head(sends) = sends[1] /\ Len(sends) # 0
    BY <1>a, <1>1, HeadTailProperties, EmptySeq
  <2> QED BY <2>1, <1>a
<1>3. PICK k \in Answers : k = Head(sends).n
  BY <1>2
<1>4. /\ failed' \in [Answers -> Nat] /\ failed'[k] > 0
      /\ \A n \in Answers : failed[n] > 0 => failed'[n] > 0
  <2>1. failed' = [failed EXCEPT ![k] = failed[k] + 1]
    BY <1>1, <1>3
  <2>2. failed[k] + 1 \in Nat /\ failed[k] + 1 > 0
    BY <1>a
  <2> QED BY <2>1, <2>2, <1>a
<1>5. PICK retry \in {<< >>, Retried(Head(sends))} : retry = Retried(Head(sends))
  OBVIOUS
<1>6. sends' = Tail(sends) \o retry /\ (retry # << >> => failed'[Head(sends).n] > 0)
  BY <1>1, <1>3, <1>4, <1>5
<1> QED BY <1>1, <1>4, <1>6, SendEnds

(* A kill forgets the sends; what they were counts as failed.               *)
LEMMA CrashKeepsAnswers ==
  ASSUME ProxyInv, Crash
  PROVE  AnswerInv' /\ AnswersInTurn' /\ failed' \in [Answers -> Nat]
<1>1. /\ sends' = << >> /\ UNCHANGED <<answers, topic>>
      /\ failed' = [n \in Answers |->
                      IF \E i \in DOMAIN sends : sends[i].n = n THEN 2 ELSE failed[n]]
  BY DEF Crash, Answers
<1>a. /\ failed \in [Answers -> Nat] /\ DOMAIN topic = 1 .. Len(topic)
      /\ \A i \in 1 .. Len(topic) : topic[i] \in Answers
      /\ \A k \in Answers : failed[k] \in Nat
  BY AnswerTypes
<1>2. /\ failed' \in [Answers -> Nat]
      /\ \A n \in Answers : failed[n] > 0 => failed'[n] > 0
  BY <1>1, <1>a
<1>3. Len(sends') = 0
  BY <1>1, EmptySeq
<1>4. AnswerInv'
  BY <1>1, <1>3 DEF ProxyInv, AnswerInv
<1>5. \A i, j \in DOMAIN topic : i < j /\ topic[i] >= topic[j] => failed'[topic[j]] > 0
  BY <1>2, <1>a DEF ProxyInv, AnswersInTurn
<1>6. AnswersInTurn'
  BY <1>1, <1>5 DEF AnswersInTurn
<1> QED BY <1>2, <1>4, <1>6

(* An action that leaves the answers alone.                                 *)
LEMMA AnswersStay ==
  ASSUME ProxyInv, UNCHANGED outVars
  PROVE  AnswerInv' /\ AnswersInTurn'
  BY DEF ProxyInv, AnswerInv, AnswersInTurn, outVars

-----------------------------------------------------------------------------
(* Every step.                                                              *)

(* ProxyInv is inductive.                                                   *)
LEMMA ProxyNext == ProxyInv /\ [Next]_vars => ProxyInv'
<1> SUFFICES ASSUME ProxyInv, [Next]_vars PROVE ProxyInv'
  OBVIOUS
<1> USE ProxyAssumption
<1>a. ProxyTypeOK
  BY DEF ProxyInv
<1>1. CASE \/ CallReceive \/ ReceiveAsync \/ Pause \/ Resume \/ CbRecvFailed \/ UNCHANGED vars
  <2>1. /\ UNCHANGED <<hand, q, acks, acked, cursor, engine, lost, repeated>>
        /\ UNCHANGED outVars
    BY <1>1 DEF CallReceive, ReceiveAsync, Pause, Resume, CbRecvFailed, vars, inVars
  <2>2. ProxyTypeOK'
    BY <1>a, <2>1 DEF ProxyTypeOK, outVars
  <2> QED BY <2>1, <2>2, OrdersStay, AnswersStay DEF ProxyInv
<1>2. CASE Run
  <2>1. OrderInv' /\ OrdersInTurn'
    BY <1>2, RunKeepsOrders
  <2>2. /\ engine' = engine \o q /\ q' = << >> /\ topic' = topic /\ failed' = failed
        /\ UNCHANGED <<hand, cursor, acks, acked>>
        /\ Answered \/ UNCHANGED <<answers, sends>>
    BY <1>2 DEF Run, Emptied
  <2>3. engine' \in Seq(Orders) /\ q' \in Seq(Orders)
    BY <1>a, <2>2, ConcatProperties, EmptySeq DEF ProxyTypeOK
  <2>4. /\ AnswerInv' /\ AnswersInTurn' /\ answers' \in 0 .. MaxAnswers
        /\ sends' \in Seq([n : Answers, cb : BOOLEAN])
    <3>1. CASE Answered
      BY <3>1, <2>2, AnsweredKeeps
    <3>2. CASE UNCHANGED <<answers, sends>>
      <4>1. UNCHANGED outVars
        BY <3>2, <2>2 DEF outVars
      <4> QED BY <4>1, <3>2, <1>a, AnswersStay DEF ProxyTypeOK
    <3> QED BY <2>2, <3>1, <3>2
  <2>5. ProxyTypeOK'
    BY <1>a, <2>2, <2>3, <2>4 DEF ProxyTypeOK
  <2> QED BY <2>1, <2>4, <2>5 DEF ProxyInv
<1>3. CASE CbRecv
  <2>1. UNCHANGED outVars /\ UNCHANGED <<q, acked, engine>>
    BY <1>3 DEF CbRecv
  <2>2. /\ OrderInv' /\ OrdersInTurn'
        /\ hand' \in 0 .. MaxOrders /\ cursor' \in 0 .. MaxOrders /\ acks' \subseteq Orders
    BY <1>3, RecvKeepsOrders
  <2>3. ProxyTypeOK'
    BY <1>a, <2>1, <2>2 DEF ProxyTypeOK, outVars
  <2> QED BY <2>1, <2>2, <2>3, AnswersStay DEF ProxyInv
<1>4. CASE CbSend
  <2>1. UNCHANGED outVars /\ hand' = None /\ UNCHANGED <<acks, acked, cursor, engine>>
    BY <1>4 DEF CbSend
  <2>2. OrderInv' /\ OrdersInTurn' /\ q' \in Seq(Orders)
    BY <1>4, SendKeepsOrders
  <2>3. ProxyTypeOK'
    BY <1>a, <2>1, <2>2 DEF ProxyTypeOK, outVars, None
  <2> QED BY <2>1, <2>2, <2>3, AnswersStay DEF ProxyInv
<1>5. ASSUME NEW n \in 1 .. MaxOrders, AckArrives(n) PROVE ProxyInv'
  <2>1. /\ UNCHANGED outVars /\ UNCHANGED <<q, hand, cursor, engine>>
        /\ acks' = acks \ {n} /\ acked' = acked \cup {n}
    BY <1>5 DEF AckArrives
  <2>2. OrderInv' /\ OrdersInTurn'
    BY <1>5, AckKeepsOrders
  <2>3. ProxyTypeOK'
    BY <1>a, <2>1 DEF ProxyTypeOK, outVars, Orders
  <2> QED BY <2>1, <2>2, <2>3, AnswersStay DEF ProxyInv
<1>6. CASE SendOk
  <2>1. /\ UNCHANGED <<hand, q, acks, acked, cursor, engine, lost, repeated>>
        /\ UNCHANGED <<answers, failed>>
    BY <1>6 DEF SendOk, inVars
  <2>2. /\ AnswerInv' /\ AnswersInTurn' /\ topic' \in Seq(Answers)
        /\ sends' \in Seq([n : Answers, cb : BOOLEAN])
    BY <1>6, SendOkKeeps
  <2>3. ProxyTypeOK'
    BY <1>a, <2>1, <2>2 DEF ProxyTypeOK
  <2> QED BY <2>1, <2>2, <2>3, OrdersStay DEF ProxyInv
<1>7. CASE SendFailed
  <2>1. /\ UNCHANGED <<hand, q, acks, acked, cursor, engine, lost, repeated>>
        /\ answers' = answers
    BY <1>7 DEF SendFailed, inVars
  <2>2. /\ AnswerInv' /\ AnswersInTurn' /\ topic' \in Seq(Answers)
        /\ sends' \in Seq([n : Answers, cb : BOOLEAN]) /\ failed' \in [Answers -> Nat]
    BY <1>7, SendFailedKeeps
  <2>3. ProxyTypeOK'
    BY <1>a, <2>1, <2>2 DEF ProxyTypeOK
  <2> QED BY <2>1, <2>2, <2>3, OrdersStay DEF ProxyInv
<1>8. CASE Crash
  <2>1. /\ hand' = None /\ q' = << >> /\ acks' = {} /\ cursor' = 0 /\ sends' = << >>
        /\ UNCHANGED <<acked, engine, answers, topic>>
    BY <1>8 DEF Crash
  <2>2. OrderInv' /\ OrdersInTurn'
    BY <1>8, CrashKeepsOrders
  <2>3. AnswerInv' /\ AnswersInTurn' /\ failed' \in [Answers -> Nat]
    BY <1>8, CrashKeepsAnswers
  <2>4. q' \in Seq(Orders) /\ sends' \in Seq([n : Answers, cb : BOOLEAN])
    BY <2>1, EmptySeq
  <2>5. ProxyTypeOK'
    BY <1>a, <2>1, <2>3, <2>4 DEF ProxyTypeOK, None
  <2> QED BY <2>2, <2>3, <2>5 DEF ProxyInv
<1> QED BY <1>1, <1>2, <1>3, <1>4, <1>5, <1>6, <1>7, <1>8 DEF Next

(* What the proxy knows of its orders and answers, always.                  *)
THEOREM ProxyInductive == Spec => []ProxyInv
  BY ProxyInit, ProxyNext, PTL DEF Spec

(* Orders reach the engine in the order of the topic; a missing one was     *)
(* acknowledged and in memory at a kill, a repeated one sent and not yet    *)
(* acknowledged (cb_recv acknowledges before c.send).                       *)
THEOREM OrdersInTurnHolds == Spec => []OrdersInTurn
<1>1. ProxyInv => OrdersInTurn
  BY DEF ProxyInv
<1> QED BY <1>1, ProxyInductive, PTL

(* Answers are in their topic once and in order, but for those whose send   *)
(* was reported as failed.                                                  *)
THEOREM AnswersInTurnHolds == Spec => []AnswersInTurn
<1>1. ProxyInv => AnswersInTurn
  BY DEF ProxyInv
<1> QED BY <1>1, ProxyInductive, PTL
=============================================================================
