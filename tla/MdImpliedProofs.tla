---------------------------- MODULE MdImpliedProofs ----------------------------
(***************************************************************************)
(* The book of a market-data service with implied levels, for any number   *)
(* of implied books, orders, prices, ticks and commissions.                *)
(*                                                                         *)
(* The lemmas on levels come first, then what                              *)
(* Move, Refresh and RefreshAll do to the state of the service.  Each of   *)
(* the four properties has an invariant over the whole state: HeldInv (an  *)
(* implied side that lacks the price of its legs was held back), AddInv    *)
(* (every level is the sum of its sources), and PricedInv (an implied side *)
(* is no better than its legs, and as deep).  A handler refreshes implied  *)
(* sides one by one, so the invariants are stated for a state in which     *)
(* some sides, X, are still to be refreshed (HeldBut, PricedBut).          *)
(***************************************************************************)
EXTENDS MdImplied, SumProofs, SequenceTheorems

-----------------------------------------------------------------------------
(* The greatest element, and the best level.                                *)

(* A function on a finite set has a greatest value.                         *)
LEMMA ArgMax ==
  ASSUME NEW S, IsFiniteSet(S), S # {}, NEW g, \A x \in S : g[x] \in Int
  PROVE  \E x \in S : \A y \in S : g[y] <= g[x]
<1> DEFINE Good == {k \in Nat : \A u \in Small(S, k) : u # {} =>
                      \E x \in u : \A y \in u : g[y] <= g[x]}
<1>1. \A u \in SUBSET S : IsFiniteSet(u) /\ Cardinality(u) \in Nat
  BY FS_Subset, FS_CardinalityType
<1>2. 0 \in Good
  <2> SUFFICES ASSUME NEW u \in Small(S, 0) PROVE u = {}
    OBVIOUS
  <2>1. u \in SUBSET S /\ Cardinality(u) <= 0
    BY DEF Small
  <2> QED BY <2>1, <1>1, FS_EmptySet
<1>3. ASSUME NEW k \in Good PROVE k + 1 \in Good
  <2> SUFFICES ASSUME NEW u \in Small(S, k + 1), u # {}
               PROVE  \E x \in u : \A y \in u : g[y] <= g[x]
    OBVIOUS
  <2>1. u \in SUBSET S
    BY DEF Small
  <2> DEFINE c == CHOOSE x \in u : TRUE
  <2>2. c \in u /\ u \ {c} \in Small(S, k)
    BY SmallerLeft
  <2> HIDE DEF c
  <2>3. CASE u \ {c} = {}
    <3>1. \A y \in u : y = c
      BY <2>3
    <3> QED BY <3>1, <2>1, <2>2
  <2>4. CASE u \ {c} # {}
    <3>1. PICK x \in u \ {c} : \A y \in u \ {c} : g[y] <= g[x]
      BY <2>4, <2>2, <1>3
    <3>2. g[x] \in Int /\ g[c] \in Int /\ \A y \in u : g[y] \in Int
      BY <2>1, <2>2
    <3>3. CASE g[c] <= g[x]
      BY <3>1, <3>3
    <3>4. CASE ~(g[c] <= g[x])
      <4>1. \A y \in u \ {c} : g[y] <= g[c]
        BY <3>1, <3>2, <3>4
      <4> QED BY <4>1, <3>2, <2>2
    <3> QED BY <3>3, <3>4
  <2> QED BY <2>3, <2>4
<1>4. Good = Nat
  <2>1. Good \in SUBSET Nat
    OBVIOUS
  <2> HIDE DEF Good
  <2> QED BY <1>2, <1>3, <2>1, NatInduct
<1>5. S \in Small(S, Cardinality(S)) /\ Cardinality(S) \in Nat
  BY <1>1 DEF Small
<1> QED BY <1>4, <1>5

(* A finite set of integers has a greatest and a least element, which are   *)
(* its Max and Min.                                                         *)
LEMMA MaxMin ==
  ASSUME NEW S \in SUBSET Int, IsFiniteSet(S), S # {}
  PROVE  /\ Max(S) \in S /\ \A y \in S : y <= Max(S)
         /\ Min(S) \in S /\ \A y \in S : Min(S) <= y
<1>1. PICK x \in S : \A y \in S : y <= x
  <2> DEFINE g == [y \in S |-> y]
  <2>1. \A y \in S : g[y] = y /\ g[y] \in Int
    OBVIOUS
  <2> HIDE DEF g
  <2>2. \E x \in S : \A y \in S : g[y] <= g[x]
    BY <2>1, ArgMax
  <2> QED BY <2>1, <2>2
<1>2. PICK z \in S : \A y \in S : z <= y
  <2> DEFINE g == [y \in S |-> -y]
  <2>1. \A y \in S : g[y] = -y /\ g[y] \in Int
    OBVIOUS
  <2> HIDE DEF g
  <2>2. PICK z \in S : \A y \in S : g[y] <= g[z]
    BY <2>1, ArgMax
  <2>3. \A y \in S : -y <= -z /\ y \in Int /\ z \in Int
    BY <2>1, <2>2
  <2>4. \A y \in S : z <= y
    BY <2>3
  <2> QED BY <2>4
<1>3. Max(S) \in S /\ \A y \in S : Max(S) >= y
  BY <1>1 DEF Max
<1>4. Min(S) \in S /\ \A y \in S : Min(S) <= y
  BY <1>2 DEF Min
<1> QED BY <1>3, <1>4

(* Max and Min of two numbers.                                              *)
LEMMA MaxMinOfTwo ==
  ASSUME NEW a \in Int, NEW b \in Int
  PROVE  /\ Max({a, b}) \in {a, b} /\ Max({a, b}) >= a /\ Max({a, b}) >= b
         /\ Min({a, b}) \in {a, b} /\ Min({a, b}) <= a /\ Min({a, b}) <= b
<1>1. \E x \in {a, b} : \A y \in {a, b} : x >= y
  <2>1. CASE a >= b BY <2>1
  <2>2. CASE ~(a >= b) BY <2>2
  <2> QED BY <2>1, <2>2
<1>2. \E x \in {a, b} : \A y \in {a, b} : x <= y
  <2>1. CASE a <= b BY <2>1
  <2>2. CASE ~(a <= b) BY <2>2
  <2> QED BY <2>1, <2>2
<1>3. Max({a, b}) \in {a, b} /\ \A y \in {a, b} : Max({a, b}) >= y
  BY <1>1 DEF Max
<1>4. Min({a, b}) \in {a, b} /\ \A y \in {a, b} : Min({a, b}) <= y
  BY <1>2 DEF Min
<1> QED BY <1>3, <1>4

\* The levels of a side: finitely many, none of them empty.
Levels == {l \in UNION {[D -> Nat \ {0}] : D \in SUBSET Int} : IsFiniteSet(DOMAIN l)}

(* What the levels of a side are.                                           *)
LEMMA LevelsAre ==
  ASSUME NEW l \in Levels
  PROVE  /\ DOMAIN l \in SUBSET Int /\ IsFiniteSet(DOMAIN l)
         /\ l = [p \in DOMAIN l |-> l[p]]
         /\ \A p \in DOMAIN l : l[p] \in Nat /\ l[p] > 0
         /\ \A p : At(l, p) \in Nat /\ (At(l, p) > 0 <=> p \in DOMAIN l)
<1>1. PICK D \in SUBSET Int : l \in [D -> Nat \ {0}]
  BY DEF Levels
<1>2. DOMAIN l = D /\ \A p \in D : l[p] \in Nat /\ l[p] > 0
  BY <1>1
<1>3. IsFiniteSet(DOMAIN l)
  BY DEF Levels
<1>4. l = [p \in DOMAIN l |-> l[p]]
  BY <1>1
<1>5. ASSUME NEW p PROVE At(l, p) \in Nat /\ (At(l, p) > 0 <=> p \in DOMAIN l)
  <2>1. CASE p \in DOMAIN l
    <3>1. At(l, p) = l[p] /\ l[p] \in Nat /\ l[p] > 0
      BY <1>2, <2>1 DEF At
    <3> QED BY <2>1, <3>1
  <2>2. CASE p \notin DOMAIN l
    <3>1. At(l, p) = 0
      BY <2>2 DEF At
    <3> QED BY <2>2, <3>1
  <2> QED BY <2>1, <2>2
<1> QED BY <1>2, <1>3, <1>4, <1>5

(* How levels are made.                                                     *)
LEMMA LevelsMade ==
  ASSUME NEW D \in SUBSET Int, IsFiniteSet(D), NEW l \in [D -> Nat \ {0}]
  PROVE  l \in Levels
BY DEF Levels

(* Levels with the same quantity at every price are the same.               *)
LEMMA LevelsSame ==
  ASSUME NEW l \in Levels, NEW k \in Levels, \A p \in Int : At(l, p) = At(k, p)
  PROVE  l = k
<1>1. DOMAIN l = DOMAIN k
  BY LevelsAre
<1>2. \A p \in DOMAIN l : l[p] = k[p]
  BY <1>1, LevelsAre DEF At
<1> QED BY <1>1, <1>2, LevelsAre

(* The best of some levels, if there are any.                               *)
LEMMA BestExists ==
  ASSUME NEW s \in Sides, NEW l \in Levels, DOMAIN l # {}
  PROVE  \E p \in Best(s, l) : p \in Int
<1>1. DOMAIN l \in SUBSET Int /\ IsFiniteSet(DOMAIN l)
  BY LevelsAre
<1>2. CASE s = "bid"
  <2>1. \A y \in DOMAIN l : ~(y > Max(DOMAIN l))
    BY <1>1, MaxMin
  <2> QED BY <1>1, <1>2, <2>1, MaxMin DEF Best, Better
<1>3. CASE s = "ask"
  <2>1. \A y \in DOMAIN l : ~(y < Min(DOMAIN l))
    BY <1>1, MaxMin
  <2> QED BY <1>1, <1>3, <2>1, MaxMin DEF Best, Better
<1> QED BY <1>2, <1>3 DEF Sides

(* No levels, and a single one.                                             *)
LEMMA OneLevel ==
  ASSUME NEW p \in Int, NEW q \in Nat
  PROVE  /\ NoLevels \in Levels /\ One(p, q) \in Levels
         /\ \A r : At(NoLevels, r) = 0 /\ At(One(p, q), r) = IF r = p THEN q ELSE 0
<1>1. NoLevels \in Levels
  <2>1. IsFiniteSet({})
    BY FS_EmptySet
  <2>2. {} \in SUBSET Int /\ [r \in {} |-> 0] \in [{} -> Nat \ {0}]
    OBVIOUS
  <2>3. [r \in {} |-> 0] \in Levels
    BY <2>1, <2>2, LevelsMade
  <2> QED BY <2>3 DEF NoLevels
<1>2. \A r : At(NoLevels, r) = 0
  BY DEF At, NoLevels
<1>3. CASE q = 0
  <2>1. One(p, q) = NoLevels
    BY <1>3 DEF One, NoLevels
  <2> QED BY <1>1, <1>2, <1>3, <2>1
<1>4. CASE q # 0
  <2>1. One(p, q) = [r \in {p} |-> q]
    BY <1>4 DEF One
  <2>2. IsFiniteSet({p})
    BY FS_Singleton
  <2>3. One(p, q) \in [{p} -> Nat \ {0}]
    BY <2>1, <1>4
  <2>4. One(p, q) \in Levels
    BY <2>2, <2>3, LevelsMade
  <2> QED BY <1>1, <1>2, <2>1, <2>4 DEF At
<1> QED BY <1>3, <1>4

(* What Moved makes of some levels: each quantity changes by the difference *)
(* from old to new, within the range of the type.                           *)
LEMMA MovedIs ==
  ASSUME NEW l \in Levels, NEW old \in Levels, NEW new \in Levels
  PROVE  /\ Moved(l, old, new) \in Levels
         /\ \A p \in Int :
              LET q == At(l, p) + At(new, p) - At(old, p)
              IN  q \in 0 .. QuantityModulus - 1 => At(Moved(l, old, new), p) = q
<1> DEFINE q(p) == At(l, p) + At(new, p) - At(old, p)
           D == {r \in DOMAIN l \cup DOMAIN new : q(r) % QuantityModulus # 0}
<1>0. QuantityModulus \in Nat \ {0}
  BY MdImpliedAssumption
<1>1. \A p : q(p) \in Int
  BY LevelsAre
<1> HIDE DEF q
<1>2. \A p : q(p) % QuantityModulus \in Nat
  BY <1>0, <1>1
<1>3. Moved(l, old, new) = [p \in D |-> q(p) % QuantityModulus]
  BY DEF Moved, q
<1>4. D \in SUBSET Int /\ IsFiniteSet(D)
  <2>1. IsFiniteSet(DOMAIN l \cup DOMAIN new)
    BY LevelsAre, FS_Union
  <2>2. D \in SUBSET (DOMAIN l \cup DOMAIN new)
    OBVIOUS
  <2>3. IsFiniteSet(D)
    BY <2>1, <2>2, FS_Subset
  <2> QED BY <2>2, <2>3, LevelsAre
<1>5. Moved(l, old, new) \in [D -> Nat \ {0}]
  BY <1>2, <1>3
<1>6. Moved(l, old, new) \in Levels
  BY <1>4, <1>5, LevelsMade
<1>7. ASSUME NEW p \in Int, q(p) \in 0 .. QuantityModulus - 1, p \in DOMAIN l \cup DOMAIN new
      PROVE  At(Moved(l, old, new), p) = q(p)
  <2>1. q(p) % QuantityModulus = q(p)
    BY <1>0, <1>7
  <2>2. CASE p \in D
    BY <1>3, <2>1, <2>2 DEF At
  <2>3. CASE p \notin D
    BY <1>3, <1>7, <2>1, <2>3 DEF At
  <2> QED BY <2>2, <2>3
<1>8. ASSUME NEW p \in Int, q(p) \in 0 .. QuantityModulus - 1, p \notin DOMAIN l \cup DOMAIN new
      PROVE  At(Moved(l, old, new), p) = q(p)
  <2>1. At(l, p) = 0 /\ At(new, p) = 0 /\ At(old, p) \in Nat
    BY <1>8, LevelsAre DEF At
  <2>2. q(p) = 0
    BY <1>8, <2>1 DEF q
  <2>3. p \notin DOMAIN Moved(l, old, new)
    BY <1>3, <1>8
  <2> QED BY <2>2, <2>3 DEF At
<1> QED BY <1>6, <1>7, <1>8 DEF q

-----------------------------------------------------------------------------
(* The state of the service, and how Move changes it.                       *)

Ways == Kinds \cup {"implied"}

MdType ==
  [leg     : [LegFeeds -> [Sides -> Levels]],
   out     : [Sides -> Levels],
   imp     : [BookSet -> [Sides -> Levels]],
   sub     : [Sides -> Levels] \cup {<< >>},
   corrupt : BOOLEAN,
   gone    : [BookSet -> [Sides -> SUBSET Ways]]]

(* The two sides.                                                           *)
LEMMA SidesAre ==
  ASSUME NEW s \in Sides
  PROVE  /\ Opposite(s) \in Sides /\ Opposite(s) # s /\ Opposite(Opposite(s)) = s
         /\ \A t \in Sides : t = s \/ t = Opposite(s)
BY DEF Sides, Opposite

\* What the handlers keep of a state when they move levels of side s of outright
\* for the reason way.
Kept(m, r, s, way) ==
  /\ r.leg = m.leg
  /\ \A t \in Sides : t # s => r.out[t] = m.out[t]
  /\ \A b \in BookSet :
       Worse(s, r.out[s], m.out[s]) /\ m.imp[b][Opposite(s)] # NoLevels
         => way \in r.gone[b][Opposite(s)]

(* A subscriber has levels when it is sent some.                            *)
LEMMA SeenLevels ==
  ASSUME NEW view \in Levels, NEW levels \in Levels, NEW changed
  PROVE  Seen(view, levels, changed) \in Levels
<1> DEFINE D == (DOMAIN view \ changed) \cup (changed \cap DOMAIN levels)
<1>1. IsFiniteSet(DOMAIN view \cup DOMAIN levels)
  BY LevelsAre, FS_Union
<1>2. D \in SUBSET (DOMAIN view \cup DOMAIN levels)
  OBVIOUS
<1>3. IsFiniteSet(D)
  BY <1>1, <1>2, FS_Subset
<1>4. D \in SUBSET Int
  BY <1>2, LevelsAre
<1>5. \A p \in D : (IF p \in changed THEN levels[p] ELSE view[p]) \in Nat \ {0}
  BY LevelsAre
<1>6. Seen(view, levels, changed) \in [D -> Nat \ {0}]
  BY <1>5 DEF Seen
<1> QED BY <1>3, <1>4, <1>6, LevelsMade

(* No level is worse than itself.                                           *)
LEMMA NotWorse ==
  ASSUME NEW s \in Sides, NEW l \in Levels
  PROVE  ~Worse(s, l, l)
<1>1. \A p \in DOMAIN l : p \in Int
  BY LevelsAre
<1>2. \A p \in DOMAIN l : ~Better(s, p, p)
  BY <1>1 DEF Better
<1> QED BY <1>2 DEF Worse, Best

(* What Move does when the levels it reduces are there.                     *)
LEMMA MoveFound ==
  ASSUME NEW m \in MdType, NEW s \in Sides, NEW old \in Levels, NEW new \in Levels,
         NEW way \in Ways, ~Unfound(m.out[s], old, new)
  PROVE  LET r == Move(m, s, old, new, way)
         IN  /\ r \in MdType
             /\ r.leg = m.leg /\ r.imp = m.imp /\ r.corrupt = m.corrupt
             /\ r.out = [m.out EXCEPT ![s] = Moved(m.out[s], old, new)]
             /\ r.sub = Sent(m, s, Moved(m.out[s], old, new), Changed(old, new))
             /\ r.gone = Gone(m, s, Moved(m.out[s], old, new), way)
<1> DEFINE r == Move(m, s, old, new, way)
           levels == Moved(m.out[s], old, new)
           seen == Sent(m, s, levels, Changed(old, new))
           gone == Gone(m, s, levels, way)
<1>0. /\ m.out \in [Sides -> Levels] /\ m.gone \in [BookSet -> [Sides -> SUBSET Ways]]
      /\ m.sub \in [Sides -> Levels] \cup {<< >>}
  BY DEF MdType
<1>1. levels \in Levels
  BY <1>0, MovedIs
<1>2. r = [m EXCEPT !.out[s] = levels, !.sub = seen, !.gone = gone]
  BY DEF Move
<1> HIDE DEF r, levels
<1>3. gone \in [BookSet -> [Sides -> SUBSET Ways]]
  <2>1. \A b \in BookSet : m.gone[b] \in [Sides -> SUBSET Ways]
    BY <1>0
  <2>2. \A b \in BookSet : [m.gone[b] EXCEPT ![Opposite(s)] = m.gone[b][Opposite(s)] \cup {way}]
                             \in [Sides -> SUBSET Ways]
    BY <2>1, SidesAre
  <2> QED BY <2>1, <2>2 DEF Gone
<1>4. seen \in [Sides -> Levels] \cup {<< >>}
  <2>1. CASE m.sub = << >>
    BY <2>1 DEF Sent
  <2>2. CASE m.sub # << >>
    <3>1. m.sub \in [Sides -> Levels]
      BY <1>0, <2>2
    <3>2. Seen(m.sub[s], levels, Changed(old, new)) \in Levels
      BY <3>1, <1>1, SeenLevels
    <3> QED BY <2>2, <3>1, <3>2 DEF Sent
  <2> QED BY <2>1, <2>2
<1> HIDE DEF seen, gone
<1>5. /\ r.leg = m.leg /\ r.imp = m.imp /\ r.corrupt = m.corrupt
      /\ r.out = [m.out EXCEPT ![s] = levels]
      /\ r.sub = seen /\ r.gone = gone
  BY <1>2 DEF MdType
<1>6. [m.out EXCEPT ![s] = levels] \in [Sides -> Levels]
  BY <1>0, <1>1
<1>7. r \in MdType
  <2>1. r = [m EXCEPT !.out = [m.out EXCEPT ![s] = levels], !.sub = seen, !.gone = gone]
    BY <1>2
  <2> QED BY <2>1, <1>3, <1>4, <1>6 DEF MdType
<1> QED BY <1>5, <1>7 DEF levels, seen, gone, r

(* What Gone records.                                                       *)
LEMMA GoneIs ==
  ASSUME NEW m \in MdType, NEW s \in Sides, NEW levels, NEW way, NEW b \in BookSet
  PROVE  /\ Gone(m, s, levels, way)[b][s] = m.gone[b][s]
         /\ Gone(m, s, levels, way)[b][Opposite(s)] =
              IF Worse(s, levels, m.out[s]) /\ m.imp[b][Opposite(s)] # NoLevels
              THEN m.gone[b][Opposite(s)] \cup {way} ELSE m.gone[b][Opposite(s)]
<1>1. m.gone[b] \in [Sides -> SUBSET Ways]
  BY DEF MdType
<1> QED BY <1>1, SidesAre DEF Gone

(* What Move does, whatever it finds.                                       *)
LEMMA MoveKeeps ==
  ASSUME NEW m \in MdType, NEW s \in Sides, NEW old \in Levels, NEW new \in Levels,
         NEW way \in Ways
  PROVE  LET r == Move(m, s, old, new, way)
         IN  /\ r \in MdType /\ r.imp = m.imp /\ Kept(m, r, s, way)
             /\ \A b \in BookSet, t \in Sides : m.gone[b][t] \subseteq r.gone[b][t]
<1>0. m.out \in [Sides -> Levels]
  BY DEF MdType
<1>1. CASE Unfound(m.out[s], old, new)
  <2> DEFINE r == Move(m, s, old, new, way)
  <2>1. r = [m EXCEPT !.corrupt = TRUE]
    BY <1>1 DEF Move
  <2>2. r \in MdType /\ r.imp = m.imp /\ r.leg = m.leg /\ r.out = m.out /\ r.gone = m.gone
    BY <2>1 DEF MdType
  <2> HIDE DEF r
  <2>3. ~Worse(s, m.out[s], m.out[s])
    BY <1>0, NotWorse
  <2>4. Kept(m, r, s, way)
    BY <2>2, <2>3 DEF Kept
  <2>5. \A b \in BookSet, t \in Sides : m.gone[b][t] \subseteq r.gone[b][t]
    BY <2>2
  <2> QED BY <2>2, <2>4, <2>5 DEF r
<1>2. CASE ~Unfound(m.out[s], old, new)
  <2> DEFINE r == Move(m, s, old, new, way)
  <2>1. /\ r \in MdType
        /\ r.leg = m.leg /\ r.imp = m.imp
        /\ r.out = [m.out EXCEPT ![s] = Moved(m.out[s], old, new)]
        /\ r.gone = Gone(m, s, Moved(m.out[s], old, new), way)
    BY <1>2, MoveFound
  <2> HIDE DEF r
  <2>2. r.out[s] = Moved(m.out[s], old, new) /\ \A t \in Sides : t # s => r.out[t] = m.out[t]
    BY <2>1, <1>0
  <2>3. \A b \in BookSet : r.gone[b][Opposite(s)] =
          IF Worse(s, r.out[s], m.out[s]) /\ m.imp[b][Opposite(s)] # NoLevels
          THEN m.gone[b][Opposite(s)] \cup {way} ELSE m.gone[b][Opposite(s)]
    BY <2>1, <2>2, GoneIs
  <2>4. Kept(m, r, s, way)
    BY <2>1, <2>2, <2>3 DEF Kept
  <2>5. \A b \in BookSet : r.gone[b][s] = m.gone[b][s]
    <3> SUFFICES ASSUME NEW b \in BookSet PROVE r.gone[b][s] = m.gone[b][s]
      OBVIOUS
    <3>1. Gone(m, s, Moved(m.out[s], old, new), way)[b][s] = m.gone[b][s]
      <4>1. m.gone[b] \in [Sides -> SUBSET Ways]
        BY DEF MdType
      <4> QED BY <4>1, SidesAre DEF Gone
    <3> QED BY <2>1, <3>1
  <2>6. \A b \in BookSet, t \in Sides : m.gone[b][t] \subseteq r.gone[b][t]
    BY <2>3, <2>5, SidesAre
  <2> QED BY <2>1, <2>4, <2>6 DEF r
<1> QED BY <1>1, <1>2

-----------------------------------------------------------------------------
(* The levels that two legs imply.                                          *)

(* The legs of an implied side.                                             *)
LEMMA LegsAre ==
  ASSUME NEW m \in MdType, NEW b \in BookSet, NEW s \in Sides, Type[b][s] # << >>
  PROVE  \A i \in 1 .. 2 : Type[b][s][i] \in Sides /\ Leg(m, b, s, i) \in Levels
<1>1. Type[b][s] \in Sides \X Sides
  <2>1. Type[b] \in [Sides -> (Sides \X Sides) \cup {<< >>}]
    BY MdImpliedAssumption
  <2> QED BY <2>1
<1>2. <<b, "a">> \in LegFeeds /\ <<b, "b">> \in LegFeeds
  BY DEF LegFeeds
<1>3. m.leg \in [LegFeeds -> [Sides -> Levels]]
  BY DEF MdType
<1>4. \A i \in 1 .. 2 : i = 1 \/ i = 2
  OBVIOUS
<1> QED BY <1>1, <1>2, <1>3, <1>4 DEF Leg

(* What is ahead of a level of a leg: nothing of the best, and never more   *)
(* than the leg has.                                                        *)
LEMMA AheadIs ==
  ASSUME NEW m \in MdType, NEW b \in BookSet, NEW s \in Sides, Type[b][s] # << >>,
         NEW i \in 1 .. 2
  PROVE  /\ \A p : Ahead(m, b, s, i, p) \in Nat
         /\ \A p \in Best(Type[b][s][i], Leg(m, b, s, i)) : Ahead(m, b, s, i, p) = 0
<1> DEFINE l == Leg(m, b, s, i)
<1>1. l \in Levels
  BY LegsAre
<1> HIDE DEF l
<1>2. ASSUME NEW p PROVE SumOver(l, {r \in DOMAIN l : Better(Type[b][s][i], r, p)}) \in Nat
  <2> DEFINE S == {r \in DOMAIN l : Better(Type[b][s][i], r, p)}
  <2>1. S \in SUBSET DOMAIN l
    OBVIOUS
  <2>2. IsFiniteSet(S)
    BY <1>1, <2>1, LevelsAre, FS_Subset
  <2>3. Counted(l, S)
    BY <1>1, <2>1, LevelsAre DEF Counted
  <2> HIDE DEF S
  <2>4. SumOver(l, S) \in Nat
    BY <2>2, <2>3, SumNat
  <2> QED BY <2>4 DEF S
<1>3. ASSUME NEW p \in Best(Type[b][s][i], l)
      PROVE  SumOver(l, {r \in DOMAIN l : Better(Type[b][s][i], r, p)}) = 0
  <2>1. {r \in DOMAIN l : Better(Type[b][s][i], r, p)} = {}
    BY DEF Best
  <2> QED BY <2>1, SumEmpty
<1>4. \A p : Ahead(m, b, s, i, p) = SumOver(l, {r \in DOMAIN l : Better(Type[b][s][i], r, p)})
  BY DEF Ahead, l
<1> QED BY <1>2, <1>3, <1>4 DEF l

(* The place of a pair of levels.                                           *)
LEMMA PlaceIs ==
  ASSUME NEW m \in MdType, NEW b \in BookSet, NEW s \in Sides, Type[b][s] # << >>,
         NEW x \in (DOMAIN Leg(m, b, s, 1)) \X (DOMAIN Leg(m, b, s, 2))
  PROVE  /\ x[1] \in Int /\ x[2] \in Int
         /\ From(m, b, s, x) \in Nat /\ Until(m, b, s, x) \in Nat
         /\ \A i \in 1 .. 2 :
              /\ Ahead(m, b, s, i, x[i]) \in Nat
              /\ Leg(m, b, s, i)[x[i]] \in Nat /\ Leg(m, b, s, i)[x[i]] > 0
              /\ Ahead(m, b, s, i, x[i]) <= From(m, b, s, x)
              /\ Until(m, b, s, x) <= Ahead(m, b, s, i, x[i]) + Leg(m, b, s, i)[x[i]]
         /\ \E i \in 1 .. 2 : From(m, b, s, x) = Ahead(m, b, s, i, x[i])
         /\ \E i \in 1 .. 2 :
              Until(m, b, s, x) = Ahead(m, b, s, i, x[i]) + Leg(m, b, s, i)[x[i]]
<1>1. 1 \in 1 .. 2 /\ 2 \in 1 .. 2 /\ \A i \in 1 .. 2 : i = 1 \/ i = 2
  OBVIOUS
<1>2. Leg(m, b, s, 1) \in Levels /\ Leg(m, b, s, 2) \in Levels
  BY <1>1, LegsAre
<1>3. x[1] \in DOMAIN Leg(m, b, s, 1) /\ x[2] \in DOMAIN Leg(m, b, s, 2)
  OBVIOUS
<1>4. /\ x[1] \in Int /\ x[2] \in Int
      /\ Leg(m, b, s, 1)[x[1]] \in Nat /\ Leg(m, b, s, 1)[x[1]] > 0
      /\ Leg(m, b, s, 2)[x[2]] \in Nat /\ Leg(m, b, s, 2)[x[2]] > 0
  BY <1>2, <1>3, LevelsAre
<1>5. Ahead(m, b, s, 1, x[1]) \in Nat /\ Ahead(m, b, s, 2, x[2]) \in Nat
  BY <1>1, AheadIs
<1> DEFINE a1 == Ahead(m, b, s, 1, x[1])  a2 == Ahead(m, b, s, 2, x[2])
           q1 == Leg(m, b, s, 1)[x[1]]    q2 == Leg(m, b, s, 2)[x[2]]
<1>6. From(m, b, s, x) = Max({a1, a2})
  <2>1. {Ahead(m, b, s, i, x[i]) : i \in 1 .. 2} = {a1, a2}
    BY <1>1
  <2> QED BY <2>1 DEF From
<1>7. Until(m, b, s, x) = Min({a1 + q1, a2 + q2})
  <2>1. {Ahead(m, b, s, i, x[i]) + Leg(m, b, s, i)[x[i]] : i \in 1 .. 2} = {a1 + q1, a2 + q2}
    BY <1>1
  <2> QED BY <2>1 DEF Until
<1>8. a1 \in Nat /\ a2 \in Nat /\ q1 \in Nat /\ q2 \in Nat
  BY <1>4, <1>5
<1>9. /\ \A i \in 1 .. 2 : Ahead(m, b, s, i, x[i]) = IF i = 1 THEN a1 ELSE a2
      /\ \A i \in 1 .. 2 : Leg(m, b, s, i)[x[i]] = IF i = 1 THEN q1 ELSE q2
  BY <1>1
<1>10. q1 > 0 /\ q2 > 0
  BY <1>4
<1> HIDE DEF a1, a2, q1, q2
<1>11. /\ Max({a1, a2}) \in {a1, a2} /\ Max({a1, a2}) >= a1 /\ Max({a1, a2}) >= a2
       /\ Max({a1, a2}) \in Nat
  <2>1. a1 \in Int /\ a2 \in Int
    BY <1>8
  <2>2. Max({a1, a2}) \in {a1, a2} /\ Max({a1, a2}) >= a1 /\ Max({a1, a2}) >= a2
    BY ONLY <2>1, MaxMinOfTwo
  <2> QED BY <1>8, <2>2
<1>12. /\ Min({a1 + q1, a2 + q2}) \in {a1 + q1, a2 + q2}
       /\ Min({a1 + q1, a2 + q2}) <= a1 + q1 /\ Min({a1 + q1, a2 + q2}) <= a2 + q2
       /\ Min({a1 + q1, a2 + q2}) \in Nat
  <2> DEFINE u1 == a1 + q1  u2 == a2 + q2
  <2>1. u1 \in Nat /\ u2 \in Nat /\ u1 \in Int /\ u2 \in Int
    BY <1>8
  <2> HIDE DEF u1, u2
  <2>2. Min({u1, u2}) \in {u1, u2} /\ Min({u1, u2}) <= u1 /\ Min({u1, u2}) <= u2
    BY ONLY <2>1, MaxMinOfTwo
  <2> QED BY <2>1, <2>2 DEF u1, u2
<1>13. ASSUME NEW i \in 1 .. 2
       PROVE  /\ Ahead(m, b, s, i, x[i]) \in Nat
              /\ Leg(m, b, s, i)[x[i]] \in Nat /\ Leg(m, b, s, i)[x[i]] > 0
              /\ Ahead(m, b, s, i, x[i]) <= From(m, b, s, x)
              /\ Until(m, b, s, x) <= Ahead(m, b, s, i, x[i]) + Leg(m, b, s, i)[x[i]]
  <2>1. CASE i = 1
    BY <2>1, <1>6, <1>7, <1>8, <1>9, <1>10, <1>11, <1>12
  <2>2. CASE i = 2
    BY <2>2, <1>6, <1>7, <1>8, <1>9, <1>10, <1>11, <1>12
  <2> QED BY <1>1, <2>1, <2>2
<1>14. \E i \in 1 .. 2 : From(m, b, s, x) = Ahead(m, b, s, i, x[i])
  BY <1>1, <1>6, <1>9, <1>11
<1>15. \E i \in 1 .. 2 :
         Until(m, b, s, x) = Ahead(m, b, s, i, x[i]) + Leg(m, b, s, i)[x[i]]
  BY <1>1, <1>7, <1>9, <1>12
<1> QED BY <1>4, <1>6, <1>7, <1>11, <1>12, <1>13, <1>14, <1>15

(* The pairs are finitely many; the best levels of the legs are one.        *)
LEMMA PairsAre ==
  ASSUME NEW m \in MdType, NEW b \in BookSet, NEW s \in Sides, Type[b][s] # << >>
  PROVE  /\ IsFiniteSet(Pairs(m, b, s))
         /\ Best(Type[b][s][1], Leg(m, b, s, 1)) \X Best(Type[b][s][2], Leg(m, b, s, 2))
              \subseteq Pairs(m, b, s)
<1>1. 1 \in 1 .. 2 /\ 2 \in 1 .. 2 /\ \A i \in 1 .. 2 : i = 1 \/ i = 2
  OBVIOUS
<1> DEFINE A == DOMAIN Leg(m, b, s, 1)  B == DOMAIN Leg(m, b, s, 2)
<1>2. IsFiniteSet(A) /\ IsFiniteSet(B)
  BY <1>1, LegsAre, LevelsAre
<1>3. IsFiniteSet(A \X B)
  <2> HIDE DEF A, B
  <2> QED BY <1>2, FS_Product
<1>4. Pairs(m, b, s) \in SUBSET (A \X B)
  BY DEF Pairs
<1>5. IsFiniteSet(Pairs(m, b, s))
  <2> HIDE DEF A, B
  <2> QED BY <1>3, <1>4, FS_Subset
<1>6. ASSUME NEW x \in Best(Type[b][s][1], Leg(m, b, s, 1)) \X Best(Type[b][s][2], Leg(m, b, s, 2))
      PROVE  x \in Pairs(m, b, s)
  <2>1. x \in A \X B
    BY DEF Best
  <2>2. \A i \in 1 .. 2 : x[i] \in Best(Type[b][s][i], Leg(m, b, s, i))
    BY <1>1
  <2>3. \A i \in 1 .. 2 : Ahead(m, b, s, i, x[i]) = 0
    BY <2>2, AheadIs
  <2>4. From(m, b, s, x) = 0
    BY <2>1, <2>3, PlaceIs
  <2>5. Until(m, b, s, x) > 0
    BY <2>1, <2>3, PlaceIs
  <2> QED BY <2>1, <2>4, <2>5 DEF Pairs
<1> QED BY <1>5, <1>6

(* Implied prices are integers.                                             *)
LEMMA PriceInt ==
  ASSUME NEW m \in MdType, NEW b \in BookSet, NEW s \in Sides, NEW p1 \in Int, NEW p2 \in Int
  PROVE  /\ matchd_price(b, s, p1, p2) \in Int
         /\ \A p \in Int : HeldBack(m, s, p) \in Int
<1>1. Pips[b] \in Nat /\ Tick \in Nat \ {0} /\ Rule[b] \in {"add", "minus"}
  BY MdImpliedAssumption
<1>2. \A p \in Int : handle_pips(p, Pips[b]) \in Int
  <2> SUFFICES ASSUME NEW p \in Int PROVE handle_pips(p, Pips[b]) \in Int
    OBVIOUS
  <2>1. Abs(p) \in Nat
    BY DEF Abs
  <2>2. Abs(p) * Pips[b] \in Nat
    BY <1>1, <2>1
  <2> QED BY <2>2 DEF handle_pips, Quot
<1>3. \A p \in Int : Rem(p, Tick) \in Int
  BY <1>1 DEF Rem
<1>4. \A p \in Int : round_down(p, Tick) \in Int /\ round_up(p, Tick) \in Int
  BY <1>1, <1>3 DEF round_down, round_up
<1>5. /\ p1 + p2 + Commission(p1, p2, Pips[b]) \in Int /\ p1 + p2 - Commission(p1, p2, Pips[b]) \in Int
      /\ p1 - p2 + Commission(p1, p2, Pips[b]) \in Int /\ p1 - p2 - Commission(p1, p2, Pips[b]) \in Int
  BY <1>2 DEF Commission
<1>6. matchd_price(b, s, p1, p2) \in Int
  BY <1>1, <1>4, <1>5 DEF matchd_price, add_bid, add_ask, minus_bid, minus_ask, Sides
<1>7. ASSUME NEW p \in Int PROVE HeldBack(m, s, p) \in Int
  <2>1. CASE Met(m, s, p) = {}
    BY <2>1 DEF HeldBack
  <2>2. CASE Met(m, s, p) # {}
    <3> DEFINE c == CHOOSE q \in Met(m, s, p) : TRUE
    <3>1. c \in Met(m, s, p)
      BY <2>2
    <3>2. m.out[Opposite(s)] \in Levels
      BY SidesAre DEF MdType
    <3>3. c \in Int
      BY <3>1, <3>2, LevelsAre DEF Met, Best
    <3>4. HeldBack(m, s, p) = IF s = "bid" THEN c - Tick ELSE c + Tick
      BY <2>2 DEF HeldBack
    <3> HIDE DEF c
    <3> QED BY <1>1, <3>3, <3>4
  <2> QED BY <2>1, <2>2
<1> QED BY <1>6, <1>7

(* Each price that some pairs have shows the last of them.                  *)
LEMMA ImpliedIs ==
  ASSUME NEW m \in MdType, NEW b \in BookSet, NEW s \in Sides, Type[b][s] # << >>
  PROVE  /\ Implied(m, b, s) \in Levels
         /\ \A x \in Pairs(m, b, s) : PairPrice(m, b, s, x) \in DOMAIN Implied(m, b, s)
         /\ \A p \in DOMAIN Implied(m, b, s) :
              LET x == LastPair(m, b, s, p)
              IN  /\ x \in Pairs(m, b, s) /\ PairPrice(m, b, s, x) = p
                  /\ Implied(m, b, s)[p] = Until(m, b, s, x) - From(m, b, s, x)
<1> DEFINE P == Pairs(m, b, s)
           price == [x \in P |-> PairPrice(m, b, s, x)]
           D == {PairPrice(m, b, s, x) : x \in P}
<1>1. IsFiniteSet(P)
  BY PairsAre
<1>2. \A x \in P : /\ x \in (DOMAIN Leg(m, b, s, 1)) \X (DOMAIN Leg(m, b, s, 2))
                   /\ From(m, b, s, x) < Until(m, b, s, x)
  BY DEF Pairs
<1>3. \A x \in P : From(m, b, s, x) \in Nat /\ Until(m, b, s, x) \in Nat /\ x[1] \in Int /\ x[2] \in Int
  <2> HIDE DEF P
  <2> QED BY <1>2, PlaceIs
<1>4. \A x \in P : PairPrice(m, b, s, x) \in Int
  BY <1>3, PriceInt DEF PairPrice
<1>5. DOMAIN Implied(m, b, s) = D
  BY DEF Implied
<1> HIDE DEF P
<1>6. IsFiniteSet(D)
  <2>1. price \in Surjection(P, D)
    BY DEF Surjection
  <2> HIDE DEF price, D
  <2> QED BY <1>1, <2>1, FS_Surjection
<1>7. D \in SUBSET Int
  BY <1>4
<1>8. ASSUME NEW p \in D
      PROVE  /\ LastPair(m, b, s, p) \in P
             /\ PairPrice(m, b, s, LastPair(m, b, s, p)) = p
  <2> DEFINE Q == {x \in P : PairPrice(m, b, s, x) = p}
             g == [x \in Q |-> From(m, b, s, x)]
  <2>1. Q # {} /\ Q \in SUBSET P
    OBVIOUS
  <2>2. IsFiniteSet(Q)
    BY <1>1, <2>1, FS_Subset
  <2>3. \A x \in Q : g[x] = From(m, b, s, x) /\ g[x] \in Int
    BY <1>3
  <2> HIDE DEF g
  <2>4. PICK x \in Q : \A y \in Q : g[y] <= g[x]
    <3> HIDE DEF Q
    <3> QED BY <2>1, <2>2, <2>3, ArgMax
  <2>5. \E z \in P : /\ PairPrice(m, b, s, z) = p
                     /\ \A y \in P : PairPrice(m, b, s, y) = p => From(m, b, s, y) <= From(m, b, s, z)
    BY <2>3, <2>4
  <2> QED BY <2>5 DEF LastPair, P
<1>9. \A p \in D : Implied(m, b, s)[p] = Until(m, b, s, LastPair(m, b, s, p))
                                           - From(m, b, s, LastPair(m, b, s, p))
  BY DEF Implied, P
<1>10. \A p \in D : Implied(m, b, s)[p] \in Nat \ {0}
  BY <1>2, <1>3, <1>8, <1>9
<1>11. Implied(m, b, s) \in [D -> Nat \ {0}]
  BY <1>10 DEF Implied, P
<1>12. Implied(m, b, s) \in Levels
  <2> HIDE DEF D
  <2> QED BY <1>6, <1>7, <1>11, LevelsMade
<1>13. \A x \in P : PairPrice(m, b, s, x) \in D
  OBVIOUS
<1> QED BY <1>5, <1>8, <1>9, <1>12, <1>13 DEF P

(* What Refresh does.                                                       *)
LEMMA RefreshIs ==
  ASSUME NEW m \in MdType, NEW b \in BookSet, NEW s \in Sides, Type[b][s] # << >>
  PROVE  LET v == Move(m, s, m.imp[b][s], Implied(m, b, s), "implied")
             r == Refresh(m, b, s)
         IN  /\ r \in MdType /\ r.leg = v.leg /\ r.out = v.out
             /\ r.sub = v.sub /\ r.corrupt = v.corrupt
             /\ r.imp[b][s] = Implied(m, b, s)
             /\ \A c \in BookSet, t \in Sides : <<c, t>> # <<b, s>> =>
                  r.imp[c][t] = v.imp[c][t] /\ r.gone[c][t] = v.gone[c][t]
<1> DEFINE new == Implied(m, b, s)
           v == Move(m, s, m.imp[b][s], new, "implied")
           r == Refresh(m, b, s)
<1>1. new \in Levels
  BY ImpliedIs
<1>2. m.imp[b][s] \in Levels
  BY DEF MdType
<1>3. v \in MdType
  BY <1>1, <1>2, MoveKeeps DEF Ways
<1>4. r = [v EXCEPT !.imp[b][s] = new, !.gone[b][s] = {}]
  BY DEF Refresh
<1> HIDE DEF new, v, r
<1>5. v.imp \in [BookSet -> [Sides -> Levels]] /\ v.gone \in [BookSet -> [Sides -> SUBSET Ways]]
  BY <1>3 DEF MdType
<1> DEFINE imp == [v.imp EXCEPT ![b][s] = new]  gone == [v.gone EXCEPT ![b][s] = {}]
<1>6. imp \in [BookSet -> [Sides -> Levels]]
  BY <1>1, <1>5
<1>7. gone \in [BookSet -> [Sides -> SUBSET Ways]]
  BY <1>5
<1>8. /\ imp[b][s] = new
      /\ \A c \in BookSet, t \in Sides : <<c, t>> # <<b, s>> =>
           imp[c][t] = v.imp[c][t] /\ gone[c][t] = v.gone[c][t]
  BY <1>5
<1>9. r = [v EXCEPT !.imp = imp, !.gone = gone]
  BY <1>4
<1> HIDE DEF imp, gone
<1>10. /\ r.leg = v.leg /\ r.out = v.out /\ r.sub = v.sub /\ r.corrupt = v.corrupt
       /\ r.imp = imp /\ r.gone = gone
  BY <1>9, <1>3 DEF MdType
<1>11. r \in MdType
  BY <1>3, <1>6, <1>7, <1>9 DEF MdType
<1> QED BY <1>8, <1>10, <1>11 DEF r, v, new

(* What Refresh keeps.                                                      *)
LEMMA RefreshKeeps ==
  ASSUME NEW m \in MdType, NEW b \in BookSet, NEW s \in Sides, Type[b][s] # << >>
  PROVE  LET r == Refresh(m, b, s)
         IN  /\ r \in MdType /\ Kept(m, r, s, "implied")
             /\ r.imp[b][s] = Implied(m, b, s)
             /\ \A c \in BookSet, t \in Sides : <<c, t>> # <<b, s>> =>
                  r.imp[c][t] = m.imp[c][t] /\ m.gone[c][t] \subseteq r.gone[c][t]
<1> DEFINE v == Move(m, s, m.imp[b][s], Implied(m, b, s), "implied")
           r == Refresh(m, b, s)
<1>1. Implied(m, b, s) \in Levels /\ m.imp[b][s] \in Levels /\ "implied" \in Ways
  BY ImpliedIs DEF MdType, Ways
<1>2. /\ v \in MdType /\ v.imp = m.imp /\ Kept(m, v, s, "implied")
      /\ \A c \in BookSet, t \in Sides : m.gone[c][t] \subseteq v.gone[c][t]
  BY <1>1, MoveKeeps
<1>3. /\ r \in MdType /\ r.leg = v.leg /\ r.out = v.out
      /\ r.imp[b][s] = Implied(m, b, s)
      /\ \A c \in BookSet, t \in Sides : <<c, t>> # <<b, s>> =>
           r.imp[c][t] = v.imp[c][t] /\ r.gone[c][t] = v.gone[c][t]
  BY RefreshIs
<1> HIDE DEF v, r
<1>4. \A c \in BookSet : Opposite(s) \in Sides /\ <<c, Opposite(s)>> # <<b, s>>
  BY SidesAre
<1>5. \A c \in BookSet : r.gone[c][Opposite(s)] = v.gone[c][Opposite(s)]
  BY <1>3, <1>4
<1>6. Kept(m, r, s, "implied")
  BY <1>2, <1>3, <1>5 DEF Kept
<1>7. \A c \in BookSet, t \in Sides : <<c, t>> # <<b, s>> =>
        r.imp[c][t] = m.imp[c][t] /\ m.gone[c][t] \subseteq r.gone[c][t]
  BY <1>2, <1>3
<1> QED BY <1>3, <1>6, <1>7 DEF r

-----------------------------------------------------------------------------
(* RefreshAll takes the books one after the other.                          *)

FoldStep(m, s, S, g) ==
  IF S = {} THEN m ELSE Lifted(g[S \ {Max(S)}], Books[Max(S)], s)

FoldTo(m, s, k, g) == g = [S \in SUBSET (1 .. k) |-> FoldStep(m, s, S, g)]

(* What FoldLeft computes.                                                  *)
LEMMA RefreshAllIs ==
  ASSUME NEW m, NEW s
  PROVE  RefreshAll(m, s) =
           (CHOOSE g : g = [S \in SUBSET (DOMAIN Books) |-> FoldStep(m, s, S, g)])[DOMAIN Books]
BY DEF RefreshAll, FoldLeft, MapThenFoldSet, FoldStep

(* The greatest of some of the first numbers.                               *)
LEMMA MaxOfFirst ==
  ASSUME NEW k \in Nat, NEW S \in SUBSET (1 .. k + 1), S # {}
  PROVE  Max(S) \in 1 .. k + 1 /\ S \ {Max(S)} \in SUBSET (1 .. k)
<1>1. IsFiniteSet(1 .. k + 1)
  BY FS_Interval
<1>2. IsFiniteSet(S) /\ S \in SUBSET Int
  <2>1. 1 .. k + 1 \in SUBSET Int
    OBVIOUS
  <2> QED BY <1>1, <2>1, FS_Subset
<1>3. Max(S) \in S /\ \A y \in S : y <= Max(S)
  BY <1>2, MaxMin
<1>4. ASSUME NEW y \in S \ {Max(S)} PROVE y \in 1 .. k
  <2>1. y <= Max(S) /\ y # Max(S) /\ Max(S) \in 1 .. k + 1 /\ y \in 1 .. k + 1
    BY <1>3
  <2> QED BY <2>1
<1> QED BY <1>3, <1>4

(* The function that FoldLeft chooses exists.                               *)
LEMMA FoldExists ==
  ASSUME NEW m, NEW s, NEW n \in Nat
  PROVE  \E g : FoldTo(m, s, n, g)
<1> DEFINE Good == {k \in Nat : \E g : FoldTo(m, s, k, g)}
<1>1. 0 \in Good
  <2> DEFINE g == [S \in SUBSET (1 .. 0) |-> m]
  <2>1. \A S \in SUBSET (1 .. 0) : FoldStep(m, s, S, g) = m
    BY DEF FoldStep
  <2>2. FoldTo(m, s, 0, g)
    BY <2>1 DEF FoldTo
  <2> QED BY <2>2
<1>2. ASSUME NEW k \in Good PROVE k + 1 \in Good
  <2>1. PICK g : FoldTo(m, s, k, g)
    BY <1>2
  <2> DEFINE h == [S \in SUBSET (1 .. k + 1) |-> FoldStep(m, s, S, g)]
  <2>2. \A S \in SUBSET (1 .. k) : h[S] = g[S]
    <3>1. SUBSET (1 .. k) \subseteq SUBSET (1 .. k + 1)
      OBVIOUS
    <3> QED BY <2>1, <3>1 DEF FoldTo
  <2> HIDE DEF h
  <2>3. \A S \in SUBSET (1 .. k + 1) : FoldStep(m, s, S, g) = FoldStep(m, s, S, h)
    BY <2>2, MaxOfFirst DEF FoldStep
  <2>4. FoldTo(m, s, k + 1, h)
    BY <2>3 DEF FoldTo, h
  <2> QED BY <2>4
<1>3. Good = Nat
  <2>1. Good \in SUBSET Nat
    OBVIOUS
  <2> HIDE DEF Good
  <2> QED BY <1>1, <1>2, <2>1, NatInduct
<1> QED BY <1>3

(* Induction on the books that RefreshAll has taken: G[k] holds the states  *)
(* that it may be in after k of them.                                       *)
LEMMA RefreshAllReaches ==
  ASSUME NEW m, NEW s, NEW G, m \in G[0],
         \A k \in 1 .. Len(Books) : \A x \in G[k - 1] : Lifted(x, Books[k], s) \in G[k]
  PROVE  RefreshAll(m, s) \in G[Len(Books)]
<1> DEFINE n == Len(Books)
           g == CHOOSE g : FoldTo(m, s, n, g)
<1>1. Books \in Seq(BookSet)
  BY MdImpliedAssumption
<1>2. n \in Nat /\ DOMAIN Books = 1 .. n
  BY <1>1
<1> HIDE DEF n
<1>3. FoldTo(m, s, n, g)
  BY <1>2, FoldExists
<1>4. RefreshAll(m, s) = g[1 .. n]
  BY <1>2, RefreshAllIs DEF FoldTo
<1> HIDE DEF g
<1> DEFINE Good == {k \in Nat : k <= n => g[1 .. k] \in G[k]}
<1>5. 0 \in Good
  <2>1. 1 .. 0 = {} /\ 1 .. 0 \in SUBSET (1 .. n)
    BY <1>2
  <2>2. g[1 .. 0] = m
    BY <1>3, <2>1 DEF FoldTo, FoldStep
  <2> QED BY <2>2
<1>6. ASSUME NEW k \in Good PROVE k + 1 \in Good
  <2> SUFFICES ASSUME k + 1 <= n PROVE g[1 .. k + 1] \in G[k + 1]
    OBVIOUS
  <2>1. k <= n /\ k + 1 \in 1 .. n
    BY <1>2
  <2>2. g[1 .. k] \in G[k]
    BY <2>1
  <2>3. 1 .. k + 1 \in SUBSET (1 .. n) /\ 1 .. k + 1 # {}
    <3>1. k \in Nat /\ n \in Nat /\ k + 1 <= n
      BY <1>2
    <3>2. \A i \in 1 .. k + 1 : i \in 1 .. n
      BY <3>1
    <3>3. k + 1 \in 1 .. k + 1
      BY <3>1
    <3> QED BY <3>2, <3>3
  <2>4. Max(1 .. k + 1) = k + 1
    <3>1. IsFiniteSet(1 .. k + 1) /\ 1 .. k + 1 \in SUBSET Int
      BY FS_Interval
    <3>2. Max(1 .. k + 1) \in 1 .. k + 1 /\ \A y \in 1 .. k + 1 : y <= Max(1 .. k + 1)
      BY <2>3, <3>1, MaxMin
    <3>3. k + 1 \in 1 .. k + 1
      OBVIOUS
    <3> QED BY <3>2, <3>3
  <2>5. (1 .. k + 1) \ {k + 1} = 1 .. k
    OBVIOUS
  <2>6. g[1 .. k + 1] = FoldStep(m, s, 1 .. k + 1, g)
    BY <1>3, <2>3 DEF FoldTo
  <2>7. g[1 .. k + 1] = Lifted(g[1 .. k], Books[k + 1], s)
    BY <2>3, <2>4, <2>5, <2>6 DEF FoldStep
  <2>8. (k + 1) - 1 = k
    OBVIOUS
  <2>9. \A x \in G[k] : Lifted(x, Books[k + 1], s) \in G[k + 1]
    BY <2>1, <2>8 DEF n
  <2> QED BY <2>2, <2>7, <2>9
<1>7. Good = Nat
  <2>1. Good \in SUBSET Nat
    OBVIOUS
  <2> HIDE DEF Good
  <2> QED BY <1>5, <1>6, <2>1, NatInduct
<1>8. g[1 .. n] \in G[n]
  BY <1>2, <1>7
<1> QED BY <1>4, <1>8 DEF n

-----------------------------------------------------------------------------
(* The handlers keep the type of the state.                                 *)

(* A leg changes, nothing else does.                                        *)
LEMMA LegChanges ==
  ASSUME NEW m \in MdType, NEW f \in LegFeeds, NEW s \in Sides, NEW l \in Levels
  PROVE  LET r == [m EXCEPT !.leg[f][s] = l]
         IN  /\ r \in MdType /\ r.out = m.out /\ r.imp = m.imp /\ r.gone = m.gone
             /\ r.sub = m.sub /\ r.corrupt = m.corrupt
             /\ r.leg[f][s] = l
             /\ \A e \in LegFeeds, t \in Sides : <<e, t>> # <<f, s>> => r.leg[e][t] = m.leg[e][t]
<1> DEFINE r == [m EXCEPT !.leg[f][s] = l]
           leg == [m.leg EXCEPT ![f][s] = l]
<1>1. m.leg \in [LegFeeds -> [Sides -> Levels]]
  BY DEF MdType
<1>2. leg \in [LegFeeds -> [Sides -> Levels]]
  BY <1>1
<1>3. leg[f][s] = l /\ \A e \in LegFeeds, t \in Sides : <<e, t>> # <<f, s>> => leg[e][t] = m.leg[e][t]
  BY <1>1
<1>4. r = [m EXCEPT !.leg = leg]
  OBVIOUS
<1> HIDE DEF leg, r
<1>5. /\ r.out = m.out /\ r.imp = m.imp /\ r.gone = m.gone
      /\ r.sub = m.sub /\ r.corrupt = m.corrupt /\ r.leg = leg
  BY <1>4 DEF MdType
<1>6. r \in MdType
  BY <1>2, <1>4 DEF MdType
<1> QED BY <1>3, <1>5, <1>6 DEF r

\* Which leg a feed is.
LegOf(f) == IF f[2] = "a" THEN 1 ELSE 2

(* A feed of a leg, and the implied sides that do not use its side s.       *)
LEMMA OtherLegs ==
  ASSUME NEW m \in MdType, NEW f \in LegFeeds, NEW s \in Sides, NEW l \in Levels
  PROVE  /\ f[1] \in BookSet /\ LegOf(f) \in 1 .. 2
         /\ f = <<f[1], IF LegOf(f) = 1 THEN "a" ELSE "b">>
         /\ \A b \in BookSet, t \in Sides :
              Type[b][t] # << >> /\ ~(b = f[1] /\ UsesLeg(b, t, LegOf(f), s)) =>
                \A i \in 1 .. 2 :
                  Leg([m EXCEPT !.leg[f][s] = l], b, t, i) = Leg(m, b, t, i)
<1> DEFINE r == [m EXCEPT !.leg[f][s] = l]
<1>1. /\ f[1] \in BookSet /\ LegOf(f) \in 1 .. 2
      /\ f = <<f[1], IF LegOf(f) = 1 THEN "a" ELSE "b">>
  BY DEF LegFeeds, LegOf
<1>2. \A e \in LegFeeds, t \in Sides : <<e, t>> # <<f, s>> => r.leg[e][t] = m.leg[e][t]
  BY LegChanges
<1> HIDE DEF r
<1>3. ASSUME NEW b \in BookSet, NEW t \in Sides, NEW i \in 1 .. 2,
             Type[b][t] # << >>, ~(b = f[1] /\ UsesLeg(b, t, LegOf(f), s))
      PROVE  Leg(r, b, t, i) = Leg(m, b, t, i)
  <2> DEFINE e == <<b, IF i = 1 THEN "a" ELSE "b">>
  <2>1. e \in LegFeeds
    BY DEF LegFeeds
  <2>2. Type[b][t][i] \in Sides
    BY <1>3, LegsAre
  <2>3. <<e, Type[b][t][i]>> # <<f, s>>
    <3> SUFFICES ASSUME e = f, Type[b][t][i] = s PROVE FALSE
      OBVIOUS
    <3>1. b = f[1] /\ (i = 1 <=> f[2] = "a")
      BY DEF LegFeeds
    <3>2. i = LegOf(f)
      BY <3>1 DEF LegOf
    <3> QED BY <3>1, <3>2, <1>3 DEF UsesLeg
  <2> HIDE DEF e
  <2>4. r.leg[e][Type[b][t][i]] = m.leg[e][Type[b][t][i]]
    BY <2>1, <2>2, <2>3, <1>2
  <2> QED BY <2>4 DEF Leg, e
<1> QED BY <1>1, <1>3 DEF r

(* Lifted and RefreshAll keep the type.                                     *)
LEMMA LiftedType ==
  ASSUME NEW m \in MdType, NEW s \in Sides
  PROVE  /\ \A b \in BookSet : Lifted(m, b, s) \in MdType
         /\ RefreshAll(m, s) \in MdType
<1>1. \A x \in MdType, b \in BookSet : Lifted(x, b, s) \in MdType
  <2> SUFFICES ASSUME NEW x \in MdType, NEW b \in BookSet PROVE Lifted(x, b, s) \in MdType
    OBVIOUS
  <2>1. CASE Refreshes(b, s)
    <3>1. Type[b][s] # << >>
      BY <2>1 DEF Refreshes
    <3> QED BY <2>1, <3>1, RefreshIs DEF Lifted
  <2>2. CASE ~Refreshes(b, s)
    BY <2>2 DEF Lifted
  <2> QED BY <2>1, <2>2
<1>2. RefreshAll(m, s) \in MdType
  <2> DEFINE G == [k \in 0 .. Len(Books) |-> MdType]
  <2>1. Len(Books) \in Nat /\ \A k \in 1 .. Len(Books) : Books[k] \in BookSet
    BY MdImpliedAssumption
  <2>2. \A k \in 0 .. Len(Books) : G[k] = MdType
    OBVIOUS
  <2>3. m \in G[0] /\ Len(Books) \in 0 .. Len(Books)
    BY <2>1, <2>2
  <2>4. \A k \in 1 .. Len(Books) : k - 1 \in 0 .. Len(Books) /\ k \in 0 .. Len(Books)
    BY <2>1
  <2> HIDE DEF G
  <2>5. \A k \in 1 .. Len(Books) : \A x \in G[k - 1] : Lifted(x, Books[k], s) \in G[k]
    BY <1>1, <2>1, <2>2, <2>4
  <2>6. RefreshAll(m, s) \in G[Len(Books)]
    BY <2>3, <2>5, RefreshAllReaches
  <2> QED BY <2>2, <2>3, <2>6
<1> QED BY <1>1, <1>2

\* The state that HandleLeg makes of m, step by step.
LegIn(m, f, s, p, old, q) == [m EXCEPT !.leg[f][s] = Moved(m.leg[f][s], One(p, old), One(p, q))]

Again(m, f, s, t) == IF UsesLeg(f[1], t, LegOf(f), s) THEN Refresh(m, f[1], t) ELSE m

(* HandleLeg is these steps.                                                *)
LEMMA HandleLegIs ==
  ASSUME NEW f, NEW s, NEW p, NEW old, NEW q
  PROVE  HandleLeg(f, s, p, old, q) <=>
           md' = Again(Again(LegIn(md, f, s, p, old, q), f, s, "bid"), f, s, "ask")
BY DEF HandleLeg, LegIn, Again, LegOf

(* The levels of a leg after its order has changed.                         *)
LEMMA LegInType ==
  ASSUME NEW m \in MdType, NEW f \in LegFeeds, NEW s \in Sides, NEW p \in Int,
         NEW old \in Nat, NEW q \in Nat
  PROVE  /\ Moved(m.leg[f][s], One(p, old), One(p, q)) \in Levels
         /\ LegIn(m, f, s, p, old, q) \in MdType
<1>1. m.leg[f][s] \in Levels
  BY DEF MdType
<1>2. One(p, old) \in Levels /\ One(p, q) \in Levels
  BY OneLevel
<1>3. Moved(m.leg[f][s], One(p, old), One(p, q)) \in Levels
  BY <1>1, <1>2, MovedIs
<1> QED BY <1>3, LegChanges DEF LegIn

(* Again keeps the type.                                                    *)
LEMMA AgainType ==
  ASSUME NEW m \in MdType, NEW f \in LegFeeds, NEW s \in Sides, NEW t \in Sides
  PROVE  Again(m, f, s, t) \in MdType
<1>1. f[1] \in BookSet
  BY DEF LegFeeds
<1>2. CASE UsesLeg(f[1], t, LegOf(f), s)
  <2>1. Type[f[1]][t] # << >>
    BY <1>2 DEF UsesLeg
  <2> QED BY <1>1, <1>2, <2>1, RefreshIs DEF Again
<1>3. CASE ~UsesLeg(f[1], t, LegOf(f), s)
  BY <1>3 DEF Again
<1> QED BY <1>2, <1>3

(* The feed out is not a leg's.                                             *)
LEMMA FeedsAre ==
  ASSUME NEW f \in Feeds
  PROVE  /\ f # Out => f \in LegFeeds
         /\ f # << >> /\ Out \in Feeds /\ \A e \in LegFeeds : e # Out
BY DEF Feeds, LegFeeds, Out

\* The state that HandleOutright makes of m, before it lifts implied levels.
OutIn(m, s, p, old, q, kind) == Move(m, s, One(p, old), One(p, q), kind)

(* It has its type.                                                         *)
LEMMA OutInType ==
  ASSUME NEW m \in MdType, NEW s \in Sides, NEW p \in Int, NEW old \in Nat, NEW q \in Nat,
         NEW kind \in Kinds
  PROVE  /\ kind \in Ways /\ One(p, old) \in Levels /\ One(p, q) \in Levels
         /\ OutIn(m, s, p, old, q, kind) \in MdType
<1>1. One(p, old) \in Levels /\ One(p, q) \in Levels
  BY OneLevel
<1>2. kind \in Ways
  BY DEF Ways
<1> QED BY <1>1, <1>2, MoveKeeps DEF OutIn

\* What the orders are.
OrderType == [feed : Feeds, side : Sides, price : Int, qty : Nat \ {0}, kind : Kinds]

TypeInv ==
  /\ orders \in [Ids -> OrderType \cup {NoOrder}]
  /\ md \in MdType

(* NoOrder is not an order.                                                 *)
LEMMA NoOrderIs == NoOrder \notin OrderType
<1> SUFFICES ASSUME NoOrder \in OrderType PROVE FALSE
  OBVIOUS
<1>1. NoOrder.feed \in Feeds
  BY DEF OrderType
<1>2. NoOrder.feed = << >>
  BY DEF NoOrder
<1> QED BY <1>1, <1>2, FeedsAre

(* Handle keeps the type.                                                   *)
LEMMA HandleType ==
  ASSUME md \in MdType, NEW ord, ord.feed \in Feeds, ord.side \in Sides, ord.price \in Int,
         ord.feed = Out => ord.kind \in Kinds, NEW old \in Nat, NEW q \in Nat,
         Handle(ord, old, q)
  PROVE  md' \in MdType
<1>1. CASE ord.feed = Out
  <2> DEFINE m == OutIn(md, ord.side, ord.price, old, q, ord.kind)
  <2>1. m \in MdType
    BY <1>1, OutInType
  <2>2. md' = m \/ md' = RefreshAll(m, Opposite(ord.side))
    BY <1>1 DEF Handle, HandleOutright, OutIn
  <2> HIDE DEF m
  <2>3. RefreshAll(m, Opposite(ord.side)) \in MdType
    BY <2>1, SidesAre, LiftedType
  <2> QED BY <2>1, <2>2, <2>3
<1>2. CASE ord.feed # Out
  <2> DEFINE f == ord.feed  s == ord.side
             m == LegIn(md, f, s, ord.price, old, q)
             n == Again(m, f, s, "bid")
  <2>1. f \in LegFeeds /\ "bid" \in Sides /\ "ask" \in Sides
    BY <1>2, FeedsAre DEF Sides
  <2>2. m \in MdType
    BY <2>1, LegInType
  <2>3. md' = Again(n, f, s, "ask")
    BY <1>2, HandleLegIs DEF Handle
  <2> HIDE DEF m
  <2>4. n \in MdType
    BY <2>1, <2>2, AgainType
  <2> HIDE DEF n
  <2> QED BY <2>1, <2>3, <2>4, AgainType
<1> QED BY <1>1, <1>2

\* Order i has quantity q instead of old in this step, and Handle is given ord.
Becomes(i, ord, old, q) ==
  /\ ord.feed \in Feeds /\ ord.side \in Sides /\ ord.price \in Int
  /\ ord.feed = Out => ord.kind \in Kinds
  /\ ~md.corrupt /\ Handle(ord, old, q)
  /\ orders' \in [Ids -> OrderType \cup {NoOrder}]
  /\ \A j \in Ids : j # i => orders'[j] = orders[j]
  /\ IF old = 0 THEN orders[i] = NoOrder
     ELSE /\ orders[i] # NoOrder /\ orders[i].qty = old
          /\ orders[i].feed = ord.feed /\ orders[i].side = ord.side
          /\ orders[i].price = ord.price
  /\ IF q = 0 THEN orders'[i] = NoOrder
     ELSE /\ q \in Quantities
          /\ orders'[i] # NoOrder /\ orders'[i].qty = q
          /\ orders'[i].feed = ord.feed /\ orders'[i].side = ord.side
          /\ orders'[i].price = ord.price

(* How an order changes in a step of an engine, and what Handle is given.   *)
LEMMA StepIs ==
  ASSUME orders \in [Ids -> OrderType \cup {NoOrder}], Next
  PROVE  \/ UNCHANGED orders /\ Subscribe
         \/ \E i \in Ids, old \in Nat, q \in Nat : \E ord : Becomes(i, ord, old, q)
<1>0. Quantities \subseteq Nat \ {0} /\ \A f \in Feeds : Prices[f] \subseteq Int
  BY MdImpliedAssumption
<1>1. CASE Subscribe
  BY <1>1 DEF Subscribe
<1>2. ASSUME NEW i \in Ids, NEW f \in Feeds, NEW s \in Sides, NEW q \in Quantities,
             NEW k \in Kinds, NEW p \in Prices[f], Open(i, f, s, p, q, k)
      PROVE  \E j \in Ids, old \in Nat, r \in Nat : \E ord : Becomes(j, ord, old, r)
  <2> DEFINE ord == [feed |-> f, side |-> s, price |-> p, kind |-> k]
             new == [feed |-> f, side |-> s, price |-> p, qty |-> q, kind |-> k]
  <2>1. p \in Int /\ q \in Nat /\ q # 0 /\ q \in Nat \ {0}
    BY <1>0
  <2>2. new \in OrderType
    BY <2>1 DEF OrderType
  <2>3. orders' = [orders EXCEPT ![i] = new] /\ orders[i] = NoOrder /\ ~md.corrupt /\ Handle(ord, 0, q)
    BY <1>2 DEF Open
  <2>4. /\ new # NoOrder /\ new.qty = q /\ new.feed = f /\ new.side = s /\ new.price = p
        /\ ord.feed = f /\ ord.side = s /\ ord.price = p /\ ord.kind = k
    BY <2>2, NoOrderIs
  <2> HIDE DEF ord, new
  <2>5. orders' \in [Ids -> OrderType \cup {NoOrder}]
    BY <2>2, <2>3
  <2>6. orders'[i] = new /\ \A h \in Ids : h # i => orders'[h] = orders[h]
    BY <2>3
  <2>7. Becomes(i, ord, 0, q)
    BY <2>1, <2>3, <2>4, <2>5, <2>6 DEF Becomes
  <2> QED BY <2>1, <2>7
<1>3. ASSUME NEW i \in Ids, NEW q \in Quantities \cup {0}, Change(i, q)
      PROVE  \E j \in Ids, old \in Nat, r \in Nat : \E ord : Becomes(j, ord, old, r)
  <2> DEFINE ord == orders[i]  old == orders[i].qty
             new == IF q = 0 THEN NoOrder ELSE [ord EXCEPT !.qty = q]
  <2>1. orders[i] # NoOrder /\ ~md.corrupt /\ Handle(ord, old, q) /\ orders' = [orders EXCEPT ![i] = new]
    BY <1>3 DEF Change
  <2>2. ord \in OrderType
    BY <2>1
  <2>3. old \in Nat /\ old # 0 /\ ord.feed \in Feeds /\ ord.side \in Sides /\ ord.price \in Int
        /\ ord.kind \in Kinds
    BY <2>2 DEF OrderType
  <2>4. q \in Nat /\ (q # 0 => q \in Nat \ {0} /\ q \in Quantities)
    BY <1>0
  <2>5. new \in OrderType \cup {NoOrder}
    BY <2>2, <2>4 DEF OrderType
  <2>6. q # 0 => /\ new # NoOrder /\ new.qty = q
                 /\ new.feed = ord.feed /\ new.side = ord.side /\ new.price = ord.price
    <3> SUFFICES ASSUME q # 0 PROVE /\ new # NoOrder /\ new.qty = q
                 /\ new.feed = ord.feed /\ new.side = ord.side /\ new.price = ord.price
      OBVIOUS
    <3>1. new \in OrderType
      BY <2>2, <2>4 DEF OrderType
    <3>2. new = [ord EXCEPT !.qty = q]
      OBVIOUS
    <3>3. new.qty = q /\ new.feed = ord.feed /\ new.side = ord.side /\ new.price = ord.price
      BY <2>2, <3>2 DEF OrderType
    <3> QED BY <3>1, <3>3, NoOrderIs
  <2>7. q = 0 => new = NoOrder
    OBVIOUS
  <2> HIDE DEF new
  <2>8. orders' \in [Ids -> OrderType \cup {NoOrder}] /\ orders'[i] = new
        /\ \A h \in Ids : h # i => orders'[h] = orders[h]
    BY <2>1, <2>5
  <2>9. orders[i].feed = ord.feed /\ orders[i].side = ord.side /\ orders[i].price = ord.price
        /\ orders[i].qty = old
    OBVIOUS
  <2> HIDE DEF ord, old
  <2>10. Becomes(i, ord, old, q)
    BY <2>1, <2>3, <2>4, <2>6, <2>7, <2>8, <2>9 DEF Becomes
  <2> QED BY <2>3, <2>4, <2>10
<1> QED BY <1>1, <1>2, <1>3 DEF Next

(* The first state.                                                         *)
LEMMA InitIs ==
  ASSUME Init
  PROVE  /\ TypeInv
         /\ \A i \in Ids : orders[i] = NoOrder
         /\ \A f \in LegFeeds, s \in Sides : md.leg[f][s] = NoLevels
         /\ \A s \in Sides : md.out[s] = NoLevels
         /\ \A b \in BookSet, s \in Sides : md.imp[b][s] = NoLevels
         /\ md.sub = << >> /\ ~md.corrupt
<1>1. NoLevels \in Levels
  <2>1. 0 \in Int /\ 0 \in Nat
    OBVIOUS
  <2> QED BY <2>1, OneLevel
<1>2. /\ md.leg = [f \in LegFeeds |-> [s \in Sides |-> NoLevels]]
      /\ md.out = [s \in Sides |-> NoLevels]
      /\ md.imp = [b \in BookSet |-> [s \in Sides |-> NoLevels]]
      /\ md.sub = << >> /\ md.corrupt = FALSE
      /\ md.gone = [b \in BookSet |-> [s \in Sides |-> {}]]
  BY DEF Init
<1>3. md \in MdType
  BY <1>1 DEF Init, MdType
<1>4. orders = [i \in Ids |-> NoOrder]
  BY DEF Init
<1> QED BY <1>2, <1>3, <1>4 DEF TypeInv

(* A subscriber gets the levels of outright.                                *)
LEMMA SubscribeIs ==
  ASSUME md \in MdType, Subscribe
  PROVE  /\ md' \in MdType /\ md'.leg = md.leg /\ md'.out = md.out /\ md'.imp = md.imp
         /\ md'.gone = md.gone /\ md'.sub = md.out /\ md'.corrupt = md.corrupt
<1>1. md' = [md EXCEPT !.sub = md.out]
  BY DEF Subscribe
<1>2. md.out \in [Sides -> Levels]
  BY DEF MdType
<1> QED BY <1>1, <1>2 DEF MdType

(* Every step keeps the types.                                              *)
LEMMA TypeStep ==
  ASSUME TypeInv, [Next]_vars
  PROVE  TypeInv'
<1>1. CASE UNCHANGED vars
  BY <1>1 DEF TypeInv, vars
<1>2. CASE UNCHANGED orders /\ Subscribe
  BY <1>2, SubscribeIs DEF TypeInv
<1>3. ASSUME NEW i \in Ids, NEW old \in Nat, NEW q \in Nat, NEW ord, Becomes(i, ord, old, q)
      PROVE  TypeInv'
  <2>1. /\ ord.feed \in Feeds /\ ord.side \in Sides /\ ord.price \in Int
        /\ ord.feed = Out => ord.kind \in Kinds
        /\ Handle(ord, old, q) /\ orders' \in [Ids -> OrderType \cup {NoOrder}]
    BY <1>3 DEF Becomes
  <2>2. md' \in MdType
    BY <2>1, HandleType DEF TypeInv
  <2> QED BY <2>1, <2>2 DEF TypeInv
<1>4. CASE Next
  <2>1. orders \in [Ids -> OrderType \cup {NoOrder}]
    BY DEF TypeInv
  <2> QED BY <2>1, <1>2, <1>3, <1>4, StepIs
<1> QED BY <1>1, <1>4

(* The orders and the state of the service have their types: every side of  *)
(* every book is a finite map of prices to quantities, none of them 0,      *)
(* whatever the handlers add and take off (basic_book erases a level that   *)
(* is reduced to 0).                                                        *)
THEOREM MdTypeCorrect == Spec => []TypeInv
<1>1. Init => TypeInv
  BY InitIs
<1>2. TypeInv /\ [Next]_vars => TypeInv'
  BY TypeStep
<1> QED BY <1>1, <1>2, PTL DEF Spec

-----------------------------------------------------------------------------
(* What holds an implied price back.                                        *)

Shown(m, b, s) == LegPrices(m, b, s) # {} => m.imp[b][s] # NoLevels

Excused(b, s) == s = "ask" /\ Type[b][s][2] = "bid"

Held(m, b, s) ==
  \A r \in LegPrices(m, b, s) :
    \/ r \in DOMAIN m.imp[b][s]
    \/ Met(m, s, r) # {}
    \/ m.gone[b][s] \cap {"stop", "implied"} # {}
    \/ Excused(b, s)

\* The implied sides are as HeldBackOnlyBySome has it, but for those in X.
HeldBut(m, X) ==
  /\ m \in MdType
  /\ \A b \in BookSet, s \in Sides : <<b, s>> \notin X => Shown(m, b, s) /\ Held(m, b, s)

(* The prices of the best levels of the legs are integers, and pairs.       *)
LEMMA LegPricesAre ==
  ASSUME NEW m \in MdType, NEW b \in BookSet, NEW s \in Sides, NEW r \in LegPrices(m, b, s)
  PROVE  /\ Type[b][s] # << >> /\ r \in Int
         /\ \E x \in Pairs(m, b, s) :
              r = matchd_price(b, s, x[1], x[2]) /\ PairPrice(m, b, s, x) = HeldBack(m, s, r)
<1>1. Type[b][s] # << >>
  BY DEF LegPrices
<1>2. PICK x \in Best(Type[b][s][1], Leg(m, b, s, 1)) \X Best(Type[b][s][2], Leg(m, b, s, 2)) :
             r = matchd_price(b, s, x[1], x[2])
  BY <1>1 DEF LegPrices
<1>3. x \in Pairs(m, b, s)
  BY <1>1, PairsAre
<1>4. x \in (DOMAIN Leg(m, b, s, 1)) \X (DOMAIN Leg(m, b, s, 2))
  BY <1>3 DEF Pairs
<1>5. x[1] \in Int /\ x[2] \in Int
  BY <1>1, <1>4, PlaceIs
<1>6. r \in Int
  BY <1>2, <1>5, PriceInt
<1> QED BY <1>1, <1>2, <1>3, <1>6 DEF PairPrice

(* The prices of the legs depend on the legs only.                          *)
LEMMA LegPricesSame ==
  ASSUME NEW m, NEW r, NEW b, NEW s,
         Type[b][s] # << >> => \A i \in 1 .. 2 : Leg(r, b, s, i) = Leg(m, b, s, i)
  PROVE  LegPrices(r, b, s) = LegPrices(m, b, s)
<1>1. 1 \in 1 .. 2 /\ 2 \in 1 .. 2
  OBVIOUS
<1> QED BY <1>1 DEF LegPrices

(* When nothing is met any more, the best level got worse.                  *)
LEMMA MetNoMore ==
  ASSUME NEW m \in MdType, NEW n \in MdType, NEW s \in Sides, NEW r \in Int,
         Met(m, s, r) # {}, Met(n, s, r) = {}
  PROVE  Worse(Opposite(s), n.out[Opposite(s)], m.out[Opposite(s)])
<1> DEFINE o == Opposite(s)
<1>1. o \in Sides /\ m.out[o] \in Levels /\ n.out[o] \in Levels
  BY SidesAre DEF MdType
<1>2. PICK p \in Best(o, m.out[o]) : ~Better(o, r, p)
  BY DEF Met
<1>3. \A q \in Best(o, n.out[o]) : Better(o, r, q)
  BY DEF Met
<1>4. p \in Int /\ \A q \in Best(o, n.out[o]) : q \in Int
  BY <1>1, LevelsAre DEF Best
<1>5. \A q \in Best(o, n.out[o]) : Better(o, p, q)
  <2> HIDE DEF o
  <2> SUFFICES ASSUME NEW q \in Best(o, n.out[o]) PROVE Better(o, p, q)
    OBVIOUS
  <2>1. Better(o, r, q) /\ q \in Int
    BY <1>3, <1>4
  <2> QED BY <1>2, <1>4, <2>1 DEF Better
<1> QED BY <1>2, <1>5 DEF Worse

(* A move of side s of outright keeps what the implied sides show, or takes *)
(* what held them back away with a limit order.                             *)
LEMMA MoveHolds ==
  ASSUME NEW m \in MdType, NEW n \in MdType, NEW s \in Sides, NEW way \in Ways,
         Kept(m, n, s, way), NEW b \in BookSet, NEW t \in Sides,
         n.imp[b][t] = m.imp[b][t], m.gone[b][t] \subseteq n.gone[b][t],
         Shown(m, b, t), Held(m, b, t)
  PROVE  /\ Shown(n, b, t)
         /\ \/ Held(n, b, t)
            \/ /\ t = Opposite(s) /\ way = "limit"
               /\ Worse(s, n.out[s], m.out[s])
<1>1. LegPrices(n, b, t) = LegPrices(m, b, t)
  <2>1. \A i \in 1 .. 2 : Leg(n, b, t, i) = Leg(m, b, t, i)
    BY DEF Kept, Leg
  <2> QED BY <2>1, LegPricesSame
<1>2. Shown(n, b, t)
  BY <1>1 DEF Shown
<1>3. ASSUME NEW r \in LegPrices(n, b, t),
             r \notin DOMAIN n.imp[b][t], Met(n, t, r) = {},
             n.gone[b][t] \cap {"stop", "implied"} = {}, ~Excused(b, t)
      PROVE  t = Opposite(s) /\ way = "limit" /\ Worse(s, n.out[s], m.out[s])
  <2>1. r \in LegPrices(m, b, t) /\ r \in Int
    BY <1>1, LegPricesAre
  <2>2. Met(m, t, r) # {}
    BY <1>3, <2>1 DEF Held
  <2>3. Worse(Opposite(t), n.out[Opposite(t)], m.out[Opposite(t)])
    BY <1>3, <2>1, <2>2, MetNoMore
  <2>4. Opposite(t) = s
    <3> SUFFICES ASSUME Opposite(t) # s PROVE FALSE
      OBVIOUS
    <3>1. Opposite(t) \in Sides /\ n.out[Opposite(t)] = m.out[Opposite(t)]
      BY SidesAre DEF Kept
    <3>2. m.out[Opposite(t)] \in Levels
      BY <3>1 DEF MdType
    <3> QED BY <2>3, <3>1, <3>2, NotWorse
  <2>5. t = Opposite(s)
    BY <2>4, SidesAre
  <2>6. m.imp[b][t] # NoLevels
    BY <2>1 DEF Shown
  <2>7. way \in n.gone[b][t]
    BY <2>3, <2>4, <2>5, <2>6 DEF Kept
  <2>8. way \in {"limit", "stop", "implied"}
    BY MdImpliedAssumption DEF Ways
  <2>9. way = "limit"
    BY <1>3, <2>7, <2>8
  <2> QED BY <2>3, <2>4, <2>5, <2>9
<1> QED BY <1>2, <1>3 DEF Held

(* A side that has just been computed is held back by a level it meets only.*)
LEMMA RefreshHolds ==
  ASSUME NEW m \in MdType, NEW b \in BookSet, NEW s \in Sides, Type[b][s] # << >>
  PROVE  Shown(Refresh(m, b, s), b, s) /\ Held(Refresh(m, b, s), b, s)
<1> DEFINE n == Refresh(m, b, s)
<1>1. n \in MdType /\ Kept(m, n, s, "implied") /\ n.imp[b][s] = Implied(m, b, s)
  BY RefreshKeeps
<1> HIDE DEF n
<1>2. LegPrices(n, b, s) = LegPrices(m, b, s)
  <2>1. \A i \in 1 .. 2 : Leg(n, b, s, i) = Leg(m, b, s, i)
    BY <1>1 DEF Kept, Leg
  <2> QED BY <2>1, LegPricesSame
<1>3. \A r : Met(n, s, r) = Met(m, s, r)
  BY <1>1, SidesAre DEF Kept, Met
<1>4. ASSUME NEW r \in LegPrices(n, b, s)
      PROVE  n.imp[b][s] # NoLevels /\ (r \in DOMAIN n.imp[b][s] \/ Met(n, s, r) # {})
  <2>1. PICK x \in Pairs(m, b, s) : PairPrice(m, b, s, x) = HeldBack(m, s, r)
    BY <1>2, LegPricesAre
  <2>2. HeldBack(m, s, r) \in DOMAIN n.imp[b][s]
    BY <1>1, <2>1, ImpliedIs
  <2>3. DOMAIN NoLevels = {}
    BY DEF NoLevels
  <2>4. Met(m, s, r) = {} => HeldBack(m, s, r) = r
    BY DEF HeldBack
  <2> QED BY <1>3, <2>2, <2>3, <2>4
<1> QED BY <1>4 DEF Shown, Held, n

(* Refresh computes its side and keeps the others.                          *)
LEMMA RefreshHeld ==
  ASSUME NEW m, NEW X, HeldBut(m, X), NEW b \in BookSet, NEW s \in Sides, Type[b][s] # << >>
  PROVE  HeldBut(Refresh(m, b, s), X \ {<<b, s>>})
<1> DEFINE n == Refresh(m, b, s)
<1>0. m \in MdType /\ "implied" \in Ways
  BY DEF HeldBut, Ways
<1>1. /\ n \in MdType /\ Kept(m, n, s, "implied")
      /\ \A c \in BookSet, t \in Sides : <<c, t>> # <<b, s>> =>
           n.imp[c][t] = m.imp[c][t] /\ m.gone[c][t] \subseteq n.gone[c][t]
  BY <1>0, RefreshKeeps
<1>2. Shown(n, b, s) /\ Held(n, b, s)
  BY <1>0, RefreshHolds
<1> HIDE DEF n
<1>3. ASSUME NEW c \in BookSet, NEW t \in Sides, <<c, t>> \notin X, <<c, t>> # <<b, s>>
      PROVE  Shown(n, c, t) /\ Held(n, c, t)
  <2>1. Shown(m, c, t) /\ Held(m, c, t)
    BY <1>3 DEF HeldBut
  <2>2. n.imp[c][t] = m.imp[c][t] /\ m.gone[c][t] \subseteq n.gone[c][t]
    BY <1>1, <1>3
  <2>3. "implied" # "limit"
    OBVIOUS
  <2> QED BY <1>0, <1>1, <2>1, <2>2, <2>3, MoveHolds
<1>4. HeldBut(n, X \ {<<b, s>>})
  BY <1>1, <1>2, <1>3 DEF HeldBut
<1> QED BY <1>4 DEF n

(* handle_outright refreshes what it must.                                  *)
LEMMA LiftedHeld ==
  ASSUME NEW m, NEW s \in Sides,
         HeldBut(m, {<<b, s>> : b \in {c \in BookSet : Refreshes(c, s)}})
  PROVE  HeldBut(RefreshAll(m, s), {})
<1> DEFINE n == Len(Books)
           X(k) == {<<Books[j], s>> : j \in {i \in k + 1 .. n : Refreshes(Books[i], s)}}
           G == [k \in 0 .. n |-> {x \in MdType : HeldBut(x, X(k))}]
<1>1. n \in Nat /\ \A k \in 1 .. n : Books[k] \in BookSet
  BY MdImpliedAssumption
<1>2. \A k \in 0 .. n : G[k] = {x \in MdType : HeldBut(x, X(k))}
  OBVIOUS
<1>3. m \in G[0]
  <2>1. {<<b, s>> : b \in {c \in BookSet : Refreshes(c, s)}} \subseteq X(0)
    <3> SUFFICES ASSUME NEW b \in BookSet, Refreshes(b, s) PROVE <<b, s>> \in X(0)
      OBVIOUS
    <3>1. PICK j \in 1 .. n : Books[j] = b
      <4>1. Books \in Seq(BookSet)
        BY MdImpliedAssumption
      <4>2. DOMAIN Books = 1 .. n
        BY <4>1
      <4> QED BY <4>2 DEF BookSet, Range
    <3>2. j \in 0 + 1 .. n
      BY <1>1, <3>1
    <3> QED BY <3>1, <3>2
  <2>2. m \in MdType /\ HeldBut(m, X(0))
    BY <2>1 DEF HeldBut
  <2>3. 0 \in 0 .. n
    BY <1>1
  <2> QED BY <1>2, <2>2, <2>3
<1>4. ASSUME NEW k \in 1 .. n, NEW x \in G[k - 1] PROVE Lifted(x, Books[k], s) \in G[k]
  <2> DEFINE b == Books[k]
  <2>1. k - 1 \in 0 .. n /\ k \in 0 .. n /\ (k - 1) + 1 = k /\ b \in BookSet
    BY <1>1
  <2>2. x \in MdType /\ HeldBut(x, X(k - 1))
    BY <1>2, <2>1
  <2>3. \A j \in k .. n : j = k \/ j \in k + 1 .. n
    BY <1>1
  <2>4. X(k - 1) \ {<<b, s>>} \subseteq X(k)
    <3> SUFFICES ASSUME NEW j \in (k - 1) + 1 .. n, Refreshes(Books[j], s), <<Books[j], s>> # <<b, s>>
                 PROVE  <<Books[j], s>> \in X(k)
      OBVIOUS
    <3>1. j \in k + 1 .. n
      BY <2>1, <2>3
    <3> QED BY <3>1
  <2> HIDE DEF X, b, G
  <2>5. CASE Refreshes(b, s)
    <3>1. Type[b][s] # << >>
      BY <2>5 DEF Refreshes
    <3>2. HeldBut(Refresh(x, b, s), X(k - 1) \ {<<b, s>>})
      BY <2>1, <2>2, <3>1, RefreshHeld
    <3>3. HeldBut(Refresh(x, b, s), X(k))
      BY <3>2, <2>4 DEF HeldBut
    <3>4. Lifted(x, b, s) = Refresh(x, b, s)
      BY <2>5 DEF Lifted
    <3>5. Lifted(x, b, s) \in MdType /\ HeldBut(Lifted(x, b, s), X(k))
      BY <3>3, <3>4 DEF HeldBut
    <3> QED BY <3>5, <1>2, <2>1 DEF b
  <2>6. CASE ~Refreshes(b, s)
    <3>1. Lifted(x, b, s) = x
      BY <2>6 DEF Lifted
    <3>2. <<b, s>> \notin X(k - 1)
      BY <2>6 DEF X
    <3>3. HeldBut(x, X(k))
      BY <2>2, <2>4, <3>2 DEF HeldBut
    <3> QED BY <3>1, <3>3, <1>2, <2>1, <2>2 DEF b
  <2> QED BY <2>5, <2>6
<1>5. X(n) = {}
  BY <1>1
<1>6. n \in 0 .. n
  BY <1>1
<1> HIDE DEF G, X
<1>7. RefreshAll(m, s) \in G[n]
  <2>1. \A k \in 1 .. n : \A x \in G[k - 1] : Lifted(x, Books[k], s) \in G[k]
    BY <1>4
  <2> QED BY <1>3, <2>1, RefreshAllReaches
<1> QED BY <1>2, <1>5, <1>6, <1>7

(* A new level of a leg concerns the sides that use it.                     *)
LEMMA LegHeld ==
  ASSUME NEW m, HeldBut(m, {}), NEW f \in LegFeeds, NEW s \in Sides, NEW l \in Levels
  PROVE  HeldBut([m EXCEPT !.leg[f][s] = l],
                 {<<f[1], t>> : t \in {u \in Sides : UsesLeg(f[1], u, LegOf(f), s)}})
<1> DEFINE n == [m EXCEPT !.leg[f][s] = l]
           X == {<<f[1], t>> : t \in {u \in Sides : UsesLeg(f[1], u, LegOf(f), s)}}
<1>0. m \in MdType
  BY DEF HeldBut
<1>1. n \in MdType /\ n.out = m.out /\ n.imp = m.imp /\ n.gone = m.gone
  BY <1>0, LegChanges
<1>2. \A b \in BookSet, t \in Sides :
        Type[b][t] # << >> /\ ~(b = f[1] /\ UsesLeg(b, t, LegOf(f), s)) =>
          \A i \in 1 .. 2 : Leg(n, b, t, i) = Leg(m, b, t, i)
  BY <1>0, OtherLegs
<1> HIDE DEF n
<1>3. ASSUME NEW b \in BookSet, NEW t \in Sides, <<b, t>> \notin X
      PROVE  Shown(n, b, t) /\ Held(n, b, t)
  <2>1. ~(b = f[1] /\ UsesLeg(b, t, LegOf(f), s))
    BY <1>3
  <2>2. LegPrices(n, b, t) = LegPrices(m, b, t)
    BY <1>2, <2>1, LegPricesSame
  <2>3. \A r : Met(n, t, r) = Met(m, t, r)
    BY <1>1 DEF Met
  <2>4. Shown(m, b, t) /\ Held(m, b, t)
    BY DEF HeldBut
  <2> QED BY <1>1, <2>2, <2>3, <2>4 DEF Shown, Held
<1> HIDE DEF X
<1>4. HeldBut(n, X)
  BY <1>1, <1>3 DEF HeldBut
<1> QED BY <1>4 DEF n, X

(* Handle keeps what the implied sides show.                                *)
LEMMA HandleHeld ==
  ASSUME HeldBut(md, {}), NEW ord, ord.feed \in Feeds, ord.side \in Sides, ord.price \in Int,
         ord.feed = Out => ord.kind \in Kinds, NEW old \in Nat, NEW q \in Nat,
         Handle(ord, old, q)
  PROVE  HeldBut(md', {})
<1>0. md \in MdType
  BY DEF HeldBut
<1>1. CASE ord.feed = Out
  <2> DEFINE s == ord.side  o == Opposite(s)  kind == ord.kind
             m == OutIn(md, s, ord.price, old, q, kind)
             X == {<<b, o>> : b \in {c \in BookSet : Refreshes(c, o)}}
  <2>1. /\ kind \in Ways /\ One(ord.price, old) \in Levels /\ One(ord.price, q) \in Levels
    BY <1>0, <1>1, OutInType
  <2>2. /\ m \in MdType /\ m.imp = md.imp /\ Kept(md, m, s, kind)
        /\ \A b \in BookSet, t \in Sides : md.gone[b][t] \subseteq m.gone[b][t]
    BY <1>0, <2>1, MoveKeeps DEF OutIn
  <2>3. md' = IF kind = "limit" /\ Worse(s, m.out[s], md.out[s]) THEN RefreshAll(m, o) ELSE m
    BY <1>1 DEF Handle, HandleOutright, OutIn
  <2>4. o \in Sides
    BY SidesAre
  <2> HIDE DEF m
  <2>5. ASSUME NEW b \in BookSet, NEW t \in Sides
        PROVE  /\ Shown(m, b, t)
               /\ \/ Held(m, b, t)
                  \/ t = o /\ kind = "limit" /\ Worse(s, m.out[s], md.out[s])
    <3>1. Shown(md, b, t) /\ Held(md, b, t)
      BY DEF HeldBut
    <3> QED BY <1>0, <2>1, <2>2, <3>1, MoveHolds
  <2>6. CASE ~(kind = "limit" /\ Worse(s, m.out[s], md.out[s]))
    <3>1. HeldBut(m, {})
      BY <2>2, <2>5, <2>6 DEF HeldBut
    <3> QED BY <2>3, <2>6, <3>1
  <2>7. CASE kind = "limit" /\ Worse(s, m.out[s], md.out[s])
    <3>1. ASSUME NEW b \in BookSet, NEW t \in Sides, <<b, t>> \notin X PROVE Held(m, b, t)
      <4>1. CASE t # o
        BY <4>1, <2>5
      <4>2. CASE t = o
        <5>1. ~Refreshes(b, o)
          BY <3>1, <4>2
        <5>2. CASE Type[b][o] = << >>
          BY <4>2, <5>2 DEF Held, LegPrices
        <5>3. CASE Type[b][o] # << >>
          <6>1. o # "bid" /\ Type[b][o][2] # "ask"
            BY <5>1, <5>3 DEF Refreshes
          <6>2. 2 \in 1 .. 2
            OBVIOUS
          <6>3. Type[b][o][2] \in Sides
            BY <1>0, <2>4, <5>3, <6>2, LegsAre
          <6>4. Excused(b, o)
            BY <2>4, <6>1, <6>3 DEF Excused, Sides
          <6> QED BY <4>2, <6>4 DEF Held
        <5> QED BY <5>2, <5>3
      <4> QED BY <4>1, <4>2
    <3> HIDE DEF X
    <3>2. HeldBut(m, X)
      BY <2>2, <2>5, <3>1 DEF HeldBut
    <3>3. HeldBut(RefreshAll(m, o), {})
      BY <2>4, <3>2, LiftedHeld DEF X
    <3> QED BY <2>3, <2>7, <3>3
  <2> QED BY <2>6, <2>7
<1>2. CASE ord.feed # Out
  <2> DEFINE f == ord.feed  s == ord.side
             U == {t \in Sides : UsesLeg(f[1], t, LegOf(f), s)}
             X == {<<f[1], t>> : t \in U}
             m == LegIn(md, f, s, ord.price, old, q)
             n == Again(m, f, s, "bid")
             e == Again(n, f, s, "ask")
  <2>1. f \in LegFeeds /\ f[1] \in BookSet
    BY <1>2, FeedsAre, OtherLegs DEF LegFeeds
  <2>2. md' = e
    BY <1>2, HandleLegIs DEF Handle
  <2>3. "bid" \in Sides /\ "ask" \in Sides /\ \A t \in Sides : t = "bid" \/ t = "ask"
    BY DEF Sides
  <2>4. HeldBut(m, X)
    <3>1. Moved(md.leg[f][s], One(ord.price, old), One(ord.price, q)) \in Levels
      BY <1>0, <2>1, LegInType
    <3> QED BY <2>1, <3>1, LegHeld DEF LegIn
  <2> HIDE DEF m
  <2>5. HeldBut(n, X \ {<<f[1], "bid">>})
    <3>1. CASE "bid" \in U
      <4>1. Type[f[1]]["bid"] # << >>
        BY <3>1 DEF UsesLeg
      <4>2. HeldBut(Refresh(m, f[1], "bid"), X \ {<<f[1], "bid">>})
        BY <2>1, <2>3, <2>4, <4>1, RefreshHeld
      <4> QED BY <3>1, <4>2 DEF Again
    <3>2. CASE "bid" \notin U
      <4>1. X \ {<<f[1], "bid">>} = X
        BY <3>2
      <4>2. n = m
        BY <3>2, <2>3 DEF Again
      <4> QED BY <4>1, <4>2, <2>4
    <3> QED BY <3>1, <3>2
  <2> HIDE DEF n
  <2>6. HeldBut(e, (X \ {<<f[1], "bid">>}) \ {<<f[1], "ask">>})
    <3>1. CASE "ask" \in U
      <4>1. Type[f[1]]["ask"] # << >>
        BY <3>1 DEF UsesLeg
      <4>2. HeldBut(Refresh(n, f[1], "ask"), (X \ {<<f[1], "bid">>}) \ {<<f[1], "ask">>})
        BY <2>1, <2>3, <2>5, <4>1, RefreshHeld
      <4> QED BY <3>1, <4>2 DEF Again
    <3>2. CASE "ask" \notin U
      <4>1. (X \ {<<f[1], "bid">>}) \ {<<f[1], "ask">>} = X \ {<<f[1], "bid">>}
        BY <3>2
      <4>2. e = n
        BY <3>2, <2>3 DEF Again
      <4> QED BY <4>1, <4>2, <2>5
    <3> QED BY <3>1, <3>2
  <2>7. (X \ {<<f[1], "bid">>}) \ {<<f[1], "ask">>} = {}
    BY <2>3
  <2> QED BY <2>2, <2>6, <2>7
<1> QED BY <1>1, <1>2

HeldInv == TypeInv /\ HeldBut(md, {})

(* Every step keeps it.                                                     *)
LEMMA HeldStep ==
  ASSUME HeldInv, [Next]_vars
  PROVE  HeldInv'
<1>0. TypeInv'
  BY TypeStep DEF HeldInv
<1>1. CASE UNCHANGED vars
  <2>1. md' = md
    BY <1>1 DEF vars
  <2>2. HeldBut(md', {})
    BY <2>1 DEF HeldInv
  <2> QED BY <1>0, <2>2 DEF HeldInv
<1>2. CASE Subscribe
  <2>1. md \in MdType
    BY DEF HeldInv, TypeInv
  <2>2. /\ md' \in MdType /\ md'.leg = md.leg /\ md'.out = md.out /\ md'.imp = md.imp
        /\ md'.gone = md.gone
    BY <1>2, <2>1, SubscribeIs
  <2>3. ASSUME NEW b \in BookSet, NEW s \in Sides
        PROVE  Shown(md', b, s) /\ Held(md', b, s)
    <3>1. LegPrices(md', b, s) = LegPrices(md, b, s)
      BY <2>2 DEF LegPrices, Leg
    <3>2. \A r : Met(md', s, r) = Met(md, s, r)
      BY <2>2 DEF Met
    <3>3. Shown(md, b, s) /\ Held(md, b, s)
      BY DEF HeldInv, HeldBut
    <3> QED BY <2>2, <3>1, <3>2, <3>3 DEF Shown, Held
  <2>4. HeldBut(md', {})
    BY <2>2, <2>3 DEF HeldBut
  <2> QED BY <1>0, <2>4 DEF HeldInv
<1>3. ASSUME NEW i \in Ids, NEW old \in Nat, NEW q \in Nat, NEW ord, Becomes(i, ord, old, q)
      PROVE  HeldInv'
  <2>1. /\ ord.feed \in Feeds /\ ord.side \in Sides /\ ord.price \in Int
        /\ ord.feed = Out => ord.kind \in Kinds
        /\ Handle(ord, old, q)
    BY <1>3 DEF Becomes
  <2>2. HeldBut(md', {})
    BY <2>1, HandleHeld DEF HeldInv
  <2> QED BY <1>0, <2>2 DEF HeldInv
<1>4. CASE Next
  <2>1. orders \in [Ids -> OrderType \cup {NoOrder}]
    BY DEF HeldInv, TypeInv
  <2> QED BY <2>1, <1>2, <1>3, <1>4, StepIs
<1> QED BY <1>1, <1>4

(* It holds at first: no leg has a best level.                              *)
LEMMA HeldInit == Init => HeldInv
<1> SUFFICES ASSUME Init PROVE HeldInv
  OBVIOUS
<1>1. TypeInv /\ md \in MdType
  BY InitIs DEF TypeInv
<1>2. ASSUME NEW b \in BookSet, NEW s \in Sides PROVE LegPrices(md, b, s) = {}
  <2>1. CASE Type[b][s] = << >>
    BY <2>1 DEF LegPrices
  <2>2. CASE Type[b][s] # << >>
    <3>1. 1 \in 1 .. 2 /\ Type[b][s][1] \in Sides
      BY <1>1, <2>2, LegsAre
    <3>2. <<b, "a">> \in LegFeeds
      BY DEF LegFeeds
    <3>3. Leg(md, b, s, 1) = NoLevels
      BY <3>1, <3>2, InitIs DEF Leg
    <3>4. Best(Type[b][s][1], Leg(md, b, s, 1)) = {}
      BY <3>3 DEF Best, NoLevels
    <3> QED BY <2>2, <3>4 DEF LegPrices
  <2> QED BY <2>1, <2>2
<1>3. HeldBut(md, {})
  BY <1>1, <1>2 DEF HeldBut, Shown, Held
<1> QED BY <1>1, <1>3 DEF HeldInv

(* An implied side has the price of its best legs unless a level of the     *)
(* other side is in the way, or a triggered stop or an implied level was,   *)
(* or it is an ask whose second leg is a bid (md_book::handle_outright and  *)
(* handle_implied), for any books, orders and prices, even when quantities  *)
(* overflow.                                                                *)
THEOREM HeldBackBySome == Spec => []HeldBackOnlyBySome
<1>1. HeldInv /\ [Next]_vars => HeldInv'
  BY HeldStep
<1>2. HeldInv => HeldBackOnlyBySome
  BY DEF HeldInv, HeldBut, Held, Excused, HeldBackOnlyBySome
<1> QED BY <1>1, <1>2, HeldInit, PTL DEF Spec

-----------------------------------------------------------------------------
(* The sums of the levels.                                                  *)

(* The books are finitely many.                                             *)
LEMMA BooksFinite == IsFiniteSet(BookSet) /\ Cardinality(BookSet) \in Nat
<1>1. Books \in Seq(BookSet) /\ Len(Books) \in Nat
  BY MdImpliedAssumption
<1>2. DOMAIN Books = 1 .. Len(Books) /\ IsFiniteSet(1 .. Len(Books))
  BY <1>1, FS_Interval
<1>3. Books \in Surjection(DOMAIN Books, BookSet)
  BY <1>1, <1>2 DEF Surjection, BookSet, Range
<1>4. IsFiniteSet(BookSet)
  BY <1>2, <1>3, FS_Surjection
<1> QED BY <1>4, FS_CardinalityType

\* The quantity that the books of m imply at a price.
OutSum(m, s, p) == SumOver([b \in BookSet |-> At(m.imp[b][s], p)], BookSet)

\* Numbers up to most: what the orders of a feed have at a price.
Numbers(most) == [Feeds -> [Sides -> [Int -> 0 .. most]]]

Enough(most) == most \in Nat /\ most * (Cardinality(BookSet) + 1) < QuantityModulus

\* The levels of m add up to the numbers n of the orders, and no book implies
\* more than most.
AddsUp(m, n, most) ==
  /\ m \in MdType /\ ~m.corrupt
  /\ \A f \in LegFeeds, s \in Sides, p \in Int : At(m.leg[f][s], p) = n[f][s][p]
  /\ \A s \in Sides, p \in Int : At(m.out[s], p) = n[Out][s][p] + OutSum(m, s, p)
  /\ \A b \in BookSet, s \in Sides, p \in Int : At(m.imp[b][s], p) <= most
  /\ m.sub # << >> => m.sub = m.out

(* The sum over the books, and its bound.                                   *)
LEMMA OutSumIs ==
  ASSUME NEW m \in MdType, NEW s \in Sides, NEW p \in Int, NEW most, Enough(most),
         \A b \in BookSet : At(m.imp[b][s], p) <= most
  PROVE  /\ Counted([b \in BookSet |-> At(m.imp[b][s], p)], BookSet)
         /\ OutSum(m, s, p) \in Nat
         /\ \A k \in 0 .. most : k + OutSum(m, s, p) < QuantityModulus
<1> DEFINE f == [b \in BookSet |-> At(m.imp[b][s], p)]
<1>1. \A b \in BookSet : f[b] \in Nat /\ f[b] <= most
  BY LevelsAre DEF MdType
<1> HIDE DEF f
<1>2. Counted(f, BookSet)
  BY <1>1 DEF Counted
<1>3. SumOver(f, BookSet) \in Nat
  BY <1>2, BooksFinite, SumNat
<1>4. SumOver(f, BookSet) <= most * Cardinality(BookSet)
  BY <1>1, <1>2, BooksFinite, SumBound DEF Enough
<1>5. /\ most \in Nat /\ QuantityModulus \in Nat /\ most * Cardinality(BookSet) \in Nat
      /\ most * (Cardinality(BookSet) + 1) = most * Cardinality(BookSet) + most
  BY BooksFinite, MdImpliedAssumption DEF Enough
<1>6. most * Cardinality(BookSet) + most < QuantityModulus
  BY <1>5 DEF Enough
<1>7. \A k \in 0 .. most : k + SumOver(f, BookSet) < QuantityModulus
  BY <1>3, <1>4, <1>5, <1>6
<1> QED BY <1>2, <1>3, <1>7 DEF OutSum, f

\* Quantities can be changed from old to new in l.
Movable(l, old, new) ==
  \A p \in Int : /\ At(old, p) <= At(l, p)
                 /\ At(l, p) - At(old, p) + At(new, p) < QuantityModulus

(* Then they are, exactly.                                                  *)
LEMMA MovedExact ==
  ASSUME NEW l \in Levels, NEW old \in Levels, NEW new \in Levels, Movable(l, old, new)
  PROVE  /\ ~Unfound(l, old, new)
         /\ \A p \in Int : At(Moved(l, old, new), p) = At(l, p) - At(old, p) + At(new, p)
<1>1. \A p : At(l, p) \in Nat /\ At(old, p) \in Nat /\ At(new, p) \in Nat
  BY LevelsAre
<1>2. ASSUME NEW p \in DOMAIN old \ DOMAIN l PROVE FALSE
  <2>1. p \in Int
    BY LevelsAre
  <2>2. At(old, p) > 0 /\ At(l, p) = 0
    BY LevelsAre DEF At
  <2> QED BY <1>1, <2>1, <2>2 DEF Movable
<1>3. ASSUME NEW p \in Int
      PROVE  At(Moved(l, old, new), p) = At(l, p) - At(old, p) + At(new, p)
  <2>1. At(l, p) - At(old, p) + At(new, p) = At(l, p) + At(new, p) - At(old, p)
    BY <1>1
  <2>2. At(l, p) + At(new, p) - At(old, p) \in 0 .. QuantityModulus - 1
    <3> DEFINE a == At(l, p)  b == At(old, p)  c == At(new, p)
    <3>1. a \in Nat /\ b \in Nat /\ c \in Nat /\ QuantityModulus \in Nat
      BY <1>1, MdImpliedAssumption
    <3>2. b <= a /\ a - b + c < QuantityModulus
      BY DEF Movable
    <3> HIDE DEF a, b, c
    <3>3. a + c - b \in 0 .. QuantityModulus - 1
      BY <3>1, <3>2
    <3> QED BY <3>3 DEF a, b, c
  <2> QED BY <2>1, <2>2, MovedIs
<1> QED BY <1>2, <1>3 DEF Unfound

(* A subscriber that had the levels has them again.                         *)
LEMMA SeenIs ==
  ASSUME NEW l \in Levels, NEW old \in Levels, NEW new \in Levels, Movable(l, old, new)
  PROVE  Seen(l, Moved(l, old, new), Changed(old, new)) = Moved(l, old, new)
<1> DEFINE k == Moved(l, old, new)  C == Changed(old, new)
<1>1. k \in Levels /\ \A p \in Int : At(k, p) = At(l, p) - At(old, p) + At(new, p)
  BY MovedIs, MovedExact
<1>2. \A p : At(l, p) \in Nat /\ At(old, p) \in Nat /\ At(new, p) \in Nat
  BY LevelsAre
<1> HIDE DEF k
<1>3. \A p \in Int : p \notin C => At(old, p) = At(new, p)
  <2> SUFFICES ASSUME NEW p \in Int, p \notin C PROVE At(old, p) = At(new, p)
    OBVIOUS
  <2>1. CASE p \in DOMAIN old \cup DOMAIN new
    BY <2>1 DEF Changed
  <2>2. CASE p \notin DOMAIN old \cup DOMAIN new
    BY <2>2 DEF At
  <2> QED BY <2>1, <2>2
<1>4. \A p \in Int : p \notin C => At(k, p) = At(l, p)
  BY <1>1, <1>2, <1>3
<1>5. Seen(l, k, C) \in Levels
  BY <1>1, SeenLevels
<1>6. ASSUME NEW p \in Int PROVE At(Seen(l, k, C), p) = At(k, p)
  <2>1. DOMAIN Seen(l, k, C) = (DOMAIN l \ C) \cup (C \cap DOMAIN k)
    BY DEF Seen
  <2>2. CASE p \in C
    <3>1. CASE p \in DOMAIN k
      <4>1. p \in DOMAIN Seen(l, k, C) /\ Seen(l, k, C)[p] = k[p]
        BY <2>2, <3>1 DEF Seen
      <4> QED BY <3>1, <4>1 DEF At
    <3>2. CASE p \notin DOMAIN k
      BY <2>1, <2>2, <3>2 DEF At
    <3> QED BY <3>1, <3>2
  <2>3. CASE p \notin C
    <3>1. CASE p \in DOMAIN l
      <4>1. p \in DOMAIN Seen(l, k, C) /\ Seen(l, k, C)[p] = l[p]
        BY <2>3, <3>1 DEF Seen
      <4> QED BY <1>4, <2>3, <3>1, <4>1 DEF At
    <3>2. CASE p \notin DOMAIN l
      <4>1. At(Seen(l, k, C), p) = 0 /\ At(l, p) = 0
        BY <2>1, <2>3, <3>2 DEF At
      <4> QED BY <1>4, <2>3, <4>1
    <3> QED BY <3>1, <3>2
  <2> QED BY <2>2, <2>3
<1>7. Seen(l, k, C) = k
  BY <1>1, <1>5, <1>6, LevelsSame
<1> QED BY <1>7 DEF k

(* Move, when the quantities fit.                                           *)
LEMMA MoveExact ==
  ASSUME NEW m \in MdType, ~m.corrupt, m.sub # << >> => m.sub = m.out,
         NEW s \in Sides, NEW old \in Levels, NEW new \in Levels, NEW way \in Ways,
         Movable(m.out[s], old, new)
  PROVE  LET r == Move(m, s, old, new, way)
         IN  /\ r \in MdType /\ ~r.corrupt /\ (r.sub # << >> => r.sub = r.out)
             /\ r.leg = m.leg /\ r.imp = m.imp
             /\ \A t \in Sides : t # s => r.out[t] = m.out[t]
             /\ \A p \in Int : At(r.out[s], p) = At(m.out[s], p) - At(old, p) + At(new, p)
<1> DEFINE r == Move(m, s, old, new, way)  k == Moved(m.out[s], old, new)
<1>1. m.out \in [Sides -> Levels] /\ m.out[s] \in Levels
  BY DEF MdType
<1>2. /\ ~Unfound(m.out[s], old, new)
      /\ \A p \in Int : At(k, p) = At(m.out[s], p) - At(old, p) + At(new, p)
  BY <1>1, MovedExact
<1>3. /\ r \in MdType /\ r.leg = m.leg /\ r.imp = m.imp /\ r.corrupt = m.corrupt
      /\ r.out = [m.out EXCEPT ![s] = k]
      /\ r.sub = Sent(m, s, k, Changed(old, new))
  BY <1>2, MoveFound
<1>4. Seen(m.out[s], k, Changed(old, new)) = k
  BY <1>1, SeenIs
<1> HIDE DEF r, k
<1>5. r.sub # << >> => r.sub = r.out
  BY <1>1, <1>3, <1>4 DEF Sent
<1>6. r.out[s] = k /\ \A t \in Sides : t # s => r.out[t] = m.out[t]
  BY <1>1, <1>3
<1>7. ~r.corrupt
  BY <1>3
<1> QED BY <1>2, <1>3, <1>5, <1>6, <1>7 DEF r, k

(* Computing an implied side again keeps the sums.                          *)
LEMMA RefreshAddsUp ==
  ASSUME NEW most, Enough(most), NEW n \in Numbers(most), NEW m, AddsUp(m, n, most),
         NEW b \in BookSet, NEW s \in Sides, Type[b][s] # << >>
  PROVE  AddsUp(Refresh(m, b, s), n, most)
<1> DEFINE new == Implied(m, b, s)  old == m.imp[b][s]
           v == Move(m, s, old, new, "implied")
           r == Refresh(m, b, s)
<1>0. /\ m \in MdType /\ ~m.corrupt /\ (m.sub # << >> => m.sub = m.out)
      /\ \A f \in LegFeeds, t \in Sides, p \in Int : At(m.leg[f][t], p) = n[f][t][p]
      /\ \A t \in Sides, p \in Int : At(m.out[t], p) = n[Out][t][p] + OutSum(m, t, p)
      /\ \A c \in BookSet, t \in Sides, p \in Int : At(m.imp[c][t], p) <= most
  BY DEF AddsUp
<1>1. new \in Levels /\ old \in Levels /\ "implied" \in Ways /\ most \in Nat
  BY <1>0, ImpliedIs DEF MdType, Ways, Enough
<1>2. /\ r \in MdType /\ r.leg = v.leg /\ r.out = v.out
      /\ r.sub = v.sub /\ r.corrupt = v.corrupt
      /\ r.imp[b][s] = new
      /\ \A c \in BookSet, t \in Sides : <<c, t>> # <<b, s>> => r.imp[c][t] = v.imp[c][t]
  BY <1>0, RefreshIs
<1>3. ASSUME NEW p \in Int PROVE At(new, p) <= most
  <2>1. CASE p \in DOMAIN new
    <3> DEFINE x == LastPair(m, b, s, p)  l == Leg(m, b, s, 1)  a == Ahead(m, b, s, 1, x[1])
    <3>1. /\ x \in Pairs(m, b, s)
          /\ new[p] = Until(m, b, s, x) - From(m, b, s, x)
      BY <1>0, <2>1, ImpliedIs
    <3>2. x \in (DOMAIN l) \X (DOMAIN Leg(m, b, s, 2))
      BY <3>1 DEF Pairs
    <3>3. 1 \in 1 .. 2 /\ Type[b][s][1] \in Sides
      BY <1>0, LegsAre
    <3>4. /\ x[1] \in Int /\ a \in Nat /\ l[x[1]] \in Nat
          /\ From(m, b, s, x) \in Nat /\ Until(m, b, s, x) \in Nat
          /\ a <= From(m, b, s, x) /\ Until(m, b, s, x) <= a + l[x[1]]
      BY <1>0, <3>2, <3>3, PlaceIs
    <3>5. l[x[1]] <= most
      <4>1. <<b, "a">> \in LegFeeds
        BY DEF LegFeeds
      <4>2. l = m.leg[<<b, "a">>][Type[b][s][1]]
        BY DEF Leg
      <4>3. At(l, x[1]) = n[<<b, "a">>][Type[b][s][1]][x[1]]
        BY <1>0, <3>3, <3>4, <4>1, <4>2
      <4>4. <<b, "a">> \in Feeds
        BY <4>1 DEF Feeds
      <4>5. n[<<b, "a">>][Type[b][s][1]][x[1]] \in 0 .. most
        BY <3>3, <3>4, <4>4 DEF Numbers
      <4>6. At(l, x[1]) = l[x[1]]
        BY <3>2 DEF At
      <4> QED BY <4>3, <4>5, <4>6, <1>1
    <3>6. At(new, p) = new[p]
      BY <2>1 DEF At
    <3> HIDE DEF x, l, a, new
    <3> QED BY <1>1, <3>1, <3>4, <3>5, <3>6
  <2>2. CASE p \notin DOMAIN new
    BY <1>1, <2>2 DEF At
  <2> QED BY <2>1, <2>2
<1> HIDE DEF new, old, r
<1>4. v.imp = m.imp
  BY <1>0, <1>1, MoveKeeps
<1> HIDE DEF v
<1>5. \A c \in BookSet, t \in Sides : <<c, t>> # <<b, s>> => r.imp[c][t] = m.imp[c][t]
  BY <1>2, <1>4
<1>6. \A c \in BookSet, t \in Sides, p \in Int : At(r.imp[c][t], p) <= most
  BY <1>0, <1>2, <1>3, <1>5
<1>7. ASSUME NEW p \in Int
      PROVE  /\ OutSum(r, s, p) = OutSum(m, s, p) - At(old, p) + At(new, p)
             /\ OutSum(m, s, p) \in Nat /\ OutSum(r, s, p) \in Nat
             /\ At(old, p) \in Nat /\ At(new, p) \in Nat /\ At(old, p) <= OutSum(m, s, p)
             /\ n[Out][s][p] \in Nat /\ n[Out][s][p] + OutSum(r, s, p) < QuantityModulus
  <2> DEFINE f == [c \in BookSet |-> At(m.imp[c][s], p)]
             g == [c \in BookSet |-> At(r.imp[c][s], p)]
  <2>1. /\ Counted(f, BookSet) /\ OutSum(m, s, p) \in Nat
        /\ Counted(g, BookSet) /\ OutSum(r, s, p) \in Nat
        /\ \A k \in 0 .. most : k + OutSum(r, s, p) < QuantityModulus
    BY <1>0, <1>2, <1>6, OutSumIs
  <2>2. f[b] = At(old, p) /\ g[b] = At(new, p) /\ \A c \in BookSet : c # b => f[c] = g[c]
    BY <1>2, <1>5 DEF old
  <2>3. SumOver(f, BookSet) = OutSum(m, s, p) /\ SumOver(g, BookSet) = OutSum(r, s, p)
    BY DEF OutSum
  <2> HIDE DEF f, g
  <2>4. /\ f[b] \in Nat /\ g[b] \in Nat /\ f[b] <= SumOver(f, BookSet)
        /\ SumOver(g, BookSet) = SumOver(f, BookSet) - f[b] + g[b]
    BY <2>1, <2>2, BooksFinite, SumChange
  <2>5. n[Out][s][p] \in 0 .. most
    BY DEF Numbers, Feeds
  <2>6. n[Out][s][p] + OutSum(r, s, p) < QuantityModulus /\ n[Out][s][p] \in Nat
    BY <1>1, <2>1, <2>5
  <2> QED BY <2>1, <2>2, <2>3, <2>4, <2>6
<1>8. m.out[s] \in Levels
  BY <1>0 DEF MdType
<1>9. Movable(m.out[s], old, new)
  <2> SUFFICES ASSUME NEW p \in Int
               PROVE  /\ At(old, p) <= At(m.out[s], p)
                      /\ At(m.out[s], p) - At(old, p) + At(new, p) < QuantityModulus
    BY DEF Movable
  <2>1. At(m.out[s], p) = n[Out][s][p] + OutSum(m, s, p)
    BY <1>0
  <2> DEFINE a == n[Out][s][p]  S == OutSum(m, s, p)  T == OutSum(r, s, p)
             o == At(old, p)  w == At(new, p)  z == At(m.out[s], p)
  <2>2. /\ T = S - o + w /\ S \in Nat /\ T \in Nat /\ o \in Nat /\ w \in Nat /\ o <= S
        /\ a \in Nat /\ a + T < QuantityModulus
    BY <1>7
  <2>3. z = a + S
    BY <2>1
  <2> HIDE DEF a, S, T, o, w, z
  <2>4. o <= z /\ z - o + w = a + T
    BY <2>2, <2>3
  <2>5. z - o + w < QuantityModulus
    BY <2>2, <2>4
  <2> QED BY <2>4, <2>5 DEF o, w, z
<1>10. /\ ~v.corrupt /\ (v.sub # << >> => v.sub = v.out) /\ v.leg = m.leg
       /\ \A t \in Sides : t # s => v.out[t] = m.out[t]
       /\ \A p \in Int : At(v.out[s], p) = At(m.out[s], p) - At(old, p) + At(new, p)
  BY <1>0, <1>1, <1>9, MoveExact DEF v
<1>11. ASSUME NEW t \in Sides, NEW p \in Int
       PROVE  At(r.out[t], p) = n[Out][t][p] + OutSum(r, t, p)
  <2>1. CASE t = s
    <3>1. At(r.out[s], p) = At(m.out[s], p) - At(old, p) + At(new, p)
      BY <1>2, <1>10
    <3>2. At(m.out[s], p) = n[Out][s][p] + OutSum(m, s, p)
      BY <1>0
    <3> DEFINE a == n[Out][s][p]  S == OutSum(m, s, p)  T == OutSum(r, s, p)
               o == At(old, p)  w == At(new, p)  z == At(m.out[s], p)  y == At(r.out[s], p)
    <3>3. T = S - o + w /\ S \in Nat /\ T \in Nat /\ o \in Nat /\ w \in Nat /\ a \in Nat
      BY <1>7
    <3>4. y = z - o + w /\ z = a + S
      BY <3>1, <3>2
    <3> HIDE DEF a, S, T, o, w, z, y
    <3>5. y = a + T
      BY <3>3, <3>4
    <3> QED BY <2>1, <3>5 DEF a, T, y
  <2>2. CASE t # s
    <3>1. r.out[t] = m.out[t]
      BY <1>2, <1>10, <2>2
    <3>2. [c \in BookSet |-> At(r.imp[c][t], p)] = [c \in BookSet |-> At(m.imp[c][t], p)]
      BY <1>5, <2>2
    <3>3. OutSum(r, t, p) = OutSum(m, t, p)
      BY <3>2 DEF OutSum
    <3> QED BY <1>0, <3>1, <3>3
  <2> QED BY <2>1, <2>2
<1>12. AddsUp(r, n, most)
  BY <1>0, <1>2, <1>6, <1>10, <1>11 DEF AddsUp
<1> QED BY <1>12 DEF r

(* So does handle_outright's loop.                                          *)
LEMMA RefreshAllAddsUp ==
  ASSUME NEW most, Enough(most), NEW n \in Numbers(most), NEW m, AddsUp(m, n, most),
         NEW s \in Sides
  PROVE  AddsUp(RefreshAll(m, s), n, most)
<1> DEFINE G == [k \in 0 .. Len(Books) |-> {x \in MdType : AddsUp(x, n, most)}]
<1>1. Len(Books) \in Nat /\ \A k \in 1 .. Len(Books) : Books[k] \in BookSet
  BY MdImpliedAssumption
<1>2. \A k \in 0 .. Len(Books) : G[k] = {x \in MdType : AddsUp(x, n, most)}
  OBVIOUS
<1>3. m \in G[0]
  <2>1. m \in MdType /\ 0 \in 0 .. Len(Books)
    BY <1>1 DEF AddsUp
  <2> QED BY <1>2, <2>1
<1> HIDE DEF G
<1>4. ASSUME NEW k \in 1 .. Len(Books), NEW x \in G[k - 1] PROVE Lifted(x, Books[k], s) \in G[k]
  <2>1. k - 1 \in 0 .. Len(Books) /\ k \in 0 .. Len(Books) /\ Books[k] \in BookSet
    BY <1>1
  <2>2. AddsUp(x, n, most)
    BY <1>2, <2>1
  <2>3. AddsUp(Lifted(x, Books[k], s), n, most)
    <3>1. CASE Refreshes(Books[k], s)
      <4>1. Type[Books[k]][s] # << >>
        BY <3>1 DEF Refreshes
      <4>2. AddsUp(Refresh(x, Books[k], s), n, most)
        BY <2>1, <2>2, <4>1, RefreshAddsUp
      <4> QED BY <3>1, <4>2 DEF Lifted
    <3>2. CASE ~Refreshes(Books[k], s)
      BY <2>2, <3>2 DEF Lifted
    <3> QED BY <3>1, <3>2
  <2>4. Lifted(x, Books[k], s) \in MdType
    BY <2>3 DEF AddsUp
  <2> QED BY <1>2, <2>1, <2>3, <2>4
<1>5. RefreshAll(m, s) \in G[Len(Books)]
  BY <1>3, <1>4, RefreshAllReaches
<1>6. Len(Books) \in 0 .. Len(Books)
  BY <1>1
<1> QED BY <1>2, <1>5, <1>6

\* The numbers n become k when an order at price p of side s of a feed has
\* quantity q instead of old.
Counts(n, k, f, s, p, old, q) ==
  /\ \A e \in Feeds, t \in Sides, r \in Int :
       <<e, t, r>> # <<f, s, p>> => k[e][t][r] = n[e][t][r]
  /\ k[f][s][p] = n[f][s][p] - old + q
  /\ old <= n[f][s][p]

(* handle_outright adds an order or takes it off.                           *)
LEMMA OutAddsUp ==
  ASSUME NEW most, Enough(most), NEW n \in Numbers(most), NEW k \in Numbers(most),
         NEW m, AddsUp(m, n, most), NEW s \in Sides, NEW p \in Int, NEW old \in Nat, NEW q \in Nat,
         NEW kind \in Kinds, Counts(n, k, Out, s, p, old, q)
  PROVE  AddsUp(OutIn(m, s, p, old, q, kind), k, most)
<1> DEFINE r == OutIn(m, s, p, old, q, kind)
<1>0. /\ m \in MdType /\ ~m.corrupt /\ (m.sub # << >> => m.sub = m.out)
      /\ \A f \in LegFeeds, t \in Sides, x \in Int : At(m.leg[f][t], x) = n[f][t][x]
      /\ \A t \in Sides, x \in Int : At(m.out[t], x) = n[Out][t][x] + OutSum(m, t, x)
      /\ \A c \in BookSet, t \in Sides, x \in Int : At(m.imp[c][t], x) <= most
  BY DEF AddsUp
<1>1. /\ One(p, old) \in Levels /\ One(p, q) \in Levels /\ kind \in Ways
      /\ \A x : At(One(p, old), x) = IF x = p THEN old ELSE 0
      /\ \A x : At(One(p, q), x) = IF x = p THEN q ELSE 0
  BY <1>0, OneLevel, OutInType
<1>2. Out \in Feeds /\ \A f \in LegFeeds : f # Out /\ f \in Feeds
  BY FeedsAre DEF Feeds
<1>3. \A x \in Int, t \in Sides : n[Out][t][x] \in 0 .. most /\ k[Out][t][x] \in 0 .. most
  BY <1>2 DEF Numbers
<1>4. \A x \in Int : OutSum(m, s, x) \in Nat
                     /\ \A i \in 0 .. most : i + OutSum(m, s, x) < QuantityModulus
  BY <1>0, OutSumIs
<1>5. ASSUME NEW x \in Int
      PROVE  /\ At(One(p, old), x) <= At(m.out[s], x)
             /\ At(m.out[s], x) - At(One(p, old), x) + At(One(p, q), x)
                  = k[Out][s][x] + OutSum(m, s, x)
             /\ k[Out][s][x] + OutSum(m, s, x) < QuantityModulus
  <2>1. At(m.out[s], x) = n[Out][s][x] + OutSum(m, s, x)
    BY <1>0
  <2>2. /\ n[Out][s][x] \in Nat /\ k[Out][s][x] \in Nat /\ OutSum(m, s, x) \in Nat
        /\ k[Out][s][x] + OutSum(m, s, x) < QuantityModulus
    <3>1. most \in Nat
      BY DEF Enough
    <3>2. n[Out][s][x] \in 0 .. most /\ k[Out][s][x] \in 0 .. most
      BY <1>3
    <3>3. OutSum(m, s, x) \in Nat /\ k[Out][s][x] + OutSum(m, s, x) < QuantityModulus
      BY <1>4, <3>2
    <3> QED BY <3>1, <3>2, <3>3
  <2>3. CASE x = p
    <3>1. k[Out][s][x] = n[Out][s][x] - old + q /\ old <= n[Out][s][x]
      BY <2>3 DEF Counts
    <3>2. At(One(p, old), x) = old /\ At(One(p, q), x) = q
      BY <1>1, <2>3
    <3> QED BY <2>1, <2>2, <3>1, <3>2
  <2>4. CASE x # p
    <3>1. k[Out][s][x] = n[Out][s][x]
      BY <1>2, <2>4 DEF Counts
    <3>2. At(One(p, old), x) = 0 /\ At(One(p, q), x) = 0
      BY <1>1, <2>4
    <3> QED BY <2>1, <2>2, <3>1, <3>2
  <2> QED BY <2>3, <2>4
<1>6. Movable(m.out[s], One(p, old), One(p, q))
  BY <1>5 DEF Movable
<1>7. /\ r \in MdType /\ ~r.corrupt /\ (r.sub # << >> => r.sub = r.out)
      /\ r.leg = m.leg /\ r.imp = m.imp
      /\ \A t \in Sides : t # s => r.out[t] = m.out[t]
      /\ \A x \in Int : At(r.out[s], x) = At(m.out[s], x) - At(One(p, old), x) + At(One(p, q), x)
  BY <1>0, <1>1, <1>6, MoveExact DEF OutIn
<1> HIDE DEF r
<1>8. \A t \in Sides, x \in Int : OutSum(r, t, x) = OutSum(m, t, x)
  BY <1>7 DEF OutSum
<1>9. ASSUME NEW t \in Sides, NEW x \in Int
      PROVE  At(r.out[t], x) = k[Out][t][x] + OutSum(r, t, x)
  <2>1. CASE t = s
    BY <1>5, <1>7, <1>8, <2>1
  <2>2. CASE t # s
    <3>1. k[Out][t][x] = n[Out][t][x]
      BY <1>2, <2>2 DEF Counts
    <3> QED BY <1>0, <1>7, <1>8, <2>2, <3>1
  <2> QED BY <2>1, <2>2
<1>10. \A f \in LegFeeds, t \in Sides, x \in Int : At(r.leg[f][t], x) = k[f][t][x]
  BY <1>0, <1>2, <1>7 DEF Counts
<1>11. AddsUp(r, k, most)
  BY <1>0, <1>7, <1>9, <1>10 DEF AddsUp
<1> QED BY <1>11 DEF r

(* handle_a and handle_b do the same for a leg.                             *)
LEMMA LegAddsUp ==
  ASSUME NEW most, Enough(most), NEW n \in Numbers(most), NEW k \in Numbers(most),
         NEW m, AddsUp(m, n, most), NEW f \in LegFeeds, NEW s \in Sides, NEW p \in Int,
         NEW old \in Nat, NEW q \in Nat, Counts(n, k, f, s, p, old, q)
  PROVE  AddsUp(LegIn(m, f, s, p, old, q), k, most)
<1> DEFINE l == Moved(m.leg[f][s], One(p, old), One(p, q))
           r == LegIn(m, f, s, p, old, q)
<1>0. /\ m \in MdType /\ ~m.corrupt /\ (m.sub # << >> => m.sub = m.out)
      /\ \A e \in LegFeeds, t \in Sides, x \in Int : At(m.leg[e][t], x) = n[e][t][x]
      /\ \A t \in Sides, x \in Int : At(m.out[t], x) = n[Out][t][x] + OutSum(m, t, x)
      /\ \A c \in BookSet, t \in Sides, x \in Int : At(m.imp[c][t], x) <= most
  BY DEF AddsUp
<1>1. /\ One(p, old) \in Levels /\ One(p, q) \in Levels
      /\ \A x : At(One(p, old), x) = IF x = p THEN old ELSE 0
      /\ \A x : At(One(p, q), x) = IF x = p THEN q ELSE 0
  BY OneLevel
<1>2. Out \in Feeds /\ \A e \in LegFeeds : e # Out /\ e \in Feeds
  BY FeedsAre DEF Feeds
<1>3. \A x \in Int : n[f][s][x] \in 0 .. most /\ k[f][s][x] \in 0 .. most
  BY <1>2 DEF Numbers
<1>4. most \in Nat /\ most < QuantityModulus
  <2>1. most \in Nat /\ QuantityModulus \in Nat /\ most * Cardinality(BookSet) \in Nat
        /\ most * (Cardinality(BookSet) + 1) = most * Cardinality(BookSet) + most
    BY BooksFinite, MdImpliedAssumption DEF Enough
  <2>2. most * Cardinality(BookSet) + most < QuantityModulus
    BY <2>1 DEF Enough
  <2> QED BY <2>1, <2>2
<1>5. ASSUME NEW x \in Int
      PROVE  /\ At(One(p, old), x) <= At(m.leg[f][s], x)
             /\ At(m.leg[f][s], x) - At(One(p, old), x) + At(One(p, q), x) = k[f][s][x]
             /\ k[f][s][x] < QuantityModulus
  <2>1. At(m.leg[f][s], x) = n[f][s][x]
    BY <1>0
  <2>2. n[f][s][x] \in Nat /\ k[f][s][x] \in Nat /\ k[f][s][x] < QuantityModulus
    BY <1>3, <1>4, MdImpliedAssumption
  <2>3. CASE x = p
    <3>1. k[f][s][x] = n[f][s][x] - old + q /\ old <= n[f][s][x]
      BY <2>3 DEF Counts
    <3>2. At(One(p, old), x) = old /\ At(One(p, q), x) = q
      BY <1>1, <2>3
    <3> QED BY <2>1, <2>2, <3>1, <3>2
  <2>4. CASE x # p
    <3>1. k[f][s][x] = n[f][s][x]
      BY <1>2, <2>4 DEF Counts
    <3>2. At(One(p, old), x) = 0 /\ At(One(p, q), x) = 0
      BY <1>1, <2>4
    <3> QED BY <2>1, <2>2, <3>1, <3>2
  <2> QED BY <2>3, <2>4
<1>6. m.leg[f][s] \in Levels /\ Movable(m.leg[f][s], One(p, old), One(p, q))
  BY <1>0, <1>5 DEF Movable, MdType
<1>7. l \in Levels /\ \A x \in Int : At(l, x) = k[f][s][x]
  <2>1. \A x \in Int : At(l, x) = At(m.leg[f][s], x) - At(One(p, old), x) + At(One(p, q), x)
    BY <1>1, <1>6, MovedExact
  <2> QED BY <1>1, <1>5, <1>6, <2>1, MovedIs
<1>8. /\ r \in MdType /\ r.out = m.out /\ r.imp = m.imp
      /\ r.sub = m.sub /\ r.corrupt = m.corrupt
      /\ r.leg[f][s] = l
      /\ \A e \in LegFeeds, t \in Sides : <<e, t>> # <<f, s>> => r.leg[e][t] = m.leg[e][t]
  BY <1>0, <1>7, LegChanges DEF LegIn
<1> HIDE DEF r, l
<1>9. ASSUME NEW e \in LegFeeds, NEW t \in Sides, NEW x \in Int
      PROVE  At(r.leg[e][t], x) = k[e][t][x]
  <2>1. CASE <<e, t>> = <<f, s>>
    BY <1>7, <1>8, <2>1
  <2>2. CASE <<e, t>> # <<f, s>>
    <3>1. k[e][t][x] = n[e][t][x]
      BY <1>2, <2>2 DEF Counts
    <3> QED BY <1>0, <1>8, <2>2, <3>1
  <2> QED BY <2>1, <2>2
<1>10. ASSUME NEW t \in Sides, NEW x \in Int
       PROVE  At(r.out[t], x) = k[Out][t][x] + OutSum(r, t, x)
  <2>1. k[Out][t][x] = n[Out][t][x]
    BY <1>2 DEF Counts
  <2>2. OutSum(r, t, x) = OutSum(m, t, x)
    BY <1>8 DEF OutSum
  <2> QED BY <1>0, <1>8, <2>1, <2>2
<1>11. AddsUp(r, k, most)
  BY <1>0, <1>8, <1>9, <1>10 DEF AddsUp
<1> QED BY <1>11 DEF r
-----------------------------------------------------------------------------
(* What the open orders add up to.                                          *)

\* The quantity of each order of o at price p of side s of feed f.
Placed(o, f, s, p) ==
  [i \in Ids |-> IF o[i] # NoOrder /\ o[i].feed = f /\ o[i].side = s /\ o[i].price = p
                 THEN o[i].qty ELSE 0]

Numbered(o) ==
  [f \in Feeds |-> [s \in Sides |-> [p \in Int |-> SumOver(Placed(o, f, s, p), Ids)]]]

OrdersFit(o) ==
  /\ o \in [Ids -> OrderType \cup {NoOrder}]
  /\ \A i \in Ids : o[i] # NoOrder => o[i].qty \in Quantities

\* most is the number of QuantitiesFit.
Fits(most) ==
  /\ Enough(most)
  /\ \A q \in Quantities : q * Cardinality(Ids) <= most

(* Each order has a quantity, or none.                                      *)
LEMMA PlacedIs ==
  ASSUME NEW o, OrdersFit(o), NEW f, NEW s, NEW p
  PROVE  /\ Counted(Placed(o, f, s, p), Ids)
         /\ \A i \in Ids : Placed(o, f, s, p)[i] \in Quantities \cup {0}
<1>1. \A i \in Ids : Placed(o, f, s, p)[i] \in Quantities \cup {0}
  BY DEF OrdersFit, Placed
<1>2. Quantities \cup {0} \subseteq Nat
  BY MdImpliedAssumption
<1> QED BY <1>1, <1>2 DEF Counted

(* The orders of a feed at a price are not too many.                        *)
LEMMA NumberedIs ==
  ASSUME NEW most, Fits(most), NEW o, OrdersFit(o)
  PROVE  /\ Numbered(o) \in Numbers(most)
         /\ \A f \in Feeds, s \in Sides, p \in Int :
              Numbered(o)[f][s][p] = SumOver(Placed(o, f, s, p), Ids)
<1>1. ASSUME NEW f \in Feeds, NEW s \in Sides, NEW p \in Int
      PROVE  SumOver(Placed(o, f, s, p), Ids) \in 0 .. most
  <2> DEFINE g == Placed(o, f, s, p)
  <2>1. Counted(g, Ids) /\ \A i \in Ids : g[i] \in Quantities \cup {0}
    BY PlacedIs
  <2> HIDE DEF g
  <2>2. IsFiniteSet(Ids) /\ Cardinality(Ids) \in Nat /\ Quantities \subseteq Nat /\ most \in Nat
    BY MdImpliedAssumption, FS_CardinalityType DEF Fits, Enough
  <2>3. SumOver(g, Ids) \in Nat
    BY <2>1, <2>2, SumNat
  <2>5. ASSUME Ids # {} PROVE SumOver(g, Ids) <= most
    <3>1. \A i \in Ids : g[i] \in Int /\ g[i] \in Nat
      BY <2>1 DEF Counted
    <3>2. PICK x \in Ids : \A y \in Ids : g[y] <= g[x]
      BY <2>2, <2>5, <3>1, ArgMax
    <3>3. g[x] \in Nat
      BY <3>1
    <3>4. SumOver(g, Ids) <= g[x] * Cardinality(Ids)
      BY <2>1, <2>2, <3>2, <3>3, SumBound
    <3>5. g[x] * Cardinality(Ids) <= most
      <4>1. CASE g[x] = 0
        <5>1. 0 * Cardinality(Ids) = 0
          BY <2>2
        <5> QED BY <4>1, <5>1, <2>2
      <4>2. CASE g[x] \in Quantities
        BY <4>2 DEF Fits
      <4> QED BY <2>1, <4>1, <4>2
    <3>6. g[x] * Cardinality(Ids) \in Nat
      BY <2>2, <3>3
    <3> DEFINE z == SumOver(g, Ids)  y == g[x] * Cardinality(Ids)
    <3>7. z \in Nat /\ y \in Nat /\ most \in Nat /\ z <= y /\ y <= most
      BY <2>2, <2>3, <3>4, <3>5, <3>6
    <3> HIDE DEF z, y
    <3>8. z <= most
      BY <3>7
    <3> QED BY <3>8 DEF z
  <2>6. SumOver(g, Ids) <= most
    <3>1. 0 <= most
      BY <2>2
    <3>2. CASE Ids = {}
      <4>1. SumOver(g, {}) = 0
        BY SumEmpty
      <4> QED BY <3>1, <3>2, <4>1
    <3> QED BY <2>5, <3>2
  <2>7. SumOver(g, Ids) \in 0 .. most
    <3> DEFINE z == SumOver(g, Ids)
    <3>1. z \in Nat /\ z <= most /\ most \in Nat
      BY <2>2, <2>3, <2>6
    <3> HIDE DEF z
    <3>2. z \in 0 .. most
      BY <3>1
    <3> QED BY <3>2 DEF z
  <2> QED BY <2>7 DEF g
<1>2. \A f \in Feeds, s \in Sides, p \in Int :
        Numbered(o)[f][s][p] = SumOver(Placed(o, f, s, p), Ids)
  BY DEF Numbered
<1> QED BY <1>1, <1>2 DEF Numbered, Numbers

(* When an order changes, so does the number at its price, as much.         *)
LEMMA NumberedChanges ==
  ASSUME NEW most, Fits(most), NEW o, OrdersFit(o), NEW r, OrdersFit(r),
         NEW i \in Ids, NEW old \in Nat, NEW q \in Nat,
         NEW f \in Feeds, NEW s \in Sides, NEW p \in Int,
         \A j \in Ids : j # i => r[j] = o[j],
         IF old = 0 THEN o[i] = NoOrder
         ELSE o[i] # NoOrder /\ o[i].qty = old /\ o[i].feed = f /\ o[i].side = s /\ o[i].price = p,
         IF q = 0 THEN r[i] = NoOrder
         ELSE r[i] # NoOrder /\ r[i].qty = q /\ r[i].feed = f /\ r[i].side = s /\ r[i].price = p
  PROVE  Counts(Numbered(o), Numbered(r), f, s, p, old, q)
<1>1. \A e \in Feeds, t \in Sides, x \in Int :
        /\ Numbered(o)[e][t][x] = SumOver(Placed(o, e, t, x), Ids)
        /\ Numbered(r)[e][t][x] = SumOver(Placed(r, e, t, x), Ids)
  BY NumberedIs
<1>2. ASSUME NEW e \in Feeds, NEW t \in Sides, NEW x \in Int, <<e, t, x>> # <<f, s, p>>
      PROVE  Placed(r, e, t, x) = Placed(o, e, t, x)
  <2>1. \A j \in Ids : j # i => Placed(r, e, t, x)[j] = Placed(o, e, t, x)[j]
    BY DEF Placed
  <2>2. Placed(o, e, t, x)[i] = 0
    <3>1. CASE old = 0
      BY <3>1 DEF Placed
    <3>2. CASE old # 0
      BY <1>2, <3>2 DEF Placed
    <3> QED BY <3>1, <3>2
  <2>3. Placed(r, e, t, x)[i] = 0
    <3>1. CASE q = 0
      BY <3>1 DEF Placed
    <3>2. CASE q # 0
      BY <1>2, <3>2 DEF Placed
    <3> QED BY <3>1, <3>2
  <2>4. \A j \in Ids : Placed(r, e, t, x)[j] = Placed(o, e, t, x)[j]
    BY <2>1, <2>2, <2>3
  <2> QED BY <2>4 DEF Placed
<1> DEFINE g == Placed(o, f, s, p)  h == Placed(r, f, s, p)
<1>3. Counted(g, Ids) /\ Counted(h, Ids) /\ IsFiniteSet(Ids)
  BY PlacedIs, MdImpliedAssumption
<1>4. g[i] = old
  <2>1. CASE old = 0
    BY <2>1 DEF Placed
  <2>2. CASE old # 0
    BY <2>2 DEF Placed
  <2> QED BY <2>1, <2>2
<1>5. h[i] = q
  <2>1. CASE q = 0
    BY <2>1 DEF Placed
  <2>2. CASE q # 0
    BY <2>2 DEF Placed
  <2> QED BY <2>1, <2>2
<1>6. \A j \in Ids : j # i => g[j] = h[j]
  BY DEF Placed
<1>7. Numbered(o)[f][s][p] = SumOver(g, Ids) /\ Numbered(r)[f][s][p] = SumOver(h, Ids)
  BY <1>1
<1> HIDE DEF g, h
<1>8. g[i] <= SumOver(g, Ids) /\ SumOver(h, Ids) = SumOver(g, Ids) - g[i] + h[i]
  BY <1>3, <1>6, SumChange
<1>9. \A e \in Feeds, t \in Sides, x \in Int :
        <<e, t, x>> # <<f, s, p>> => Numbered(r)[e][t][x] = Numbered(o)[e][t][x]
  BY <1>1, <1>2
<1> QED BY <1>4, <1>5, <1>7, <1>8, <1>9 DEF Counts

-----------------------------------------------------------------------------
(* The levels add up in every state.                                        *)

(* A handler keeps the sums.                                                *)
LEMMA HandleAddsUp ==
  ASSUME NEW most, Enough(most), NEW n \in Numbers(most), NEW k \in Numbers(most),
         AddsUp(md, n, most), NEW ord, ord.feed \in Feeds, ord.side \in Sides, ord.price \in Int,
         ord.feed = Out => ord.kind \in Kinds, NEW old \in Nat, NEW q \in Nat,
         Counts(n, k, ord.feed, ord.side, ord.price, old, q), Handle(ord, old, q)
  PROVE  AddsUp(md', k, most)
<1>1. CASE ord.feed = Out
  <2> DEFINE m == OutIn(md, ord.side, ord.price, old, q, ord.kind)
  <2>1. AddsUp(m, k, most)
    BY <1>1, OutAddsUp
  <2>2. md' = m \/ md' = RefreshAll(m, Opposite(ord.side))
    BY <1>1 DEF Handle, HandleOutright, OutIn
  <2> HIDE DEF m
  <2>3. Opposite(ord.side) \in Sides
    BY SidesAre
  <2>4. AddsUp(RefreshAll(m, Opposite(ord.side)), k, most)
    BY <2>1, <2>3, RefreshAllAddsUp
  <2> QED BY <2>1, <2>2, <2>4
<1>2. CASE ord.feed # Out
  <2> DEFINE f == ord.feed  s == ord.side
             m == LegIn(md, f, s, ord.price, old, q)
             c == Again(m, f, s, "bid")
  <2>1. f \in LegFeeds /\ f[1] \in BookSet /\ "bid" \in Sides /\ "ask" \in Sides
    BY <1>2, FeedsAre DEF Sides, LegFeeds
  <2>2. AddsUp(m, k, most)
    BY <2>1, LegAddsUp
  <2>3. md' = Again(c, f, s, "ask")
    BY <1>2, HandleLegIs DEF Handle
  <2> HIDE DEF m
  <2>4. ASSUME NEW x, AddsUp(x, k, most), NEW t \in Sides
        PROVE  AddsUp(Again(x, f, s, t), k, most)
    <3>1. CASE UsesLeg(f[1], t, LegOf(f), s)
      <4>1. Type[f[1]][t] # << >>
        BY <3>1 DEF UsesLeg
      <4>2. AddsUp(Refresh(x, f[1], t), k, most)
        BY <2>1, <2>4, <4>1, RefreshAddsUp
      <4> QED BY <3>1, <4>2 DEF Again
    <3>2. CASE ~UsesLeg(f[1], t, LegOf(f), s)
      BY <2>4, <3>2 DEF Again
    <3> QED BY <3>1, <3>2
  <2>5. AddsUp(c, k, most)
    BY <2>1, <2>2, <2>4
  <2> HIDE DEF c
  <2> QED BY <2>1, <2>3, <2>4, <2>5
<1> QED BY <1>1, <1>2

AddInv(most) == TypeInv /\ OrdersFit(orders) /\ AddsUp(md, Numbered(orders), most)

(* The first state: nothing anywhere.                                       *)
LEMMA AddInit ==
  ASSUME NEW most, Fits(most), Init
  PROVE  AddInv(most)
<1>1. TypeInv /\ OrdersFit(orders)
  BY InitIs DEF TypeInv, OrdersFit
<1>2. Numbered(orders) \in Numbers(most)
  BY <1>1, NumberedIs
<1>3. \A p : At(NoLevels, p) = 0
  BY DEF At, NoLevels
<1>4. ASSUME NEW f \in Feeds, NEW s \in Sides, NEW p \in Int PROVE Numbered(orders)[f][s][p] = 0
  <2> DEFINE g == Placed(orders, f, s, p)
  <2>1. \A i \in Ids : g[i] = 0
    BY InitIs DEF Placed
  <2>2. Numbered(orders)[f][s][p] = SumOver(g, Ids)
    BY <1>1, NumberedIs
  <2> HIDE DEF g
  <2>3. Counted(g, Ids) /\ IsFiniteSet(Ids) /\ Cardinality(Ids) \in Nat /\ 0 * Cardinality(Ids) = 0
    BY <2>1, MdImpliedAssumption, FS_CardinalityType DEF Counted
  <2>4. SumOver(g, Ids) \in Nat /\ SumOver(g, Ids) <= 0 * Cardinality(Ids)
    BY <2>1, <2>3, SumNat, SumBound
  <2> QED BY <2>2, <2>3, <2>4
<1>5. ASSUME NEW s \in Sides, NEW p \in Int PROVE OutSum(md, s, p) = 0
  <2> DEFINE g == [b \in BookSet |-> At(md.imp[b][s], p)]
  <2>1. \A b \in BookSet : g[b] = 0
    BY <1>3, InitIs
  <2>2. OutSum(md, s, p) = SumOver(g, BookSet)
    BY DEF OutSum
  <2> HIDE DEF g
  <2>3. Counted(g, BookSet) /\ 0 * Cardinality(BookSet) = 0
    BY <2>1, BooksFinite DEF Counted
  <2>4. SumOver(g, BookSet) \in Nat /\ SumOver(g, BookSet) <= 0 * Cardinality(BookSet)
    BY <2>1, <2>3, BooksFinite, SumNat, SumBound
  <2> QED BY <2>2, <2>3, <2>4
<1>6. /\ \A f \in LegFeeds, s \in Sides : md.leg[f][s] = NoLevels
      /\ \A s \in Sides : md.out[s] = NoLevels
      /\ \A b \in BookSet, s \in Sides : md.imp[b][s] = NoLevels
      /\ md.sub = << >> /\ ~md.corrupt /\ md \in MdType
  BY <1>1, InitIs DEF TypeInv
<1>7. Out \in Feeds /\ \A f \in LegFeeds : f \in Feeds
  BY DEF Feeds
<1>8. most \in Nat /\ 0 <= most
  BY DEF Fits, Enough
<1>9. AddsUp(md, Numbered(orders), most)
  BY <1>3, <1>4, <1>5, <1>6, <1>7, <1>8 DEF AddsUp
<1> QED BY <1>1, <1>9 DEF AddInv

(* Every step keeps it.                                                     *)
LEMMA AddStep ==
  ASSUME NEW most, Fits(most), AddInv(most), [Next]_vars
  PROVE  AddInv(most)'
<1>0. TypeInv' /\ TypeInv /\ OrdersFit(orders) /\ AddsUp(md, Numbered(orders), most) /\ Enough(most)
  BY TypeStep DEF AddInv, Fits
<1>1. CASE UNCHANGED vars
  <2>1. orders' = orders /\ md' = md
    BY <1>1 DEF vars
  <2>2. OrdersFit(orders') /\ AddsUp(md', Numbered(orders'), most)
    BY <1>0, <2>1
  <2> QED BY <1>0, <2>2 DEF AddInv
<1>2. CASE UNCHANGED orders /\ Subscribe
  <2>1. md \in MdType
    BY <1>0 DEF TypeInv
  <2>2. /\ md' \in MdType /\ md'.leg = md.leg /\ md'.out = md.out /\ md'.imp = md.imp
        /\ md'.sub = md.out /\ md'.corrupt = md.corrupt
    BY <1>2, <2>1, SubscribeIs
  <2>3. \A s, p : OutSum(md', s, p) = OutSum(md, s, p)
    BY <2>2 DEF OutSum
  <2>4. AddsUp(md', Numbered(orders), most)
    BY <1>0, <2>2, <2>3 DEF AddsUp
  <2>5. orders' = orders
    BY <1>2
  <2>6. OrdersFit(orders') /\ AddsUp(md', Numbered(orders'), most)
    BY <1>0, <2>4, <2>5
  <2> QED BY <1>0, <2>6 DEF AddInv
<1>3. ASSUME NEW i \in Ids, NEW old \in Nat, NEW q \in Nat, NEW ord, Becomes(i, ord, old, q)
      PROVE  AddInv(most)'
  <2>1. /\ ord.feed \in Feeds /\ ord.side \in Sides /\ ord.price \in Int
        /\ ord.feed = Out => ord.kind \in Kinds
        /\ Handle(ord, old, q) /\ orders' \in [Ids -> OrderType \cup {NoOrder}]
        /\ \A j \in Ids : j # i => orders'[j] = orders[j]
        /\ IF old = 0 THEN orders[i] = NoOrder
           ELSE /\ orders[i] # NoOrder /\ orders[i].qty = old
                /\ orders[i].feed = ord.feed /\ orders[i].side = ord.side
                /\ orders[i].price = ord.price
        /\ IF q = 0 THEN orders'[i] = NoOrder
           ELSE /\ q \in Quantities
                /\ orders'[i] # NoOrder /\ orders'[i].qty = q
                /\ orders'[i].feed = ord.feed /\ orders'[i].side = ord.side
                /\ orders'[i].price = ord.price
    BY <1>3 DEF Becomes
  <2>2. PICK o : o = orders'
    OBVIOUS
  <2>3. OrdersFit(o)
    <3>1. ASSUME NEW j \in Ids, o[j] # NoOrder PROVE o[j].qty \in Quantities
      <4>1. CASE j = i
        BY <2>1, <2>2, <3>1, <4>1
      <4>2. CASE j # i
        BY <1>0, <2>1, <2>2, <3>1, <4>2 DEF OrdersFit
      <4> QED BY <4>1, <4>2
    <3> QED BY <2>1, <2>2, <3>1 DEF OrdersFit
  <2>4. Counts(Numbered(orders), Numbered(o), ord.feed, ord.side, ord.price, old, q)
    <3> DEFINE f == ord.feed  s == ord.side  p == ord.price
    <3>1. /\ \A j \in Ids : j # i => o[j] = orders[j]
          /\ IF old = 0 THEN orders[i] = NoOrder
             ELSE /\ orders[i] # NoOrder /\ orders[i].qty = old
                  /\ orders[i].feed = f /\ orders[i].side = s /\ orders[i].price = p
          /\ IF q = 0 THEN o[i] = NoOrder
             ELSE o[i] # NoOrder /\ o[i].qty = q /\ o[i].feed = f /\ o[i].side = s /\ o[i].price = p
          /\ f \in Feeds /\ s \in Sides /\ p \in Int
      BY <2>1, <2>2
    <3> HIDE DEF f, s, p
    <3>2. Counts(Numbered(orders), Numbered(o), f, s, p, old, q)
      BY <1>0, <2>3, <3>1, NumberedChanges
    <3> QED BY <3>2 DEF f, s, p
  <2>5. Numbered(orders) \in Numbers(most) /\ Numbered(o) \in Numbers(most)
    BY <1>0, <2>3, NumberedIs
  <2>6. AddsUp(md', Numbered(o), most)
    BY <1>0, <2>1, <2>4, <2>5, HandleAddsUp
  <2>7. OrdersFit(orders') /\ AddsUp(md', Numbered(orders'), most)
    BY <2>2, <2>3, <2>6
  <2> QED BY <1>0, <2>7 DEF AddInv
<1>4. CASE Next
  <2>1. orders \in [Ids -> OrderType \cup {NoOrder}]
    BY <1>0 DEF TypeInv
  <2> QED BY <2>1, <1>2, <1>3, <1>4, StepIs
<1> QED BY <1>1, <1>4

(* What the invariant says is what the property says.                       *)
LEMMA AddIs ==
  ASSUME NEW most, Fits(most), AddInv(most)
  PROVE  LevelsAddUp
<1>0. /\ TypeInv /\ OrdersFit(orders) /\ AddsUp(md, Numbered(orders), most)
      /\ md \in MdType
  BY DEF AddInv, TypeInv
<1>1. \A f \in Feeds : Prices[f] \subseteq Int
  BY MdImpliedAssumption
<1>2. Out \in Feeds /\ \A f \in LegFeeds : f \in Feeds
  BY DEF Feeds
<1>3. ASSUME NEW f \in Feeds, NEW s \in Sides, NEW p \in Int
      PROVE  Ordered(f, s, p) = Numbered(orders)[f][s][p]
  <2>1. Ordered(f, s, p) = SumOver(Placed(orders, f, s, p), Ids)
    BY DEF Ordered, Placed
  <2> QED BY <2>1, <1>0, NumberedIs
<1>4. \A s, p : ImpliedAt(s, p) = OutSum(md, s, p)
  BY DEF ImpliedAt, OutSum
<1>5. /\ \A f \in LegFeeds, s \in Sides : md.leg[f][s] \in Levels
      /\ \A s \in Sides : md.out[s] \in Levels
      /\ \A b \in BookSet, s \in Sides : md.imp[b][s] \in Levels
  BY <1>0 DEF MdType
<1>6. \A l \in Levels : DOMAIN l \subseteq Int /\ \A p \in DOMAIN l : l[p] > 0
  BY LevelsAre
<1>7. AllPrices \subseteq Int
  <2> SUFFICES ASSUME NEW p \in AllPrices PROVE p \in Int
    OBVIOUS
  <2> DEFINE A == UNION {DOMAIN md.out[s] : s \in Sides}
             C == UNION {UNION {DOMAIN md.imp[b][s] : s \in Sides} : b \in BookSet}
  <2>0. AllPrices = A \cup Prices[Out] \cup C
    BY DEF AllPrices
  <2>1. CASE p \in UNION {DOMAIN md.out[s] : s \in Sides}
    BY <2>1, <1>5, <1>6
  <2>2. CASE p \in Prices[Out]
    BY <2>2, <1>1, <1>2
  <2>3. CASE p \in UNION {UNION {DOMAIN md.imp[b][s] : s \in Sides} : b \in BookSet}
    <3>1. PICK b \in BookSet : p \in UNION {DOMAIN md.imp[b][s] : s \in Sides}
      BY <2>3
    <3>2. PICK s \in Sides : p \in DOMAIN md.imp[b][s]
      BY <3>1
    <3> QED BY <3>2, <1>5, <1>6
  <2>4. p \in A \/ p \in Prices[Out] \/ p \in C
    <3> HIDE DEF A, C
    <3> QED BY <2>0
  <2> QED BY <2>1, <2>2, <2>3, <2>4
<1>8. \A f \in LegFeeds, s \in Sides : \A p \in DOMAIN md.leg[f][s] \cup Prices[f] :
        At(md.leg[f][s], p) = Ordered(f, s, p)
  <2> SUFFICES ASSUME NEW f \in LegFeeds, NEW s \in Sides, NEW p \in DOMAIN md.leg[f][s] \cup Prices[f]
               PROVE  At(md.leg[f][s], p) = Ordered(f, s, p)
    OBVIOUS
  <2>1. p \in Int
    BY <1>1, <1>2, <1>5, <1>6
  <2>2. At(md.leg[f][s], p) = Numbered(orders)[f][s][p]
    BY <1>0, <2>1 DEF AddsUp
  <2> QED BY <1>2, <1>3, <2>1, <2>2
<1>9. \A s \in Sides : \A p \in AllPrices :
        At(md.out[s], p) = Ordered(Out, s, p) + ImpliedAt(s, p)
  <2> SUFFICES ASSUME NEW s \in Sides, NEW p \in AllPrices
               PROVE  At(md.out[s], p) = Ordered(Out, s, p) + ImpliedAt(s, p)
    OBVIOUS
  <2>1. p \in Int
    BY <1>7
  <2>2. At(md.out[s], p) = Numbered(orders)[Out][s][p] + OutSum(md, s, p)
    BY <1>0, <2>1 DEF AddsUp
  <2> QED BY <1>2, <1>3, <1>4, <2>1, <2>2
<1>10. \A s \in Sides : \A p \in DOMAIN md.out[s] : md.out[s][p] > 0
  BY <1>5, <1>6
<1>11. ~md.corrupt /\ (md.sub # << >> => md.sub = md.out)
  BY <1>0 DEF AddsUp
<1> QED BY <1>8, <1>9, <1>10, <1>11 DEF LevelsAddUp

(* QuantitiesFit gives such a number.                                       *)
LEMMA FitsExists ==
  ASSUME QuantitiesFit
  PROVE  \E most : Fits(most)
<1>1. PICK most \in 0 .. QuantityModulus :
         /\ \A q \in Quantities : q * Cardinality(Ids) <= most
         /\ most * (Cardinality(BookSet) + 1) < QuantityModulus
  BY DEF QuantitiesFit
<1>2. most \in Nat
  BY <1>1, MdImpliedAssumption
<1>3. Fits(most)
  BY <1>1, <1>2 DEF Fits, Enough
<1> QED BY <1>3

(* The books of the legs hold the open orders of the legs, and outright the *)
(* open orders of the instrument and the implied quantities of all books,   *)
(* at every price and for every subscriber (md_book.cpp and                 *)
(* md_implied_book.cpp), for any books, orders, prices, ticks and           *)
(* commissions, as long as the quantities stay in their type.               *)
THEOREM BooksAddUp == ASSUME QuantitiesFit PROVE Spec => []LevelsAddUp
<1>1. PICK most : Fits(most)
  BY FitsExists
<1>2. Init => AddInv(most)
  BY <1>1, AddInit
<1>3. AddInv(most) /\ [Next]_vars => AddInv(most)'
  BY <1>1, AddStep
<1>4. AddInv(most) => LevelsAddUp
  BY <1>1, AddIs
<1> QED BY <1>2, <1>3, <1>4, PTL DEF Spec

-----------------------------------------------------------------------------
(* Implied prices follow the prices of the legs.                            *)

(* The remainder of C++, and the next multiple below.                       *)
LEMMA DownIs ==
  ASSUME NEW p \in Int, NEW t \in Nat \ {0}
  PROVE  \E k \in Int : round_down(p, t) = k * t /\ k * t <= p /\ p < k * t + t
<1>1. CASE p >= 0
  <2> DEFINE d == p \div t  r == p % t
  <2>1. p = t * d + r /\ d \in Nat /\ r \in 0 .. t - 1
    BY <1>1
  <2>2. round_down(p, t) = p - r
    BY <1>1, <2>1 DEF round_down, Rem
  <2> HIDE DEF d, r
  <2>3. d * t = t * d /\ t * d \in Int /\ p \in Int /\ t \in Int /\ d \in Int
    BY <2>1
  <2>4. round_down(p, t) = d * t /\ d * t <= p /\ p < d * t + t
    BY <2>1, <2>2, <2>3
  <2> QED BY <2>3, <2>4
<1>2. CASE p < 0
  <2> DEFINE n == -p  d == n \div t  r == n % t
  <2>0. n \in Nat /\ p = -n
    BY <1>2
  <2> HIDE DEF n
  <2>1. n = t * d + r /\ d \in Nat /\ r \in 0 .. t - 1
    BY <2>0
  <2>2. Rem(p, t) = -r
    BY <1>2, <2>0 DEF Rem, n
  <2> HIDE DEF d, r
  <2>3. CASE r = 0
    <3>1. round_down(p, t) = p
      BY <2>2, <2>3 DEF round_down
    <3>2. (-d) * t = -(t * d) /\ -d \in Int /\ t * d \in Int
      BY <2>1
    <3>3. round_down(p, t) = (-d) * t /\ (-d) * t <= p /\ p < (-d) * t + t
      BY <2>0, <2>1, <2>3, <3>1, <3>2
    <3> QED BY <3>2, <3>3
  <2>4. CASE r # 0
    <3>1. round_down(p, t) = p + r - t
      BY <2>1, <2>2, <2>4 DEF round_down
    <3>2. (-d - 1) * t = -(t * d) - t /\ -d - 1 \in Int /\ t * d \in Int
      BY <2>1
    <3>3. round_down(p, t) = (-d - 1) * t /\ (-d - 1) * t <= p /\ p < (-d - 1) * t + t
      BY <2>0, <2>1, <2>4, <3>1, <3>2
    <3> QED BY <3>2, <3>3
  <2> QED BY <2>3, <2>4
<1> QED BY <1>1, <1>2

(* round_down keeps the order of prices.                                    *)
LEMMA DownKeepsOrder ==
  ASSUME NEW p \in Int, NEW q \in Int, p <= q, NEW t \in Nat \ {0}
  PROVE  round_down(p, t) \in Int /\ round_down(q, t) \in Int /\ round_down(p, t) <= round_down(q, t)
<1>1. PICK k \in Int : round_down(p, t) = k * t /\ k * t <= p /\ p < k * t + t
  BY DownIs
<1>2. PICK j \in Int : round_down(q, t) = j * t /\ j * t <= q /\ q < j * t + t
  BY DownIs
<1>3. k * t \in Int /\ j * t \in Int
  OBVIOUS
<1>4. k <= j
  <2> SUFFICES ASSUME j + 1 <= k PROVE FALSE
    OBVIOUS
  <2>1. (j + 1) * t <= k * t /\ (j + 1) * t = j * t + t
    OBVIOUS
  <2> DEFINE a == k * t  c == j * t
  <2>2. a \in Int /\ c \in Int /\ c + t <= a /\ a <= p /\ q < c + t
    BY <1>1, <1>2, <1>3, <2>1
  <2> HIDE DEF a, c
  <2> QED BY <2>2
<1>5. k * t <= j * t
  BY <1>4
<1> QED BY <1>1, <1>2, <1>3, <1>5

(* round_up is its mirror image.                                            *)
LEMMA UpIs ==
  ASSUME NEW p \in Int, NEW t \in Nat \ {0}
  PROVE  round_up(p, t) = -round_down(-p, t)
<1>1. Rem(-p, t) = -Rem(p, t) /\ Rem(p, t) \in Int
  <2>0. 0 % t = 0
    OBVIOUS
  <2>1. CASE p = 0
    BY <2>0, <2>1 DEF Rem
  <2>2. CASE p > 0
    <3>1. -(-p) = p /\ ~(-p >= 0) /\ p % t \in Int
      BY <2>2
    <3> QED BY <2>2, <3>1 DEF Rem
  <2>3. CASE p < 0
    <3>1. -p \in Nat /\ -p >= 0 /\ ~(p >= 0) /\ (-p) % t \in Int
      BY <2>3
    <3> QED BY <2>3, <3>1 DEF Rem
  <2> QED BY <2>1, <2>2, <2>3
<1> QED BY <1>1 DEF round_up, round_down

(* So round_up keeps the order, too.                                        *)
LEMMA UpKeepsOrder ==
  ASSUME NEW p \in Int, NEW q \in Int, p <= q, NEW t \in Nat \ {0}
  PROVE  round_up(p, t) \in Int /\ round_up(q, t) \in Int /\ round_up(p, t) <= round_up(q, t)
<1>1. -p \in Int /\ -q \in Int /\ -q <= -p
  OBVIOUS
<1>2. /\ round_down(-p, t) \in Int /\ round_down(-q, t) \in Int
      /\ round_down(-q, t) <= round_down(-p, t)
  BY <1>1, DownKeepsOrder
<1> QED BY <1>2, UpIs

PipsOf(a, pips) == (a * pips) \div 10000

(* A commission of at most the price changes no more than the price.        *)
LEMMA PipsOfNat ==
  ASSUME NEW a \in Nat, NEW b \in Nat, a <= b, NEW pips \in Nat, pips <= 10000
  PROVE  /\ PipsOf(a, pips) \in Nat /\ PipsOf(b, pips) \in Nat
         /\ PipsOf(a, pips) <= PipsOf(b, pips)
         /\ PipsOf(b, pips) - PipsOf(a, pips) <= b - a
<1> DEFINE x == a * pips  d == b - a  y == d * pips
<1>1. pips \in Nat /\ d \in Nat /\ x \in Nat /\ y \in Nat /\ b = a + d
  OBVIOUS
<1>2. b * pips = x + y
  <2> HIDE DEF d
  <2>1. (a + d) * pips = a * pips + d * pips
    BY <1>1
  <2> QED BY <1>1, <2>1
<1>3. y <= d * 10000
  <2> HIDE DEF d
  <2>1. d * pips <= d * 10000
    BY <1>1
  <2> QED BY <2>1
<1> HIDE DEF x, d, y
<1>4. /\ x \div 10000 \in Nat /\ (x + y) \div 10000 \in Nat
      /\ x \div 10000 <= (x + y) \div 10000
      /\ (x + y) \div 10000 - x \div 10000 <= d
  BY <1>1, <1>3
<1> QED BY <1>2, <1>4 DEF x, d, PipsOf

(* The same for prices of any sign.                                         *)
LEMMA PipsKeepOrder ==
  ASSUME NEW p \in Int, NEW q \in Int, p <= q, NEW pips \in Nat, pips <= 10000
  PROVE  /\ handle_pips(p, pips) \in Int /\ handle_pips(q, pips) \in Int
         /\ handle_pips(q, pips) - handle_pips(p, pips) <= q - p
         /\ handle_pips(p, pips) - handle_pips(q, pips) <= q - p
<1>1. \A r \in Int : Abs(r) \in Nat /\ Abs(r) * pips \in Nat
  <2> SUFFICES ASSUME NEW r \in Int PROVE Abs(r) \in Nat /\ Abs(r) * pips \in Nat
    OBVIOUS
  <2>1. Abs(r) \in Nat /\ pips \in Nat
    BY DEF Abs
  <2> QED BY <2>1
<1>2. \A r \in Int : handle_pips(r, pips) = PipsOf(Abs(r), pips)
  BY <1>1 DEF handle_pips, Quot, PipsOf
<1> DEFINE P == handle_pips(p, pips)  Q == handle_pips(q, pips)
<1>3. P = PipsOf(Abs(p), pips) /\ Q = PipsOf(Abs(q), pips)
  BY <1>2
<1> HIDE DEF P, Q
<1>4. CASE p >= 0
  <2>1. Abs(p) = p /\ Abs(q) = q /\ p \in Nat /\ q \in Nat
    BY <1>4 DEF Abs
  <2>2. P \in Nat /\ Q \in Nat /\ P <= Q /\ Q - P <= q - p
    <3>1. /\ PipsOf(p, pips) \in Nat /\ PipsOf(q, pips) \in Nat
          /\ PipsOf(p, pips) <= PipsOf(q, pips)
          /\ PipsOf(q, pips) - PipsOf(p, pips) <= q - p
      BY <2>1, PipsOfNat
    <3> QED BY <1>3, <2>1, <3>1
  <2>3. P \in Int /\ Q \in Int /\ Q - P <= q - p /\ P - Q <= q - p
    BY <2>2
  <2> QED BY <2>3 DEF P, Q
<1>5. CASE q <= 0
  <2> DEFINE a == -q  b == -p
  <2>1. Abs(p) = b /\ Abs(q) = a /\ a \in Nat /\ b \in Nat /\ a <= b /\ b - a = q - p
    BY <1>5 DEF Abs
  <2> HIDE DEF a, b
  <2>2. P \in Nat /\ Q \in Nat /\ Q <= P /\ P - Q <= b - a
    <3>1. /\ PipsOf(a, pips) \in Nat /\ PipsOf(b, pips) \in Nat
          /\ PipsOf(a, pips) <= PipsOf(b, pips)
          /\ PipsOf(b, pips) - PipsOf(a, pips) <= b - a
      BY <2>1, PipsOfNat
    <3> QED BY <1>3, <2>1, <3>1
  <2>3. P \in Int /\ Q \in Int /\ Q - P <= q - p /\ P - Q <= q - p
    BY <2>1, <2>2
  <2> QED BY <2>3 DEF P, Q
<1>6. CASE p < 0 /\ q > 0
  <2>1. Abs(p) = -p /\ Abs(q) = q /\ -p \in Nat /\ q \in Nat /\ 0 <= -p /\ 0 <= q
    BY <1>6 DEF Abs
  <2>2. PipsOf(0, pips) = 0 /\ 0 \in Nat
    BY DEF PipsOf
  <2> DEFINE b == -p
  <2>3. b \in Nat /\ 0 <= b /\ Abs(p) = b
    BY <2>1
  <2> HIDE DEF b
  <2>4. P \in Nat /\ P - 0 <= b - 0
    <3>1. /\ PipsOf(0, pips) \in Nat /\ PipsOf(b, pips) \in Nat
          /\ PipsOf(0, pips) <= PipsOf(b, pips)
          /\ PipsOf(b, pips) - PipsOf(0, pips) <= b - 0
      BY <2>2, <2>3, PipsOfNat
    <3> QED BY <1>3, <2>2, <2>3, <3>1
  <2>5. Q \in Nat /\ Q - 0 <= q - 0
    <3>1. /\ PipsOf(0, pips) \in Nat /\ PipsOf(q, pips) \in Nat
          /\ PipsOf(0, pips) <= PipsOf(q, pips)
          /\ PipsOf(q, pips) - PipsOf(0, pips) <= q - 0
      BY <2>1, <2>2, PipsOfNat
    <3> QED BY <1>3, <2>1, <2>2, <3>1
  <2>6. P \in Int /\ Q \in Int /\ Q - P <= q - p /\ P - Q <= q - p
    BY <1>6, <2>4, <2>5 DEF b
  <2> QED BY <2>6 DEF P, Q
<1> QED BY <1>4, <1>5, <1>6

(* Worse legs make no better price.                                         *)
LEMMA PriceKeepsOrder ==
  ASSUME LegsFit, NEW b \in BookSet, NEW s \in Sides, Type[b][s] # << >>,
         NEW p1 \in Int, NEW p2 \in Int, NEW q1 \in Int, NEW q2 \in Int,
         ~Better(Type[b][s][1], p1, q1), ~Better(Type[b][s][2], p2, q2)
  PROVE  ~Better(s, matchd_price(b, s, p1, p2), matchd_price(b, s, q1, q2))
<1> DEFINE n == Pips[b]
           P1 == handle_pips(p1, n)  P2 == handle_pips(p2, n)
           Q1 == handle_pips(q1, n)  Q2 == handle_pips(q2, n)
<1>1. n \in Nat /\ n <= 10000 /\ Tick \in Nat \ {0} /\ Rule[b] \in {"add", "minus"}
  <2>1. Pips \in [BookSet -> Nat] /\ Rule \in [BookSet -> {"add", "minus"}] /\ Tick \in Nat \ {0}
    BY MdImpliedAssumption
  <2>2. n \in Nat /\ n <= 10000
    BY <2>1 DEF LegsFit
  <2> HIDE DEF n
  <2> QED BY <2>1, <2>2
<1> HIDE DEF n
<1>2. Type[b][s][1] = s /\ Type[b][s][2] = IF Rule[b] = "add" THEN s ELSE Opposite(s)
  BY DEF LegsFit
<1>3. /\ p1 <= q1 \/ q1 <= p1
      /\ p2 <= q2 \/ q2 <= p2
  OBVIOUS
<1>4. /\ P1 \in Int /\ Q1 \in Int
      /\ p1 <= q1 => Q1 - P1 <= q1 - p1 /\ P1 - Q1 <= q1 - p1
      /\ q1 <= p1 => Q1 - P1 <= p1 - q1 /\ P1 - Q1 <= p1 - q1
  <2>1. CASE p1 <= q1
    <3>1. P1 \in Int /\ Q1 \in Int /\ Q1 - P1 <= q1 - p1 /\ P1 - Q1 <= q1 - p1
      BY ONLY <1>1, <2>1, p1 \in Int, q1 \in Int, PipsKeepOrder
    <3> QED BY <2>1, <3>1
  <2>2. CASE q1 <= p1
    <3>1. Q1 \in Int /\ P1 \in Int /\ P1 - Q1 <= p1 - q1 /\ Q1 - P1 <= p1 - q1
      BY ONLY <1>1, <2>2, p1 \in Int, q1 \in Int, PipsKeepOrder
    <3> QED BY <2>2, <3>1
  <2> QED BY <1>3, <2>1, <2>2
<1>5. /\ P2 \in Int /\ Q2 \in Int
      /\ p2 <= q2 => Q2 - P2 <= q2 - p2 /\ P2 - Q2 <= q2 - p2
      /\ q2 <= p2 => Q2 - P2 <= p2 - q2 /\ P2 - Q2 <= p2 - q2
  <2>1. CASE p2 <= q2
    <3>1. P2 \in Int /\ Q2 \in Int /\ Q2 - P2 <= q2 - p2 /\ P2 - Q2 <= q2 - p2
      BY ONLY <1>1, <2>1, p2 \in Int, q2 \in Int, PipsKeepOrder
    <3> QED BY <2>1, <3>1
  <2>2. CASE q2 <= p2
    <3>1. Q2 \in Int /\ P2 \in Int /\ P2 - Q2 <= p2 - q2 /\ Q2 - P2 <= p2 - q2
      BY ONLY <1>1, <2>2, p2 \in Int, q2 \in Int, PipsKeepOrder
    <3> QED BY <2>2, <3>1
  <2> QED BY <1>3, <2>1, <2>2
<1>6. Commission(p1, p2, n) = P1 + P2 /\ Commission(q1, q2, n) = Q1 + Q2
  BY DEF Commission
<1> HIDE DEF P1, P2, Q1, Q2
<1>7. CASE s = "bid" /\ Rule[b] = "add"
  <2>1. p1 <= q1 /\ p2 <= q2
    BY <1>2, <1>7 DEF Better
  <2> DEFINE u == p1 + p2 - (P1 + P2)  v == q1 + q2 - (Q1 + Q2)
  <2>2. u \in Int /\ v \in Int /\ u <= v
    BY <1>4, <1>5, <2>1
  <2>3. /\ matchd_price(b, s, p1, p2) = round_down(u, Tick)
        /\ matchd_price(b, s, q1, q2) = round_down(v, Tick)
    BY <1>6, <1>7 DEF matchd_price, add_bid, n
  <2> HIDE DEF u, v
  <2>4. /\ round_down(u, Tick) \in Int /\ round_down(v, Tick) \in Int
        /\ round_down(u, Tick) <= round_down(v, Tick)
    BY ONLY <1>1, <2>2, DownKeepsOrder
  <2> QED BY <1>7, <2>3, <2>4 DEF Better
<1>8. CASE s = "ask" /\ Rule[b] = "add"
  <2>1. q1 <= p1 /\ q2 <= p2
    BY <1>2, <1>8 DEF Better
  <2> DEFINE u == q1 + q2 + (Q1 + Q2)  v == p1 + p2 + (P1 + P2)
  <2>2. u \in Int /\ v \in Int /\ u <= v
    BY <1>4, <1>5, <2>1
  <2>3. /\ matchd_price(b, s, p1, p2) = round_up(v, Tick)
        /\ matchd_price(b, s, q1, q2) = round_up(u, Tick)
    BY <1>6, <1>8 DEF matchd_price, add_ask, n
  <2> HIDE DEF u, v
  <2>4. /\ round_up(u, Tick) \in Int /\ round_up(v, Tick) \in Int
        /\ round_up(u, Tick) <= round_up(v, Tick)
    BY ONLY <1>1, <2>2, UpKeepsOrder
  <2> QED BY <1>8, <2>3, <2>4 DEF Better
<1>9. CASE s = "bid" /\ Rule[b] = "minus"
  <2>1. p1 <= q1 /\ q2 <= p2
    BY <1>2, <1>9 DEF Better, Opposite
  <2> DEFINE u == p1 - p2 - (P1 + P2)  v == q1 - q2 - (Q1 + Q2)
  <2>2. u \in Int /\ v \in Int /\ u <= v
    BY <1>4, <1>5, <2>1
  <2>3. /\ matchd_price(b, s, p1, p2) = round_down(u, Tick)
        /\ matchd_price(b, s, q1, q2) = round_down(v, Tick)
    BY <1>6, <1>9 DEF matchd_price, minus_bid, n
  <2> HIDE DEF u, v
  <2>4. /\ round_down(u, Tick) \in Int /\ round_down(v, Tick) \in Int
        /\ round_down(u, Tick) <= round_down(v, Tick)
    BY ONLY <1>1, <2>2, DownKeepsOrder
  <2> QED BY <1>9, <2>3, <2>4 DEF Better
<1>10. CASE s = "ask" /\ Rule[b] = "minus"
  <2>1. q1 <= p1 /\ p2 <= q2
    BY <1>2, <1>10 DEF Better, Opposite
  <2> DEFINE u == q1 - q2 + (Q1 + Q2)  v == p1 - p2 + (P1 + P2)
  <2>2. u \in Int /\ v \in Int /\ u <= v
    BY <1>4, <1>5, <2>1
  <2>3. /\ matchd_price(b, s, p1, p2) = round_up(v, Tick)
        /\ matchd_price(b, s, q1, q2) = round_up(u, Tick)
    BY <1>6, <1>10 DEF matchd_price, minus_ask, n
  <2> HIDE DEF u, v
  <2>4. /\ round_up(u, Tick) \in Int /\ round_up(v, Tick) \in Int
        /\ round_up(u, Tick) <= round_up(v, Tick)
    BY ONLY <1>1, <2>2, UpKeepsOrder
  <2> QED BY <1>10, <2>3, <2>4 DEF Better
<1> QED BY <1>1, <1>7, <1>8, <1>9, <1>10 DEF Sides

-----------------------------------------------------------------------------
(* The quantity that two legs can deliver together.                         *)

(* A part of a set sums up to no more than the set.                         *)
LEMMA SumPart ==
  ASSUME NEW f, NEW S, IsFiniteSet(S), Counted(f, S), NEW T \in SUBSET S
  PROVE  /\ SumOver(f, T) \in Nat /\ SumOver(f, S) \in Nat
         /\ SumOver(f, T) <= SumOver(f, S)
<1> DEFINE Good == {k \in Nat : \A u \in Small(S, k) : \A v \in SUBSET u :
                      SumOver(f, v) <= SumOver(f, u)}
<1>1. \A u \in SUBSET S : IsFiniteSet(u) /\ Cardinality(u) \in Nat /\ Counted(f, u)
  BY FS_Subset, FS_CardinalityType DEF Counted
<1>2. \A u \in SUBSET S : SumOver(f, u) \in Nat
  BY <1>1, SumNat
<1>3. 0 \in Good
  <2> SUFFICES ASSUME NEW u \in Small(S, 0), NEW v \in SUBSET u
               PROVE  SumOver(f, v) <= SumOver(f, u)
    OBVIOUS
  <2>1. u \in SUBSET S /\ Cardinality(u) <= 0
    BY DEF Small
  <2>2. u = {}
    BY <2>1, <1>1, FS_EmptySet
  <2>3. v = u
    BY <2>2
  <2> QED BY <2>1, <2>3, <1>2
<1>4. ASSUME NEW k \in Good PROVE k + 1 \in Good
  <2> SUFFICES ASSUME NEW u \in Small(S, k + 1), NEW v \in SUBSET u
               PROVE  SumOver(f, v) <= SumOver(f, u)
    OBVIOUS
  <2>1. u \in SUBSET S /\ Cardinality(u) <= k + 1 /\ IsFiniteSet(u)
    BY <1>1 DEF Small
  <2>2. CASE v = u
    BY <2>1, <2>2, <1>2
  <2>3. CASE v # u
    <3>1. PICK x \in u : x \notin v
      BY <2>3
    <3> DEFINE w == u \ {x}
    <3>2. w \in SUBSET S /\ v \in SUBSET w
      BY <2>1, <3>1
    <3>3. Cardinality(w) = Cardinality(u) - 1
      BY <2>1, <3>1, FS_RemoveElement
    <3>4. Cardinality(u) \in Nat
      BY <2>1, <1>1
    <3>5. SumOver(f, u) = f[x] + SumOver(f, w)
      BY <2>1, <1>1, SumTake
    <3> HIDE DEF w
    <3>6. Cardinality(w) <= k
      BY <2>1, <3>3, <3>4
    <3>7. w \in Small(S, k)
      BY <3>2, <3>6 DEF Small
    <3>8. SumOver(f, v) <= SumOver(f, w)
      BY <3>2, <3>7, <1>4
    <3>9. f[x] \in Nat /\ SumOver(f, w) \in Nat /\ SumOver(f, v) \in Nat
      BY <2>1, <3>2, <1>2 DEF Counted
    <3> QED BY <3>5, <3>8, <3>9
  <2> QED BY <2>2, <2>3
<1>5. Good = Nat
  <2>1. Good \in SUBSET Nat
    OBVIOUS
  <2> HIDE DEF Good
  <2> QED BY <1>3, <1>4, <2>1, NatInduct
<1>6. S \in Small(S, Cardinality(S)) /\ Cardinality(S) \in Nat /\ S \in SUBSET S
  BY <1>1 DEF Small
<1> QED BY <1>2, <1>5, <1>6

\* Finite sets that share nothing, and their union.
Apart(I, S) ==
  /\ \A x \in S : IsFiniteSet(I[x])
  /\ \A x, y \in S : x # y => I[x] \cap I[y] = {}

Joined(I, S) == UNION {I[x] : x \in S}

(* What is in the union.                                                    *)
LEMMA JoinedIs ==
  ASSUME NEW I, NEW S
  PROVE  \A n : n \in Joined(I, S) <=> \E x \in S : n \in I[x]
BY DEF Joined

(* The sizes of sets that share nothing add up to the size of their union.  *)
LEMMA JoinedSize ==
  ASSUME NEW S, IsFiniteSet(S), NEW I, Apart(I, S), NEW f, Counted(f, S),
         \A x \in S : Cardinality(I[x]) = f[x]
  PROVE  IsFiniteSet(Joined(I, S)) /\ Cardinality(Joined(I, S)) = SumOver(f, S)
<1> DEFINE Good == {k \in Nat : \A u \in Small(S, k) :
                      IsFiniteSet(Joined(I, u)) /\ Cardinality(Joined(I, u)) = SumOver(f, u)}
<1>1. \A u \in SUBSET S : IsFiniteSet(u) /\ Cardinality(u) \in Nat /\ Counted(f, u)
  BY FS_Subset, FS_CardinalityType DEF Counted
<1>2. 0 \in Good
  <2> SUFFICES ASSUME NEW u \in Small(S, 0)
               PROVE  IsFiniteSet(Joined(I, u)) /\ Cardinality(Joined(I, u)) = SumOver(f, u)
    OBVIOUS
  <2>1. u \in SUBSET S /\ Cardinality(u) <= 0
    BY DEF Small
  <2>2. u = {}
    BY <2>1, <1>1, FS_EmptySet
  <2>3. Joined(I, u) = {}
    BY <2>2, JoinedIs
  <2>4. IsFiniteSet({}) /\ Cardinality({}) = 0
    BY FS_EmptySet
  <2> QED BY <2>2, <2>3, <2>4, SumEmpty
<1>3. ASSUME NEW k \in Good PROVE k + 1 \in Good
  <2> SUFFICES ASSUME NEW u \in Small(S, k + 1)
               PROVE  IsFiniteSet(Joined(I, u)) /\ Cardinality(Joined(I, u)) = SumOver(f, u)
    OBVIOUS
  <2>1. u \in SUBSET S /\ IsFiniteSet(u)
    BY <1>1 DEF Small
  <2>2. CASE u = {}
    <3>1. {} \in Small(S, k)
      <4>1. Cardinality({}) = 0 /\ k \in Nat
        BY FS_EmptySet
      <4> QED BY <4>1 DEF Small
    <3> QED BY <2>2, <3>1, <1>3
  <2>3. CASE u # {}
    <3> DEFINE c == CHOOSE x \in u : TRUE  v == u \ {c}
    <3>1. c \in u /\ v \in Small(S, k)
      BY <2>3, SmallerLeft
    <3>2. SumOver(f, u) = f[c] + SumOver(f, v)
      BY <2>1, <2>3, SumStepwise
    <3>3. v \in SUBSET S
      BY <2>1
    <3> HIDE DEF c
    <3>4. IsFiniteSet(Joined(I, v)) /\ Cardinality(Joined(I, v)) = SumOver(f, v)
      BY <3>1, <1>3
    <3>5. IsFiniteSet(I[c]) /\ Cardinality(I[c]) = f[c] /\ f[c] \in Nat
      BY <3>1, <2>1 DEF Apart, Counted
    <3>6. Joined(I, u) = I[c] \cup Joined(I, v)
      <4>1. \A n : n \in Joined(I, u) <=> n \in I[c] \/ n \in Joined(I, v)
        <5>1. \A x \in u : x = c \/ x \in v
          OBVIOUS
        <5>2. \A x \in v : x \in u
          OBVIOUS
        <5> HIDE DEF v
        <5> QED BY <3>1, <5>1, <5>2, JoinedIs
      <4> QED BY <4>1
    <3>7. I[c] \cap Joined(I, v) = {}
      <4>1. \A x \in v : x \in S /\ c \in S /\ x # c
        BY <3>1, <2>1
      <4>2. \A x \in v : I[c] \cap I[x] = {}
        BY <4>1 DEF Apart
      <4> HIDE DEF v
      <4> QED BY <4>2, JoinedIs
    <3> HIDE DEF v
    <3>8. /\ IsFiniteSet(I[c] \cup Joined(I, v))
          /\ Cardinality(I[c] \cup Joined(I, v))
               = Cardinality(I[c]) + Cardinality(Joined(I, v)) - Cardinality(I[c] \cap Joined(I, v))
      BY <3>4, <3>5, FS_Union
    <3>9. Cardinality({}) = 0 /\ SumOver(f, v) \in Nat
      BY <3>3, <1>1, FS_EmptySet, SumNat
    <3>10. Cardinality(Joined(I, u)) = f[c] + SumOver(f, v) - 0
      BY <3>4, <3>5, <3>6, <3>7, <3>8, <3>9
    <3>11. f[c] + SumOver(f, v) - 0 = f[c] + SumOver(f, v)
      BY <3>5, <3>9
    <3> QED BY <3>2, <3>6, <3>8, <3>10, <3>11
  <2> QED BY <2>2, <2>3
<1>4. Good = Nat
  <2>1. Good \in SUBSET Nat
    OBVIOUS
  <2> HIDE DEF Good
  <2> QED BY <1>2, <1>3, <2>1, NatInduct
<1>5. S \in Small(S, Cardinality(S)) /\ Cardinality(S) \in Nat
  BY <1>1 DEF Small
<1> QED BY <1>4, <1>5

(* The best and the worst of some prices.                                   *)
LEMMA Extremes ==
  ASSUME NEW t \in Sides, NEW S \in SUBSET Int, IsFiniteSet(S), S # {}
  PROVE  /\ \E x \in S : \A y \in S : ~Better(t, x, y)
         /\ \E x \in S : \A y \in S : ~Better(t, y, x)
<1> DEFINE a == Max(S)  b == Min(S)
<1>1. a \in S /\ b \in S /\ \A y \in S : y <= a /\ b <= y
  BY MaxMin
<1> HIDE DEF a, b
<1>2. CASE t = "bid"
  <2>1. \A y \in S : ~Better(t, b, y) /\ ~Better(t, y, a)
    BY <1>1, <1>2 DEF Better
  <2> QED BY <1>1, <2>1
<1>3. CASE t = "ask"
  <2>1. \A y \in S : ~Better(t, a, y) /\ ~Better(t, y, b)
    BY <1>1, <1>3 DEF Better
  <2> QED BY <1>1, <2>1
<1> QED BY <1>2, <1>3 DEF Sides

(* Prices are ordered.                                                      *)
LEMMA BetterOrders ==
  ASSUME NEW t \in Sides
  PROVE  /\ \A p \in Int : ~Better(t, p, p)
         /\ \A p, r \in Int : p = r \/ Better(t, p, r) \/ Better(t, r, p)
         /\ \A p, r \in Int : Better(t, p, r) => ~Better(t, r, p)
         /\ \A p, r, z \in Int : Better(t, p, r) /\ ~Better(t, z, r) => Better(t, p, z)
         /\ \A p, r, z \in Int : ~Better(t, r, p) /\ Better(t, r, z) => Better(t, p, z)
<1>1. CASE t = "bid"
  BY <1>1 DEF Better
<1>2. CASE t = "ask"
  BY <1>2 DEF Better
<1> QED BY <1>1, <1>2 DEF Sides

\* The levels in front of a price, and their quantity.
InFront(l, t, p) == {r \in DOMAIN l : Better(t, r, p)}

FrontSum(l, t, p) == SumOver(l, InFront(l, t, p))

(* What is in front of a level, and the level, are part of the side.        *)
LEMMA FrontIs ==
  ASSUME NEW t \in Sides, NEW l \in Levels
  PROVE  /\ IsFiniteSet(DOMAIN l) /\ DOMAIN l \in SUBSET Int /\ Counted(l, DOMAIN l)
         /\ Total(l) \in Nat
         /\ \A p \in DOMAIN l :
              /\ p \in Int /\ l[p] \in Nat /\ l[p] > 0 /\ FrontSum(l, t, p) \in Nat
              /\ InFront(l, t, p) \cup {p} \in SUBSET DOMAIN l
              /\ SumOver(l, InFront(l, t, p) \cup {p}) = FrontSum(l, t, p) + l[p]
              /\ FrontSum(l, t, p) + l[p] <= Total(l)
<1>1. IsFiniteSet(DOMAIN l) /\ DOMAIN l \in SUBSET Int /\ Counted(l, DOMAIN l)
  BY LevelsAre DEF Counted
<1>2. Total(l) \in Nat
  BY <1>1, SumNat DEF Total
<1>3. ASSUME NEW p \in DOMAIN l
      PROVE  /\ p \in Int /\ l[p] \in Nat /\ l[p] > 0 /\ FrontSum(l, t, p) \in Nat
             /\ InFront(l, t, p) \cup {p} \in SUBSET DOMAIN l
             /\ SumOver(l, InFront(l, t, p) \cup {p}) = FrontSum(l, t, p) + l[p]
             /\ FrontSum(l, t, p) + l[p] <= Total(l)
  <2> DEFINE F == InFront(l, t, p)  G == F \cup {p}
  <2>1. p \in Int /\ l[p] \in Nat /\ l[p] > 0
    BY LevelsAre
  <2>2. F \in SUBSET DOMAIN l /\ p \notin F
    BY <2>1, BetterOrders DEF InFront
  <2> HIDE DEF F
  <2>3. G \in SUBSET DOMAIN l /\ p \in G /\ G \ {p} = F
    BY <2>2
  <2> HIDE DEF G
  <2>4. /\ SumOver(l, F) \in Nat /\ SumOver(l, G) \in Nat /\ SumOver(l, G) <= SumOver(l, DOMAIN l)
    BY <1>1, <2>2, <2>3, SumPart
  <2>5. IsFiniteSet(G) /\ Counted(l, G)
    BY <1>1, <2>3, FS_Subset DEF Counted
  <2>6. SumOver(l, G) = l[p] + SumOver(l, F)
    BY <2>3, <2>5, SumTake
  <2>7. SumOver(l, F) + l[p] = SumOver(l, G)
    BY <2>1, <2>4, <2>6
  <2>8. SumOver(l, DOMAIN l) = Total(l)
    BY DEF Total
  <2> QED BY <2>1, <2>3, <2>4, <2>7, <2>8 DEF FrontSum, F, G
<1> QED BY <1>1, <1>2, <1>3

(* A better level is in front, with all that is in front of it.             *)
LEMMA FrontOrder ==
  ASSUME NEW t \in Sides, NEW l \in Levels, NEW p \in DOMAIN l, NEW r \in DOMAIN l,
         Better(t, p, r)
  PROVE  FrontSum(l, t, p) + l[p] <= FrontSum(l, t, r)
<1> DEFINE G == InFront(l, t, p) \cup {p}  H == InFront(l, t, r)
<1>1. /\ IsFiniteSet(DOMAIN l) /\ DOMAIN l \in SUBSET Int /\ Counted(l, DOMAIN l)
      /\ G \in SUBSET DOMAIN l /\ SumOver(l, G) = FrontSum(l, t, p) + l[p]
  BY FrontIs
<1>2. H \in SUBSET DOMAIN l
  BY DEF InFront
<1>3. G \in SUBSET H
  <2>1. \A z \in InFront(l, t, p) : Better(t, z, r)
    <3>1. \A z \in InFront(l, t, p) : z \in Int /\ Better(t, z, p)
      BY <1>1 DEF InFront
    <3>2. p \in Int /\ r \in Int /\ ~Better(t, r, p)
      BY <1>1, BetterOrders
    <3> QED BY <3>1, <3>2, BetterOrders
  <2> QED BY <1>1, <2>1 DEF InFront
<1>4. IsFiniteSet(H) /\ Counted(l, H)
  BY <1>1, <1>2, FS_Subset DEF Counted
<1> HIDE DEF G, H
<1>5. SumOver(l, G) <= SumOver(l, H)
  BY <1>3, <1>4, SumPart
<1> QED BY <1>1, <1>5 DEF FrontSum, H

(* Every unit of a side is in one of its levels.                            *)
LEMMA Covered ==
  ASSUME NEW t \in Sides, NEW l \in Levels, NEW n \in Nat, n < Total(l)
  PROVE  \E p \in DOMAIN l : FrontSum(l, t, p) <= n /\ n < FrontSum(l, t, p) + l[p]
<1>1. /\ IsFiniteSet(DOMAIN l) /\ DOMAIN l \in SUBSET Int /\ Counted(l, DOMAIN l)
      /\ Total(l) \in Nat
      /\ \A p \in DOMAIN l :
           /\ p \in Int /\ l[p] \in Nat /\ l[p] > 0 /\ FrontSum(l, t, p) \in Nat
           /\ InFront(l, t, p) \cup {p} \in SUBSET DOMAIN l
           /\ SumOver(l, InFront(l, t, p) \cup {p}) = FrontSum(l, t, p) + l[p]
  BY FrontIs
<1> DEFINE S == {p \in DOMAIN l : FrontSum(l, t, p) <= n}
<1>2. S # {}
  <2>1. DOMAIN l # {}
    <3> SUFFICES ASSUME DOMAIN l = {} PROVE FALSE
      OBVIOUS
    <3>1. Total(l) = 0
      BY SumEmpty DEF Total
    <3> QED BY <3>1
  <2>2. PICK x \in DOMAIN l : \A y \in DOMAIN l : ~Better(t, y, x)
    BY <1>1, <2>1, Extremes
  <2>3. InFront(l, t, x) = {}
    BY <2>2 DEF InFront
  <2>4. FrontSum(l, t, x) = 0
    BY <2>3, SumEmpty DEF FrontSum
  <2> QED BY <2>4
<1>3. S \in SUBSET DOMAIN l /\ S \in SUBSET Int /\ IsFiniteSet(S)
  <2>1. S \in SUBSET DOMAIN l
    OBVIOUS
  <2> HIDE DEF S
  <2> QED BY <1>1, <2>1, FS_Subset
<1>4. PICK x \in S : \A y \in S : ~Better(t, x, y)
  <2> HIDE DEF S
  <2> QED BY <1>2, <1>3, Extremes
<1>5. n < FrontSum(l, t, x) + l[x]
  <2> SUFFICES ASSUME ~(n < FrontSum(l, t, x) + l[x]) PROVE FALSE
    OBVIOUS
  <2> DEFINE G == InFront(l, t, x) \cup {x}  Z == DOMAIN l \ G
  <2>1. /\ G \in SUBSET DOMAIN l /\ SumOver(l, G) = FrontSum(l, t, x) + l[x]
        /\ x \in Int /\ FrontSum(l, t, x) \in Nat /\ l[x] \in Nat
    BY <1>1
  <2>2. SumOver(l, G) <= n /\ SumOver(l, G) \in Nat
    BY <2>1
  <2>3. G # DOMAIN l
    BY <1>1, <2>2 DEF Total
  <2>4. Z # {} /\ Z \in SUBSET DOMAIN l
    BY <2>1, <2>3
  <2>5. \A z \in Z : z \in Int /\ Better(t, x, z)
    <3>1. \A z \in Z : z \in DOMAIN l /\ z \in Int /\ z # x /\ ~Better(t, z, x)
      BY <1>1 DEF InFront
    <3> HIDE DEF Z
    <3> QED BY <2>1, <3>1, BetterOrders
  <2>6. PICK z \in Z : \A y \in Z : ~Better(t, y, z)
    <3> HIDE DEF Z
    <3>1. IsFiniteSet(Z) /\ Z \in SUBSET Int
      BY <1>1, <2>4, FS_Subset
    <3> QED BY <2>4, <3>1, Extremes
  <2>7. InFront(l, t, z) = G
    <3>1. ASSUME NEW r \in InFront(l, t, z) PROVE r \in G
      <4>1. r \in DOMAIN l /\ Better(t, r, z)
        BY DEF InFront
      <4>2. r \notin Z
        BY <2>6, <4>1
      <4> QED BY <4>1, <4>2
    <3>2. ASSUME NEW r \in G PROVE r \in InFront(l, t, z)
      <4>1. r \in DOMAIN l /\ r \in Int /\ z \in Int /\ Better(t, x, z)
        BY <1>1, <2>1, <2>5, <2>6
      <4>2. CASE r = x
        BY <4>1, <4>2 DEF InFront
      <4>3. CASE Better(t, r, x)
        <5>1. ~Better(t, z, x)
          BY <2>1, <4>1, BetterOrders
        <5>2. Better(t, r, z)
          BY <2>1, <4>1, <4>3, <5>1, BetterOrders
        <5> QED BY <4>1, <5>2 DEF InFront
      <4>4. r = x \/ Better(t, r, x)
        BY DEF InFront
      <4> QED BY <4>2, <4>3, <4>4
    <3> HIDE DEF G
    <3> QED BY <3>1, <3>2
  <2>8. FrontSum(l, t, z) <= n
    BY <2>2, <2>7 DEF FrontSum
  <2>9. z \in S
    BY <2>4, <2>6, <2>8
  <2> QED BY <1>4, <2>5, <2>6, <2>9
<1> QED BY <1>4, <1>5

(* What pairs are: levels of the two legs, a part of the place of each.     *)
LEMMA PairIs ==
  ASSUME NEW m \in MdType, NEW b \in BookSet, NEW s \in Sides, Type[b][s] # << >>,
         NEW x \in Pairs(m, b, s)
  PROVE  /\ From(m, b, s, x) \in Nat /\ Until(m, b, s, x) \in Nat
         /\ From(m, b, s, x) < Until(m, b, s, x)
         /\ x = <<x[1], x[2]>>
         /\ \A i \in 1 .. 2 :
              /\ Type[b][s][i] \in Sides /\ Leg(m, b, s, i) \in Levels
              /\ x[i] \in DOMAIN Leg(m, b, s, i) /\ x[i] \in Int
              /\ FrontSum(Leg(m, b, s, i), Type[b][s][i], x[i]) <= From(m, b, s, x)
              /\ Until(m, b, s, x) <= FrontSum(Leg(m, b, s, i), Type[b][s][i], x[i])
                                        + Leg(m, b, s, i)[x[i]]
<1>1. /\ x \in (DOMAIN Leg(m, b, s, 1)) \X (DOMAIN Leg(m, b, s, 2))
      /\ From(m, b, s, x) < Until(m, b, s, x)
  BY DEF Pairs
<1>2. 1 \in 1 .. 2 /\ 2 \in 1 .. 2 /\ \A i \in 1 .. 2 : i = 1 \/ i = 2
  OBVIOUS
<1>3. x = <<x[1], x[2]>> /\ \A i \in 1 .. 2 : x[i] \in DOMAIN Leg(m, b, s, i)
  BY <1>1, <1>2
<1>4. \A i \in 1 .. 2 : Ahead(m, b, s, i, x[i]) = FrontSum(Leg(m, b, s, i), Type[b][s][i], x[i])
  BY DEF Ahead, FrontSum, InFront
<1>5. \A i \in 1 .. 2 : Type[b][s][i] \in Sides /\ Leg(m, b, s, i) \in Levels
  BY LegsAre
<1>6. \A i \in 1 .. 2 : x[i] \in Int
  BY <1>3, <1>5, LevelsAre
<1>7. /\ From(m, b, s, x) \in Nat /\ Until(m, b, s, x) \in Nat
      /\ \A i \in 1 .. 2 :
           /\ Ahead(m, b, s, i, x[i]) <= From(m, b, s, x)
           /\ Until(m, b, s, x) <= Ahead(m, b, s, i, x[i]) + Leg(m, b, s, i)[x[i]]
  BY <1>1, PlaceIs
<1> QED BY <1>1, <1>3, <1>4, <1>5, <1>6, <1>7

(* Two pairs have no unit in common.                                        *)
LEMMA PairsApart ==
  ASSUME NEW m \in MdType, NEW b \in BookSet, NEW s \in Sides, Type[b][s] # << >>,
         NEW x \in Pairs(m, b, s), NEW y \in Pairs(m, b, s), x # y
  PROVE  \/ Until(m, b, s, x) <= From(m, b, s, y)
         \/ Until(m, b, s, y) <= From(m, b, s, x)
<1>1. 1 \in 1 .. 2 /\ 2 \in 1 .. 2
  OBVIOUS
<1>2. x = <<x[1], x[2]>> /\ y = <<y[1], y[2]>>
  BY PairIs
<1>3. PICK i \in 1 .. 2 : x[i] # y[i]
  BY <1>1, <1>2
<1> DEFINE t == Type[b][s][i]  l == Leg(m, b, s, i)  p == x[i]  r == y[i]
           fx == From(m, b, s, x)  ux == Until(m, b, s, x)
           fy == From(m, b, s, y)  uy == Until(m, b, s, y)
<1>4. /\ t \in Sides /\ l \in Levels /\ p \in DOMAIN l /\ r \in DOMAIN l
      /\ p \in Int /\ r \in Int
      /\ fx \in Nat /\ ux \in Nat /\ fy \in Nat /\ uy \in Nat
      /\ FrontSum(l, t, p) <= fx /\ ux <= FrontSum(l, t, p) + l[p]
      /\ FrontSum(l, t, r) <= fy /\ uy <= FrontSum(l, t, r) + l[r]
  BY PairIs
<1> HIDE DEF t, l, p, r, fx, ux, fy, uy
<1>5. /\ FrontSum(l, t, p) \in Nat /\ l[p] \in Nat /\ FrontSum(l, t, r) \in Nat /\ l[r] \in Nat
  BY <1>4, FrontIs
<1>6. CASE Better(t, p, r)
  <2>1. FrontSum(l, t, p) + l[p] <= FrontSum(l, t, r)
    BY <1>4, <1>6, FrontOrder
  <2>2. ux <= fy
    BY <1>4, <1>5, <2>1
  <2> QED BY <2>2 DEF ux, fy
<1>7. CASE Better(t, r, p)
  <2>1. FrontSum(l, t, r) + l[r] <= FrontSum(l, t, p)
    BY <1>4, <1>7, FrontOrder
  <2>2. uy <= fx
    BY <1>4, <1>5, <2>1
  <2> QED BY <2>2 DEF uy, fx
<1>8. p # r
  BY <1>3 DEF p, r
<1> QED BY <1>4, <1>6, <1>7, <1>8, BetterOrders

\* The quantity that the legs of an implied side can deliver.
Depth(m, b, s) == Min({Total(Leg(m, b, s, 1)), Total(Leg(m, b, s, 2))})

(* It is that of the smaller leg.                                           *)
LEMMA DepthIs ==
  ASSUME NEW m \in MdType, NEW b \in BookSet, NEW s \in Sides, Type[b][s] # << >>
  PROVE  /\ Depth(m, b, s) \in Nat
         /\ \A i \in 1 .. 2 : Total(Leg(m, b, s, i)) \in Nat /\ Depth(m, b, s) <= Total(Leg(m, b, s, i))
         /\ \E i \in 1 .. 2 : Depth(m, b, s) = Total(Leg(m, b, s, i))
<1>1. 1 \in 1 .. 2 /\ 2 \in 1 .. 2 /\ \A i \in 1 .. 2 : i = 1 \/ i = 2
  OBVIOUS
<1>2. \A i \in 1 .. 2 : Type[b][s][i] \in Sides /\ Leg(m, b, s, i) \in Levels
  BY LegsAre
<1>3. \A i \in 1 .. 2 : Total(Leg(m, b, s, i)) \in Nat
  BY <1>2, FrontIs
<1> DEFINE v == Total(Leg(m, b, s, 1))  w == Total(Leg(m, b, s, 2))
<1>4. v \in Nat /\ w \in Nat
  BY <1>1, <1>3
<1>5. Depth(m, b, s) = Min({v, w})
  BY DEF Depth
<1>6. \A i \in 1 .. 2 : Total(Leg(m, b, s, i)) = IF i = 1 THEN v ELSE w
  BY <1>1
<1> HIDE DEF v, w
<1>7. Min({v, w}) \in {v, w} /\ Min({v, w}) <= v /\ Min({v, w}) <= w
  <2>1. v \in Int /\ w \in Int
    BY <1>4
  <2> QED BY ONLY <2>1, MaxMinOfTwo
<1>8. Depth(m, b, s) \in Nat /\ Depth(m, b, s) <= v /\ Depth(m, b, s) <= w
      /\ (Depth(m, b, s) = v \/ Depth(m, b, s) = w)
  BY <1>4, <1>5, <1>7
<1>9. \A i \in 1 .. 2 : Depth(m, b, s) <= Total(Leg(m, b, s, i))
  BY <1>1, <1>6, <1>8
<1>10. \E i \in 1 .. 2 : Depth(m, b, s) = Total(Leg(m, b, s, i))
  BY <1>1, <1>6, <1>8
<1> QED BY <1>3, <1>8, <1>9, <1>10

(* The pairs have no unit beyond the depth, and every unit before it.       *)
LEMMA PairsCover ==
  ASSUME NEW m \in MdType, NEW b \in BookSet, NEW s \in Sides, Type[b][s] # << >>
  PROVE  /\ \A x \in Pairs(m, b, s) : Until(m, b, s, x) <= Depth(m, b, s)
         /\ \A n \in Nat : n < Depth(m, b, s) =>
              \E x \in Pairs(m, b, s) : From(m, b, s, x) <= n /\ n < Until(m, b, s, x)
<1>1. /\ Depth(m, b, s) \in Nat
      /\ \A i \in 1 .. 2 : Total(Leg(m, b, s, i)) \in Nat /\ Depth(m, b, s) <= Total(Leg(m, b, s, i))
      /\ \E i \in 1 .. 2 : Depth(m, b, s) = Total(Leg(m, b, s, i))
  BY DepthIs
<1>2. \A i \in 1 .. 2 : Type[b][s][i] \in Sides /\ Leg(m, b, s, i) \in Levels
  BY LegsAre
<1>3. ASSUME NEW x \in Pairs(m, b, s) PROVE Until(m, b, s, x) <= Depth(m, b, s)
  <2>1. PICK i \in 1 .. 2 : Depth(m, b, s) = Total(Leg(m, b, s, i))
    BY <1>1
  <2> DEFINE t == Type[b][s][i]  l == Leg(m, b, s, i)  p == x[i]  u == Until(m, b, s, x)
  <2>2. /\ t \in Sides /\ l \in Levels /\ p \in DOMAIN l /\ u \in Nat
        /\ u <= FrontSum(l, t, p) + l[p]
    BY PairIs
  <2>3. Depth(m, b, s) = Total(l) /\ Total(l) \in Nat
    BY <1>1, <2>1
  <2> HIDE DEF t, l, p, u
  <2>4. FrontSum(l, t, p) \in Nat /\ l[p] \in Nat /\ FrontSum(l, t, p) + l[p] <= Total(l)
    BY <2>2, FrontIs
  <2>5. u <= Total(l)
    BY <2>2, <2>3, <2>4
  <2> QED BY <2>3, <2>5 DEF u
<1>4. ASSUME NEW n \in Nat, n < Depth(m, b, s)
      PROVE  \E x \in Pairs(m, b, s) : From(m, b, s, x) <= n /\ n < Until(m, b, s, x)
  <2>1. ASSUME NEW i \in 1 .. 2
        PROVE  \E p \in DOMAIN Leg(m, b, s, i) :
                 Ahead(m, b, s, i, p) <= n /\ n < Ahead(m, b, s, i, p) + Leg(m, b, s, i)[p]
    <3> DEFINE t == Type[b][s][i]  l == Leg(m, b, s, i)
    <3>1. t \in Sides /\ l \in Levels /\ n < Total(l)
      BY <1>1, <1>2, <1>4
    <3>2. \A p : Ahead(m, b, s, i, p) = FrontSum(l, t, p)
      BY DEF Ahead, FrontSum, InFront
    <3> HIDE DEF t, l
    <3>3. \E p \in DOMAIN l : FrontSum(l, t, p) <= n /\ n < FrontSum(l, t, p) + l[p]
      BY <3>1, Covered
    <3> QED BY <3>2, <3>3 DEF l
  <2>2. 1 \in 1 .. 2 /\ 2 \in 1 .. 2 /\ \A i \in 1 .. 2 : i = 1 \/ i = 2
    OBVIOUS
  <2>3. PICK p1 \in DOMAIN Leg(m, b, s, 1) :
          Ahead(m, b, s, 1, p1) <= n /\ n < Ahead(m, b, s, 1, p1) + Leg(m, b, s, 1)[p1]
    BY <2>1, <2>2
  <2>4. PICK p2 \in DOMAIN Leg(m, b, s, 2) :
          Ahead(m, b, s, 2, p2) <= n /\ n < Ahead(m, b, s, 2, p2) + Leg(m, b, s, 2)[p2]
    BY <2>1, <2>2
  <2>5. PICK x \in (DOMAIN Leg(m, b, s, 1)) \X (DOMAIN Leg(m, b, s, 2)) : x[1] = p1 /\ x[2] = p2
    <3>1. /\ <<p1, p2>> \in (DOMAIN Leg(m, b, s, 1)) \X (DOMAIN Leg(m, b, s, 2))
          /\ <<p1, p2>>[1] = p1 /\ <<p1, p2>>[2] = p2
      OBVIOUS
    <3> QED BY <3>1
  <2>6. \A i \in 1 .. 2 : /\ Ahead(m, b, s, i, x[i]) <= n
                          /\ n < Ahead(m, b, s, i, x[i]) + Leg(m, b, s, i)[x[i]]
    BY <2>2, <2>3, <2>4, <2>5
  <2>7. /\ From(m, b, s, x) \in Nat /\ Until(m, b, s, x) \in Nat
        /\ \E i \in 1 .. 2 : From(m, b, s, x) = Ahead(m, b, s, i, x[i])
        /\ \E i \in 1 .. 2 :
             Until(m, b, s, x) = Ahead(m, b, s, i, x[i]) + Leg(m, b, s, i)[x[i]]
    BY PlaceIs
  <2>8. From(m, b, s, x) <= n /\ n < Until(m, b, s, x)
    BY <2>6, <2>7
  <2>9. From(m, b, s, x) < Until(m, b, s, x)
    BY <2>7, <2>8
  <2>10. x \in Pairs(m, b, s)
    BY <2>9 DEF Pairs
  <2> QED BY <2>8, <2>10
<1> QED BY <1>3, <1>4

(* So the implied levels add up to the depth, unless two pairs come to one  *)
(* price.                                                                   *)
LEMMA ImpliedDepth ==
  ASSUME NEW m \in MdType, NEW b \in BookSet, NEW s \in Sides, Type[b][s] # << >>
  PROVE  /\ Total(Implied(m, b, s)) \in Nat
         /\ Total(Implied(m, b, s)) <= Depth(m, b, s)
         /\ \/ Total(Implied(m, b, s)) = Depth(m, b, s)
            \/ \E x, y \in Pairs(m, b, s) : x # y /\ PairPrice(m, b, s, x) = PairPrice(m, b, s, y)
<1> DEFINE imp == Implied(m, b, s)  D == DOMAIN imp  P == Pairs(m, b, s)
           depth == Depth(m, b, s)
           last == [p \in D |-> LastPair(m, b, s, p)]
           span == [x \in P |-> From(m, b, s, x) .. (Until(m, b, s, x) - 1)]
           I == [p \in D |-> span[last[p]]]
<1>1. imp \in Levels /\ \A x \in P : PairPrice(m, b, s, x) \in D
  BY ImpliedIs
<1>2. \A p \in D : /\ last[p] \in P /\ PairPrice(m, b, s, last[p]) = p
                   /\ imp[p] = Until(m, b, s, last[p]) - From(m, b, s, last[p])
  BY ImpliedIs
<1>3. \A x \in P : /\ From(m, b, s, x) \in Nat /\ Until(m, b, s, x) \in Nat
                   /\ From(m, b, s, x) < Until(m, b, s, x) /\ Until(m, b, s, x) <= depth
  BY PairIs, PairsCover
<1>4. depth \in Nat
  BY DepthIs
<1>5. \A n \in Nat : n < depth =>
        \E x \in P : From(m, b, s, x) <= n /\ n < Until(m, b, s, x)
  BY PairsCover
<1>6. \A x, y \in P : x # y => \/ Until(m, b, s, x) <= From(m, b, s, y)
                               \/ Until(m, b, s, y) <= From(m, b, s, x)
  BY PairsApart
<1>7. /\ \A x \in P : span[x] = From(m, b, s, x) .. (Until(m, b, s, x) - 1)
      /\ \A p \in D : I[p] = span[last[p]]
  OBVIOUS
<1> HIDE DEF imp, P, depth, last, span, I
<1>8. IsFiniteSet(D) /\ Counted(imp, D) /\ Total(imp) = SumOver(imp, D) /\ Total(imp) \in Nat
  BY <1>1, LevelsAre, SumNat DEF Counted, Total
<1>9. ASSUME NEW x \in P
      PROVE  /\ IsFiniteSet(span[x])
             /\ Cardinality(span[x]) = Until(m, b, s, x) - From(m, b, s, x)
             /\ \A n : n \in span[x] <=>
                    n \in Nat /\ From(m, b, s, x) <= n /\ n < Until(m, b, s, x)
  <2> DEFINE f == From(m, b, s, x)  u == Until(m, b, s, x)
  <2>1. f \in Nat /\ u \in Nat /\ f < u /\ span[x] = f .. (u - 1)
    BY <1>3, <1>7
  <2> HIDE DEF f, u
  <2>2. f \in Int /\ u - 1 \in Int /\ ~(f > u - 1) /\ (u - 1) - f + 1 = u - f
    BY <2>1
  <2>3. IsFiniteSet(f .. (u - 1)) /\ Cardinality(f .. (u - 1)) = u - f
    BY <2>2, FS_Interval
  <2>4. \A n : n \in f .. (u - 1) <=> n \in Nat /\ f <= n /\ n < u
    BY <2>1
  <2> QED BY <2>1, <2>3, <2>4 DEF f, u
<1>10. Apart(I, D)
  <2>1. ASSUME NEW p \in D, NEW r \in D, p # r PROVE I[p] \cap I[r] = {}
    <3>1. last[p] \in P /\ last[r] \in P /\ last[p] # last[r]
      BY <1>2, <2>1
    <3>2. \/ Until(m, b, s, last[p]) <= From(m, b, s, last[r])
          \/ Until(m, b, s, last[r]) <= From(m, b, s, last[p])
      BY <1>6, <3>1
    <3>3. /\ From(m, b, s, last[p]) \in Nat /\ Until(m, b, s, last[p]) \in Nat
          /\ From(m, b, s, last[r]) \in Nat /\ Until(m, b, s, last[r]) \in Nat
      BY <1>3, <3>1
    <3>4. ASSUME NEW n \in span[last[p]], n \in span[last[r]] PROVE FALSE
      <4>1. /\ n \in Nat /\ From(m, b, s, last[p]) <= n /\ n < Until(m, b, s, last[p])
            /\ From(m, b, s, last[r]) <= n /\ n < Until(m, b, s, last[r])
        BY <1>9, <3>1, <3>4
      <4> QED BY <3>2, <3>3, <4>1
    <3> QED BY <1>7, <3>4
  <2>2. \A p \in D : IsFiniteSet(I[p])
    BY <1>2, <1>7, <1>9
  <2> QED BY <2>1, <2>2 DEF Apart
<1>11. \A p \in D : Cardinality(I[p]) = imp[p]
  BY <1>2, <1>7, <1>9
<1> DEFINE J == Joined(I, D)  N == 0 .. (depth - 1)
<1>12. IsFiniteSet(J) /\ Cardinality(J) = Total(imp)
  <2> HIDE DEF D
  <2> QED BY <1>8, <1>10, <1>11, JoinedSize
<1>13. IsFiniteSet(N) /\ Cardinality(N) = depth
  <2>1. 0 \in Int /\ depth - 1 \in Int
    BY <1>4
  <2>2. IsFiniteSet(N) /\ Cardinality(N) = IF 0 > depth - 1 THEN 0 ELSE (depth - 1) - 0 + 1
    BY <2>1, FS_Interval
  <2>3. (IF 0 > depth - 1 THEN 0 ELSE (depth - 1) - 0 + 1) = depth
    BY <1>4
  <2> QED BY <2>2, <2>3
<1>14. \A n : n \in J <=> \E p \in D : n \in span[last[p]]
  BY <1>7, JoinedIs
<1>15. J \in SUBSET N
  <2> SUFFICES ASSUME NEW n \in J PROVE n \in N
    OBVIOUS
  <2>1. PICK p \in D : n \in span[last[p]]
    BY <1>14
  <2>2. last[p] \in P
    BY <1>2
  <2>3. /\ n \in Nat /\ n < Until(m, b, s, last[p]) /\ Until(m, b, s, last[p]) \in Nat
        /\ Until(m, b, s, last[p]) <= depth
    BY <1>3, <1>9, <2>1, <2>2
  <2> QED BY <1>4, <2>3
<1>16. Total(imp) <= depth /\ (Total(imp) = depth => J = N)
  <2> HIDE DEF J, N
  <2> QED BY <1>12, <1>13, <1>15, FS_Subset
<1>17. ASSUME Total(imp) # depth
       PROVE  \E x, y \in P : x # y /\ PairPrice(m, b, s, x) = PairPrice(m, b, s, y)
  <2>1. J # N
    BY <1>12, <1>13, <1>17
  <2>2. PICK n \in N : n \notin J
    BY <1>15, <2>1
  <2>3. n \in Nat /\ n < depth
    BY <1>4
  <2>4. PICK x \in P : From(m, b, s, x) <= n /\ n < Until(m, b, s, x)
    BY <1>5, <2>3
  <2>5. n \in span[x]
    BY <1>9, <2>3, <2>4
  <2> DEFINE p == PairPrice(m, b, s, x)
  <2>6. p \in D /\ last[p] \in P /\ PairPrice(m, b, s, last[p]) = p
    BY <1>1, <1>2
  <2>7. last[p] # x
    BY <1>14, <2>2, <2>5, <2>6
  <2> QED BY <2>6, <2>7
<1> QED BY <1>8, <1>16, <1>17 DEF imp, depth, P

-----------------------------------------------------------------------------
(* An implied side is never better than the best of its legs, and as deep   *)
(* as they are.                                                             *)

NoBetter(m, b, s, imp) ==
  \A p \in DOMAIN imp : \E r \in LegPrices(m, b, s) : ~Better(s, p, r)

Rounded(m, b, s) ==
  \E x, y \in Pairs(m, b, s) :
    x # y /\ matchd_price(b, s, x[1], x[2]) = matchd_price(b, s, y[1], y[2])

Deep(m, b, s, imp) ==
  \/ Total(imp) = Depth(m, b, s)
  \/ /\ Total(imp) < Depth(m, b, s)
     /\ \/ Rounded(m, b, s)
        \/ \E p \in Best(s, imp), r \in LegPrices(m, b, s) : Better(s, r, p)

Fair(m, b, s, imp) == NoBetter(m, b, s, imp) /\ (Type[b][s] # << >> => Deep(m, b, s, imp))

\* The implied sides are what their legs make, but for those in X.
PricedBut(m, X) ==
  /\ m \in MdType
  /\ \A b \in BookSet, s \in Sides : <<b, s>> \notin X => Fair(m, b, s, m.imp[b][s])

(* Some best level is at least as good as a level.                          *)
LEMMA BestReaches ==
  ASSUME NEW s \in Sides, NEW l \in Levels, NEW p \in DOMAIN l
  PROVE  \E r \in Best(s, l) : r \in Int /\ ~Better(s, p, r)
<1>1. DOMAIN l # {}
  OBVIOUS
<1>2. PICK r \in Best(s, l) : r \in Int
  BY <1>1, BestExists
<1>3. ~Better(s, p, r)
  BY <1>2 DEF Best
<1> QED BY <1>2, <1>3

(* Holding a price back makes it worse.                                     *)
LEMMA HeldBackWorse ==
  ASSUME NEW m \in MdType, NEW s \in Sides, NEW p \in Int
  PROVE  HeldBack(m, s, p) \in Int /\ ~Better(s, HeldBack(m, s, p), p)
<1>1. CASE Met(m, s, p) = {}
  BY <1>1 DEF HeldBack, Better
<1>2. CASE Met(m, s, p) # {}
  <2> DEFINE c == CHOOSE q \in Met(m, s, p) : TRUE
  <2>1. c \in Met(m, s, p)
    BY <1>2
  <2>2. m.out[Opposite(s)] \in Levels
    BY SidesAre DEF MdType
  <2>3. c \in Int /\ ~Better(Opposite(s), p, c)
    BY <2>1, <2>2, LevelsAre DEF Met, Best
  <2>4. HeldBack(m, s, p) = IF s = "bid" THEN c - Tick ELSE c + Tick
    BY <1>2 DEF HeldBack
  <2> HIDE DEF c
  <2>5. Tick \in Nat /\ Tick > 0
    BY MdImpliedAssumption
  <2>6. CASE s = "bid"
    <3>1. c <= p
      BY <2>3, <2>6 DEF Better, Opposite
    <3> QED BY <2>3, <2>4, <2>5, <2>6, <3>1 DEF Better
  <2>7. CASE s = "ask"
    <3>1. p <= c
      BY <2>3, <2>7 DEF Better, Opposite
    <3> QED BY <2>3, <2>4, <2>5, <2>7, <3>1 DEF Better
  <2> QED BY <2>6, <2>7 DEF Sides
<1> QED BY <1>1, <1>2

(* No pair has a better price than the best legs.                           *)
LEMMA PairNoBetter ==
  ASSUME LegsFit, NEW m \in MdType, NEW b \in BookSet, NEW s \in Sides, Type[b][s] # << >>,
         NEW x \in Pairs(m, b, s)
  PROVE  /\ matchd_price(b, s, x[1], x[2]) \in Int
         /\ \E r \in LegPrices(m, b, s) : r \in Int /\ ~Better(s, matchd_price(b, s, x[1], x[2]), r)
<1> DEFINE k == matchd_price(b, s, x[1], x[2])
<1>3. 1 \in 1 .. 2 /\ 2 \in 1 .. 2
  OBVIOUS
<1>4. /\ Type[b][s][1] \in Sides /\ Leg(m, b, s, 1) \in Levels
      /\ Type[b][s][2] \in Sides /\ Leg(m, b, s, 2) \in Levels
  BY <1>3, LegsAre
<1>5. x[1] \in DOMAIN Leg(m, b, s, 1) /\ x[2] \in DOMAIN Leg(m, b, s, 2)
  BY <1>3, PairIs
<1>6. x[1] \in Int /\ x[2] \in Int
  BY <1>4, <1>5, LevelsAre
<1>7. PICK r1 \in Best(Type[b][s][1], Leg(m, b, s, 1)) :
             r1 \in Int /\ ~Better(Type[b][s][1], x[1], r1)
  BY <1>4, <1>5, BestReaches
<1>8. PICK r2 \in Best(Type[b][s][2], Leg(m, b, s, 2)) :
             r2 \in Int /\ ~Better(Type[b][s][2], x[2], r2)
  BY <1>4, <1>5, BestReaches
<1> DEFINE r == matchd_price(b, s, r1, r2)
<1>10. ~Better(s, k, r)
  BY <1>6, <1>7, <1>8, PriceKeepsOrder
<1>11. r \in LegPrices(m, b, s)
  <2>1. <<r1, r2>> \in Best(Type[b][s][1], Leg(m, b, s, 1)) \X Best(Type[b][s][2], Leg(m, b, s, 2))
    BY <1>7, <1>8
  <2>2. r = matchd_price(b, s, <<r1, r2>>[1], <<r1, r2>>[2])
    OBVIOUS
  <2> HIDE DEF r
  <2> QED BY <2>1, <2>2 DEF LegPrices
<1>12. k \in Int /\ r \in Int
  BY <1>6, <1>7, <1>8, PriceInt
<1> QED BY <1>10, <1>11, <1>12

(* handle_implied computes no better price than that of the best legs.      *)
LEMMA ImpliedNoBetter ==
  ASSUME LegsFit, NEW m \in MdType, NEW b \in BookSet, NEW s \in Sides, Type[b][s] # << >>
  PROVE  NoBetter(m, b, s, Implied(m, b, s))
<1> SUFFICES ASSUME NEW p \in DOMAIN Implied(m, b, s)
             PROVE  \E r \in LegPrices(m, b, s) : ~Better(s, p, r)
  BY DEF NoBetter
<1> DEFINE x == LastPair(m, b, s, p)
<1>1. x \in Pairs(m, b, s) /\ PairPrice(m, b, s, x) = p
  BY ImpliedIs
<1> HIDE DEF x
<1> DEFINE k == matchd_price(b, s, x[1], x[2])
<1>2. k \in Int /\ \E r \in LegPrices(m, b, s) : r \in Int /\ ~Better(s, k, r)
  BY <1>1, PairNoBetter
<1>3. p = HeldBack(m, s, k)
  BY <1>1 DEF PairPrice
<1> HIDE DEF k
<1>4. PICK r \in LegPrices(m, b, s) : r \in Int /\ ~Better(s, k, r)
  BY <1>2
<1>5. p \in Int /\ ~Better(s, p, k)
  BY <1>2, <1>3, HeldBackWorse
<1>6. ~Better(s, p, r)
  BY <1>2, <1>4, <1>5 DEF Better
<1> QED BY <1>4, <1>6

(* There is one best price.                                                 *)
LEMMA BestIsOne ==
  ASSUME NEW s \in Sides, NEW l \in Levels, NEW p \in Best(s, l), NEW r \in Best(s, l)
  PROVE  p = r /\ p \in Int
<1>1. p \in DOMAIN l /\ r \in DOMAIN l /\ ~Better(s, p, r) /\ ~Better(s, r, p)
  BY DEF Best
<1>2. p \in Int /\ r \in Int
  BY <1>1, LevelsAre
<1> QED BY <1>1, <1>2, BetterOrders

(* A price that would meet a level holds all prices back before it.         *)
LEMMA HeldBackBefore ==
  ASSUME NEW m \in MdType, NEW s \in Sides, NEW k \in Int, NEW c \in Met(m, s, k), NEW p \in Int
  PROVE  /\ c \in Int /\ ~Better(s, c, k)
         /\ HeldBack(m, s, p) \in Int /\ Better(s, c, HeldBack(m, s, p))
<1> DEFINE o == Opposite(s)  l == m.out[o]
<1>1. o \in Sides /\ l \in Levels
  BY SidesAre DEF MdType
<1>2. \A y : Met(m, s, y) = {z \in Best(o, l) : ~Better(o, y, z)}
  BY DEF Met
<1>3. o = IF s = "bid" THEN "ask" ELSE "bid"
  BY DEF Opposite
<1> HIDE DEF o, l
<1>4. c \in Best(o, l) /\ c \in Int /\ ~Better(o, k, c)
  BY <1>1, <1>2, BestIsOne
<1>5. ~Better(s, c, k)
  <2>1. CASE s = "bid"
    BY <2>1, <1>3, <1>4 DEF Better
  <2>2. CASE s = "ask"
    BY <2>2, <1>3, <1>4 DEF Better
  <2> QED BY <2>1, <2>2 DEF Sides
<1>6. HeldBack(m, s, p) \in Int
  BY HeldBackWorse
<1>7. CASE Met(m, s, p) = {}
  <2>1. HeldBack(m, s, p) = p
    BY <1>7 DEF HeldBack
  <2>2. Better(o, p, c)
    BY <1>2, <1>4, <1>7
  <2>3. CASE s = "bid"
    BY <2>1, <2>2, <2>3, <1>3, <1>4 DEF Better
  <2>4. CASE s = "ask"
    BY <2>1, <2>2, <2>4, <1>3, <1>4 DEF Better
  <2> QED BY <1>4, <1>5, <1>6, <2>3, <2>4 DEF Sides
<1>8. CASE Met(m, s, p) # {}
  <2> DEFINE z == CHOOSE q \in Met(m, s, p) : TRUE
  <2>1. z \in Met(m, s, p)
    BY <1>8
  <2>2. HeldBack(m, s, p) = IF s = "bid" THEN z - Tick ELSE z + Tick
    BY <1>8 DEF HeldBack
  <2> HIDE DEF z
  <2>3. z = c
    BY <1>1, <1>2, <1>4, <2>1, BestIsOne
  <2>4. Tick \in Nat /\ Tick > 0
    BY MdImpliedAssumption
  <2>5. s = "bid" => Better(s, c, HeldBack(m, s, p))
    BY <1>4, <2>2, <2>3, <2>4 DEF Better
  <2>6. s = "ask" => Better(s, c, HeldBack(m, s, p))
    BY <1>4, <2>2, <2>3, <2>4 DEF Better
  <2> QED BY <1>4, <1>5, <1>6, <2>5, <2>6 DEF Sides
<1> QED BY <1>7, <1>8

(* handle_implied loses quantity only where prices were rounded or held     *)
(* back to one.                                                             *)
LEMMA ImpliedDeep ==
  ASSUME LegsFit, NEW m \in MdType, NEW b \in BookSet, NEW s \in Sides, Type[b][s] # << >>
  PROVE  Deep(m, b, s, Implied(m, b, s))
<1> DEFINE imp == Implied(m, b, s)  P == Pairs(m, b, s)
           price == [x \in P |-> matchd_price(b, s, x[1], x[2])]
<1>1. /\ Total(imp) \in Nat /\ Depth(m, b, s) \in Nat /\ Total(imp) <= Depth(m, b, s)
      /\ \/ Total(imp) = Depth(m, b, s)
         \/ \E x, y \in P : x # y /\ PairPrice(m, b, s, x) = PairPrice(m, b, s, y)
  BY ImpliedDepth, DepthIs
<1>2. \A x \in P : /\ price[x] \in Int
                   /\ \E r \in LegPrices(m, b, s) : r \in Int /\ ~Better(s, price[x], r)
  BY PairNoBetter
<1>3. \A x \in P : price[x] = matchd_price(b, s, x[1], x[2])
                   /\ PairPrice(m, b, s, x) = HeldBack(m, s, price[x])
  BY DEF PairPrice
<1>4. /\ imp \in Levels
      /\ \A x \in P : PairPrice(m, b, s, x) \in DOMAIN imp
      /\ \A p \in DOMAIN imp : \E x \in P : PairPrice(m, b, s, x) = p
  BY ImpliedIs
<1> HIDE DEF imp, P, price
<1>5. ASSUME Total(imp) # Depth(m, b, s), ~Rounded(m, b, s)
      PROVE  \E p \in Best(s, imp), r \in LegPrices(m, b, s) : Better(s, r, p)
  <2>1. PICK x \in P : \E y \in P : x # y /\ PairPrice(m, b, s, x) = PairPrice(m, b, s, y)
    BY <1>1, <1>5
  <2>2. PICK y \in P : x # y /\ PairPrice(m, b, s, x) = PairPrice(m, b, s, y)
    BY <2>1
  <2>3. price[x] # price[y]
    BY <1>3, <1>5, <2>2 DEF Rounded, P
  <2>4. HeldBack(m, s, price[x]) # price[x] \/ HeldBack(m, s, price[y]) # price[y]
    BY <1>3, <2>2, <2>3
  <2>5. PICK z \in P : HeldBack(m, s, price[z]) # price[z]
    BY <2>4
  <2>6. PICK c : c \in Met(m, s, price[z])
    BY <2>5 DEF HeldBack
  <2>7. PICK r \in LegPrices(m, b, s) : r \in Int /\ ~Better(s, price[z], r)
    BY <1>2
  <2>8. DOMAIN imp # {}
    BY <1>4, <2>1
  <2>9. PICK p \in Best(s, imp) : p \in Int
    BY <1>4, <2>8, BestExists
  <2>10. PICK w \in P : PairPrice(m, b, s, w) = p
    BY <1>4, <2>9 DEF Best
  <2>11. p = HeldBack(m, s, price[w]) /\ price[w] \in Int /\ price[z] \in Int
    BY <1>2, <1>3, <2>10
  <2>12. c \in Int /\ ~Better(s, c, price[z]) /\ Better(s, c, p)
    BY <2>6, <2>11, HeldBackBefore
  <2>13. Better(s, r, p)
    BY <2>7, <2>9, <2>11, <2>12 DEF Better
  <2> QED BY <2>7, <2>9, <2>13
<1> QED BY <1>1, <1>5 DEF Deep, imp

(* All this depends on the legs.                                            *)
LEMMA FairSame ==
  ASSUME NEW m, NEW n, NEW b, NEW s, NEW imp,
         Type[b][s] # << >> => \A i \in 1 .. 2 : Leg(n, b, s, i) = Leg(m, b, s, i),
         Fair(m, b, s, imp)
  PROVE  Fair(n, b, s, imp)
<1>1. LegPrices(n, b, s) = LegPrices(m, b, s)
  BY LegPricesSame
<1>2. NoBetter(n, b, s, imp)
  BY <1>1 DEF Fair, NoBetter
<1>3. ASSUME Type[b][s] # << >> PROVE Deep(n, b, s, imp)
  <2>1. /\ \A i \in 1 .. 2 : Leg(n, b, s, i) = Leg(m, b, s, i)
        /\ Leg(n, b, s, 1) = Leg(m, b, s, 1) /\ Leg(n, b, s, 2) = Leg(m, b, s, 2)
    BY <1>3
  <2>2. \A i \in 1 .. 2 : \A p : Ahead(n, b, s, i, p) = Ahead(m, b, s, i, p)
    BY <2>1 DEF Ahead
  <2>3. \A x : From(n, b, s, x) = From(m, b, s, x)
    BY <2>2 DEF From
  <2>4. \A x : Until(n, b, s, x) = Until(m, b, s, x)
    BY <2>1, <2>2 DEF Until
  <2>5. Pairs(n, b, s) = Pairs(m, b, s)
    BY <2>1, <2>3, <2>4 DEF Pairs
  <2>6. Depth(n, b, s) = Depth(m, b, s)
    BY <2>1 DEF Depth
  <2>7. Rounded(n, b, s) <=> Rounded(m, b, s)
    BY <2>5 DEF Rounded
  <2>8. Deep(m, b, s, imp)
    BY <1>3 DEF Fair
  <2> QED BY <1>1, <2>6, <2>7, <2>8 DEF Deep
<1> QED BY <1>2, <1>3 DEF Fair

(* Refresh computes its side and keeps the others.                          *)
LEMMA RefreshPriced ==
  ASSUME LegsFit, NEW m, NEW X, PricedBut(m, X), NEW b \in BookSet, NEW s \in Sides,
         Type[b][s] # << >>
  PROVE  PricedBut(Refresh(m, b, s), X \ {<<b, s>>})
<1> DEFINE n == Refresh(m, b, s)
<1>0. m \in MdType
  BY DEF PricedBut
<1>1. /\ n \in MdType /\ Kept(m, n, s, "implied") /\ n.imp[b][s] = Implied(m, b, s)
      /\ \A c \in BookSet, t \in Sides : <<c, t>> # <<b, s>> => n.imp[c][t] = m.imp[c][t]
  BY <1>0, RefreshKeeps
<1> HIDE DEF n
<1>2. n.leg = m.leg
  BY <1>1 DEF Kept
<1>3. \A c, t, i : Leg(n, c, t, i) = Leg(m, c, t, i)
  BY <1>2 DEF Leg
<1>4. Fair(n, b, s, n.imp[b][s])
  <2>1. Fair(m, b, s, Implied(m, b, s))
    BY <1>0, ImpliedNoBetter, ImpliedDeep DEF Fair
  <2> QED BY <1>1, <1>3, <2>1, FairSame
<1>5. ASSUME NEW c \in BookSet, NEW t \in Sides, <<c, t>> \notin X, <<c, t>> # <<b, s>>
      PROVE  Fair(n, c, t, n.imp[c][t])
  <2>1. Fair(m, c, t, m.imp[c][t])
    BY <1>5 DEF PricedBut
  <2>2. n.imp[c][t] = m.imp[c][t]
    BY <1>1, <1>5
  <2> QED BY <1>3, <2>1, <2>2, FairSame
<1>6. PricedBut(n, X \ {<<b, s>>})
  BY <1>1, <1>4, <1>5 DEF PricedBut
<1> QED BY <1>6 DEF n

(* So does handle_outright's loop.                                          *)
LEMMA RefreshAllPriced ==
  ASSUME LegsFit, NEW m, PricedBut(m, {}), NEW s \in Sides
  PROVE  PricedBut(RefreshAll(m, s), {})
<1> DEFINE G == [k \in 0 .. Len(Books) |-> {x \in MdType : PricedBut(x, {})}]
<1>1. Len(Books) \in Nat /\ \A k \in 1 .. Len(Books) : Books[k] \in BookSet
  BY MdImpliedAssumption
<1>2. \A k \in 0 .. Len(Books) : G[k] = {x \in MdType : PricedBut(x, {})}
  OBVIOUS
<1>3. m \in G[0]
  <2>1. m \in MdType /\ 0 \in 0 .. Len(Books)
    BY <1>1 DEF PricedBut
  <2> QED BY <1>2, <2>1
<1> HIDE DEF G
<1>4. ASSUME NEW k \in 1 .. Len(Books), NEW x \in G[k - 1] PROVE Lifted(x, Books[k], s) \in G[k]
  <2>1. k - 1 \in 0 .. Len(Books) /\ k \in 0 .. Len(Books) /\ Books[k] \in BookSet
    BY <1>1
  <2>2. PricedBut(x, {})
    BY <1>2, <2>1
  <2>3. PricedBut(Lifted(x, Books[k], s), {})
    <3>1. CASE Refreshes(Books[k], s)
      <4>1. Type[Books[k]][s] # << >>
        BY <3>1 DEF Refreshes
      <4>2. PricedBut(Refresh(x, Books[k], s), {} \ {<<Books[k], s>>})
        BY <2>1, <2>2, <4>1, RefreshPriced
      <4>3. {} \ {<<Books[k], s>>} = {}
        OBVIOUS
      <4> QED BY <3>1, <4>2, <4>3 DEF Lifted
    <3>2. CASE ~Refreshes(Books[k], s)
      BY <2>2, <3>2 DEF Lifted
    <3> QED BY <3>1, <3>2
  <2>4. Lifted(x, Books[k], s) \in MdType
    BY <2>3 DEF PricedBut
  <2> QED BY <1>2, <2>1, <2>3, <2>4
<1>5. RefreshAll(m, s) \in G[Len(Books)]
  BY <1>3, <1>4, RefreshAllReaches
<1>6. Len(Books) \in 0 .. Len(Books)
  BY <1>1
<1> QED BY <1>2, <1>5, <1>6

(* A new level of a leg concerns the sides that use it.                     *)
LEMMA LegPriced ==
  ASSUME NEW m, PricedBut(m, {}), NEW f \in LegFeeds, NEW s \in Sides, NEW l \in Levels
  PROVE  PricedBut([m EXCEPT !.leg[f][s] = l],
                   {<<f[1], t>> : t \in {u \in Sides : UsesLeg(f[1], u, LegOf(f), s)}})
<1> DEFINE n == [m EXCEPT !.leg[f][s] = l]
           X == {<<f[1], t>> : t \in {u \in Sides : UsesLeg(f[1], u, LegOf(f), s)}}
<1>0. m \in MdType
  BY DEF PricedBut
<1>1. n \in MdType /\ n.imp = m.imp
  BY <1>0, LegChanges
<1>2. \A b \in BookSet, t \in Sides :
        Type[b][t] # << >> /\ ~(b = f[1] /\ UsesLeg(b, t, LegOf(f), s)) =>
          \A i \in 1 .. 2 : Leg(n, b, t, i) = Leg(m, b, t, i)
  BY <1>0, OtherLegs
<1> HIDE DEF n
<1>3. ASSUME NEW b \in BookSet, NEW t \in Sides, <<b, t>> \notin X
      PROVE  Fair(n, b, t, n.imp[b][t])
  <2>1. ~(b = f[1] /\ UsesLeg(b, t, LegOf(f), s))
    BY <1>3
  <2>2. Type[b][t] # << >> => \A i \in 1 .. 2 : Leg(n, b, t, i) = Leg(m, b, t, i)
    BY <1>2, <2>1
  <2>3. Fair(m, b, t, m.imp[b][t])
    BY <1>3 DEF PricedBut
  <2>4. n.imp[b][t] = m.imp[b][t]
    BY <1>1
  <2> QED BY <2>2, <2>3, <2>4, FairSame
<1> HIDE DEF X
<1>4. PricedBut(n, X)
  BY <1>1, <1>3 DEF PricedBut
<1> QED BY <1>4 DEF n, X

(* Handle keeps the prices of the implied sides no better.                  *)
LEMMA HandlePriced ==
  ASSUME LegsFit, PricedBut(md, {}), NEW ord, ord.feed \in Feeds, ord.side \in Sides,
         ord.price \in Int, ord.feed = Out => ord.kind \in Kinds, NEW old \in Nat, NEW q \in Nat,
         Handle(ord, old, q)
  PROVE  PricedBut(md', {})
<1>0. md \in MdType
  BY DEF PricedBut
<1>1. CASE ord.feed = Out
  <2> DEFINE s == ord.side
             m == OutIn(md, s, ord.price, old, q, ord.kind)
  <2>1. /\ ord.kind \in Ways /\ One(ord.price, old) \in Levels /\ One(ord.price, q) \in Levels
    BY <1>0, <1>1, OutInType
  <2>2. m \in MdType /\ m.imp = md.imp /\ Kept(md, m, s, ord.kind)
    BY <1>0, <2>1, MoveKeeps DEF OutIn
  <2>3. md' = m \/ md' = RefreshAll(m, Opposite(s))
    BY <1>1 DEF Handle, HandleOutright, OutIn
  <2> HIDE DEF m
  <2>4. m.leg = md.leg
    BY <2>2 DEF Kept
  <2>5. \A c, t, i : Leg(m, c, t, i) = Leg(md, c, t, i)
    BY <2>4 DEF Leg
  <2>6. PricedBut(m, {})
    <3>1. ASSUME NEW c \in BookSet, NEW t \in Sides PROVE Fair(m, c, t, m.imp[c][t])
      <4>1. Fair(md, c, t, md.imp[c][t]) /\ m.imp[c][t] = md.imp[c][t]
        BY <2>2 DEF PricedBut
      <4> QED BY <2>5, <4>1, FairSame
    <3> QED BY <2>2, <3>1 DEF PricedBut
  <2>7. PricedBut(RefreshAll(m, Opposite(s)), {})
    BY <2>6, SidesAre, RefreshAllPriced
  <2> QED BY <2>3, <2>6, <2>7
<1>2. CASE ord.feed # Out
  <2> DEFINE f == ord.feed  s == ord.side
             U == {t \in Sides : UsesLeg(f[1], t, LegOf(f), s)}
             X == {<<f[1], t>> : t \in U}
             m == LegIn(md, f, s, ord.price, old, q)
             n == Again(m, f, s, "bid")
  <2>1. f \in LegFeeds /\ f[1] \in BookSet
    BY <1>2, FeedsAre, OtherLegs DEF LegFeeds
  <2>2. md' = Again(n, f, s, "ask")
    BY <1>2, HandleLegIs DEF Handle
  <2>3. "bid" \in Sides /\ "ask" \in Sides /\ \A t \in Sides : t = "bid" \/ t = "ask"
    BY DEF Sides
  <2>4. PricedBut(m, X)
    <3>1. Moved(md.leg[f][s], One(ord.price, old), One(ord.price, q)) \in Levels
      BY <1>0, <2>1, LegInType
    <3> QED BY <2>1, <3>1, LegPriced DEF LegIn
  <2> HIDE DEF m
  <2>5. ASSUME NEW x, NEW Y, PricedBut(x, Y), NEW t \in Sides, t \notin U => <<f[1], t>> \notin Y
        PROVE  PricedBut(Again(x, f, s, t), Y \ {<<f[1], t>>})
    <3>1. CASE t \in U
      <4>1. Type[f[1]][t] # << >>
        BY <3>1 DEF UsesLeg
      <4>2. PricedBut(Refresh(x, f[1], t), Y \ {<<f[1], t>>})
        BY <2>1, <2>5, <4>1, RefreshPriced
      <4> QED BY <3>1, <4>2 DEF Again
    <3>2. CASE t \notin U
      <4>1. Y \ {<<f[1], t>>} = Y
        BY <2>5, <3>2
      <4>2. Again(x, f, s, t) = x
        BY <3>2, <2>5 DEF Again
      <4> QED BY <4>1, <4>2, <2>5
    <3> QED BY <3>1, <3>2
  <2>6. \A t \in Sides : t \notin U => <<f[1], t>> \notin X /\ <<f[1], t>> \notin X \ {<<f[1], "bid">>}
    OBVIOUS
  <2>7. (X \ {<<f[1], "bid">>}) \ {<<f[1], "ask">>} = {}
    BY <2>3
  <2> HIDE DEF U, X
  <2>8. PricedBut(n, X \ {<<f[1], "bid">>})
    BY <2>3, <2>4, <2>5, <2>6
  <2> HIDE DEF n
  <2>9. PricedBut(Again(n, f, s, "ask"), (X \ {<<f[1], "bid">>}) \ {<<f[1], "ask">>})
    BY <2>3, <2>5, <2>6, <2>8
  <2> QED BY <2>2, <2>7, <2>9
<1> QED BY <1>1, <1>2

PricedInv == TypeInv /\ PricedBut(md, {})

(* It holds at first: nothing is implied.                                   *)
LEMMA PricedInit == Init => PricedInv
<1> SUFFICES ASSUME Init PROVE PricedInv
  OBVIOUS
<1>1. TypeInv /\ md \in MdType
  BY InitIs DEF TypeInv
<1>2. /\ \A b \in BookSet, s \in Sides : md.imp[b][s] = NoLevels
      /\ \A f \in LegFeeds, s \in Sides : md.leg[f][s] = NoLevels
  BY InitIs
<1>3. ASSUME NEW b \in BookSet, NEW s \in Sides PROVE Fair(md, b, s, md.imp[b][s])
  <2>1. NoBetter(md, b, s, md.imp[b][s])
    BY <1>2 DEF NoBetter, NoLevels
  <2>2. ASSUME Type[b][s] # << >> PROVE Deep(md, b, s, md.imp[b][s])
    <3>1. Total(NoLevels) = 0
      <4>1. DOMAIN NoLevels = {}
        BY DEF NoLevels
      <4> QED BY <4>1, SumEmpty DEF Total
    <3>2. \A i \in 1 .. 2 : Leg(md, b, s, i) = NoLevels
      <4>1. <<b, "a">> \in LegFeeds /\ <<b, "b">> \in LegFeeds
        BY DEF LegFeeds
      <4>2. \A i \in 1 .. 2 : Type[b][s][i] \in Sides
        BY <1>1, <2>2, LegsAre
      <4>3. ASSUME NEW i \in 1 .. 2 PROVE Leg(md, b, s, i) = NoLevels
        <5>1. (IF i = 1 THEN <<b, "a">> ELSE <<b, "b">>) \in LegFeeds
          BY <4>1
        <5>2. Leg(md, b, s, i) = md.leg[IF i = 1 THEN <<b, "a">> ELSE <<b, "b">>][Type[b][s][i]]
          BY DEF Leg
        <5> QED BY <1>2, <4>2, <5>1, <5>2
      <4> QED BY <4>3
    <3>3. Depth(md, b, s) = 0
      <4>1. \E i \in 1 .. 2 : Depth(md, b, s) = Total(Leg(md, b, s, i))
        BY <1>1, <2>2, DepthIs
      <4> QED BY <3>1, <3>2, <4>1
    <3> QED BY <1>2, <3>1, <3>3 DEF Deep
  <2> QED BY <2>1, <2>2 DEF Fair
<1>4. PricedBut(md, {})
  BY <1>1, <1>3 DEF PricedBut
<1> QED BY <1>1, <1>4 DEF PricedInv

(* Every step keeps it.                                                     *)
LEMMA PricedStep ==
  ASSUME LegsFit, PricedInv, [Next]_vars
  PROVE  PricedInv'
<1>0. TypeInv' /\ TypeInv /\ PricedBut(md, {}) /\ md \in MdType
  BY TypeStep DEF PricedInv, TypeInv
<1>1. CASE UNCHANGED vars
  <2>1. PricedBut(md', {})
    BY <1>0, <1>1 DEF vars
  <2> QED BY <1>0, <2>1 DEF PricedInv
<1>2. CASE Subscribe
  <2>1. md' \in MdType /\ md'.leg = md.leg /\ md'.imp = md.imp
    BY <1>0, <1>2, SubscribeIs
  <2> DEFINE n == md'
  <2>2. \A c, t, i : Leg(n, c, t, i) = Leg(md, c, t, i)
    BY <2>1 DEF Leg
  <2>3. PricedBut(n, {})
    <3>1. ASSUME NEW c \in BookSet, NEW t \in Sides PROVE Fair(n, c, t, n.imp[c][t])
      <4>1. Fair(md, c, t, md.imp[c][t]) /\ n.imp[c][t] = md.imp[c][t]
        BY <1>0, <2>1 DEF PricedBut
      <4> HIDE DEF n
      <4> QED BY <2>2, <4>1, FairSame
    <3> QED BY <2>1, <3>1 DEF PricedBut
  <2> QED BY <1>0, <2>3 DEF PricedInv
<1>3. ASSUME NEW i \in Ids, NEW old \in Nat, NEW q \in Nat, NEW ord, Becomes(i, ord, old, q)
      PROVE  PricedInv'
  <2>1. /\ ord.feed \in Feeds /\ ord.side \in Sides /\ ord.price \in Int
        /\ ord.feed = Out => ord.kind \in Kinds
        /\ Handle(ord, old, q)
    BY <1>3 DEF Becomes
  <2>2. PricedBut(md', {})
    BY <1>0, <2>1, HandlePriced
  <2> QED BY <1>0, <2>2 DEF PricedInv
<1>4. CASE Next
  <2>1. orders \in [Ids -> OrderType \cup {NoOrder}]
    BY <1>0 DEF TypeInv
  <2> QED BY <2>1, <1>2, <1>3, <1>4, StepIs
<1> QED BY <1>1, <1>4

(* A level of outright is some order's or some book's.                      *)
LEMMA LevelHasSource ==
  ASSUME NEW most, Fits(most), AddInv(most), NEW s \in Sides, NEW p \in DOMAIN md.out[s]
  PROVE  \/ \E i \in Ids : orders[i] # NoOrder /\ orders[i].feed = Out
                           /\ orders[i].side = s /\ orders[i].price = p
         \/ \E b \in BookSet : p \in DOMAIN md.imp[b][s]
<1>0. /\ OrdersFit(orders) /\ AddsUp(md, Numbered(orders), most) /\ md \in MdType
  BY DEF AddInv, TypeInv
<1>1. md.out[s] \in Levels /\ \A b \in BookSet : md.imp[b][s] \in Levels
  BY <1>0 DEF MdType
<1>2. p \in Int /\ At(md.out[s], p) > 0
  BY <1>1, LevelsAre
<1>3. Out \in Feeds
  BY DEF Feeds
<1> DEFINE g == Placed(orders, Out, s, p)  h == [b \in BookSet |-> At(md.imp[b][s], p)]
<1>4. At(md.out[s], p) = SumOver(g, Ids) + SumOver(h, BookSet)
  <2>1. At(md.out[s], p) = Numbered(orders)[Out][s][p] + OutSum(md, s, p)
    BY <1>0, <1>2 DEF AddsUp
  <2>2. Numbered(orders)[Out][s][p] = SumOver(g, Ids)
    BY <1>0, <1>2, <1>3, NumberedIs
  <2> QED BY <2>1, <2>2 DEF OutSum
<1>5. IsFiniteSet(Ids) /\ Counted(g, Ids)
  BY <1>0, PlacedIs, MdImpliedAssumption
<1>6. IsFiniteSet(BookSet) /\ Counted(h, BookSet)
  BY <1>1, BooksFinite, LevelsAre DEF Counted
<1>7. CASE \E i \in Ids : g[i] # 0
  <2>1. PICK i \in Ids : g[i] # 0
    BY <1>7
  <2>2. orders[i] # NoOrder /\ orders[i].feed = Out /\ orders[i].side = s /\ orders[i].price = p
    BY <2>1 DEF Placed
  <2> QED BY <2>2
<1>8. CASE \E b \in BookSet : h[b] # 0
  <2>1. PICK b \in BookSet : h[b] # 0
    BY <1>8
  <2>2. p \in DOMAIN md.imp[b][s]
    BY <2>1 DEF At
  <2> QED BY <2>2
<1>9. CASE (\A i \in Ids : g[i] = 0) /\ (\A b \in BookSet : h[b] = 0)
  <2> HIDE DEF g, h
  <2>1. Cardinality(Ids) \in Nat /\ Cardinality(BookSet) \in Nat
    BY <1>5, <1>6, FS_CardinalityType
  <2>2. 0 * Cardinality(Ids) = 0 /\ 0 * Cardinality(BookSet) = 0
    BY <2>1
  <2>3. SumOver(g, Ids) \in Nat /\ SumOver(g, Ids) <= 0 * Cardinality(Ids)
    BY <1>5, <1>9, SumNat, SumBound
  <2>4. SumOver(h, BookSet) \in Nat /\ SumOver(h, BookSet) <= 0 * Cardinality(BookSet)
    BY <1>6, <1>9, SumNat, SumBound
  <2> QED BY <1>2, <1>4, <2>2, <2>3, <2>4
<1> QED BY <1>7, <1>8, <1>9

\* The prices of side s that the service has received.
ReceivedOn(s) ==
  (UNION {LegPrices(md, b, s) : b \in BookSet})
    \cup {orders[i].price : i \in {j \in Ids : orders[j] # NoOrder /\ orders[j].feed = Out
                                                 /\ orders[j].side = s}}

(* So no level of outright is better than all that was received.            *)
LEMMA LevelReceived ==
  ASSUME NEW most, Fits(most), AddInv(most), PricedInv, NEW s \in Sides, NEW p \in DOMAIN md.out[s]
  PROVE  \E r \in ReceivedOn(s) : r \in Int /\ ~Better(s, p, r)
<1>0. md \in MdType /\ orders \in [Ids -> OrderType \cup {NoOrder}] /\ PricedBut(md, {})
  BY DEF PricedInv, TypeInv
<1>1. p \in Int
  BY <1>0, LevelsAre DEF MdType
<1>2. ASSUME NEW i \in Ids, orders[i] # NoOrder, orders[i].feed = Out, orders[i].side = s,
             orders[i].price = p
      PROVE  \E r \in ReceivedOn(s) : r \in Int /\ ~Better(s, p, r)
  <2>1. p \in ReceivedOn(s)
    BY <1>2 DEF ReceivedOn
  <2>2. ~Better(s, p, p)
    BY <1>1 DEF Better
  <2> QED BY <1>1, <2>1, <2>2
<1>3. ASSUME NEW b \in BookSet, p \in DOMAIN md.imp[b][s]
      PROVE  \E r \in ReceivedOn(s) : r \in Int /\ ~Better(s, p, r)
  <2>1. NoBetter(md, b, s, md.imp[b][s])
    BY <1>0 DEF PricedBut, Fair
  <2>2. PICK r \in LegPrices(md, b, s) : ~Better(s, p, r)
    BY <1>3, <2>1 DEF NoBetter
  <2>3. r \in Int
    BY <1>0, LegPricesAre
  <2>4. r \in ReceivedOn(s)
    BY <2>2 DEF ReceivedOn
  <2> QED BY <2>2, <2>3, <2>4
<1> QED BY <1>2, <1>3, LevelHasSource

(* The service shows a crossed book only while what it has received is      *)
(* crossed by itself (md_implied_book::handle_implied and md_book): no      *)
(* implied level is better than its legs, and no level is without an order  *)
(* or a pair of legs.  For any books, orders, prices and ticks, as long as  *)
(* the impliers take the legs that suit them.                               *)
THEOREM CrossedInFlight == ASSUME QuantitiesFit, LegsFit PROVE Spec => []CrossedOnlyInFlight
<1>1. PICK most : Fits(most)
  BY FitsExists
<1>2. Init => AddInv(most) /\ PricedInv
  BY <1>1, AddInit, PricedInit
<1>3. AddInv(most) /\ PricedInv /\ [Next]_vars => AddInv(most)' /\ PricedInv'
  BY <1>1, AddStep, PricedStep
<1>4. AddInv(most) /\ PricedInv => CrossedOnlyInFlight
  <2> SUFFICES ASSUME AddInv(most), PricedInv,
                      NEW p \in DOMAIN md.out["bid"], NEW r \in DOMAIN md.out["ask"], p >= r
               PROVE  \E x \in ReceivedOn("bid"), y \in ReceivedOn("ask") : x >= y
    BY DEF CrossedOnlyInFlight, ReceivedOn
  <2>1. "bid" \in Sides /\ "ask" \in Sides /\ md \in MdType
    BY DEF Sides, PricedInv, TypeInv
  <2>2. p \in Int /\ r \in Int
    BY <2>1, LevelsAre DEF MdType
  <2>3. PICK x \in ReceivedOn("bid") : x \in Int /\ ~Better("bid", p, x)
    BY <1>1, <2>1, LevelReceived
  <2>4. PICK y \in ReceivedOn("ask") : y \in Int /\ ~Better("ask", r, y)
    BY <1>1, <2>1, LevelReceived
  <2>5. p <= x /\ y <= r
    BY <2>2, <2>3, <2>4 DEF Better
  <2>6. x >= y
    BY <2>2, <2>3, <2>4, <2>5
  <2> QED BY <2>6
<1> QED BY <1>2, <1>3, <1>4, PTL DEF Spec

(* An implied side shows the quantity that both legs can deliver            *)
(* (md_implied_book::handle_implied and the updates that lead to it), and   *)
(* less only where prices were rounded to one or the side is held back.     *)
(* For any books, orders, prices and ticks, as long as the impliers take    *)
(* the legs that suit them.                                                 *)
THEOREM DepthIsOfLegs == ASSUME LegsFit PROVE Spec => []DepthOfLegs
<1>1. Init => PricedInv
  BY PricedInit
<1>2. PricedInv /\ [Next]_vars => PricedInv'
  BY PricedStep
<1>3. PricedInv => DepthOfLegs
  <2> SUFFICES ASSUME PricedInv, NEW b \in BookSet, NEW s \in Sides, Type[b][s] # << >>
               PROVE  \/ Total(md.imp[b][s]) = Depth(md, b, s)
                      \/ /\ Total(md.imp[b][s]) < Depth(md, b, s)
                         /\ \/ RoundedToOne(b, s)
                            \/ \E p \in Best(s, md.imp[b][s]), r \in LegPrices(md, b, s) :
                                 Better(s, r, p)
    BY DEF DepthOfLegs, Depth
  <2>1. Deep(md, b, s, md.imp[b][s])
    BY DEF PricedInv, PricedBut, Fair
  <2>2. Rounded(md, b, s) <=> RoundedToOne(b, s)
    BY DEF Rounded, RoundedToOne
  <2> QED BY <2>1, <2>2 DEF Deep
<1> QED BY <1>1, <1>2, <1>3, PTL DEF Spec

=============================================================================
