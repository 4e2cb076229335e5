--------------------------- MODULE EngineRecovery ---------------------------
(***************************************************************************)
(* The DUMP and INSERT actions of engine::handle, and the restart they are *)
(* for: a client saves the orders that DUMP reports, the process stops at   *)
(* any point, and the orders are given to the next process one by one.  The *)
(* engine serves its other clients meanwhile.                               *)
(*                                                                          *)
(* INSERT files an order without matching it.  The id counter starts from   *)
(* the clock (matching/src/engine.cpp), so a new process hands out ids that *)
(* are above those of the old one: nextId is kept across a restart.         *)
(***************************************************************************)
EXTENDS Engine

VARIABLES
  saved,    \* The orders of the last DUMP, as the client that asked keeps them.
  snap,     \* History: the books when that DUMP ran.
  pending,  \* Saved orders that the new process has not been given yet.
  restored, \* History: ids of the orders inserted into this process.
  early,    \* History: this process got a request other than an INSERT or a DUMP
            \*   before the last INSERT.
  fresh     \* History: the last thing this process did was the last INSERT.

recoveryVars == <<saved, snap, pending, restored, early, fresh>>
allVars == <<vars, recoveryVars>>

RecoveryInit ==
  /\ Init
  /\ saved = {}
  /\ snap = [book |-> book, stopBook |-> stopBook]
  /\ pending = {}
  /\ restored = {}
  /\ early = FALSE
  /\ fresh = FALSE

\* Every order of _odr_map, marked INSERT_NEW or INSERT_AMEND, and DUMP_END: the
\* mark is undone by INSERT, so that only the order itself has to be kept.
Dump ==
  /\ pc = "idle" /\ ~mutex
  /\ saved' = {odrMap[i] : i \in DOMAIN odrMap}
  /\ snap' = [book |-> book, stopBook |-> stopBook]
  /\ pending' = {}
  /\ fresh' = FALSE
  /\ UNCHANGED <<vars, restored, early>>

\* The process dies, also in the middle of a call, and a new one starts empty.
Restart ==
  /\ odrMap' = [i \in {} |-> DefaultOrder]
  /\ book' = [s \in Sides |-> {}]
  /\ stopBook' = [s \in Sides |-> {}]
  /\ isAuction' = FALSE /\ mutex' = FALSE /\ cbRecords' = <<>> /\ emitted' = <<>>
  /\ corrupt' = FALSE /\ pc' = "idle" /\ NoCall
  /\ pending' = saved
  /\ restored' = {}
  /\ early' = FALSE
  /\ fresh' = FALSE
  /\ UNCHANGED <<nextId, saved, snap>>

\* A stop goes to a book when its price is its limit price, and is parked
\* otherwise; a two-sided one is always parked.
ParkedByInsert(ord) ==
  CASE ord.side \in Sides -> FALSE
    [] ord.side = "BUY_STOP" -> ord.price # ord.buy_stop_limit_price
    [] ord.side = "SELL_STOP" -> ord.price # ord.sell_stop_limit_price
    [] ord.side = "BUY_SELL_STOP" -> TRUE

\* Only a one-sided stop gets the price of a parked one.
AsInserted(ord) ==
  IF ParkedByInsert(ord) /\ ord.side # "BUY_SELL_STOP"
  THEN [ord EXCEPT !.price = STOP_PRICE] ELSE ord

\* Mistake: a resting order is filed on the other side.
BookWithSwapped(ord) ==
  IF ParkedByInsert(ord) THEN book
  ELSE [book EXCEPT ![Opposite(RestingSide(ord))] = @ \cup {<<ord.price, ord.order_id>>}]

BookWith(ord) ==
  IF ParkedByInsert(ord) THEN book
  ELSE [book EXCEPT ![RestingSide(ord)] = @ \cup {<<ord.price, ord.order_id>>}]

\* A mistake: a two-sided stop is filed with the buy stops only.
StopBookWithBuy(ord) ==
  IF ~ParkedByInsert(ord) THEN stopBook
  ELSE [stopBook EXCEPT !["BUY"] = @ \cup {StopEntry("BUY", ord)}]

\* A SELL_STOP is filed in _bid_stop_book under its buy trigger, like a BUY_STOP.
StopBookWith(ord) ==
  CASE ~ParkedByInsert(ord) -> stopBook
    [] ParkedByInsert(ord) /\ ord.side # "BUY_SELL_STOP" ->
         [stopBook EXCEPT !["BUY"] = @ \cup {StopEntry("BUY", ord)}]
    [] ParkedByInsert(ord) /\ ord.side = "BUY_SELL_STOP" ->
         [s \in Sides |-> stopBook[s] \cup {StopEntry(s, ord)}]

\* One INSERT: emplace in _odr_map, an entry in the books, the callback.
Insert(ord) ==
  /\ pc = "idle" /\ ~mutex
  /\ pending' = pending \ {ord}
  /\ odrMap' = IF ord.order_id \in DOMAIN odrMap THEN odrMap
               ELSE Put(odrMap, ord.order_id, AsInserted(ord))
  /\ book' = BookWith(ord)
  /\ stopBook' = StopBookWith(ord)
  /\ emitted' = <<AsInserted(ord)>>
  /\ restored' = restored \cup {ord.order_id}
  /\ fresh' = (pending' = {} /\ ~early)
  /\ UNCHANGED <<nextId, lockVars, cbRecords, corrupt, callVars, saved, snap, early>>

\* The engine at work; a request that comes before the last INSERT is early.
Noted ==
  /\ early' = (early \/ (pending # {} /\ pc = "idle"))
  /\ fresh' = FALSE
  /\ UNCHANGED <<saved, snap, pending, restored>>
Work == Next /\ Noted

RecoveryNext ==
  \/ ~corrupt /\ Dump
  \/ ~corrupt /\ \E ord \in pending : Insert(ord)
  \/ Restart
  \/ Work

RecoverySpec == RecoveryInit /\ [][RecoveryNext]_allVars

-----------------------------------------------------------------------------
(* Properties.                                                             *)

\* A stop that was triggered and ended: handle_new and the stop triggers leave
\* it in _odr_map, so DUMP saves it.
Ended(ord) == ord.remain_quantity = 0 \/ ord.order_state \in DoneStates

\* The saved orders that INSERT cannot put back where they were: stops that have
\* ended, parked SELL_STOPs, two-sided stops that have fired, and stops that rest
\* at another price than their limit.
Misfiled(ord) ==
  \/ ord.side \in StopSides /\ Ended(ord)
  \/ ord.side = "SELL_STOP" /\ ord.price # ord.sell_stop_limit_price
  \/ ord.side = "BUY_STOP" /\ ord.price \notin {STOP_PRICE, ord.buy_stop_limit_price}
  \/ ord.side = "BUY_SELL_STOP" /\ ord.price # STOP_PRICE

EntriesOf(b, s, id) == {e \in b[s] : e[2] = id}

\* After the last INSERT of a restart that no other request disturbed, every
\* saved order is known again, and all but the misfiled ones have their contents
\* and are in the very places, in the books and the stop books, where DUMP found
\* them (handle, the DUMP and INSERT branches).
RestoredAsSaved ==
  fresh =>
    /\ DOMAIN odrMap = {ord.order_id : ord \in saved}
    /\ \A ord \in saved :
         ~Misfiled(ord) =>
           /\ odrMap[ord.order_id] = ord
           /\ \A s \in Sides :
                /\ EntriesOf(book, s, ord.order_id) = EntriesOf(snap.book, s, ord.order_id)
                /\ EntriesOf(stopBook, s, ord.order_id)
                     = EntriesOf(snap.stopBook, s, ord.order_id)

\* The books were crossed already when they were saved.
SavedCrossed == \E b \in snap.book["BUY"], a \in snap.book["SELL"] : b[1] >= a[1]

\* INSERT does not match.  The books are crossed after a restart only by an order
\* that was saved before it, and then only because the engine took other requests
\* before the last INSERT, because the saved order is a stop that had ended, or
\* because the books that were saved were crossed by an earlier restart.
CrossedOnlyByRestore ==
  ~corrupt => \A b \in book["BUY"], a \in book["SELL"] :
    \/ PriceOf(b) < PriceOf(a)
    \/ \E e \in {a, b} :
         /\ e[2] \in restored
         /\ early \/ Ended(odrMap[e[2]]) \/ SavedCrossed

\* The waiting order i is in the stop books of all its sides, or has just been
\* taken out to be matched or because it was canceled.
InItsStopBooks(i) ==
  \/ \A s \in ParkedSides(odrMap[i]) : StopEntry(s, odrMap[i]) \in stopBook[s] \cup due
  \/ pc = "erase" /\ i = o.order_id

\* A waiting stop is in the stop books of all its sides, also after restarts and
\* with two-sided stops, and an order trades on its own side.  The only exception
\* is a SELL_STOP that was waiting when it was saved: INSERT files it with the
\* buy stops.
OnlySellStopsStray ==
  ~corrupt =>
    /\ \A i \in DOMAIN odrMap : IsParked(odrMap[i]) =>
         InItsStopBooks(i) \/ (odrMap[i].side = "SELL_STOP" /\ i \in restored)
    /\ pc \in {"match", "fok"} =>
         \/ mside \in (IF Taker.side \in Sides THEN {Taker.side} ELSE ParkedSides(Taker))
         \/ Taker.side = "SELL_STOP" /\ Taker.order_id \in restored

\* The orders a step takes out, or is about to look up in the books: the one a
\* cancel names, or the makers and the triggered stop of a match.
Removed ==
  IF pc \in {"cancel", "erase"} THEN {o.order_id}
  ELSE {i \in DOMAIN odrMap : i \notin DOMAIN odrMap' \/ i = taker}

\* A two-sided stop that has fired still has its entry in the other stop book, or
\* was triggered through that entry a second time and meets itself in a book.
FiredTwice(i) ==
  /\ odrMap[i].side = "BUY_SELL_STOP" /\ odrMap[i].price # STOP_PRICE
  /\ \/ \E s \in Sides : StopEntry(s, odrMap[i]) \in stopBook[s] \cup due
     \/ i = taker /\ \E e \in OppBook : e[2] = i

\* Undefined behaviour is reached only when a stop is removed that had ended, or
\* that INSERT filed where handle_cancel and the matcher do not look for it; when
\* a two-sided stop is canceled after it has fired, which handle_cancel looks up
\* on the side its price suggests; or, in a match, while a two-sided stop that
\* has fired is still in a stop book.
CorruptOnlyByStop ==
  [][corrupt' /\ ~corrupt =>
       \/ \E i \in Removed :
            /\ odrMap[i].side \in StopSides
            /\ i \in restored \/ (pc = "cancel" /\ Ended(odrMap[i]))
       \/ /\ pc = "cancel"
          /\ odrMap[o.order_id].side = "BUY_SELL_STOP"
          /\ odrMap[o.order_id].price # STOP_PRICE
       \/ pc # "cancel" /\ \E i \in DOMAIN odrMap : FiredTwice(i)]_allVars

\* Hypothesis of the theorems: no client sends a stop.  INSERT files waiting sell
\* stops and stops that have ended where the engine's invariant does not hold.
NoStops == \A r \in NewRequests \cup AmendRequests : r.side \in Sides
=============================================================================
