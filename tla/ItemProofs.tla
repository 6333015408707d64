----------------------------- MODULE ItemProofs -----------------------------
(***************************************************************************)
(* Theorems about the dump: elements on their way from an answer to the    *)
(* storage, the dump as an implementation of Crawl, what is done when all  *)
(* goroutines are idle, and the counter behind the limit.                  *)
(***************************************************************************)
EXTENDS PlaceProofs, FiniteSetTheorems

-----------------------------------------------------------------------------
(* Who holds an element. *)

Place == [h \in ItemHolders |-> HeldItems(h)]

Ready(w) == IF razd[w].pc \in {"prepare", "out"} THEN {razd[w].item} ELSE {}
Saved == {n \in Nodes : hist.rows[n] = 1}

PlaceIs ==
    /\ \A w \in Workers : /\ Place[<<"todo", w>>] = razd[w].todo
                          /\ Place[<<"item", w>>] = Ready(w)
    /\ Place[<<"out", 0>>] = Range(outCh)
    /\ Place[<<"saved", 0>>] = Saved
    /\ Place[<<"lost", 0>>] = hist.lostItems

\* The names of the places an element can be in.
LEMMA AreItemHolders ==
    /\ \A w \in Workers : <<"todo", w>> \in ItemHolders /\ <<"item", w>> \in ItemHolders
    /\ <<"out", 0>> \in ItemHolders /\ <<"saved", 0>> \in ItemHolders
    /\ <<"lost", 0>> \in ItemHolders
  BY DEF ItemHolders

\* What each place has in the current state, and
LEMMA ItemPlaces == PlaceIs
<1>1. \A h \in ItemHolders : Place[h] = HeldItems(h)
  BY DEF Place
<1> QED
  BY <1>1, AreItemHolders DEF PlaceIs, HeldItems, Ready, Saved

\* in the next one.
LEMMA ItemPlacesNext == PlaceIs'
  BY ItemPlaces, PTL

\* The two distributions differ in holders of A only.
SamePlaces(H, G, A) ==
    /\ \A w \in Workers :
          /\ <<"todo", w>> \in A \/ G[<<"todo", w>>] = H[<<"todo", w>>]
          /\ <<"item", w>> \in A \/ G[<<"item", w>>] = H[<<"item", w>>]
    /\ <<"out", 0>> \in A \/ G[<<"out", 0>>] = H[<<"out", 0>>]
    /\ <<"saved", 0>> \in A \/ G[<<"saved", 0>>] = H[<<"saved", 0>>]
    /\ <<"lost", 0>> \in A \/ G[<<"lost", 0>>] = H[<<"lost", 0>>]

\* SamePlaces for every holder at once.
LEMMA OtherItemHolders ==
    ASSUME NEW H, NEW G, NEW A, SamePlaces(H, G, A)
    PROVE  \A h \in ItemHolders \ A : G[h] = H[h]
<1> SUFFICES ASSUME NEW h \in ItemHolders \ A PROVE G[h] = H[h]
  OBVIOUS
<1>1. CASE \E w \in Workers : h \in {<<"todo", w>>, <<"item", w>>}
  BY <1>1 DEF SamePlaces
<1>2. CASE h \in {<<"out", 0>>, <<"saved", 0>>, <<"lost", 0>>}
  BY <1>2 DEF SamePlaces
<1> QED
  BY <1>1, <1>2 DEF ItemHolders

-----------------------------------------------------------------------------
(* Elements. *)

ItemsInv == TasksInv /\ ItemInOnePlace

\* The invariant in terms of tokens, and
LEMMA ItemInOnePlaceIs ==
    ItemInOnePlace <=>
        /\ Placed(ItemHolders, Place, Listed(hist.answered))
        /\ IsInjective(outCh)
        /\ \A n \in Nodes : hist.rows[n] <= 1
<1>1. \A h \in ItemHolders : Place[h] = HeldItems(h)
  BY DEF Place
<1>2. UNION {Place[h] : h \in ItemHolders} = UNION {HeldItems(h) : h \in ItemHolders}
  BY <1>1
<1> QED
  BY <1>1, <1>2 DEF ItemInOnePlace, Placed

\* the part needed of the next state.
LEMMA ItemInOnePlaceNext ==
    (   /\ Placed(ItemHolders, Place, Listed(hist.answered))
        /\ IsInjective(outCh)
        /\ \A n \in Nodes : hist.rows[n] <= 1)' => ItemInOnePlace'
  BY ItemInOnePlaceIs, PTL

\* At the start no element has been listed and none is anywhere.
LEMMA ItemsInit == Init => ItemInOnePlace
<1> SUFFICES ASSUME Init PROVE ItemInOnePlace
  OBVIOUS
<1> USE ConstantTypes
<1>1. \A w \in Workers : razd[w].todo = {} /\ Ready(w) = {}
  BY DEF Init, Free, AtStart, Ready
<1>2. outCh = <<>> /\ Range(<<>>) = {} /\ IsInjective(<<>>)
  BY DEF Init, Range, IsInjective
<1>3. /\ hist.answered = {} /\ hist.lostItems = {}
      /\ \A n \in Nodes : hist.rows[n] = 0
  BY DEF Init, NoHistory
<1>4. Saved = {} /\ Listed(hist.answered) = {}
  BY <1>3 DEF Saved, Listed
<1>5. \A h \in ItemHolders : Place[h] = {}
  <2>1. /\ \A w \in Workers : Place[<<"todo", w>>] = {} /\ Place[<<"item", w>>] = {}
        /\ Place[<<"out", 0>>] = {} /\ Place[<<"saved", 0>>] = {}
        /\ Place[<<"lost", 0>>] = {}
    BY ItemPlaces, <1>1, <1>2, <1>3, <1>4 DEF PlaceIs
  <2>2. ASSUME NEW h \in ItemHolders
        PROVE  \/ \E w \in Workers : h \in {<<"todo", w>>, <<"item", w>>}
               \/ h \in {<<"out", 0>>, <<"saved", 0>>, <<"lost", 0>>}
    BY DEF ItemHolders
  <2> QED
    BY <2>1, <2>2
<1>6. Placed(ItemHolders, Place, Listed(hist.answered))
  BY <1>4, <1>5 DEF Placed
<1> QED
  BY <1>2, <1>3, <1>6, ItemInOnePlaceIs

\* One element moves.
LEMMA ItemMoved ==
    ASSUME ItemInOnePlace, NEW a \in ItemHolders, NEW b \in ItemHolders, a # b,
           NEW n \in Place[a],
           Place'[a] = Place[a] \ {n}, Place'[b] = Place[b] \cup {n},
           SamePlaces(Place, Place', {a, b}),
           hist'.answered = hist.answered,
           IsInjective(outCh'),
           \A m \in Nodes : hist'.rows[m] <= 1
    PROVE  ItemInOnePlace'
<1>1. Placed(ItemHolders, Place, Listed(hist.answered))
  BY ItemInOnePlaceIs
<1>2. \A h \in ItemHolders \ {a, b} : Place'[h] = Place[h]
  BY OtherItemHolders
<1>3. Placed(ItemHolders, Place', Listed(hist'.answered))
  BY <1>1, <1>2, Moved
<1> QED
  BY <1>3, ItemInOnePlaceNext

\* No element moves.
ItemsStill ==
    /\ \A w \in Workers : razd'[w].todo = razd[w].todo /\ Ready(w)' = Ready(w)
    /\ outCh' = outCh
    /\ hist'.answered = hist.answered
    /\ hist'.rows = hist.rows
    /\ hist'.lostItems = hist.lostItems

\* The invariant survives a step that moves no element.
LEMMA ItemsStillInPlace ==
    ASSUME ItemInOnePlace, ItemsStill
    PROVE  ItemInOnePlace'
<1>1. Placed(ItemHolders, Place, Listed(hist.answered))
  BY ItemInOnePlaceIs
<1>2. Saved' = Saved
  BY DEF Saved, ItemsStill
<1>3. SamePlaces(Place, Place', {})
  BY <1>2, ItemPlaces, ItemPlacesNext DEF PlaceIs, ItemsStill, SamePlaces
<1>4. \A h \in ItemHolders \ {} : Place'[h] = Place[h]
  BY <1>3, OtherItemHolders
<1>5. Placed(ItemHolders, Place', Listed(hist'.answered))
  BY <1>1, <1>4, Unmoved DEF ItemsStill
<1> QED
  BY <1>5, ItemInOnePlaceIs, ItemInOnePlaceNext DEF ItemsStill

\* An element in one place is in no other.
LEMMA HeldItemOnce ==
    ASSUME ItemInOnePlace, NEW a \in ItemHolders, NEW b \in ItemHolders, a # b,
           NEW n \in Place[a]
    PROVE  n \notin Place[b]
  BY ItemInOnePlaceIs DEF Placed

\* Steps that leave every GetRazd and the item channel alone.
LEMMA NobodyMoves ==
    ASSUME ItemInOnePlace, UNCHANGED <<razd, outCh>>,
           hist'.answered = hist.answered, hist'.rows = hist.rows,
           hist'.lostItems = hist.lostItems
    PROVE  ItemInOnePlace'
  BY ItemsStillInPlace DEF ItemsStill, Ready

\* A worker that receives a task or is rid of one has no elements before or
\* after.
LEMMA ReceivedItems ==
    ASSUME ItemsInv, NEW w \in Workers, NEW t \in Tasks, Receive(w, t),
           UNCHANGED <<outCh, hist>>
    PROVE  ItemInOnePlace'
<1>0. TypeOK /\ ItemInOnePlace
  BY DEF ItemsInv, TasksInv
<1>1. /\ \A v \in Workers \ {w} : razd'[v] = razd[v]
      /\ razd[w].pc = "select" /\ razd'[w].pc = "check"
      /\ razd'[w].todo = razd[w].todo
  BY <1>0, HolderTypes DEF Receive
<1>2. \A v \in Workers : razd'[v].todo = razd[v].todo /\ Ready(v)' = Ready(v)
  BY <1>1 DEF Ready
<1> QED
  BY <1>0, <1>2, ItemsStillInPlace DEF ItemsStill

\* A task that ends has no elements: only an answer brings them in.
LEMMA FreedItems ==
    ASSUME ItemsInv, NEW w \in Workers, NEW pc \in {"select", "exited"},
           Freed(w, pc), razd[w].pc \in {"select", "check", "fetch"},
           UNCHANGED outCh,
           hist'.answered = hist.answered, hist'.rows = hist.rows,
           hist'.lostItems = hist.lostItems
    PROVE  ItemInOnePlace'
<1>0. TypeOK /\ NoRest /\ ItemInOnePlace
  BY DEF ItemsInv, TasksInv
<1>1. razd'[w] = Free(pc) /\ \A v \in Workers \ {w} : razd'[v] = razd[v]
  BY <1>0, HolderTypes DEF Freed
<1>2. Free(pc).pc = pc /\ Free(pc).todo = {}
  BY DEF Free
<1>3. razd[w].todo = {} /\ Ready(w) = {} /\ Ready(w)' = {}
  BY <1>0, <1>1, <1>2 DEF NoRest, Ready
<1>4. \A v \in Workers : razd'[v].todo = razd[v].todo /\ Ready(v)' = Ready(v)
  BY <1>1, <1>2, <1>3 DEF Ready
<1> QED
  BY <1>0, <1>4, ItemsStillInPlace DEF ItemsStill

\* An answer brings in its elements, which no former answer has listed: its
\* department was in the worker's hands and so not among those answered.
LEMMA FetchChildrenItems ==
    ASSUME ItemsInv, NEW w \in Workers, FetchChildren(w)
    PROVE  ItemInOnePlace'
<1> DEFINE d == razd[w].task.data
           K == Kids[d]
           a == <<"todo", w>>
<1>0. TypeOK /\ NoRest /\ TaskInOnePlace /\ ItemInOnePlace
  BY DEF ItemsInv, TasksInv
<1>t. PlaceIs /\ PlaceIs'
  BY ItemPlaces, ItemPlacesNext
<1>1. /\ razd[w].pc = "fetch" /\ UNCHANGED outCh
      /\ hist'.answered = hist.answered \cup {d}
      /\ hist'.rows = hist.rows /\ hist'.lostItems = hist.lostItems
  BY <1>0, HolderTypes DEF FetchChildren, Response
<1>2. /\ \A v \in Workers \ {w} : razd'[v] = razd[v]
      /\ razd'[w].pc = "item" /\ razd'[w].todo = K
  BY <1>0, HolderTypes DEF FetchChildren, Free
<1>3. razd[w].todo = {} /\ Ready(w) = {} /\ Ready(w)' = {}
  BY <1>0, <1>1, <1>2 DEF NoRest, Ready
<1> HIDE DEF d, K
<1>4. \A v \in Workers \ {w} : razd'[v].todo = razd[v].todo /\ Ready(v)' = Ready(v)
  BY <1>2 DEF Ready
<1>5. Saved' = Saved
  BY <1>1 DEF Saved
<1>6. SamePlaces(Place, Place', {a})
  BY <1>t, <1>1, <1>3, <1>4, <1>5, ZenonT(60) DEF PlaceIs, SamePlaces
<1>7. \A h \in ItemHolders \ {a} : Place'[h] = Place[h]
  BY <1>6, OtherItemHolders
<1>8. Place'[a] = Place[a] \cup K
  BY <1>t, <1>2, <1>3 DEF PlaceIs
<1>9. K \cap Listed(hist.answered) = {}
  BY <1>0, <1>1, NewChildren DEF K, d
<1>10. Listed(hist'.answered) = Listed(hist.answered) \cup K
  BY <1>1 DEF Listed, K
<1>11. Placed(ItemHolders, Place, Listed(hist.answered))
  BY <1>0, ItemInOnePlaceIs
<1>12. Placed(ItemHolders, Place', Listed(hist.answered) \cup K)
  <2>1. a \in ItemHolders
    BY AreItemHolders
  <2> HIDE DEF a
  <2> QED
    BY <1>7, <1>8, <1>9, <1>11, <2>1, Grown
<1> QED
  BY <1>0, <1>1, <1>10, <1>12, ItemInOnePlaceIs, ItemInOnePlaceNext

\* An element goes from the answer to the worker that prepares it.
LEMMA NextItemItems ==
    ASSUME ItemsInv, NEW w \in Workers, NEW n \in Nodes, NextItem(w, n)
    PROVE  ItemInOnePlace'
<1>0. TypeOK /\ ItemInOnePlace
  BY DEF ItemsInv, TasksInv
<1>t. PlaceIs /\ PlaceIs'
  BY ItemPlaces, ItemPlacesNext
<1>1. /\ razd[w].pc = "item" /\ n \in razd[w].todo /\ UNCHANGED <<outCh, hist>>
  BY DEF NextItem
<1>2. /\ \A v \in Workers \ {w} : razd'[v] = razd[v]
      /\ razd'[w].pc = "prepare" /\ razd'[w].todo = razd[w].todo \ {n}
      /\ razd'[w].item = n
  BY <1>0, HolderTypes DEF NextItem
<1>3. /\ \A v \in Workers \ {w} : razd'[v].todo = razd[v].todo /\ Ready(v)' = Ready(v)
      /\ Ready(w) = {} /\ Ready(w)' = {n}
  BY <1>1, <1>2 DEF Ready
<1>4. Saved' = Saved
  BY <1>1 DEF Saved
<1>5. SamePlaces(Place, Place', {<<"todo", w>>, <<"item", w>>})
  BY <1>t, <1>1, <1>3, <1>4 DEF PlaceIs, SamePlaces
<1>6. /\ Place[<<"todo", w>>] = razd[w].todo
      /\ Place'[<<"todo", w>>] = razd[w].todo \ {n}
      /\ Place[<<"item", w>>] = {} /\ Place'[<<"item", w>>] = {n}
  BY <1>t, <1>2, <1>3 DEF PlaceIs
<1>7. /\ n \in Place[<<"todo", w>>]
      /\ Place'[<<"todo", w>>] = Place[<<"todo", w>>] \ {n}
      /\ Place'[<<"item", w>>] = Place[<<"item", w>>] \cup {n}
  BY <1>1, <1>6
<1>8. IsInjective(outCh') /\ \A m \in Nodes : hist'.rows[m] <= 1
  BY <1>0, <1>1 DEF ItemInOnePlace
<1> QED
  BY <1>0, <1>1, <1>5, <1>7, <1>8, ItemMoved, AreItemHolders

\* The element prepared by w leaves it.
LEMMA SentWorker ==
    ASSUME TypeOK, NEW w \in Workers, Sent(w)
    PROVE  /\ \A v \in Workers : razd'[v].todo = razd[v].todo
           /\ \A v \in Workers \ {w} : Ready(v)' = Ready(v)
           /\ Ready(w) = {razd[w].item} /\ Ready(w)' = {}
<1>1. /\ \A v \in Workers \ {w} : razd'[v] = razd[v]
      /\ razd[w].pc = "out" /\ razd'[w].pc \in {"select", "item"}
      /\ razd'[w].todo = razd[w].todo
  BY HolderTypes DEF Sent, AfterSend
<1> QED
  BY <1>1 DEF Ready

\* An element goes from the worker to the item channel.
LEMMA SendItemItems ==
    ASSUME ItemsInv, NEW w \in Workers, SendItem(w)
    PROVE  ItemInOnePlace'
<1> DEFINE n == razd[w].item
<1>0. TypeOK /\ ItemInOnePlace
  BY DEF ItemsInv, TasksInv
<1>t. PlaceIs /\ PlaceIs'
  BY ItemPlaces, ItemPlacesNext
<1>1. Sent(w) /\ outCh' = Append(outCh, n) /\ UNCHANGED hist
  BY DEF SendItem
<1>2. /\ \A v \in Workers : razd'[v].todo = razd[v].todo
      /\ \A v \in Workers \ {w} : Ready(v)' = Ready(v)
      /\ Ready(w) = {n} /\ Ready(w)' = {}
  BY <1>0, <1>1, SentWorker
<1>3. outCh \in Seq(Nodes) /\ n \in Nodes /\ IsInjective(outCh)
  BY <1>0, HolderTypes DEF TypeOK, FlowOK, ItemInOnePlace
<1> HIDE DEF n
<1>4. Place[<<"item", w>>] = {n} /\ Place'[<<"item", w>>] = {}
  BY <1>t, <1>2 DEF PlaceIs
<1>5. n \notin Range(outCh)
  <2>1. <<"item", w>> # <<"out", 0>>
    OBVIOUS
  <2>2. n \notin Place[<<"out", 0>>]
    BY <1>0, <1>4, <2>1, HeldItemOnce, AreItemHolders
  <2> QED
    BY <1>t, <2>2 DEF PlaceIs
<1>6. Range(outCh') = Range(outCh) \cup {n} /\ IsInjective(outCh')
  BY <1>1, <1>3, <1>5, AppendType, AppendUnrepeated
<1>7. Saved' = Saved
  BY <1>1 DEF Saved
<1>8. SamePlaces(Place, Place', {<<"item", w>>, <<"out", 0>>})
  BY <1>t, <1>1, <1>2, <1>7 DEF PlaceIs, SamePlaces
<1>9. Place'[<<"out", 0>>] = Place[<<"out", 0>>] \cup {n}
  BY <1>t, <1>6 DEF PlaceIs
<1>10. n \in Place[<<"item", w>>] /\ Place'[<<"item", w>>] = Place[<<"item", w>>] \ {n}
  BY <1>4
<1>11. hist'.answered = hist.answered /\ \A m \in Nodes : hist'.rows[m] <= 1
  BY <1>0, <1>1 DEF ItemInOnePlace
<1> QED
  BY <1>0, <1>6, <1>8, <1>9, <1>10, <1>11, ItemMoved, AreItemHolders

\* At a cancellation the element in hand is lost; the worker goes on with the rest.
LEMMA DiscardItemItems ==
    ASSUME ItemsInv, NEW w \in Workers, DiscardItem(w)
    PROVE  ItemInOnePlace'
<1> DEFINE n == razd[w].item
<1>0. TypeOK /\ ItemInOnePlace
  BY DEF ItemsInv, TasksInv
<1>t. PlaceIs /\ PlaceIs'
  BY ItemPlaces, ItemPlacesNext
<1>1. /\ Sent(w) /\ outCh' = outCh
      /\ hist'.answered = hist.answered /\ hist'.rows = hist.rows
      /\ hist'.lostItems = hist.lostItems \cup {n}
  BY <1>0, HolderTypes DEF DiscardItem
<1>2. /\ \A v \in Workers : razd'[v].todo = razd[v].todo
      /\ \A v \in Workers \ {w} : Ready(v)' = Ready(v)
      /\ Ready(w) = {n} /\ Ready(w)' = {}
  BY <1>0, <1>1, SentWorker
<1> HIDE DEF n
<1>3. Place[<<"item", w>>] = {n} /\ Place'[<<"item", w>>] = {}
  BY <1>t, <1>2 DEF PlaceIs
<1>4. Saved' = Saved
  BY <1>1 DEF Saved
<1>5. SamePlaces(Place, Place', {<<"item", w>>, <<"lost", 0>>})
  BY <1>t, <1>1, <1>2, <1>4 DEF PlaceIs, SamePlaces
<1>6. Place'[<<"lost", 0>>] = Place[<<"lost", 0>>] \cup {n}
  BY <1>t, <1>1 DEF PlaceIs
<1>7. n \in Place[<<"item", w>>] /\ Place'[<<"item", w>>] = Place[<<"item", w>>] \ {n}
  BY <1>3
<1>8. IsInjective(outCh') /\ \A m \in Nodes : hist'.rows[m] <= 1
  BY <1>0, <1>1 DEF ItemInOnePlace
<1> QED
  BY <1>0, <1>1, <1>5, <1>6, <1>7, <1>8, ItemMoved, AreItemHolders

\* Every step of a GetRazd keeps elements in one place.
LEMMA GetRazdItems ==
    ASSUME ItemsInv, NEW w \in Workers, GetRazd(w)
    PROVE  ItemInOnePlace'
<1>0. TypeOK /\ ItemInOnePlace
  BY DEF ItemsInv, TasksInv
<1>1. CASE CheckLimited(w) \/ FetchCancelled(w) \/ FetchFails(w)
  <2>1. /\ razd[w].pc \in {"check", "fetch"} /\ Freed(w, "exited") /\ UNCHANGED outCh
        /\ hist'.answered = hist.answered /\ hist'.rows = hist.rows
        /\ hist'.lostItems = hist.lostItems
    BY <1>0, <1>1, HolderTypes
    DEF CheckLimited, FetchCancelled, FetchFails, Response, Fail, Freed
  <2> QED
    BY <2>1, FreedItems
<1>2. CASE GiveUp(w) \/ FetchUnusable(w) \/ FetchEmpty(w)
  <2>1. /\ razd[w].pc \in {"check", "fetch"} /\ Freed(w, "select") /\ UNCHANGED outCh
        /\ hist'.answered = hist.answered /\ hist'.rows = hist.rows
        /\ hist'.lostItems = hist.lostItems
    BY <1>0, <1>2, HolderTypes
    DEF GiveUp, FetchUnusable, FetchEmpty, Response, Release, Freed
  <2> QED
    BY <2>1, FreedItems
<1>3. CASE RazdExit(w)
  <2>1. razd[w].pc = "select" /\ Freed(w, "exited") /\ UNCHANGED <<outCh, hist>>
    BY <1>3 DEF RazdExit, Freed
  <2> QED
    BY <2>1, FreedItems
<1>4. CASE FetchBadElement(w)
  BY <1>0, <1>4, NobodyMoves DEF FetchBadElement, Panic
<1>5. CASE Fetch(w) \/ Prepare(w)
  <2>1. /\ \A v \in Workers \ {w} : razd'[v] = razd[v]
        /\ \/ razd[w].pc = "check" /\ razd'[w].pc = "fetch"
           \/ razd[w].pc = "prepare" /\ razd'[w].pc = "out"
        /\ razd'[w].todo = razd[w].todo /\ razd'[w].item = razd[w].item
    BY <1>0, <1>5, HolderTypes DEF Fetch, Prepare
  <2>2. \A v \in Workers : razd'[v].todo = razd[v].todo /\ Ready(v)' = Ready(v)
    BY <2>1 DEF Ready
  <2>3. /\ UNCHANGED outCh
        /\ hist'.answered = hist.answered /\ hist'.rows = hist.rows
        /\ hist'.lostItems = hist.lostItems
    BY <1>0, <1>5, HolderTypes DEF Fetch, Prepare
  <2> QED
    BY <1>0, <2>2, <2>3, ItemsStillInPlace DEF ItemsStill
<1> QED
  BY <1>1, <1>2, <1>3, <1>4, <1>5, FetchChildrenItems, NextItemItems,
     SendItemItems, DiscardItemItems
  DEF GetRazd

\* The consumer takes the first element of the channel.
LEMMA ConsumeItems ==
    ASSUME ItemsInv, Consume, NEW b \in {<<"saved", 0>>, <<"lost", 0>>},
           Place'[b] = Place[b] \cup {Head(outCh)},
           /\ b = <<"saved", 0>> \/ hist'.rows = hist.rows
           /\ b = <<"lost", 0>> \/ hist'.lostItems = hist.lostItems
           /\ hist'.answered = hist.answered,
           \A m \in Nodes : hist'.rows[m] <= 1
    PROVE  ItemInOnePlace'
<1> DEFINE n == Head(outCh)
           a == <<"out", 0>>
<1>0. TypeOK /\ ItemInOnePlace
  BY DEF ItemsInv, TasksInv
<1>t. PlaceIs /\ PlaceIs'
  BY ItemPlaces, ItemPlacesNext
<1>1. /\ outCh \in Seq(Nodes) /\ outCh # <<>> /\ IsInjective(outCh)
      /\ outCh' = Tail(outCh) /\ UNCHANGED razd
  BY <1>0 DEF Consume, TypeOK, FlowOK, ItemInOnePlace
<1>2. /\ n \in Range(outCh) /\ Range(outCh') = Range(outCh) \ {n}
      /\ IsInjective(outCh')
  BY <1>1, TailType, TailUnrepeated
<1> HIDE DEF n
<1>3. \A w \in Workers : razd'[w].todo = razd[w].todo /\ Ready(w)' = Ready(w)
  BY <1>1 DEF Ready
<1>4. hist'.rows = hist.rows => Saved' = Saved
  BY DEF Saved
<1>5. SamePlaces(Place, Place', {a, b})
  BY <1>t, <1>3, <1>4 DEF PlaceIs, SamePlaces
<1>6. n \in Place[a] /\ Place'[a] = Place[a] \ {n} /\ Place'[b] = Place[b] \cup {n}
  BY <1>t, <1>2 DEF PlaceIs, n
<1>7. a \in ItemHolders /\ b \in ItemHolders /\ a # b
  <2>1. a \in ItemHolders /\ b \in ItemHolders
    BY AreItemHolders
  <2>2. a[1] = "out" /\ b[1] # "out"
    OBVIOUS
  <2> QED
    BY <2>1, <2>2
<1> HIDE DEF a
<1> QED
  BY <1>0, <1>2, <1>5, <1>6, <1>7, ItemMoved

\* An element in the channel was listed and has not been stored.
LEMMA NotYetSaved ==
    ASSUME ItemsInv, outCh # <<>>
    PROVE  /\ Head(outCh) \in Nodes /\ Head(outCh) \in Listed(hist.answered)
           /\ hist.rows[Head(outCh)] = 0
           /\ hist.rows \in [Nodes -> Nat] /\ \A m \in Nodes : hist.rows[m] <= 1
<1> DEFINE n == Head(outCh)
<1>0. TypeOK /\ ItemInOnePlace
  BY DEF ItemsInv, TasksInv
<1>1. outCh \in Seq(Nodes)
  BY <1>0 DEF TypeOK, FlowOK
<1>2. n \in Nodes /\ n \in Range(outCh)
  BY <1>1, TailType
<1> HIDE DEF n
<1>3. n \in Place[<<"out", 0>>]
  BY <1>2, ItemPlaces DEF PlaceIs
<1>4. n \notin Place[<<"saved", 0>>]
  <2>1. <<"out", 0>> # <<"saved", 0>>
    OBVIOUS
  <2> QED
    BY <1>0, <1>3, <2>1, HeldItemOnce, AreItemHolders
<1>5. n \notin Saved
  BY <1>4, ItemPlaces DEF PlaceIs
<1>6. hist.rows \in [Nodes -> Nat] /\ \A m \in Nodes : hist.rows[m] <= 1
  BY <1>0, HolderTypes DEF ItemInOnePlace
<1>7. hist.rows[n] = 0
  BY <1>2, <1>5, <1>6 DEF Saved
<1>8. n \in Listed(hist.answered)
  BY <1>0, <1>3, ItemInOnePlaceIs, AreItemHolders DEF Placed
<1> QED
  BY <1>2, <1>6, <1>7, <1>8 DEF n

\* The first of the channel is saved, or lost when the storage refuses it.
LEMMA MainItems ==
    ASSUME ItemsInv, Main
    PROVE  ItemInOnePlace'
<1> DEFINE n == Head(outCh)
<1>0. TypeOK /\ ItemInOnePlace
  BY DEF ItemsInv, TasksInv
<1>t. PlaceIs /\ PlaceIs'
  BY ItemPlaces, ItemPlacesNext
<1>1. CASE Save
  <2>1. /\ Consume /\ outCh # <<>>
        /\ hist'.answered = hist.answered /\ hist'.lostItems = hist.lostItems
        /\ hist'.rows = [hist.rows EXCEPT ![n] = @ + 1]
    BY <1>0, <1>1, HolderTypes DEF Save, Consume
  <2>2. /\ n \in Nodes /\ hist.rows[n] = 0
        /\ hist.rows \in [Nodes -> Nat] /\ \A m \in Nodes : hist.rows[m] <= 1
    BY <2>1, NotYetSaved
  <2> HIDE DEF n
  <2>3. \A m \in Nodes : hist'.rows[m] = IF m = n THEN 1 ELSE hist.rows[m]
    BY <2>1, <2>2
  <2>4. Saved' = Saved \cup {n}
    BY <2>2, <2>3 DEF Saved
  <2>5. Place'[<<"saved", 0>>] = Place[<<"saved", 0>>] \cup {n}
    BY <1>t, <2>4 DEF PlaceIs
  <2>6. \A m \in Nodes : hist'.rows[m] <= 1
    BY <2>2, <2>3
  <2> QED
    BY <2>1, <2>5, <2>6, ConsumeItems DEF n
<1>2. CASE SaveFails
  <2>1. /\ Consume
        /\ hist'.answered = hist.answered /\ hist'.rows = hist.rows
        /\ hist'.lostItems = hist.lostItems \cup {n}
    BY <1>0, <1>2, HolderTypes DEF SaveFails
  <2>2. Place'[<<"lost", 0>>] = Place[<<"lost", 0>>] \cup {n}
    BY <1>t, <2>1 DEF PlaceIs
  <2>3. \A m \in Nodes : hist'.rows[m] <= 1
    BY <1>0, <2>1 DEF ItemInOnePlace
  <2> QED
    BY <2>1, <2>2, <2>3, ConsumeItems
<1>3. CASE ChannelDrained \/ MainCancelled \/ MainExit
  BY <1>0, <1>3, NobodyMoves DEF ChannelDrained, MainCancelled, MainExit, MainStep
<1> QED
  BY <1>1, <1>2, <1>3 DEF Main

\* Nobody else touches elements.
LEMMA OtherItems ==
    ASSUME ItemsInv,
           \/ \E q \in Queues : Dispatcher(q)
           \/ \E t \in Tasks : Retry(t)
           \/ \E w \in Workers : GetAvatar(w)
           \/ Starter \/ Monitor \/ Expire \/ UNCHANGED vars
    PROVE  ItemInOnePlace'
<1> USE ConstantTypes
<1>0. TypeOK /\ ItemInOnePlace
  BY DEF ItemsInv, TasksInv
<1>1. CASE UNCHANGED razd
  <2>1. UNCHANGED outCh
    BY <1>1
    DEF Dispatcher, Pop, LoopEnd, ReturnToQueue, SendPanics, Panic, DispatcherExit,
        DispatchRazd, DispatchAvatar, Retry, RetrySend, RetryCancelled, RetryPanics,
        GetAvatar, AvatarLimited, AvatarDownload, AvatarDone, AvatarExit, AvatarStep,
        Starter, StartRoot, WaitReturns, CloseAvatar, CloseRazd, CloseOut, StarterStep,
        Monitor, Tick, Scan, CancelWorkers, MonitorExit, MonitorStep, Expire, vars
  <2>2. \/ UNCHANGED hist
        \/ \E t \in Tasks : RetryCancelled(t)
    BY DEF Dispatcher, Pop, LoopEnd, ReturnToQueue, SendPanics, Panic, DispatcherExit,
        DispatchRazd, DispatchAvatar, Retry, RetrySend, RetryPanics,
        GetAvatar, AvatarLimited, AvatarDownload, AvatarDone, AvatarExit, AvatarStep,
        Starter, StartRoot, WaitReturns, CloseAvatar, CloseRazd, CloseOut, StarterStep,
        Monitor, Tick, Scan, CancelWorkers, MonitorExit, MonitorStep, Expire, vars
  <2>3. /\ hist'.answered = hist.answered /\ hist'.rows = hist.rows
        /\ hist'.lostItems = hist.lostItems
    BY <1>0, <2>2, HolderTypes DEF RetryCancelled
  <2> QED
    BY <1>0, <1>1, <2>1, <2>3, NobodyMoves
<1>2. CASE ~UNCHANGED razd
  <2>1. PICK w \in Workers, t \in Tasks : Receive(w, t) /\ UNCHANGED <<outCh, hist>>
    <3>1. CASE \E q \in Queues : Dispatcher(q)
      <4>1. PICK v \in Workers, w \in Workers : DispatchRazd(v, w)
        BY <1>2, <3>1
        DEF Dispatcher, Pop, LoopEnd, ReturnToQueue, SendPanics, Panic,
            DispatcherExit, DispatchAvatar
      <4>2. NewTask(disp[DepQueue(v)].hand) \in Tasks
        BY <1>0 DEF TypeOK, QueuesOK
      <4> QED
        BY <4>1, <4>2 DEF DispatchRazd
    <3>2. CASE \E t \in Tasks : Retry(t)
      BY <1>2, <3>2 DEF Retry, RetrySend, RetryCancelled, RetryPanics, Panic
    <3>3. CASE Starter
      BY <1>2, <3>3
      DEF Starter, StartRoot, WaitReturns, CloseAvatar, CloseRazd, CloseOut, StarterStep
    <3> QED
      BY <1>2, <3>1, <3>2, <3>3
      DEF GetAvatar, AvatarLimited, AvatarDownload, AvatarDone, AvatarExit, AvatarStep,
          Monitor, Tick, Scan, CancelWorkers, MonitorExit, MonitorStep, Expire, vars
  <2> QED
    BY <2>1, ReceivedItems
<1> QED
  BY <1>1, <1>2

\* Every element of a used answer is in exactly one place between the answer
\* and the storage, whichever worker got it and however the dump ends, and it
\* is stored at most once.
THEOREM ItemsStayInOnePlace == Spec => []ItemInOnePlace
<1>1. TasksInv /\ ItemInOnePlace /\ [Next]_vars => ItemInOnePlace'
  BY GetRazdItems, MainItems, OtherItems DEF ItemsInv, Next, Step, Terminated
<1> QED
  BY <1>1, ItemsInit, TasksAlways, PTL DEF Spec

-----------------------------------------------------------------------------
(* The dump implements Crawl. *)

\* A step that uses an answer is an Answer of its department.
LEMMA FetchChildrenAnswers ==
    ASSUME ItemsInv, NEW w \in Workers, FetchChildren(w)
    PROVE  Promise!Next
<1> DEFINE d == razd[w].task.data
<1>0. TypeOK /\ TaskInOnePlace
  BY DEF ItemsInv, TasksInv
<1>1. /\ razd[w].pc = "fetch" /\ d \in Deps
      /\ hist'.answered = hist.answered \cup {d} /\ hist'.rows = hist.rows
  BY <1>0, HolderTypes DEF FetchChildren, Response
<1>2. d \notin hist.answered /\ d \in Known(hist.answered)
  BY <1>0, <1>1, NewChildren
<1> HIDE DEF d
<1>3. Promise!Answer(d)
  BY <1>1, <1>2 DEF Promise!Answer, Promise!Known, Promise!Listed, Known, Listed
<1> QED
  BY <1>1, <1>3 DEF Promise!Next

\* A successful save is the Save of an element that was not stored before.
LEMMA SaveSaves ==
    ASSUME ItemsInv, Save
    PROVE  Promise!Next
<1> DEFINE n == Head(outCh)
<1>0. TypeOK
  BY DEF ItemsInv, TasksInv
<1>1. /\ outCh # <<>> /\ hist'.answered = hist.answered
      /\ hist'.rows = [hist.rows EXCEPT ![n] = @ + 1]
  BY <1>0, HolderTypes DEF Save, Consume
<1>2. /\ n \in Nodes /\ n \in Listed(hist.answered) /\ hist.rows[n] = 0
      /\ hist.rows \in [Nodes -> Nat]
  BY <1>1, NotYetSaved
<1> HIDE DEF n
<1>3. hist'.rows = [hist.rows EXCEPT ![n] = 1]
  BY <1>1, <1>2
<1>4. Promise!Save(n)
  BY <1>1, <1>2, <1>3 DEF Promise!Save, Promise!Listed, Listed
<1> QED
  BY <1>2, <1>4 DEF Promise!Next, Promise!Nodes, Nodes

\* Every other step changes nothing Crawl sees.
LEMMA OthersStutter ==
    ASSUME TypeOK, [Next]_vars, ~Save, \A w \in Workers : ~FetchChildren(w)
    PROVE  UNCHANGED Promise!crawlVars
<1>1. \/ UNCHANGED hist
      \/ \E x : hist' = [hist EXCEPT !.lostTasks = x]
      \/ \E x : hist' = [hist EXCEPT !.dropped = x]
      \/ \E x : hist' = [hist EXCEPT !.fetches = x]
      \/ \E x : hist' = [hist EXCEPT !.lostItems = x]
  <2>1. CASE \E w \in Workers : GetRazd(w)
    BY <2>1
    DEF GetRazd, CheckLimited, GiveUp, Fetch, FetchCancelled, FetchFails, Fail,
        FetchUnusable, FetchBadElement, Panic, FetchEmpty, NextItem, Prepare,
        SendItem, DiscardItem, RazdExit
  <2>2. CASE \E t \in Tasks : Retry(t)
    BY <2>2 DEF Retry, RetrySend, RetryCancelled, RetryPanics, Panic
  <2>3. CASE Main
    BY <2>3 DEF Main, SaveFails, ChannelDrained, MainCancelled, MainExit, MainStep
  <2>4. CASE \E q \in Queues : Dispatcher(q)
    BY <2>4
    DEF Dispatcher, Pop, LoopEnd, ReturnToQueue, SendPanics, Panic, DispatcherExit,
        DispatchRazd, DispatchAvatar
  <2>5. CASE \/ \E w \in Workers : GetAvatar(w)
             \/ Starter \/ Monitor \/ Expire \/ UNCHANGED vars
    BY <2>5
    DEF GetAvatar, AvatarLimited, AvatarDownload, AvatarDone, AvatarExit, AvatarStep,
        Starter, StartRoot, WaitReturns, CloseAvatar, CloseRazd, CloseOut, StarterStep,
        Monitor, Tick, Scan, CancelWorkers, MonitorExit, MonitorStep, Expire, vars
  <2> QED
    BY <2>1, <2>2, <2>3, <2>4, <2>5 DEF Next, Step, Terminated
<1>2. hist'.answered = hist.answered /\ hist'.rows = hist.rows
  BY <1>1, HolderTypes
<1> QED
  BY <1>2 DEF Promise!crawlVars

\* Every execution of the dump is one of Crawl: departments are answered from
\* the root downwards and once each, an element is stored only after its
\* department has answered and only once, whatever fails and whoever retries.
THEOREM DumpImplementsCrawl == Spec => ImplementsCrawl
<1>1. Init => Promise!Init
  BY DEF Init, NoHistory, Promise!Init, Promise!Nodes, Nodes
<1>2. TasksInv /\ ItemInOnePlace /\ [Next]_vars => [Promise!Next]_(Promise!crawlVars)
  BY FetchChildrenAnswers, SaveSaves, OthersStutter DEF ItemsInv, TasksInv
<1> QED
  BY <1>1, <1>2, TasksAlways, ItemsStayInOnePlace, PTL
  DEF Spec, ImplementsCrawl, Promise!Spec
-----------------------------------------------------------------------------
(* An idle pipeline. *)

\* Nobody has a department in his hands: the starter has handed over the root,
\* since he leaves without doing so only when there are no workers to wait.
LEMMA IdleTasks ==
    ASSUME TasksInv, WorkersGone, Idle
    PROVE  Known(hist.answered) = hist.answered \cup hist.dropped \cup hist.lostTasks
<1> USE ConstantTypes
<1>t. HoldingIs
  BY TaskHolding
<1>1. \A w \in Workers : Unread(w) = {} /\ InHand(w) = {}
  BY DEF TasksInv, NoRest, Idle, Unread, InHand
<1>2. \A w \in Workers : Queued(w) = {} /\ Popped(w) = {}
  BY DEF Idle, Queued, Popped, Range
<1>3. Waiting = {}
  BY DEF Idle, Waiting
<1>4. Unstarted = {}
  <2>1. 1 \in Workers
    BY DumpAssumption DEF Workers
  <2>2. starter \notin {"root", "aborted"}
    BY <2>1 DEF Idle, WorkersGone
  <2> QED
    BY <2>2 DEF Unstarted
<1>5. ASSUME NEW h \in TaskHolders, NEW d \in Holding[h]
      PROVE  d \in hist.answered \cup hist.dropped \cup hist.lostTasks
  BY <1>t, <1>1, <1>2, <1>3, <1>4, <1>5, TaskHolderCases DEF HoldingIs
<1>6. UNION {Holding[h] : h \in TaskHolders} = Known(hist.answered)
  BY TaskInOnePlaceIs DEF TasksInv, Placed
<1>7. /\ Holding[<<"answered", 0>>] = hist.answered
      /\ Holding[<<"dropped", 0>>] = hist.dropped
      /\ Holding[<<"lost", 0>>] = hist.lostTasks
  BY <1>t DEF HoldingIs
<1> QED
  BY <1>5, <1>6, <1>7, AreTaskHolders

\* No worker has an element in his hands.
LEMMA IdleItems ==
    ASSUME ItemsInv, Idle
    PROVE  Listed(hist.answered) = Range(outCh) \cup hist.lostItems
                                     \cup {n \in Nodes : hist.rows[n] > 0}
<1>0. TypeOK /\ NoRest /\ ItemInOnePlace
  BY DEF ItemsInv, TasksInv
<1>t. PlaceIs
  BY ItemPlaces
<1>1. \A w \in Workers : Place[<<"todo", w>>] = {} /\ Place[<<"item", w>>] = {}
  BY <1>0, <1>t DEF NoRest, Idle, Ready, PlaceIs
<1>2. Saved = {n \in Nodes : hist.rows[n] > 0}
  <2>1. hist.rows \in [Nodes -> Nat] /\ \A n \in Nodes : hist.rows[n] <= 1
    BY <1>0, HolderTypes DEF ItemInOnePlace
  <2>2. \A n \in Nodes : hist.rows[n] = 1 <=> hist.rows[n] > 0
    BY <2>1
  <2> QED
    BY <2>2 DEF Saved
<1>3. ASSUME NEW h \in ItemHolders, NEW n \in Place[h]
      PROVE  n \in Range(outCh) \cup hist.lostItems \cup Saved
  <2>1. \/ \E w \in Workers : h \in {<<"todo", w>>, <<"item", w>>}
        \/ h \in {<<"out", 0>>, <<"saved", 0>>, <<"lost", 0>>}
    BY DEF ItemHolders
  <2> QED
    BY <1>t, <1>1, <1>3, <2>1 DEF PlaceIs
<1>4. UNION {Place[h] : h \in ItemHolders} = Listed(hist.answered)
  BY <1>0, ItemInOnePlaceIs DEF Placed
<1>5. /\ Place[<<"out", 0>>] = Range(outCh) /\ Place[<<"saved", 0>>] = Saved
      /\ Place[<<"lost", 0>>] = hist.lostItems
  BY <1>t DEF PlaceIs
<1> QED
  BY <1>2, <1>3, <1>4, <1>5, AreItemHolders

\* When the queues are empty and no goroutine has anything in hand, the walk is
\* over: every department listed was answered, given up or answered with
\* something unusable, and every element went into the channel.
THEOREM IdleIsComplete == Spec => []IdleMeansComplete
<1>1. TasksInv /\ ItemInOnePlace /\ WorkersGone => IdleMeansComplete
  BY IdleTasks, IdleItems DEF IdleMeansComplete, ItemsInv
<1> QED
  BY <1>1, TasksAlways, ItemsStayInOnePlace, WorkersGoneAlways, PTL

-----------------------------------------------------------------------------
(* Finite sets. *)

\* A finite set of numbers has a greatest one: a smallest subset without one
\* would be empty or have one.
LEMMA Greatest ==
    ASSUME NEW S \in SUBSET Nat, IsFiniteSet(S), S # {}
    PROVE  \E m \in S : \A x \in S : x <= m
<1> DEFINE Max(U) == \E m \in U : \A x \in U : x <= m
           T == {U \in SUBSET S : U # {} /\ ~Max(U)}
           Less == StrictSubsetOrdering(S)
<1>1. IsWellFoundedOn(Less, FiniteSubsetsOf(S))
  BY FS_StrictSubsetOrderingWellFounded
<1>2. T \subseteq FiniteSubsetsOf(S)
  BY FS_Subset DEF FiniteSubsetsOf
<1>3. ASSUME T # {} PROVE FALSE
  <2>1. PICK U \in T : \A V \in T : <<V, U>> \notin Less
    <3> HIDE DEF T, Less
    <3> QED
      BY <1>1, <1>2, <1>3, WFMin
  <2>2. PICK a \in U : a \in Nat
    OBVIOUS
  <2> DEFINE V == U \ {a}
  <2>3. <<V, U>> \in Less
    BY <2>2 DEF StrictSubsetOrdering
  <2>4. V = {} \/ Max(V)
    BY <2>1, <2>3
  <2>5. CASE V = {}
    BY <2>2, <2>5
  <2>6. CASE Max(V)
    <3>1. PICK m \in V : \A x \in V : x <= m
      BY <2>6
    <3>2. a <= m \/ (m <= a /\ \A x \in V : x <= a)
      BY <2>2, <3>1
    <3> QED
      BY <2>2, <3>1, <3>2
  <2> QED
    BY <2>4, <2>5, <2>6
<1> QED
  BY <1>3

\* The union of a number of sets of bounded size.
LEMMA UnionBounded ==
    ASSUME NEW W, IsFiniteSet(W), NEW S, NEW m \in Nat,
           \A w \in W : IsFiniteSet(S[w]) /\ Cardinality(S[w]) <= m
    PROVE  /\ IsFiniteSet(UNION {S[w] : w \in W})
           /\ Cardinality(UNION {S[w] : w \in W}) <= Cardinality(W) * m
<1> DEFINE U == UNION {S[w] : w \in W}
           g == [w \in W |-> CHOOSE f : f \in Bijection(1..Cardinality(S[w]), S[w])]
<1>1. ASSUME NEW w \in W
      PROVE  /\ g[w] \in Bijection(1..Cardinality(S[w]), S[w])
             /\ Cardinality(S[w]) \in Nat
  BY FS_CardinalityType DEF ExistsBijection
<1>2. ASSUME NEW x \in U
      PROVE  \E p \in W \X (1..m) : x = g[p[1]][p[2]]
  <2>1. PICK w \in W : x \in S[w]
    OBVIOUS
  <2>2. PICK i \in 1..Cardinality(S[w]) : g[w][i] = x
    BY <1>1, <2>1 DEF Bijection, Surjection
  <2>3. i \in 1..m
    <3> DEFINE k == Cardinality(S[w])
    <3>1. i \in 1..k /\ k \in Nat /\ k <= m
      BY <1>1, <2>2
    <3> HIDE DEF k
    <3> QED
      BY <3>1
  <2>4. <<w, i>> \in W \X (1..m) /\ x = g[<<w, i>>[1]][<<w, i>>[2]]
    BY <2>2, <2>3
  <2> QED
    BY <2>4
<1> DEFINE ix == [x \in U |-> CHOOSE p \in W \X (1..m) : x = g[p[1]][p[2]]]
<1>3. \A x \in U : ix[x] \in W \X (1..m) /\ x = g[ix[x][1]][ix[x][2]]
  BY <1>2
<1>4. ix \in Injection(U, W \X (1..m))
  BY <1>3, ZenonT(60) DEF Injection, IsInjective
<1>5. /\ IsFiniteSet(1..m) /\ Cardinality(1..m) = m
  BY FS_Interval
<1>6. /\ IsFiniteSet(W \X (1..m))
      /\ Cardinality(W \X (1..m)) = Cardinality(W) * m
  BY <1>5, FS_Product
<1> HIDE DEF ix, U
<1>7. IsFiniteSet(U) /\ Cardinality(U) <= Cardinality(W \X (1..m))
  BY <1>4, <1>6, FS_Injection
<1> QED
  BY <1>6, <1>7 DEF U

\* The cardinalities of disjoint sets add up.
LEMMA DisjointUnion ==
    ASSUME NEW S, IsFiniteSet(S), NEW T, IsFiniteSet(T), S \cap T = {}
    PROVE  Cardinality(S \cup T) = Cardinality(S) + Cardinality(T)
<1>1. Cardinality(S \cap T) = 0
  BY FS_EmptySet
<1>2. Cardinality(S) \in Nat /\ Cardinality(T) \in Nat
  BY FS_CardinalityType
<1>3. Cardinality(S \cup T) = Cardinality(S) + Cardinality(T) - Cardinality(S \cap T)
  BY FS_Union
<1> QED
  BY <1>1, <1>2, <1>3

-----------------------------------------------------------------------------
(* How many elements. *)

Unreached == UNION {razd[w].todo : w \in Workers}
Preparing == {w \in Workers : razd[w].pc = "prepare"}

\* The invariant with the sets by their names, and
LEMMA CountIs ==
    CountIsExact <=>
        count = Cardinality(Listed(hist.answered)) - Cardinality(Unreached)
                    - Cardinality(Preparing)
  BY DEF CountIsExact, Unreached, Preparing

\* in the next state.
LEMMA CountIsNext ==
    (count = Cardinality(Listed(hist.answered)) - Cardinality(Unreached)
                - Cardinality(Preparing))' => CountIsExact'
  BY CountIs, PTL

\* Everything that is counted is finite.
LEMMA CountsAreFinite ==
    ASSUME TypeOK
    PROVE  /\ IsFiniteSet(Listed(hist.answered)) /\ IsFiniteSet(Unreached)
           /\ IsFiniteSet(Workers) /\ Cardinality(Workers) = N
           /\ IsFiniteSet(Preparing)
           /\ \A d \in Deps : IsFiniteSet(Kids[d]) /\ Cardinality(Kids[d]) \in Nat
<1> USE ConstantTypes
<1>1. IsFiniteSet(Nodes)
  BY TreeAssumption
<1>2. Listed(hist.answered) \subseteq Nodes /\ Unreached \subseteq Nodes
  BY HolderTypes DEF Listed, Unreached
<1>3. IsFiniteSet(Workers) /\ Cardinality(Workers) = N
  BY FS_Interval, DumpAssumption DEF Workers
<1>4. IsFiniteSet(Preparing)
  BY <1>3, FS_Subset DEF Preparing
<1>5. \A d \in Deps : IsFiniteSet(Kids[d]) /\ Cardinality(Kids[d]) \in Nat
  BY <1>1, FS_Subset, FS_CardinalityType
<1> QED
  BY <1>1, <1>2, <1>3, <1>4, <1>5, FS_Subset

\* At the start nothing is listed and nothing counted.
LEMMA CountInit == Init => CountIsExact
<1> SUFFICES ASSUME Init PROVE CountIsExact
  OBVIOUS
<1>1. Listed(hist.answered) = {} /\ Unreached = {} /\ Preparing = {} /\ count = 0
  BY DEF Init, NoHistory, Listed, Free, AtStart, Unreached, Preparing
<1>2. Cardinality({}) = 0
  BY FS_EmptySet
<1> QED
  BY <1>1, <1>2, CountIs

\* Nothing is listed, reached or counted.
CountStill ==
    /\ \A w \in Workers :
          /\ razd'[w].todo = razd[w].todo
          /\ "prepare" \in {razd[w].pc, razd'[w].pc} => razd'[w] = razd[w]
    /\ hist'.answered = hist.answered
    /\ count' = count

\* The invariant survives a step that does nothing of that.
LEMMA CountStillExact ==
    ASSUME CountIsExact, CountStill
    PROVE  CountIsExact'
<1>1. Unreached' = Unreached /\ Preparing' = Preparing
  BY DEF CountStill, Unreached, Preparing
<1> QED
  BY <1>1 DEF CountStill, CountIsExact, Unreached, Preparing

\* Elements not reached yet are listed, each with one worker.
LEMMA UnreachedListed ==
    ASSUME ItemInOnePlace
    PROVE  /\ Unreached \subseteq Listed(hist.answered)
           /\ \A v, w \in Workers : v # w => razd[v].todo \cap razd[w].todo = {}
<1>1. Placed(ItemHolders, Place, Listed(hist.answered)) /\ PlaceIs
  BY ItemInOnePlaceIs, ItemPlaces
<1>2. \A w \in Workers : razd[w].todo \subseteq Listed(hist.answered)
  BY <1>1, AreItemHolders DEF Placed, PlaceIs
<1>3. ASSUME NEW v \in Workers, NEW w \in Workers, v # w
      PROVE  razd[v].todo \cap razd[w].todo = {}
  <2>1. <<"todo", v>> # <<"todo", w>>
    BY <1>3
  <2> QED
    BY <1>1, <2>1, AreItemHolders DEF Placed, PlaceIs
<1> QED
  BY <1>2, <1>3 DEF Unreached

\* An answer lists as many elements as it leaves to be reached.
LEMMA FetchChildrenCounts ==
    ASSUME ItemsInv, CountIsExact, NEW w \in Workers, FetchChildren(w)
    PROVE  CountIsExact'
<1> DEFINE d == razd[w].task.data
           K == Kids[d]
           L == Listed(hist.answered)
<1>0. TypeOK /\ NoRest /\ TaskInOnePlace /\ ItemInOnePlace
  BY DEF ItemsInv, TasksInv
<1>1. /\ razd[w].pc = "fetch" /\ d \in Deps /\ count' = count
      /\ hist'.answered = hist.answered \cup {d}
  BY <1>0, HolderTypes DEF FetchChildren, Response
<1>2. /\ \A v \in Workers \ {w} : razd'[v] = razd[v]
      /\ razd'[w].pc = "item" /\ razd'[w].todo = K
  BY <1>0, HolderTypes DEF FetchChildren, Free
<1>3. razd[w].todo = {}
  BY <1>0, <1>1 DEF NoRest
<1>4. K \cap L = {}
  BY <1>0, <1>1, NewChildren
<1>5. Listed(hist'.answered) = L \cup K
  BY <1>1 DEF Listed
<1>6. IsFiniteSet(K) /\ IsFiniteSet(L) /\ IsFiniteSet(Unreached)
  BY <1>0, <1>1, CountsAreFinite
<1> HIDE DEF d, K, L
<1>7. Unreached' = Unreached \cup K /\ Preparing' = Preparing
  BY <1>1, <1>2, <1>3 DEF Unreached, Preparing
<1>8. Unreached \cap K = {}
  BY <1>0, <1>4, UnreachedListed DEF L
<1>9. Cardinality(L \cup K) = Cardinality(L) + Cardinality(K)
  BY <1>4, <1>6, DisjointUnion
<1>10. Cardinality(Unreached \cup K) = Cardinality(Unreached) + Cardinality(K)
  BY <1>6, <1>8, DisjointUnion
<1>11. /\ Cardinality(L) \in Nat /\ Cardinality(K) \in Nat
       /\ Cardinality(Unreached) \in Nat /\ Cardinality(Preparing) \in Nat
  BY <1>0, <1>6, CountsAreFinite, FS_CardinalityType
<1>12. count = Cardinality(L) - Cardinality(Unreached) - Cardinality(Preparing)
  BY CountIs DEF L
<1>13. /\ Cardinality(Listed(hist'.answered)) = Cardinality(L) + Cardinality(K)
       /\ Cardinality(Unreached') = Cardinality(Unreached) + Cardinality(K)
       /\ Cardinality(Preparing') = Cardinality(Preparing)
  BY <1>5, <1>7, <1>9, <1>10
<1>14. count' = Cardinality(Listed(hist'.answered)) - Cardinality(Unreached')
                   - Cardinality(Preparing')
  BY <1>1, <1>11, <1>12, <1>13
<1> QED
  BY <1>14, CountIsNext

\* An element that is reached is being prepared.
LEMMA NextItemCounts ==
    ASSUME ItemsInv, CountIsExact, NEW w \in Workers, NEW n \in Nodes, NextItem(w, n)
    PROVE  CountIsExact'
<1>0. TypeOK /\ ItemInOnePlace
  BY DEF ItemsInv, TasksInv
<1>1. /\ razd[w].pc = "item" /\ n \in razd[w].todo
      /\ hist' = hist /\ count' = count
  BY DEF NextItem
<1>2. /\ \A v \in Workers \ {w} : razd'[v] = razd[v]
      /\ razd'[w].pc = "prepare" /\ razd'[w].todo = razd[w].todo \ {n}
  BY <1>0, HolderTypes DEF NextItem
<1>3. \A v \in Workers \ {w} : n \notin razd[v].todo
  BY <1>0, <1>1, UnreachedListed
<1>4. Unreached' = Unreached \ {n} /\ n \in Unreached
  BY <1>1, <1>2, <1>3 DEF Unreached
<1>5. Preparing' = Preparing \cup {w} /\ w \notin Preparing
  BY <1>1, <1>2 DEF Preparing
<1>6. /\ Cardinality(Unreached') = Cardinality(Unreached) - 1
      /\ Cardinality(Preparing') = Cardinality(Preparing) + 1
      /\ Cardinality(Unreached) \in Nat /\ Cardinality(Preparing) \in Nat
      /\ Cardinality(Listed(hist.answered)) \in Nat
  BY <1>0, <1>4, <1>5, CountsAreFinite, FS_RemoveElement, FS_AddElement,
     FS_CardinalityType
<1>7. count' = Cardinality(Listed(hist'.answered)) - Cardinality(Unreached')
                  - Cardinality(Preparing')
  BY <1>1, <1>6, CountIs
<1> QED
  BY <1>7, CountIsNext

\* Preparing counts.
LEMMA PrepareCounts ==
    ASSUME ItemsInv, CountIsExact, NEW w \in Workers, Prepare(w)
    PROVE  CountIsExact'
<1>0. TypeOK
  BY DEF ItemsInv, TasksInv
<1>1. razd[w].pc = "prepare" /\ hist' = hist /\ count' = count + 1
  BY DEF Prepare, CountItem
<1>2. /\ \A v \in Workers \ {w} : razd'[v] = razd[v]
      /\ razd'[w].pc = "out" /\ razd'[w].todo = razd[w].todo
  BY <1>0, HolderTypes DEF Prepare
<1>3. Unreached' = Unreached
  BY <1>2 DEF Unreached
<1>4. Preparing' = Preparing \ {w} /\ w \in Preparing
  BY <1>1, <1>2 DEF Preparing
<1>5. /\ Cardinality(Preparing') = Cardinality(Preparing) - 1
      /\ Cardinality(Unreached) \in Nat /\ Cardinality(Preparing) \in Nat
      /\ Cardinality(Listed(hist.answered)) \in Nat
  BY <1>0, <1>4, CountsAreFinite, FS_RemoveElement, FS_CardinalityType
<1>6. count' = Cardinality(Listed(hist'.answered)) - Cardinality(Unreached')
                  - Cardinality(Preparing')
  BY <1>1, <1>3, <1>5, CountIs
<1> QED
  BY <1>6, CountIsNext

Fetching == {w \in Workers : razd[w].pc = "fetch"}

\* The workers that receive a task or are rid of one.
LEMMA WorkerStill ==
    ASSUME ItemsInv, NEW w \in Workers,
           \/ \E t \in Tasks : Receive(w, t)
           \/ /\ razd[w].pc \in {"select", "check", "fetch"}
              /\ \E pc \in {"select", "exited"} : Freed(w, pc),
           hist'.answered = hist.answered, count' = count
    PROVE  CountStill /\ Fetching' \subseteq Fetching
<1>0. TypeOK /\ NoRest
  BY DEF ItemsInv, TasksInv
<1>1. CASE \E t \in Tasks : Receive(w, t)
  <2>1. /\ \A v \in Workers \ {w} : razd'[v] = razd[v]
        /\ razd[w].pc = "select" /\ razd'[w].pc = "check"
        /\ razd'[w].todo = razd[w].todo
    BY <1>0, <1>1, HolderTypes DEF Receive
  <2> QED
    BY <2>1 DEF CountStill, Fetching
<1>2. ASSUME NEW pc \in {"select", "exited"}, Freed(w, pc),
             razd[w].pc \in {"select", "check", "fetch"}
      PROVE  CountStill /\ Fetching' \subseteq Fetching
  <2>1. razd'[w] = Free(pc) /\ \A v \in Workers \ {w} : razd'[v] = razd[v]
    BY <1>0, <1>2, HolderTypes DEF Freed
  <2>2. Free(pc).pc = pc /\ Free(pc).todo = {} /\ razd[w].todo = {}
    BY <1>0, <1>2 DEF Free, NoRest
  <2> QED
    BY <1>2, <2>1, <2>2 DEF CountStill, Fetching
<1> QED
  BY <1>1, <1>2

\* A GetRazd only counts, reaches or lists in three of its steps.
LEMMA GetRazdStill ==
    ASSUME ItemsInv, NEW w \in Workers, GetRazd(w),
           ~FetchChildren(w), ~Prepare(w), \A n \in Nodes : ~NextItem(w, n)
    PROVE  CountStill /\ (Fetch(w) \/ Fetching' \subseteq Fetching)
<1>0. TypeOK
  BY DEF ItemsInv, TasksInv
<1>1. hist'.answered = hist.answered /\ count' = count
  BY <1>0, HolderTypes
  DEF GetRazd, CheckLimited, GiveUp, Fetch, FetchCancelled, FetchFails, Fail,
      FetchUnusable, FetchBadElement, Panic, FetchEmpty, SendItem, DiscardItem, Sent,
      RazdExit
<1>2. CASE \/ CheckLimited(w) \/ FetchCancelled(w) \/ FetchFails(w)
           \/ GiveUp(w) \/ FetchUnusable(w) \/ FetchEmpty(w) \/ RazdExit(w)
  <2>1. /\ razd[w].pc \in {"select", "check", "fetch"}
        /\ Freed(w, "exited") \/ Freed(w, "select")
    BY <1>2
    DEF CheckLimited, FetchCancelled, FetchFails, Response, Fail, GiveUp,
        FetchUnusable, FetchEmpty, Release, RazdExit, Freed
  <2> QED
    BY <1>1, <2>1, WorkerStill
<1>3. CASE FetchBadElement(w)
  BY <1>1, <1>3 DEF FetchBadElement, Panic, CountStill, Fetching
<1>4. CASE Fetch(w) \/ SendItem(w) \/ DiscardItem(w)
  <2>1. /\ \A v \in Workers \ {w} : razd'[v] = razd[v]
        /\ razd[w].pc \in {"check", "out"}
        /\ Fetch(w) \/ razd'[w].pc \in {"select", "item"}
        /\ razd'[w].pc # "prepare" /\ razd'[w].todo = razd[w].todo
    BY <1>0, <1>4, HolderTypes DEF Fetch, SendItem, DiscardItem, Sent, AfterSend
  <2> QED
    BY <1>1, <2>1 DEF CountStill, Fetching
<1> QED
  BY <1>2, <1>3, <1>4 DEF GetRazd

\* Nobody else does.
LEMMA OthersCountStill ==
    ASSUME ItemsInv,
           \/ \E q \in Queues : Dispatcher(q)
           \/ \E t \in Tasks : Retry(t)
           \/ \E w \in Workers : GetAvatar(w)
           \/ Starter \/ Monitor \/ Main \/ Expire \/ UNCHANGED vars
    PROVE  CountStill /\ Fetching' \subseteq Fetching
<1> USE ConstantTypes
<1>0. TypeOK
  BY DEF ItemsInv, TasksInv
<1>1. hist'.answered = hist.answered /\ count' = count
  BY <1>0, HolderTypes
  DEF Dispatcher, Pop, LoopEnd, ReturnToQueue, SendPanics, Panic, DispatcherExit,
      DispatchRazd, DispatchAvatar, Retry, RetrySend, RetryCancelled, RetryPanics,
      GetAvatar, AvatarLimited, AvatarDownload, AvatarDone, AvatarExit, AvatarStep,
      Starter, StartRoot, WaitReturns, CloseAvatar, CloseRazd, CloseOut, StarterStep,
      Monitor, Tick, Scan, CancelWorkers, MonitorExit, MonitorStep,
      Main, Save, SaveFails, Consume, ChannelDrained, MainCancelled, MainExit, MainStep,
      Expire, vars
<1>2. CASE UNCHANGED razd
  BY <1>1, <1>2 DEF CountStill, Fetching
<1>3. CASE ~UNCHANGED razd
  <2>1. PICK w \in Workers, t \in Tasks : Receive(w, t)
    <3>1. CASE \E q \in Queues : Dispatcher(q)
      <4>1. PICK v \in Workers, w \in Workers : DispatchRazd(v, w)
        BY <1>3, <3>1
        DEF Dispatcher, Pop, LoopEnd, ReturnToQueue, SendPanics, Panic,
            DispatcherExit, DispatchAvatar
      <4>2. NewTask(disp[DepQueue(v)].hand) \in Tasks
        BY <1>0 DEF TypeOK, QueuesOK
      <4> QED
        BY <4>1, <4>2 DEF DispatchRazd
    <3>2. CASE \E t \in Tasks : Retry(t)
      BY <1>3, <3>2 DEF Retry, RetrySend, RetryCancelled, RetryPanics, Panic
    <3>3. CASE Starter
      BY <1>3, <3>3
      DEF Starter, StartRoot, WaitReturns, CloseAvatar, CloseRazd, CloseOut, StarterStep
    <3> QED
      BY <1>3, <3>1, <3>2, <3>3
      DEF GetAvatar, AvatarLimited, AvatarDownload, AvatarDone, AvatarExit, AvatarStep,
          Monitor, Tick, Scan, CancelWorkers, MonitorExit, MonitorStep,
          Main, Save, SaveFails, Consume, ChannelDrained, MainCancelled, MainExit,
          MainStep, Expire, vars
  <2> QED
    BY <1>1, <2>1, WorkerStill
<1> QED
  BY <1>2, <1>3

\* The four steps that list, reach, count or ask, and all others.
LEMMA CountingSteps ==
    ASSUME ItemsInv, [Next]_vars
    PROVE  \/ \E w \in Workers :
                 \/ FetchChildren(w) \/ Prepare(w) \/ \E n \in Nodes : NextItem(w, n)
                 \/ Fetch(w) /\ CountStill
           \/ CountStill /\ Fetching' \subseteq Fetching
  BY GetRazdStill, OthersCountStill DEF Next, Step, Terminated

\* The counter the limit is compared with is the number of elements workers
\* have got past: what was listed, without the elements not reached yet and
\* those being prepared.
THEOREM CountStaysExact == Spec => []CountIsExact
<1>1. ItemsInv /\ CountIsExact /\ [Next]_vars => CountIsExact'
  BY CountingSteps, FetchChildrenCounts, NextItemCounts, PrepareCounts, CountStillExact
<1>2. TasksInv /\ ItemInOnePlace => ItemsInv
  BY DEF ItemsInv
<1> QED
  BY <1>1, <1>2, CountInit, TasksAlways, ItemsStayInOnePlace, PTL DEF Spec

-----------------------------------------------------------------------------
(* How far the dump gets past a limit.  A worker that is let through the   *)
(* test of the limit sees a counter that lacks at most one answer for      *)
(* every worker in the middle of one, and itself brings at most one more:  *)
(* so the elements listed, with room for the answers being asked for, stay *)
(* within the limit and one answer for every worker.                       *)

Answering == {w \in Workers : razd[w].pc \in {"item", "prepare", "out"}}

\* The elements a worker has not counted yet.
Rest(w) == razd[w].todo \cup (IF razd[w].pc = "prepare" THEN {razd[w].item} ELSE {})

\* They are part of one answer.
OneAnswer == \A w \in Workers : \E d \in Deps : Rest(w) \subseteq Kids[d]

RoomForAnswers ==
    Limit > 0 =>
        Cardinality(Listed(hist.answered)) + Cardinality(Fetching) * Fanout
            <= Limit + N * Fanout

\* No answer is longer than the longest one, which exists.
LEMMA FanoutIs ==
    Fanout \in Nat /\ \A d \in Deps : Cardinality(Kids[d]) <= Fanout
<1> DEFINE S == {Cardinality(Kids[d]) : d \in Deps}
           f == [d \in Deps |-> Cardinality(Kids[d])]
<1>1. IsFiniteSet(Nodes) /\ Deps \subseteq Nodes
  BY TreeAssumption, ConstantTypes
<1>2. \A d \in Deps : Cardinality(Kids[d]) \in Nat
  BY <1>1, ConstantTypes, FS_Subset, FS_CardinalityType
<1>3. S \in SUBSET Nat /\ S # {}
  BY <1>2, ConstantTypes
<1>4. IsFiniteSet(S)
  <2>1. f \in Surjection(Deps, S)
    BY DEF Surjection
  <2>2. IsFiniteSet(Deps)
    BY <1>1, FS_Subset
  <2> QED
    BY <2>1, <2>2, FS_Surjection
<1>5. PICK g \in S : \A x \in S : x <= g
  BY <1>3, <1>4, Greatest
<1>6. \E m \in S : \A d \in Deps : Cardinality(Kids[d]) <= m
  BY <1>5
<1>7. Fanout \in S /\ \A d \in Deps : Cardinality(Kids[d]) <= Fanout
  BY <1>6 DEF Fanout
<1> QED
  BY <1>3, <1>7

\* What the workers have not counted is at most one answer for each of those
\* in the middle of one.
LEMMA RestBounded ==
    ASSUME ItemsInv, OneAnswer
    PROVE  Cardinality(Unreached) + Cardinality(Preparing)
               <= Cardinality(Answering) * Fanout
<1> DEFINE R == [w \in Workers |-> Rest(w)]
           All == UNION {R[w] : w \in Answering}
           f == [w \in Preparing |-> razd[w].item]
           P == {f[w] : w \in Preparing}
<1>0. TypeOK /\ NoRest /\ ItemInOnePlace
  BY DEF ItemsInv, TasksInv
<1>1. /\ IsFiniteSet(Answering) /\ IsFiniteSet(Preparing) /\ IsFiniteSet(Unreached)
      /\ Fanout \in Nat
  BY <1>0, CountsAreFinite, FanoutIs, FS_Subset DEF Answering
<1>2. ASSUME NEW w \in Workers
      PROVE  IsFiniteSet(R[w]) /\ Cardinality(R[w]) <= Fanout
  <2>1. PICK d \in Deps : R[w] \subseteq Kids[d]
    BY DEF OneAnswer
  <2>2. IsFiniteSet(Kids[d]) /\ Cardinality(Kids[d]) <= Fanout
    BY <1>0, CountsAreFinite, FanoutIs
  <2>3. IsFiniteSet(R[w]) /\ Cardinality(R[w]) <= Cardinality(Kids[d])
    BY <2>1, <2>2, FS_Subset
  <2> QED
    BY <1>1, <2>2, <2>3, FS_CardinalityType
<1>3. Cardinality(All) <= Cardinality(Answering) * Fanout
  <2>1. \A w \in Answering : IsFiniteSet(R[w]) /\ Cardinality(R[w]) <= Fanout
    BY <1>2 DEF Answering
  <2> HIDE DEF R
  <2> QED
    BY <1>1, <2>1, UnionBounded
<1>4. Placed(ItemHolders, Place, Listed(hist.answered)) /\ PlaceIs
  BY <1>0, ItemInOnePlaceIs, ItemPlaces
<1>5. \A w \in Preparing : w \in Workers /\ Place[<<"item", w>>] = {f[w]}
  BY <1>4 DEF PlaceIs, Ready, Preparing
<1>6. Cardinality(P) = Cardinality(Preparing) /\ IsFiniteSet(P)
  <2>1. ASSUME NEW v \in Preparing, NEW w \in Preparing, f[v] = f[w]
        PROVE  v = w
    <3>1. <<"item", v>> \in ItemHolders /\ <<"item", w>> \in ItemHolders
      BY <1>5, AreItemHolders
    <3>2. Place[<<"item", v>>] \cap Place[<<"item", w>>] # {}
      BY <1>5, <2>1
    <3>3. <<"item", v>> = <<"item", w>>
      BY <1>4, <3>1, <3>2 DEF Placed
    <3> QED
      BY <3>3
  <2>2. f \in Bijection(Preparing, P)
    BY <2>1 DEF Bijection, Injection, IsInjective, Surjection
  <2> HIDE DEF f, P
  <2>3. ExistsBijection(Preparing, P)
    BY <2>2 DEF ExistsBijection
  <2> QED
    BY <1>1, <2>3, FS_Bijection
<1>7. Unreached \cap P = {}
  <2>1. ASSUME NEW v \in Workers, NEW w \in Preparing PROVE f[w] \notin razd[v].todo
    <3>1. <<"todo", v>> # <<"item", w>>
      OBVIOUS
    <3>2. Place[<<"todo", v>>] \cap Place[<<"item", w>>] = {}
      BY <1>4, <1>5, <3>1, AreItemHolders DEF Placed
    <3>3. Place[<<"todo", v>>] = razd[v].todo
      BY <1>4 DEF PlaceIs
    <3> QED
      BY <1>5, <3>2, <3>3
  <2> QED
    BY <2>1 DEF Unreached
<1>8. All = Unreached \cup P
  <2>1. \A w \in Workers : w \notin Answering => razd[w].todo = {}
    BY <1>0 DEF NoRest, Answering
  <2>2. \A w \in Workers : R[w] = razd[w].todo \cup (IF w \in Preparing THEN {f[w]} ELSE {})
    BY DEF Rest, Preparing
  <2>3. Preparing \subseteq Answering /\ Answering \subseteq Workers
    BY DEF Preparing, Answering
  <2> HIDE DEF R, f
  <2> QED
    BY <2>1, <2>2, <2>3 DEF Unreached
<1> HIDE DEF P
<1>9. Cardinality(Unreached \cup P) = Cardinality(Unreached) + Cardinality(P)
  BY <1>1, <1>6, <1>7, DisjointUnion
<1> QED
  BY <1>3, <1>6, <1>8, <1>9

\* The sums of the argument.
LEMMA Rooms ==
    ASSUME NEW a \in Nat, NEW b \in Nat, NEW n \in Nat, NEW f \in Nat, a + b <= n
    PROVE  a * f \in Nat /\ b * f \in Nat /\ n * f \in Nat /\ a * f + b * f <= n * f
<1>1. PICK c \in Nat : n = a + b + c
  <2>1. n - a - b \in Nat /\ n = a + b + (n - a - b)
    OBVIOUS
  <2> QED
    BY <2>1
<1>2. (a + b + c) * f = a * f + b * f + c * f
  OBVIOUS
<1>3. a * f \in Nat /\ b * f \in Nat /\ c * f \in Nat
  OBVIOUS
<1> QED
  BY <1>1, <1>2, <1>3

\* Workers asking and workers in the middle of an answer are some of N.
LEMMA FetchingFinite ==
    ASSUME TypeOK
    PROVE  /\ IsFiniteSet(Fetching) /\ Cardinality(Fetching) \in Nat
           /\ IsFiniteSet(Answering) /\ Cardinality(Answering) \in Nat
           /\ Cardinality(Listed(hist.answered)) \in Nat
<1>1. Fetching \subseteq Workers /\ Answering \subseteq Workers
  BY DEF Fetching, Answering
<1> QED
  BY <1>1, CountsAreFinite, FS_Subset, FS_CardinalityType

\* At the start nobody asks and nothing is listed.
LEMMA LateInit == Init => OneAnswer /\ RoomForAnswers
<1> SUFFICES ASSUME Init PROVE OneAnswer /\ RoomForAnswers
  OBVIOUS
<1>1. /\ Listed(hist.answered) = {} /\ Fetching = {}
      /\ \A w \in Workers : Rest(w) = {}
  BY DEF Init, NoHistory, Listed, Free, AtStart, Fetching, Rest
<1>2. OneAnswer
  BY <1>1, ConstantTypes DEF OneAnswer
<1>3. Cardinality({}) = 0
  BY FS_EmptySet
<1>4. N * Fanout \in Nat /\ Fanout \in Nat
  BY FanoutIs, DumpAssumption
<1>5. 0 + 0 * Fanout <= Limit + N * Fanout
  BY <1>4, DumpAssumption
<1> QED
  BY <1>1, <1>2, <1>3, <1>5 DEF RoomForAnswers

\* What a worker has left stays within the answer it came with.
LEMMA OneAnswerStep ==
    ASSUME ItemsInv, OneAnswer, [Next]_vars
    PROVE  OneAnswer'
<1>0. TypeOK
  BY DEF ItemsInv, TasksInv
<1>1. ASSUME NEW w \in Workers, \A v \in Workers \ {w} : razd'[v] = razd[v],
             \E d \in Deps : Rest(w)' \subseteq Kids[d]
      PROVE  OneAnswer'
  <2>1. \A v \in Workers \ {w} : Rest(v)' = Rest(v)
    BY <1>1 DEF Rest
  <2> QED
    BY <1>1, <2>1 DEF OneAnswer
<1>2. CASE CountStill
  <2>1. \A w \in Workers : Rest(w)' = Rest(w)
    BY <1>2 DEF CountStill, Rest
  <2> QED
    BY <2>1 DEF OneAnswer
<1>3. ASSUME NEW w \in Workers, FetchChildren(w) PROVE OneAnswer'
  <2>1. /\ \A v \in Workers \ {w} : razd'[v] = razd[v]
        /\ razd'[w].pc = "item" /\ razd'[w].todo = Kids[razd[w].task.data]
        /\ razd[w].task.data \in Deps
    BY <1>0, <1>3, HolderTypes DEF FetchChildren, Free
  <2>2. Rest(w)' = Kids[razd[w].task.data]
    BY <2>1 DEF Rest
  <2> QED
    BY <1>1, <2>1, <2>2
<1>4. ASSUME NEW w \in Workers, NEW n \in Nodes, NextItem(w, n) PROVE OneAnswer'
  <2>1. /\ \A v \in Workers \ {w} : razd'[v] = razd[v]
        /\ n \in razd[w].todo
        /\ razd'[w].pc = "prepare" /\ razd'[w].todo = razd[w].todo \ {n}
        /\ razd'[w].item = n
    BY <1>0, <1>4, HolderTypes DEF NextItem
  <2>2. Rest(w)' \subseteq Rest(w)
    BY <2>1 DEF Rest
  <2> QED
    BY <1>1, <2>1, <2>2 DEF OneAnswer
<1>5. ASSUME NEW w \in Workers, Prepare(w) PROVE OneAnswer'
  <2>1. /\ \A v \in Workers \ {w} : razd'[v] = razd[v]
        /\ razd'[w].pc = "out" /\ razd'[w].todo = razd[w].todo
    BY <1>0, <1>5, HolderTypes DEF Prepare
  <2>2. Rest(w)' \subseteq Rest(w)
    BY <2>1 DEF Rest
  <2> QED
    BY <1>1, <2>1, <2>2 DEF OneAnswer
<1> QED
  BY <1>2, <1>3, <1>4, <1>5, CountingSteps

\* The invariant in the next state, by what is listed and who asks.
LEMMA RoomNext ==
    (Limit > 0 =>
        Cardinality(Listed(hist.answered)) + Cardinality(Fetching) * Fanout
            <= Limit + N * Fanout)' => RoomForAnswers'
  BY DEF RoomForAnswers

\* A request is made only if the counter, which lacks what the others have
\* not counted, is within the limit.
LEMMA FetchRoom ==
    ASSUME ItemsInv, CountIsExact, OneAnswer, NEW w \in Workers, Fetch(w), CountStill
    PROVE  RoomForAnswers'
<1> DEFINE L == Cardinality(Listed(hist.answered))
           F == Cardinality(Fetching')
           A == Cardinality(Answering)
           U == Cardinality(Unreached)
           P == Cardinality(Preparing)
<1>0. TypeOK
  BY DEF ItemsInv, TasksInv
<1> SUFFICES ASSUME Limit > 0 PROVE L + F * Fanout <= Limit + N * Fanout
  BY RoomNext DEF CountStill
<1>1. count <= Limit /\ razd[w].pc = "check"
  BY <1>0, DumpAssumption DEF Fetch, OverLimit, TypeOK, FlowOK
<1>2. /\ \A v \in Workers \ {w} : razd'[v] = razd[v]
      /\ razd'[w].pc = "fetch"
  BY <1>0, HolderTypes DEF Fetch
<1>3. Fetching' \cap Answering = {} /\ Fetching' \cup Answering \subseteq Workers
  BY <1>1, <1>2 DEF Fetching, Answering
<1>4. IsFiniteSet(Fetching') /\ IsFiniteSet(Answering)
  BY <1>0, <1>3, CountsAreFinite, FS_Subset
<1>5. F + A <= N
  <2>1. Cardinality(Fetching' \cup Answering) = F + A
    BY <1>3, <1>4, DisjointUnion
  <2>2. Cardinality(Fetching' \cup Answering) <= N
    BY <1>0, <1>3, CountsAreFinite, FS_Subset
  <2> QED
    BY <2>1, <2>2
<1>6. /\ L \in Nat /\ U \in Nat /\ P \in Nat /\ A \in Nat /\ F \in Nat
      /\ N \in Nat /\ Fanout \in Nat /\ Limit \in Nat /\ count \in Nat
  BY <1>0, <1>4, CountsAreFinite, FS_CardinalityType, FanoutIs, DumpAssumption
  DEF TypeOK, FlowOK
<1>7. count = L - U - P
  BY CountIs
<1>8. U + P <= A * Fanout
  BY RestBounded
<1> HIDE DEF L, F, A, U, P
<1>9. /\ F * Fanout \in Nat /\ A * Fanout \in Nat /\ N * Fanout \in Nat
      /\ F * Fanout + A * Fanout <= N * Fanout
  BY <1>5, <1>6, Rooms
<1> QED
  BY <1>1, <1>6, <1>7, <1>8, <1>9

\* An answer takes the room its worker had.
LEMMA FetchChildrenRoom ==
    ASSUME ItemsInv, RoomForAnswers, NEW w \in Workers, FetchChildren(w)
    PROVE  RoomForAnswers'
<1> DEFINE d == razd[w].task.data
           K == Kids[d]
           L == Listed(hist.answered)
           F == Cardinality(Fetching)
<1>0. TypeOK /\ TaskInOnePlace
  BY DEF ItemsInv, TasksInv
<1>1. /\ razd[w].pc = "fetch" /\ d \in Deps
      /\ hist'.answered = hist.answered \cup {d}
  BY <1>0, HolderTypes DEF FetchChildren, Response
<1>2. /\ \A v \in Workers \ {w} : razd'[v] = razd[v]
      /\ razd'[w].pc = "item"
  BY <1>0, HolderTypes DEF FetchChildren, Free
<1>3. K \cap L = {}
  BY <1>0, <1>1, NewChildren
<1>4. Listed(hist'.answered) = L \cup K
  BY <1>1 DEF Listed
<1>5. /\ IsFiniteSet(K) /\ IsFiniteSet(L) /\ Cardinality(K) <= Fanout
      /\ Cardinality(K) \in Nat /\ Cardinality(L) \in Nat /\ Fanout \in Nat
  BY <1>0, <1>1, CountsAreFinite, FanoutIs, FS_CardinalityType
<1> HIDE DEF d, K, L
<1>6. Cardinality(L \cup K) = Cardinality(L) + Cardinality(K)
  BY <1>3, <1>5, DisjointUnion
<1>7. Fetching' = Fetching \ {w} /\ w \in Fetching
  BY <1>1, <1>2 DEF Fetching
<1>8. Cardinality(Fetching') = F - 1 /\ F \in Nat /\ F - 1 \in Nat
  <2>1. Cardinality(Fetching') = F - 1 /\ F \in Nat
    BY <1>0, <1>7, FetchingFinite, FS_RemoveElement
  <2>2. Cardinality(Fetching') \in Nat
    BY <1>0, <1>7, FetchingFinite, FS_RemoveElement, FS_CardinalityType
  <2> QED
    BY <2>1, <2>2
<1> HIDE DEF F
<1>9. (F - 1) * Fanout = F * Fanout - Fanout /\ F * Fanout \in Nat
      /\ N * Fanout \in Nat /\ Limit \in Nat
  BY <1>5, <1>8, DumpAssumption
<1>10. Limit > 0 => Cardinality(L) + F * Fanout <= Limit + N * Fanout
  BY DEF RoomForAnswers, L, F
<1>11. Limit > 0 =>
           Cardinality(Listed(hist'.answered)) + Cardinality(Fetching') * Fanout
               <= Limit + N * Fanout
  BY <1>4, <1>5, <1>6, <1>8, <1>9, <1>10
<1> QED
  BY <1>11, RoomNext

\* The room left never shrinks otherwise.
LEMMA RoomStep ==
    ASSUME ItemsInv, CountIsExact, OneAnswer, RoomForAnswers, [Next]_vars
    PROVE  RoomForAnswers'
<1>0. TypeOK
  BY DEF ItemsInv, TasksInv
<1>1. ASSUME Fetching' \subseteq Fetching, hist'.answered = hist.answered
      PROVE  RoomForAnswers'
  <2>1. Cardinality(Fetching') <= Cardinality(Fetching) /\ Cardinality(Fetching') \in Nat
    BY <1>0, <1>1, FetchingFinite, FS_Subset, FS_CardinalityType
  <2>2. /\ Cardinality(Fetching) \in Nat /\ Fanout \in Nat /\ N * Fanout \in Nat
        /\ Cardinality(Listed(hist.answered)) \in Nat /\ Limit \in Nat
    BY <1>0, FetchingFinite, FanoutIs, DumpAssumption
  <2>3. /\ Cardinality(Fetching') * Fanout <= Cardinality(Fetching) * Fanout
        /\ Cardinality(Fetching') * Fanout \in Nat /\ Cardinality(Fetching) * Fanout \in Nat
    <3>1. Cardinality(Fetching') + 0 <= Cardinality(Fetching) /\ 0 * Fanout = 0
      BY <2>1, <2>2
    <3> QED
      BY <2>1, <2>2, <3>1, Rooms
  <2>4. Limit > 0 =>
            Cardinality(Listed(hist.answered)) + Cardinality(Fetching') * Fanout
                <= Limit + N * Fanout
    BY <2>2, <2>3 DEF RoomForAnswers
  <2> QED
    BY <1>1, <2>4, RoomNext
<1>2. ASSUME NEW w \in Workers, Prepare(w) \/ \E n \in Nodes : NextItem(w, n)
      PROVE  RoomForAnswers'
  <2>1. /\ \A v \in Workers \ {w} : razd'[v] = razd[v]
        /\ razd'[w].pc # "fetch" /\ hist' = hist
    BY <1>0, <1>2, HolderTypes, ZenonT(60) DEF Prepare, NextItem
  <2> QED
    BY <1>1, <2>1 DEF Fetching
<1> QED
  BY <1>1, <1>2, CountingSteps, FetchRoom, FetchChildrenRoom DEF CountStill

\* The inductive invariant bounds the counter.
LEMMA RoomIsBound ==
    ASSUME TypeOK, CountIsExact, RoomForAnswers
    PROVE  OvershootBounded
<1>1. count <= Cardinality(Listed(hist.answered))
  <2>1. /\ Cardinality(Unreached) \in Nat /\ Cardinality(Preparing) \in Nat
        /\ Cardinality(Listed(hist.answered)) \in Nat
    BY CountsAreFinite, FS_CardinalityType
  <2> QED
    BY <2>1, CountIs
<1>2. /\ Cardinality(Fetching) * Fanout \in Nat /\ N * Fanout \in Nat
      /\ Cardinality(Listed(hist.answered)) \in Nat
      /\ Limit \in Nat /\ count \in Nat
  BY FetchingFinite, FanoutIs, DumpAssumption DEF TypeOK, FlowOK
<1> QED
  BY <1>1, <1>2 DEF RoomForAnswers, OvershootBounded

\* With a limit the dump counts at most one answer for every worker beyond it,
\* however the workers' tests and the counters interleave.
THEOREM OvershootStaysBounded == Spec => []OvershootBounded
<1>1. ItemsInv /\ CountIsExact /\ OneAnswer /\ RoomForAnswers /\ [Next]_vars
          => OneAnswer' /\ RoomForAnswers'
  BY OneAnswerStep, RoomStep
<1>2. TasksInv /\ ItemInOnePlace => ItemsInv
  BY DEF ItemsInv
<1>3. ItemsInv /\ CountIsExact /\ RoomForAnswers => OvershootBounded
  BY RoomIsBound DEF ItemsInv, TasksInv
<1> QED
  BY <1>1, <1>2, <1>3, LateInit, TasksAlways, ItemsStayInOnePlace, CountStaysExact, PTL
  DEF Spec
=============================================================================
