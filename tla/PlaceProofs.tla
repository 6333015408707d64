---------------------------- MODULE PlaceProofs ----------------------------
(***************************************************************************)
(* Theorems about the dump: nothing is duplicated and nothing vanishes.    *)
(*                                                                         *)
(* Departments and elements are seen as tokens.  Every step of the dump    *)
(* either leaves all tokens where they are, or takes one from a holder to  *)
(* another, or, when an answer is used, brings in its children, which no   *)
(* former answer has listed because the organisation is a tree.            *)
(***************************************************************************)
EXTENDS DumpProofs

-----------------------------------------------------------------------------
(* Tokens and holders. *)

\* H[h] is what holder h of S has: no token is in two places, and all of them
\* together are U.
Placed(S, H, U) ==
    /\ \A g, h \in S : g # h => H[g] \cap H[h] = {}
    /\ UNION {H[h] : h \in S} = U

\* Nothing has moved.
LEMMA Unmoved ==
    ASSUME NEW S, NEW H, NEW G, NEW U, Placed(S, H, U),
           \A h \in S : G[h] = H[h]
    PROVE  Placed(S, G, U)
  BY DEF Placed

\* One token has moved from a to b.
LEMMA Moved ==
    ASSUME NEW S, NEW H, NEW G, NEW U, Placed(S, H, U),
           NEW a \in S, NEW b \in S, a # b, NEW d \in H[a],
           G[a] = H[a] \ {d}, G[b] = H[b] \cup {d},
           \A h \in S \ {a, b} : G[h] = H[h]
    PROVE  Placed(S, G, U)
<1>1. ASSUME NEW g \in S, NEW h \in S, g # h PROVE G[g] \cap G[h] = {}
  BY <1>1 DEF Placed
<1>2. ASSUME NEW x \in U PROVE \E h \in S : x \in G[h]
  <2>1. PICK h \in S : x \in H[h]
    BY <1>2 DEF Placed
  <2> QED
    BY <2>1
<1>3. ASSUME NEW h \in S, NEW x \in G[h] PROVE x \in U
  BY <1>3 DEF Placed
<1> QED
  BY <1>1, <1>2, <1>3 DEF Placed

\* Tokens nobody had have come to a.
LEMMA Grown ==
    ASSUME NEW S, NEW H, NEW G, NEW U, NEW K, Placed(S, H, U),
           NEW a \in S, K \cap U = {}, G[a] = H[a] \cup K,
           \A h \in S \ {a} : G[h] = H[h]
    PROVE  Placed(S, G, U \cup K)
<1>1. ASSUME NEW g \in S, NEW h \in S, g # h PROVE G[g] \cap G[h] = {}
  BY <1>1 DEF Placed
<1>2. ASSUME NEW x \in U \cup K PROVE \E h \in S : x \in G[h]
  BY <1>2 DEF Placed
<1>3. ASSUME NEW h \in S, NEW x \in G[h] PROVE x \in U \cup K
  BY <1>3 DEF Placed
<1> QED
  BY <1>1, <1>2, <1>3 DEF Placed

-----------------------------------------------------------------------------
(* Sequences without repetition. *)

\* A queue without repetition keeps that when something new is pushed.
LEMMA AppendUnrepeated ==
    ASSUME NEW S, NEW s \in Seq(S), NEW e \in S, IsInjective(s), e \notin Range(s)
    PROVE  IsInjective(Append(s, e))
<1> DEFINE t == Append(s, e)
<1>1. /\ Len(s) \in Nat
      /\ DOMAIN s = 1..Len(s) /\ DOMAIN t = 1..(Len(s) + 1)
      /\ \A i \in 1..Len(s) : t[i] = s[i]
      /\ t[Len(s) + 1] = e
  BY AppendProperties, LenProperties
<1>2. \A i \in 1..Len(s) : s[i] # e
  BY <1>1 DEF Range
<1> HIDE DEF t
<1>3. IsInjective(t)
  BY <1>1, <1>2 DEF IsInjective
<1> QED
  BY <1>3 DEF t

\* Popping leaves no repetition and removes the popped one.
LEMMA TailUnrepeated ==
    ASSUME NEW S, NEW s \in Seq(S), s # <<>>, IsInjective(s)
    PROVE  /\ IsInjective(Tail(s))
           /\ Range(Tail(s)) = Range(s) \ {Head(s)}
<1>1. /\ Tail(s) \in Seq(S)
      /\ Len(Tail(s)) = Len(s) - 1
      /\ Len(s) \in Nat \ {0}
      /\ Head(s) = s[1]
      /\ \A i \in 1..Len(Tail(s)) : Tail(s)[i] = s[i + 1]
  BY HeadTailProperties, EmptySeq
<1>2. DOMAIN s = 1..Len(s) /\ DOMAIN Tail(s) = 1..(Len(s) - 1)
  BY <1>1, LenProperties
<1>3. IsInjective(Tail(s))
  <2>1. \A i, j \in 1..(Len(s) - 1) : s[i + 1] = s[j + 1] => i + 1 = j + 1
    BY <1>1, <1>2 DEF IsInjective
  <2> QED
    BY <2>1, <1>1, <1>2 DEF IsInjective
<1>4. Head(s) \notin Range(Tail(s))
  <2>1. \A i \in 1..(Len(s) - 1) : s[i + 1] # s[1]
    BY <1>1, <1>2 DEF IsInjective
  <2> QED
    BY <2>1, <1>1, <1>2 DEF Range
<1>5. Range(s) = {Head(s)} \cup Range(Tail(s))
  BY TailType
<1> QED
  BY <1>3, <1>4, <1>5

-----------------------------------------------------------------------------
(* Who holds a department. *)

Holding == [h \in TaskHolders |-> HeldTasks(h)]

Unread(w) == razd[w].todo \cap Deps
Queued(w) == Range(queue[DepQueue(w)])
Popped(w) ==
    IF disp[DepQueue(w)].pc = "send" THEN {disp[DepQueue(w)].hand} ELSE {}
InHand(w) == IF razd[w].pc \in {"check", "fetch"} THEN {razd[w].task.data} ELSE {}
Unstarted == IF starter \in {"root", "aborted"} THEN {Root} ELSE {}
Waiting == {t.data : t \in retries}

HoldingIs ==
    /\ \A w \in Workers : /\ Holding[<<"todo", w>>] = Unread(w)
                          /\ Holding[<<"queue", w>>] = Queued(w)
                          /\ Holding[<<"dispatcher", w>>] = Popped(w)
                          /\ Holding[<<"worker", w>>] = InHand(w)
    /\ Holding[<<"starter", 0>>] = Unstarted
    /\ Holding[<<"retry", 0>>] = Waiting
    /\ Holding[<<"answered", 0>>] = hist.answered
    /\ Holding[<<"dropped", 0>>] = hist.dropped
    /\ Holding[<<"lost", 0>>] = hist.lostTasks

\* The names of the places a department can be in.
LEMMA AreTaskHolders ==
    /\ \A w \in Workers : /\ <<"todo", w>> \in TaskHolders
                          /\ <<"queue", w>> \in TaskHolders
                          /\ <<"dispatcher", w>> \in TaskHolders
                          /\ <<"worker", w>> \in TaskHolders
    /\ <<"starter", 0>> \in TaskHolders /\ <<"retry", 0>> \in TaskHolders
    /\ <<"answered", 0>> \in TaskHolders /\ <<"dropped", 0>> \in TaskHolders
    /\ <<"lost", 0>> \in TaskHolders
  BY DEF TaskHolders

\* What each place has in the current state, and
LEMMA TaskHolding == HoldingIs
<1>1. \A h \in TaskHolders : Holding[h] = HeldTasks(h)
  BY DEF Holding
<1> QED
  BY <1>1, AreTaskHolders, ZenonT(60)
  DEF HoldingIs, HeldTasks, Unread, Queued, Popped, InHand, Unstarted, Waiting

\* in the next one.
LEMMA TaskHoldingNext == HoldingIs'
  BY TaskHolding, PTL

\* A place belongs to a worker or is one of the five shared ones.
LEMMA TaskHolderCases ==
    ASSUME NEW h \in TaskHolders
    PROVE  \/ \E w \in Workers : h \in {<<"todo", w>>, <<"queue", w>>,
                                        <<"dispatcher", w>>, <<"worker", w>>}
           \/ h \in {<<"starter", 0>>, <<"retry", 0>>, <<"answered", 0>>,
                     <<"dropped", 0>>, <<"lost", 0>>}
  BY DEF TaskHolders

\* The two distributions differ in holders of A only.
SameBut(H, G, A) ==
    /\ \A w \in Workers :
          /\ <<"todo", w>> \in A \/ G[<<"todo", w>>] = H[<<"todo", w>>]
          /\ <<"queue", w>> \in A \/ G[<<"queue", w>>] = H[<<"queue", w>>]
          /\ <<"dispatcher", w>> \in A
                \/ G[<<"dispatcher", w>>] = H[<<"dispatcher", w>>]
          /\ <<"worker", w>> \in A \/ G[<<"worker", w>>] = H[<<"worker", w>>]
    /\ <<"starter", 0>> \in A \/ G[<<"starter", 0>>] = H[<<"starter", 0>>]
    /\ <<"retry", 0>> \in A \/ G[<<"retry", 0>>] = H[<<"retry", 0>>]
    /\ <<"answered", 0>> \in A \/ G[<<"answered", 0>>] = H[<<"answered", 0>>]
    /\ <<"dropped", 0>> \in A \/ G[<<"dropped", 0>>] = H[<<"dropped", 0>>]
    /\ <<"lost", 0>> \in A \/ G[<<"lost", 0>>] = H[<<"lost", 0>>]

\* SameBut for every holder at once.
LEMMA OtherTaskHolders ==
    ASSUME NEW H, NEW G, NEW A, SameBut(H, G, A)
    PROVE  \A h \in TaskHolders \ A : G[h] = H[h]
<1> SUFFICES ASSUME NEW h \in TaskHolders \ A PROVE G[h] = H[h]
  OBVIOUS
<1>1. CASE \E w \in Workers : h \in {<<"todo", w>>, <<"queue", w>>,
                                     <<"dispatcher", w>>, <<"worker", w>>}
  BY <1>1 DEF SameBut
<1>2. CASE h \in {<<"starter", 0>>, <<"retry", 0>>, <<"answered", 0>>,
                  <<"dropped", 0>>, <<"lost", 0>>}
  BY <1>2 DEF SameBut
<1> QED
  BY <1>1, <1>2, TaskHolderCases

-----------------------------------------------------------------------------
(* Departments. *)

\* A GetRazd that is not in the middle of an answer has no rest of one.
NoRest ==
    \A w \in Workers :
        razd[w].pc \notin {"item", "prepare", "out"} => razd[w].todo = {}

TasksInv == TypeOK /\ NoRest /\ TaskInOnePlace

\* The invariant in terms of tokens, and
LEMMA TaskInOnePlaceIs ==
    TaskInOnePlace <=>
        /\ Placed(TaskHolders, Holding, Known(hist.answered))
        /\ \A w \in Workers : IsInjective(queue[DepQueue(w)])
        /\ \A t, u \in retries : t.data = u.data => t = u
<1>1. \A h \in TaskHolders : Holding[h] = HeldTasks(h)
  BY DEF Holding
<1>2. UNION {Holding[h] : h \in TaskHolders} = UNION {HeldTasks(h) : h \in TaskHolders}
  BY <1>1
<1> QED
  BY <1>1, <1>2 DEF TaskInOnePlace, Placed

\* the part needed of the next state.
LEMMA TaskInOnePlaceNext ==
    (   /\ Placed(TaskHolders, Holding, Known(hist.answered))
        /\ \A w \in Workers : IsInjective(queue[DepQueue(w)])
        /\ \A t, u \in retries : t.data = u.data => t = u)' => TaskInOnePlace'
  BY TaskInOnePlaceIs, PTL

\* At the start the root is with the starter and nothing is known yet.
LEMMA TasksInit == Init => NoRest /\ TaskInOnePlace
<1> SUFFICES ASSUME Init PROVE NoRest /\ TaskInOnePlace
  OBVIOUS
<1> USE ConstantTypes
<1>1. NoRest
  BY FreeType DEF Init, NoRest, Free
<1>2. \A w \in Workers : /\ queue[DepQueue(w)] = <<>>
                         /\ disp[DepQueue(w)].pc # "send"
                         /\ razd[w].todo = {}
                         /\ razd[w].pc \notin {"check", "fetch"}
  BY DEF Init, Free, AtStart
<1>3. Range(<<>>) = {} /\ IsInjective(<<>>)
  BY DEF Range, IsInjective
<1>4. /\ starter \in {"root", "aborted"} /\ retries = {}
      /\ hist.answered = {} /\ hist.dropped = {} /\ hist.lostTasks = {}
  BY DEF Init, NoHistory
<1>5. Known(hist.answered) = {Root}
  BY <1>4 DEF Known, Listed
<1>6. \A h \in TaskHolders :
          Holding[h] = [g \in TaskHolders |->
                            IF g = <<"starter", 0>> THEN {Root} ELSE {}][h]
  <2> DEFINE G == [g \in TaskHolders |-> IF g = <<"starter", 0>> THEN {Root} ELSE {}]
  <2>1. \A w \in Workers :
            /\ Holding[<<"todo", w>>] = {} /\ Holding[<<"queue", w>>] = {}
            /\ Holding[<<"dispatcher", w>>] = {} /\ Holding[<<"worker", w>>] = {}
    BY TaskHolding, <1>2, <1>3 DEF HoldingIs, Unread, Queued, Popped, InHand
  <2>2. /\ Holding[<<"starter", 0>>] = {Root} /\ Holding[<<"retry", 0>>] = {}
        /\ Holding[<<"answered", 0>>] = {} /\ Holding[<<"dropped", 0>>] = {}
        /\ Holding[<<"lost", 0>>] = {}
    BY TaskHolding, <1>4 DEF HoldingIs, Unstarted, Waiting
  <2>3. \A w \in Workers :
            /\ G[<<"todo", w>>] = {} /\ G[<<"queue", w>>] = {}
            /\ G[<<"dispatcher", w>>] = {} /\ G[<<"worker", w>>] = {}
    BY AreTaskHolders
  <2>4. /\ G[<<"starter", 0>>] = {Root} /\ G[<<"retry", 0>>] = {}
        /\ G[<<"answered", 0>>] = {} /\ G[<<"dropped", 0>>] = {}
        /\ G[<<"lost", 0>>] = {}
    BY AreTaskHolders
  <2> HIDE DEF G
  <2>5. \A h \in TaskHolders \ {} : Holding[h] = G[h]
    <3>1. SameBut(G, Holding, {})
      BY <2>1, <2>2, <2>3, <2>4 DEF SameBut
    <3> QED
      BY <3>1, OtherTaskHolders
  <2> QED
    BY <2>5 DEF G
<1>7. Placed(TaskHolders, Holding, Known(hist.answered))
  BY <1>5, <1>6, AreTaskHolders DEF Placed
<1> QED
  BY <1>1, <1>2, <1>3, <1>4, <1>7, TaskInOnePlaceIs

\* One department moves.
LEMMA TaskMoved ==
    ASSUME TaskInOnePlace, NEW a \in TaskHolders, NEW b \in TaskHolders, a # b,
           NEW d \in Holding[a],
           Holding'[a] = Holding[a] \ {d}, Holding'[b] = Holding[b] \cup {d},
           SameBut(Holding, Holding', {a, b}),
           hist'.answered = hist.answered,
           \A w \in Workers : IsInjective(queue'[DepQueue(w)]),
           \A t, u \in retries' : t.data = u.data => t = u
    PROVE  TaskInOnePlace'
<1>1. Placed(TaskHolders, Holding, Known(hist.answered))
  BY TaskInOnePlaceIs
<1>2. \A h \in TaskHolders \ {a, b} : Holding'[h] = Holding[h]
  BY OtherTaskHolders
<1>3. Placed(TaskHolders, Holding', Known(hist'.answered))
  BY <1>1, <1>2, Moved
<1> QED
  BY <1>3, TaskInOnePlaceNext

\* Steps that leave the queues alone,
LEMMA SameQueues ==
    ASSUME TaskInOnePlace, UNCHANGED queue
    PROVE  \A w \in Workers : IsInjective(queue'[DepQueue(w)])
  BY DEF TaskInOnePlace

\* or the retries, keep that part.
LEMMA SameRetries ==
    ASSUME TaskInOnePlace, UNCHANGED retries
    PROVE  \A t, u \in retries' : t.data = u.data => t = u
  BY DEF TaskInOnePlace

\* No department moves.
TasksStill ==
    /\ \A w \in Workers : /\ queue'[DepQueue(w)] = queue[DepQueue(w)]
                          /\ Unread(w)' = Unread(w)
                          /\ Popped(w)' = Popped(w)
                          /\ InHand(w)' = InHand(w)
    /\ retries' = retries
    /\ Unstarted' = Unstarted
    /\ hist'.answered = hist.answered
    /\ hist'.dropped = hist.dropped
    /\ hist'.lostTasks = hist.lostTasks

\* Where a department is depends on these variables only.
LEMMA StillTasks ==
    ASSUME UNCHANGED <<queue, disp, razd, retries, starter, hist>>
    PROVE  TasksStill
  BY DEF TasksStill, Unread, Popped, InHand, Unstarted

\* The invariant survives a step that moves no department.
LEMMA TasksStillInPlace ==
    ASSUME TaskInOnePlace, TasksStill
    PROVE  TaskInOnePlace'
<1>1. Placed(TaskHolders, Holding, Known(hist.answered))
  BY TaskInOnePlaceIs
<1>2. \A w \in Workers : Queued(w)' = Queued(w)
  BY DEF TasksStill, Queued
<1>3. Waiting' = Waiting
  BY DEF TasksStill, Waiting
<1>4. SameBut(Holding, Holding', {})
  BY <1>2, <1>3, TaskHolding, TaskHoldingNext DEF HoldingIs, TasksStill, SameBut
<1>5. \A h \in TaskHolders \ {} : Holding'[h] = Holding[h]
  BY <1>4, OtherTaskHolders
<1>6. Placed(TaskHolders, Holding', Known(hist'.answered))
  BY <1>1, <1>5, Unmoved DEF TasksStill
<1> QED
  BY <1>6, TaskInOnePlaceIs, TaskInOnePlaceNext DEF TasksStill

\* What TypeOK says of the variables that hold departments.
LEMMA HolderTypes ==
    ASSUME TypeOK
    PROVE  /\ queue \in [Queues -> Seq(Nodes)]
           /\ disp \in [Queues -> [pc : {"idle", "loop", "send", "exited"}, hand : Nodes]]
           /\ razd \in [Workers ->
                  [pc : {"select", "check", "fetch", "item", "prepare", "out", "exited"},
                   task : Tasks, todo : SUBSET Nodes, item : Nodes]]
           /\ retries \subseteq Tasks
           /\ \A t \in Tasks : t.data \in Deps
           /\ hist \in [answered : SUBSET Deps, dropped : SUBSET Deps,
                        lostTasks : SUBSET Deps, lostItems : SUBSET Nodes,
                        fetches : [Deps -> Nat], rows : [Nodes -> Nat]]
  BY DEF TypeOK, QueuesOK, RazdOK, FlowOK, HistOK, Tasks

\* One entry of disp, razd or queue has changed.
LEMMA PoppedHold ==
    ASSUME TypeOK, NEW q \in Queues, Hold(q)
    PROVE  \A w \in Workers :
              Popped(w)' = IF DepQueue(w) # q THEN Popped(w) ELSE {Head(queue[q])}
  BY ConstantTypes, HolderTypes DEF Popped, Hold

\* A dispatcher in any other place of its loop has none.
LEMMA PoppedTurn ==
    ASSUME TypeOK, NEW q \in Queues, NEW pc, pc # "send", Turn(q, pc)
    PROVE  \A w \in Workers :
              Popped(w)' = IF DepQueue(w) # q THEN Popped(w) ELSE {}
  BY ConstantTypes, HolderTypes DEF Popped, Turn

\* What a step of one GetRazd changes in the hands of all.
LEMMA RazdNext ==
    ASSUME TypeOK, NEW w \in Workers, NEW x, razd' = [razd EXCEPT ![w] = x]
    PROVE  /\ \A v \in Workers \ {w} : /\ Unread(v)' = Unread(v)
                                       /\ InHand(v)' = InHand(v)
           /\ Unread(w)' = x.todo \cap Deps
           /\ InHand(w)' = IF x.pc \in {"check", "fetch"} THEN {x.task.data} ELSE {}
<1>1. razd'[w] = x /\ \A v \in Workers \ {w} : razd'[v] = razd[v]
  BY HolderTypes
<1> QED
  BY <1>1 DEF Unread, InHand

\* What Pop changes in the queues.
LEMMA QueuedTail ==
    ASSUME TypeOK, NEW q \in Queues, Pop(q)
    PROVE  \A w \in Workers :
              /\ queue'[DepQueue(w)] = IF DepQueue(w) # q THEN queue[DepQueue(w)]
                                                          ELSE Tail(queue[q])
              /\ Queued(w)' = IF DepQueue(w) # q THEN Queued(w) ELSE Range(Tail(queue[q]))
  BY ConstantTypes, HolderTypes DEF Queued, Pop

\* What a push changes in the queues.
LEMMA QueuedPushed ==
    ASSUME TypeOK, NEW q \in Queues, NEW n \in Nodes, PushBack(q, n)
    PROVE  \A w \in Workers :
              /\ queue'[DepQueue(w)] = IF DepQueue(w) # q THEN queue[DepQueue(w)]
                                                          ELSE Append(queue[q], n)
              /\ Queued(w)' = IF DepQueue(w) # q THEN Queued(w) ELSE Queued(w) \cup {n}
<1>1. queue[q] \in Seq(Nodes) /\ queue' = [queue EXCEPT ![q] = Append(queue[q], n)]
  BY HolderTypes DEF PushBack
<1>2. Range(Append(queue[q], n)) = Range(queue[q]) \cup {n}
  BY <1>1, AppendType
<1> QED
  BY <1>1, <1>2, ConstantTypes, HolderTypes DEF Queued

\* A worker receives a task.
LEMMA Received ==
    ASSUME TypeOK, NoRest, NEW w \in Workers, NEW t \in Tasks, Receive(w, t)
    PROVE  /\ \A v \in Workers : Unread(v)' = Unread(v)
           /\ \A v \in Workers \ {w} : InHand(v)' = InHand(v)
           /\ InHand(w) = {} /\ InHand(w)' = {t.data}
<1>1. razd[w].pc = "select" /\ \A v \in Workers \ {w} : razd'[v] = razd[v]
  BY HolderTypes DEF Receive
<1>2. razd'[w].pc = "check" /\ razd'[w].task = t /\ razd'[w].todo = razd[w].todo
  BY HolderTypes DEF Receive
<1>3. \A v \in Workers : Unread(v)' = Unread(v)
  BY <1>1, <1>2 DEF Unread
<1>4. \A v \in Workers \ {w} : InHand(v)' = InHand(v)
  BY <1>1 DEF InHand
<1>5. InHand(w) = {} /\ InHand(w)' = {t.data}
  BY <1>1, <1>2 DEF InHand
<1> QED
  BY <1>3, <1>4, <1>5

\* From the queue to the dispatcher, and to a worker or back to the queue.
LEMMA DispatcherTasks ==
    ASSUME TasksInv, NEW q \in Queues, Dispatcher(q)
    PROVE  TaskInOnePlace'
<1> USE ConstantTypes
<1>0. TypeOK /\ NoRest /\ TaskInOnePlace
  BY DEF TasksInv
<1>t. HoldingIs /\ HoldingIs'
  BY TaskHolding, TaskHoldingNext
<1>s. ASSUME UNCHANGED <<razd, starter>>
      PROVE  /\ \A w \in Workers : Unread(w)' = Unread(w) /\ InHand(w)' = InHand(w)
             /\ Unstarted' = Unstarted
  BY <1>s DEF Unread, InHand, Unstarted
<1>r. UNCHANGED retries => Waiting' = Waiting
  BY DEF Waiting
<1>1. CASE Pop(q)
  <2> DEFINE s == queue[q]
             d == Head(s)
  <2>1. s \in Seq(Nodes) /\ s # <<>> /\ disp[q].pc # "send"
    BY <1>0, <1>1, HolderTypes DEF Pop, AtPop
  <2>2. Hold(q) /\ UNCHANGED <<razd, retries, starter, hist>>
    BY <1>1 DEF Pop, control
  <2>3. ASSUME NEW v \in Workers, q = DepQueue(v)
        PROVE  TaskInOnePlace'
    <3>1. IsInjective(s)
      BY <1>0, <2>3 DEF TaskInOnePlace
    <3>2. /\ d \in Range(s) /\ Range(Tail(s)) = Range(s) \ {d} /\ IsInjective(Tail(s))
      BY <2>1, <3>1, TailType, TailUnrepeated
    <3>3. Queued(v) = Range(s) /\ Popped(v) = {}
      BY <2>1, <2>3 DEF Queued, Popped
    <3>4. \A w \in Workers :
              /\ queue'[DepQueue(w)] = IF w # v THEN queue[DepQueue(w)] ELSE Tail(s)
              /\ Queued(w)' = IF w # v THEN Queued(w) ELSE Range(s) \ {d}
              /\ Popped(w)' = IF w # v THEN Popped(w) ELSE {d}
      <4>1. \A w \in Workers : DepQueue(w) = q <=> w = v
        BY <2>3
      <4> QED
        BY <1>0, <1>1, <2>2, <3>2, <4>1, QueuedTail, PoppedHold
    <3> HIDE DEF s, d
    <3>5. SameBut(Holding, Holding', {<<"queue", v>>, <<"dispatcher", v>>})
      BY <1>t, <1>s, <1>r, <2>2, <3>4 DEF HoldingIs, SameBut
    <3>a. /\ Holding[<<"queue", v>>] = Range(s)
          /\ Holding'[<<"queue", v>>] = Range(s) \ {d}
          /\ Holding[<<"dispatcher", v>>] = {} /\ Holding'[<<"dispatcher", v>>] = {d}
      BY <1>t, <3>3, <3>4 DEF HoldingIs
    <3>6. /\ d \in Holding[<<"queue", v>>]
          /\ Holding'[<<"queue", v>>] = Holding[<<"queue", v>>] \ {d}
          /\ Holding'[<<"dispatcher", v>>] = Holding[<<"dispatcher", v>>] \cup {d}
      BY <3>2, <3>a
    <3>7. \A w \in Workers : IsInjective(queue'[DepQueue(w)])
      BY <1>0, <3>2, <3>4 DEF TaskInOnePlace
    <3> QED
      BY <1>0, <2>2, <3>5, <3>6, <3>7, SameRetries, TaskMoved, AreTaskHolders
  <2>4. CASE \A v \in Workers : q # DepQueue(v)
    <3>1. \A w \in Workers : queue'[DepQueue(w)] = queue[DepQueue(w)]
                              /\ Popped(w)' = Popped(w)
      BY <1>0, <1>1, <2>2, <2>4, QueuedTail, PoppedHold
    <3> QED
      BY <1>0, <1>s, <2>2, <3>1, TasksStillInPlace DEF TasksStill
  <2> QED
    BY <2>3, <2>4
<1>2. CASE LoopEnd(q) \/ DispatcherExit(q)
  <2>1. PICK pc \in {"idle", "exited"} : Turn(q, pc)
    BY <1>2 DEF LoopEnd, AfterLoop, DispatcherExit
  <2>2. disp[q].pc # "send" /\ UNCHANGED <<queue, razd, retries, starter, hist>>
    BY <1>2 DEF LoopEnd, DispatcherExit, control
  <2>3. \A w \in Workers : Popped(w)' = Popped(w)
    <3>1. \A w \in Workers : DepQueue(w) = q => Popped(w) = {}
      BY <2>2 DEF Popped
    <3> QED
      BY <1>0, <2>1, <3>1, PoppedTurn
  <2> QED
    BY <1>0, <1>s, <2>2, <2>3, TasksStillInPlace DEF TasksStill
<1>3. CASE ReturnToQueue(q)
  <2> DEFINE s == queue[q]
             d == disp[q].hand
  <2>1. s \in Seq(Nodes) /\ d \in Nodes /\ disp[q].pc = "send"
    BY <1>0, <1>3, HolderTypes DEF ReturnToQueue
  <2>2. PushBack(q, d) /\ Turn(q, "exited") /\ UNCHANGED <<razd, retries, starter, hist>>
    BY <1>3 DEF ReturnToQueue, control
  <2>3. ASSUME NEW v \in Workers, q = DepQueue(v)
        PROVE  TaskInOnePlace'
    <3>1. IsInjective(s)
      BY <1>0, <2>3 DEF TaskInOnePlace
    <3>2. Queued(v) = Range(s) /\ Popped(v) = {d}
      BY <2>1, <2>3 DEF Queued, Popped
    <3> HIDE DEF s, d
    <3>3. d \notin Range(s)
      <4>1. Placed(TaskHolders, Holding, Known(hist.answered))
        BY <1>0, TaskInOnePlaceIs
      <4>2. Holding[<<"queue", v>>] \cap Holding[<<"dispatcher", v>>] = {}
        BY <4>1, AreTaskHolders DEF Placed
      <4>3. Range(s) \cap {d} = {}
        BY <1>t, <3>2, <4>2 DEF HoldingIs
      <4> QED
        BY <4>3
    <3>4. IsInjective(Append(s, d))
      BY <2>1, <3>1, <3>3, AppendUnrepeated
    <3>5. \A w \in Workers :
              /\ queue'[DepQueue(w)] = IF w # v THEN queue[DepQueue(w)] ELSE Append(s, d)
              /\ Queued(w)' = IF w # v THEN Queued(w) ELSE Queued(w) \cup {d}
              /\ Popped(w)' = IF w # v THEN Popped(w) ELSE {}
      <4>1. \A w \in Workers : DepQueue(w) = q <=> w = v
        BY <2>3
      <4> QED
        BY <1>0, <2>1, <2>2, <4>1, QueuedPushed, PoppedTurn DEF s
    <3>6. SameBut(Holding, Holding', {<<"dispatcher", v>>, <<"queue", v>>})
      BY <1>t, <1>s, <1>r, <2>2, <3>5 DEF HoldingIs, SameBut
    <3>7. /\ Holding[<<"dispatcher", v>>] = {d} /\ Holding'[<<"dispatcher", v>>] = {}
          /\ Holding'[<<"queue", v>>] = Holding[<<"queue", v>>] \cup {d}
      BY <1>t, <3>2, <3>5 DEF HoldingIs
    <3>a. d \in Holding[<<"dispatcher", v>>]
          /\ Holding'[<<"dispatcher", v>>] = Holding[<<"dispatcher", v>>] \ {d}
      BY <3>7
    <3>8. \A w \in Workers : IsInjective(queue'[DepQueue(w)])
      BY <1>0, <3>4, <3>5 DEF TaskInOnePlace
    <3> QED
      BY <1>0, <2>2, <3>6, <3>7, <3>a, <3>8, SameRetries, TaskMoved, AreTaskHolders
  <2>4. CASE \A v \in Workers : q # DepQueue(v)
    <3>1. \A w \in Workers : queue'[DepQueue(w)] = queue[DepQueue(w)]
                              /\ Popped(w)' = Popped(w)
      BY <1>0, <2>1, <2>2, <2>4, QueuedPushed, PoppedTurn
    <3> QED
      BY <1>0, <1>s, <2>2, <3>1, TasksStillInPlace DEF TasksStill
  <2> QED
    BY <2>3, <2>4
<1>4. CASE SendPanics(q)
  <2>1. UNCHANGED <<queue, disp, razd, retries, starter, hist>>
    BY <1>4 DEF SendPanics, Panic
  <2> QED
    BY <1>0, <2>1, StillTasks, TasksStillInPlace
<1>5. ASSUME NEW v \in Workers, NEW w \in Workers, q = DepQueue(v), DispatchRazd(v, w)
      PROVE  TaskInOnePlace'
  <2> DEFINE d == disp[q].hand
  <2>1. /\ disp[q].pc = "send" /\ Receive(w, NewTask(d)) /\ Turn(q, "loop")
        /\ UNCHANGED <<queue, retries, starter, hist>>
    BY <1>5 DEF DispatchRazd, control
  <2>2. d \in Deps /\ NewTask(d) \in Tasks /\ NewTask(d).data = d
    BY <1>0, <1>5 DEF TypeOK, QueuesOK, NewTask
  <2>3. Popped(v) = {d}
    BY <1>5, <2>1 DEF Popped
  <2> HIDE DEF d
  <2>4. \A u \in Workers : Popped(u)' = IF u # v THEN Popped(u) ELSE {}
    BY <1>0, <1>5, <2>1, PoppedTurn
  <2>5. /\ \A u \in Workers : Unread(u)' = Unread(u)
        /\ \A u \in Workers \ {w} : InHand(u)' = InHand(u)
        /\ InHand(w) = {} /\ InHand(w)' = {d}
    BY <1>0, <2>1, <2>2, Received
  <2>6. /\ \A u \in Workers : Queued(u)' = Queued(u)
        /\ Unstarted' = Unstarted
    BY <2>1 DEF Queued, Unstarted
  <2>7. SameBut(Holding, Holding', {<<"dispatcher", v>>, <<"worker", w>>})
    BY <1>t, <1>r, <2>1, <2>4, <2>5, <2>6 DEF HoldingIs, SameBut
  <2>8. /\ Holding[<<"dispatcher", v>>] = {d} /\ Holding'[<<"dispatcher", v>>] = {}
        /\ Holding[<<"worker", w>>] = {} /\ Holding'[<<"worker", w>>] = {d}
    BY <1>t, <2>3, <2>4, <2>5 DEF HoldingIs
  <2>9. /\ d \in Holding[<<"dispatcher", v>>]
        /\ Holding'[<<"dispatcher", v>>] = Holding[<<"dispatcher", v>>] \ {d}
        /\ Holding'[<<"worker", w>>] = Holding[<<"worker", w>>] \cup {d}
    BY <2>8
  <2> QED
    BY <1>0, <2>1, <2>7, <2>9, SameQueues, SameRetries, TaskMoved, AreTaskHolders
<1>6. ASSUME NEW v \in Workers, NEW w \in Workers, q = AvatarQueue(v), DispatchAvatar(v, w)
      PROVE  TaskInOnePlace'
  <2>1. Turn(q, "loop") /\ UNCHANGED <<queue, razd, retries, starter, hist>>
    BY <1>6 DEF DispatchAvatar, control
  <2>2. \A u \in Workers : Popped(u)' = Popped(u)
    BY <1>0, <1>6, <2>1, PoppedTurn
  <2> QED
    BY <1>0, <1>s, <2>1, <2>2, TasksStillInPlace DEF TasksStill
<1> QED
  BY <1>1, <1>2, <1>3, <1>4, <1>5, <1>6 DEF Dispatcher


\* A department that some holder has is nowhere else.
LEMMA HeldOnce ==
    ASSUME TaskInOnePlace, NEW a \in TaskHolders, NEW b \in TaskHolders, a # b,
           NEW d \in Holding[a]
    PROVE  d \notin Holding[b]
  BY TaskInOnePlaceIs DEF Placed

\* Steps that leave queues, dispatchers and the root alone.
LEMMA OthersStill ==
    ASSUME UNCHANGED <<queue, disp, starter>>
    PROVE  /\ \A v \in Workers : Queued(v)' = Queued(v) /\ Popped(v)' = Popped(v)
           /\ Unstarted' = Unstarted
  BY DEF Queued, Popped, Unstarted

\* The goroutine of a retry ends: one department waits no longer.
LEMMA WaitingWithout ==
    ASSUME TaskInOnePlace, NEW t \in retries, retries' = retries \ {t}
    PROVE  /\ t.data \in Waiting /\ Waiting' = Waiting \ {t.data}
           /\ \A u, v \in retries' : u.data = v.data => u = v
<1>1. \A u, v \in retries : u.data = v.data => u = v
  BY DEF TaskInOnePlace
<1>2. \A u \in retries' : u \in retries /\ u.data # t.data
  BY <1>1
<1>3. \A u \in retries : u.data = t.data \/ u \in retries'
  BY <1>1
<1> QED
  BY <1>1, <1>2, <1>3 DEF Waiting

\* A retry goes to a worker, or is lost at a cancellation or a panic.
LEMMA RetryTasks ==
    ASSUME TasksInv, NEW t \in Tasks, Retry(t)
    PROVE  TaskInOnePlace'
<1>0. TypeOK /\ NoRest /\ TaskInOnePlace
  BY DEF TasksInv
<1>t. HoldingIs /\ HoldingIs'
  BY TaskHolding, TaskHoldingNext
<1>1. ASSUME NEW w \in Workers, RetrySend(t, w)
      PROVE  TaskInOnePlace'
  <2>1. /\ t \in retries /\ retries' = retries \ {t} /\ Receive(w, t)
        /\ UNCHANGED <<queue, disp, starter, hist>>
    BY <1>1 DEF RetrySend, control
  <2>2. /\ t.data \in Waiting /\ Waiting' = Waiting \ {t.data}
        /\ \A u, v \in retries' : u.data = v.data => u = v
    BY <1>0, <2>1, WaitingWithout
  <2>3. /\ \A v \in Workers : Unread(v)' = Unread(v)
        /\ \A v \in Workers \ {w} : InHand(v)' = InHand(v)
        /\ InHand(w) = {} /\ InHand(w)' = {t.data}
    BY <1>0, <2>1, Received
  <2>4. /\ \A v \in Workers : Queued(v)' = Queued(v) /\ Popped(v)' = Popped(v)
        /\ Unstarted' = Unstarted
    BY <2>1, OthersStill
  <2>5. SameBut(Holding, Holding', {<<"retry", 0>>, <<"worker", w>>})
    BY <1>t, <2>1, <2>3, <2>4 DEF HoldingIs, SameBut
  <2>6. /\ t.data \in Holding[<<"retry", 0>>]
        /\ Holding'[<<"retry", 0>>] = Holding[<<"retry", 0>>] \ {t.data}
        /\ Holding'[<<"worker", w>>] = Holding[<<"worker", w>>] \cup {t.data}
    <3>1. /\ Holding[<<"retry", 0>>] = Waiting /\ Holding'[<<"retry", 0>>] = Waiting'
          /\ Holding[<<"worker", w>>] = {} /\ Holding'[<<"worker", w>>] = {t.data}
      BY <1>t, <2>3 DEF HoldingIs
    <3> QED
      BY <2>2, <3>1
  <2> QED
    BY <1>0, <2>1, <2>2, <2>5, <2>6, SameQueues, TaskMoved, AreTaskHolders
<1>2. CASE RetryCancelled(t)
  <2>1. /\ t \in retries /\ retries' = retries \ {t}
        /\ UNCHANGED <<queue, disp, razd, starter>>
        /\ hist'.answered = hist.answered /\ hist'.dropped = hist.dropped
        /\ hist'.lostTasks = hist.lostTasks \cup {t.data}
    BY <1>0, <1>2, HolderTypes DEF RetryCancelled, control
  <2>2. /\ t.data \in Waiting /\ Waiting' = Waiting \ {t.data}
        /\ \A u, v \in retries' : u.data = v.data => u = v
    BY <1>0, <2>1, WaitingWithout
  <2>3. \A v \in Workers : Unread(v)' = Unread(v) /\ InHand(v)' = InHand(v)
    BY <2>1 DEF Unread, InHand
  <2>4. /\ \A v \in Workers : Queued(v)' = Queued(v) /\ Popped(v)' = Popped(v)
        /\ Unstarted' = Unstarted
    BY <2>1, OthersStill
  <2>5. SameBut(Holding, Holding', {<<"retry", 0>>, <<"lost", 0>>})
    BY <1>t, <2>1, <2>3, <2>4 DEF HoldingIs, SameBut
  <2>6. /\ t.data \in Holding[<<"retry", 0>>]
        /\ Holding'[<<"retry", 0>>] = Holding[<<"retry", 0>>] \ {t.data}
        /\ Holding'[<<"lost", 0>>] = Holding[<<"lost", 0>>] \cup {t.data}
    BY <1>t, <2>1, <2>2 DEF HoldingIs
  <2> QED
    BY <1>0, <2>1, <2>2, <2>5, <2>6, SameQueues, TaskMoved, AreTaskHolders
<1>3. CASE RetryPanics(t)
  <2>1. UNCHANGED <<queue, disp, razd, retries, starter, hist>>
    BY <1>3 DEF RetryPanics, Panic
  <2> QED
    BY <1>0, <2>1, StillTasks, TasksStillInPlace
<1> QED
  BY <1>1, <1>2, <1>3 DEF Retry

\* The starter hands the root section to a worker.
LEMMA StarterTasks ==
    ASSUME TasksInv, Starter
    PROVE  TaskInOnePlace'
<1> USE ConstantTypes
<1>0. TypeOK /\ NoRest /\ TaskInOnePlace
  BY DEF TasksInv
<1>t. HoldingIs /\ HoldingIs'
  BY TaskHolding, TaskHoldingNext
<1>1. ASSUME NEW w \in Workers, StartRoot(w)
      PROVE  TaskInOnePlace'
  <2>1. /\ starter = "root" /\ starter' = "wait" /\ Receive(w, NewTask(Root))
        /\ UNCHANGED <<queue, disp, retries, hist>>
    BY <1>1 DEF StartRoot
  <2>2. NewTask(Root) \in Tasks /\ NewTask(Root).data = Root
    BY DEF NewTask
  <2>3. /\ \A v \in Workers : Unread(v)' = Unread(v)
        /\ \A v \in Workers \ {w} : InHand(v)' = InHand(v)
        /\ InHand(w) = {} /\ InHand(w)' = {Root}
    BY <1>0, <2>1, <2>2, Received
  <2>4. \A v \in Workers : Queued(v)' = Queued(v) /\ Popped(v)' = Popped(v)
    BY <2>1 DEF Queued, Popped
  <2>5. Unstarted = {Root} /\ Unstarted' = {} /\ Waiting' = Waiting
    BY <2>1 DEF Unstarted, Waiting
  <2>6. SameBut(Holding, Holding', {<<"starter", 0>>, <<"worker", w>>})
    BY <1>t, <2>1, <2>3, <2>4, <2>5 DEF HoldingIs, SameBut
  <2>7. /\ Holding[<<"starter", 0>>] = {Root} /\ Holding'[<<"starter", 0>>] = {}
        /\ Holding[<<"worker", w>>] = {} /\ Holding'[<<"worker", w>>] = {Root}
    BY <1>t, <2>3, <2>5 DEF HoldingIs
  <2>8. /\ Root \in Holding[<<"starter", 0>>]
        /\ Holding'[<<"starter", 0>>] = Holding[<<"starter", 0>>] \ {Root}
        /\ Holding'[<<"worker", w>>] = Holding[<<"worker", w>>] \cup {Root}
    BY <2>7
  <2> QED
    BY <1>0, <2>1, <2>6, <2>8, SameQueues, SameRetries, TaskMoved, AreTaskHolders
<1>2. CASE WaitReturns \/ CloseAvatar \/ CloseRazd \/ CloseOut
  <2>1. /\ starter \notin {"root", "aborted"} /\ starter' \notin {"root", "aborted"}
        /\ UNCHANGED <<queue, disp, razd, retries, hist>>
    BY <1>2 DEF WaitReturns, CloseAvatar, CloseRazd, CloseOut, StarterStep
  <2>2. TasksStill
    BY <2>1 DEF TasksStill, Unread, Popped, InHand, Unstarted
  <2> QED
    BY <1>0, <2>2, TasksStillInPlace
<1> QED
  BY <1>1, <1>2 DEF Starter

-----------------------------------------------------------------------------
(* GetRazd. *)

\* A GetRazd leaves its task, for the select or for good.
Freed(w, pc) == razd' = [razd EXCEPT ![w] = Free(pc)]

\* A worker whose task has ended holds no department.
LEMMA FreedWorker ==
    ASSUME TypeOK, NoRest, NEW w \in Workers, NEW pc \in {"select", "exited"},
           Freed(w, pc), razd[w].pc \in {"select", "check", "fetch"}
    PROVE  /\ \A v \in Workers : Unread(v)' = Unread(v)
           /\ \A v \in Workers \ {w} : InHand(v)' = InHand(v)
           /\ InHand(w)' = {}
<1>1. razd'[w] = Free(pc) /\ \A v \in Workers \ {w} : razd'[v] = razd[v]
  BY HolderTypes DEF Freed
<1>2. Free(pc).pc = pc /\ Free(pc).todo = {}
  BY DEF Free
<1>3. Unread(w) = {}
  BY DEF NoRest, Unread
<1>4. \A v \in Workers : Unread(v)' = Unread(v)
  BY <1>1, <1>2, <1>3 DEF Unread
<1>5. \A v \in Workers \ {w} : InHand(v)' = InHand(v)
  BY <1>1 DEF InHand
<1>6. InHand(w)' = {}
  BY <1>1, <1>2 DEF InHand
<1> QED
  BY <1>4, <1>5, <1>6

\* A task ends in one of the sets of the history, or in a retry.
LEMMA TaskEnded ==
    ASSUME TasksInv, NEW w \in Workers, NEW pc \in {"select", "exited"},
           Freed(w, pc), razd[w].pc \in {"check", "fetch"},
           UNCHANGED <<queue, disp, starter>>,
           NEW b \in {<<"retry", 0>>, <<"dropped", 0>>, <<"lost", 0>>},
           /\ Holding'[b] = Holding[b] \cup {razd[w].task.data}
           /\ b = <<"retry", 0>> \/ UNCHANGED retries
           /\ b = <<"dropped", 0>> \/ hist'.dropped = hist.dropped
           /\ b = <<"lost", 0>> \/ hist'.lostTasks = hist.lostTasks
           /\ hist'.answered = hist.answered,
           \A t, u \in retries' : t.data = u.data => t = u
    PROVE  TaskInOnePlace'
<1> DEFINE d == razd[w].task.data
           a == <<"worker", w>>
<1>0. TypeOK /\ NoRest /\ TaskInOnePlace
  BY DEF TasksInv
<1>t. HoldingIs /\ HoldingIs'
  BY TaskHolding, TaskHoldingNext
<1>1. InHand(w) = {d}
  BY DEF InHand
<1>2. /\ \A v \in Workers : Unread(v)' = Unread(v)
      /\ \A v \in Workers \ {w} : InHand(v)' = InHand(v)
      /\ InHand(w)' = {}
  BY <1>0, FreedWorker
<1>3. /\ \A v \in Workers : Queued(v)' = Queued(v) /\ Popped(v)' = Popped(v)
      /\ Unstarted' = Unstarted
  BY OthersStill
<1> HIDE DEF d
<1>4. UNCHANGED retries => Waiting' = Waiting
  BY DEF Waiting
<1>5. SameBut(Holding, Holding', {a, b})
  BY <1>t, <1>2, <1>3, <1>4 DEF HoldingIs, SameBut
<1>6. Holding[a] = {d} /\ Holding'[a] = {}
  BY <1>t, <1>1, <1>2 DEF HoldingIs
<1>7. d \in Holding[a] /\ Holding'[a] = Holding[a] \ {d} /\ Holding'[b] = Holding[b] \cup {d}
  BY <1>6 DEF d
<1>8. a \in TaskHolders /\ b \in TaskHolders /\ a # b
  <2>1. a \in TaskHolders /\ b \in TaskHolders
    BY AreTaskHolders
  <2>2. a[1] = "worker" /\ b[1] # "worker"
    OBVIOUS
  <2> QED
    BY <2>1, <2>2
<1> HIDE DEF a
<1> QED
  BY <1>0, <1>5, <1>7, <1>8, SameQueues, TaskMoved

\* A failed request loses its department.
LEMMA FailTasks ==
    ASSUME TasksInv, NEW w \in Workers, razd[w].pc \in {"check", "fetch"}, Fail(w)
    PROVE  TaskInOnePlace'
<1>0. TypeOK /\ TaskInOnePlace
  BY DEF TasksInv
<1>t. HoldingIs /\ HoldingIs'
  BY TaskHolding, TaskHoldingNext
<1>1. /\ Freed(w, "exited") /\ UNCHANGED <<queue, disp, starter, retries>>
      /\ hist'.answered = hist.answered /\ hist'.dropped = hist.dropped
      /\ hist'.lostTasks = hist.lostTasks \cup {razd[w].task.data}
  BY <1>0, HolderTypes DEF Fail, Freed
<1>2. Holding'[<<"lost", 0>>] = Holding[<<"lost", 0>>] \cup {razd[w].task.data}
  BY <1>t, <1>1 DEF HoldingIs
<1> QED
  BY <1>0, <1>1, <1>2, SameRetries, TaskEnded

\* A department without retries left is dropped.
LEMMA GiveUpTasks ==
    ASSUME TasksInv, NEW w \in Workers, GiveUp(w)
    PROVE  TaskInOnePlace'
<1>0. TypeOK /\ TaskInOnePlace
  BY DEF TasksInv
<1>t. HoldingIs /\ HoldingIs'
  BY TaskHolding, TaskHoldingNext
<1>1. /\ razd[w].pc = "check"
      /\ Freed(w, "select") /\ UNCHANGED <<queue, disp, starter, retries>>
      /\ hist'.answered = hist.answered /\ hist'.lostTasks = hist.lostTasks
      /\ hist'.dropped = hist.dropped \cup {razd[w].task.data}
  BY <1>0, HolderTypes DEF GiveUp, Release, Freed, control
<1>2. Holding'[<<"dropped", 0>>] = Holding[<<"dropped", 0>>] \cup {razd[w].task.data}
  BY <1>t, <1>1 DEF HoldingIs
<1> QED
  BY <1>0, <1>1, <1>2, SameRetries, TaskEnded

\* An answer that cannot be used loses its department.
LEMMA FetchUnusableTasks ==
    ASSUME TasksInv, NEW w \in Workers, FetchUnusable(w)
    PROVE  TaskInOnePlace'
<1>0. TypeOK /\ TaskInOnePlace
  BY DEF TasksInv
<1>t. HoldingIs /\ HoldingIs'
  BY TaskHolding, TaskHoldingNext
<1>1. /\ razd[w].pc = "fetch"
      /\ Freed(w, "select") /\ UNCHANGED <<queue, disp, starter, retries>>
      /\ hist'.answered = hist.answered /\ hist'.dropped = hist.dropped
      /\ hist'.lostTasks = hist.lostTasks \cup {razd[w].task.data}
  BY <1>0, HolderTypes DEF FetchUnusable, Response, Release, Freed, control
<1>2. Holding'[<<"lost", 0>>] = Holding[<<"lost", 0>>] \cup {razd[w].task.data}
  BY <1>t, <1>1 DEF HoldingIs
<1> QED
  BY <1>0, <1>1, <1>2, SameRetries, TaskEnded

\* An empty answer makes its department wait for a retry.
LEMMA FetchEmptyTasks ==
    ASSUME TasksInv, NEW w \in Workers, FetchEmpty(w)
    PROVE  TaskInOnePlace'
<1> DEFINE t == razd[w].task
           u == [t EXCEPT !.num = @ + 1]
<1>0. TypeOK /\ TaskInOnePlace
  BY DEF TasksInv
<1>t. HoldingIs /\ HoldingIs'
  BY TaskHolding, TaskHoldingNext
<1>1. /\ razd[w].pc = "fetch" /\ retries' = retries \cup {u}
      /\ Freed(w, "select") /\ UNCHANGED <<queue, disp, starter, hist>>
  BY <1>0 DEF FetchEmpty, Response, Release, Resubmit, Freed, control
<1>2. u.data = t.data
  BY <1>0, HolderTypes DEF Tasks
<1>3. InHand(w) = {t.data}
  BY <1>1 DEF InHand
<1> HIDE DEF u, t
<1>4. Waiting' = Waiting \cup {t.data}
  BY <1>1, <1>2 DEF Waiting
<1>5. t.data \notin Waiting
  <2>1. t.data \in Holding[<<"worker", w>>]
    BY <1>t, <1>3 DEF HoldingIs
  <2>2. t.data \notin Holding[<<"retry", 0>>]
    BY <1>0, <2>1, HeldOnce, AreTaskHolders
  <2> QED
    BY <1>t, <2>2 DEF HoldingIs
<1>6. \A x, y \in retries' : x.data = y.data => x = y
  BY <1>0, <1>1, <1>2, <1>5 DEF Waiting, TaskInOnePlace
<1>7. Holding'[<<"retry", 0>>] = Holding[<<"retry", 0>>] \cup {t.data}
  BY <1>t, <1>4 DEF HoldingIs
<1> QED
  BY <1>1, <1>6, <1>7, TaskEnded DEF t

\* What a department that a worker has lists is unknown before its answer.
LEMMA NewChildren ==
    ASSUME TypeOK, TaskInOnePlace, NEW w \in Workers,
           razd[w].pc \in {"check", "fetch"}
    PROVE  /\ razd[w].task.data \in Deps \ hist.answered
           /\ razd[w].task.data \in Known(hist.answered)
           /\ Kids[razd[w].task.data] \cap Listed(hist.answered) = {}
           /\ Kids[razd[w].task.data] \cap Known(hist.answered) = {}
<1> DEFINE d == razd[w].task.data
<1>1. d \in Deps /\ hist.answered \subseteq Deps
  BY HolderTypes
<1>2. d \in Holding[<<"worker", w>>]
  BY TaskHolding DEF HoldingIs, InHand
<1> HIDE DEF d
<1>3. d \notin hist.answered
  <2>1. <<"worker", w>> # <<"answered", 0>>
    OBVIOUS
  <2>2. d \notin Holding[<<"answered", 0>>]
    BY <1>2, <2>1, HeldOnce, AreTaskHolders
  <2> QED
    BY <2>2, TaskHolding DEF HoldingIs
<1>4. d \in Known(hist.answered)
  <2>1. UNION {Holding[h] : h \in TaskHolders} = Known(hist.answered)
    BY TaskInOnePlaceIs DEF Placed
  <2>2. <<"worker", w>> \in TaskHolders
    BY AreTaskHolders
  <2> QED
    BY <1>2, <2>1, <2>2
<1>5. Kids[d] \cap Listed(hist.answered) = {}
  <2>1. \A e \in hist.answered : Kids[d] \cap Kids[e] = {}
    BY <1>1, <1>3, TreeAssumption
  <2> QED
    BY <2>1 DEF Listed
<1>6. Root \notin Kids[d]
  BY <1>1, TreeAssumption
<1>7. Kids[d] \cap Known(hist.answered) = {}
  BY <1>5, <1>6 DEF Known
<1> QED
  BY <1>1, <1>3, <1>4, <1>5, <1>7 DEF d

\* An answer is used: its department is done with, and the departments it
\* lists come into being, which no former answer has listed.
LEMMA FetchChildrenTasks ==
    ASSUME TasksInv, NEW w \in Workers, FetchChildren(w)
    PROVE  TaskInOnePlace'
<1> USE ConstantTypes
<1> DEFINE d == razd[w].task.data
           K == Kids[d] \cap Deps
           a == <<"worker", w>>
           b == <<"answered", 0>>
           c == <<"todo", w>>
           G == [h \in TaskHolders |-> IF h = a THEN {}
                                       ELSE IF h = b THEN hist.answered \cup {d}
                                       ELSE Holding[h]]
<1>0. TypeOK /\ NoRest /\ TaskInOnePlace
  BY DEF TasksInv
<1>t. HoldingIs /\ HoldingIs'
  BY TaskHolding, TaskHoldingNext
<1>1. /\ razd[w].pc = "fetch"
      /\ razd' = [razd EXCEPT ![w] = [Free("item") EXCEPT !.todo = Kids[d]]]
      /\ UNCHANGED <<queue, disp, starter, retries>>
      /\ hist'.answered = hist.answered \cup {d}
      /\ hist'.dropped = hist.dropped /\ hist'.lostTasks = hist.lostTasks
  BY <1>0, HolderTypes DEF FetchChildren, Response, control
<1>2. d \in Deps /\ hist.answered \subseteq Deps
  BY <1>0, HolderTypes
<1>3. InHand(w) = {d} /\ Unread(w) = {}
  BY <1>0, <1>1 DEF InHand, Unread, NoRest
<1>4. /\ \A v \in Workers \ {w} : razd'[v] = razd[v]
      /\ razd'[w].pc = "item" /\ razd'[w].todo = Kids[d]
  BY <1>0, <1>1, HolderTypes DEF Free
<1> HIDE DEF d
<1>5. /\ \A v \in Workers \ {w} : Unread(v)' = Unread(v)
      /\ \A v \in Workers \ {w} : InHand(v)' = InHand(v)
      /\ InHand(w)' = {} /\ Unread(w)' = K
  BY <1>4 DEF Unread, InHand
<1>6. /\ \A v \in Workers : Queued(v)' = Queued(v) /\ Popped(v)' = Popped(v)
      /\ Unstarted' = Unstarted /\ Waiting' = Waiting
  BY <1>1, OthersStill DEF Waiting
<1>7. a \in TaskHolders /\ b \in TaskHolders /\ c \in TaskHolders
      /\ a # b /\ a # c /\ b # c
  <2>1. a \in TaskHolders /\ b \in TaskHolders /\ c \in TaskHolders
    BY AreTaskHolders
  <2>2. a[1] = "worker" /\ b[1] = "answered" /\ c[1] = "todo"
    OBVIOUS
  <2> QED
    BY <2>1, <2>2
<1>8. /\ Holding[a] = {d} /\ Holding'[a] = {}
      /\ Holding[b] = hist.answered /\ Holding'[b] = hist.answered \cup {d}
      /\ Holding[c] = {} /\ Holding'[c] = K
  BY <1>t, <1>1, <1>3, <1>5 DEF HoldingIs
<1>9. \A h \in TaskHolders \ {a, b, c} : Holding'[h] = Holding[h]
  <2>1. SameBut(Holding, Holding', {a, b, c})
    BY <1>t, <1>1, <1>5, <1>6 DEF HoldingIs, SameBut
  <2> QED
    BY <2>1, OtherTaskHolders
<1>10. Placed(TaskHolders, Holding, Known(hist.answered))
  BY <1>0, TaskInOnePlaceIs
<1>11. Placed(TaskHolders, G, Known(hist.answered))
  <2>1. d \in Holding[a] /\ G[a] = Holding[a] \ {d} /\ G[b] = Holding[b] \cup {d}
    BY <1>7, <1>8
  <2>2. \A h \in TaskHolders \ {a, b} : G[h] = Holding[h]
    OBVIOUS
  <2> HIDE DEF a, b, c, G
  <2> QED
    BY <1>7, <1>10, <2>1, <2>2, Moved
<1>12. K \cap Known(hist.answered) = {}
  BY <1>0, <1>1, NewChildren DEF d
<1>13. Known(hist'.answered) = Known(hist.answered) \cup K
  BY <1>1 DEF Known, Listed
<1>14. Placed(TaskHolders, Holding', Known(hist.answered) \cup K)
  <2>1. Holding'[c] = G[c] \cup K
    BY <1>7, <1>8
  <2>2. \A h \in TaskHolders \ {c} : Holding'[h] = G[h]
    BY <1>7, <1>8, <1>9
  <2> HIDE DEF a, b, c, G, K
  <2> QED
    BY <1>7, <1>11, <1>12, <2>1, <2>2, Grown
<1> QED
  BY <1>0, <1>1, <1>13, <1>14, SameQueues, SameRetries, TaskInOnePlaceNext

\* A listed department goes to the worker's queue, an employee nowhere.
LEMMA NextItemTasks ==
    ASSUME TasksInv, NEW w \in Workers, NEW n \in Nodes, NextItem(w, n)
    PROVE  TaskInOnePlace'
<1> USE ConstantTypes
<1>0. TypeOK /\ NoRest /\ TaskInOnePlace
  BY DEF TasksInv
<1>t. HoldingIs /\ HoldingIs'
  BY TaskHolding, TaskHoldingNext
<1>1. /\ razd[w].pc = "item" /\ n \in razd[w].todo /\ Enqueue(w, n)
      /\ UNCHANGED <<disp, starter, retries, hist>>
  BY DEF NextItem, control
<1>2. /\ \A v \in Workers \ {w} : razd'[v] = razd[v]
      /\ razd'[w].pc = "prepare" /\ razd'[w].todo = razd[w].todo \ {n}
  BY <1>0, HolderTypes DEF NextItem
<1>3. \A v \in Workers : InHand(v)' = InHand(v)
  BY <1>1, <1>2 DEF InHand
<1>4. /\ \A v \in Workers \ {w} : Unread(v)' = Unread(v)
      /\ Unread(w)' = Unread(w) \ {n}
  BY <1>2 DEF Unread
<1>5. /\ \A v \in Workers : Popped(v)' = Popped(v)
      /\ Unstarted' = Unstarted /\ Waiting' = Waiting
  BY <1>1 DEF Popped, Unstarted, Waiting
<1>6. CASE n \notin Deps
  <2>1. queue' = queue
    BY <1>1, <1>6 DEF Enqueue
  <2>2. Unread(w)' = Unread(w)
    BY <1>4, <1>6 DEF Unread
  <2> QED
    BY <1>0, <1>1, <1>3, <1>4, <1>5, <2>1, <2>2, TasksStillInPlace DEF TasksStill
<1>7. CASE n \in Deps
  <2> DEFINE q == DepQueue(w)
  <2>1. PushBack(q, n)
    BY <1>1, <1>7 DEF Enqueue
  <2>2. n \in Unread(w)
    BY <1>1, <1>7 DEF Unread
  <2>3. \A v \in Workers :
            /\ queue'[DepQueue(v)] = IF v # w THEN queue[DepQueue(v)]
                                              ELSE Append(queue[q], n)
            /\ Queued(v)' = IF v # w THEN Queued(v) ELSE Queued(v) \cup {n}
    BY <1>0, <2>1, QueuedPushed
  <2>4. /\ n \in Holding[<<"todo", w>>]
        /\ Holding'[<<"todo", w>>] = Holding[<<"todo", w>>] \ {n}
        /\ Holding'[<<"queue", w>>] = Holding[<<"queue", w>>] \cup {n}
    BY <1>t, <1>4, <2>2, <2>3 DEF HoldingIs
  <2>5. SameBut(Holding, Holding', {<<"todo", w>>, <<"queue", w>>})
    BY <1>t, <1>1, <1>3, <1>4, <1>5, <2>3 DEF HoldingIs, SameBut
  <2>6. IsInjective(Append(queue[q], n))
    <3>1. n \notin Holding[<<"queue", w>>]
      BY <1>0, <2>4, HeldOnce, AreTaskHolders
    <3>2. n \notin Range(queue[q])
      BY <1>t, <3>1 DEF HoldingIs, Queued
    <3>3. queue[q] \in Seq(Nodes) /\ IsInjective(queue[q])
      BY <1>0, HolderTypes DEF TaskInOnePlace
    <3> QED
      BY <3>2, <3>3, AppendUnrepeated
  <2>7. \A v \in Workers : IsInjective(queue'[DepQueue(v)])
    BY <1>0, <2>3, <2>6 DEF TaskInOnePlace
  <2> QED
    BY <1>0, <1>1, <2>4, <2>5, <2>7, SameRetries, TaskMoved, AreTaskHolders
<1> QED
  BY <1>6, <1>7

\* Steps of GetRazd that concern items and counters only.
LEMMA ItemStepTasks ==
    ASSUME TasksInv, NEW w \in Workers,
           Fetch(w) \/ Prepare(w) \/ SendItem(w) \/ DiscardItem(w) \/ RazdExit(w)
    PROVE  TaskInOnePlace'
<1> USE ConstantTypes
<1>0. TypeOK /\ NoRest /\ TaskInOnePlace
  BY DEF TasksInv
<1>1. /\ UNCHANGED <<disp, starter, retries>>
      /\ hist'.answered = hist.answered /\ hist'.dropped = hist.dropped
      /\ hist'.lostTasks = hist.lostTasks
  BY <1>0, HolderTypes DEF Fetch, Prepare, SendItem, DiscardItem, Sent, RazdExit, control
<1>2. \A v \in Workers : queue'[DepQueue(v)] = queue[DepQueue(v)]
  <2>1. CASE UNCHANGED queue
    BY <2>1
  <2>2. CASE ~UNCHANGED queue
    <3>1. PushBack(AvatarQueue(w), razd[w].item)
      BY <2>2 DEF Fetch, Prepare, SendItem, DiscardItem, Sent, RazdExit
    <3> QED
      BY <1>0, <3>1, QueuedPushed, HolderTypes
  <2> QED
    BY <2>1, <2>2
<1>3. /\ \A v \in Workers : Unread(v)' = Unread(v)
      /\ \A v \in Workers : InHand(v)' = InHand(v)
  <2>1. \A v \in Workers \ {w} : razd'[v] = razd[v]
    BY <1>0, HolderTypes DEF Fetch, Prepare, SendItem, DiscardItem, Sent, RazdExit
  <2>2. CASE Fetch(w)
    <3>1. /\ razd[w].pc = "check" /\ razd'[w].pc = "fetch"
          /\ razd'[w].task = razd[w].task /\ razd'[w].todo = razd[w].todo
      BY <1>0, <2>2, HolderTypes DEF Fetch
    <3> QED
      BY <2>1, <3>1 DEF Unread, InHand
  <2>3. CASE Prepare(w) \/ Sent(w)
    <3>1. /\ razd[w].pc \in {"prepare", "out"} /\ razd'[w].pc \in {"out", "select", "item"}
          /\ razd'[w].todo = razd[w].todo
      BY <1>0, <2>3, HolderTypes DEF Prepare, Sent, AfterSend
    <3> QED
      BY <2>1, <3>1 DEF Unread, InHand
  <2>4. CASE RazdExit(w)
    <3>1. razd[w].pc = "select" /\ Freed(w, "exited")
      BY <2>4 DEF RazdExit, Freed
    <3>2. InHand(w) = {}
      BY <3>1 DEF InHand
    <3> QED
      BY <1>0, <3>1, <3>2, FreedWorker
  <2> QED
    BY <2>2, <2>3, <2>4 DEF SendItem, DiscardItem
<1>4. (\A v \in Workers : Popped(v)' = Popped(v)) /\ Unstarted' = Unstarted
  BY <1>1 DEF Popped, Unstarted
<1> QED
  BY <1>0, <1>1, <1>2, <1>3, <1>4, TasksStillInPlace DEF TasksStill

\* Every step of a GetRazd keeps departments in one place.
LEMMA GetRazdTasks ==
    ASSUME TasksInv, NEW w \in Workers, GetRazd(w)
    PROVE  TaskInOnePlace'
<1>1. CASE CheckLimited(w) \/ FetchCancelled(w) \/ FetchFails(w)
  BY <1>1, FailTasks DEF CheckLimited, FetchCancelled, FetchFails, Response
<1>2. CASE FetchBadElement(w)
  <2>1. UNCHANGED <<queue, disp, razd, retries, starter, hist>>
    BY <1>2 DEF FetchBadElement, Panic
  <2> QED
    BY <2>1, StillTasks, TasksStillInPlace DEF TasksInv
<1> QED
  BY <1>1, <1>2, GiveUpTasks, FetchUnusableTasks, FetchEmptyTasks,
     FetchChildrenTasks, NextItemTasks, ItemStepTasks
  DEF GetRazd

\* No step of a monitor, image worker, consumer or clock concerns tasks.
LEMMA OtherTasks ==
    ASSUME TasksInv,
           \/ \E w \in Workers : GetAvatar(w)
           \/ Monitor \/ Main \/ Expire \/ UNCHANGED vars
    PROVE  TaskInOnePlace'
<1>0. TypeOK /\ TaskInOnePlace
  BY DEF TasksInv
<1>1. UNCHANGED <<queue, disp, razd, retries, starter>>
  BY DEF GetAvatar, AvatarLimited, AvatarDownload, AvatarDone, AvatarExit, AvatarStep,
         Monitor, Tick, Scan, CancelWorkers, MonitorExit, MonitorStep,
         Main, Save, SaveFails, Consume, ChannelDrained, MainCancelled, MainExit,
         MainStep, Expire, vars, control
<1>2. /\ hist'.answered = hist.answered /\ hist'.dropped = hist.dropped
      /\ hist'.lostTasks = hist.lostTasks
  BY <1>0, HolderTypes
  DEF GetAvatar, AvatarLimited, AvatarDownload, AvatarDone, AvatarExit, AvatarStep,
      Monitor, Tick, Scan, CancelWorkers, MonitorExit, MonitorStep,
      Main, Save, SaveFails, ChannelDrained, MainCancelled, MainExit,
      MainStep, Expire, vars, control
<1> QED
  BY <1>0, <1>1, <1>2, TasksStillInPlace
  DEF TasksStill, Unread, Popped, InHand, Unstarted

\* Workers that wait or request never have unread elements.
LEMMA NoRestNext ==
    ASSUME TypeOK, NoRest, [Next]_vars
    PROVE  NoRest'
<1> USE ConstantTypes
<1>1. CASE UNCHANGED razd
  BY <1>1 DEF NoRest
<1>2. ASSUME NEW w \in Workers, NEW t \in Tasks, Receive(w, t)
      PROVE  NoRest'
  <2>1. \A v \in Workers \ {w} : razd'[v] = razd[v]
    BY <1>2, HolderTypes DEF Receive
  <2>2. razd[w].pc = "select" /\ razd'[w].todo = razd[w].todo
    BY <1>2, HolderTypes DEF Receive
  <2> QED
    BY <2>1, <2>2 DEF NoRest
<1>3. ASSUME NEW w \in Workers, NEW pc, Freed(w, pc)
      PROVE  NoRest'
  <2>1. Free(pc).todo = {}
    BY DEF Free
  <2> QED
    BY <1>3, <2>1, HolderTypes DEF Freed, NoRest
<1>4. ASSUME NEW w \in Workers,
             Fetch(w) \/ FetchChildren(w) \/ (\E n \in Nodes : NextItem(w, n))
                \/ Prepare(w) \/ Sent(w)
      PROVE  NoRest'
  <2>1. \A v \in Workers \ {w} : razd'[v] = razd[v]
    BY <1>4, HolderTypes DEF Fetch, FetchChildren, NextItem, Prepare, Sent
  <2>2. CASE Fetch(w)
    BY <2>1, <2>2, HolderTypes DEF Fetch, NoRest
  <2>3. CASE FetchChildren(w)
    <3>1. razd'[w].pc = "item"
      BY <2>3, HolderTypes DEF FetchChildren, Free
    <3> QED
      BY <2>1, <3>1 DEF NoRest
  <2>4. CASE \E n \in Nodes : NextItem(w, n)
    BY <2>1, <2>4, HolderTypes DEF NextItem, NoRest
  <2>5. CASE Prepare(w)
    BY <2>1, <2>5, HolderTypes DEF Prepare, NoRest
  <2>6. CASE Sent(w)
    <3>1. razd'[w].pc = AfterSend(w) /\ razd'[w].todo = razd[w].todo
      BY <2>6, HolderTypes DEF Sent
    <3> QED
      BY <2>1, <3>1 DEF NoRest, AfterSend
  <2> QED
    BY <1>4, <2>2, <2>3, <2>4, <2>5, <2>6
<1>5. ASSUME NEW q \in Queues, Dispatcher(q) PROVE NoRest'
  <2>1. CASE UNCHANGED razd
    BY <1>1, <2>1
  <2>2. CASE ~UNCHANGED razd
    <3>1. PICK v \in Workers, w \in Workers : DispatchRazd(v, w)
      BY <1>5, <2>2 DEF Dispatcher, Pop, LoopEnd, ReturnToQueue, SendPanics, Panic,
                        DispatcherExit, DispatchAvatar
    <3>2. NewTask(disp[DepQueue(v)].hand) \in Tasks
      BY DEF TypeOK, QueuesOK
    <3> QED
      BY <1>2, <3>1, <3>2 DEF DispatchRazd
  <2> QED
    BY <2>1, <2>2
<1>6. ASSUME NEW t \in Tasks, Retry(t) PROVE NoRest'
  BY <1>1, <1>2, <1>6 DEF Retry, RetrySend, RetryCancelled, RetryPanics, Panic
<1>7. ASSUME NEW w \in Workers, GetRazd(w) PROVE NoRest'
  <2>1. CASE CheckLimited(w) \/ FetchCancelled(w) \/ FetchFails(w) \/ RazdExit(w)
    BY <1>3, <2>1 DEF CheckLimited, FetchCancelled, FetchFails, Fail, RazdExit, Freed
  <2>2. CASE GiveUp(w) \/ FetchUnusable(w) \/ FetchEmpty(w)
    BY <1>3, <2>2 DEF GiveUp, FetchUnusable, FetchEmpty, Release, Freed
  <2>3. CASE FetchBadElement(w)
    BY <1>1, <2>3 DEF FetchBadElement, Panic
  <2> QED
    BY <1>4, <1>7, <2>1, <2>2, <2>3 DEF GetRazd, SendItem, DiscardItem
<1>8. ASSUME Starter PROVE NoRest'
  BY <1>1, <1>2, <1>8
  DEF Starter, StartRoot, WaitReturns, CloseAvatar, CloseRazd, CloseOut, StarterStep
<1>9. ASSUME \/ \E w \in Workers : GetAvatar(w)
             \/ Monitor \/ Main \/ Expire \/ UNCHANGED vars
      PROVE  NoRest'
  BY <1>1, <1>9
  DEF GetAvatar, AvatarLimited, AvatarDownload, AvatarDone, AvatarExit, AvatarStep,
      Monitor, Tick, Scan, CancelWorkers, MonitorExit, MonitorStep,
      Main, Save, SaveFails, Consume, ChannelDrained, MainCancelled, MainExit,
      MainStep, Expire, vars, control
<1> QED
  BY <1>5, <1>6, <1>7, <1>8, <1>9 DEF Next, Step, Terminated

\* The inductive invariant holds throughout.
LEMMA TasksAlways == Spec => []TasksInv
<1>1. Init => TasksInv
  BY InitType, TasksInit DEF TasksInv
<1>2. TasksInv /\ [Next]_vars => TaskInOnePlace'
  BY DispatcherTasks, RetryTasks, StarterTasks, GetRazdTasks, OtherTasks
  DEF Next, Step, Terminated
<1>3. TasksInv /\ [Next]_vars => NoRest'
  BY NoRestNext DEF TasksInv
<1>4. TypeOK' /\ NoRest' /\ TaskInOnePlace' => TasksInv'
  BY DEF TasksInv
<1> QED
  BY <1>1, <1>2, <1>3, <1>4, TypeCorrect, PTL DEF Spec

\* However many workers, dispatchers and retries there are, every department
\* an answer has listed is in exactly one place: no subtree is visited twice,
\* and none is forgotten without a trace.
THEOREM TasksStayInOnePlace == Spec => []TaskInOnePlace
<1>1. TasksInv => TaskInOnePlace
  BY DEF TasksInv
<1> QED
  BY <1>1, TasksAlways, PTL

-----------------------------------------------------------------------------
(* How often a department is asked for.  The number a task carries and the *)
(* number of requests made for its department agree wherever the task is,  *)
(* because it is in one place.                                             *)

\* Departments nobody has asked for yet.
Fresh ==
    (UNION {Unread(w) \cup Queued(w) \cup Popped(w) : w \in Workers})
        \cup Unstarted \cup (Deps \ Known(hist.answered))

Asked == hist.fetches

RetriesExact ==
    /\ \A d \in Fresh \cap Deps : Asked[d] = 0
    /\ \A w \in Workers :
          /\ razd[w].pc = "check" => Asked[razd[w].task.data] = razd[w].task.num
          /\ razd[w].pc = "fetch" => Asked[razd[w].task.data] = razd[w].task.num + 1
    /\ \A t \in retries : Asked[t.data] = t.num
    /\ RetryBudget

RetriesInv == TasksInv /\ RetriesExact

\* Nothing was requested at the start.
LEMMA RetriesInit == Init => RetriesExact
<1> SUFFICES ASSUME Init PROVE RetriesExact
  OBVIOUS
<1>1. /\ \A d \in Deps : Asked[d] = 0
      /\ hist.dropped = {} /\ retries = {}
  BY DEF Init, NoHistory, Asked
<1>2. \A w \in Workers : razd[w].pc \notin {"check", "fetch"}
  BY DEF Init, Free, AtStart
<1>3. RetryBudget
  <2>1. 0 <= TryLimit + 1
    BY DumpAssumption
  <2> QED
    BY <1>1, <2>1 DEF RetryBudget, Asked
<1> QED
  BY <1>1, <1>2, <1>3 DEF RetriesExact

\* Steps that make no request: what is new in a worker's hands or among the
\* retries carries the right number, and what is dropped has had all of them.
LEMMA NoRequest ==
    ASSUME RetriesExact, Asked' = Asked, Fresh' \subseteq Fresh,
           \A w \in Workers :
              \/ razd'[w].pc \notin {"check", "fetch"}
              \/ razd'[w].pc = razd[w].pc /\ razd'[w].task = razd[w].task
              \/ razd'[w].pc = "check" /\ Asked[razd'[w].task.data] = razd'[w].task.num,
           \A t \in retries' : t \in retries \/ Asked[t.data] = t.num,
           \A d \in hist'.dropped : d \in hist.dropped \/ Asked[d] = TryLimit + 1
    PROVE  RetriesExact'
<1>1. \A d \in Fresh' \cap Deps : Asked'[d] = 0
  BY DEF RetriesExact
<1>2. \A w \in Workers :
          /\ razd'[w].pc = "check" => Asked'[razd'[w].task.data] = razd'[w].task.num
          /\ razd'[w].pc = "fetch" => Asked'[razd'[w].task.data] = razd'[w].task.num + 1
  BY DEF RetriesExact
<1>3. \A t \in retries' : Asked'[t.data] = t.num
  BY DEF RetriesExact
<1>4. RetryBudget'
  BY DEF RetriesExact, RetryBudget, Asked
<1> QED
  BY <1>1, <1>2, <1>3, <1>4 DEF RetriesExact

\* What a worker has after a hand-over.
LEMMA ReceivedTask ==
    ASSUME TypeOK, NEW w \in Workers, NEW t \in Tasks, Receive(w, t)
    PROVE  /\ \A v \in Workers \ {w} : razd'[v] = razd[v]
           /\ razd'[w].pc = "check" /\ razd'[w].task = t
  BY HolderTypes DEF Receive

\* A department stays fresh or comes from where it was.
LEMMA FreshFrom ==
    ASSUME \A w \in Workers : Unread(w)' \cup Queued(w)' \cup Popped(w)'
                                 \subseteq Unread(w) \cup Queued(w) \cup Popped(w),
           Unstarted' \subseteq Unstarted, hist'.answered = hist.answered
    PROVE  Fresh' \subseteq Fresh
  BY DEF Fresh

\* A department from a queue is fresh and its task carries 0.
LEMMA DispatcherRetries ==
    ASSUME RetriesInv, NEW q \in Queues, Dispatcher(q)
    PROVE  RetriesExact'
<1> USE ConstantTypes
<1>0. TypeOK /\ NoRest /\ RetriesExact
  BY DEF RetriesInv, TasksInv
<1>1. UNCHANGED <<starter, retries, hist>>
  BY DEF Dispatcher, Pop, LoopEnd, ReturnToQueue, SendPanics, Panic, DispatcherExit,
         DispatchRazd, DispatchAvatar, control
<1>2. Asked' = Asked /\ Unstarted' = Unstarted
  BY <1>1 DEF Asked, Unstarted
<1>3. ASSUME UNCHANGED razd,
             \A w \in Workers : Queued(w)' \cup Popped(w)' \subseteq Queued(w) \cup Popped(w)
      PROVE  RetriesExact'
  <2>1. \A w \in Workers : Unread(w)' = Unread(w)
    BY <1>3 DEF Unread
  <2>2. Fresh' \subseteq Fresh
    BY <1>1, <1>2, <1>3, <2>1, FreshFrom
  <2> QED
    BY <1>0, <1>1, <1>2, <1>3, <2>2, NoRequest
<1>4. CASE Pop(q)
  <2>1. Hold(q) /\ queue[q] \in Seq(Nodes) /\ queue[q] # <<>> /\ UNCHANGED razd
    BY <1>0, <1>4, HolderTypes DEF Pop, AtPop
  <2>2. Range(queue[q]) = {Head(queue[q])} \cup Range(Tail(queue[q]))
    BY <2>1, TailType
  <2>3. \A w \in Workers : q = DepQueue(w) => Queued(w) = Range(queue[q])
    BY DEF Queued
  <2>4. \A w \in Workers : Queued(w)' \cup Popped(w)' \subseteq Queued(w) \cup Popped(w)
    BY <1>0, <1>4, <2>1, <2>2, <2>3, QueuedTail, PoppedHold
  <2> QED
    BY <1>3, <2>1, <2>4
<1>5. CASE LoopEnd(q) \/ DispatcherExit(q) \/ \E v, w \in Workers : DispatchAvatar(v, w)
  <2>1. PICK p \in Queues, pc \in {"idle", "loop", "exited"} : Turn(p, pc)
    BY <1>5 DEF LoopEnd, AfterLoop, DispatcherExit, DispatchAvatar
  <2>2. UNCHANGED <<razd, queue>>
    BY <1>5 DEF LoopEnd, DispatcherExit, DispatchAvatar
  <2>3. \A w \in Workers : Queued(w)' = Queued(w) /\ Popped(w)' \subseteq Popped(w)
    BY <1>0, <2>1, <2>2, PoppedTurn DEF Queued
  <2> QED
    BY <1>3, <2>2, <2>3
<1>6. CASE ReturnToQueue(q)
  <2>1. /\ PushBack(q, disp[q].hand) /\ Turn(q, "exited") /\ UNCHANGED razd
        /\ disp[q].pc = "send" /\ disp[q].hand \in Nodes
    BY <1>0, <1>6, HolderTypes DEF ReturnToQueue
  <2>2. \A w \in Workers : q = DepQueue(w) => Popped(w) = {disp[q].hand}
    BY <2>1 DEF Popped
  <2>3. \A w \in Workers : Queued(w)' \cup Popped(w)' \subseteq Queued(w) \cup Popped(w)
    BY <1>0, <2>1, <2>2, QueuedPushed, PoppedTurn
  <2> QED
    BY <1>3, <2>1, <2>3
<1>7. CASE SendPanics(q)
  BY <1>3, <1>7 DEF SendPanics, Panic, Queued, Popped
<1>8. ASSUME NEW v \in Workers, NEW w \in Workers, q = DepQueue(v), DispatchRazd(v, w)
      PROVE  RetriesExact'
  <2> DEFINE d == disp[q].hand
  <2>1. /\ disp[q].pc = "send" /\ Receive(w, NewTask(d)) /\ Turn(q, "loop")
        /\ UNCHANGED queue
    BY <1>8 DEF DispatchRazd
  <2>2. d \in Deps /\ NewTask(d) \in Tasks /\ NewTask(d).data = d /\ NewTask(d).num = 0
    BY <1>0, <1>8 DEF TypeOK, QueuesOK, NewTask
  <2>3. d \in Popped(v)
    BY <1>8, <2>1 DEF Popped
  <2> HIDE DEF d
  <2>4. Asked[d] = 0
    BY <1>0, <2>2, <2>3 DEF RetriesExact, Fresh
  <2>5. /\ \A u \in Workers : Unread(u)' = Unread(u)
        /\ \A u \in Workers \ {w} : razd'[u] = razd[u]
        /\ razd'[w].pc = "check" /\ razd'[w].task = NewTask(d)
    BY <1>0, <2>1, <2>2, Received, ReceivedTask
  <2>6. \A u \in Workers : Queued(u)' = Queued(u) /\ Popped(u)' \subseteq Popped(u)
    BY <1>0, <2>1, PoppedTurn DEF Queued
  <2>7. Fresh' \subseteq Fresh
    BY <1>1, <1>2, <2>5, <2>6, FreshFrom
  <2> QED
    BY <1>0, <1>1, <1>2, <2>2, <2>4, <2>5, <2>7, NoRequest
<1> QED
  BY <1>4, <1>5, <1>6, <1>7, <1>8 DEF Dispatcher

\* A retry carries its number to the worker that receives it.
LEMMA RetryRetries ==
    ASSUME RetriesInv, NEW t \in Tasks, Retry(t)
    PROVE  RetriesExact'
<1>0. TypeOK /\ NoRest /\ RetriesExact
  BY DEF RetriesInv, TasksInv
<1>1. /\ UNCHANGED <<queue, disp, starter>>
      /\ hist'.answered = hist.answered /\ hist'.dropped = hist.dropped
      /\ hist'.fetches = hist.fetches
      /\ retries' \subseteq retries
  BY <1>0, HolderTypes DEF Retry, RetrySend, RetryCancelled, RetryPanics, Panic, control
<1>2. /\ Asked' = Asked /\ Unstarted' = Unstarted
      /\ \A w \in Workers : Queued(w)' = Queued(w) /\ Popped(w)' = Popped(w)
  BY <1>1, OthersStill DEF Asked
<1>3. ASSUME NEW w \in Workers, RetrySend(t, w)
      PROVE  RetriesExact'
  <2>1. t \in retries /\ Receive(w, t)
    BY <1>3 DEF RetrySend
  <2>2. /\ \A u \in Workers : Unread(u)' = Unread(u)
        /\ \A u \in Workers \ {w} : razd'[u] = razd[u]
        /\ razd'[w].pc = "check" /\ razd'[w].task = t
    BY <1>0, <2>1, Received, ReceivedTask
  <2>3. Fresh' \subseteq Fresh
    BY <1>1, <1>2, <2>2, FreshFrom
  <2>4. Asked[t.data] = t.num
    BY <1>0, <2>1 DEF RetriesExact
  <2> QED
    BY <1>0, <1>1, <1>2, <2>2, <2>3, <2>4, NoRequest
<1>4. CASE UNCHANGED razd
  <2>1. Fresh' \subseteq Fresh
    BY <1>1, <1>2, <1>4, FreshFrom DEF Unread
  <2> QED
    BY <1>0, <1>1, <1>2, <1>4, <2>1, NoRequest
<1> QED
  BY <1>3, <1>4 DEF Retry, RetryCancelled, RetryPanics, Panic

\* One more request: no other worker, queue or retry has the department.
LEMMA FetchRetries ==
    ASSUME RetriesInv, NEW w \in Workers, Fetch(w)
    PROVE  RetriesExact'
<1> DEFINE t == razd[w].task
           d == t.data
<1>0. TypeOK /\ NoRest /\ TaskInOnePlace /\ RetriesExact
  BY DEF RetriesInv, TasksInv
<1>t. HoldingIs
  BY TaskHolding
<1>1. /\ razd[w].pc = "check" /\ t.num <= TryLimit /\ t.num \in Nat /\ d \in Deps
      /\ UNCHANGED <<queue, disp, retries, starter>>
      /\ hist'.answered = hist.answered /\ hist'.dropped = hist.dropped
      /\ Asked' = [Asked EXCEPT ![d] = @ + 1] /\ Asked \in [Deps -> Nat]
  BY <1>0, HolderTypes, DumpAssumption
  DEF Fetch, OutOfTries, Tasks, Asked, control
<1>2. /\ \A v \in Workers \ {w} : razd'[v] = razd[v]
      /\ razd'[w].pc = "fetch" /\ razd'[w].task = t /\ razd'[w].todo = razd[w].todo
  BY <1>0, HolderTypes DEF Fetch
<1>3. Asked[d] = t.num
  BY <1>0, <1>1 DEF RetriesExact
<1>4. \A h \in TaskHolders : h # <<"worker", w>> => d \notin Holding[h]
  <2>1. d \in Holding[<<"worker", w>>]
    BY <1>t, <1>1 DEF HoldingIs, InHand
  <2> QED
    BY <1>0, <2>1, HeldOnce, AreTaskHolders
<1>5. d \in Known(hist.answered)
  BY <1>0, <1>1, NewChildren
<1> HIDE DEF d, t
<1>6. /\ \A v \in Workers : d \notin Unread(v) \cup Queued(v) \cup Popped(v)
      /\ \A v \in Workers \ {w} : d \notin InHand(v)
      /\ d \notin Unstarted /\ d \notin Waiting /\ d \notin hist.dropped
  <2>1. ASSUME NEW v \in Workers
        PROVE  d \notin Unread(v) \cup Queued(v) \cup Popped(v)
    <3>1. <<"todo", v>> # <<"worker", w>> /\ <<"queue", v>> # <<"worker", w>>
          /\ <<"dispatcher", v>> # <<"worker", w>>
      OBVIOUS
    <3> QED
      BY <1>t, <1>4, <3>1, AreTaskHolders DEF HoldingIs
  <2>2. ASSUME NEW v \in Workers \ {w} PROVE d \notin InHand(v)
    <3>1. <<"worker", v>> # <<"worker", w>>
      OBVIOUS
    <3> QED
      BY <1>t, <1>4, <3>1, AreTaskHolders DEF HoldingIs
  <2>3. <<"starter", 0>> # <<"worker", w>> /\ <<"retry", 0>> # <<"worker", w>>
        /\ <<"dropped", 0>> # <<"worker", w>>
    OBVIOUS
  <2>4. d \notin Unstarted /\ d \notin Waiting /\ d \notin hist.dropped
    BY <1>t, <1>4, <2>3, AreTaskHolders DEF HoldingIs
  <2> QED
    BY <2>1, <2>2, <2>4
<1>7. /\ \A v \in Workers : /\ Unread(v)' = Unread(v)
                            /\ Queued(v)' = Queued(v) /\ Popped(v)' = Popped(v)
      /\ Unstarted' = Unstarted
  BY <1>1, <1>2, OthersStill DEF Unread
<1>8. Fresh' = Fresh /\ d \notin Fresh
  BY <1>1, <1>5, <1>6, <1>7 DEF Fresh
<1>9. \A e \in Deps : Asked'[e] = IF e = d THEN t.num + 1 ELSE Asked[e]
  BY <1>1, <1>3
<1>10. \A e \in Fresh' \cap Deps : Asked'[e] = 0
  BY <1>0, <1>8, <1>9 DEF RetriesExact
<1>11. ASSUME NEW v \in Workers
       PROVE  /\ razd'[v].pc = "check" => Asked'[razd'[v].task.data] = razd'[v].task.num
              /\ razd'[v].pc = "fetch" => Asked'[razd'[v].task.data] = razd'[v].task.num + 1
  <2>1. CASE v = w
    BY <1>1, <1>2, <1>9, <2>1 DEF d
  <2>2. CASE v # w /\ razd[v].pc \in {"check", "fetch"}
    <3>1. razd'[v] = razd[v] /\ razd[v].task.data \in Deps \ {d}
      BY <1>0, <1>2, <1>6, <2>2, HolderTypes DEF InHand
    <3>2. Asked'[razd[v].task.data] = Asked[razd[v].task.data]
      BY <1>9, <3>1
    <3> QED
      BY <1>0, <3>1, <3>2 DEF RetriesExact
  <2>3. CASE v # w /\ razd[v].pc \notin {"check", "fetch"}
    BY <1>2, <2>3
  <2> QED
    BY <2>1, <2>2, <2>3
<1>12. \A u \in retries' : Asked'[u.data] = u.num
  <2>1. \A u \in retries : u.data \in Deps \ {d}
    BY <1>0, <1>6, HolderTypes DEF Waiting
  <2> QED
    BY <1>0, <1>1, <1>9, <2>1 DEF RetriesExact
<1>13. RetryBudget'
  <2>1. \A e \in Deps : /\ Asked[e] <= TryLimit + 1
                        /\ e \in hist.dropped => Asked[e] = TryLimit + 1
    BY <1>0 DEF RetriesExact, RetryBudget, Asked
  <2>2. t.num + 1 <= TryLimit + 1
    BY <1>1, DumpAssumption
  <2>3. \A e \in Deps : /\ Asked'[e] <= TryLimit + 1
                        /\ e \in hist'.dropped => Asked'[e] = TryLimit + 1
    BY <1>1, <1>6, <1>9, <2>1, <2>2
  <2> QED
    BY <2>3 DEF RetryBudget, Asked
<1> QED
  BY <1>10, <1>11, <1>12, <1>13 DEF RetriesExact

\* A worker gets rid of its task: given up after all requests, to be retried
\* with the number of requests so far, or ended otherwise.
LEMMA FreedRetries ==
    ASSUME RetriesInv, NEW w \in Workers, NEW pc \in {"select", "exited"},
           Freed(w, pc), razd[w].pc \in {"select", "check", "fetch"},
           UNCHANGED <<queue, disp, starter>>,
           hist'.answered = hist.answered, hist'.fetches = hist.fetches,
           \A t \in retries' : t \in retries \/ Asked[t.data] = t.num,
           \A d \in hist'.dropped : d \in hist.dropped \/ Asked[d] = TryLimit + 1
    PROVE  RetriesExact'
<1>0. TypeOK /\ NoRest /\ RetriesExact
  BY DEF RetriesInv, TasksInv
<1>1. \A v \in Workers : Unread(v)' = Unread(v)
  BY <1>0, FreedWorker
<1>2. /\ \A v \in Workers \ {w} : razd'[v] = razd[v]
      /\ razd'[w].pc \notin {"check", "fetch"}
  <2>1. razd'[w] = Free(pc) /\ \A v \in Workers \ {w} : razd'[v] = razd[v]
    BY <1>0, HolderTypes DEF Freed
  <2>2. Free(pc).pc = pc
    BY DEF Free
  <2> QED
    BY <2>1, <2>2
<1>3. /\ Asked' = Asked /\ Unstarted' = Unstarted
      /\ \A v \in Workers : Queued(v)' = Queued(v) /\ Popped(v)' = Popped(v)
  BY OthersStill DEF Asked
<1>4. Fresh' \subseteq Fresh
  BY <1>1, <1>3, FreshFrom
<1> QED
  BY <1>0, <1>2, <1>3, <1>4, NoRequest

\* An answer brings in departments nobody knew, let alone asked for.
LEMMA FetchChildrenRetries ==
    ASSUME RetriesInv, NEW w \in Workers, FetchChildren(w)
    PROVE  RetriesExact'
<1> DEFINE d == razd[w].task.data
<1>0. TypeOK /\ TaskInOnePlace /\ RetriesExact
  BY DEF RetriesInv, TasksInv
<1>1. /\ razd[w].pc = "fetch" /\ UNCHANGED <<queue, disp, starter, retries>>
      /\ hist'.answered = hist.answered \cup {d}
      /\ hist'.fetches = hist.fetches /\ hist'.dropped = hist.dropped
  BY <1>0, HolderTypes DEF FetchChildren, Response, control
<1>2. /\ \A v \in Workers \ {w} : razd'[v] = razd[v]
      /\ razd'[w].pc = "item" /\ razd'[w].todo = Kids[d]
  BY <1>0, HolderTypes DEF FetchChildren, Free
<1>3. Kids[d] \cap Known(hist.answered) = {}
  BY <1>0, <1>1, NewChildren
<1> HIDE DEF d
<1>4. /\ \A v \in Workers \ {w} : Unread(v)' = Unread(v)
      /\ Unread(w)' \subseteq Deps \ Known(hist.answered)
  BY <1>2, <1>3 DEF Unread
<1>5. /\ \A v \in Workers : Queued(v)' = Queued(v) /\ Popped(v)' = Popped(v)
      /\ Unstarted' = Unstarted
  BY <1>1, OthersStill
<1>6. Known(hist.answered) \subseteq Known(hist'.answered)
  BY <1>1 DEF Known, Listed
<1>7. Fresh' \subseteq Fresh
  BY <1>4, <1>5, <1>6 DEF Fresh
<1>8. Asked' = Asked
  BY <1>1 DEF Asked
<1> QED
  BY <1>0, <1>1, <1>2, <1>7, <1>8, NoRequest

\* A listed department stays fresh on its way to the queue.
LEMMA NextItemRetries ==
    ASSUME RetriesInv, NEW w \in Workers, NEW n \in Nodes, NextItem(w, n)
    PROVE  RetriesExact'
<1> USE ConstantTypes
<1>0. TypeOK /\ RetriesExact
  BY DEF RetriesInv, TasksInv
<1>1. /\ n \in razd[w].todo /\ Enqueue(w, n)
      /\ UNCHANGED <<disp, starter, retries, hist>>
  BY DEF NextItem, control
<1>2. /\ \A v \in Workers \ {w} : razd'[v] = razd[v]
      /\ razd'[w].pc = "prepare" /\ razd'[w].todo = razd[w].todo \ {n}
  BY <1>0, HolderTypes DEF NextItem
<1>3. \A v \in Workers : Unread(v)' \subseteq Unread(v)
  BY <1>2 DEF Unread
<1>4. \A v \in Workers : Queued(v)' \subseteq Queued(v) \cup Unread(v)
  <2>1. CASE n \in Deps
    <3>1. PushBack(DepQueue(w), n) /\ n \in Unread(w)
      BY <1>1, <2>1 DEF Enqueue, Unread
    <3> QED
      BY <1>0, <3>1, QueuedPushed
  <2>2. CASE n \notin Deps
    BY <1>1, <2>2 DEF Enqueue, Queued
  <2> QED
    BY <2>1, <2>2
<1>5. /\ \A v \in Workers : Popped(v)' = Popped(v)
      /\ Unstarted' = Unstarted /\ Asked' = Asked
  BY <1>1 DEF Popped, Unstarted, Asked
<1>6. Fresh' \subseteq Fresh
  BY <1>1, <1>3, <1>4, <1>5, FreshFrom
<1> QED
  BY <1>0, <1>1, <1>2, <1>5, <1>6, NoRequest

\* Preparing, sending and discarding make no request for a section.
LEMMA ElementRetries ==
    ASSUME RetriesInv, NEW w \in Workers,
           Prepare(w) \/ SendItem(w) \/ DiscardItem(w)
    PROVE  RetriesExact'
<1> USE ConstantTypes
<1>0. TypeOK /\ RetriesExact
  BY DEF RetriesInv, TasksInv
<1>1. /\ UNCHANGED <<disp, starter, retries>>
      /\ hist'.answered = hist.answered /\ hist'.dropped = hist.dropped
      /\ hist'.fetches = hist.fetches
  BY <1>0, HolderTypes DEF Prepare, SendItem, DiscardItem, Sent, control
<1>2. /\ \A v \in Workers \ {w} : razd'[v] = razd[v]
      /\ razd'[w].pc \in {"out", "select", "item"}
      /\ razd'[w].todo = razd[w].todo
  BY <1>0, HolderTypes DEF Prepare, SendItem, DiscardItem, Sent, AfterSend
<1>3. \A v \in Workers : Unread(v)' = Unread(v)
  BY <1>2 DEF Unread
<1>4. \A v \in Workers : Queued(v)' = Queued(v)
  <2>1. CASE UNCHANGED queue
    BY <2>1 DEF Queued
  <2>2. CASE ~UNCHANGED queue
    <3>1. PushBack(AvatarQueue(w), razd[w].item)
      BY <2>2 DEF Prepare, SendItem, DiscardItem, Sent
    <3> QED
      BY <1>0, <3>1, QueuedPushed, HolderTypes
  <2> QED
    BY <2>1, <2>2
<1>5. /\ \A v \in Workers : Popped(v)' = Popped(v)
      /\ Unstarted' = Unstarted /\ Asked' = Asked
  BY <1>1 DEF Popped, Unstarted, Asked
<1>6. Fresh' \subseteq Fresh
  BY <1>1, <1>3, <1>4, <1>5, FreshFrom
<1> QED
  BY <1>0, <1>1, <1>2, <1>5, <1>6, NoRequest

\* Every step of a GetRazd keeps the numbers exact.
LEMMA GetRazdRetries ==
    ASSUME RetriesInv, NEW w \in Workers, GetRazd(w)
    PROVE  RetriesExact'
<1> DEFINE t == razd[w].task
<1>0. TypeOK /\ RetriesExact
  BY DEF RetriesInv, TasksInv
<1>1. CASE CheckLimited(w) \/ FetchCancelled(w) \/ FetchFails(w) \/ RazdExit(w)
  <2>1. /\ razd[w].pc \in {"select", "check", "fetch"} /\ Freed(w, "exited")
        /\ UNCHANGED <<queue, disp, starter, retries>>
        /\ hist'.answered = hist.answered /\ hist'.fetches = hist.fetches
        /\ hist'.dropped = hist.dropped
    BY <1>0, <1>1, HolderTypes
    DEF CheckLimited, FetchCancelled, FetchFails, Response, Fail, RazdExit, Freed, control
  <2> QED
    BY <2>1, FreedRetries
<1>2. CASE FetchUnusable(w)
  <2>1. /\ razd[w].pc = "fetch" /\ Freed(w, "select")
        /\ UNCHANGED <<queue, disp, starter, retries>>
        /\ hist'.answered = hist.answered /\ hist'.fetches = hist.fetches
        /\ hist'.dropped = hist.dropped
    BY <1>0, <1>2, HolderTypes DEF FetchUnusable, Response, Release, Freed, control
  <2> QED
    BY <2>1, FreedRetries
<1>3. CASE GiveUp(w)
  <2>1. /\ razd[w].pc = "check" /\ Freed(w, "select") /\ t.num > TryLimit
        /\ UNCHANGED <<queue, disp, starter, retries>>
        /\ hist'.answered = hist.answered /\ hist'.fetches = hist.fetches
        /\ hist'.dropped = hist.dropped \cup {t.data}
    BY <1>0, <1>3, HolderTypes DEF GiveUp, OutOfTries, Release, Freed, control
  <2>2. Asked[t.data] = t.num /\ t.num \in 0..(TryLimit + 1)
    BY <1>0, <2>1, HolderTypes DEF RetriesExact, Tasks
  <2>3. Asked[t.data] = TryLimit + 1
    BY <2>1, <2>2, DumpAssumption
  <2> HIDE DEF t
  <2> QED
    BY <2>1, <2>3, FreedRetries
<1>4. CASE FetchEmpty(w)
  <2> DEFINE u == [t EXCEPT !.num = @ + 1]
  <2>1. /\ razd[w].pc = "fetch" /\ Freed(w, "select") /\ retries' = retries \cup {u}
        /\ UNCHANGED <<queue, disp, starter, hist>>
    BY <1>4 DEF FetchEmpty, Response, Resubmit, Release, Freed, control
  <2>2. u.data = t.data /\ u.num = t.num + 1
    BY <1>0, HolderTypes DEF Tasks
  <2>3. Asked[t.data] = t.num + 1
    BY <1>0, <2>1 DEF RetriesExact
  <2> HIDE DEF t, u
  <2> QED
    BY <2>1, <2>2, <2>3, FreedRetries
<1>5. CASE FetchBadElement(w)
  <2>1. UNCHANGED <<queue, disp, razd, retries, starter, hist>>
    BY <1>5 DEF FetchBadElement, Panic
  <2>2. UNCHANGED <<Fresh, Asked>>
    BY <2>1 DEF Fresh, Unread, Queued, Popped, Unstarted, Asked
  <2> QED
    BY <1>0, <2>1, <2>2, NoRequest
<1> QED
  BY <1>1, <1>2, <1>3, <1>4, <1>5, FetchRetries, FetchChildrenRetries,
     NextItemRetries, ElementRetries
  DEF GetRazd

\* The root section is fresh when it is handed over.
LEMMA StarterRetries ==
    ASSUME RetriesInv, Starter
    PROVE  RetriesExact'
<1> USE ConstantTypes
<1>0. TypeOK /\ NoRest /\ RetriesExact
  BY DEF RetriesInv, TasksInv
<1>1. UNCHANGED <<queue, disp, retries, hist>>
  BY DEF Starter, StartRoot, WaitReturns, CloseAvatar, CloseRazd, CloseOut, StarterStep
<1>2. /\ Asked' = Asked /\ Unstarted' \subseteq Unstarted
      /\ \A v \in Workers : Queued(v)' = Queued(v) /\ Popped(v)' = Popped(v)
  <2>1. starter' \notin {"root", "aborted"}
    BY DEF Starter, StartRoot, WaitReturns, CloseAvatar, CloseRazd, CloseOut, StarterStep
  <2> QED
    BY <1>1, <2>1 DEF Asked, Unstarted, Queued, Popped
<1>3. ASSUME NEW w \in Workers, StartRoot(w)
      PROVE  RetriesExact'
  <2>1. starter = "root" /\ Receive(w, NewTask(Root)) /\ NewTask(Root) \in Tasks
    BY <1>3 DEF StartRoot
  <2>2. NewTask(Root).data = Root /\ NewTask(Root).num = 0
    BY DEF NewTask
  <2>3. Asked[Root] = 0
    BY <1>0, <2>1 DEF RetriesExact, Fresh, Unstarted
  <2>4. /\ \A v \in Workers : Unread(v)' = Unread(v)
        /\ \A v \in Workers \ {w} : razd'[v] = razd[v]
        /\ razd'[w].pc = "check" /\ razd'[w].task = NewTask(Root)
    BY <1>0, <2>1, Received, ReceivedTask
  <2>5. Fresh' \subseteq Fresh
    BY <1>1, <1>2, <2>4, FreshFrom
  <2> QED
    BY <1>0, <1>1, <1>2, <2>2, <2>3, <2>4, <2>5, NoRequest
<1>4. CASE UNCHANGED razd
  <2>1. Fresh' \subseteq Fresh
    BY <1>1, <1>2, <1>4, FreshFrom DEF Unread
  <2> QED
    BY <1>0, <1>1, <1>2, <1>4, <2>1, NoRequest
<1> QED
  BY <1>3, <1>4
  DEF Starter, WaitReturns, CloseAvatar, CloseRazd, CloseOut, StarterStep

\* Nobody else asks for a section.
LEMMA OtherRetries ==
    ASSUME RetriesInv,
           \/ \E w \in Workers : GetAvatar(w)
           \/ Monitor \/ Main \/ Expire \/ UNCHANGED vars
    PROVE  RetriesExact'
<1>0. TypeOK /\ RetriesExact
  BY DEF RetriesInv, TasksInv
<1>1. UNCHANGED <<queue, disp, razd, retries, starter>>
  BY DEF GetAvatar, AvatarLimited, AvatarDownload, AvatarDone, AvatarExit, AvatarStep,
         Monitor, Tick, Scan, CancelWorkers, MonitorExit, MonitorStep,
         Main, Save, SaveFails, Consume, ChannelDrained, MainCancelled, MainExit,
         MainStep, Expire, vars, control
<1>2. /\ hist'.answered = hist.answered /\ hist'.dropped = hist.dropped
      /\ hist'.fetches = hist.fetches
  BY <1>0, HolderTypes
  DEF GetAvatar, AvatarLimited, AvatarDownload, AvatarDone, AvatarExit, AvatarStep,
      Monitor, Tick, Scan, CancelWorkers, MonitorExit, MonitorStep,
      Main, Save, SaveFails, ChannelDrained, MainCancelled, MainExit,
      MainStep, Expire, vars, control
<1>3. /\ Asked' = Asked /\ Unstarted' = Unstarted
      /\ \A v \in Workers : /\ Unread(v)' = Unread(v)
                            /\ Queued(v)' = Queued(v) /\ Popped(v)' = Popped(v)
  BY <1>1, <1>2 DEF Asked, Unstarted, Unread, Queued, Popped
<1>4. Fresh' \subseteq Fresh
  BY <1>2, <1>3, FreshFrom
<1> QED
  BY <1>0, <1>1, <1>2, <1>3, <1>4, NoRequest

\* A department is never asked for more often than once and TryLimit times
\* again, and is given up only when it was asked for exactly that often,
\* whichever workers its retries went to.
THEOREM RetriesWithinBudget == Spec => []RetryBudget
<1>1. TasksInv /\ RetriesExact /\ [Next]_vars => RetriesExact'
  BY DispatcherRetries, RetryRetries, GetRazdRetries, StarterRetries, OtherRetries
  DEF RetriesInv, Next, Step, Terminated
<1>2. RetriesExact => RetryBudget
  BY DEF RetriesExact
<1> QED
  BY <1>1, <1>2, RetriesInit, TasksAlways, PTL DEF Spec
=============================================================================
