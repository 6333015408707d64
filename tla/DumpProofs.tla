---------------------------- MODULE DumpProofs ----------------------------
(***************************************************************************)
(* Theorems about the dump for every tree, number of workers, limit and    *)
(* set of faults.                                                          *)
(***************************************************************************)
EXTENDS Dump, SequenceTheorems, TLAPS

-----------------------------------------------------------------------------
(* Sequences. *)

\* A sequence with an element appended.
LEMMA AppendType ==
    ASSUME NEW S, NEW s \in Seq(S), NEW e \in S
    PROVE  /\ Append(s, e) \in Seq(S)
           /\ Len(Append(s, e)) = Len(s) + 1
           /\ Range(Append(s, e)) = Range(s) \cup {e}
<1>1. /\ Append(s, e) \in Seq(S)
      /\ Len(Append(s, e)) = Len(s) + 1
      /\ Len(s) \in Nat
      /\ \A i \in 1..Len(s) : Append(s, e)[i] = s[i]
      /\ Append(s, e)[Len(s) + 1] = e
  BY AppendProperties, LenProperties
<1>2. DOMAIN s = 1..Len(s) /\ DOMAIN Append(s, e) = 1..(Len(s) + 1)
  BY <1>1, LenProperties
<1>3. Range(Append(s, e)) = Range(s) \cup {e}
  BY <1>1, <1>2, 1..(Len(s) + 1) = (1..Len(s)) \cup {Len(s) + 1} DEF Range
<1> QED
  BY <1>1, <1>3

\* A non-empty sequence split into its head and its tail.
LEMMA TailType ==
    ASSUME NEW S, NEW s \in Seq(S), s # <<>>
    PROVE  /\ Head(s) \in S /\ Tail(s) \in Seq(S)
           /\ Len(Tail(s)) = Len(s) - 1
           /\ Range(s) = {Head(s)} \cup Range(Tail(s))
<1>1. /\ Head(s) \in S /\ Tail(s) \in Seq(S)
      /\ Len(Tail(s)) = Len(s) - 1
      /\ Len(s) \in Nat \ {0}
      /\ Head(s) = s[1]
      /\ \A i \in 1..Len(Tail(s)) : Tail(s)[i] = s[i + 1]
  BY HeadTailProperties, EmptySeq
<1>2. DOMAIN s = 1..Len(s) /\ DOMAIN Tail(s) = 1..(Len(s) - 1)
  BY <1>1, LenProperties
<1>3. ASSUME NEW x \in Range(s) PROVE x \in {Head(s)} \cup Range(Tail(s))
  <2>1. PICK i \in 1..Len(s) : x = s[i]
    BY <1>2, <1>3 DEF Range
  <2>2. CASE i = 1
    BY <2>1, <2>2, <1>1
  <2>3. CASE i # 1
    <3>1. i - 1 \in 1..(Len(s) - 1) /\ (i - 1) + 1 = i
      BY <2>1, <2>3, <1>1
    <3>2. Tail(s)[i - 1] = x
      BY <3>1, <1>1, <2>1
    <3> QED
      BY <3>1, <3>2, <1>2 DEF Range
  <2> QED
    BY <2>2, <2>3
<1>4. ASSUME NEW x \in {Head(s)} \cup Range(Tail(s)) PROVE x \in Range(s)
  <2>1. CASE x = Head(s)
    BY <2>1, <1>1, <1>2 DEF Range
  <2>2. CASE x \in Range(Tail(s))
    <3>1. PICK i \in 1..(Len(s) - 1) : x = Tail(s)[i]
      BY <2>2, <1>2 DEF Range
    <3>2. i + 1 \in 1..Len(s) /\ x = s[i + 1]
      BY <3>1, <1>1
    <3> QED
      BY <3>2, <1>2 DEF Range
  <2> QED
    BY <1>4, <2>1, <2>2
<1> QED
  BY <1>1, <1>3, <1>4

-----------------------------------------------------------------------------
(* Types. *)

\* What the assumptions say of the constants.
LEMMA ConstantTypes ==
    /\ Root \in Deps /\ None = Root
    /\ Deps \subseteq Nodes /\ Sotrs \subseteq Nodes
    /\ \A d \in Deps : Kids[d] \subseteq Nodes
    /\ \A d \in Deps : NewTask(d) \in Tasks
    /\ \A w \in Workers : DepQueue(w) \in Queues /\ AvatarQueue(w) \in Queues
    /\ \A w, v \in Workers : /\ DepQueue(w) = DepQueue(v) => w = v
                             /\ AvatarQueue(w) # DepQueue(v)
  BY TreeAssumption, DumpAssumption
  DEF None, Nodes, NewTask, Tasks, Workers, Queues, DepQueue, AvatarQueue

\* A worker that waits for a task is a worker state.
LEMMA FreeType ==
    ASSUME NEW pc
    PROVE  /\ Free(pc).pc = pc
           /\ Free(pc) \in [pc : {pc}, task : Tasks, todo : SUBSET Nodes, item : Nodes]
  BY ConstantTypes DEF Free

\* The types hold when StartDump begins.
LEMMA InitType == Init => TypeOK
<1> SUFFICES ASSUME Init PROVE TypeOK
  OBVIOUS
<1> USE ConstantTypes, DumpAssumption
<1>1. QueuesOK
  <2>1. \A w \in Workers : queue[DepQueue(w)] = <<>> /\ Range(<<>>) = {}
    BY DEF Init, Range
  <2>2. queue \in [Queues -> Seq(Nodes)]
    BY DEF Init
  <2>3. disp \in [Queues -> [pc : {"idle", "loop", "send", "exited"}, hand : Nodes]]
    BY DEF Init, AtStart
  <2>4. \A w \in Workers : disp[DepQueue(w)].hand \in Deps
    BY DEF Init
  <2> QED
    BY <2>1, <2>2, <2>3, <2>4 DEF QueuesOK
<1>2. RazdOK
  BY FreeType DEF Init, RazdOK, AtStart
<1>3. FlowOK
  <2>1. outCh \in Seq(Nodes) /\ Len(outCh) = 0
    BY EmptySeq DEF Init
  <2> QED
    BY <2>1 DEF Init, FlowOK, AtStart
<1>4. ControlOK
  BY DEF Init, ControlOK
<1>5. HistOK
  BY DEF Init, HistOK, NoHistory
<1> QED
  BY <1>1, <1>2, <1>3, <1>4, <1>5 DEF TypeOK

\* Appending to a queue what belongs there.
LEMMA PushBackType ==
    ASSUME QueuesOK, NEW q \in Queues, NEW n \in Nodes, PushBack(q, n),
           \A w \in Workers : q = DepQueue(w) => n \in Deps
    PROVE  /\ queue' \in [Queues -> Seq(Nodes)]
           /\ \A w \in Workers : Range(queue'[DepQueue(w)]) \subseteq Deps
<1> USE ConstantTypes
<1>1. queue[q] \in Seq(Nodes) /\ queue' = [queue EXCEPT ![q] = Append(queue[q], n)]
  BY DEF QueuesOK, PushBack
<1>2. Append(queue[q], n) \in Seq(Nodes)
      /\ Range(Append(queue[q], n)) = Range(queue[q]) \cup {n}
  BY <1>1, AppendType
<1>3. ASSUME NEW w \in Workers PROVE Range(queue'[DepQueue(w)]) \subseteq Deps
  <2>1. CASE DepQueue(w) = q
    BY <2>1, <1>1, <1>2 DEF QueuesOK
  <2>2. CASE DepQueue(w) # q
    BY <2>2, <1>1 DEF QueuesOK
  <2> QED
    BY <2>1, <2>2
<1> QED
  BY <1>1, <1>2, <1>3 DEF QueuesOK

\* A dispatcher that lets go of what it held.
LEMMA TurnType ==
    ASSUME QueuesOK, NEW q \in Queues,
           NEW pc \in {"idle", "loop", "exited"}, Turn(q, pc)
    PROVE  /\ disp' \in [Queues -> [pc : {"idle", "loop", "send", "exited"}, hand : Nodes]]
           /\ \A w \in Workers : disp'[DepQueue(w)].hand \in Deps
  BY ConstantTypes DEF QueuesOK, Turn

\* A GetRazd that receives a task keeps its type.
LEMMA ReceiveType ==
    ASSUME RazdOK, NEW w \in Workers, NEW t \in Tasks, Receive(w, t)
    PROVE  RazdOK'
  BY DEF RazdOK, Receive

\* Popping, handing over and returning to the queue keep the types.
LEMMA DispatcherType ==
    ASSUME TypeOK, NEW q \in Queues, Dispatcher(q)
    PROVE  TypeOK'
<1> USE ConstantTypes
<1>0. QueuesOK /\ RazdOK /\ FlowOK /\ ControlOK /\ HistOK
  BY DEF TypeOK
<1>1. CASE Pop(q)
  <2>1. queue[q] \in Seq(Nodes) /\ queue[q] # <<>>
    BY <1>0, <1>1 DEF Pop, AtPop, QueuesOK
  <2>2. /\ Head(queue[q]) \in Nodes /\ Tail(queue[q]) \in Seq(Nodes)
        /\ Range(queue[q]) = {Head(queue[q])} \cup Range(Tail(queue[q]))
    BY <2>1, TailType
  <2>3. /\ queue' = [queue EXCEPT ![q] = Tail(queue[q])]
        /\ disp' = [disp EXCEPT ![q] = [pc |-> "send", hand |-> Head(queue[q])]]
    BY <1>1 DEF Pop, Hold
  <2>4. QueuesOK'
    BY <2>2, <2>3, <1>0 DEF QueuesOK
  <2> QED
    BY <2>4, <1>0, <1>1
    DEF Pop, TypeOK, RazdOK, FlowOK, ControlOK, HistOK, control
<1>2. CASE LoopEnd(q)
  <2>1. QueuesOK'
    BY <1>0, <1>2, TurnType DEF LoopEnd, QueuesOK, AfterLoop
  <2> QED
    BY <2>1, <1>0, <1>2
    DEF LoopEnd, TypeOK, RazdOK, FlowOK, ControlOK, HistOK, control
<1>3. CASE ReturnToQueue(q)
  <2>1. disp[q].hand \in Nodes /\ (\A w \in Workers : q = DepQueue(w) => disp[q].hand \in Deps)
    BY <1>0 DEF QueuesOK
  <2>2. QueuesOK'
    BY <2>1, <1>0, <1>3, TurnType, PushBackType DEF ReturnToQueue, QueuesOK
  <2> QED
    BY <2>2, <1>0, <1>3
    DEF ReturnToQueue, TypeOK, RazdOK, FlowOK, ControlOK, HistOK, control
<1>4. CASE SendPanics(q)
  BY <1>0, <1>4
  DEF SendPanics, Panic, TypeOK, QueuesOK, RazdOK, FlowOK, ControlOK, HistOK
<1>5. CASE DispatcherExit(q)
  <2>1. QueuesOK'
    BY <1>0, <1>5, TurnType DEF DispatcherExit, QueuesOK
  <2> QED
    BY <2>1, <1>0, <1>5
    DEF DispatcherExit, TypeOK, RazdOK, FlowOK, ControlOK, HistOK, control
<1>6. CASE \E v, w \in Workers : q = DepQueue(v) /\ DispatchRazd(v, w)
  <2>1. PICK v \in Workers, w \in Workers : q = DepQueue(v) /\ DispatchRazd(v, w)
    BY <1>6
  <2>2. QueuesOK'
    BY <1>0, <2>1, TurnType DEF DispatchRazd, QueuesOK
  <2>3. NewTask(disp[DepQueue(v)].hand) \in Tasks
    BY <1>0 DEF QueuesOK
  <2>4. RazdOK'
    BY <1>0, <2>1, <2>3, ReceiveType DEF DispatchRazd
  <2> QED
    BY <2>2, <2>4, <1>0, <2>1 DEF DispatchRazd, TypeOK, FlowOK, ControlOK, HistOK, control
<1>7. CASE \E v, w \in Workers : q = AvatarQueue(v) /\ DispatchAvatar(v, w)
  <2>1. PICK v \in Workers, w \in Workers : q = AvatarQueue(v) /\ DispatchAvatar(v, w)
    BY <1>7
  <2>2. QueuesOK'
    BY <1>0, <2>1, TurnType DEF DispatchAvatar, QueuesOK
  <2> QED
    BY <2>2, <1>0, <2>1
    DEF DispatchAvatar, TypeOK, RazdOK, FlowOK, ControlOK, HistOK, control
<1> QED
  BY <1>1, <1>2, <1>3, <1>4, <1>5, <1>6, <1>7 DEF Dispatcher

\* The goroutine of a retry keeps the types.
LEMMA RetryType ==
    ASSUME TypeOK, NEW t \in Tasks, Retry(t)
    PROVE  TypeOK'
<1>0. QueuesOK /\ RazdOK /\ FlowOK /\ ControlOK /\ HistOK
  BY DEF TypeOK
<1>1. CASE \E w \in Workers : RetrySend(t, w)
  <2>1. PICK w \in Workers : RetrySend(t, w)
    BY <1>1
  <2>2. RazdOK'
    BY <1>0, <2>1, ReceiveType DEF RetrySend
  <2> QED
    BY <2>2, <1>0, <2>1
    DEF RetrySend, TypeOK, QueuesOK, FlowOK, ControlOK, HistOK, control
<1>2. CASE RetryCancelled(t)
  <2>1. HistOK'
    BY <1>0, <1>2 DEF RetryCancelled, HistOK, Tasks
  <2> QED
    BY <2>1, <1>0, <1>2
    DEF RetryCancelled, TypeOK, QueuesOK, RazdOK, FlowOK, ControlOK, control
<1>3. CASE RetryPanics(t)
  BY <1>0, <1>3
  DEF RetryPanics, Panic, TypeOK, QueuesOK, RazdOK, FlowOK, ControlOK, HistOK
<1> QED
  BY <1>1, <1>2, <1>3 DEF Retry

\* A GetRazd that leaves with an error.
LEMMA FailType ==
    ASSUME TypeOK, NEW w \in Workers, Fail(w)
    PROVE  TypeOK'
<1>0. QueuesOK /\ RazdOK /\ FlowOK /\ ControlOK /\ HistOK
  BY DEF TypeOK
<1>1. RazdOK'
  BY <1>0, FreeType DEF Fail, RazdOK
<1>2. HistOK'
  BY <1>0 DEF Fail, HistOK, RazdOK, Tasks
<1>3. ControlOK'
  BY <1>0 DEF Fail, ControlOK
<1> QED
  BY <1>0, <1>1, <1>2, <1>3 DEF Fail, TypeOK, QueuesOK, FlowOK

\* A GetRazd that goes back to its select.
LEMMA ReleaseType ==
    ASSUME RazdOK, NEW w \in Workers, Release(w)
    PROVE  RazdOK'
  BY FreeType DEF Release, RazdOK

\* A GetRazd whose element is on its way.
LEMMA NextPlaceType ==
    ASSUME NEW A, NEW B, NEW pc \in B, NEW n \in Nodes,
           NEW r \in [pc : A, task : Tasks, todo : SUBSET Nodes, item : Nodes]
    PROVE  [r EXCEPT !.pc = pc, !.item = n] \in
               [pc : B, task : Tasks, todo : SUBSET Nodes, item : Nodes]
  OBVIOUS

\* So does every step of GetRazd: a resubmitted task counts within its range.
LEMMA GetRazdType ==
    ASSUME TypeOK, NEW w \in Workers, GetRazd(w)
    PROVE  TypeOK'
<1> USE ConstantTypes
<1>0. QueuesOK /\ RazdOK /\ FlowOK /\ ControlOK /\ HistOK
  BY DEF TypeOK
<1>a. /\ razd[w].task \in Tasks /\ razd[w].task.data \in Deps
      /\ razd[w].todo \subseteq Nodes /\ razd[w].item \in Nodes
  BY <1>0 DEF RazdOK, Tasks
<1>1. CASE CheckLimited(w) \/ FetchCancelled(w) \/ FetchFails(w)
  BY <1>1, FailType DEF CheckLimited, FetchCancelled, FetchFails
<1>2. CASE GiveUp(w)
  <2>1. HistOK'
    BY <1>0, <1>a, <1>2 DEF GiveUp, HistOK
  <2>2. RazdOK'
    BY <1>0, <1>2, ReleaseType DEF GiveUp
  <2> QED
    BY <2>1, <2>2, <1>0, <1>2 DEF GiveUp, TypeOK, QueuesOK, FlowOK, ControlOK, control
<1>3. CASE Fetch(w)
  <2>1. HistOK'
    BY <1>0, <1>a, <1>3 DEF Fetch, HistOK
  <2>2. razd[w].task.num <= TryLimit
    BY <1>0, <1>a, <1>3, DumpAssumption DEF Fetch, OutOfTries, Tasks
  <2>3. RazdOK'
    BY <1>0, <1>3, <2>2 DEF Fetch, RazdOK
  <2> QED
    BY <2>1, <2>3, <1>0, <1>3 DEF Fetch, TypeOK, QueuesOK, FlowOK, ControlOK, control
<1>4. CASE FetchUnusable(w)
  <2>1. HistOK'
    BY <1>0, <1>a, <1>4 DEF FetchUnusable, HistOK
  <2>2. RazdOK'
    BY <1>0, <1>4, ReleaseType DEF FetchUnusable
  <2> QED
    BY <2>1, <2>2, <1>0, <1>4
    DEF FetchUnusable, TypeOK, QueuesOK, FlowOK, ControlOK, control
<1>5. CASE FetchBadElement(w)
  BY <1>0, <1>5
  DEF FetchBadElement, Panic, TypeOK, QueuesOK, RazdOK, FlowOK, ControlOK, HistOK
<1>6. CASE FetchEmpty(w)
  <2>1. razd[w].task.num <= TryLimit
    BY <1>0, <1>6 DEF FetchEmpty, Response, RazdOK
  <2>2. [razd[w].task EXCEPT !.num = @ + 1] \in Tasks
    BY <1>a, <2>1, DumpAssumption DEF Tasks
  <2>3. FlowOK'
    BY <1>0, <2>2, <1>6 DEF FetchEmpty, Resubmit, FlowOK
  <2>4. RazdOK'
    BY <1>0, <1>6, ReleaseType DEF FetchEmpty
  <2> QED
    BY <2>3, <2>4, <1>0, <1>6 DEF FetchEmpty, TypeOK, QueuesOK, ControlOK, HistOK, control
<1>7. CASE FetchChildren(w)
  <2>1. HistOK'
    BY <1>0, <1>a, <1>7 DEF FetchChildren, HistOK
  <2>2. RazdOK'
    BY <1>0, <1>a, <1>7, FreeType DEF FetchChildren, RazdOK
  <2> QED
    BY <2>1, <2>2, <1>0, <1>7
    DEF FetchChildren, TypeOK, QueuesOK, FlowOK, ControlOK, control
<1>8. CASE \E n \in Nodes : NextItem(w, n)
  <2>1. PICK n \in Nodes : NextItem(w, n)
    BY <1>8
  <2>2. RazdOK'
    BY <1>0, <2>1 DEF NextItem, RazdOK
  <2>3. QueuesOK'
    BY <1>0, <2>1, PushBackType DEF NextItem, Enqueue, QueuesOK
  <2> QED
    BY <2>2, <2>3, <1>0, <2>1 DEF NextItem, TypeOK, FlowOK, ControlOK, HistOK, control
<1>9. CASE Prepare(w)
  <2>1. RazdOK'
    BY <1>0, <1>9 DEF Prepare, RazdOK
  <2>2. QueuesOK'
    BY <1>0, <1>a, <1>9, PushBackType DEF Prepare, QueuesOK
  <2>3. FlowOK'
    BY <1>0, <1>9 DEF Prepare, CountItem, FlowOK
  <2> QED
    BY <2>1, <2>2, <2>3, <1>0, <1>9 DEF Prepare, TypeOK, ControlOK, HistOK, control
<1>10. ASSUME Sent(w) PROVE QueuesOK' /\ RazdOK' /\ ControlOK'
  <2>a. AfterSend(w) \in {"select", "item"} /\ None \in Nodes
    BY DEF AfterSend
  <2>1. RazdOK'
    <3>1. razd' = [razd EXCEPT ![w] = [razd[w] EXCEPT !.pc = AfterSend(w), !.item = None]]
      BY <1>10 DEF Sent
    <3>a. razd[w] \in
             [pc : {"select", "check", "fetch", "item", "prepare", "out", "exited"},
              task : Tasks, todo : SUBSET Nodes, item : Nodes]
      BY <1>0 DEF RazdOK
    <3>2. [razd[w] EXCEPT !.pc = AfterSend(w), !.item = None] \in
             [pc : {"select", "item"}, task : Tasks, todo : SUBSET Nodes, item : Nodes]
      BY ONLY <2>a, <3>a, NextPlaceType
    <3> QED
      BY <3>1, <3>2, <1>0 DEF RazdOK
  <2> QED
    BY <2>1, <1>0, <1>10 DEF Sent, QueuesOK, ControlOK, control
<1>11. CASE SendItem(w)
  <2>1. Append(outCh, razd[w].item) \in Seq(Nodes)
        /\ Len(Append(outCh, razd[w].item)) = Len(outCh) + 1
    BY <1>0, <1>a, AppendType DEF FlowOK
  <2>2. Len(outCh) \in Nat
    BY <1>0, LenProperties DEF FlowOK
  <2>3. FlowOK'
    BY <2>1, <2>2, <1>0, <1>11, DumpAssumption DEF SendItem, Sent, FlowOK
  <2> QED
    BY <2>3, <1>0, <1>10, <1>11 DEF SendItem, TypeOK, HistOK
<1>12. CASE DiscardItem(w)
  <2>1. HistOK'
    BY <1>0, <1>a, <1>12 DEF DiscardItem, HistOK
  <2> QED
    BY <2>1, <1>0, <1>10, <1>12 DEF DiscardItem, Sent, TypeOK, FlowOK
<1>13. CASE RazdExit(w)
  <2>1. RazdOK'
    BY <1>0, <1>13, FreeType DEF RazdExit, RazdOK
  <2> QED
    BY <2>1, <1>0, <1>13
    DEF RazdExit, TypeOK, QueuesOK, FlowOK, ControlOK, HistOK, control
<1> QED
  BY <1>1, <1>2, <1>3, <1>4, <1>5, <1>6, <1>7, <1>8, <1>9, <1>11, <1>12, <1>13 DEF GetRazd

\* So does GetAvatar.
LEMMA GetAvatarType ==
    ASSUME TypeOK, NEW w \in Workers, GetAvatar(w)
    PROVE  TypeOK'
<1>0. QueuesOK /\ RazdOK /\ FlowOK /\ ControlOK /\ HistOK
  BY DEF TypeOK
<1>1. PICK from, to \in {"select", "check", "download", "exited"} : AvatarStep(w, from, to)
  BY DEF GetAvatar, AvatarLimited, AvatarDownload, AvatarDone, AvatarExit
<1>2. cancelled' = cancelled \/ cancelled' = cancelled \cup {"group"}
  BY DEF GetAvatar, AvatarLimited, AvatarDownload, AvatarDone, AvatarExit
<1>3. FlowOK'
  BY <1>0, <1>1 DEF AvatarStep, FlowOK
<1>4. ControlOK'
  BY <1>0, <1>1, <1>2 DEF AvatarStep, ControlOK
<1> QED
  BY <1>0, <1>1, <1>3, <1>4 DEF AvatarStep, TypeOK, QueuesOK, RazdOK, HistOK

\* So does the goroutine of StartDump.
LEMMA StarterType ==
    ASSUME TypeOK, Starter
    PROVE  TypeOK'
<1>0. QueuesOK /\ RazdOK /\ FlowOK /\ ControlOK /\ HistOK
  BY DEF TypeOK
<1>1. CASE \E w \in Workers : StartRoot(w)
  <2>1. PICK w \in Workers : StartRoot(w)
    BY <1>1
  <2>2. RazdOK'
    BY <1>0, <2>1, ReceiveType, ConstantTypes DEF StartRoot
  <2> QED
    BY <2>2, <1>0, <2>1 DEF StartRoot, TypeOK, QueuesOK, FlowOK, ControlOK, HistOK
<1>2. CASE WaitReturns \/ CloseAvatar \/ CloseRazd \/ CloseOut
  <2>1. PICK from, to \in {"wait", "closeAvatar", "closeRazd", "closeOut", "exited"} :
            StarterStep(from, to)
    BY <1>2 DEF WaitReturns, CloseAvatar, CloseRazd, CloseOut
  <2>2. cancelled' = cancelled \/ cancelled' = cancelled \cup {"main"}
    BY <1>2 DEF WaitReturns, CloseAvatar, CloseRazd, CloseOut
  <2> QED
    BY <2>1, <2>2, <1>0
    DEF StarterStep, TypeOK, QueuesOK, RazdOK, FlowOK, ControlOK, HistOK
<1> QED
  BY <1>1, <1>2 DEF Starter

\* So does the monitor.
LEMMA MonitorType ==
    ASSUME TypeOK, Monitor
    PROVE  TypeOK'
<1>0. QueuesOK /\ RazdOK /\ FlowOK /\ ControlOK /\ HistOK
  BY DEF TypeOK
<1>1. PICK to \in 0..(2 * N + 2) : MonitorStep(to)
  BY <1>0, DumpAssumption DEF Monitor, Tick, Scan, CancelWorkers, MonitorExit
<1>2. cancelled' = cancelled \/ cancelled' = cancelled \cup {"workers"}
  BY DEF Monitor, Tick, Scan, CancelWorkers, CancelW, MonitorExit
<1> QED
  BY <1>0, <1>1, <1>2
  DEF MonitorStep, TypeOK, QueuesOK, RazdOK, FlowOK, ControlOK, HistOK

\* So does the loop of Run.
LEMMA MainType ==
    ASSUME TypeOK, Main
    PROVE  TypeOK'
<1>0. QueuesOK /\ RazdOK /\ FlowOK /\ ControlOK /\ HistOK
  BY DEF TypeOK
<1>1. CASE Save \/ SaveFails
  <2>1. Consume
    BY <1>1 DEF Save, SaveFails
  <2>2. /\ Head(outCh) \in Nodes /\ Tail(outCh) \in Seq(Nodes)
        /\ Len(Tail(outCh)) = Len(outCh) - 1 /\ Len(outCh) \in Nat
    BY <1>0, <2>1, TailType, LenProperties DEF Consume, FlowOK
  <2>3. FlowOK'
    BY <2>1, <2>2, <1>0, DumpAssumption DEF Consume, FlowOK
  <2>4. HistOK'
    <3>1. CASE Save
      <4>1. hist.rows \in [Nodes -> Nat]
        BY <1>0 DEF HistOK
      <4>2. [hist.rows EXCEPT ![Head(outCh)] = @ + 1] \in [Nodes -> Nat]
        BY <4>1, <2>2
      <4> QED
        BY <4>2, <3>1, <1>0 DEF Save, HistOK
    <3>2. CASE SaveFails
      BY <3>2, <2>2, <1>0 DEF SaveFails, HistOK
    <3> QED
      BY <3>1, <3>2, <1>1
  <2> QED
    BY <2>1, <2>3, <2>4, <1>0 DEF Consume, TypeOK, QueuesOK, RazdOK, ControlOK, control
<1>2. CASE ChannelDrained \/ MainCancelled \/ MainExit
  BY <1>0, <1>2
  DEF ChannelDrained, MainCancelled, MainExit, MainStep, TypeOK, QueuesOK, RazdOK,
      FlowOK, ControlOK, HistOK
<1> QED
  BY <1>1, <1>2 DEF Main

\* So does the deadline.
LEMMA ExpireType ==
    ASSUME TypeOK, Expire
    PROVE  TypeOK'
  BY DEF Expire, TypeOK, QueuesOK, RazdOK, FlowOK, ControlOK, HistOK

\* So does a step in which nothing changes.
LEMMA StutterType ==
    ASSUME TypeOK, UNCHANGED vars
    PROVE  TypeOK'
  BY DEF vars, control, TypeOK, QueuesOK, RazdOK, FlowOK, ControlOK, HistOK

\* In every execution the variables keep their types.  In particular the item
\* channel never holds more than its capacity, no department queue receives
\* an employee, and no section is requested again after TryLimit retries.
THEOREM TypeCorrect == Spec => []TypeOK
<1>1. TypeOK /\ [Next]_vars => TypeOK'
  BY DispatcherType, RetryType, GetRazdType, GetAvatarType, StarterType,
     MonitorType, MainType, ExpireType, StutterType
  DEF Next, Step, Terminated
<1> QED
  BY <1>1, InitType, PTL DEF Spec

-----------------------------------------------------------------------------
(* Shutdown. *)

\* What makes ClosedAfterWorkers inductive says the same of a dump that was
\* given up before it began, because its avatar directory cannot be read.
WorkersGone ==
    starter \in {"aborted", "closeAvatar", "closeRazd", "closeOut", "exited"} =>
        \A w \in Workers : razd[w].pc = "exited" /\ avatar[w] = "exited"

\* A step that lets starter, workers and image workers be, or only panics.
LEMMA QuietKeepsClosed ==
    ASSUME WorkersGone, UNCHANGED <<starter, razd, avatar>>
    PROVE  WorkersGone'
  BY DEF WorkersGone

\* A worker that has left does nothing, whatever is sent to it.
LEMMA ClosedStep == TypeOK /\ WorkersGone /\ [Next]_vars => WorkersGone'
<1> SUFFICES ASSUME TypeOK, WorkersGone, [Next]_vars
             PROVE  WorkersGone'
  OBVIOUS
<1> DEFINE Closing == starter \in {"aborted", "closeAvatar", "closeRazd", "closeOut", "exited"}
           Gone == \A w \in Workers : razd[w].pc = "exited" /\ avatar[w] = "exited"
<1>1. Closing => Gone
  BY DEF WorkersGone
<1>2. CASE \E q \in Queues : Dispatcher(q)
  <2>1. PICK q \in Queues : Dispatcher(q)
    BY <1>2
  <2>2. CASE UNCHANGED <<razd, avatar>>
    <3>1. UNCHANGED starter
      BY <2>1 DEF Dispatcher, Pop, LoopEnd, ReturnToQueue, SendPanics, Panic,
                  DispatcherExit, DispatchRazd, DispatchAvatar, control
    <3> QED
      BY <2>2, <3>1, QuietKeepsClosed
  <2>3. CASE ~UNCHANGED <<razd, avatar>>
    <3>1. PICK v, w \in Workers : DispatchRazd(v, w) \/ DispatchAvatar(v, w)
      BY <2>1, <2>3 DEF Dispatcher, Pop, LoopEnd, ReturnToQueue, SendPanics, Panic,
                        DispatcherExit
    <3>2. ~Gone /\ UNCHANGED starter
      BY <3>1 DEF DispatchRazd, DispatchAvatar, Receive, control
    <3> QED
      BY <1>1, <3>2 DEF WorkersGone
  <2> QED
    BY <2>2, <2>3
<1>3. CASE \E t \in Tasks : Retry(t)
  <2>1. PICK t \in Tasks : Retry(t)
    BY <1>3
  <2>2. CASE \E w \in Workers : RetrySend(t, w)
    <3>1. ~Gone /\ UNCHANGED starter
      BY <2>2 DEF RetrySend, Receive, control
    <3> QED
      BY <1>1, <3>1 DEF WorkersGone
  <2>3. CASE RetryCancelled(t) \/ RetryPanics(t)
    BY <2>3, QuietKeepsClosed DEF RetryCancelled, RetryPanics, Panic, control
  <2> QED
    BY <2>1, <2>2, <2>3 DEF Retry
<1>4. CASE \E w \in Workers : GetRazd(w) \/ GetAvatar(w)
  <2>1. PICK w \in Workers : GetRazd(w) \/ GetAvatar(w)
    BY <1>4
  <2>2. CASE GetRazd(w)
    <3>1. razd[w].pc # "exited"
      BY <2>2
      DEF GetRazd, CheckLimited, GiveUp, Fetch, FetchCancelled, FetchFails,
          FetchUnusable, FetchBadElement, FetchEmpty, FetchChildren, Response,
          NextItem, Prepare, SendItem, DiscardItem, Sent, RazdExit
    <3>2. UNCHANGED starter
      BY <2>2
      DEF GetRazd, CheckLimited, GiveUp, Fetch, FetchCancelled, FetchFails, Fail,
          FetchUnusable, FetchBadElement, Panic, FetchEmpty, FetchChildren,
          NextItem, Prepare, SendItem, DiscardItem, Sent, RazdExit, control
    <3> QED
      BY <1>1, <3>1, <3>2 DEF WorkersGone
  <2>3. CASE GetAvatar(w)
    <3>1. avatar[w] # "exited" /\ UNCHANGED starter
      BY <2>3 DEF GetAvatar, AvatarLimited, AvatarDownload, AvatarDone, AvatarExit,
                  AvatarStep
    <3> QED
      BY <1>1, <3>1 DEF WorkersGone
  <2> QED
    BY <2>1, <2>2, <2>3
<1>5. CASE Starter
  <2>1. CASE \E w \in Workers : StartRoot(w)
    BY <2>1 DEF StartRoot, WorkersGone
  <2>2. CASE WaitReturns
    BY <2>2 DEF WaitReturns, AllExited, StarterStep, WorkersGone
  <2>3. CASE CloseAvatar \/ CloseRazd \/ CloseOut
    BY <2>3, <1>1 DEF CloseAvatar, CloseRazd, CloseOut, StarterStep, WorkersGone
  <2> QED
    BY <1>5, <2>1, <2>2, <2>3 DEF Starter
<1>6. CASE Monitor
  BY <1>6, QuietKeepsClosed
  DEF Monitor, Tick, Scan, CancelWorkers, MonitorExit, MonitorStep
<1>7. CASE Main
  BY <1>7, QuietKeepsClosed
  DEF Main, Save, SaveFails, Consume, ChannelDrained, MainCancelled, MainExit,
      MainStep, control
<1>8. CASE Expire \/ UNCHANGED vars
  BY <1>8, QuietKeepsClosed DEF Expire, vars, control
<1> QED
  BY <1>2, <1>3, <1>4, <1>5, <1>6, <1>7, <1>8 DEF Next, Step, Terminated

\* Workers are gone in every state of the shutdown, and where nothing started.
LEMMA WorkersGoneAlways == Spec => []WorkersGone
<1>1. Init => WorkersGone
  BY DEF Init, WorkersGone, AtStart, Free
<1> QED
  BY <1>1, ClosedStep, TypeCorrect, PTL DEF Spec

\* The channels are closed, and the main context is cancelled by StartDump,
\* only after every GetRazd and GetAvatar has returned: no worker can panic on
\* a send to the item channel.
THEOREM WorkersLeaveBeforeClose == Spec => []ClosedAfterWorkers
<1>1. WorkersGone => ClosedAfterWorkers
  BY DEF WorkersGone, ClosedAfterWorkers
<1> QED
  BY <1>1, WorkersGoneAlways, PTL
===========================================================================
