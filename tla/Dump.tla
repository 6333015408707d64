------------------------------- MODULE Dump -------------------------------
(***************************************************************************)
(* The dump pipeline of kbcli: StartDump (internal/dump/start.go), the     *)
(* goroutines GetRazd, GetAvatar and Dispatcher of every worker            *)
(* (internal/worker/worker.go) and the consuming loop of the command       *)
(* (cli/employ.go, Run).                                                   *)
(*                                                                         *)
(*   starter --root--> razdCh --> GetRazd(w) --items--> outCh --> Run      *)
(*                       ^           |    \--> QueueDep(w), QueueAvatar(w) *)
(*                       |           |              |            |         *)
(*                    retry <--empty-+        Dispatcher    Dispatcher     *)
(*                       ^                          |            |         *)
(*                       +------- razdCh <----------+        avatarCh      *)
(*                                                               |         *)
(*                                                          GetAvatar(w)   *)
(*                                                                         *)
(* One action is one step of one goroutine between two points where the    *)
(* others can observe it.  razdCh and avatarCh are unbuffered, so a send   *)
(* and its receive are one step of two goroutines; outCh is buffered.      *)
(***************************************************************************)
EXTENDS Tree, Naturals, Sequences, FiniteSets, Functions

CONSTANTS
    N,                  \* number of workers (--workers)
    TryLimit,           \* retries of a department that answers empty
    Limit,              \* --limit, 0 for none
    OutCap,             \* capacity of outCh
    Faults,             \* what the environment may do, see FaultNames
    AvatarDirReadable   \* whether getFileCollection succeeds

\* "deadline": the operation timeout expires; "error": a section request
\* fails or answers 400 and above; "broken": an answer that is no list, or of
\* a status that is neither success nor error; "element": a list with an
\* element that does not unmarshal; "empty": an empty list for a department
\* that has children; "save": the storage refuses an item.
FaultNames == {"deadline", "error", "broken", "element", "empty", "save"}

\* Run refuses to start without workers (employ.go:37).
ASSUME DumpAssumption ==
    /\ N \in Nat \ {0}
    /\ TryLimit \in Nat
    /\ Limit \in Nat
    /\ OutCap \in Nat \ {0}
    /\ Faults \subseteq FaultNames
    /\ AvatarDirReadable \in BOOLEAN

Workers == 1..N

\* The two queues of every worker.  Avatar queues hold the employee whose
\* image is to be downloaded.
DepQueue(w) == <<"razd", w>>
AvatarQueue(w) == <<"avatar", w>>
Queues == {"razd", "avatar"} \X Workers

Tasks == [data : Deps, num : 0..(TryLimit + 1)]
NewTask(d) == [data |-> d, num |-> 0]

\* The root is never an element of an answer: it stands for "no node".
None == Root

VARIABLES
    queue,      \* queue[q]: QueueDep and QueueAvatar of the workers
    disp,       \* disp[q]: the dispatcher of q, [pc, hand]; hand: what it popped
    razd,       \* razd[w]: GetRazd, [pc, task, todo, item]; todo: elements of
                \* the answer not reached yet, item: the one being prepared
    avatar,     \* avatar[w]: where GetAvatar is
    retries,    \* the tasks of the goroutines that wait to send them again
    outCh,      \* the channel of prepared items
    count,      \* DepsCounter + SotrCounter
    starter,    \* the goroutine of StartDump
    monitor,    \* the "Stop workers" goroutine, see ScanQueue
    main,       \* the loop of Run, and the process
    cancelled,  \* the cancellations that have happened: "deadline" and "main"
                \* of ctx, "workers" of ctxw, "group" of ctxEg
    hist        \* history, which no action reads, see NoHistory

control == <<starter, monitor, main, cancelled>>
vars == <<queue, disp, razd, avatar, retries, outCh, count, control, hist>>

\* answered: departments whose answer was used; dropped: given up after the
\* last retry; lostTasks: discarded otherwise; fetches[d]: requests made for d;
\* lostItems: elements discarded on the way; rows[n]: successful saves of n.
NoHistory ==
    [answered |-> {}, dropped |-> {}, lostTasks |-> {}, lostItems |-> {},
     fetches |-> [d \in Deps |-> 0], rows |-> [n \in Nodes |-> 0]]

\* A GetRazd with nothing in hand.
Free(pc) == [pc |-> pc, task |-> NewTask(None), todo |-> {}, item |-> None]

\* When getFileCollection fails StartDump returns before it starts anything.
AtStart(pc) == IF AvatarDirReadable THEN pc ELSE "exited"

Init ==
    /\ queue = [q \in Queues |-> <<>>]
    /\ disp = [q \in Queues |-> [pc |-> AtStart("idle"), hand |-> None]]
    /\ razd = [w \in Workers |-> Free(AtStart("select"))]
    /\ avatar = [w \in Workers |-> AtStart("select")]
    /\ retries = {} /\ outCh = <<>> /\ count = 0
    /\ starter = IF AvatarDirReadable THEN "root" ELSE "aborted"
    /\ monitor = IF AvatarDirReadable THEN 0 ELSE 2 * N + 2
    /\ main = "loop"
    /\ cancelled = {}
    /\ hist = NoHistory

-----------------------------------------------------------------------------
(* Contexts, channels, the process. *)

MainDone == cancelled \cap {"deadline", "main"} # {}
EgDone == cancelled # {}

OutClosed == starter = "exited"
TargetClosed(q) ==
    starter \in {"closeOut", "exited"} \/ (q[1] = "avatar" /\ starter = "closeRazd")

PushBack(q, n) == queue' = [queue EXCEPT ![q] = Append(@, n)]

Running == main \notin {"exited", "crashed"}

\* A goroutine panics and takes the process with it.
Panic ==
    /\ main' = "crashed"
    /\ UNCHANGED <<queue, disp, razd, avatar, retries, outCh, count, starter,
                   monitor, cancelled, hist>>

-----------------------------------------------------------------------------
(* A worker receives a task from razdCh: part of every sender's step.      *)

Receive(w, t) ==
    /\ razd[w].pc = "select"
    /\ razd' = [razd EXCEPT ![w].pc = "check", ![w].task = t]

\* StartDump sends the root section, and waits until some worker receives it.
StartRoot(w) ==
    /\ starter = "root"
    /\ Receive(w, NewTask(Root))
    /\ starter' = "wait"
    /\ UNCHANGED <<queue, disp, avatar, retries, outCh, count, monitor, main,
                   cancelled, hist>>

-----------------------------------------------------------------------------
(* Dispatcher.  "idle" is its select on the ticker, "loop" the inner loop  *)
(* after a send, "send" the select on the channel with a popped element.   *)

AtPop(q) == disp[q].pc \in {"idle", "loop"} /\ queue[q] # <<>>
Hold(q) == disp' = [disp EXCEPT ![q] = [pc |-> "send", hand |-> Head(queue[q])]]
Turn(q, pc) == disp' = [disp EXCEPT ![q] = [pc |-> pc, hand |-> None]]

\* Mutant: the front element is read and not removed.
PopKeeps(q) ==
    /\ AtPop(q) /\ Hold(q)
    /\ UNCHANGED <<queue, razd, avatar, retries, outCh, count, control, hist>>

Pop(q) ==
    /\ AtPop(q) /\ Hold(q)
    /\ queue' = [queue EXCEPT ![q] = Tail(@)]
    /\ UNCHANGED <<razd, avatar, retries, outCh, count, control, hist>>

\* Where the inner loop leaves it when the queue has run empty.
AfterLoopReturns == "exited"                    \* Mutant: the dispatcher returns.
AfterLoop == "idle"

LoopEnd(q) ==
    /\ disp[q].pc = "loop" /\ queue[q] = <<>>
    /\ Turn(q, AfterLoop)
    /\ UNCHANGED <<queue, razd, avatar, retries, outCh, count, control, hist>>

DispatchRazd(v, w) ==
    /\ disp[DepQueue(v)].pc = "send"
    /\ Receive(w, NewTask(disp[DepQueue(v)].hand))
    /\ Turn(DepQueue(v), "loop")
    /\ UNCHANGED <<queue, avatar, retries, outCh, count, control, hist>>

DispatchAvatar(v, w) ==
    /\ disp[AvatarQueue(v)].pc = "send"
    /\ avatar[w] = "select"
    /\ avatar' = [avatar EXCEPT ![w] = "check"]
    /\ Turn(AvatarQueue(v), "loop")
    /\ UNCHANGED <<queue, razd, retries, outCh, count, control, hist>>

\* The main context is cancelled during the send: the element goes back, to
\* the end of the queue.
ReturnToQueue(q) ==
    /\ disp[q].pc = "send" /\ MainDone
    /\ PushBack(q, disp[q].hand)
    /\ Turn(q, "exited")
    /\ UNCHANGED <<razd, avatar, retries, outCh, count, control, hist>>

\* The select is reached after the channel was closed: the send case is then
\* as ready as ctx.Done(), and it panics.
SendPanics(q) == disp[q].pc = "send" /\ TargetClosed(q) /\ Panic

DispatcherExit(q) ==
    /\ disp[q].pc = "idle" /\ MainDone
    /\ Turn(q, "exited")
    /\ UNCHANGED <<queue, razd, avatar, retries, outCh, count, control, hist>>

-----------------------------------------------------------------------------
(* The goroutine that sends a task again after its backoff.  Its first     *)
(* select (timer or cancellation) leaves no trace the second one does not. *)

RetrySend(t, w) ==
    /\ t \in retries
    /\ Receive(w, t)
    /\ retries' = retries \ {t}
    /\ UNCHANGED <<queue, disp, avatar, outCh, count, control, hist>>

RetryCancelled(t) ==
    /\ t \in retries /\ EgDone
    /\ retries' = retries \ {t}
    /\ hist' = [hist EXCEPT !.lostTasks = @ \cup {t.data}]
    /\ UNCHANGED <<queue, disp, razd, avatar, outCh, count, control>>

RetryPanics(t) == t \in retries /\ TargetClosed(<<"razd">>) /\ Panic

-----------------------------------------------------------------------------
(* GetRazd.  "select" is its select, "check" the two tests of a received   *)
(* task, "fetch" the request, "item" the loop over the answer, "prepare"   *)
(* PrepareItem, "out" the send of the prepared element.                    *)

\* The two counters are loaded one after the other; both only grow, so the
\* sum is one that count had in between.
OverLimitNever == FALSE                         \* Mutant: the test is dropped.
OverLimit == Limit > 0 /\ count > Limit

OutOfTriesEarly(t) == t.num >= TryLimit         \* Mutant: one retry less.
OutOfTries(t) == t.num > TryLimit

\* GetRazd returns an error: errgroup cancels ctxEg for all.
Fail(w) ==
    /\ razd' = [razd EXCEPT ![w] = Free("exited")]
    /\ cancelled' = cancelled \cup {"group"}
    /\ hist' = [hist EXCEPT !.lostTasks = @ \cup {razd[w].task.data}]
    /\ UNCHANGED <<queue, disp, avatar, retries, outCh, count, starter, monitor, main>>

\* The task is done with: back to the select.
Release(w) == razd' = [razd EXCEPT ![w] = Free("select")]

CheckLimited(w) == razd[w].pc = "check" /\ OverLimit /\ Fail(w)

GiveUp(w) ==
    /\ razd[w].pc = "check" /\ ~OverLimit /\ OutOfTries(razd[w].task)
    /\ Release(w)
    /\ hist' = [hist EXCEPT !.dropped = @ \cup {razd[w].task.data}]
    /\ UNCHANGED <<queue, disp, avatar, retries, outCh, count, control>>

Fetch(w) ==
    /\ razd[w].pc = "check" /\ ~OverLimit /\ ~OutOfTries(razd[w].task)
    /\ razd' = [razd EXCEPT ![w].pc = "fetch"]
    /\ hist' = [hist EXCEPT !.fetches[razd[w].task.data] = @ + 1]
    /\ UNCHANGED <<queue, disp, avatar, retries, outCh, count, control>>

\* The request is over; what is tested first is the context.
FetchCancelled(w) == razd[w].pc = "fetch" /\ EgDone /\ Fail(w)

Response(w) == razd[w].pc = "fetch" /\ ~EgDone

FetchFails(w) == Response(w) /\ "error" \in Faults /\ Fail(w)

\* No list, or a status that is neither success nor error: the task is over.
FetchUnusable(w) ==
    /\ Response(w) /\ "broken" \in Faults
    /\ Release(w)
    /\ hist' = [hist EXCEPT !.lostTasks = @ \cup {razd[w].task.data}]
    /\ UNCHANGED <<queue, disp, avatar, retries, outCh, count, control>>

\* An element that does not unmarshal stays nil in DepsResponse, and the loop
\* that builds the debug line dereferences it.
FetchBadElement(w) == Response(w) /\ "element" \in Faults /\ Panic

ResubmitForgets(t) == UNCHANGED retries         \* Mutant: the task is dropped.
Resubmit(t) == retries' = retries \cup {[t EXCEPT !.num = @ + 1]}

FetchEmpty(w) ==
    /\ Response(w) /\ ("empty" \in Faults \/ Kids[razd[w].task.data] = {})
    /\ Release(w)
    /\ Resubmit(razd[w].task)
    /\ UNCHANGED <<queue, disp, avatar, outCh, count, control, hist>>

FetchChildren(w) ==
    /\ Response(w) /\ Kids[razd[w].task.data] # {}
    /\ razd' = [razd EXCEPT ![w] =
                   [Free("item") EXCEPT !.todo = Kids[razd[w].task.data]]]
    /\ hist' = [hist EXCEPT !.answered = @ \cup {razd[w].task.data}]
    /\ UNCHANGED <<queue, disp, avatar, retries, outCh, count, control>>

\* A department goes to the worker's own queue.
EnqueueAll(w, n) == PushBack(DepQueue(w), n)    \* Mutant: whatever n is.
Enqueue(w, n) ==
    IF n \in Deps THEN PushBack(DepQueue(w), n) ELSE UNCHANGED queue

\* The next element of the answer, in any order the answer may have.
NextItem(w, n) ==
    /\ razd[w].pc = "item" /\ n \in razd[w].todo
    /\ razd' = [razd EXCEPT ![w].pc = "prepare", ![w].item = n,
                            ![w].todo = @ \ {n}]
    /\ Enqueue(w, n)
    /\ UNCHANGED <<disp, avatar, retries, outCh, count, control, hist>>

\* DepsCounter or SotrCounter goes up.
CountDepsOnly(n) == count' = IF n \in Deps THEN count + 1 ELSE count   \* Mutant.
CountItem(n) == count' = count + 1

\* The counter, then PrepareItem: the image of an employee is queued and the
\* requests for the middle name and the mobile number are made, none of which
\* can stop the element.
Prepare(w) ==
    /\ razd[w].pc = "prepare"
    /\ razd' = [razd EXCEPT ![w].pc = "out"]
    /\ CountItem(razd[w].item)
    /\ IF razd[w].item \in Sotrs THEN PushBack(AvatarQueue(w), razd[w].item)
                                 ELSE UNCHANGED queue
    /\ UNCHANGED <<disp, avatar, retries, outCh, control, hist>>

\* Where the loop over the answer goes on, whichever case the send took.
AfterSendReturns(w) == "select"                 \* Mutant: after one element.
AfterSend(w) == IF razd[w].todo = {} THEN "select" ELSE "item"

Sent(w) ==
    /\ razd[w].pc = "out"
    /\ razd' = [razd EXCEPT ![w].pc = AfterSend(w), ![w].item = None]
    /\ UNCHANGED <<queue, disp, avatar, retries, count, control>>

SendItem(w) ==
    /\ Len(outCh) < OutCap
    /\ Sent(w)
    /\ outCh' = Append(outCh, razd[w].item)
    /\ UNCHANGED hist

DiscardItem(w) ==
    /\ EgDone
    /\ Sent(w)
    /\ hist' = [hist EXCEPT !.lostItems = @ \cup {razd[w].item}]
    /\ UNCHANGED outCh

RazdExit(w) ==
    /\ razd[w].pc = "select" /\ EgDone
    /\ razd' = [razd EXCEPT ![w] = Free("exited")]
    /\ UNCHANGED <<queue, disp, avatar, retries, outCh, count, control, hist>>

-----------------------------------------------------------------------------
(* GetAvatar.  What it does to files is not part of this module.           *)

AvatarStep(w, from, to) ==
    /\ avatar[w] = from
    /\ avatar' = [avatar EXCEPT ![w] = to]
    /\ UNCHANGED <<queue, disp, razd, retries, outCh, count, starter, monitor,
                   main, hist>>

AvatarLimited(w) ==
    /\ OverLimit
    /\ AvatarStep(w, "check", "exited")
    /\ cancelled' = cancelled \cup {"group"}

AvatarDownload(w) ==
    ~OverLimit /\ AvatarStep(w, "check", "download") /\ UNCHANGED cancelled
AvatarDone(w) == AvatarStep(w, "download", "select") /\ UNCHANGED cancelled
AvatarExit(w) == EgDone /\ AvatarStep(w, "select", "exited") /\ UNCHANGED cancelled

-----------------------------------------------------------------------------
(* The goroutine of StartDump after the root, with its deferred closes.    *)

\* Mutant: only the image workers are waited for.
AvatarsExited == \A w \in Workers : avatar[w] = "exited"

AllExited == \A w \in Workers : razd[w].pc = "exited" /\ avatar[w] = "exited"

StarterStep(from, to) ==
    /\ starter = from
    /\ starter' = to
    /\ UNCHANGED <<queue, disp, razd, avatar, retries, outCh, count, monitor,
                   main, hist>>

\* eg.Wait() returns, and cancel() of the main context follows at once.
WaitReturns ==
    /\ AllExited
    /\ StarterStep("wait", "closeAvatar")
    /\ cancelled' = cancelled \cup {"main"}

CloseAvatar == StarterStep("closeAvatar", "closeRazd") /\ UNCHANGED cancelled
CloseRazd == StarterStep("closeRazd", "closeOut") /\ UNCHANGED cancelled
CloseOut == StarterStep("closeOut", "exited") /\ UNCHANGED cancelled

-----------------------------------------------------------------------------
(* The monitor.  0: it waits for a tick; 1 .. 2N: it is about to read the  *)
(* length of the p-th queue of its scan; 2N+1: it has found all of them    *)
(* empty; 2N+2: it has left.                                               *)

ScanQueue(p) == IF p % 2 = 1 THEN AvatarQueue((p + 1) \div 2) ELSE DepQueue(p \div 2)

MonitorStep(to) ==
    /\ monitor' = to
    /\ UNCHANGED <<queue, disp, razd, avatar, retries, outCh, count, starter,
                   main, hist>>

\* Timing assumption: the first five seconds are enough to hand over the root.
Tick == monitor = 0 /\ starter # "root" /\ MonitorStep(1) /\ UNCHANGED cancelled

Scan ==
    /\ monitor \in 1..(2 * N)
    /\ MonitorStep(IF queue[ScanQueue(monitor)] = <<>> THEN monitor + 1 ELSE 0)
    /\ UNCHANGED cancelled

CancelWForgets == cancelled' = cancelled        \* Mutant: return without cancelw().
CancelW == cancelled' = cancelled \cup {"workers"}
CancelWorkers == monitor = 2 * N + 1 /\ MonitorStep(2 * N + 2) /\ CancelW

MonitorExit ==
    monitor = 0 /\ MainDone /\ MonitorStep(2 * N + 2) /\ UNCHANGED cancelled

-----------------------------------------------------------------------------
(* Run: the select over the item channel and the context, then Close.      *)

Consume ==
    /\ main = "loop" /\ outCh # <<>>
    /\ outCh' = Tail(outCh)
    /\ UNCHANGED <<queue, disp, razd, avatar, retries, count, control>>

Save == Consume /\ hist' = [hist EXCEPT !.rows[Head(outCh)] = @ + 1]

SaveFails ==
    /\ "save" \in Faults
    /\ Consume
    /\ hist' = [hist EXCEPT !.lostItems = @ \cup {Head(outCh)}]

MainStep(from, to) ==
    /\ main = from
    /\ main' = to
    /\ UNCHANGED <<queue, disp, razd, avatar, retries, outCh, count, starter,
                   monitor, cancelled, hist>>

ChannelDrained == OutClosed /\ outCh = <<>> /\ MainStep("loop", "closing")
MainCancelled == MainDone /\ MainStep("loop", "closing")

\* Run returns and so does the process; its goroutines end where they are.
MainExit == MainStep("closing", "exited")

Expire ==
    /\ "deadline" \in Faults
    /\ cancelled' = cancelled \cup {"deadline"}
    /\ UNCHANGED <<queue, disp, razd, avatar, retries, outCh, count, starter,
                   monitor, main, hist>>

-----------------------------------------------------------------------------
(* The goroutines, and the whole.                                          *)

Dispatcher(q) ==
    \/ Pop(q) \/ LoopEnd(q) \/ ReturnToQueue(q) \/ SendPanics(q)
    \/ DispatcherExit(q)
    \/ \E v, w \in Workers : q = DepQueue(v) /\ DispatchRazd(v, w)
    \/ \E v, w \in Workers : q = AvatarQueue(v) /\ DispatchAvatar(v, w)

Retry(t) ==
    \/ \E w \in Workers : RetrySend(t, w)
    \/ RetryCancelled(t) \/ RetryPanics(t)

GetRazd(w) ==
    \/ CheckLimited(w) \/ GiveUp(w) \/ Fetch(w)
    \/ FetchCancelled(w) \/ FetchFails(w) \/ FetchUnusable(w)
    \/ FetchBadElement(w) \/ FetchEmpty(w) \/ FetchChildren(w)
    \/ \E n \in Nodes : NextItem(w, n)
    \/ Prepare(w) \/ SendItem(w) \/ DiscardItem(w) \/ RazdExit(w)

GetAvatar(w) ==
    AvatarLimited(w) \/ AvatarDownload(w) \/ AvatarDone(w) \/ AvatarExit(w)

Starter ==
    \/ \E w \in Workers : StartRoot(w)
    \/ WaitReturns \/ CloseAvatar \/ CloseRazd \/ CloseOut

Monitor == Tick \/ Scan \/ CancelWorkers \/ MonitorExit

Main == Save \/ SaveFails \/ ChannelDrained \/ MainCancelled \/ MainExit

Step ==
    \/ \E q \in Queues : Dispatcher(q)
    \/ \E t \in Tasks : Retry(t)
    \/ \E w \in Workers : GetRazd(w) \/ GetAvatar(w)
    \/ Starter \/ Monitor \/ Main \/ Expire

\* The process is gone: nothing happens any more.
Terminated == ~Running /\ UNCHANGED vars

Next == (Running /\ Step) \/ Terminated

Spec == Init /\ [][Next]_vars

\* Every goroutine that can go on does: the Go scheduler is fair, requests end
\* by their timeout and Store.Save returns.  Nothing makes the deadline come,
\* and a select with two ready cases may always take the same one.
Fairness ==
    /\ \A q \in Queues : WF_vars(Running /\ Dispatcher(q))
    /\ \A t \in Tasks : WF_vars(Running /\ Retry(t))
    /\ \A w \in Workers : /\ WF_vars(Running /\ GetRazd(w))
                          /\ WF_vars(Running /\ GetAvatar(w))
    /\ WF_vars(Running /\ Starter)
    /\ WF_vars(Running /\ Monitor)
    /\ WF_vars(Running /\ Main)

FairSpec == Spec /\ Fairness

-----------------------------------------------------------------------------
(* Properties. *)

QueuesOK ==
    /\ queue \in [Queues -> Seq(Nodes)]
    /\ disp \in [Queues -> [pc : {"idle", "loop", "send", "exited"}, hand : Nodes]]
    /\ \A w \in Workers : /\ Range(queue[DepQueue(w)]) \subseteq Deps
                          /\ disp[DepQueue(w)].hand \in Deps

RazdOK ==
    /\ razd \in [Workers ->
          [pc : {"select", "check", "fetch", "item", "prepare", "out", "exited"},
           task : Tasks, todo : SUBSET Nodes, item : Nodes]]
    /\ \A w \in Workers : razd[w].pc = "fetch" => razd[w].task.num <= TryLimit

FlowOK ==
    /\ avatar \in [Workers -> {"select", "check", "download", "exited"}]
    /\ retries \subseteq Tasks
    /\ outCh \in Seq(Nodes) /\ Len(outCh) <= OutCap
    /\ count \in Nat

ControlOK ==
    /\ starter \in {"aborted", "root", "wait", "closeAvatar", "closeRazd",
                    "closeOut", "exited"}
    /\ monitor \in 0..(2 * N + 2)
    /\ main \in {"loop", "closing", "exited", "crashed"}
    /\ cancelled \subseteq {"deadline", "main", "workers", "group"}

HistOK ==
    hist \in [answered : SUBSET Deps, dropped : SUBSET Deps,
              lostTasks : SUBSET Deps, lostItems : SUBSET Nodes,
              fetches : [Deps -> Nat], rows : [Nodes -> Nat]]

\* The type of every variable; department queues hold departments only, no
\* request is made beyond the retries, and the item channel never holds more
\* than its capacity.
TypeOK == QueuesOK /\ RazdOK /\ FlowOK /\ ControlOK /\ HistOK

\* Who can hold the task of a department, and the departments each one holds.
TaskHolders ==
    ({"todo", "queue", "dispatcher", "worker"} \X Workers)
        \cup ({"starter", "retry", "answered", "dropped", "lost"} \X {0})

HeldTasks(h) ==
    CASE h[1] = "todo" -> razd[h[2]].todo \cap Deps
      [] h[1] = "queue" -> Range(queue[DepQueue(h[2])])
      [] h[1] = "dispatcher" ->
            IF disp[DepQueue(h[2])].pc = "send" THEN {disp[DepQueue(h[2])].hand} ELSE {}
      [] h[1] = "worker" ->
            IF razd[h[2]].pc \in {"check", "fetch"} THEN {razd[h[2]].task.data} ELSE {}
      [] h[1] = "starter" -> IF starter \in {"root", "aborted"} THEN {Root} ELSE {}
      [] h[1] = "retry" -> {t.data : t \in retries}
      [] h[1] = "answered" -> hist.answered
      [] h[1] = "dropped" -> hist.dropped
      [] h[1] = "lost" -> hist.lostTasks

\* Every department an answer has listed is in exactly one place: waiting in
\* one queue, travelling, being requested, waiting for a retry, or finished
\* one way or another.  Neither the requeue with backoff, nor the return to
\* the queue at a cancellation, nor the hand-over between dispatchers and
\* workers ever duplicates a subtree or forgets one without a trace.
TaskInOnePlace ==
    /\ \A g, h \in TaskHolders : g # h => HeldTasks(g) \cap HeldTasks(h) = {}
    /\ \A w \in Workers : IsInjective(queue[DepQueue(w)])
    /\ \A t, u \in retries : t.data = u.data => t = u
    /\ UNION {HeldTasks(h) : h \in TaskHolders} = Known(hist.answered)

ItemHolders == ({"todo", "item"} \X Workers) \cup ({"out", "saved", "lost"} \X {0})

HeldItems(h) ==
    CASE h[1] = "todo" -> razd[h[2]].todo
      [] h[1] = "item" ->
            IF razd[h[2]].pc \in {"prepare", "out"} THEN {razd[h[2]].item} ELSE {}
      [] h[1] = "out" -> Range(outCh)
      [] h[1] = "saved" -> {n \in Nodes : hist.rows[n] = 1}
      [] h[1] = "lost" -> hist.lostItems

\* Every element of a used answer is in exactly one place between the answer
\* and the storage, and is stored at most once.
ItemInOnePlace ==
    /\ \A g, h \in ItemHolders : g # h => HeldItems(g) \cap HeldItems(h) = {}
    /\ IsInjective(outCh)
    /\ \A n \in Nodes : hist.rows[n] <= 1
    /\ UNION {HeldItems(h) : h \in ItemHolders} = Listed(hist.answered)

\* The counter the limit is compared with counts the elements workers have
\* got past, whatever became of them.
CountIsExact ==
    count = Cardinality(Listed(hist.answered))
            - Cardinality(UNION {razd[w].todo : w \in Workers})
            - Cardinality({w \in Workers : razd[w].pc = "prepare"})

\* The size of the longest answer.
Fanout == CHOOSE m \in {Cardinality(Kids[d]) : d \in Deps} :
              \A d \in Deps : Cardinality(Kids[d]) <= m

\* A limit stops the dump late but not without bound: workers that passed the
\* test before the last element counted finish the answer they were asking for.
OvershootBounded == Limit > 0 => count <= Limit + N * Fanout

\* A department is given up only after a first request and TryLimit retries
\* were all answered empty, and is never asked for more often than that.
RetryBudget ==
    \A d \in Deps : /\ hist.fetches[d] <= TryLimit + 1
                    /\ d \in hist.dropped => hist.fetches[d] = TryLimit + 1

\* The item channel is closed only when no worker can send any more, so no
\* worker panics on it, and razdCh and avatarCh only when nobody receives.
ClosedAfterWorkers ==
    starter \in {"closeAvatar", "closeRazd", "closeOut", "exited"} =>
        \A w \in Workers : razd[w].pc = "exited" /\ avatar[w] = "exited"

\* Nothing is queued, in a goroutine's hands or waiting for a retry.
Idle ==
    /\ \A q \in Queues : queue[q] = <<>> /\ disp[q].pc # "send"
    /\ \A w \in Workers : razd[w].pc = "select" /\ avatar[w] = "select"
    /\ retries = {}
    /\ starter # "root"

\* An idle pipeline has finished the walk: every department ever listed was
\* answered, finally given up or answered with something unusable, and every
\* element went into the channel.  So a monitor that looked at all of Idle
\* would stop the workers at the right time.
IdleMeansComplete ==
    Idle /\ ~EgDone =>
        /\ Known(hist.answered) = hist.answered \cup hist.dropped \cup hist.lostTasks
        /\ Listed(hist.answered) = Range(outCh) \cup hist.lostItems
                                     \cup {n \in Nodes : hist.rows[n] > 0}

\* The dump implements what it promises.
Promise == INSTANCE Crawl WITH answered <- hist.answered, saved <- hist.rows
ImplementsCrawl == Promise!Spec

\* Without a deadline the command still ends: the monitor notices that the
\* queues are empty, the workers leave, the channels are closed in turn.
Finishes == <>(~Running)

\* A queued department is asked for, unless the workers are told to stop:
\* none is starved in the queue of a busy worker.
NoTaskStarves ==
    \A d \in Deps :
        (\E w \in Workers : d \in Range(queue[DepQueue(w)]))
            ~> (hist.fetches[d] > 0 \/ EgDone \/ ~Running)

-----------------------------------------------------------------------------
(* What comments and help texts say, and the code does not do. *)

\* The workers are cancelled by the monitor only when the dump is idle:
\* "when all workers done and queues for razd&avatar is empty" (start.go:66).
CancelOnlyWhenIdle ==
    []["workers" \in cancelled' \ cancelled => Idle]_vars

\* Whatever a worker has sent is stored before the command returns: the dump
\* is "a full dump of employes" (main.go:21).
SentItemsSaved == main = "exited" => outCh = <<>>

\* At the end the dispatchers and the retries terminate, they do not take the
\* process down: a task that can no longer be sent is returned to its queue
\* (worker.go:307).
NoPanic == main # "crashed"
===========================================================================
