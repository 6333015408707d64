# Verification of kbempgo

TLA+ specifications of [kbempgo](https://github.com/mioxin/kbempgo), the TLC
runs that check them on small instances, and theorems about them that TLAPS
proves for every instance. Paths below are relative to the repository
(`src/...`); definitions carry the names of the code where they can.

    tlc -workers 2 -config DumpFaults.cfg MCDump       # one run
    tlapm PlaceProofs.tla                              # the proofs of one module

## 1. The system

kbempgo builds a catalogue of a company's employees. `kbcli employ` walks the
organisation tree of a web site and dumps it into JSON files; `kbcli sync`
sends those files over gRPC to `kbsrv`, which keeps them in a database (or in
files) and serves them over gRPC and REST.

| component | state | operations | interacts with |
|---|---|---|---|
| dump pipeline (`internal/dump/start.go`, `internal/worker/worker.go`, `cli/employ.go`) | two queues per worker, `razdCh`, `avatarCh`, `outCh`, two counters, four contexts | `StartDump`, `GetRazd`, `PrepareItem`, `Dispatcher`, `GetAvatar`, the monitor, the loop of `Run` | channels and shared queues inside; HTTP source; `Store.Save` |
| file storage (`internal/storage/file/file.go`) | two append-only files, their buffered writers, one mutex | `Save`, `Update`, `Flush`, `Close`, `GetDepsBy`, `GetSotrsBy` | called by the dump and by gRPC handlers |
| avatar files (`worker.go:433-525`, `worker/avatar.go`, `dump/start.go:124-176`) | a directory of images, the collection read at the start | scan, HEAD, download to `.tmp`, rename | avatar tasks of the pipeline |
| SQL storage (`internal/storage/pg`) | two maps of pending rows, a counter of flushes, the database | `Save`, `Flush`, queries | gRPC handlers |
| sync command (`cli/sync.go`) | position in the two files, counters | `insert` of departments, then of employees, each followed by `Flush` | files of the dump, gRPC |
| employee history (`internal/datasource/employee.go`, `api/kbemp/v1/util.go`, `internal/utils/conv.go`) | none (pure), called in a transaction | `Diff`, `CompareSotr`, conversions, `deleteQuery` | SQL storage, file storage |
| server (`backend/`, `pkg/grpc_server`) | listener, gRPC server, gateway, readiness flag | start, serve, signal, graceful stop, `PStor` forwarding | storage, gateway |
| gRPC client and ssh proxy (`pkg/grpc_client`) | ssh process, connection | dial with backoff, close | the command line |
| parsers, HTTP client, configuration, logging, metrics, generated API | | | |

What makes it hard: up to `3N+4` goroutines of a dump and any number of
backoff goroutines, four contexts that cancel each other, channels that are
closed while some goroutines still hold them; a storage with a buffer that its
own reads do not see; a flush protocol that counts calls of all clients
together, over maps without a lock; a stop that runs deferred calls in an order
that depends on where the start failed; an ssh process that outlives its
dialer's own context. `PROJECT.json` lists every such hazard at its line.

What would make each component correct:

- *dump*: no department is visited twice or forgotten without a trace; every
  element of an answer is stored at most once; retries are bounded and given;
  nobody sends on a closed channel; the limit holds; the command ends, and
  ends when the work is done and not before;
- *file storage*: an acknowledged row is in the file after `Close`; a crash
  costs no more than the buffer; a row is not stored twice; the current row of
  an employee is the last one;
- *avatar files*: a visible file is a complete download; a new version never
  overwrites an old one; a dump without a fault leaves the current version;
- *SQL storage and sync*: after a successful sync the database holds what the
  files held, whatever earlier clients did;
- *history*: a change gives a history entry, no change gives none, and a
  phone that is gone is deleted;
- *server*: an answered request is durable after a graceful stop; whoever is
  told that the server is ready finds it serving; a signal ends it;
- *ssh proxy*: every dial ends, and no ssh process lives on without an owner.

## 2. The modules

| module | what it is |
|---|---|
| `Tree` | constants: the organisation tree as the source serves it |
| `Crawl` | abstract: what a dump promises, without workers, queues and channels |
| `Dump` | the dump pipeline, one action per step of a goroutine |
| `MCDump` | trees for TLC |
| `DumpProofs` | theorems about `Dump`: types, order of the shutdown |
| `PlaceProofs` | departments: in one place, never two or none; how often each is asked for |
| `ItemProofs` | elements: in one place; `Dump` implements `Crawl`; what idle means; the counter and the limit |
| `FileStore` | the file storage with its buffer, crashes and write errors |
| `FileStoreProofs` | theorems about `FileStore`: types, nothing acknowledged is lost, what crashes cost, no department twice |
| `Server` | the life of `kbsrv`, composed with `FileStore` |
| `ServerProofs` | types, readiness; `Server` implements `FileStore`, and so keeps its promises |
| `Employee` | pure: an employee, his conversions, `Diff` and what it deletes |
| `PgStore` | the SQL storage behind the gRPC handlers, uses `Employee` |
| `Sync` | clients of the sync command, composed with `PgStore` |
| `SyncProofs` | theorems about `Sync`: types, departments, order of rows, phones, history, the counter, commands that are alone |
| `Avatars` | the directory of images and the workers that fill it |
| `AvatarsProofs` | theorems about `Avatars`: old files, complete files, the newest version |
| `Tunnel` | gRPC client, dialer and ssh process |
| `TunnelProofs` | theorems about `Tunnel`: types, no process without an owner |
| `MCFileStore`, `MCServer`, `MCSync`, `MCAvatars`, `MCTunnel` | keys, dumps, sizes and faults for TLC |

### Dump

The goroutines and where their code is:

| in the module | in the code |
|---|---|
| `razd[w]`, actions of `GetRazd(w)` | one `GetRazd` per worker, `worker.go:141-275` |
| `avatar[w]`, `GetAvatar(w)` | one `GetAvatar` per worker, `worker.go:433-525` |
| `disp[q]`, `Dispatcher(q)` | two dispatchers per worker, `worker.go:277-324` |
| `retries`, `Retry(t)` | the goroutine started for an empty answer, `worker.go:237-248` |
| `starter`, `Starter` | the goroutine of `StartDump`, `start.go:46-119`, with its deferred closes in the order they run |
| `monitor`, `Monitor` | "Stop workers", `start.go:76-106`; it reads one queue length per step |
| `main`, `Main` | the loop of `Run`, `employ.go:64-101` |
| `cancelled` | which of the contexts were cancelled: deadline or main (`ctx`), workers (`ctxw`), group (`ctxEg`); a cancelled parent cancels its children |

`razdCh` and `avatarCh` are unbuffered, so a hand-over is one step of sender
and receiver (`DispatchRazd`, `DispatchAvatar`, `StartRoot`, `RetrySend`).
`outCh` is a bounded sequence. A `select` with two ready cases is a choice of
two actions. A step of a goroutine ends where another goroutine can see the
difference: pop, send, count, push and cancel are steps of their own. An
answer's elements are processed in any order (the order of the source is
arbitrary). `AvatarDownload`/`AvatarDone` stand for the file work, which
`Avatars` models.

What is left out: the parsing of pages, image contents, the second argument of
log lines, and *time*. One timing assumption remains: the monitor sleeps five
seconds before its first look, which in the model means that it waits for the
root section to be handed over (`Tick`). Its later looks come at any moment,
because the code does not relate the length of a tick to the length of a
request. The variable `hist` is history: no action reads it.

`Crawl` hides everything but which departments were answered and how often
each element was stored. `ImplementsCrawl` says that every behaviour of `Dump`
is one of `Crawl`, with `answered <- hist.answered` and `saved <- hist.rows`.

### FileStore

`file[f]` is what the disk holds line by line, the rows still in the
`bufio.Writer`, how the file ends, and the writer's sticky error. `Save` is
two steps, because the code gives the mutex up in between: `Look` scans the
file (not the buffer) and decides, `Write` appends. A row that does not fit
pushes out everything before it, and possibly its own beginning (`Emitted`).
Rows have no length: every one may or may not be the one that does not fit,
which covers all lengths up to the buffer's 4096 bytes; longer rows are
left out. `Crash` ends the process at any point; the fragment a
spill has left on disk then spoils the first row of the next run (`Line`).
`crashes` counts crashes and the calls of `Close` that report an error, which
cost as much.
A row is a key and a value; `CompareSotr` is equality of values.
Employees' dates are absent, as no code sets them, so that `sort.Slice` with a
function that is always true reverses the rows (insertion sort, up to 12
rows).

`OncePerRun = TRUE` is the environment of a dump, which saves no key twice in
a run (`ItemInOnePlace` of `Dump`); `FALSE` is a server.

### Server

`Server` EXTENDS `FileStore`: the storage's actions are what the handlers do,
and the server decides when they may happen. `stage` is where the main
goroutine is in `Main` and `start`; one action per statement that another
goroutine, a client or a signal can tell from the next:

| in the module | in the code |
|---|---|
| `Boot`, `CloseStore` | `NewPStor`, and the deferred `Close`, which `FatalIfErrorf` skips (`backend/main.go`) |
| `Listen`, `ListenFails` | `NewServer` and `go Serve`: from the open socket on calls arrive |
| `NotConfigured`, `Connect`, `ConnectFails` | the gateway's address, its connection to the own gRPC server |
| `ServeProxy`, `ProxyListens` | `go gw.Serve()` and the readiness flag, set before the gateway listens |
| `Notify`, `Signal` | a signal kills the process before `signal.Notify` and is waited for afterwards |
| `StopProxy`, `GracefulStop` | the deferred stops, in their order; an error of the start unwinds those that were registered |
| `Kill` | a signal that cannot be caught, or a panic of a handler |

`Accepting` admits new calls until `GracefulStop` begins. The code still serves
the calls its transport has received by then; each runs as one admitted just
before. `failing` says that `start` will return an error. An exit without `Close` is a
`Crash` of `FileStore`. `ImplementsFileStore` is `FileStore`'s own
specification: whatever the server does, the storage is used as that module
allows, in particular never closed under a `Save`.

### Employee, PgStore and Sync

`Employee` has the pure functions. A row has the columns `Diff` compares, the
list of phones and the list of mobiles; a mobile is the number its digits make,
and `Rendered` is `Mobile.String`, which makes 0 of a number with fewer than
five digits. `Diff` yields the changed fields with their old values,
`Upserted` is what `preparePhones` makes of a table with them, `View` is what
a reader gets, and `Undone` takes a change back: the reference against which
the history is checked. The database may answer in any order (`Readings`),
since the queries have no `ORDER BY`.

`PgStore` is the server's side. One handler per client runs without a lock:

| `call[c].at` | where the handler is (`internal/storage/pg/db.go`) |
|---|---|
| `save` | before the write to the map, `Save` |
| `load` | between `Add` and `Load` of the counter, `Flush` |
| `begin` | transaction open, `Depmap` not yet looked at, `prepareDepsResponse` |
| `deps` | departments collected, not yet upserted |
| `sotrs` | departments upserted and locked, `Sotrmap` not yet copied, `prepareSotrsResponse` |
| `read` | employees copied, their old rows not yet looked for, `BeforeSave` (`employee.go:45`) |
| `insert` | histories made, employees not yet upserted |
| `phones` | employees upserted and locked, the map about to be read again, `preparePhones` |
| `commit` | read again; deletes, inserts and commit to come |
| `reset` | transaction over, the counter not yet stored |

Only PostgreSQL orders the transactions, and only where they write the same
row: an upsert waits for who has locked one of its rows (`Holds`, `Common`,
`Wrote`). The conflict of departments is on `idr`, `parent` and `text`
(`db.go:27`), so a department that was renamed or moved is another row, and two
transactions that saw it before and after share no lock on it. If they share
none at all they overlap: one may commit while the other has copied the map,
or has looked for the old rows, which is done outside any lock and sees what is
committed. Two that do share several rows upsert them in the order of a map,
and the database ends one of them (`Deadlocked`).

Two handlers in one map are a data race: the write may be lost, or the Go
runtime ends the process (`Racing`, `Crash`). A transaction that fails, or
loses a database deadlock, is rolled back and reported to nobody (`Rollback`).
`Panic` is `Diff` on an employee without e-mail, and takes the server down.
`stamp` numbers the saved rows and is read by properties only.

`Sync` is the client's side: `insert` sends the rows of a file one by one,
logs the errors and ends with a `Flush`, whose error it logs too. `left` is
what it has not sent. `Refused` is the generated validator, of which one rule
decides here: an e-mail is empty or well formed. History variables, which no
action reads:

- `clean`: the command started `Undisturbed`, that is, with the counter at zero,
  nobody beside it and an e-mail in every row that `Diff` will compare, new, left
  in the map or in the database (`Comparable`); and it has met no fault since. A
  panic is no fault, and clears nothing;
- `late`: the employees in whom a transaction in progress was overtaken
  (`Overtaken`) by one with none of its departments, which committed a newer
  row of them, or any row after their old one had been looked for;
- `torn`, `uneven`: the employees last written, or ever written, by a
  transaction that was late in them, or that met their row saved again between
  its two looks at the map;
- `first`: the first committed view of an employee.

### Avatars

A file is an inode with cells, because two workers whose employees share an
avatar write into one temporary file: `os.Create` truncates what another handle
goes on writing, so that a file can have holes and cells of two versions.
`found` is the collection read at the start (`getFileCollection`): for an
avatar the file with the highest number, `.tmp` leftovers included, which `Walk`
meets in lexical order (`Endings`). `Ask` is the HEAD request and the
comparison of lengths; in `AskFails` the answer names no length or another one,
or there is none for an avatar without a file, and the avatar is downloaded
whether it has changed or not; `Get`/`Write`/`Downloaded` the download, `Rename` the
last step, each with its failures. `before` is the directory at the start of
the dump, `shared` the names two workers downloaded at once, `ok` that the dump
met no fault.

### Tunnel

`at[d]` is where the d-th call of the dialer is (`sshproxy.go:76-229`): probing
for a free port, port found, dialling, connected, and its two ends. `ssh[d]` is the process it started. `expired` and
`cancelled` are the two contexts: gRPC's of the attempt, and the dialer's own
of the process. External, modelled from how the code uses them: gRPC (one
attempt at a time, connect timeout, idle timeout, reconnection), the kernel
(kill on cancellation and with `Pdeathsig`), ssh (which binds the port late,
stays without the forward when the port is taken, or exits), and other
processes that take ports. At this commit no command sets the host of the ssh
proxy; the package is modelled as a library.

## 3. The runs

Every run that passes checks everything under *shows* on all reachable states
of its instance; a run that ends in a violation is evidence for a finding.

| run | instance | shows |
|---|---|---|
| `DumpFaults` | 1 worker, root with a department and an employee, employee below, every fault, 1 retry | types, `TaskInOnePlace`, `ItemInOnePlace`, `CountIsExact`, `RetryBudget`, `ClosedAfterWorkers`, `IdleMeansComplete`, refinement of `Crawl` |
| `DumpLimited` | 2 workers, limit 2, a fork into two chains | `OvershootBounded`, `CountIsExact` |
| `DumpLive` | 2 workers, a chain, failed and empty answers, fair, no deadline | the command ends; no queued department starves; `IdleMeansComplete` and the refinement with two workers |
| `FileDump` | dumps of two departments, crashes, disk errors, 6 saves, 4 runs | types, `CrashCost`, `NoDoubleDep` |
| `Server` | 2 callers, a department and an employee, two values, failed starts, signals, kills, 4 saves, 2 lives, fair | types (`ServerTypeOK`: stages and flags, files and calls), `NothingLost`, `CrashCost`, `ReadyMeansServing`, refinement of `FileStore`, `StopsOnSignal` |
| `Sync` | 2 clients, 3 commands, 3 dumps, every fault | types, `DepsExist`, `PhonesMatchColumns`, `HistoryReplays`, `CounterBounded`, `CleanSyncArrives`, `ApartMeansRenamed`, `NeverBack`, no deadlock |
| `Avatars` | 2 workers, 1 shared avatar, 2 versions, 3 dumps, every fault | `OldFilesStay`, `PublishedComplete`, `UpToDate` |
| `Tunnel` | 2 calls, 2 ports, every fault, fair | `NoOrphan`, `DialEnds`, `TunnelEnds`, `AbandonedEnds` |
| `DumpEarlyCancel` | 1 worker, no fault | *violated*: `CancelOnlyWhenIdle` |
| `DumpUndrained` | 1 worker, no fault | *violated*: `SentItemsSaved` |
| `DumpPanic` | 1 worker, no fault | *violated*: `NoPanic` |
| `FileNewest` | dumps of two employees, no fault | *violated*: `LastSavedIsLast` |

Several properties hold with a condition, which is part of what they say:

- `NeverBack` leaves out the commit of a transaction that is `late` in the
  employee; `ApartMeansRenamed` says when there can be one: of two transactions
  with no department row in common, one has another row of every department of
  the other. Departments that keep parent and text never let it happen.
- `PhonesMatchColumns` leaves out employees that are `torn`: `preparePhones`
  reads the map again (`db.go:341`), and a row saved in between gives its
  phones to the columns of the older one, until the next transaction; and an
  overtaken transaction does not see the phones it would have to delete. It also
  leaves out mobiles of fewer than five digits, which are rendered as 0
  (`employee.go:234`) and therefore never deleted.
- `HistoryReplays` leaves out `uneven` employees, for the same reasons: the
  phones of the newer row are never the old value of any entry, and an
  overtaken transaction makes its entry against a row that is no longer there.
- `CleanSyncArrives` is about a command that starts `Undisturbed` and meets no
  crash, rollback, deadline, unreadable file or other command. Anything less is
  no promise of the code: after an odd number of flushes the next command's data
  are cut in two (`sync.go:131`, `db.go:201`), and an employee without e-mail
  who is known already makes `Diff` panic (`employee.go:90`), also for a command
  that runs alone. Since a panic does not clear `clean`, the property shows that
  a missing e-mail is the *only* thing that can fail such a command. Of the rows
  with one key it speaks of the last of the file, for employees the last that the
  validator lets pass (`LastDeps`, `LastSotrs`): the maps keep no other.
- `PublishedComplete` and `UpToDate` leave out files that two workers
  downloaded at once, and `UpToDate` directories with leftovers: a `.tmp` file
  is taken for the newest version (`start.go`, `getFileCollection`).
- `TunnelEnds` and `AbandonedEnds` hold as *leads to*: between the failure
  and the kill, the process is there.

### Bounds, and why they are enough

- *Trees.* The pipeline treats every department alike and never compares two
  of them, so what matters is depth (a pushed department is popped and
  requested), width (two departments in one queue, two answers at a time) and
  an answer with both kinds of elements. The trees of `MCDump` have each.
- *Workers* 1 or 2: two are enough for every pair of goroutines to race.
- *`TryLimit`* 0 or 1 for 3 in the code: the budget that is used up at once,
  and one where a retry is given and then the last one refused. *`OutCap`* 1 for 1000: full and empty both occur.
- *`MaxSaves`, `MaxRuns`*: six saves over four runs let a fragment be left,
  spoil a row, and be followed by two further runs. Runs over bounded storages,
  dumps, tunnels do not check deadlock, because these bounds end the model
  where the program goes on; a storage that was closed also stays closed. In
  `Server` four saves over two lives let a row be acknowledged on either side
  of a stop, and two callers be in the storage when the stop begins.
- *`MaxSyncs`* 3 with two clients: two commands that overlap, and one before
  or after them, which finds what they left: the counter at one, rows in the
  maps, a renamed department, a changed mobile, a refused row. They suffice for
  a transaction to be overtaken and to put an older row back: without its
  condition `NeverBack` is violated. The clients differ in nothing but
  their names, so `Interchangeable` is sound. `Sync` checks deadlock; `AllDone`
  marks the one state that is meant to stop. It is the largest run, with 4.1
  million distinct states; `Avatars` has 3.2 million, `Server` 470 thousand.
- *Avatars*: three dumps are one to leave something behind, one to take it for
  a version, and one to trip over the result. Two versions of different length
  and two cells make truncation, holes and mixtures visible. The eight `Inodes`
  suffice: in no reachable state of the run are all of them in use.
- *`Calls`* 2 in `Tunnel`: a process may be killed while the next attempt is
  on the same port; with two ports, two taken ports leave none free.

### Fairness

`FairSpec` gives every goroutine weak fairness as a whole: the Go scheduler is
fair, HTTP requests end by their own timeout and retries, `Save` returns. No
action is fair on its own: a `select` with two ready cases may choose the same
one for ever. Nothing makes the deadline come, so `Finishes` does not rest on
the timeout but on the monitor.

`ServerFairSpec` gives weak fairness to the main goroutine once it stops
(`StopProxy`, `GracefulStop`, `CloseStore`) and to the append of every handler,
which holds a mutex nobody keeps and writes to a disk that answers.
`StopsOnSignal` needs no more: new calls are refused from `GracefulStop` on.
Nothing makes a signal come or a start succeed.

`Tunnel`'s `FairSpec`: the goroutines of the dialer run, the kernel kills a
process whose context is done, gRPC's connect timeout passes, and the idle
timeout of a connection passes that was abandoned, because its owner has thrown
it away and nobody can call on it. ssh owes nothing: it may log in for ever.

### Findings

1. `DumpEarlyCancel`: the monitor sees only the queues. A scan that falls into
   a request, a hand-over or a backoff cancels a dump that is still working
   (`start.go:99`), and whole subtrees are missing without an error.
   `IdleMeansComplete` shows what it would have to look at.
2. `DumpUndrained`: the main context is cancelled before the item channel is
   closed (`start.go:118`), and the consumer may leave with items in it.
3. `DumpPanic`: dispatchers and backoff goroutines live on after the channels
   they send on were closed (`worker.go:302`).
4. `FileNewest`: the row taken for the newest is the oldest (`file.go:158`).

Seen while modelling and visible in the modules, without a run of their own:
when the avatar directory cannot be read the item channel is never closed and
the command waits for its timeout (`start.go:37`); the search for double
departments does not see the buffer (`file.go:108`), so a server may store one
twice, while a dump does not (`NoDoubleDep`); an error page stays under the
avatar's temporary name (`worker.go:507`); a connection whose health check
failed is never closed (`client.go:83`), which only its idle timeout repairs;
a second sync of an employee without e-mail ends the server (`employee.go:90`);
and two sync commands with a renamed department between them do not wait for
each other, so that an older row may be put back, a history entry lost and a
phone kept for ever (`db.go:259-318`, `late` in `Sync`).

Not a finding, because no text of the repository promises otherwise: the limit
is tested per task and with `>`, so a dump stores more than `Limit` elements.
`OvershootBounded` says how many more: `DumpLimited` has two workers pass the
test together. `CrashCost` says in the same way what a crash can cost.

## 4. The proofs

`DumpProofs` holds, for every tree, number of workers, limit and set of faults:

- `TypeCorrect`: `Spec => []TypeOK`. `TypeOK` is inductive as it stands
  because it says more than types: department queues and their dispatchers
  hold departments only (else a received task would not be one), and a
  worker in `fetch` has retries left (else the resubmitted task would count
  beyond its range). One lemma per action or group of actions of a goroutine.
- `WorkersLeaveBeforeClose`: `Spec => []ClosedAfterWorkers`. Once the starter
  has gone past `eg.Wait()` no worker comes back, since `Receive` needs one in
  its select. `QuietKeepsClosed` covers the steps that leave workers and
  starter alone; only `WaitReturns` has to establish anything.

`PlaceProofs` proves `TasksStayInOnePlace`: `Spec => []TaskInOnePlace`.
Departments are tokens, and every place one can be in (an unread answer, a
queue, a dispatcher's hand, a worker's hand, the starter, a backoff, or one of
the ends: answered, dropped, lost) is a holder. `Placed` says that no token
has two holders and that together they hold exactly the root and what the used
answers have listed. Three lemmas about `Placed` carry the proof: nothing
moves (`Unmoved`), one token moves (`Moved`), new ones arrive (`Grown`).
Every action is one of the three. Two strengthenings make it inductive: the
types, and `NoRest`, which says that a worker that waits or requests has no
unread elements (else the next answer would overwrite them). `Grown` is
where the tree matters: the children of an answer (`FetchChildren`) are new
because a node has one parent and a department is answered once
(`NewChildren`); were the same section listed by two others, it would be
visited twice, since the code keeps no set of visited departments.

The module also proves `RetriesWithinBudget`: `Spec => []RetryBudget`. The
strengthening `RetriesExact` relates what a task says to what happened:
nobody has asked for a department that is still `Fresh` (unread, queued,
popped, with the starter, or not yet listed), and the number a task
carries, in a worker's hand or in a backoff, is the number of requests made for
its department. A request is made for a department in a worker's hand, and
because that is its one place it is not fresh and no retry of it is waiting
(`FetchRetries`).

`ItemProofs` holds

- `ItemsStayInOnePlace`: `Spec => []ItemInOnePlace`, the same argument for the
  elements of an answer: unread, in a worker's hand, in the item channel,
  saved, or lost. It needs `TaskInOnePlace`, for the same reason at
  `FetchChildren`.
- `DumpImplementsCrawl`: `Spec => ImplementsCrawl`. `FetchChildren` maps to
  `Answer`, which has to find the department listed and unanswered:
  `TaskInOnePlace` says so of the one in a worker's hand. `Save` maps to
  `Crawl`'s `Save`, which has to find the element listed and not yet stored:
  `ItemInOnePlace` says so of the one in the channel. Everything else is a
  stutter.
- `IdleIsComplete`: `Spec => []IdleMeansComplete`. With empty queues and idle
  goroutines every holder but the ends is empty (`IdleTasks`, `IdleItems`), so
  the ends hold what was listed. The one holder that `Idle` does not mention
  is the starter, who hands over the root or leaves: `WorkersGone` of
  `DumpProofs` says that he leaves without doing so only when no worker is
  there any more.
- `CountStaysExact`: `Spec => []CountIsExact`, over the cardinalities of finite
  sets: a worker that takes an element from its answer moves it from
  `Unreached` to `Preparing`, one that has counted it removes it from there,
  and `FetchChildren` adds an answer that nothing has listed before.
- `OvershootStaysBounded`: `Spec => []OvershootBounded`. The bound is on what
  was *listed*, `RoomForAnswers`: a worker passes the test of the limit before
  it asks, so each one that is asking (`Fetching`) may add one more answer; and
  a worker may only pass while `count`, that is, what is listed without what the
  others have not counted yet, is not above the limit.

`FileStoreProofs` is about any callers, keys, values, faults and bounds:

- `StorageTyped`: `Spec => []TypeOK`;
- `AcknowledgedRowsStay`: `Spec => []NothingLost`;
- `CrashesArePaid`: `Spec => []CrashCost`;
- `DepartmentsAreKeptOnce`: `OncePerRun => (Spec => []NoDoubleDep)`.

The first two follow from `StoreInv`. `NothingLost` alone is not inductive: a fragment of
a dead process would turn a pending row into a spoilt line, so `StoreInv` adds
that no file has one while `crashes = 0`, and, so that a clean `Close` leaves
none, that a fragment of the writer's own always has its row pending or its
writer failed (`Owned`). The arithmetic of the buffer is in lemmas about
sequences (`Halves`, `MoveFront`, `AppendEnd`, `FrontOfRest`), and one lemma
per operator of the writer (`EmittedKeeps`, `WithKeeps`, `AcceptedKeeps`,
`RejectedKeeps`, `FlushedKeeps`) says that lines and pending rows together
(`Whole`) stay what they were, or grow by the row.

`CrashCost` needs `CostInv`, which counts the fragment of a dead process as the
spoilt line it will become (`Costs`); how lines, pending rows and fragments
change in one step of the writer is said once for every operator (`Blotted`).
`NoDoubleDep` needs `DepInv`, which speaks of lines *and* buffer, as the scan of
the code does not: whoever is between scan and append has a department that is
in neither, no two of them have the same, and every pending row is of this
run.

`ServerProofs` has the invariant `LifeInv`, which says at each stage what the
gateway, the flag and the storage are:

- `ReadyWhileServing`: `ServerSpec => []ReadyMeansServing`;
- `ServerUsesFileStore`: `ServerSpec => ImplementsFileStore`. The step that
  matters is `CloseStore`, which must find no `Save` in progress:
  `GracefulStop` has waited for the handlers, and none starts after it;
- `ServerLosesNothing`: `ServerSpec => []NothingLost`, and
  `ServerCrashesArePaid`: `ServerSpec => []CrashCost`, from the theorems about
  `FileStore` by the refinement, with no further induction;
- `ServerTyped`: `ServerSpec => []ServerTypeOK`: the types of stage and flags
  (`LifeTypeOK`) are part of `LifeInv`, those of files and calls are
  `StorageTyped` of `FileStore`, carried over by the refinement.

`TunnelProofs` proves `TunnelTyped`: `Spec => []TypeOK`, and
`ProcessesHaveOwners`: `Spec => []NoOrphan`. The
strengthening is that a call that has not started ssh has none, and that
whatever ends a call after its start cancels the context of the process: the
failure paths, `Close`, and gRPC's hanging up.

`SyncProofs` is about any clients, dumps and faults, with the server dying and
coming back between any two steps. `SyncInv` gives

- `EmployeesHaveDepartments`: `Spec => []DepsExist`. A row is upserted
  only if its department is among those the transaction has collected
  (`Upsertable`), and both are committed together;
- `RowsNeverGoBack`: `Spec => NeverBack`. Nothing in the server orders two
  transactions; the locks of the rows they share do (`HoldersApart`,
  `WritersApart`). A transaction reads the map after it has its departments, the
  map only gets younger rows (`MapOK`), and so the database holds no younger row
  of an employee than the transaction does, unless it is late in him
  (`CallOK`): a commit keeps this for a transaction that shares a department with
  it, because that one cannot have copied the map yet, and for any other by
  what `late` records (`CommitBeside`, `CommitStep`);

and `CounterInv` gives

- `CounterFollowsCalls`: `Spec => []CounterBounded`, with the calls of `Flush` in
  progress as a finite set (`Flushing`): a call that adds joins it, and whoever
  leaves it has seen the counter below two or has just reset it.

On top of `SyncInv`, four further invariants, each inductive with those before
it:

- `RowsInv`: what the maps and the handlers hold comes from the files of the
  dumps, a client has left the end of a file (`Suffix`), and the history that
  a transaction has made is the `Diff` against what the database *still* holds
  (`DiffOK`), but for employees in whom it is late: whoever commits another
  row in between has none of its departments, or would have had to wait. It gives `SyncTyped`: `Spec => []TypeOK`.
- `EntriesInv`: every employee who is not `torn` matches one row of the files
  in columns and phones (`Matches`), and one who is not `uneven` is led back by
  his history to what was first committed (`Leads`). It gives
  `PhonesFollowColumns`: `Spec => []PhonesMatchColumns`, and
  `HistoryIsComplete`: `Spec => []HistoryReplays`. What carries the proof are
  two facts about `Employee`: what `preparePhones` leaves of a table is what
  the row says (`PhonesReplaced`, `MobilesReplaced`), and `Undone` takes a
  `Diff` back in whatever order the lists were read (`UndoneForm`). `Leads`
  says of a history that a chain of views exists; that the recursive definition
  in `HistoryReplays` computes that chain is `ReplayedForm`.
- `CleanInv`: how far a command is that started undisturbed and has met no
  fault (`CleanFor`): nobody is beside it, it is `Halfway` through departments with the counter at zero or
  through employees with the counter at one, or its transaction runs
  (`Finishing`), and the maps hold the last row of every key among those sent
  (`DepsIn`, `SotrsIn`). Its rows stay `Comparable` with the database to the
  end (`ComparableStays`, `ComparableSaved`), so that its transaction cannot
  panic (`CleanNoPanic`). It gives `CleanSyncsArrive`:
  `Spec => []CleanSyncArrives`.
- `KeysInv`: within one life of the server the departments in the map only grow
  in number, so of two transactions one has collected the keys of the other
  (`KeysNested`). It gives `OnlyRenamedPass`: `Spec => []ApartMeansRenamed`, and,
  with `RowsNeverGoBack`, `UnrenamedRowsNeverGoBack`: where no two dumps have
  different rows of one department (`NoneRenamed`), nobody is ever late
  (`NoneLate`), and no row goes back at all.

`AvatarsProofs` is about any workers, avatars, versions and faults. `FilesInv`
gives

- `FilesTyped`: `Spec => []TypeOK`;
- `DumpsTouchNoOldFile`: `Spec => []OldFilesStay`. The number of a target is
  above those of all files its avatar had at the start (`Collected`,
  `TargetForm`), and an open file is nobody's but of those who download to
  the same name (`Handles`);
- `PublishedIsComplete`: `Spec => []PublishedComplete`. Who downloads a name
  alone finds under its temporary name what he wrote himself (`Lonely`);

and `ArriveInv`, on top of it,

- `AvatarsAreUpToDate`: `Spec => []UpToDate`. In a dump without a fault every
  avatar waits, is being downloaded, is unchanged or is there (`Handled`), a
  lonely download has the version of the source (`Fetched`), and the directory
  has nothing else that is new (`Expected`).

Assumptions, which the runs evaluate: `TreeAssumption` (a finite tree with a
root that is nobody's child and no node with two parents), `DumpAssumption` (at
least one worker), `FileStoreAssumption` (which includes that a spoilt line is
no row), `ServerAssumption`, `TunnelAssumption`, `AvatarsAssumption` (versions
have a length that is not zero, files are numbered), `PgStoreAssumption`
(finitely many clients) and `SyncAssumption` (the rows of the files have their
fields).

So every safety property of the runs that pass, and both refinements, are
theorems. Only model-checked are the liveness properties `Finishes`,
`NoTaskStarves`, `StopsOnSignal`, `DialEnds`, `TunnelEnds` and `AbandonedEnds`,
which rest on fairness and so on ENABLED, out of the prover's reach. The
properties that are violated have counterexamples and no theorem.

## 5. Not modelled

- *Page parsers* (`internal/utils/pars_html.go`): strings and regular
  expressions. In `Dump` an element is parsed or is not.
- *HTTP client*: a third-party client; its retries are inside one request.
- *Data models, configuration, command lines*: declarations.
- *Service libraries* (logging, metrics, traces, TLS, CORS, the redis client,
  which nothing uses): wiring that decides nothing about the data.
- *Generated API*, apart from the validation of an employee: messages, stubs
  and REST handlers. A call is a step that arrives or does not.
- *Read queries* of the storages change nothing. Their results appear where a
  property needs them: `Found`, `DepsBy`, `ByMobile`. A lookup by mobile in the
  file storage panics on an employee without one (`file.go:417`).

## 6. Plan

What is left, in this order:

1. The steps that the liveness arguments are made of, as far as they are safety:
   that a stop of the server only goes forward, that an ended dial stays ended.
2. Shorter proofs: the chain of views of `HistoryReplays` and the counting of
   `CrashCost` share lemmas about sequences that could be stated once.
3. The sync command against the file storage: `Server` with `Sync`'s clients
   instead of arbitrary callers.
