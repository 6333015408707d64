------------------------------ MODULE Avatars ------------------------------
(***************************************************************************)
(* The avatar files of a dump: the collection of what is in the directory, *)
(* read once when the dump starts (internal/dump/start.go,                 *)
(* getFileCollection), and the downloads by GetAvatar of several workers   *)
(* (internal/worker/worker.go) to a name with ".tmp", renamed at the end.  *)
(*                                                                         *)
(* Two employees may have the same avatar, so that two workers download    *)
(* the same file: both open the same temporary name, and who opens an      *)
(* existing file truncates it while the other one goes on writing.  Files  *)
(* are therefore inodes, which names and open handles refer to.            *)
(***************************************************************************)
EXTENDS Naturals, Sequences, SequencesExt

CONSTANTS
    Workers,
    Keys,           \* avatars: base names up to the first dot
    Versions,       \* what the source may serve under a key
    Size,           \* Size[v]: length of a version
    TasksPerRun,    \* TasksPerRun[k]: employees with avatar k
    Faults,         \* see FaultNames
    Inodes,         \* bound: files that have a name or are open, at once
    MaxRuns         \* bound: dumps in a behaviour

\* "crash": the process dies at any point, or the dump is cancelled between
\* two tasks; "head": a HEAD request has no answer; "refused": a GET has no
\* answer; "status": it answers 400 or above; "broken": it breaks off;
\* "change": the source gets another version.
FaultNames == {"crash", "head", "refused", "status", "broken", "change"}

ASSUME AvatarsAssumption ==
    /\ Faults \subseteq FaultNames
    /\ Size \in [Versions -> Nat \ {0}]
    /\ TasksPerRun \in [Keys -> Nat]
    /\ Inodes \subseteq Nat \ {0}
    /\ MaxRuns \in Nat

\* What follows the first dot of a name, in the order in which Walk meets names
\* with the same number.  A new name takes the last extension of the newest
\* file, which is ".tmp" when that is a leftover.
Endings == <<"jpg", "jpg.tmp", "tmp", "tmp.tmp">>
Rank(suffix) == CHOOSE i \in 1..4 : Endings[i] = suffix
Ext(suffix) == IF suffix = "jpg" THEN "jpg" ELSE "tmp"
Names == [key : Keys, num : 1..(MaxRuns + 1), suffix : ToSet(Endings)]
TempNone(name) == name      \* Mutant: downloaded under the final name.
Temp(name) == [name EXCEPT !.suffix = IF @ = "jpg" THEN "jpg.tmp" ELSE "tmp.tmp"]
Published(name) == name.suffix = "jpg"

VARIABLES
    source,     \* source[k]: the version served now
    dir,        \* the directory: names to inodes
    data,       \* data[i]: cells of a version, of an error page, or holes
    running,    \* a dump is running
    runs,       \* dumps started
    found,      \* fileCollection: for some keys the newest name and its size
    todo,       \* todo[k]: tasks not yet taken
    worker      \* worker[w], see Resting

\* before: the directory when the dump started; shared: names that two workers
\* downloaded at once; ok: no fault in this dump, for what UpToDate says.
VARIABLES before, shared, ok

vars == <<source, dir, data, running, runs, found, todo, worker, before, shared, ok>>

NoName == [key |-> "none", num |-> 0, suffix |-> "none"]
Resting == [at |-> "idle", name |-> NoName, inode |-> 0, ver |-> "none", pos |-> 0]

Init ==
    /\ source \in [Keys -> Versions]
    /\ dir = <<>>
    /\ data = [i \in Inodes |-> <<>>]
    /\ running = FALSE
    /\ runs = 0
    /\ found = <<>>
    /\ todo = [k \in Keys |-> 0]
    /\ worker = [w \in Workers |-> Resting]
    /\ before = <<>> /\ shared = {} /\ ok = TRUE

-----------------------------------------------------------------------------
(* The directory. *)

Content(name) == data[dir[name]]
Without(name) == [n \in DOMAIN dir \ {name} |-> dir[n]]
InUse(i) == (\E n \in DOMAIN dir : dir[n] = i) \/ \E w \in Workers : worker[w].inode = i

\* An inode nobody refers to keeps nothing.
Clean(d, ws, content) ==
    [i \in Inodes |-> IF (\E n \in DOMAIN d : d[n] = i) \/ \E w \in Workers : ws[w].inode = i
                      THEN content[i] ELSE <<>>]

NamesOf(k) == {n \in DOMAIN dir : n.key = k}

\* Mutant: the last name Walk meets, not the one with the highest number.
NewestLast(k) ==
    CHOOSE n \in NamesOf(k) : \A m \in NamesOf(k) :
        m.num > n.num \/ (m.num = n.num /\ Rank(m.suffix) <= Rank(n.suffix))

\* The highest number; among equals the name that Walk meets first.
Newest(k) ==
    CHOOSE n \in NamesOf(k) : \A m \in NamesOf(k) :
        m.num < n.num \/ (m.num = n.num /\ Rank(m.suffix) >= Rank(n.suffix))

-----------------------------------------------------------------------------
(* A dump. *)

StartRun ==
    /\ ~running /\ runs < MaxRuns
    /\ running' = TRUE
    /\ runs' = runs + 1
    /\ found' = [k \in {n.key : n \in DOMAIN dir} |->
                    [name |-> Newest(k), size |-> Len(Content(Newest(k)))]]
    /\ todo' = TasksPerRun
    /\ before' = [n \in DOMAIN dir |-> Content(n)]
    /\ ok' = TRUE
    /\ UNCHANGED <<source, dir, data, worker, shared>>

Stops ==
    /\ running' = FALSE
    /\ todo' = [k \in Keys |-> 0]
    /\ found' = <<>>
    /\ worker' = [w \in Workers |-> Resting]
    /\ data' = Clean(dir, worker', data)
    /\ UNCHANGED <<source, dir, runs, before, shared>>

EndRun ==
    /\ running /\ \A w \in Workers : worker[w].at = "idle"
    /\ \A k \in Keys : todo[k] = 0
    /\ Stops /\ UNCHANGED ok

\* The process dies, or the context is cancelled.
Crash == "crash" \in Faults /\ running /\ Stops /\ ok' = FALSE

Change(k) ==
    /\ "change" \in Faults
    /\ \E v \in Versions \ {source[k]} : source' = [source EXCEPT ![k] = v]
    /\ ok' = FALSE
    /\ UNCHANGED <<dir, data, running, runs, found, todo, worker, before, shared>>

-----------------------------------------------------------------------------
(* GetAvatar. *)

Goes(w, next) == worker' = [worker EXCEPT ![w] = next]

\* A new version of a known avatar gets the next number.
Target(k) ==
    IF k \in DOMAIN found
    THEN [found[k].name EXCEPT !.num = @ + 1, !.suffix = Ext(@)]
    ELSE [key |-> k, num |-> 1, suffix |-> "jpg"]

Take(w, k) ==
    /\ running /\ worker[w].at = "idle" /\ todo[k] > 0
    /\ todo' = [todo EXCEPT ![k] = @ - 1]

\* Mutant: a known avatar is taken for unchanged.
UnchangedAlways(k) == k \in DOMAIN found

\* The length the HEAD request reports is that of the newest file.
Unchanged(k) == k \in DOMAIN found /\ found[k].size = Size[source[k]]

Ask(w, k) ==
    /\ Take(w, k)
    /\ IF Unchanged(k) THEN UNCHANGED worker
       ELSE Goes(w, [Resting EXCEPT !.at = "get", !.name = Target(k)])
    /\ UNCHANGED <<source, dir, data, running, runs, found, before, shared, ok>>

\* No answer for an avatar that has no file, or an answer of unknown or another
\* length: it is downloaded, for the second time if nothing has changed.
AskFails(w, k) ==
    /\ "head" \in Faults
    /\ Take(w, k)
    /\ Goes(w, [Resting EXCEPT !.at = "get", !.name = Target(k)])
    /\ UNCHANGED <<source, dir, data, running, runs, found, before, shared, ok>>

\* The length of the missing answer is read.
AskPanics(w, k) ==
    /\ "head" \in Faults
    /\ running /\ worker[w].at = "idle" /\ todo[k] > 0 /\ k \in DOMAIN found
    /\ Stops /\ ok' = FALSE

\* The output file is created, or truncated: os.Create on the temporary name.
Opened(w) ==
    LET temp == Temp(worker[w].name) IN
    IF temp \in DOMAIN dir THEN dir[temp] ELSE CHOOSE i \in Inodes : ~InUse(i)

Create(w) ==
    /\ Temp(worker[w].name) \in DOMAIN dir \/ \E i \in Inodes : ~InUse(i)
    /\ dir' = [n \in DOMAIN dir \cup {Temp(worker[w].name)} |->
                   IF n = Temp(worker[w].name) THEN Opened(w) ELSE dir[n]]

Meets(w) == \E v \in Workers \ {w} : worker[v].name = worker[w].name

Share(w) ==
    /\ shared' = IF Meets(w) THEN shared \cup {worker[w].name} ELSE shared

Get(w) ==
    /\ worker[w].at = "get"
    /\ Create(w)
    /\ data' = [data EXCEPT ![Opened(w)] = <<>>]
    /\ Goes(w, [worker[w] EXCEPT !.at = "write", !.inode = Opened(w),
                                 !.ver = source[worker[w].name.key]])
    /\ Share(w)
    /\ UNCHANGED <<source, running, runs, found, todo, before, ok>>

\* An error page is written like any body, and stays under the temporary name.
GetStatus(w) ==
    /\ "status" \in Faults /\ worker[w].at = "get"
    /\ Create(w)
    /\ Goes(w, Resting)
    /\ data' = Clean(dir', worker', [data EXCEPT ![Opened(w)] = <<"error">>])
    /\ Share(w)
    /\ ok' = FALSE
    /\ UNCHANGED <<source, running, runs, found, todo, before>>

\* Cells that a writer has skipped after a truncation are holes.
Write(w) ==
    LET i == worker[w].inode p == worker[w].pos + 1 IN
    /\ worker[w].at = "write" /\ worker[w].pos < Size[worker[w].ver]
    /\ data' = [data EXCEPT ![i] = [c \in DOMAIN @ \cup 1..p |->
                    IF c = p THEN worker[w].ver ELSE IF c \in DOMAIN @ THEN @[c] ELSE "hole"]]
    /\ Goes(w, [worker[w] EXCEPT !.pos = p])
    /\ UNCHANGED <<source, dir, running, runs, found, todo, before, shared, ok>>

\* The file is closed with the end of the body.
Downloaded(w) ==
    /\ worker[w].at = "write" /\ worker[w].pos = Size[worker[w].ver]
    /\ Goes(w, [worker[w] EXCEPT !.at = "rename", !.inode = 0])
    /\ data' = Clean(dir, worker', data)
    /\ UNCHANGED <<source, dir, running, runs, found, todo, before, shared, ok>>

\* The GET has no answer, or its body breaks off.  What is there under the
\* temporary name is removed; after a broken body the status still says
\* success, and the rename is tried all the same.
GetFails(w) ==
    /\ \/ "refused" \in Faults /\ worker[w].at = "get" /\ Goes(w, Resting)
       \/ /\ "broken" \in Faults /\ worker[w].at = "write"
          /\ worker[w].pos < Size[worker[w].ver]
          /\ Goes(w, [worker[w] EXCEPT !.at = "rename", !.inode = 0])
    /\ dir' = Without(Temp(worker[w].name))
    /\ data' = Clean(dir', worker', data)
    /\ Share(w)
    /\ ok' = FALSE
    /\ UNCHANGED <<source, running, runs, found, todo, before>>

\* Mutant: a link, the temporary name stays.
RenamedLink(name, temp) ==
    [n \in DOMAIN dir \cup {name} |-> IF n = name THEN dir[temp] ELSE dir[n]]

Renamed(name, temp) ==
    [n \in (DOMAIN dir \cup {name}) \ {temp} |->
         IF n = name THEN dir[temp] ELSE dir[n]]

\* An error is only logged: nothing has that temporary name any more.
Rename(w) ==
    LET name == worker[w].name temp == Temp(worker[w].name) IN
    /\ worker[w].at = "rename"
    /\ dir' = IF temp \in DOMAIN dir THEN Renamed(name, temp) ELSE dir
    /\ Goes(w, Resting)
    /\ data' = Clean(dir', worker', data)
    /\ UNCHANGED <<source, running, runs, found, todo, before, shared, ok>>

GetAvatar(w) ==
    \/ \E k \in Keys : Ask(w, k) \/ AskFails(w, k) \/ AskPanics(w, k)
    \/ Get(w) \/ GetStatus(w) \/ Write(w) \/ Downloaded(w) \/ GetFails(w) \/ Rename(w)

Next ==
    \/ StartRun \/ EndRun \/ Crash
    \/ \E k \in Keys : Change(k)
    \/ \E w \in Workers : GetAvatar(w)

Spec == Init /\ [][Next]_vars

-----------------------------------------------------------------------------
(* Properties. *)

\* Types; no two names for one file; an open handle is on a file in progress.
TypeOK ==
    /\ DOMAIN dir \subseteq Names
    /\ \A m, n \in DOMAIN dir : dir[m] = dir[n] => m = n
    /\ \A n \in DOMAIN dir : data[dir[n]] \in Seq(Versions \cup {"error", "hole"})
    /\ \A w \in Workers : worker[w].at \in {"idle", "get", "write", "rename"}
                          /\ (worker[w].at = "write" <=> worker[w].inode # 0)

\* A dump leaves every file it found as it was, the leftovers of earlier dumps
\* included, whatever it downloads, fails at or dies of.
OldFilesStay ==
    \A n \in DOMAIN before : n \in DOMAIN dir /\ Content(n) = before[n]

\* A file without ".tmp" is one version, whole, after any failures and crashes;
\* unless two workers downloaded that file at once.
PublishedComplete ==
    \A n \in DOMAIN dir : Published(n) /\ n \notin shared =>
        \E v \in Versions : Content(n) = [i \in 1..Size[v] |-> v]

\* After a dump without a fault every avatar of an employee is there in the
\* length the source has now, if no dump before it left a temporary file.
UpToDate ==
    ~running /\ runs > 0 /\ ok =>
        \A k \in Keys :
            /\ TasksPerRun[k] > 0
            /\ \A n \in NamesOf(k) : Published(n) /\ n \notin shared
            => NamesOf(k) # {} /\ Len(Content(Newest(k))) = Size[source[k]]
=============================================================================
