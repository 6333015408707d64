----------------------------- MODULE FileStore -----------------------------
(***************************************************************************)
(* The file storage (internal/storage/file/file.go): one file of JSON      *)
(* lines for departments and one for employees, each opened with O_APPEND  *)
(* and written through a bufio.Writer.  A Save first scans the file for    *)
(* rows with the same key, decides, and then appends; the scan and the     *)
(* append each hold the mutex, the decision in between does not.           *)
(*                                                                         *)
(* The scan reads the file, not the writer's buffer.  A row leaves the     *)
(* buffer when a later one does not fit: whole, or with its beginning on   *)
(* disk and its end still buffered.  If the process ends then, the file    *)
(* ends in a fragment, and the next run appends to that fragment.          *)
(***************************************************************************)
EXTENDS Naturals, Sequences, FiniteSets, SequencesExt

CONSTANTS
    Clients,        \* concurrent callers: one in kbcli, gRPC handlers in kbsrv
    Keys,           \* Keys[f]: idr of departments, tabnum of employees
    Values,         \* the rest of a row, as far as it is compared
    OncePerRun,     \* TRUE: a dump, which saves no key twice between open and
                    \* close (Dump!ItemInOnePlace); FALSE: a server
    Faults,         \* subset of {"crash", "disk"}
    MaxSaves,       \* bound: calls of Save in a behaviour
    MaxRuns         \* bound: openings of the storage

Files == {"dep", "sotr"}

Row(f) == [key : Keys[f], val : Values]
Rows == Row("dep") \cup Row("sotr")
Items == UNION {[file : {f}, row : Row(f)] : f \in Files}

\* A line that does not unmarshal: scans log it and go on.
Torn == [key |-> "torn", val |-> "torn"]

ASSUME FileStoreAssumption ==
    /\ Clients # {}
    /\ DOMAIN Keys = Files
    /\ Torn \notin Rows
    /\ OncePerRun \in BOOLEAN
    /\ Faults \subseteq {"crash", "disk"}
    /\ MaxSaves \in Nat /\ MaxRuns \in Nat

VARIABLES
    file,       \* file[f], see Fresh
    up,         \* the storage is open
    pc,         \* pc[c]: "idle", or "write" between decision and append
    item        \* item[c]: what c is about to append

\* History and bounds.
VARIABLES
    log,        \* log[f]: the rows whose append was acknowledged
    lost,       \* lost[f]: how many of them were in the buffer at a crash
    crashes,    \* crashes, and calls of Close that reported an error
    saves, runs,
    offered,    \* keys saved since the storage was opened
    last        \* last[f][k]: value of the last successful Save of k

store == <<file, up, pc, item>>
history == <<log, lost, crashes, saves, runs, offered, last>>
vars == <<store, history>>

\* lines: what the file holds line by line; pend: rows not wholly in the file;
\* frag: how the file ends, "none" with a newline, "own" with the beginning of
\* the first pending row, "dead" with what a former process left; failed: the
\* writer's error, which sticks.
Fresh == [lines |-> <<>>, pend |-> <<>>, frag |-> "none", failed |-> FALSE]

Unsaved == [key |-> "none", val |-> "none"]

Init ==
    /\ file = [f \in Files |-> Fresh]
    /\ up = TRUE
    /\ pc = [c \in Clients |-> "idle"]
    /\ item = [c \in Clients |-> Unsaved]
    /\ log = [f \in Files |-> <<>>]
    /\ lost = [f \in Files |-> 0]
    /\ crashes = 0 /\ saves = 0 /\ runs = 1 /\ offered = {}
    /\ last = [f \in Files |-> [k \in Keys[f] |-> "none"]]

-----------------------------------------------------------------------------
(* The writer. *)

\* Mutant: the fragment spoils every line that follows.
LineSpoilsAll(s, i) == IF s.frag = "dead" THEN Torn ELSE s.pend[i]

\* What the i-th pending row becomes in the file.
Line(s, i) == IF i = 1 /\ s.frag = "dead" THEN Torn ELSE s.pend[i]

\* The first n pending rows reach the file, and with part also the beginning
\* of the one after them.
Emitted(s, n, part) ==
    [lines |-> s.lines \o [i \in 1..n |-> Line(s, i)],
     pend |-> SubSeq(s.pend, n + 1, Len(s.pend)),
     frag |-> IF n = 0 /\ (s.frag = "dead" \/ ~part) THEN s.frag
              ELSE IF part THEN "own" ELSE "none",
     failed |-> s.failed]

With(s, row) == [s EXCEPT !.pend = Append(@, row)]

\* A write that succeeds: the row fits, or everything before it is written out
\* first, possibly with its own beginning.
Accepted(s, row) ==
    IF s.failed THEN {}
    ELSE {With(s, row)} \cup
         {Emitted(With(s, row), Len(s.pend), part) :
              part \in IF s.pend = <<>> THEN {} ELSE BOOLEAN}

\* A write error: at most m rows and a part of the next are written, and the
\* error sticks.
Broken(s, m) ==
    IF "disk" \notin Faults THEN {}
    ELSE UNION {{[Emitted(s, n, part) EXCEPT !.failed = TRUE] :
                     part \in BOOLEAN} : n \in 0..m}

\* A write that fails: some of what was due is in the file, the row is not.
Rejected(s, row) ==
    IF s.failed THEN {s}
    ELSE IF s.pend = <<>> THEN {}
    ELSE {[t EXCEPT !.pend = Front(@)] : t \in Broken(With(s, row), Len(s.pend))}

Flushed(s) ==
    IF s.failed THEN {s}
    ELSE {Emitted(s, Len(s.pend), FALSE)} \cup Broken(s, Len(s.pend) - 1)

\* The process is gone, and its buffer with it.
GoneKeeps(s) == [s EXCEPT !.pend = <<>>, !.failed = FALSE]  \* Mutant: frag kept.
Gone(s) == [s EXCEPT !.pend = <<>>, !.failed = FALSE,
                     !.frag = IF @ = "own" THEN "dead" ELSE @]

-----------------------------------------------------------------------------
(* Save. *)

\* What a scan of the file for a key finds, in order.
Found(f, k) == SelectSeq(file[f].lines, LAMBDA r : r.key = k)

\* With no dates, the comparison function says "less" for every pair; the
\* insertion sort of sort.Slice (up to 12 rows) then reverses the rows.
SortedByDate(rows) == Reverse(rows)
Newest(rows) == LET sorted == SortedByDate(rows) IN sorted[Len(sorted)]

\* CompareSotr finds no difference; lists are compared as sets, and what it
\* does not look at is no part of a value.
CompareSotr(old, new) == old.val = new.val

\* Whether the row is dropped: for a department when some row of the file with
\* its key says the same, for an employee when the chosen row does.
DoubleNever(f, row) == FALSE                    \* Mutant: no check.
Double(f, row) ==
    IF f = "dep" THEN row \in ToSet(file[f].lines)
    ELSE LET rows == Found(f, row.key)
         IN  rows # <<>> /\ CompareSotr(Newest(rows), row)

Settle(f, row) == last' = [last EXCEPT ![f][row.key] = row.val]

\* The scan and the decision.
Look(c, i) ==
    /\ up /\ pc[c] = "idle" /\ saves < MaxSaves
    /\ OncePerRun => <<i.file, i.row.key>> \notin offered
    /\ saves' = saves + 1
    /\ offered' = offered \cup {<<i.file, i.row.key>>}
    /\ IF Double(i.file, i.row)
       THEN Settle(i.file, i.row) /\ UNCHANGED <<pc, item>>
       ELSE /\ pc' = [pc EXCEPT ![c] = "write"]
            /\ item' = [item EXCEPT ![c] = i]
            /\ UNCHANGED last
    /\ UNCHANGED <<file, up, log, lost, crashes, runs>>

\* A new row, or the Update of an employee, is appended.
Write(c) ==
    /\ up /\ pc[c] = "write"
    /\ LET f == item[c].file row == item[c].row IN
       \/ /\ \E s \in Accepted(file[f], row) : file' = [file EXCEPT ![f] = s]
          /\ log' = [log EXCEPT ![f] = Append(@, row)]
          /\ Settle(f, row)
       \/ /\ \E s \in Rejected(file[f], row) : file' = [file EXCEPT ![f] = s]
          /\ UNCHANGED <<log, last>>
    /\ pc' = [pc EXCEPT ![c] = "idle"]
    /\ item' = [item EXCEPT ![c] = Unsaved]
    /\ UNCHANGED <<up, lost, crashes, saves, runs, offered>>

-----------------------------------------------------------------------------
(* Flush, Close, the end of the process and the next run. *)

\* Mutant: the employees are forgotten.
FlushDepOnly(f) == IF f = "dep" THEN Flushed(file[f]) ELSE {file[f]}

FlushOf(f) == Flushed(file[f])

Flush ==
    /\ up
    /\ \E d \in FlushOf("dep"), s \in FlushOf("sotr") :
          file' = [f \in Files |-> IF f = "dep" THEN d ELSE s]
    /\ UNCHANGED <<up, pc, item, history>>

\* The process ends with the files in state s.
End(s) ==
    /\ up' = FALSE
    /\ file' = [f \in Files |-> Gone(s[f])]
    /\ lost' = [f \in Files |-> lost[f] + Len(s[f].pend)]
    /\ pc' = [c \in Clients |-> "idle"]
    /\ item' = [c \in Clients |-> Unsaved]
    /\ UNCHANGED <<log, saves, runs, offered, last>>

\* Close reports the error of a writer.
CloseFiles ==
    /\ up
    /\ \E d \in FlushOf("dep"), s \in FlushOf("sotr") :
          /\ End([f \in Files |-> IF f = "dep" THEN d ELSE s])
          /\ crashes' = IF d.failed \/ s.failed THEN crashes + 1 ELSE crashes

\* Whoever closes the storage has no Save in progress.
Close == (\A c \in Clients : pc[c] = "idle") /\ CloseFiles

Crash == "crash" \in Faults /\ up /\ End(file) /\ crashes' = crashes + 1

\* NewFileStore on the files the last run left.
Open ==
    /\ ~up /\ runs < MaxRuns
    /\ up' = TRUE
    /\ runs' = runs + 1
    /\ offered' = {}
    /\ UNCHANGED <<file, pc, item, log, lost, crashes, saves, last>>

Next ==
    \/ \E c \in Clients : (\E i \in Items : Look(c, i)) \/ Write(c)
    \/ Flush \/ Close \/ Crash \/ Open

Spec == Init /\ [][Next]_vars

-----------------------------------------------------------------------------
(* Properties. *)

Spoilt(f) == {i \in DOMAIN file[f].lines : file[f].lines[i] = Torn}

\* Types; a closed storage has nothing pending and no live fragment.
TypeOK ==
    /\ \A f \in Files :
          /\ file[f].lines \in Seq(Row(f) \cup {Torn})
          /\ file[f].pend \in Seq(Row(f))
          /\ file[f].frag \in {"none", "own", "dead"}
          /\ file[f].failed \in BOOLEAN
          /\ file[f].frag = "own" => file[f].pend # <<>> \/ file[f].failed
          /\ ~up => file[f].pend = <<>> /\ file[f].frag # "own"
    /\ pc \in [Clients -> {"idle", "write"}]
    /\ \A c \in Clients : pc[c] = "write" => item[c] \in Items

\* As long as every end of the process was a Close without error, every acknowledged
\* row is in the file or in the buffer, in the order of the appends, whatever
\* scans, spills and flushes came in between.
NothingLost ==
    crashes = 0 =>
        \A f \in Files : file[f].lines \o file[f].pend = log[f]

\* What a crash costs: the rows that were in the buffer, and at most one row
\* of a later run, spoilt by the fragment it is appended to.
CrashCost ==
    \A f \in Files :
        /\ Len(log[f]) = Len(file[f].lines) + Len(file[f].pend) + lost[f]
        /\ Cardinality(Spoilt(f)) <= crashes
        /\ file[f].frag = "dead" => Cardinality(Spoilt(f)) < crashes

\* However many runs, spills, crashes and write errors: the file never holds
\* the same department row twice.
NoDoubleDep ==
    LET lines == file["dep"].lines
    IN  \A i, j \in DOMAIN lines \ Spoilt("dep") : lines[i] = lines[j] => i = j

\* After a clean Close the last row of an employee is what was saved last, so
\* that who reads the file in order ends with the current data: the row a new
\* one is compared with is "newest raw" (file.go:167).
LastSavedIsLast ==
    ~up /\ crashes = 0 =>
        \A k \in Keys["sotr"] :
            LET rows == Found("sotr", k)
            IN  rows # <<>> => rows[Len(rows)].val = last["sotr"][k]
===========================================================================
