-------------------------------- MODULE Sync --------------------------------
(***************************************************************************)
(* The command kbcli sync (cli/sync.go) against kbsrv with the SQL storage *)
(* (PgStore): a client sends the departments of a dump, calls Flush, sends *)
(* the employees, and calls Flush again.  Several clients may run at once, *)
(* and each may meet files it cannot read, refused rows, its deadline and  *)
(* a server that dies and comes back between any two steps.                *)
(***************************************************************************)
EXTENDS PgStore

CONSTANTS
    Dumps,          \* names of dumps
    File,           \* File[v][p]: the rows of part p of dump v, in their order
    Malformed,      \* e-mails that are none
    MaxSyncs        \* bound: commands in a behaviour

Parts == {"dep", "sotr"}
DepRow == [idr : Idrs, text : STRING]
SotrRow == [tabnum : Tabs, parent : Idrs, email : STRING, rest : STRING,
            phone : Seq(STRING), mobile : Seq(Nat)]

ASSUME SyncAssumption ==
    /\ MaxSyncs \in Nat
    /\ NoEmail \notin Malformed
    /\ \A v \in Dumps : /\ File[v]["dep"] \in Seq(DepRow)
                        /\ File[v]["sotr"] \in Seq(SotrRow)

VARIABLES
    client,     \* client[c], see Idle
    syncs       \* commands started

\* clean: the command started as Undisturbed says, and has met no fault; late,
\* torn, uneven, first: history variables, see Remember.
VARIABLES clean, late, torn, uneven, first

vars == <<store, client, syncs, clean, late, torn, uneven, first>>

\* part: what the client is sending; left: what it has not sent of it.
Idle == [part |-> "idle", dump |-> "none", left |-> <<>>]

\* The client waits for the answer of its call; errors it only logs.
Free(c) == call[c].at = "none"
Sending(c) == client[c].part \in Parts
Working(c) == Sending(c) \/ (client[c].part = "done" /\ ~Free(c))

Init ==
    /\ StoreInit
    /\ client = [c \in Clients |-> Idle]
    /\ syncs = 0
    /\ clean = [c \in Clients |-> FALSE]
    /\ late = [c \in Clients |-> {}]
    /\ torn = {} /\ uneven = {}
    /\ first = [t \in Tabs |-> <<>>]

-----------------------------------------------------------------------------
(* The client. *)

Soil(c) == clean' = [clean EXCEPT ![c] = FALSE]
ghosts == <<late, torn, uneven, first>>

\* insert opens the file of the part, or gives it up before its Flush is
\* registered.
Opened(v, p) == [part |-> p, dump |-> v, left |-> File[v][p]]
Skipped(c) == [client[c] EXCEPT !.part = IF @ = "dep" THEN "sotr" ELSE "done",
                                !.left = IF client[c].part = "dep" THEN File[client[c].dump]["sotr"]
                                         ELSE <<>>]

\* The validator of the server lets only an empty or a well-formed e-mail pass.
Refused(item) == ~IsDep(item) /\ item.email \in Malformed

Accepted(v) == {r \in ToSet(File[v]["sotr"]) : ~Refused(r)}

\* Diff can compare the rows of the dump, and those left in the map, with the
\* rows in the database: none of these lacks its e-mail.
Comparable(v) ==
    \A t \in Known : \A r \in Accepted(v) \cup ({Sotrmap[t]} \ {Absent}) :
        r.tabnum = t => ~DiffPanics(r, db.sotr[t])

\* Nothing that earlier commands left stands in the way of c with dump v.
Undisturbed(c, v) ==
    /\ FlashCounter = 0
    /\ \A e \in Clients \ {c} : ~Working(e)
    /\ Comparable(v)

\* LoadDataToStor: the health check needs a server.  A call that has outlived
\* the last command of this client is over.
Start(c, v) ==
    /\ up /\ syncs < MaxSyncs
    /\ ~Working(c)
    /\ client' = [client EXCEPT ![c] = Opened(v, "dep")]
    /\ syncs' = syncs + 1
    /\ clean' = [d \in Clients |-> d = c /\ Undisturbed(c, v)]
    /\ UNCHANGED <<store, ghosts>>

\* The next part cannot be opened: os.Open fails before anything is read.
OpenFails(c) ==
    /\ "open" \in Faults
    /\ Sending(c) /\ Free(c) /\ client[c].left = File[client[c].dump][client[c].part]
    /\ client' = [client EXCEPT ![c] = Skipped(c)]
    /\ Soil(c)
    /\ UNCHANGED <<store, syncs, ghosts>>

Sent(c) == [client[c] EXCEPT !.left = Tail(@)]

SendRow(c) ==
    /\ up /\ Sending(c) /\ Free(c) /\ client[c].left # <<>>
    /\ ~Refused(Head(client[c].left))
    /\ call' = [call EXCEPT ![c].at = "save", ![c].item = Head(client[c].left)]
    /\ client' = [client EXCEPT ![c] = Sent(c)]
    /\ UNCHANGED <<up, Depmap, Sotrmap, FlashCounter, db, history, stamp>>
    /\ UNCHANGED <<syncs, clean, ghosts>>

\* The row is refused, or there is no server: the error is logged and the next
\* row is read.
RowFails(c) ==
    /\ Sending(c) /\ Free(c) /\ client[c].left # <<>>
    /\ ~up \/ Refused(Head(client[c].left))
    /\ client' = [client EXCEPT ![c] = Sent(c)]
    /\ IF up THEN UNCHANGED clean ELSE Soil(c)
    /\ UNCHANGED <<store, syncs, ghosts>>

\* A read error, or a last line without a newline: the rest is not sent.
ReadFails(c) ==
    /\ "read" \in Faults
    /\ Sending(c) /\ Free(c) /\ client[c].left # <<>>
    /\ client' = [client EXCEPT ![c].left = <<>>]
    /\ Soil(c)
    /\ UNCHANGED <<store, syncs, ghosts>>

\* The deferred Flush of insert.
SendFlush(c) ==
    /\ up /\ Sending(c) /\ Free(c) /\ client[c].left = <<>>
    /\ Add(c)
    /\ client' = [client EXCEPT ![c] = Skipped(c)]
    /\ UNCHANGED <<syncs, clean, ghosts>>

\* An error of Flush is only logged.
FlushFails(c) ==
    /\ ~up /\ Sending(c) /\ Free(c) /\ client[c].left = <<>>
    /\ client' = [client EXCEPT ![c] = Skipped(c)]
    /\ Soil(c)
    /\ UNCHANGED <<store, syncs, ghosts>>

\* The deadline passes: every call of the client fails from now on without
\* reaching the server, while the handler of its last one goes on.
Expire(c) ==
    /\ "timeout" \in Faults
    /\ Sending(c)
    /\ client' = [client EXCEPT ![c].part = "done", ![c].left = <<>>]
    /\ Soil(c)
    /\ UNCHANGED <<store, syncs, ghosts>>

ClientStep(c) ==
    \/ SendRow(c) \/ RowFails(c) \/ SendFlush(c) \/ FlushFails(c)
    \/ ReadFails(c) \/ OpenFails(c) \/ Expire(c)

-----------------------------------------------------------------------------
(* The whole. *)

ViewOf(d, t) == View(d.sotr[t], d.phones[t], d.mobiles[t])

\* When c commits while d, which has none of its departments and so has not
\* waited, has copied an employee whom c writes: c's row is the newer one, or d
\* has looked for the old row already.
Overtaken(c, d) ==
    {t \in Employees(c) \cap Employees(d) :
        /\ Common(c, d) = {}
        /\ call[d].at = "insert" \/ (call[d].at = "read" /\ RowOf(c, t).n > RowOf(d, t).n)}

\* What the history variables see of a commit: employees overtaken while their
\* transaction goes on (late); those written by a transaction that they were
\* late in, or whose row was saved again between its two looks at the map (torn
\* until the next commit, uneven for ever); and the first view of an employee.
Remember(c) ==
    LET again == late[c] \cup {t \in Employees(c) : call[c].seen[t] # RowOf(c, t)}
    IN  /\ late' = [d \in Clients |-> IF d = c THEN {} ELSE late[d] \cup Overtaken(c, d)]
        /\ torn' = (torn \ Employees(c)) \cup again
        /\ uneven' = uneven \cup again
        /\ first' = [t \in Tabs |-> IF t \in Employees(c) /\ first[t] = <<>> THEN ViewOf(db', t)
                                    ELSE first[t]]

\* What a server that is killed, and a transaction rolled back, do to who is at
\* work.  A panic is the program's own, and excuses no command.
SoilAll == clean' = [c \in Clients |-> clean[c] /\ ~Working(c)]

Forget(C) ==
    /\ late' = [c \in Clients |-> IF c \in C THEN {} ELSE late[c]]
    /\ UNCHANGED <<torn, uneven, first>>

HandlerStep(c) ==
    /\ \/ /\ \/ Save(c) \/ Load(c) \/ CollectDeps(c) \/ UpsertDeps(c) \/ CopySotrs(c)
             \/ BeforeSave(c) \/ UpsertSotrs(c) \/ PreparePhones(c) \/ Reset(c)
          /\ UNCHANGED <<clean, ghosts>>
       \/ Commit(c) /\ Remember(c) /\ UNCHANGED clean
       \/ Rollback(c) /\ SoilAll /\ Forget({c})
       \/ Panic(c) /\ UNCHANGED clean /\ Forget(Clients)
    /\ UNCHANGED <<client, syncs>>

ServerStep ==
    /\ \/ Crash /\ SoilAll /\ Forget(Clients)
       \/ Restart /\ UNCHANGED <<clean, ghosts>>
    /\ UNCHANGED <<client, syncs>>

\* All commands of the bound have ended: anything else that stops is a deadlock.
AllDone ==
    /\ syncs = MaxSyncs /\ up /\ \A c \in Clients : ~Working(c)
    /\ UNCHANGED vars

Next ==
    \/ \E c \in Clients : (\E v \in Dumps : Start(c, v)) \/ ClientStep(c) \/ HandlerStep(c)
    \/ ServerStep \/ AllDone

Spec == Init /\ [][Next]_vars

-----------------------------------------------------------------------------
(* Properties. *)

SotrRows == UNION {Accepted(v) : v \in Dumps}
DepRows == UNION {ToSet(File[v]["dep"]) : v \in Dumps}
Mobiles == UNION {ToSet(r.mobile) : r \in SotrRows}

\* Types; a handler in a transaction has collected departments of dumps and can
\* be late for no employee but its own, the history holds mobiles as they are
\* rendered.
TypeOK ==
    /\ up \in BOOLEAN
    /\ \A i \in Idrs : Depmap[i] \in DepRows \cup {Absent}
    /\ \A c \in Clients :
          /\ client[c].part \in Parts \cup {"idle", "done"}
          /\ call[c].at \in InFlush \cup {"none", "save"}
          /\ call[c].deps \subseteq DepRows
          /\ late[c] \subseteq Employees(c)
    /\ \A t \in Tabs : \A i \in DOMAIN history[t] :
          "mobile" \in DOMAIN history[t][i] => \A m \in ToSet(history[t][i].mobile) : Rendered(m) = m
    /\ torn \subseteq uneven /\ uneven \subseteq Tabs

\* Every employee in the database belongs to a department of the database, the
\* one his row names, whatever files, transactions and maps were lost.
DepsExist ==
    \A t \in Known :
        db.sotr[t].dep \in DepsBy(db.sotr[t].parent)

\* An employee's phones in the database are those of the row his columns come
\* from, and a search by mobile finds him under every mobile of that row and no
\* other, after any number of changes; but for mobiles too short to be
\* rendered, which no deletion finds, and for the employees whose last
\* transaction was overtaken by one with none of its departments, or met their
\* row saved again between its two looks at it.
PhonesMatchColumns ==
    \A t \in Known \ torn :
        \E r \in SotrRows :
            /\ r.tabnum = t /\ \A f \in Columns : r[f] = db.sotr[t][f]
            /\ db.phones[t] = ToSet(r.phone)
            /\ \A n \in Mobiles :
                  /\ n \in ToSet(r.mobile) => t \in ByMobile(n)
                  /\ t \in ByMobile(n) /\ Rendered(n) # 0 => n \in ToSet(r.mobile)

\* What is left of an employee when his changes are undone, newest first.
Replayed(t) ==
    LET last == Len(history[t])
        view[i \in 0..last] ==
            IF i = 0 THEN ViewOf(db, t) ELSE Undone(view[i - 1], history[t][last + 1 - i])
    IN  view[last]

\* Whoever undoes the history of an employee, newest change first, arrives at
\* what was first written of him: no change goes unrecorded, unless one of his
\* transactions was overtaken by one with none of its departments, or met his
\* row saved again between its two looks at it.
HistoryReplays == \A t \in Known \ uneven : Replayed(t) = first[t]

\* The counter never exceeds the calls of Flush in progress by more than one:
\* a transaction that fails does not leave it where every later Flush would
\* start one, whatever calls count, look and reset between each other.
CounterBounded ==
    FlashCounter <= Cardinality({c \in Clients : call[c].at \in InFlush}) + 1

\* Of the rows of a file with one key the maps keep the last; for employees the
\* last that the validator lets pass.
LastDeps(v) ==
    LET f == File[v]["dep"] IN
    {f[i] : i \in {j \in DOMAIN f : \A k \in DOMAIN f : k > j => f[k].idr # f[j].idr}}

LastSotrs(v) ==
    LET f == File[v]["sotr"] IN
    {f[i] : i \in {j \in DOMAIN f :
        /\ ~Refused(f[j])
        /\ \A k \in DOMAIN f : k > j /\ ~Refused(f[k]) => f[k].tabnum # f[j].tabnum}}

\* A command that found the counter at zero, nobody beside it and an e-mail in
\* every row that Diff will compare (Undisturbed), and that met no fault, ends
\* with its departments and, of their employees, the rows and phones of its
\* files in the database, but for rows the validator refuses and for those that
\* a later row of the file replaces.
CleanSyncArrives ==
    \A c \in Clients : clean[c] /\ ~Working(c) =>
        LET v == client[c].dump IN
        /\ LastDeps(v) \subseteq db.dep
        /\ \A r \in LastSotrs(v) :
              (\E d \in LastDeps(v) : d.idr = r.parent) =>
                  /\ r.tabnum \in Known
                  /\ \A g \in Columns : db.sotr[r.tabnum][g] = r[g]
                  /\ db.phones[r.tabnum] = ToSet(r.phone)

\* Of two transactions in progress that have no department row in common, one
\* has another row of every department of the other: only a department renamed
\* or moved between their looks at the map lets a transaction pass another.
ApartMeansRenamed ==
    \A c, d \in Clients :
        Common(c, d) = {} =>
            \/ \A x \in call[c].deps : \E y \in call[d].deps : x.idr = y.idr
            \/ \A y \in call[d].deps : \E x \in call[c].deps : x.idr = y.idr

\* However transactions overlap, an employee's row is never replaced by one
\* that was saved before it, unless the transaction that does so has been
\* overtaken by one with none of its departments.
NeverBack ==
    [][\A t \in Tabs : \/ db'.sotr[t].n >= db.sotr[t].n
                       \/ \E c \in Clients : call[c].at = "commit" /\ t \in late[c]]_vars
=============================================================================
