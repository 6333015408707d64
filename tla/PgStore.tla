------------------------------ MODULE PgStore ------------------------------
(***************************************************************************)
(* The SQL storage of kbsrv (internal/storage/pg/db.go) behind the gRPC    *)
(* service (backend/p_stor.go).  Save puts a row into one of two maps;     *)
(* every second Flush writes both maps to the database in one transaction. *)
(*                                                                         *)
(* One gRPC handler runs per call, without any lock: the maps, the counter *)
(* of flushes and the transactions of several handlers interleave.  Only   *)
(* the database orders them, and only where they write the same rows: an   *)
(* upsert locks its rows until the transaction ends, and waits for who has *)
(* locked one of them.                                                     *)
(***************************************************************************)
EXTENDS Employee

CONSTANTS
    Clients,        \* every client has one call in progress at most
    Idrs,           \* keys of departments
    Tabs,           \* keys of employees (tabnum)
    Faults          \* see FaultNames

\* "crash": the server dies at any point; "db": a statement of the transaction
\* fails; "open", "read": a file of a dump cannot be opened, or read to its
\* end; "timeout": the deadline of a command passes.
FaultNames == {"crash", "db", "open", "read", "timeout"}

ASSUME PgStoreAssumption ==
    /\ Faults \subseteq FaultNames
    /\ Clients # {} /\ IsFiniteSet(Clients)

VARIABLES
    up,         \* the server runs
    Depmap,     \* Depmap[idr]: the row saved last, or Absent
    Sotrmap,    \* Sotrmap[tabnum]
    FlashCounter,
    call,       \* call[c]: the handler of the call c makes, see NoCall
    db,         \* the committed database, see NoData
    history,    \* history[tabnum]: the changes written, oldest first
    stamp       \* number of employee rows saved; a row carries its own

store == <<up, Depmap, Sotrmap, FlashCounter, call, db, history, stamp>>

Absent == [n |-> 0]

\* at: where the handler is, "none" when the call has returned; item: what it
\* saves; deps: the departments its transaction has collected; rows, diffs: the
\* employees it has copied from the map and their histories; seen: their rows
\* when it looked at the map again.
NoCall == [at |-> "none", item |-> Absent, deps |-> {}, rows |-> {}, diffs |-> <<>>,
           seen |-> <<>>]

\* In the order of a Flush; each names what comes next: the look at the counter,
\* the look at Depmap, the upsert of departments, the copy of Sotrmap, the look
\* at the old rows, the upsert of employees, the second look at Sotrmap, the
\* commit, Store(0).
InFlush == {"load", "begin", "deps", "sotrs", "read", "insert", "phones", "commit", "reset"}

\* Tables: deps; sotrs with the department each refers to; phones; mobiles.
NoData == [dep |-> {}, sotr |-> [t \in Tabs |-> Absent],
           phones |-> [t \in Tabs |-> {}], mobiles |-> [t \in Tabs |-> {}]]

NewMaps ==
    /\ Depmap = [i \in Idrs |-> Absent]
    /\ Sotrmap = [t \in Tabs |-> Absent]
    /\ FlashCounter = 0

StoreInit ==
    /\ up = TRUE
    /\ NewMaps
    /\ call = [c \in Clients |-> NoCall]
    /\ db = NoData
    /\ history = [t \in Tabs |-> <<>>]
    /\ stamp = 0

-----------------------------------------------------------------------------
(* Save. *)

DueLate == FlashCounter > 2         \* Mutant: the third Flush writes.
Due == FlashCounter >= 2

IsDep(item) == "idr" \in DOMAIN item

\* Another handler is inside the same map: the outcome is undefined.
Racing(c) ==
    \E d \in Clients \ {c} :
        \/ call[d].at = "save" /\ IsDep(call[d].item) = IsDep(call[c].item)
        \/ call[d].at = "begin" /\ IsDep(call[c].item)
        \/ call[d].at \in {"sotrs", "phones"} /\ ~IsDep(call[c].item)

Stamped(item, n) ==
    [f \in DOMAIN item \cup {"n"} |-> IF f = "n" THEN n ELSE item[f]]

Put(c) ==
    LET item == call[c].item IN
    IF IsDep(item)
    THEN /\ Depmap' = [Depmap EXCEPT ![item.idr] = item]
         /\ UNCHANGED <<Sotrmap, stamp>>
    ELSE /\ stamp' = stamp + 1
         /\ Sotrmap' = [Sotrmap EXCEPT ![item.tabnum] = Stamped(item, stamp + 1)]
         /\ UNCHANGED Depmap

Save(c) ==
    /\ call[c].at = "save"
    /\ call' = [call EXCEPT ![c] = NoCall]
    /\ \/ Put(c)
       \/ Racing(c) /\ UNCHANGED <<Depmap, Sotrmap, stamp>>
    /\ UNCHANGED <<up, FlashCounter, db, history>>

-----------------------------------------------------------------------------
(* Flush. *)

\* The call of Flush by c arrives.
Add(c) ==
    /\ FlashCounter' = FlashCounter + 1
    /\ call' = [call EXCEPT ![c].at = "load"]
    /\ UNCHANGED <<up, Depmap, Sotrmap, db, history, stamp>>

\* The first Flush of a client is for the departments, the second writes all.
Load(c) ==
    /\ call[c].at = "load"
    /\ call' = [call EXCEPT ![c] = IF Due THEN [@ EXCEPT !.at = "begin"] ELSE NoCall]
    /\ UNCHANGED <<up, Depmap, Sotrmap, FlashCounter, db, history, stamp>>

\* prepareDepsResponse collects the departments ...
CollectDeps(c) ==
    /\ call[c].at = "begin"
    /\ call' = [call EXCEPT ![c].at = "deps",
                           ![c].deps = {Depmap[i] : i \in Idrs} \ {Absent}]
    /\ UNCHANGED <<up, Depmap, Sotrmap, FlashCounter, db, history, stamp>>

\* ... and upserts them.  Each row is locked until the transaction ends; who
\* writes other rows, a renamed department for one, does not wait.
HoldsNone(c) == FALSE       \* Mutant: they are written outside the transaction.
Holds(c) == call[c].at \in {"sotrs", "read", "insert", "phones", "commit"}

Common(c, d) == call[c].deps \cap call[d].deps

UpsertDeps(c) ==
    /\ call[c].at = "deps"
    /\ \A d \in Clients : Holds(d) => Common(c, d) = {}
    /\ call' = [call EXCEPT ![c].at = "sotrs"]
    /\ UNCHANGED <<up, Depmap, Sotrmap, FlashCounter, db, history, stamp>>

\* Employees of departments that are not in the map are skipped.
Wanted(c) ==
    {t \in Tabs : Sotrmap[t] # Absent /\ \E d \in call[c].deps : d.idr = Sotrmap[t].parent}

\* prepareSotrsResponse copies the employees ...
CopySotrs(c) ==
    /\ call[c].at = "sotrs"
    /\ call' = [call EXCEPT ![c].at = "read", ![c].rows = {Sotrmap[t] : t \in Wanted(c)}]
    /\ UNCHANGED <<up, Depmap, Sotrmap, FlashCounter, db, history, stamp>>

Employees(c) == {r.tabnum : r \in call[c].rows}
RowOf(c, t) == CHOOSE r \in call[c].rows : r.tabnum = t
Old(c) == {t \in Employees(c) : db.sotr[t] # Absent}

Panics(c) == \E t \in Old(c) : DiffPanics(RowOf(c, t), db.sotr[t])

\* ... BeforeSave looks for the old row of each, as it is committed now, and
\* makes the history.  The looks are one step: between two of them only a
\* transaction with none of these departments commits an employee of these.
BeforeSave(c) ==
    /\ call[c].at = "read" /\ ~Panics(c)
    /\ \E ph \in [Old(c) -> UNION {Readings(db.phones[t]) : t \in Tabs}],
          mob \in [Old(c) -> UNION {Readings(db.mobiles[t]) : t \in Tabs}] :
          /\ \A t \in Old(c) : ph[t] \in Readings(db.phones[t]) /\ mob[t] \in Readings(db.mobiles[t])
          /\ call' = [call EXCEPT
                ![c].at = "insert",
                ![c].diffs = [t \in Old(c) |-> Diff(RowOf(c, t), db.sotr[t], ph[t], mob[t])]]
    /\ UNCHANGED <<up, Depmap, Sotrmap, FlashCounter, db, history, stamp>>

\* ... and the upsert waits for who has written one of these employees.
Wrote(c) == call[c].at \in {"phones", "commit"}

UpsertSotrs(c) ==
    /\ call[c].at = "insert"
    /\ \A d \in Clients : Wrote(d) => Employees(c) \cap Employees(d) = {}
    /\ call' = [call EXCEPT ![c].at = "phones"]
    /\ UNCHANGED <<up, Depmap, Sotrmap, FlashCounter, db, history, stamp>>

DiffOf(c, t) == IF t \in DOMAIN call[c].diffs THEN call[c].diffs[t] ELSE <<>>

\* The columns of a row and the department it refers to.
Stored(row, deps) ==
    [tabnum |-> row.tabnum, parent |-> row.parent, email |-> row.email, rest |-> row.rest,
     n |-> row.n, dep |-> CHOOSE d \in deps : d.idr = row.parent]

\* Mutant: the conflict is on idr alone, and does nothing.
DepTableByIdr(c) ==
    db.dep \cup {d \in call[c].deps : \A e \in db.dep : e.idr # d.idr}

\* The conflict is on (idr, parent, text): a renamed department is a new row.
DepTable(c) == db.dep \cup call[c].deps

\* preparePhones looks at the map again, deletes and inserts, and the
\* transaction commits.
PreparePhones(c) ==
    /\ call[c].at = "phones"
    /\ call' = [call EXCEPT ![c].at = "commit",
                           ![c].seen = [t \in Employees(c) |-> Sotrmap[t]]]
    /\ UNCHANGED <<up, Depmap, Sotrmap, FlashCounter, db, history, stamp>>

Commit(c) ==
    /\ call[c].at = "commit"
    /\ LET tabs == Employees(c)
       IN  /\ db' = [dep |-> DepTable(c),
                     sotr |-> [t \in Tabs |-> IF t \in tabs THEN Stored(RowOf(c, t), call[c].deps)
                                              ELSE db.sotr[t]],
                     phones |-> [t \in Tabs |->
                         IF t \in tabs
                         THEN Upserted(db.phones[t], DiffOf(c, t), "phone", call[c].seen[t].phone)
                         ELSE db.phones[t]],
                     mobiles |-> [t \in Tabs |->
                         IF t \in tabs
                         THEN Upserted(db.mobiles[t], DiffOf(c, t), "mobile", call[c].seen[t].mobile)
                         ELSE db.mobiles[t]]]
           /\ history' = [t \in Tabs |-> IF DOMAIN DiffOf(c, t) = {} THEN history[t]
                                         ELSE Append(history[t], DiffOf(c, t))]
    /\ call' = [call EXCEPT ![c] = [NoCall EXCEPT !.at = "reset"]]
    /\ UNCHANGED <<up, Depmap, Sotrmap, FlashCounter, stamp>>

\* Two transactions in the same upsert take its rows in the order of a map:
\* PostgreSQL ends one of them when each has what the other waits for.
Deadlocked(c) ==
    LET rows(d) == IF call[d].at = "deps" THEN call[d].deps ELSE Employees(d)
        others == {d \in Clients \ {c} : call[d].at = call[c].at}
    IN  /\ call[c].at \in {"deps", "insert"}
        /\ \E x, y \in rows(c) \cap UNION {rows(d) : d \in others} : x # y

\* A statement fails: nothing is written, and Flush reports no error.
RolledBackStuck == "none"   \* Mutant: returns the error without Store(0).
RolledBack == "reset"

Rollback(c) ==
    /\ call[c].at \in InFlush \ {"load", "begin", "reset"}
    /\ "db" \in Faults \/ Deadlocked(c)
    /\ call' = [call EXCEPT ![c] = [NoCall EXCEPT !.at = RolledBack]]
    /\ UNCHANGED <<up, Depmap, Sotrmap, FlashCounter, db, history, stamp>>

\* Mutant: the departments that have been written are forgotten.
ResetDeps(c) ==
    /\ call[c].at = "reset"
    /\ Depmap' = [i \in Idrs |-> Absent]
    /\ FlashCounter' = 0
    /\ call' = [call EXCEPT ![c] = NoCall]
    /\ UNCHANGED <<up, Sotrmap, db, history, stamp>>

Reset(c) ==
    /\ call[c].at = "reset"
    /\ FlashCounter' = 0
    /\ call' = [call EXCEPT ![c] = NoCall]
    /\ UNCHANGED <<up, Depmap, Sotrmap, db, history, stamp>>

-----------------------------------------------------------------------------
(* GetDepsBy, GetSotrsBy by key and by mobile: what is committed. *)

DepsBy(idr) == {d \in db.dep : d.idr = idr}

Known == {t \in Tabs : db.sotr[t] # Absent}
ByMobile(n) == {t \in Known : n \in db.mobiles[t]}

-----------------------------------------------------------------------------
(* The process. *)

\* Maps and counter are gone, calls in progress fail, the database rolls back.
Dies ==
    /\ up' = FALSE
    /\ Depmap' = [i \in Idrs |-> Absent]
    /\ Sotrmap' = [t \in Tabs |-> Absent]
    /\ FlashCounter' = 0
    /\ call' = [c \in Clients |-> NoCall]
    /\ UNCHANGED <<db, history, stamp>>

\* No interceptor recovers from a panic of a handler.
Panic(c) == call[c].at = "read" /\ Panics(c) /\ Dies

\* The process dies by itself, or because the Go runtime notices two handlers
\* in one map.
Crash ==
    /\ up
    /\ \/ "crash" \in Faults
       \/ \E c \in Clients : call[c].at = "save" /\ Racing(c)
    /\ Dies

Restart ==
    /\ ~up
    /\ up' = TRUE
    /\ UNCHANGED <<Depmap, Sotrmap, FlashCounter, call, db, history, stamp>>
=============================================================================
