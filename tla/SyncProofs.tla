----------------------------- MODULE SyncProofs -----------------------------
(***************************************************************************)
(* Theorems about the sync command and the SQL storage for any clients,    *)
(* dumps and faults.  Transactions that share a row of a department are    *)
(* ordered by its lock; others overlap freely, and what they can do to     *)
(* each other is in the variable late.  Proved: what no overlap does to    *)
(* the rows, phones and history of an employee who is not late; who can be *)
(* late at all; and that a command that starts undisturbed and meets no    *)
(* fault leaves its files in the database.                                 *)
(***************************************************************************)
EXTENDS Sync, SequenceTheorems, FiniteSetTheorems, WellFoundedInduction, TLAPS

\* What a client may still send, and what a handler may be saving.
Item == DepRow \cup SotrRow

ClientOK(c) ==
    /\ DOMAIN client[c] = {"part", "dump", "left"}
    /\ client[c].left \in Seq(Item)
    /\ Sending(c) => client[c].dump \in Dumps

\* A row that a transaction has copied: its department is among those the
\* transaction has collected, and the map holds the same row or a later one.
Copied(r, deps) ==
    /\ r.tabnum \in Tabs /\ r.n \in Nat
    /\ \E d \in deps : d.idr = r.parent
    /\ Sotrmap[r.tabnum] # Absent /\ r.n <= Sotrmap[r.tabnum].n

\* The database holds no later row of an employee than the transaction that is
\* not late in him.
CallOK(c) ==
    /\ DOMAIN call[c] = {"at", "item", "deps", "rows", "diffs", "seen"}
    /\ call[c].at = "save" => call[c].item \in Item
    /\ call[c].rows # {} => call[c].at \in {"read", "insert", "phones", "commit"}
    /\ \A r \in call[c].rows : Copied(r, call[c].deps)
    /\ \A r, q \in call[c].rows : r.tabnum = q.tabnum => r = q
    /\ \A r \in call[c].rows : r.tabnum \in late[c] \/ db.sotr[r.tabnum].n <= r.n
    /\ late[c] \subseteq Employees(c)

\* A row in the map has its key, is younger than none that was saved, and older
\* than none in the database.
MapOK(t) ==
    Sotrmap[t] # Absent =>
        /\ Sotrmap[t].tabnum = t
        /\ Sotrmap[t].n \in Nat /\ Sotrmap[t].n <= stamp
        /\ db.sotr[t].n <= Sotrmap[t].n

DbOK(t) ==
    /\ db.sotr[t].n \in Nat /\ db.sotr[t].n <= stamp
    /\ db.sotr[t] # Absent => /\ db.sotr[t].dep \in db.dep
                              /\ db.sotr[t].dep.idr = db.sotr[t].parent

\* The row locks: no two transactions have upserted the same department, and
\* none the same employee.
HoldersApart ==
    \A c, d \in Clients : c # d /\ Holds(c) /\ Holds(d) => Common(c, d) = {}
WritersApart ==
    \A c, d \in Clients : c # d /\ Wrote(c) /\ Wrote(d) => Employees(c) \cap Employees(d) = {}

SyncInv ==
    /\ DOMAIN client = Clients /\ DOMAIN call = Clients /\ DOMAIN Sotrmap = Tabs
    /\ stamp \in Nat
    /\ \A c \in Clients : ClientOK(c) /\ CallOK(c)
    /\ \A t \in Tabs : MapOK(t) /\ DbOK(t)
    /\ HoldersApart /\ WritersApart

-----------------------------------------------------------------------------
LEMMA FilesAreItems ==
    ASSUME NEW v \in Dumps, NEW p \in Parts
    PROVE  File[v][p] \in Seq(Item)
<1>1. File[v]["dep"] \in Seq(DepRow) /\ File[v]["sotr"] \in Seq(SotrRow)
  BY SyncAssumption
<1>2. File[v]["dep"] \in Seq(Item) /\ File[v]["sotr"] \in Seq(Item)
  BY <1>1, SeqMonotonic DEF Item
<1> QED
  BY <1>2 DEF Parts

LEMMA InitSync == Init => SyncInv
<1> SUFFICES ASSUME Init PROVE SyncInv
  OBVIOUS
<1>1. \A c \in Clients : ClientOK(c) /\ CallOK(c) /\ ~Holds(c) /\ ~Wrote(c)
  <2> TAKE c \in Clients
  <2>1. client[c] = Idle /\ call[c] = NoCall /\ late[c] = {}
    BY DEF Init, StoreInit
  <2>2. <<>> \in Seq(Item)
    BY EmptySeq
  <2> QED
    BY <2>1, <2>2 DEF ClientOK, CallOK, Holds, Wrote, Idle, NoCall, Sending, Parts
<1>2. \A t \in Tabs : MapOK(t) /\ DbOK(t)
  BY DEF Init, StoreInit, NewMaps, NoData, MapOK, DbOK, Absent
<1> QED
  BY <1>1, <1>2 DEF Init, StoreInit, NewMaps, SyncInv, HoldersApart, WritersApart

\* The client of c goes on, and the storage stays as it is.
LEMMA ClientMoves ==
    ASSUME SyncInv, UNCHANGED <<store, ghosts>>, NEW c \in Clients, NEW k,
           client' = [client EXCEPT ![c] = k],
           DOMAIN k = {"part", "dump", "left"}, k.left \in Seq(Item),
           k.part \in Parts => k.dump \in Dumps
    PROVE  SyncInv'
<1>1. DOMAIN client' = Clients /\ \A d \in Clients : ClientOK(d)'
  <2>1. DOMAIN client' = Clients /\ client'[c] = k /\ \A d \in Clients \ {c} : client'[d] = client[d]
    BY DEF SyncInv
  <2>2. \A d \in Clients : ClientOK(d)
    BY DEF SyncInv
  <2>3. ASSUME NEW d \in Clients PROVE ClientOK(d)'
    <3>1. CASE d = c
      BY <2>1, <3>1 DEF ClientOK, Sending
    <3>2. CASE d # c
      BY <2>1, <2>2, <3>2 DEF ClientOK, Sending
    <3> QED
      BY <3>1, <3>2
  <2> QED
    BY <2>1, <2>3
<1>2. UNCHANGED <<call, Sotrmap, db, stamp, late>>
  BY DEF store, ghosts
<1>3. \A d \in Clients : CallOK(d)'
  BY <1>2 DEF SyncInv, CallOK, Copied, Employees
<1>4. \A t \in Tabs : MapOK(t)' /\ DbOK(t)'
  BY <1>2 DEF SyncInv, MapOK, DbOK
<1>5. HoldersApart' /\ WritersApart'
  BY <1>2 DEF SyncInv, HoldersApart, WritersApart, Holds, Wrote, Common, Employees
<1> QED
  BY <1>1, <1>2, <1>3, <1>4, <1>5 DEF SyncInv

\* What a client record becomes.
LEMMA SkippedForm ==
    ASSUME SyncInv, NEW c \in Clients, Sending(c)
    PROVE  /\ DOMAIN Skipped(c) = {"part", "dump", "left"} /\ Skipped(c).left \in Seq(Item)
           /\ Skipped(c).dump \in Dumps
<1>1. DOMAIN client[c] = {"part", "dump", "left"} /\ client[c].dump \in Dumps
  BY DEF SyncInv, ClientOK
<1>2. File[client[c].dump]["sotr"] \in Seq(Item) /\ <<>> \in Seq(Item)
  BY <1>1, FilesAreItems, EmptySeq DEF Parts
<1> QED
  BY <1>1, <1>2 DEF Skipped

LEMMA SentForm ==
    ASSUME SyncInv, NEW c \in Clients, Sending(c), client[c].left # <<>>
    PROVE  /\ DOMAIN Sent(c) = {"part", "dump", "left"} /\ Sent(c).left \in Seq(Item)
           /\ Sent(c).dump \in Dumps /\ Head(client[c].left) \in Item
<1>1. DOMAIN client[c] = {"part", "dump", "left"} /\ client[c].dump \in Dumps
      /\ client[c].left \in Seq(Item)
  BY DEF SyncInv, ClientOK
<1>2. Tail(client[c].left) \in Seq(Item) /\ Head(client[c].left) \in Item
  BY <1>1, HeadTailProperties
<1> QED
  BY <1>1, <1>2 DEF Sent

LEMMA ClientAlone ==
    ASSUME SyncInv, NEW c \in Clients,
           \/ \E v \in Dumps : Start(c, v)
           \/ OpenFails(c) \/ RowFails(c) \/ ReadFails(c) \/ FlushFails(c) \/ Expire(c)
    PROVE  SyncInv'
<1>0. DOMAIN client[c] = {"part", "dump", "left"} /\ client[c].left \in Seq(Item)
      /\ (Sending(c) => client[c].dump \in Dumps) /\ <<>> \in Seq(Item)
  BY EmptySeq DEF SyncInv, ClientOK
<1>1. ASSUME NEW v \in Dumps, Start(c, v) PROVE SyncInv'
  <2>1. /\ UNCHANGED <<store, ghosts>> /\ client' = [client EXCEPT ![c] = Opened(v, "dep")]
    BY <1>1 DEF Start
  <2>2. /\ DOMAIN Opened(v, "dep") = {"part", "dump", "left"} /\ Opened(v, "dep").dump = v
        /\ Opened(v, "dep").left \in Seq(Item)
    BY FilesAreItems DEF Opened, Parts
  <2> QED
    BY <2>1, <2>2, ClientMoves
<1>2. CASE OpenFails(c) \/ FlushFails(c)
  <2>1. UNCHANGED <<store, ghosts>> /\ Sending(c) /\ client' = [client EXCEPT ![c] = Skipped(c)]
    BY <1>2 DEF OpenFails, FlushFails
  <2> QED
    BY <2>1, SkippedForm, ClientMoves
<1>3. CASE RowFails(c)
  <2>1. UNCHANGED <<store, ghosts>> /\ Sending(c) /\ client[c].left # <<>>
        /\ client' = [client EXCEPT ![c] = Sent(c)]
    BY <1>3 DEF RowFails
  <2> QED
    BY <2>1, SentForm, ClientMoves
<1>4. CASE ReadFails(c) \/ Expire(c)
  <2>1. UNCHANGED <<store, ghosts>> /\ Sending(c)
    BY <1>4 DEF ReadFails, Expire
  <2>2. PICK k : /\ client' = [client EXCEPT ![c] = k]
                 /\ \/ k = [client[c] EXCEPT !.left = <<>>]
                    \/ k = [client[c] EXCEPT !.part = "done", !.left = <<>>]
    BY <1>4 DEF ReadFails, Expire
  <2>3. /\ DOMAIN k = {"part", "dump", "left"} /\ k.left = <<>> /\ k.dump = client[c].dump
    BY <1>0, <2>2
  <2> QED
    BY <1>0, <2>1, <2>2, <2>3, ClientMoves
<1> QED
  BY <1>1, <1>2, <1>3, <1>4

-----------------------------------------------------------------------------
(* The handlers. *)

Copying == {"read", "insert", "phones", "commit"}

\* The record of a call, as far as the lemmas below need it.
LEMMA CallForm ==
    ASSUME SyncInv, NEW c \in Clients
    PROVE  /\ DOMAIN call[c] = {"at", "item", "deps", "rows", "diffs", "seen"}
           /\ call[c].at \notin Copying => call[c].rows = {} /\ Employees(c) = {} /\ late[c] = {}
           /\ DOMAIN NoCall = {"at", "item", "deps", "rows", "diffs", "seen"}
           /\ NoCall.at = "none" /\ NoCall.rows = {}
           /\ \A d \in Clients : ClientOK(d)
           /\ DOMAIN client = Clients
<1>1. CallOK(c) /\ DOMAIN client = Clients /\ \A d \in Clients : ClientOK(d)
  BY DEF SyncInv
<1>2. DOMAIN call[c] = {"at", "item", "deps", "rows", "diffs", "seen"}
  BY <1>1 DEF CallOK
<1>3. ASSUME call[c].at \notin Copying
      PROVE  call[c].rows = {} /\ Employees(c) = {} /\ late[c] = {}
  BY <1>1, <1>3 DEF CallOK, Copying, Employees
<1> QED
  BY <1>1, <1>2, <1>3 DEF NoCall

\* A row of a call, and the employees of its transaction.
LEMMA RowIs ==
    ASSUME SyncInv, NEW c \in Clients, NEW t \in Employees(c)
    PROVE  /\ RowOf(c, t) \in call[c].rows /\ RowOf(c, t).tabnum = t /\ t \in Tabs
           /\ \A r \in call[c].rows : r.tabnum = t => r = RowOf(c, t)
<1>1. CallOK(c)
  BY DEF SyncInv
<1>2. PICK r \in call[c].rows : r.tabnum = t
  BY DEF Employees
<1>3. RowOf(c, t) \in call[c].rows /\ RowOf(c, t).tabnum = t
  BY <1>2 DEF RowOf
<1> QED
  BY <1>1, <1>2, <1>3 DEF CallOK, Copied

\* The client of c may move too, the call of c gets a record that holds no row
\* of an employee, and no lock of a department that another call has.
LEMMA CallMoves ==
    ASSUME SyncInv, NEW c \in Clients, NEW k, UNCHANGED <<Sotrmap, db, stamp>>,
           DOMAIN client' = Clients, \A d \in Clients : ClientOK(d)',
           call' = [call EXCEPT ![c] = k],
           DOMAIN k = {"at", "item", "deps", "rows", "diffs", "seen"},
           k.at = "save" => k.item \in Item,
           k.rows = {}, late'[c] = {}, \A d \in Clients \ {c} : late'[d] = late[d],
           k.at \notin Copying,
           k.at = "sotrs" => \A d \in Clients : Holds(d) => k.deps \cap call[d].deps = {}
    PROVE  SyncInv'
<1>1. DOMAIN call' = Clients /\ call'[c] = k /\ \A d \in Clients \ {c} : call'[d] = call[d]
  BY DEF SyncInv
<1>2. \A d \in Clients : CallOK(d)'
  <2>1. \A d \in Clients : CallOK(d)
    BY DEF SyncInv
  <2>2. ASSUME NEW d \in Clients PROVE CallOK(d)'
    <3>1. CASE d = c
      BY <1>1, <3>1 DEF CallOK, Employees
    <3>2. CASE d # c
      BY <1>1, <2>1, <3>2 DEF CallOK, Copied, Employees
    <3> QED
      BY <3>1, <3>2
  <2> QED
    BY <2>2
<1>3. HoldersApart'
  <2> SUFFICES ASSUME NEW d \in Clients, NEW e \in Clients, d # e, Holds(d)', Holds(e)'
               PROVE  Common(d, e)' = {}
    BY DEF HoldersApart
  <2>1. CASE d # c /\ e # c
    BY <1>1, <2>1 DEF SyncInv, HoldersApart, Holds, Common
  <2>2. CASE d = c
    BY <1>1, <2>2 DEF Holds, Common, Copying
  <2>3. CASE e = c
    BY <1>1, <2>3 DEF Holds, Common, Copying
  <2> QED
    BY <2>1, <2>2, <2>3
<1>4. WritersApart'
  <2>1. ~Wrote(c)'
    BY <1>1 DEF Wrote, Copying
  <2> QED
    BY <1>1, <2>1 DEF SyncInv, WritersApart, Wrote, Employees
<1> QED
  BY <1>1, <1>2, <1>3, <1>4 DEF SyncInv, MapOK, DbOK

\* The call of c goes on with the rows and locks it has.
LEMMA CallKeeps ==
    ASSUME SyncInv, NEW c \in Clients, NEW k, UNCHANGED <<client, Sotrmap, db, stamp, late>>,
           call' = [call EXCEPT ![c] = k],
           DOMAIN k = {"at", "item", "deps", "rows", "diffs", "seen"},
           k.rows = call[c].rows, k.deps = call[c].deps,
           call[c].at \in Copying, k.at \in Copying,
           k.at \in {"phones", "commit"} =>
               Wrote(c) \/ \A d \in Clients : Wrote(d) => Employees(c) \cap Employees(d) = {}
    PROVE  SyncInv'
<1>1. DOMAIN call' = Clients /\ call'[c] = k /\ \A d \in Clients \ {c} : call'[d] = call[d]
  BY DEF SyncInv
<1>2. \A d \in Clients : call'[d].rows = call[d].rows /\ call'[d].deps = call[d].deps
  BY <1>1
<1>3. \A d \in Clients : Employees(d)' = Employees(d)
  BY <1>2 DEF Employees
<1>4. \A d \in Clients : CallOK(d)'
  <2> TAKE d \in Clients
  <2>1. CallOK(d)
    BY DEF SyncInv
  <2>2. CASE d = c
    BY <1>1, <1>2, <1>3, <2>1, <2>2 DEF CallOK, Copied, Copying
  <2>3. CASE d # c
    BY <1>1, <1>3, <2>1, <2>3 DEF CallOK, Copied
  <2> QED
    BY <2>2, <2>3
<1>5. HoldersApart'
  <2>1. \A d \in Clients : Holds(d)' => Holds(d)
    BY <1>1 DEF Holds, Copying
  <2>2. \A d, e \in Clients : Common(d, e)' = Common(d, e)
    BY <1>2 DEF Common
  <2> QED
    BY <2>1, <2>2 DEF SyncInv, HoldersApart
<1>6. WritersApart'
  <2> SUFFICES ASSUME NEW d \in Clients, NEW e \in Clients, d # e, Wrote(d)', Wrote(e)'
               PROVE  (Employees(d) \cap Employees(e))' = {}
    BY DEF WritersApart
  <2>1. Employees(d)' = Employees(d) /\ Employees(e)' = Employees(e)
    BY <1>3
  <2>2. Employees(d) \cap Employees(e) = {}
    <3>1. CASE d # c /\ e # c
      BY <1>1, <3>1 DEF SyncInv, WritersApart, Wrote
    <3>2. CASE d = c
      <4>1. Wrote(e)
        BY <1>1, <3>2 DEF Wrote
      <4>2. Wrote(c) \/ \A x \in Clients : Wrote(x) => Employees(c) \cap Employees(x) = {}
        BY <1>1, <3>2 DEF Wrote
      <4> QED
        BY <3>2, <4>1, <4>2 DEF SyncInv, WritersApart
    <3>3. CASE e = c
      <4>1. Wrote(d)
        BY <1>1, <3>3 DEF Wrote
      <4>2. Wrote(c) \/ \A x \in Clients : Wrote(x) => Employees(c) \cap Employees(x) = {}
        BY <1>1, <3>3 DEF Wrote
      <4> QED
        BY <3>3, <4>1, <4>2 DEF SyncInv, WritersApart
    <3> QED
      BY <3>1, <3>2, <3>3
  <2> QED
    BY <2>1, <2>2
<1> QED
  BY <1>1, <1>4, <1>5, <1>6 DEF SyncInv, MapOK, DbOK, ClientOK, Sending

LEMMA SendStep ==
    ASSUME SyncInv, NEW c \in Clients, SendRow(c) \/ SendFlush(c), UNCHANGED late
    PROVE  SyncInv'
<1>1. Sending(c) /\ Free(c) /\ UNCHANGED <<Sotrmap, db, stamp>>
  BY DEF SendRow, SendFlush, Add
<1>0. call[c].rows = {} /\ late'[c] = {} /\ \A d \in Clients : late'[d] = late[d]
  BY <1>1, CallForm DEF Free, Copying
<1>2. PICK j : /\ client' = [client EXCEPT ![c] = j]
               /\ DOMAIN j = {"part", "dump", "left"} /\ j.left \in Seq(Item) /\ j.dump \in Dumps
  <2>1. CASE SendRow(c)
    BY <1>1, <2>1, SentForm DEF SendRow
  <2>2. CASE SendFlush(c)
    BY <1>1, <2>2, SkippedForm DEF SendFlush
  <2> QED
    BY <2>1, <2>2
<1>3. DOMAIN client' = Clients /\ \A d \in Clients : ClientOK(d)'
  <2>1. DOMAIN client' = Clients /\ client'[c] = j /\ \A d \in Clients \ {c} : client'[d] = client[d]
    BY <1>2, CallForm
  <2>2. ASSUME NEW d \in Clients PROVE ClientOK(d)'
    <3>1. CASE d = c
      BY <1>2, <2>1, <3>1 DEF ClientOK, Sending
    <3>2. CASE d # c
      BY <2>1, <3>2, CallForm DEF ClientOK, Sending
    <3> QED
      BY <3>1, <3>2
  <2> QED
    BY <2>1, <2>2
<1>4. CASE SendRow(c)
  <2> DEFINE i == Head(client[c].left)
             k == [call[c] EXCEPT !.at = "save", !.item = i]
  <2>1. i \in Item /\ call' = [call EXCEPT ![c] = k]
    BY <1>1, <1>4, SentForm DEF SendRow
  <2> HIDE DEF i
  <2>2. /\ DOMAIN k = {"at", "item", "deps", "rows", "diffs", "seen"} /\ k.at = "save" /\ k.item = i
        /\ k.rows = {}
    BY <1>0, CallForm
  <2>3. k.at \notin Copying
    BY <2>2 DEF Copying
  <2> HIDE DEF k
  <2> QED
    BY <1>0, <1>1, <1>3, <2>1, <2>2, <2>3, CallMoves
<1>5. CASE SendFlush(c)
  <2> DEFINE k == [call[c] EXCEPT !.at = "load"]
  <2>1. call' = [call EXCEPT ![c] = k]
    BY <1>5 DEF SendFlush, Add
  <2>2. /\ DOMAIN k = {"at", "item", "deps", "rows", "diffs", "seen"} /\ k.at = "load" /\ k.rows = {}
    BY <1>0, CallForm
  <2>3. k.at \notin Copying
    BY <2>2 DEF Copying
  <2> HIDE DEF k
  <2> QED
    BY <1>0, <1>1, <1>3, <2>1, <2>2, <2>3, CallMoves
<1> QED
  BY <1>4, <1>5

\* A row of an employee gets the next number, one of a department none.
LEMMA ItemForm ==
    ASSUME NEW i \in Item
    PROVE  \/ IsDep(i)
           \/ /\ ~IsDep(i) /\ i.tabnum \in Tabs
              /\ \A m : /\ Stamped(i, m).n = m
                        /\ Stamped(i, m).tabnum = i.tabnum
<1>1. CASE i \in DepRow
  BY <1>1 DEF DepRow, IsDep
<1>2. CASE i \in SotrRow
  <2>1. DOMAIN i = {"tabnum", "parent", "email", "rest", "phone", "mobile"} /\ i.tabnum \in Tabs
    BY <1>2 DEF SotrRow
  <2>2. ASSUME NEW m PROVE Stamped(i, m).n = m /\ Stamped(i, m).tabnum = i.tabnum
    BY <2>1 DEF Stamped
  <2> QED
    BY <2>1, <2>2 DEF IsDep
<1> QED
  BY <1>1, <1>2 DEF Item

\* A saved row is the youngest of all, so that no row a transaction has read is
\* younger than the one in the map.
LEMMA SaveStep ==
    ASSUME SyncInv, NEW c \in Clients, Save(c), UNCHANGED <<client, late>>
    PROVE  SyncInv'
<1>1. call' = [call EXCEPT ![c] = NoCall] /\ UNCHANGED db /\ call[c].at = "save"
  BY DEF Save
<1>0. late'[c] = {} /\ \A d \in Clients : late'[d] = late[d]
  BY <1>1, CallForm DEF Copying
<1>2. CASE UNCHANGED <<Sotrmap, stamp>>
  <2>1. \A d \in Clients : ClientOK(d)'
    BY CallForm DEF ClientOK, Sending
  <2>2. DOMAIN client' = Clients
    BY CallForm
  <2> DEFINE k == NoCall
  <2>3. DOMAIN k = {"at", "item", "deps", "rows", "diffs", "seen"} /\ k.at = "none" /\ k.rows = {}
    BY CallForm
  <2>5. k.at \notin Copying
    BY <2>3 DEF Copying
  <2> HIDE DEF k
  <2>4. call' = [call EXCEPT ![c] = k]
    BY <1>1 DEF k
  <2> QED
    BY <1>0, <1>1, <1>2, <2>1, <2>2, <2>3, <2>4, <2>5, CallMoves
<1>3. CASE ~UNCHANGED <<Sotrmap, stamp>>
  <2> DEFINE i == call[c].item
             new == Stamped(i, stamp + 1)
  <2>1. /\ ~IsDep(i) /\ stamp' = stamp + 1
        /\ Sotrmap' = [Sotrmap EXCEPT ![i.tabnum] = new]
    BY <1>3 DEF Save, Put
  <2>2. i \in Item /\ stamp \in Nat
    BY DEF Save, SyncInv, CallOK
  <2> HIDE DEF i
  <2>3. i.tabnum \in Tabs /\ new.n = stamp + 1 /\ new.tabnum = i.tabnum
    BY <2>1, <2>2, ItemForm
  <2> HIDE DEF new
  <2>4. /\ DOMAIN Sotrmap' = Tabs /\ Sotrmap'[i.tabnum] = new
        /\ \A t \in Tabs \ {i.tabnum} : Sotrmap'[t] = Sotrmap[t]
    BY <2>1, <2>3 DEF SyncInv
  <2>5. new # Absent
    BY <2>2, <2>3 DEF Absent
  <2>6. \A t \in Tabs : MapOK(t)' /\ DbOK(t)'
    <3> TAKE t \in Tabs
    <3>1. MapOK(t) /\ DbOK(t)
      BY DEF SyncInv
    <3>2. DbOK(t)'
      BY <1>1, <2>1, <2>2, <3>1 DEF DbOK
    <3>3. CASE t = i.tabnum
      BY <1>1, <2>1, <2>2, <2>3, <2>4, <3>1, <3>2, <3>3 DEF MapOK, DbOK
    <3>4. CASE t # i.tabnum
      BY <1>1, <2>1, <2>2, <2>4, <3>1, <3>2, <3>4 DEF MapOK
    <3> QED
      BY <3>2, <3>3, <3>4
  <2>7. ASSUME NEW r, NEW deps, Copied(r, deps) PROVE Copied(r, deps)'
    <3>1. r.tabnum \in Tabs /\ MapOK(r.tabnum)
      BY <2>7 DEF Copied, SyncInv
    <3>2. CASE r.tabnum = i.tabnum
      BY <1>1, <2>2, <2>3, <2>4, <2>5, <2>7, <3>1, <3>2 DEF Copied, MapOK
    <3>3. CASE r.tabnum # i.tabnum
      BY <1>1, <2>4, <2>7, <3>1, <3>3 DEF Copied
    <3> QED
      BY <3>2, <3>3
  <2>8. \A d \in Clients : CallOK(d)'
    <3> TAKE d \in Clients
    <3>1. CASE d = c
      <4>1. call'[d] = NoCall
        BY <1>1, <3>1 DEF SyncInv
      <4> QED
        BY <1>0, <3>1, <4>1, CallForm DEF CallOK, Employees
    <3>2. CASE d # c
      <4>1. call'[d] = call[d] /\ CallOK(d) /\ late'[d] = late[d]
        BY <1>0, <1>1, <3>2 DEF SyncInv
      <4> QED
        BY <1>1, <2>7, <4>1 DEF CallOK, Employees
    <3> QED
      BY <3>1, <3>2
  <2>9. HoldersApart' /\ WritersApart'
    <3>1. \A d \in Clients : call'[d] = IF d = c THEN NoCall ELSE call[d]
      BY <1>1 DEF SyncInv
    <3>2. ~Holds(c)' /\ ~Wrote(c)'
      BY <3>1, CallForm DEF Holds, Wrote
    <3> QED
      BY <3>1, <3>2 DEF SyncInv, HoldersApart, WritersApart, Holds, Wrote, Common, Employees
  <2> QED
    BY <1>1, <2>1, <2>2, <2>4, <2>6, <2>8, <2>9 DEF SyncInv, ClientOK, Sending
<1> QED
  BY <1>2, <1>3

\* The steps of Flush that collect, wait or end: only UpsertDeps locks
\* departments, and waits for them.
LEMMA FlushStep ==
    ASSUME SyncInv, NEW c \in Clients, UNCHANGED client,
           \/ UNCHANGED late /\ (Load(c) \/ CollectDeps(c) \/ UpsertDeps(c) \/ Reset(c))
           \/ Rollback(c) /\ Forget({c})
    PROVE  SyncInv'
<1>1. UNCHANGED <<Sotrmap, db, stamp>>
  BY DEF Load, CollectDeps, UpsertDeps, Rollback, Reset
<1>2. DOMAIN client' = Clients /\ \A d \in Clients : ClientOK(d)'
  BY CallForm DEF ClientOK, Sending
<1>0. late'[c] = {} /\ \A d \in Clients \ {c} : late'[d] = late[d]
  <2>1. CASE Rollback(c) /\ Forget({c})
    BY <2>1 DEF Forget
  <2>2. CASE UNCHANGED late /\ (Load(c) \/ CollectDeps(c) \/ UpsertDeps(c) \/ Reset(c))
    <3>1. call[c].at \notin Copying
      BY <2>2 DEF Load, CollectDeps, UpsertDeps, Reset, Copying
    <3> QED
      BY <2>2, <3>1, CallForm
  <2> QED
    BY <2>1, <2>2
<1>3. PICK k : /\ call' = [call EXCEPT ![c] = k]
               /\ DOMAIN k = {"at", "item", "deps", "rows", "diffs", "seen"}
               /\ k.at \notin Copying \cup {"save"} /\ k.rows = {}
               /\ k.at = "sotrs" => \A d \in Clients : Holds(d) => k.deps \cap call[d].deps = {}
  <2>1. CASE Load(c) /\ Due
    <3> DEFINE k == [call[c] EXCEPT !.at = "begin"]
    <3>1. call' = [call EXCEPT ![c] = k] /\ call[c].at = "load"
      BY <2>1 DEF Load
    <3>2. /\ DOMAIN k = {"at", "item", "deps", "rows", "diffs", "seen"} /\ k.at = "begin"
          /\ k.rows = {}
      BY <3>1, CallForm DEF Copying
    <3> QED
      BY <3>1, <3>2 DEF Copying
  <2>2. CASE CollectDeps(c)
    <3> DEFINE ds == {Depmap[i] : i \in Idrs} \ {Absent}
               k == [call[c] EXCEPT !.at = "deps", !.deps = ds]
    <3>1. call' = [call EXCEPT ![c] = k] /\ call[c].at = "begin"
      BY <2>2 DEF CollectDeps
    <3> HIDE DEF ds
    <3>2. /\ DOMAIN k = {"at", "item", "deps", "rows", "diffs", "seen"} /\ k.at = "deps"
          /\ k.rows = {}
      BY <3>1, CallForm DEF Copying
    <3> QED
      BY <3>1, <3>2 DEF Copying
  <2>3. CASE (Load(c) /\ ~Due) \/ Reset(c)
    <3>1. call' = [call EXCEPT ![c] = NoCall]
      BY <2>3 DEF Load, Reset
    <3> QED
      BY <3>1, CallForm DEF Copying
  <2>4. CASE UpsertDeps(c)
    <3> DEFINE k == [call[c] EXCEPT !.at = "sotrs"]
    <3>1. call' = [call EXCEPT ![c] = k] /\ call[c].at = "deps"
          /\ \A d \in Clients : Holds(d) => call[c].deps \cap call[d].deps = {}
      BY <2>4 DEF UpsertDeps, Common
    <3>2. /\ DOMAIN k = {"at", "item", "deps", "rows", "diffs", "seen"} /\ k.at = "sotrs"
          /\ k.rows = {} /\ k.deps = call[c].deps
      BY <3>1, CallForm DEF Copying
    <3>3. \A d \in Clients : Holds(d) => k.deps \cap call[d].deps = {}
      BY <3>1, <3>2
    <3> HIDE DEF k
    <3> QED
      BY <3>1, <3>2, <3>3 DEF Copying
  <2>5. CASE Rollback(c)
    <3> DEFINE k == [NoCall EXCEPT !.at = RolledBack]
    <3>1. call' = [call EXCEPT ![c] = k]
      BY <2>5 DEF Rollback
    <3>2. /\ DOMAIN k = {"at", "item", "deps", "rows", "diffs", "seen"} /\ k.at = "reset"
          /\ k.rows = {}
      BY CallForm DEF RolledBack
    <3> QED
      BY <3>1, <3>2 DEF Copying
  <2> QED
    BY <2>1, <2>2, <2>3, <2>4, <2>5
<1> QED
  BY <1>0, <1>1, <1>2, <1>3, CallMoves

\* The steps between the copy and the commit keep the rows; only UpsertSotrs
\* locks employees, and waits for them.
LEMMA KeepStep ==
    ASSUME SyncInv, NEW c \in Clients, UNCHANGED <<client, late>>,
           BeforeSave(c) \/ UpsertSotrs(c) \/ PreparePhones(c)
    PROVE  SyncInv'
<1>1. UNCHANGED <<Sotrmap, db, stamp>>
  BY DEF BeforeSave, UpsertSotrs, PreparePhones
<1>2. CASE BeforeSave(c)
  <2>1. PICK ds : call' = [call EXCEPT ![c].at = "insert", ![c].diffs = ds] /\ call[c].at = "read"
    BY <1>2 DEF BeforeSave
  <2> DEFINE k == [call[c] EXCEPT !.at = "insert", !.diffs = ds]
  <2>2. /\ call' = [call EXCEPT ![c] = k] /\ k.at = "insert"
        /\ DOMAIN k = {"at", "item", "deps", "rows", "diffs", "seen"}
        /\ k.rows = call[c].rows /\ k.deps = call[c].deps
    BY <2>1, CallForm
  <2> HIDE DEF k
  <2> QED
    BY <1>1, <2>1, <2>2, CallKeeps DEF Copying
<1>3. CASE UpsertSotrs(c)
  <2> DEFINE k == [call[c] EXCEPT !.at = "phones"]
  <2>1. call[c].at = "insert" /\ \A d \in Clients : Wrote(d) => Employees(c) \cap Employees(d) = {}
    BY <1>3 DEF UpsertSotrs
  <2>2. /\ call' = [call EXCEPT ![c] = k] /\ k.at = "phones"
        /\ DOMAIN k = {"at", "item", "deps", "rows", "diffs", "seen"}
        /\ k.rows = call[c].rows /\ k.deps = call[c].deps
    BY <1>3, CallForm DEF UpsertSotrs
  <2> HIDE DEF k
  <2> QED
    BY <1>1, <2>1, <2>2, CallKeeps DEF Copying
<1>4. CASE PreparePhones(c)
  <2> DEFINE s == [t \in Employees(c) |-> Sotrmap[t]]
             k == [call[c] EXCEPT !.at = "commit", !.seen = s]
  <2>1. call[c].at = "phones" /\ call' = [call EXCEPT ![c] = k]
    BY <1>4 DEF PreparePhones
  <2> HIDE DEF s
  <2>2. /\ k.at = "commit" /\ DOMAIN k = {"at", "item", "deps", "rows", "diffs", "seen"}
        /\ k.rows = call[c].rows /\ k.deps = call[c].deps
    BY CallForm
  <2> HIDE DEF k
  <2>3. Wrote(c)
    BY <2>1 DEF Wrote
  <2> QED
    BY <1>1, <2>1, <2>2, <2>3, CallKeeps DEF Copying
<1> QED
  BY <1>2, <1>3, <1>4

\* What is copied from the map names a department that was collected, and is
\* what the map holds.
LEMMA CopySotrsStep ==
    ASSUME SyncInv, NEW c \in Clients, CopySotrs(c), UNCHANGED <<client, late>>
    PROVE  SyncInv'
<1>1. UNCHANGED <<Sotrmap, db, stamp>> /\ call[c].at = "sotrs"
  BY DEF CopySotrs
<1>0. late[c] = {} /\ Holds(c)
  BY <1>1, CallForm DEF Copying, Holds
<1> DEFINE rs == {Sotrmap[t] : t \in Wanted(c)}
<1>2. \A r \in rs : /\ Copied(r, call[c].deps) /\ db.sotr[r.tabnum].n <= r.n
                    /\ r = Sotrmap[r.tabnum]
  <2> TAKE r \in rs
  <2>1. PICK t \in Wanted(c) : r = Sotrmap[t]
    OBVIOUS
  <2>2. /\ t \in Tabs /\ Sotrmap[t] # Absent /\ MapOK(t)
        /\ \E d \in call[c].deps : d.idr = r.parent
    BY <2>1 DEF Wanted, SyncInv
  <2> QED
    BY <2>1, <2>2 DEF Copied, MapOK
<1> DEFINE k == [call[c] EXCEPT !.at = "read", !.rows = rs]
<1>3. call' = [call EXCEPT ![c] = k]
  BY DEF CopySotrs
<1> HIDE DEF rs
<1>4. /\ DOMAIN k = {"at", "item", "deps", "rows", "diffs", "seen"} /\ k.at = "read"
      /\ k.rows = rs /\ k.deps = call[c].deps
  BY CallForm
<1> HIDE DEF k
<1>5. DOMAIN call' = Clients /\ call'[c] = k /\ \A d \in Clients \ {c} : call'[d] = call[d]
  BY <1>3 DEF SyncInv
<1>6. \A d \in Clients : CallOK(d)'
  <2> TAKE d \in Clients
  <2>1. CASE d = c
    <3>1. \A r \in rs : Copied(r, call[c].deps)'
      BY <1>1, <1>2, <1>4, <1>5 DEF Copied
    <3>2. late'[c] = {}
      BY <1>0
    <3>3. \A r, q \in rs : r.tabnum = q.tabnum => r = q
      BY <1>2
    <3>4. \A r \in rs : db'.sotr[r.tabnum].n <= r.n
      BY <1>1, <1>2
    <3> QED
      BY <1>4, <1>5, <2>1, <3>1, <3>2, <3>3, <3>4 DEF CallOK, Copied
  <2>2. CASE d # c
    <3>1. CallOK(d) /\ call'[d] = call[d]
      BY <1>5, <2>2 DEF SyncInv
    <3> QED
      BY <1>1, <3>1 DEF CallOK, Copied, Employees
  <2> QED
    BY <2>1, <2>2
<1>7. HoldersApart'
  <2>1. \A d \in Clients : Holds(d)' => Holds(d)
    BY <1>0, <1>5 DEF Holds
  <2>2. \A d, e \in Clients : Common(d, e)' = Common(d, e)
    BY <1>4, <1>5 DEF Common
  <2> QED
    BY <2>1, <2>2 DEF SyncInv, HoldersApart
<1>8. WritersApart'
  <2>1. ~Wrote(c)'
    BY <1>4, <1>5 DEF Wrote
  <2> QED
    BY <1>5, <2>1 DEF SyncInv, WritersApart, Wrote, Employees
<1> QED
  BY <1>1, <1>5, <1>6, <1>7, <1>8 DEF SyncInv, MapOK, DbOK, ClientOK, Sending

\* The columns a commit writes are those of a row it has copied, or stay.
LEMMA CommitForm ==
    ASSUME SyncInv, NEW c \in Clients, Commit(c), NEW t \in Tabs
    PROVE  /\ db'.dep = db.dep \cup call[c].deps
           /\ t \in Employees(c) => db'.sotr[t] = Stored(RowOf(c, t), call[c].deps)
           /\ t \notin Employees(c) => db'.sotr[t] = db.sotr[t]
<1>1. /\ db'.dep = DepTable(c)
      /\ db'.sotr = [u \in Tabs |-> IF u \in Employees(c) THEN Stored(RowOf(c, u), call[c].deps)
                                    ELSE db.sotr[u]]
  BY DEF Commit
<1> QED
  BY <1>1 DEF DepTable

LEMMA StoredForm ==
    ASSUME NEW r, NEW deps, Copied(r, deps)
    PROVE  LET s == Stored(r, deps) IN
           s.n = r.n /\ s.parent = r.parent /\ s.dep \in deps /\ s.dep.idr = r.parent
  BY DEF Stored, Copied

\* A transaction that has copied an employee whom another commits in between has
\* none of its departments, and has not written him.
LEMMA CommitBeside ==
    ASSUME SyncInv, NEW c \in Clients, Commit(c), Remember(c),
           NEW d \in Clients, d # c, NEW t \in Employees(c) \cap Employees(d)
    PROVE  /\ Common(c, d) = {} /\ call[d].at \in {"read", "insert"}
           /\ \/ t \in late'[d]
              \/ call[d].at = "read" /\ RowOf(c, t).n <= RowOf(d, t).n
<1>1. CallOK(c) /\ CallOK(d) /\ call[c].at = "commit"
  BY DEF SyncInv, Commit
<1>2. call[d].at \in Copying /\ Holds(c) /\ Holds(d) /\ Wrote(c)
  BY <1>1 DEF CallOK, Employees, Copying, Holds, Wrote
<1>3. Common(c, d) = {}
  BY <1>2 DEF SyncInv, HoldersApart
<1>4. call[d].at \in {"read", "insert"}
  <2>1. ~Wrote(d)
    BY <1>2 DEF SyncInv, WritersApart
  <2> QED
    BY <1>2, <2>1 DEF Wrote, Copying
<1>5. late'[d] = late[d] \cup Overtaken(c, d)
  BY DEF Remember
<1>6. CASE t \in Overtaken(c, d)
  BY <1>3, <1>4, <1>5, <1>6
<1>7. CASE t \notin Overtaken(c, d)
  <2>1. call[d].at = "read" /\ ~(RowOf(c, t).n > RowOf(d, t).n)
    BY <1>3, <1>4, <1>7 DEF Overtaken
  <2>2. RowOf(c, t).n \in Nat /\ RowOf(d, t).n \in Nat
    BY <1>1, RowIs DEF CallOK, Copied
  <2>3. RowOf(c, t).n <= RowOf(d, t).n
    BY <2>1, <2>2
  <2> QED
    BY <1>3, <2>1, <2>3
<1> QED
  BY <1>6, <1>7

LEMMA CommitStep ==
    ASSUME SyncInv, NEW c \in Clients, Commit(c), Remember(c), UNCHANGED client
    PROVE  SyncInv' /\ \A t \in Tabs : db'.sotr[t].n >= db.sotr[t].n \/ t \in late[c]
<1>1. /\ call[c].at = "commit" /\ UNCHANGED <<Sotrmap, stamp>>
      /\ call' = [call EXCEPT ![c] = [NoCall EXCEPT !.at = "reset"]]
  BY DEF Commit
<1>2. \A t \in Tabs : db.sotr[t].n \in Nat /\ MapOK(t) /\ DbOK(t)
  BY DEF SyncInv, DbOK
<1>0. late'[c] = {} /\ \A d \in Clients \ {c} : late'[d] = late[d] \cup Overtaken(c, d)
  BY DEF Remember
<1>3. ASSUME NEW t \in Tabs
      PROVE  /\ DbOK(t)' /\ MapOK(t)' /\ (db'.sotr[t].n >= db.sotr[t].n \/ t \in late[c])
             /\ t \in Employees(c) => db'.sotr[t].n = RowOf(c, t).n
  <2>1. CASE t \notin Employees(c)
    <3>1. db'.sotr[t] = db.sotr[t] /\ db'.dep = db.dep \cup call[c].deps
      BY <2>1, CommitForm
    <3>2. DbOK(t)' /\ MapOK(t)'
      BY <1>1, <1>2, <3>1 DEF DbOK, MapOK
    <3>3. db'.sotr[t].n >= db.sotr[t].n
      BY <1>2, <3>1
    <3> QED
      BY <2>1, <3>2, <3>3
  <2>2. CASE t \in Employees(c)
    <3> DEFINE r == RowOf(c, t)
    <3>1. CallOK(c) /\ r \in call[c].rows /\ r.tabnum = t
      BY <2>2, RowIs DEF SyncInv
    <3>2. Copied(r, call[c].deps) /\ (t \in late[c] \/ db.sotr[t].n <= r.n)
      BY <3>1 DEF CallOK
    <3>3. db'.sotr[t] = Stored(r, call[c].deps) /\ db'.dep = db.dep \cup call[c].deps
      BY <2>2, CommitForm
    <3> HIDE DEF r
    <3>4. /\ db'.sotr[t].n = r.n /\ db'.sotr[t].dep \in db'.dep
          /\ db'.sotr[t].dep.idr = db'.sotr[t].parent
      BY <3>2, <3>3, StoredForm
    <3>5. r.n \in Nat /\ r.n <= Sotrmap[t].n /\ Sotrmap[t] # Absent
      BY <3>1, <3>2 DEF Copied
    <3>6. Sotrmap[t].n \in Nat /\ Sotrmap[t].n <= stamp /\ Sotrmap[t].tabnum = t /\ stamp \in Nat
      BY <1>2, <3>5 DEF MapOK, SyncInv
    <3>7. DbOK(t)'
      BY <1>1, <3>4, <3>5, <3>6 DEF DbOK
    <3>8. MapOK(t)'
      BY <1>1, <3>4, <3>5, <3>6 DEF MapOK
    <3>9. db'.sotr[t].n >= db.sotr[t].n \/ t \in late[c]
      BY <1>2, <3>2, <3>4, <3>5
    <3> QED
      BY <3>4, <3>7, <3>8, <3>9 DEF r
  <2> QED
    BY <2>1, <2>2
<1> DEFINE k == [NoCall EXCEPT !.at = "reset"]
<1>4. DOMAIN k = {"at", "item", "deps", "rows", "diffs", "seen"} /\ k.at = "reset" /\ k.rows = {}
  BY CallForm
<1> HIDE DEF k
<1>5. DOMAIN call' = Clients /\ call'[c] = k /\ \A d \in Clients \ {c} : call'[d] = call[d]
  BY <1>1 DEF SyncInv, k
<1>6. \A d \in Clients : CallOK(d)'
  <2> TAKE d \in Clients
  <2>1. CASE d = c
    BY <1>0, <1>4, <1>5, <2>1 DEF CallOK, Employees
  <2>2. CASE d # c
    <3>1. CallOK(d) /\ call'[d] = call[d] /\ late'[d] = late[d] \cup Overtaken(c, d)
      BY <1>0, <1>5, <2>2 DEF SyncInv
    <3>2. \A r \in call[d].rows : Copied(r, call[d].deps)'
      BY <1>1, <3>1 DEF CallOK, Copied
    <3>3. ASSUME NEW r \in call[d].rows
          PROVE  r.tabnum \in late'[d] \/ db'.sotr[r.tabnum].n <= r.n
      <4>1. r.tabnum \in Tabs /\ r.tabnum \in Employees(d)
        BY <3>1 DEF CallOK, Copied, Employees
      <4>2. CASE r.tabnum \notin Employees(c)
        BY <3>1, <4>1, <4>2, CommitForm DEF CallOK
      <4>3. CASE r.tabnum \in Employees(c)
        <5>1. r.tabnum \in late'[d] \/ RowOf(c, r.tabnum).n <= RowOf(d, r.tabnum).n
          BY <2>2, <4>1, <4>3, CommitBeside
        <5>2. r = RowOf(d, r.tabnum)
          BY <4>1, RowIs
        <5>3. db'.sotr[r.tabnum].n = RowOf(c, r.tabnum).n
          BY <1>3, <4>1, <4>3
        <5> QED
          BY <5>1, <5>2, <5>3
      <4> QED
        BY <4>2, <4>3
    <3>4. late'[d] \subseteq Employees(d)
      BY <3>1 DEF CallOK, Overtaken
    <3>5. Employees(d)' = Employees(d)
      BY <3>1 DEF Employees
    <3> QED
      BY <3>1, <3>2, <3>3, <3>4, <3>5 DEF CallOK
  <2> QED
    BY <2>1, <2>2
<1>7. HoldersApart' /\ WritersApart'
  <2>1. ~Holds(c)' /\ ~Wrote(c)'
    BY <1>4, <1>5 DEF Holds, Wrote
  <2> QED
    BY <1>5, <2>1 DEF SyncInv, HoldersApart, WritersApart, Holds, Wrote, Common, Employees
<1> QED
  BY <1>1, <1>3, <1>5, <1>6, <1>7 DEF SyncInv, ClientOK, Sending

\* With the process go all rows of the map and of the transactions.
LEMMA DiesStep ==
    ASSUME SyncInv, Dies, Forget(Clients), UNCHANGED client
    PROVE  SyncInv'
<1>1. /\ Sotrmap' = [t \in Tabs |-> Absent] /\ call' = [c \in Clients |-> NoCall]
      /\ UNCHANGED <<db, stamp>>
  BY DEF Dies
<1>2. \A c \in Clients : call'[c] = NoCall /\ late'[c] = {}
  BY <1>1 DEF Forget
<1>3. \A c \in Clients : CallOK(c)' /\ ~Holds(c)' /\ ~Wrote(c)'
  BY <1>2, CallForm DEF CallOK, Holds, Wrote
<1>4. \A t \in Tabs : MapOK(t)' /\ DbOK(t)'
  BY <1>1 DEF SyncInv, MapOK, DbOK
<1> QED
  BY <1>1, <1>3, <1>4 DEF SyncInv, HoldersApart, WritersApart, ClientOK, Sending

LEMMA NothingStep ==
    ASSUME SyncInv, UNCHANGED <<client, call, Sotrmap, db, stamp, late>>
    PROVE  SyncInv'
<1>1. \A c \in Clients : ClientOK(c)' /\ CallOK(c)'
  BY DEF SyncInv, ClientOK, Sending, CallOK, Copied, Employees
<1>2. \A t \in Tabs : MapOK(t)' /\ DbOK(t)'
  BY DEF SyncInv, MapOK, DbOK
<1>3. HoldersApart' /\ WritersApart'
  BY DEF SyncInv, HoldersApart, WritersApart, Holds, Wrote, Common, Employees
<1> QED
  BY <1>1, <1>2, <1>3 DEF SyncInv

\* The steps of a handler, with what the history variables do.
LEMMA HandlerSteps ==
    ASSUME NEW c \in Clients, HandlerStep(c)
    PROVE  /\ UNCHANGED client
           /\ \/ Save(c) /\ UNCHANGED ghosts
              \/ /\ Load(c) \/ CollectDeps(c) \/ UpsertDeps(c) \/ Reset(c)
                 /\ UNCHANGED ghosts
              \/ CopySotrs(c) /\ UNCHANGED ghosts
              \/ (BeforeSave(c) \/ UpsertSotrs(c) \/ PreparePhones(c)) /\ UNCHANGED ghosts
              \/ Commit(c) /\ Remember(c)
              \/ Rollback(c) /\ Forget({c})
              \/ Panic(c) /\ Forget(Clients)
  BY DEF HandlerStep

LEMMA SyncStep ==
    ASSUME SyncInv, [Next]_vars
    PROVE  SyncInv'
<1>1. ASSUME NEW c \in Clients, (\E v \in Dumps : Start(c, v)) \/ ClientStep(c) PROVE SyncInv'
  <2>1. CASE SendRow(c) \/ SendFlush(c)
    <3>1. UNCHANGED late
      BY <2>1 DEF SendRow, SendFlush, ghosts
    <3> QED
      BY <2>1, <3>1, SendStep
  <2> QED
    BY <1>1, <2>1, ClientAlone DEF ClientStep
<1>2. ASSUME NEW c \in Clients, HandlerStep(c) PROVE SyncInv'
  <2>1. UNCHANGED ghosts => UNCHANGED late
    BY DEF ghosts
  <2> QED
    BY <1>2, <2>1, HandlerSteps, SaveStep, FlushStep, CopySotrsStep, KeepStep, CommitStep, DiesStep
       DEF Panic
<1>3. CASE ServerStep
  BY <1>3, DiesStep, NothingStep DEF ServerStep, Crash, Restart, ghosts
<1>4. CASE AllDone \/ UNCHANGED vars
  BY <1>4, NothingStep DEF AllDone, vars, store
<1> QED
  BY <1>1, <1>2, <1>3, <1>4 DEF Next

LEMMA SyncInvariant == Spec => []SyncInv
  BY InitSync, SyncStep, PTL DEF Spec

\* Every employee in the database belongs to a department of the database, the
\* one his row names.
THEOREM EmployeesHaveDepartments == Spec => []DepsExist
<1>1. SyncInv => DepsExist
  BY DEF SyncInv, DbOK, DepsExist, DepsBy, Known
<1> QED
  BY <1>1, SyncInvariant, PTL

\* Only a commit changes the database.
LEMMA OnlyCommits ==
    ASSUME [Next]_vars
    PROVE  \/ UNCHANGED <<db, history, torn, uneven, first>>
           \/ \E c \in Clients : Commit(c) /\ Remember(c) /\ UNCHANGED client
<1>1. ASSUME NEW c \in Clients, (\E v \in Dumps : Start(c, v)) \/ ClientStep(c)
      PROVE  UNCHANGED <<db, history, torn, uneven, first>>
  BY <1>1 DEF ClientStep, Start, SendRow, RowFails, SendFlush, Add, FlushFails, ReadFails,
              OpenFails, Expire, store, ghosts
<1>2. ASSUME NEW c \in Clients, HandlerStep(c)
      PROVE  \/ UNCHANGED <<db, history, torn, uneven, first>>
             \/ Commit(c) /\ Remember(c) /\ UNCHANGED client
  BY <1>2, HandlerSteps DEF Save, Load, CollectDeps, UpsertDeps, CopySotrs, BeforeSave,
     UpsertSotrs, PreparePhones, Reset, Rollback, Panic, Dies, Forget, ghosts
<1>3. CASE ServerStep
  BY <1>3 DEF ServerStep, Crash, Dies, Restart, Forget, ghosts
<1>4. CASE AllDone \/ UNCHANGED vars
  BY <1>4 DEF AllDone, vars, store
<1> QED
  BY <1>1, <1>2, <1>3, <1>4 DEF Next

\* An employee's row in the database is never replaced by an older one, but by
\* a transaction that was overtaken, between its copy of the map and its commit,
\* by one that shares none of its departments: where they share one, its lock
\* orders them, and a transaction copies the map after it has it.
THEOREM RowsNeverGoBack == Spec => NeverBack
<1>1. ASSUME SyncInv, [Next]_vars
      PROVE  [\A t \in Tabs : \/ db'.sotr[t].n >= db.sotr[t].n
                              \/ \E c \in Clients : call[c].at = "commit" /\ t \in late[c]]_vars
  <2>1. CASE UNCHANGED db
    BY <1>1, <2>1 DEF SyncInv, DbOK
  <2>2. ASSUME NEW c \in Clients, Commit(c), Remember(c), UNCHANGED client
        PROVE  \A t \in Tabs : \/ db'.sotr[t].n >= db.sotr[t].n
                               \/ \E d \in Clients : call[d].at = "commit" /\ t \in late[d]
    <3>1. \A t \in Tabs : db'.sotr[t].n >= db.sotr[t].n \/ t \in late[c]
      BY <1>1, <2>2, CommitStep
    <3> QED
      BY <2>2, <3>1 DEF Commit
  <2> QED
    BY <1>1, <2>1, <2>2, OnlyCommits
<1> QED
  BY <1>1, SyncInvariant, PTL DEF Spec, NeverBack

-----------------------------------------------------------------------------
(* The counter of flushes. *)

\* The calls of Flush in progress.
Flushing == {c \in Clients : call[c].at \in InFlush}

CounterInv == DOMAIN call = Clients /\ FlashCounter \in Nat /\ CounterBounded

LEMMA FlushingFinite ==
    /\ IsFiniteSet(Flushing) /\ Cardinality(Flushing) \in Nat
    /\ IsFiniteSet(Flushing') /\ Cardinality(Flushing') \in Nat
<1>1. Flushing \subseteq Clients /\ Flushing' \subseteq Clients /\ IsFiniteSet(Clients)
  BY PgStoreAssumption DEF Flushing
<1> QED
  BY <1>1, FS_Subset, FS_CardinalityType

\* A step that leaves the counter alone, and every call on its side of Flush.
LEMMA CounterStays ==
    ASSUME CounterInv, UNCHANGED FlashCounter, DOMAIN call' = Clients,
           \A c \in Clients : call'[c].at \in InFlush <=> call[c].at \in InFlush
    PROVE  CounterInv'
<1>1. Flushing' = Flushing
  BY DEF Flushing
<1> QED
  BY <1>1 DEF CounterInv, CounterBounded, Flushing

\* A step that leaves the counter at one at most.
LEMMA CounterLow ==
    ASSUME DOMAIN call' = Clients, FlashCounter' \in {0, 1}
    PROVE  CounterInv'
<1>1. FlashCounter' <= Cardinality(Flushing') + 1 /\ FlashCounter' \in Nat
  BY FlushingFinite
<1> QED
  BY <1>1 DEF CounterInv, CounterBounded, Flushing

LEMMA AddStep ==
    ASSUME CounterInv, SyncInv, NEW c \in Clients, Free(c), Add(c)
    PROVE  CounterInv'
<1>1. /\ FlashCounter' = FlashCounter + 1 /\ DOMAIN call' = Clients
      /\ \A d \in Clients \ {c} : call'[d] = call[d]
      /\ call'[c] = [call[c] EXCEPT !.at = "load"]
  BY DEF Add, CounterInv
<1>2. Flushing' = Flushing \cup {c} /\ c \notin Flushing
  <2>1. call'[c].at = "load"
    BY <1>1, CallForm
  <2> QED
    BY <1>1, <2>1 DEF Flushing, InFlush, Free
<1>3. Cardinality(Flushing') = Cardinality(Flushing) + 1
  BY <1>2, FlushingFinite, FS_AddElement
<1>4. FlashCounter \in Nat /\ FlashCounter <= Cardinality(Flushing) + 1
  BY DEF CounterInv, CounterBounded, Flushing
<1>5. FlashCounter' \in Nat /\ FlashCounter' <= Cardinality(Flushing') + 1
  BY <1>1, <1>3, <1>4, FlushingFinite
<1> QED
  BY <1>1, <1>5 DEF CounterInv, CounterBounded, Flushing

\* The steps of a handler that stay on one side of Flush.
LEMMA CounterKeptStep ==
    ASSUME CounterInv, SyncInv, NEW c \in Clients,
           \/ Save(c) \/ CollectDeps(c) \/ UpsertDeps(c) \/ CopySotrs(c) \/ BeforeSave(c)
           \/ UpsertSotrs(c) \/ PreparePhones(c) \/ Commit(c) \/ Rollback(c)
    PROVE  CounterInv'
<1>1. UNCHANGED FlashCounter
  BY DEF Save, CollectDeps, UpsertDeps, CopySotrs, BeforeSave, UpsertSotrs, PreparePhones, Commit,
         Rollback
<1>2. PICK k : /\ call' = [call EXCEPT ![c] = k]
               /\ k.at \in InFlush <=> call[c].at \in InFlush
  <2>1. CASE Save(c)
    BY <2>1, CallForm DEF Save, InFlush
  <2>2. CASE CollectDeps(c)
    <3> DEFINE ds == {Depmap[i] : i \in Idrs} \ {Absent}
               k == [call[c] EXCEPT !.at = "deps", !.deps = ds]
    <3>1. call' = [call EXCEPT ![c] = k] /\ call[c].at = "begin"
      BY <2>2 DEF CollectDeps
    <3> HIDE DEF ds
    <3>2. k.at = "deps"
      BY CallForm
    <3> QED
      BY <3>1, <3>2 DEF InFlush
  <2>3. CASE UpsertDeps(c) \/ UpsertSotrs(c)
    <3>1. PICK a \in {"sotrs", "phones"} : call' = [call EXCEPT ![c] = [call[c] EXCEPT !.at = a]]
      BY <2>3 DEF UpsertDeps, UpsertSotrs
    <3>2. [call[c] EXCEPT !.at = a].at = a /\ call[c].at \in {"deps", "insert"}
      BY <2>3, CallForm DEF UpsertDeps, UpsertSotrs
    <3> QED
      BY <3>1, <3>2 DEF InFlush
  <2>4. CASE CopySotrs(c)
    <3> DEFINE rs == {Sotrmap[t] : t \in Wanted(c)}
               k == [call[c] EXCEPT !.at = "read", !.rows = rs]
    <3>1. call' = [call EXCEPT ![c] = k] /\ call[c].at = "sotrs"
      BY <2>4 DEF CopySotrs
    <3> HIDE DEF rs
    <3>2. k.at = "read"
      BY CallForm
    <3> QED
      BY <3>1, <3>2 DEF InFlush
  <2>5. CASE BeforeSave(c)
    <3>1. PICK ds : call' = [call EXCEPT ![c].at = "insert", ![c].diffs = ds] /\ call[c].at = "read"
      BY <2>5 DEF BeforeSave
    <3> DEFINE k == [call[c] EXCEPT !.at = "insert", !.diffs = ds]
    <3>2. call' = [call EXCEPT ![c] = k] /\ k.at = "insert"
      BY <3>1, CallForm
    <3> QED
      BY <3>1, <3>2 DEF InFlush
  <2>6. CASE PreparePhones(c)
    <3> DEFINE s == [t \in Employees(c) |-> Sotrmap[t]]
               k == [call[c] EXCEPT !.at = "commit", !.seen = s]
    <3>1. call' = [call EXCEPT ![c] = k] /\ call[c].at = "phones"
      BY <2>6 DEF PreparePhones
    <3> HIDE DEF s
    <3>2. k.at = "commit"
      BY CallForm
    <3> QED
      BY <3>1, <3>2 DEF InFlush
  <2>7. CASE Commit(c) \/ Rollback(c)
    <3>1. call' = [call EXCEPT ![c] = [NoCall EXCEPT !.at = "reset"]]
          /\ call[c].at \in InFlush
      BY <2>7 DEF Commit, Rollback, RolledBack, InFlush
    <3>2. [NoCall EXCEPT !.at = "reset"].at = "reset"
      BY CallForm
    <3> QED
      BY <3>1, <3>2 DEF InFlush
  <2> QED
    BY <2>1, <2>2, <2>3, <2>4, <2>5, <2>6, <2>7
<1>3. DOMAIN call' = Clients /\ \A d \in Clients : call'[d].at \in InFlush <=> call[d].at \in InFlush
  BY <1>2 DEF CounterInv
<1> QED
  BY <1>1, <1>3, CounterStays

LEMMA CounterStep ==
    ASSUME CounterInv, SyncInv, [Next]_vars
    PROVE  CounterInv'
<1>0. DOMAIN call' = Clients
  BY SyncStep DEF SyncInv
<1>1. CASE UNCHANGED <<FlashCounter, call>>
  BY <1>1, CounterStays DEF CounterInv
<1>2. ASSUME NEW c \in Clients, SendRow(c) PROVE CounterInv'
  <2> DEFINE i == Head(client[c].left)
  <2>1. /\ UNCHANGED FlashCounter /\ Free(c)
        /\ call' = [call EXCEPT ![c].at = "save", ![c].item = i]
    BY <1>2 DEF SendRow
  <2> HIDE DEF i
  <2>2. \A d \in Clients : call'[d].at = IF d = c THEN "save" ELSE call[d].at
    BY <2>1, CallForm DEF CounterInv
  <2> QED
    BY <1>0, <2>1, <2>2, CounterStays DEF Free, InFlush
<1>3. ASSUME NEW c \in Clients, SendFlush(c) PROVE CounterInv'
  BY <1>3, AddStep DEF SendFlush
<1>5. ASSUME NEW c \in Clients, Load(c) PROVE CounterInv'
  <2>1. CASE Due
    <3>1. /\ UNCHANGED FlashCounter /\ call[c].at = "load"
          /\ call' = [call EXCEPT ![c] = [call[c] EXCEPT !.at = "begin"]]
      BY <1>5, <2>1 DEF Load
    <3>2. \A d \in Clients : call'[d].at = IF d = c THEN "begin" ELSE call[d].at
      BY <3>1, CallForm DEF CounterInv
    <3> QED
      BY <1>0, <3>1, <3>2, CounterStays DEF InFlush
  <2>2. CASE ~Due
    <3>1. FlashCounter' = FlashCounter /\ FlashCounter \in Nat /\ ~(FlashCounter >= 2)
      BY <1>5, <2>2 DEF Load, Due, CounterInv
    <3>2. FlashCounter' \in {0, 1}
      BY <3>1
    <3> QED
      BY <1>0, <3>2, CounterLow
  <2> QED
    BY <2>1, <2>2
<1>6. ASSUME NEW c \in Clients, Reset(c) PROVE CounterInv'
  BY <1>0, <1>6, CounterLow DEF Reset
<1>7. CASE Dies
  BY <1>0, <1>7, CounterLow DEF Dies
<1>8. ASSUME NEW c \in Clients, (\E v \in Dumps : Start(c, v)) \/ ClientStep(c) PROVE CounterInv'
  BY <1>1, <1>2, <1>3, <1>8 DEF ClientStep, Start, RowFails, FlushFails, ReadFails, OpenFails, Expire,
                               store
<1>9. ASSUME NEW c \in Clients, HandlerStep(c) PROVE CounterInv'
  BY <1>5, <1>6, <1>7, <1>9, HandlerSteps, CounterKeptStep DEF Panic
<1>10. CASE ServerStep
  BY <1>1, <1>7, <1>10 DEF ServerStep, Crash, Restart
<1>11. CASE AllDone \/ UNCHANGED vars
  BY <1>1, <1>11 DEF AllDone, vars, store
<1> QED
  BY <1>8, <1>9, <1>10, <1>11 DEF Next

\* However many clients count, look and reset between each other: the counter
\* is at most one above the calls of Flush in progress.
THEOREM CounterFollowsCalls == Spec => []CounterBounded
<1>1. Init => CounterInv
  <2> SUFFICES ASSUME Init PROVE CounterInv
    OBVIOUS
  <2>1. FlashCounter = 0 /\ DOMAIN call = Clients
    BY DEF Init, StoreInit, NewMaps
  <2>2. FlashCounter <= Cardinality(Flushing) + 1
    BY <2>1, FlushingFinite
  <2> QED
    BY <2>1, <2>2 DEF CounterInv, CounterBounded, Flushing
<1>2. CounterInv => CounterBounded
  BY DEF CounterInv
<1> QED
  BY <1>1, <1>2, CounterStep, SyncInvariant, PTL DEF Spec

-----------------------------------------------------------------------------
(* Where the rows come from, and what a transaction knows of the database. *)

\* What is left of a list when its first elements have been sent.
From(f, k) == SubSeq(f, k, Len(f))
Suffix(f, s) == \E k \in 1..(Len(f) + 1) : s = From(f, k)

PartOK(c) ==
    /\ client[c].part \in Parts \cup {"idle", "done"}
    /\ Sending(c) => Suffix(File[client[c].dump][client[c].part], client[c].left)

\* A row of an employee as a transaction has copied it, r, and the history it
\* has made: of nothing for an employee it has not found, else of what the
\* database still holds, whatever order the phones were read in.
DiffOK(r, diffs) ==
    IF db.sotr[r.tabnum] = Absent THEN r.tabnum \notin DOMAIN diffs
    ELSE /\ r.tabnum \in DOMAIN diffs
         /\ \E ph \in Readings(db.phones[r.tabnum]), mob \in Readings(db.mobiles[r.tabnum]) :
               diffs[r.tabnum] = Diff(r, db.sotr[r.tabnum], ph, mob)

OfFile(r) == \E s \in SotrRows : r = Stamped(s, r.n)

RenderedOnly(diff) ==
    "mobile" \in DOMAIN diff => \A m \in ToSet(diff.mobile) : Rendered(m) = m

HandlerOK(c) ==
    /\ call[c].at \in InFlush \cup {"none", "save"}
    /\ call[c].at = "save" => call[c].item \in DepRows \cup SotrRows
    /\ call[c].deps \subseteq DepRows
    /\ \A r \in call[c].rows : OfFile(r)
    /\ DOMAIN call[c].diffs \subseteq Employees(c)
    /\ \A t \in DOMAIN call[c].diffs : RenderedOnly(call[c].diffs[t])
    /\ call[c].at \in {"insert", "phones", "commit"} =>
          \A r \in call[c].rows : r.tabnum \in late[c] \/ DiffOK(r, call[c].diffs)
    /\ call[c].at = "commit" =>
          \A t \in Employees(c) : /\ t \in DOMAIN call[c].seen
                                  /\ call[c].seen[t].tabnum = t /\ OfFile(call[c].seen[t])

HistoryOK(t) ==
    /\ \E S : history[t] \in Seq(S)
    /\ \A i \in DOMAIN history[t] : RenderedOnly(history[t][i])

MapsOK ==
    /\ up \in BOOLEAN /\ DOMAIN Depmap = Idrs
    /\ \A i \in Idrs : Depmap[i] \in DepRows \cup {Absent}
    /\ \A t \in Tabs : Sotrmap[t] # Absent => OfFile(Sotrmap[t])

GhostsOK == torn \subseteq uneven /\ uneven \subseteq Tabs

RowsInv ==
    /\ MapsOK /\ GhostsOK
    /\ \A c \in Clients : PartOK(c) /\ HandlerOK(c)
    /\ \A t \in Tabs : HistoryOK(t)

LEMMA InitRows == Init => RowsInv
<1> SUFFICES ASSUME Init PROVE RowsInv
  OBVIOUS
<1>1. MapsOK /\ GhostsOK
  BY DEF Init, StoreInit, NewMaps, MapsOK, GhostsOK
<1>2. ASSUME NEW c \in Clients PROVE PartOK(c) /\ HandlerOK(c)
  <2>1. client[c] = Idle /\ call[c] = NoCall
    BY DEF Init, StoreInit
  <2> QED
    BY <2>1 DEF PartOK, HandlerOK, Idle, NoCall, Sending, Parts
<1>3. ASSUME NEW t \in Tabs PROVE HistoryOK(t)
  <2>1. history[t] = <<>> /\ <<>> \in Seq({})
    BY EmptySeq DEF Init, StoreInit
  <2> QED
    BY <2>1 DEF HistoryOK
<1> QED
  BY <1>1, <1>2, <1>3 DEF RowsInv

LEMMA FromForm ==
    ASSUME NEW S, NEW f \in Seq(S), NEW k \in 1..(Len(f) + 1)
    PROVE  /\ From(f, k) \in Seq(S) /\ (From(f, k) = <<>> <=> k = Len(f) + 1)
           /\ From(f, k) # <<>> =>
                 /\ k \in 1..Len(f) /\ k + 1 \in 1..(Len(f) + 1)
                 /\ Head(From(f, k)) = f[k] /\ f[k] \in ToSet(f)
                 /\ Tail(From(f, k)) = From(f, k + 1)
<1> DEFINE s == SubSeq(f, k, Len(f))
<1>1. Len(f) \in Nat /\ DOMAIN f = 1..Len(f)
  BY LenProperties
<1>2. s \in Seq(S) /\ Len(s) = Len(f) + 1 - k /\ \A i \in 1..Len(s) : s[i] = f[k + i - 1]
  BY <1>1, SubSeqProperties
<1> HIDE DEF s
<1>3. s = <<>> <=> k = Len(f) + 1
  <2>1. s = <<>> <=> Len(s) = 0
    BY <1>2, EmptySeq
  <2> QED
    BY <1>1, <1>2, <2>1
<1>4. ASSUME s # <<>>
      PROVE  /\ k \in 1..Len(f) /\ k + 1 \in 1..(Len(f) + 1)
             /\ Head(s) = f[k] /\ f[k] \in ToSet(f) /\ Tail(s) = SubSeq(f, k + 1, Len(f))
  <2>1. k \in 1..Len(f) /\ k + 1 \in 1..(Len(f) + 1)
    BY <1>1, <1>3, <1>4
  <2>2. Head(s) = f[k] /\ f[k] \in ToSet(f)
    BY <1>1, <1>2, <1>4, <2>1, LenProperties, HeadTailProperties DEF ToSet
  <2>3. Tail(s) = SubSeq(f, k + 1, Len(f))
    <3> DEFINE a == Tail(s)
               b == SubSeq(f, k + 1, Len(f))
    <3>1. a \in Seq(S) /\ Len(a) = Len(s) - 1 /\ \A i \in 1..Len(a) : a[i] = s[i + 1]
      BY <1>2, <1>4, HeadTailProperties
    <3>2. b \in Seq(S) /\ Len(b) = Len(f) - k /\ \A i \in 1..Len(b) : b[i] = f[k + 1 + i - 1]
      <4>1. k + 1 \in 1..(Len(f) + 1) /\ Len(f) \in 0..Len(f)
        BY <1>1, <2>1
      <4>2. /\ b \in Seq(S) /\ Len(b) = IF k + 1 <= Len(f) THEN Len(f) - (k + 1) + 1 ELSE 0
            /\ \A i \in 1..(Len(f) - (k + 1) + 1) : b[i] = f[k + 1 + i - 1]
        BY <1>1, <4>1, SubSeqProperties
      <4> HIDE DEF b
      <4>3. Len(b) = Len(f) - k /\ 1..(Len(f) - (k + 1) + 1) = 1..(Len(f) - k)
        <5> DEFINE l == Len(f)
                   x == Len(b)
        <5>1. l \in Nat /\ k \in 1..l /\ x = IF k + 1 <= l THEN l - (k + 1) + 1 ELSE 0
          BY <1>1, <2>1, <4>2
        <5> HIDE DEF l, x
        <5>2. x = l - k /\ l - (k + 1) + 1 = l - k
          BY <5>1
        <5> QED
          BY <5>2 DEF l, x
      <4> QED
        BY <4>2, <4>3
    <3> HIDE DEF a, b
    <3>3. Len(a) = Len(b)
      BY <1>1, <1>2, <2>1, <3>1, <3>2
    <3>4. ASSUME NEW i \in 1..Len(a) PROVE a[i] = b[i]
      <4>1. i + 1 \in 1..Len(s) /\ k + (i + 1) - 1 = k + 1 + i - 1
        BY <1>1, <1>2, <2>1, <3>1
      <4> QED
        BY <1>2, <3>1, <3>2, <3>3, <4>1
    <3>5. a = b
      BY <3>1, <3>2, <3>3, <3>4, SeqEqual
    <3> QED
      BY <3>5 DEF a, b
  <2> QED
    BY <2>1, <2>2, <2>3
<1> QED
  BY <1>2, <1>3, <1>4 DEF From, s

LEMMA SuffixForm ==
    ASSUME NEW S, NEW f \in Seq(S)
    PROVE  /\ Suffix(f, f) /\ Suffix(f, <<>>)
           /\ \A s : Suffix(f, s) /\ s # <<>> =>
                 /\ s \in Seq(S) /\ Head(s) \in ToSet(f) /\ Suffix(f, Tail(s))
<1>1. Len(f) \in Nat /\ 1 \in 1..(Len(f) + 1) /\ Len(f) + 1 \in 1..(Len(f) + 1)
  BY LenProperties
<1>2. From(f, 1) = f /\ From(f, Len(f) + 1) = <<>>
  BY <1>1, SubSeqProperties DEF From
<1>3. ASSUME NEW s, Suffix(f, s), s # <<>>
      PROVE  s \in Seq(S) /\ Head(s) \in ToSet(f) /\ Suffix(f, Tail(s))
  <2>1. PICK k \in 1..(Len(f) + 1) : s = From(f, k)
    BY <1>3 DEF Suffix
  <2>2. /\ s \in Seq(S) /\ Head(s) \in ToSet(f) /\ k + 1 \in 1..(Len(f) + 1)
        /\ Tail(s) = From(f, k + 1)
    BY <1>3, <2>1, FromForm
  <2> QED
    BY <2>2 DEF Suffix
<1>4. Suffix(f, f) /\ Suffix(f, <<>>)
  BY <1>1, <1>2 DEF Suffix
<1> QED
  BY <1>3, <1>4

LEMMA ClientStepForm ==
    ASSUME SyncInv, RowsInv, NEW c \in Clients, Sending(c)
    PROVE  /\ Skipped(c).part \in {"sotr", "done"}
           /\ Skipped(c).part \in Parts => Suffix(File[Skipped(c).dump][Skipped(c).part], Skipped(c).left)
           /\ client[c].left # <<>> =>
                 /\ Sent(c).part = client[c].part /\ Sent(c).dump = client[c].dump
                 /\ Suffix(File[Sent(c).dump][Sent(c).part], Sent(c).left)
                 /\ Head(client[c].left) \in ToSet(File[client[c].dump][client[c].part])
<1> DEFINE v == client[c].dump
           p == client[c].part
<1>1. /\ DOMAIN client[c] = {"part", "dump", "left"} /\ v \in Dumps /\ p \in Parts
      /\ Suffix(File[v][p], client[c].left)
  BY DEF SyncInv, ClientOK, RowsInv, PartOK, Sending
<1>2. File[v][p] \in Seq(Item) /\ File[v]["sotr"] \in Seq(Item)
  BY <1>1, FilesAreItems DEF Parts
<1>3. /\ Skipped(c).part = IF p = "dep" THEN "sotr" ELSE "done"
      /\ Skipped(c).dump = v
      /\ p = "dep" => Skipped(c).left = File[v]["sotr"]
  BY <1>1 DEF Skipped
<1>4. Suffix(File[v]["sotr"], File[v]["sotr"])
  BY <1>2, SuffixForm
<1>5. client[c].left # <<>> => Suffix(File[v][p], Tail(client[c].left)) /\ Head(client[c].left) \in ToSet(File[v][p])
  BY <1>1, <1>2, SuffixForm
<1>6. Sent(c).part = p /\ Sent(c).dump = v /\ Sent(c).left = Tail(client[c].left)
  BY <1>1 DEF Sent
<1> QED
  BY <1>3, <1>4, <1>5, <1>6 DEF Parts

\* The client of c goes on.
LEMMA PartMoves ==
    ASSUME SyncInv, RowsInv, NEW c \in Clients, NEW k, client' = [client EXCEPT ![c] = k],
           k.part \in Parts \cup {"idle", "done"},
           k.part \in Parts => Suffix(File[k.dump][k.part], k.left)
    PROVE  \A d \in Clients : PartOK(d)'
<1>1. client'[c] = k /\ \A d \in Clients \ {c} : client'[d] = client[d]
  BY DEF SyncInv
<1>2. ASSUME NEW d \in Clients PROVE PartOK(d)'
  <2>1. CASE d = c
    BY <1>1, <2>1 DEF PartOK, Sending
  <2>2. CASE d # c
    BY <1>1, <2>2 DEF RowsInv, PartOK, Sending
  <2> QED
    BY <2>1, <2>2
<1> QED
  BY <1>2

LEMMA RowsStay ==
    ASSUME RowsInv, UNCHANGED <<store, ghosts>>, \A d \in Clients : PartOK(d)'
    PROVE  RowsInv'
<1>1. MapsOK' /\ GhostsOK'
  BY DEF RowsInv, MapsOK, GhostsOK, OfFile, store, ghosts
<1>2. \A c \in Clients : HandlerOK(c)'
  BY DEF RowsInv, HandlerOK, OfFile, DiffOK, Employees, store, ghosts
<1>3. \A t \in Tabs : HistoryOK(t)'
  BY DEF RowsInv, HistoryOK, store
<1> QED
  BY <1>1, <1>2, <1>3 DEF RowsInv

LEMMA RowsClientAlone ==
    ASSUME SyncInv, RowsInv, NEW c \in Clients,
           \/ \E v \in Dumps : Start(c, v)
           \/ OpenFails(c) \/ RowFails(c) \/ ReadFails(c) \/ FlushFails(c) \/ Expire(c)
    PROVE  RowsInv'
<1>0. UNCHANGED <<store, ghosts>>
  BY DEF Start, OpenFails, RowFails, ReadFails, FlushFails, Expire
<1>1. \A d \in Clients : PartOK(d)'
  <2>1. ASSUME NEW v \in Dumps, Start(c, v) PROVE \A d \in Clients : PartOK(d)'
    <3>1. client' = [client EXCEPT ![c] = Opened(v, "dep")]
      BY <2>1 DEF Start
    <3>2. /\ Opened(v, "dep").part = "dep" /\ Opened(v, "dep").dump = v
          /\ Opened(v, "dep").left = File[v]["dep"]
      BY DEF Opened
    <3>3. Suffix(File[v]["dep"], File[v]["dep"])
      BY FilesAreItems, SuffixForm DEF Parts
    <3> QED
      BY <3>1, <3>2, <3>3, PartMoves DEF Parts
  <2>2. CASE OpenFails(c) \/ FlushFails(c)
    <3>1. Sending(c) /\ client' = [client EXCEPT ![c] = Skipped(c)]
      BY <2>2 DEF OpenFails, FlushFails
    <3> QED
      BY <3>1, ClientStepForm, PartMoves DEF Parts
  <2>3. CASE RowFails(c)
    <3>1. Sending(c) /\ client[c].left # <<>> /\ client' = [client EXCEPT ![c] = Sent(c)]
      BY <2>3 DEF RowFails
    <3>2. Sent(c).part \in Parts
      BY <3>1, ClientStepForm DEF Sending
    <3> QED
      BY <3>1, <3>2, ClientStepForm, PartMoves
  <2>4. CASE ReadFails(c)
    <3> DEFINE k == [client[c] EXCEPT !.left = <<>>]
    <3>1. Sending(c) /\ client' = [client EXCEPT ![c] = k]
      BY <2>4 DEF ReadFails
    <3>2. /\ DOMAIN client[c] = {"part", "dump", "left"} /\ client[c].dump \in Dumps
          /\ client[c].part \in Parts
      BY <3>1 DEF SyncInv, ClientOK, Sending
    <3>3. k.part = client[c].part /\ k.dump = client[c].dump /\ k.left = <<>>
      BY <3>2
    <3> HIDE DEF k
    <3>4. Suffix(File[k.dump][k.part], k.left)
      BY <3>2, <3>3, FilesAreItems, SuffixForm
    <3> QED
      BY <3>1, <3>2, <3>3, <3>4, PartMoves
  <2>5. CASE Expire(c)
    <3> DEFINE k == [client[c] EXCEPT !.part = "done", !.left = <<>>]
    <3>1. client' = [client EXCEPT ![c] = k] /\ DOMAIN client[c] = {"part", "dump", "left"}
      BY <2>5 DEF Expire, SyncInv, ClientOK
    <3>2. k.part = "done"
      BY <3>1
    <3> HIDE DEF k
    <3> QED
      BY <3>1, <3>2, PartMoves DEF Parts
  <2> QED
    BY <2>1, <2>2, <2>3, <2>4, <2>5
<1> QED
  BY <1>0, <1>1, RowsStay

-----------------------------------------------------------------------------
\* A handler that does nothing, while the database keeps the employees whom it
\* has compared, and in whom it does not get late.
LEMMA HandlerKept ==
    ASSUME NEW d \in Clients, HandlerOK(d), call'[d] = call[d], late[d] \subseteq late'[d],
           call[d].at \in {"insert", "phones", "commit"} =>
               \A r \in call[d].rows : \/ r.tabnum \in late'[d]
                                       \/ /\ db'.sotr[r.tabnum] = db.sotr[r.tabnum]
                                          /\ db'.phones[r.tabnum] = db.phones[r.tabnum]
                                          /\ db'.mobiles[r.tabnum] = db.mobiles[r.tabnum]
    PROVE  HandlerOK(d)'
<1>1. ASSUME call[d].at \in {"insert", "phones", "commit"}, NEW r \in call[d].rows
      PROVE  r.tabnum \in late'[d] \/ DiffOK(r, call[d].diffs)'
  BY <1>1 DEF HandlerOK, DiffOK
<1>2. Employees(d)' = Employees(d)
  BY DEF Employees
<1>3. \A r : OfFile(r)' <=> OfFile(r)
  BY DEF OfFile
<1> QED
  BY <1>1, <1>2, <1>3 DEF HandlerOK

\* A handler outside the part of a transaction that has copied employees.
LEMMA HandlerQuiet ==
    ASSUME NEW d \in Clients, NEW k, call'[d] = k,
           k.at \in (InFlush \ {"insert", "phones", "commit"}) \cup {"none", "save"},
           k.at = "save" => k.item \in DepRows \cup SotrRows,
           k.deps \subseteq DepRows, k.rows = {}, DOMAIN k.diffs = {}
    PROVE  HandlerOK(d)'
  BY DEF HandlerOK, InFlush

LEMMA NoCallForm ==
    /\ DOMAIN NoCall = {"at", "item", "deps", "rows", "diffs", "seen"}
    /\ NoCall.at = "none" /\ NoCall.deps = {} /\ NoCall.rows = {} /\ DOMAIN NoCall.diffs = {}
  BY DEF NoCall

LEMMA QuietForm ==
    ASSUME SyncInv, RowsInv, NEW c \in Clients, call[c].at \notin Copying
    PROVE  call[c].rows = {} /\ DOMAIN call[c].diffs = {} /\ call[c].deps \subseteq DepRows
  BY CallForm DEF RowsInv, HandlerOK

\* The call of c gets a record without rows, the storage stays.
LEMMA RowsCallMoves ==
    ASSUME SyncInv, RowsInv, NEW c \in Clients, NEW k,
           UNCHANGED <<up, Depmap, Sotrmap, db, history, torn, uneven>>,
           \A d \in Clients \ {c} : late'[d] = late[d],
           \A d \in Clients : PartOK(d)',
           call' = [call EXCEPT ![c] = k],
           k.at \in (InFlush \ {"insert", "phones", "commit"}) \cup {"none", "save"},
           k.at = "save" => k.item \in DepRows \cup SotrRows,
           k.deps \subseteq DepRows, k.rows = {}, DOMAIN k.diffs = {}
    PROVE  RowsInv'
<1>1. call'[c] = k /\ \A d \in Clients \ {c} : call'[d] = call[d]
  BY DEF SyncInv
<1>2. MapsOK' /\ GhostsOK'
  BY DEF RowsInv, MapsOK, GhostsOK, OfFile
<1>3. ASSUME NEW d \in Clients PROVE HandlerOK(d)'
  <2>1. CASE d = c
    BY <1>1, <2>1, HandlerQuiet
  <2>2. CASE d # c
    BY <1>1, <2>2, HandlerKept DEF RowsInv
  <2> QED
    BY <2>1, <2>2
<1>4. \A t \in Tabs : HistoryOK(t)'
  BY DEF RowsInv, HistoryOK
<1> QED
  BY <1>2, <1>3, <1>4 DEF RowsInv

LEMMA ItemsSent ==
    ASSUME NEW v \in Dumps, NEW p \in Parts, NEW i \in ToSet(File[v][p]), ~Refused(i)
    PROVE  i \in DepRows \cup SotrRows
<1>1. CASE p = "dep"
  BY <1>1 DEF DepRows
<1>2. CASE p = "sotr"
  BY <1>2 DEF SotrRows, Accepted
<1> QED
  BY <1>1, <1>2 DEF Parts

LEMMA RowsSendStep ==
    ASSUME SyncInv, RowsInv, NEW c \in Clients, SendRow(c) \/ SendFlush(c)
    PROVE  RowsInv'
<1>1. /\ Sending(c) /\ Free(c)
      /\ UNCHANGED <<up, Depmap, Sotrmap, db, history, torn, uneven, late>>
  BY DEF SendRow, SendFlush, Add, ghosts
<1>2. /\ DOMAIN call[c] = {"at", "item", "deps", "rows", "diffs", "seen"}
      /\ call[c].rows = {} /\ DOMAIN call[c].diffs = {} /\ call[c].deps \subseteq DepRows
  BY <1>1, QuietForm, CallForm DEF Free, Copying
<1>3. CASE SendRow(c)
  <2> DEFINE i == Head(client[c].left)
             k == [call[c] EXCEPT !.at = "save", !.item = i]
  <2>1. /\ call' = [call EXCEPT ![c] = k] /\ client' = [client EXCEPT ![c] = Sent(c)]
        /\ client[c].left # <<>> /\ ~Refused(i)
    BY <1>3 DEF SendRow
  <2>2. /\ i \in ToSet(File[client[c].dump][client[c].part])
        /\ client[c].dump \in Dumps /\ client[c].part \in Parts
    BY <1>1, <2>1, ClientStepForm DEF SyncInv, ClientOK, Sending
  <2> HIDE DEF i
  <2>3. i \in DepRows \cup SotrRows
    BY <2>1, <2>2, ItemsSent
  <2>4. Sent(c).part \in Parts
    BY <1>1, <2>1, ClientStepForm DEF Sending
  <2>5. \A d \in Clients : PartOK(d)'
    BY <1>1, <2>1, <2>4, ClientStepForm, PartMoves
  <2>6. /\ k.at = "save" /\ k.item = i /\ k.deps \subseteq DepRows /\ k.rows = {}
        /\ DOMAIN k.diffs = {}
    BY <1>2
  <2> HIDE DEF k
  <2> QED
    BY <1>1, <2>1, <2>3, <2>5, <2>6, RowsCallMoves DEF InFlush
<1>4. CASE SendFlush(c)
  <2> DEFINE k == [call[c] EXCEPT !.at = "load"]
  <2>1. /\ call' = [call EXCEPT ![c] = k] /\ client' = [client EXCEPT ![c] = Skipped(c)]
    BY <1>4 DEF SendFlush, Add
  <2>2. \A d \in Clients : PartOK(d)'
    BY <1>1, <2>1, ClientStepForm, PartMoves DEF Parts
  <2>3. k.at = "load" /\ k.deps \subseteq DepRows /\ k.rows = {} /\ DOMAIN k.diffs = {}
    BY <1>2
  <2> HIDE DEF k
  <2> QED
    BY <1>1, <2>1, <2>2, <2>3, RowsCallMoves DEF InFlush
<1> QED
  BY <1>3, <1>4

LEMMA PartsStay ==
    ASSUME RowsInv, UNCHANGED client
    PROVE  \A d \in Clients : PartOK(d)'
  BY DEF RowsInv, PartOK, Sending

\* What a row of the interface is, and with the number it gets.
LEMMA RowForm ==
    /\ \A i \in DepRows : IsDep(i) /\ i.idr \in Idrs
    /\ \A i \in SotrRows : ~IsDep(i) /\ i \in SotrRow
<1>1. \A i \in DepRow : IsDep(i) /\ i.idr \in Idrs
  BY DEF DepRow, IsDep
<1>2. \A i \in SotrRow : ~IsDep(i)
  BY DEF SotrRow, IsDep
<1>3. ASSUME NEW S, NEW s \in Seq(S) PROVE ToSet(s) \subseteq S
  BY <1>3, ElementOfSeq, LenProperties DEF ToSet
<1>4. \A v \in Dumps : File[v]["dep"] \in Seq(DepRow) /\ File[v]["sotr"] \in Seq(SotrRow)
  BY SyncAssumption
<1>5. DepRows \subseteq DepRow /\ SotrRows \subseteq SotrRow
  BY <1>3, <1>4 DEF DepRows, SotrRows, Accepted
<1> QED
  BY <1>1, <1>2, <1>5

LEMMA StampedForm ==
    ASSUME NEW s \in SotrRow, NEW m
    PROVE  /\ Stamped(s, m).n = m /\ Stamped(s, m).tabnum = s.tabnum
           /\ Stamped(s, m).phone = s.phone /\ Stamped(s, m).mobile = s.mobile
           /\ \A f \in Columns : Stamped(s, m)[f] = s[f]
  BY DEF SotrRow, Stamped, Columns

LEMMA RowsSaveStep ==
    ASSUME SyncInv, RowsInv, NEW c \in Clients, Save(c),
           UNCHANGED <<client, ghosts>>
    PROVE  RowsInv'
<1> DEFINE i == call[c].item
<1>1. /\ call' = [call EXCEPT ![c] = NoCall] /\ UNCHANGED <<up, db, history>>
      /\ call[c].at = "save" /\ UNCHANGED <<torn, uneven, late>>
  BY DEF Save, ghosts
<1>2. i \in DepRows \cup SotrRows
  BY <1>1 DEF RowsInv, HandlerOK
<1>3. MapsOK'
  <2>0. MapsOK
    BY DEF RowsInv
  <2>1. CASE UNCHANGED <<Depmap, Sotrmap>>
    BY <1>1, <2>0, <2>1 DEF MapsOK, OfFile
  <2>2. CASE Put(c) /\ IsDep(i)
    <3>1. Depmap' = [Depmap EXCEPT ![i.idr] = i] /\ UNCHANGED Sotrmap
      BY <2>2 DEF Put
    <3>2. i \in DepRows
      BY <1>2, <2>2, RowForm
    <3> HIDE DEF i
    <3> QED
      BY <1>1, <2>0, <3>1, <3>2 DEF MapsOK, OfFile
  <2>3. CASE Put(c) /\ ~IsDep(i)
    <3> DEFINE new == Stamped(i, stamp + 1)
    <3>1. Sotrmap' = [Sotrmap EXCEPT ![i.tabnum] = new] /\ UNCHANGED Depmap
      BY <2>3 DEF Put
    <3>2. i \in SotrRows /\ i \in SotrRow
      BY <1>2, <2>3, RowForm
    <3> HIDE DEF i
    <3>3. OfFile(new)
      BY <3>2, StampedForm DEF OfFile
    <3> HIDE DEF new
    <3>4. ASSUME NEW t \in Tabs, Sotrmap'[t] # Absent PROVE OfFile(Sotrmap'[t])
      <4>1. Sotrmap'[t] = new \/ Sotrmap'[t] = Sotrmap[t]
        BY <3>1 DEF SyncInv
      <4> QED
        BY <2>0, <3>3, <3>4, <4>1 DEF MapsOK
    <3> QED
      BY <1>1, <2>0, <3>1, <3>4 DEF MapsOK, OfFile
  <2> QED
    BY <2>1, <2>2, <2>3 DEF Save
<1>4. ASSUME NEW d \in Clients PROVE HandlerOK(d)'
  <2>1. call'[c] = NoCall /\ \A e \in Clients \ {c} : call'[e] = call[e]
    BY <1>1 DEF SyncInv
  <2>2. CASE d = c
    <3> DEFINE k == NoCall
    <3>1. k.at = "none" /\ k.deps = {} /\ k.rows = {} /\ DOMAIN k.diffs = {} /\ call'[d] = k
      BY <2>1, <2>2, NoCallForm
    <3> HIDE DEF k
    <3> QED
      BY <3>1, HandlerQuiet
  <2>3. CASE d # c
    BY <1>1, <2>1, <2>3, HandlerKept DEF RowsInv
  <2> QED
    BY <2>2, <2>3
<1>5. \A t \in Tabs : HistoryOK(t)'
  BY <1>1 DEF RowsInv, HistoryOK
<1> QED
  BY <1>1, <1>3, <1>4, <1>5, PartsStay DEF RowsInv, GhostsOK

LEMMA RowsFlushStep ==
    ASSUME SyncInv, RowsInv, NEW c \in Clients, UNCHANGED client,
           \/ (Load(c) \/ CollectDeps(c) \/ UpsertDeps(c) \/ Reset(c)) /\ UNCHANGED ghosts
           \/ Rollback(c) /\ Forget({c})
    PROVE  RowsInv'
<1>1. /\ UNCHANGED <<up, Depmap, Sotrmap, db, history, torn, uneven>>
      /\ \A d \in Clients \ {c} : late'[d] = late[d]
  BY DEF Load, CollectDeps, UpsertDeps, Rollback, Reset, Forget, ghosts
<1>2. DOMAIN call[c] = {"at", "item", "deps", "rows", "diffs", "seen"}
  BY CallForm
<1>3. PICK k : /\ call' = [call EXCEPT ![c] = k]
               /\ k.at \in {"begin", "deps", "sotrs", "reset", "none"}
               /\ k.deps \subseteq DepRows /\ k.rows = {} /\ DOMAIN k.diffs = {}
  <2>1. CASE Load(c) /\ Due
    <3> DEFINE k == [call[c] EXCEPT !.at = "begin"]
    <3>1. call' = [call EXCEPT ![c] = k] /\ call[c].at = "load"
      BY <2>1 DEF Load
    <3>2. call[c].rows = {} /\ DOMAIN call[c].diffs = {} /\ call[c].deps \subseteq DepRows
      BY <3>1, QuietForm DEF Copying
    <3>3. k.at = "begin" /\ k.deps = call[c].deps /\ k.rows = {} /\ DOMAIN k.diffs = {}
      BY <1>2, <3>2
    <3> HIDE DEF k
    <3> QED
      BY <3>1, <3>2, <3>3
  <2>2. CASE CollectDeps(c)
    <3> DEFINE ds == {Depmap[i] : i \in Idrs} \ {Absent}
               k == [call[c] EXCEPT !.at = "deps", !.deps = ds]
    <3>1. call' = [call EXCEPT ![c] = k] /\ call[c].at = "begin"
      BY <2>2 DEF CollectDeps
    <3>2. ds \subseteq DepRows
      BY DEF RowsInv, MapsOK
    <3> HIDE DEF ds
    <3>3. call[c].rows = {} /\ DOMAIN call[c].diffs = {}
      BY <3>1, QuietForm DEF Copying
    <3>4. k.at = "deps" /\ k.deps = ds /\ k.rows = {} /\ DOMAIN k.diffs = {}
      BY <1>2, <3>3
    <3> HIDE DEF k
    <3> QED
      BY <3>1, <3>2, <3>4
  <2>3. CASE (Load(c) /\ ~Due) \/ Reset(c)
    <3>1. call' = [call EXCEPT ![c] = NoCall]
      BY <2>3 DEF Load, Reset
    <3> QED
      BY <3>1, NoCallForm
  <2>4. CASE UpsertDeps(c)
    <3> DEFINE k == [call[c] EXCEPT !.at = "sotrs"]
    <3>1. call' = [call EXCEPT ![c] = k] /\ call[c].at = "deps"
      BY <2>4 DEF UpsertDeps
    <3>2. call[c].rows = {} /\ DOMAIN call[c].diffs = {} /\ call[c].deps \subseteq DepRows
      BY <3>1, QuietForm DEF Copying
    <3>3. k.at = "sotrs" /\ k.deps = call[c].deps /\ k.rows = {} /\ DOMAIN k.diffs = {}
      BY <1>2, <3>2
    <3> HIDE DEF k
    <3> QED
      BY <3>1, <3>2, <3>3
  <2>5. CASE Rollback(c)
    <3> DEFINE k == [NoCall EXCEPT !.at = RolledBack]
    <3>1. call' = [call EXCEPT ![c] = k]
      BY <2>5 DEF Rollback
    <3>2. k.at = "reset" /\ k.deps = {} /\ k.rows = {} /\ DOMAIN k.diffs = {}
      BY NoCallForm DEF RolledBack
    <3> HIDE DEF k
    <3> QED
      BY <3>1, <3>2
  <2> QED
    BY <2>1, <2>2, <2>3, <2>4, <2>5
<1>4. \A d \in Clients : PartOK(d)'
  BY PartsStay
<1>5. k.at \in (InFlush \ {"insert", "phones", "commit"}) \cup {"none", "save"} /\ k.at # "save"
  BY <1>3 DEF InFlush
<1> QED
  BY <1>1, <1>3, <1>4, <1>5, RowsCallMoves

\* A step that changes the call of c alone.
LEMMA RowsHandlerMoves ==
    ASSUME SyncInv, RowsInv, NEW c \in Clients, NEW k, call' = [call EXCEPT ![c] = k],
           UNCHANGED <<client, up, Depmap, Sotrmap, db, history, ghosts>>, HandlerOK(c)'
    PROVE  RowsInv'
<1>1. \A d \in Clients \ {c} : call'[d] = call[d]
  BY DEF SyncInv
<1>2. UNCHANGED <<torn, uneven, late>>
  BY DEF ghosts
<1>3. ASSUME NEW d \in Clients, d # c PROVE HandlerOK(d)'
  BY <1>1, <1>2, <1>3, HandlerKept DEF RowsInv
<1>4. MapsOK' /\ GhostsOK'
  BY <1>2 DEF RowsInv, MapsOK, GhostsOK, OfFile
<1>5. \A t \in Tabs : HistoryOK(t)'
  BY DEF RowsInv, HistoryOK
<1> QED
  BY <1>3, <1>4, <1>5, PartsStay DEF RowsInv

LEMMA RowsCopyStep ==
    ASSUME SyncInv, RowsInv, NEW c \in Clients, CopySotrs(c), UNCHANGED <<client, ghosts>>
    PROVE  RowsInv'
<1>1. UNCHANGED <<up, Depmap, Sotrmap, db, history>> /\ call[c].at = "sotrs"
  BY DEF CopySotrs
<1>2. \A t \in Wanted(c) : OfFile(Sotrmap[t])
  BY DEF Wanted, RowsInv, MapsOK
<1> DEFINE rs == {Sotrmap[t] : t \in Wanted(c)}
           k == [call[c] EXCEPT !.at = "read", !.rows = rs]
<1>3. call' = [call EXCEPT ![c] = k] /\ \A r \in rs : OfFile(r)
  BY <1>2 DEF CopySotrs
<1> HIDE DEF rs
<1>4. DOMAIN call[c].diffs = {} /\ call[c].deps \subseteq DepRows
  BY <1>1, QuietForm DEF Copying
<1>5. k.at = "read" /\ k.deps = call[c].deps /\ k.rows = rs /\ k.diffs = call[c].diffs
  BY CallForm
<1> HIDE DEF k
<1>6. call'[c] = k
  BY <1>3 DEF SyncInv
<1>7. \A r \in rs : OfFile(r)'
  BY <1>3 DEF OfFile
<1>8. HandlerOK(c)'
  BY <1>4, <1>5, <1>6, <1>7 DEF HandlerOK, InFlush
<1> QED
  BY <1>1, <1>3, <1>8, RowsHandlerMoves

LEMMA DiffRendered ==
    ASSUME NEW new, NEW old, NEW ph, NEW mob
    PROVE  RenderedOnly(Diff(new, old, ph, mob))
<1> DEFINE d == Diff(new, old, ph, mob)
<1>1. "mobile" \in DOMAIN d => d.mobile = AllRendered(mob)
  BY DEF Diff, Columns
<1>2. \A m \in ToSet(AllRendered(mob)) : Rendered(m) = m
  BY DEF ToSet, AllRendered, Rendered
<1> QED
  BY <1>1, <1>2 DEF RenderedOnly

LEMMA RowsBeforeSave ==
    ASSUME SyncInv, RowsInv, NEW c \in Clients, BeforeSave(c), UNCHANGED <<client, ghosts>>
    PROVE  RowsInv'
<1>1. PICK ph \in [Old(c) -> UNION {Readings(db.phones[t]) : t \in Tabs}],
           mob \in [Old(c) -> UNION {Readings(db.mobiles[t]) : t \in Tabs}] :
          /\ \A t \in Old(c) : ph[t] \in Readings(db.phones[t]) /\ mob[t] \in Readings(db.mobiles[t])
          /\ call' = [call EXCEPT
                ![c].at = "insert",
                ![c].diffs = [t \in Old(c) |-> Diff(RowOf(c, t), db.sotr[t], ph[t], mob[t])]]
  BY DEF BeforeSave
<1>2. UNCHANGED <<up, Depmap, Sotrmap, db, history, late>> /\ call[c].at = "read"
  BY DEF BeforeSave, ghosts
<1>0. PICK ds : ds = [t \in Old(c) |-> Diff(RowOf(c, t), db.sotr[t], ph[t], mob[t])]
  OBVIOUS
<1> DEFINE k == [call[c] EXCEPT !.at = "insert", !.diffs = ds]
<1>3. call' = [call EXCEPT ![c] = k]
  BY <1>0, <1>1
<1>4. DOMAIN ds = Old(c) /\ \A t \in Old(c) : RenderedOnly(ds[t])
  BY <1>0, DiffRendered
<1>5. ASSUME NEW r \in call[c].rows PROVE DiffOK(r, ds)
  <2> DEFINE t == r.tabnum
  <2>1. t \in Employees(c)
    BY DEF Employees
  <2>2. r = RowOf(c, t)
    BY <2>1, RowIs
  <2>3. CASE db.sotr[t] = Absent
    BY <2>3, <1>4 DEF Old, DiffOK
  <2>4. CASE db.sotr[t] # Absent
    <3>1. t \in Old(c)
      BY <2>1, <2>4 DEF Old
    <3>2. ds[t] = Diff(r, db.sotr[t], ph[t], mob[t])
      BY <1>0, <2>2, <3>1
    <3> QED
      BY <1>1, <1>4, <2>4, <3>1, <3>2 DEF DiffOK
  <2> QED
    BY <2>3, <2>4
<1>6. Old(c) \subseteq Employees(c)
  BY DEF Old
<1>7. k.at = "insert" /\ k.deps = call[c].deps /\ k.rows = call[c].rows /\ k.diffs = ds
  BY CallForm
<1> HIDE DEF k
<1>8. call'[c] = k /\ Employees(c)' = Employees(c)
  BY <1>3, <1>7 DEF SyncInv, Employees
<1>9. call[c].deps \subseteq DepRows /\ \A r \in call[c].rows : OfFile(r)'
  BY DEF RowsInv, HandlerOK, OfFile
<1>10. \A r \in call[c].rows : DiffOK(r, ds)'
  BY <1>2, <1>5 DEF DiffOK
<1>11. HandlerOK(c)'
  BY <1>4, <1>6, <1>7, <1>8, <1>9, <1>10 DEF HandlerOK, InFlush
<1> QED
  BY <1>2, <1>3, <1>11, RowsHandlerMoves

LEMMA RowsKeepStep ==
    ASSUME SyncInv, RowsInv, NEW c \in Clients, UpsertSotrs(c) \/ PreparePhones(c),
           UNCHANGED <<client, ghosts>>
    PROVE  RowsInv'
<1>1. UNCHANGED <<up, Depmap, Sotrmap, db, history, late>> /\ call[c].at \in {"insert", "phones"}
  BY DEF UpsertSotrs, PreparePhones, ghosts
<1>2. PICK k : /\ call' = [call EXCEPT ![c] = k] /\ k.at \in {"phones", "commit"}
               /\ k.deps = call[c].deps /\ k.rows = call[c].rows /\ k.diffs = call[c].diffs
               /\ k.at = "commit" => k.seen = [t \in Employees(c) |-> Sotrmap[t]]
  <2>1. CASE UpsertSotrs(c)
    <3> DEFINE k == [call[c] EXCEPT !.at = "phones"]
    <3>1. call' = [call EXCEPT ![c] = k]
      BY <2>1 DEF UpsertSotrs
    <3>2. /\ k.at = "phones" /\ k.deps = call[c].deps /\ k.rows = call[c].rows
          /\ k.diffs = call[c].diffs
      BY CallForm
    <3> HIDE DEF k
    <3> QED
      BY <3>1, <3>2
  <2>2. CASE PreparePhones(c)
    <3> DEFINE s == [t \in Employees(c) |-> Sotrmap[t]]
               k == [call[c] EXCEPT !.at = "commit", !.seen = s]
    <3>1. call' = [call EXCEPT ![c] = k]
      BY <2>2 DEF PreparePhones
    <3> HIDE DEF s
    <3>2. /\ k.at = "commit" /\ k.deps = call[c].deps /\ k.rows = call[c].rows
          /\ k.diffs = call[c].diffs /\ k.seen = s
      BY CallForm
    <3> HIDE DEF k
    <3> QED
      BY <3>1, <3>2 DEF s
  <2> QED
    BY <2>1, <2>2
<1>3. call'[c] = k /\ Employees(c)' = Employees(c)
  BY <1>2 DEF SyncInv, Employees
<1>4. HandlerOK(c)
  BY DEF RowsInv
<1>5. \A r \in call[c].rows : /\ OfFile(r)'
                              /\ r.tabnum \in late[c] \/ DiffOK(r, k.diffs)'
  BY <1>1, <1>2, <1>4 DEF HandlerOK, OfFile, DiffOK
<1>6. ASSUME NEW t \in Employees(c) PROVE Sotrmap[t].tabnum = t /\ OfFile(Sotrmap[t])
  <2>1. t \in Tabs /\ Sotrmap[t] # Absent
    BY RowIs DEF SyncInv, CallOK, Copied
  <2> QED
    BY <2>1 DEF SyncInv, MapOK, RowsInv, MapsOK
<1>7. HandlerOK(c)'
  <2>1. ASSUME k.at = "commit", NEW t \in Employees(c)
        PROVE  t \in DOMAIN k.seen /\ k.seen[t].tabnum = t /\ OfFile(k.seen[t])'
    <3>1. k.seen = [u \in Employees(c) |-> Sotrmap[u]]
      BY <1>2, <2>1
    <3>2. t \in DOMAIN k.seen /\ k.seen[t] = Sotrmap[t]
      BY <3>1
    <3> QED
      BY <1>6, <3>2 DEF OfFile
  <2> QED
    BY <1>1, <1>2, <1>3, <1>4, <1>5, <2>1 DEF HandlerOK, InFlush
<1> QED
  BY <1>1, <1>2, <1>7, RowsHandlerMoves

-----------------------------------------------------------------------------
(* The commit. *)

\* What a commit writes of an employee it has copied, and of another one.
LEMMA CommitData ==
    ASSUME SyncInv, RowsInv, NEW c \in Clients, Commit(c), NEW t \in Tabs
    PROVE  /\ DOMAIN history' = Tabs
           /\ history'[t] = IF DOMAIN DiffOf(c, t) = {} THEN history[t]
                            ELSE Append(history[t], DiffOf(c, t))
           /\ t \notin Employees(c) =>
                 /\ db'.sotr[t] = db.sotr[t] /\ db'.phones[t] = db.phones[t]
                 /\ db'.mobiles[t] = db.mobiles[t] /\ history'[t] = history[t]
           /\ t \in Employees(c) =>
                 /\ db'.sotr[t] = Stored(RowOf(c, t), call[c].deps)
                 /\ db'.phones[t] = Upserted(db.phones[t], DiffOf(c, t), "phone", call[c].seen[t].phone)
                 /\ db'.mobiles[t] = Upserted(db.mobiles[t], DiffOf(c, t), "mobile", call[c].seen[t].mobile)
<1>1. /\ db'.sotr = [u \in Tabs |-> IF u \in Employees(c) THEN Stored(RowOf(c, u), call[c].deps)
                                    ELSE db.sotr[u]]
      /\ db'.phones = [u \in Tabs |->
             IF u \in Employees(c)
             THEN Upserted(db.phones[u], DiffOf(c, u), "phone", call[c].seen[u].phone)
             ELSE db.phones[u]]
      /\ db'.mobiles = [u \in Tabs |->
             IF u \in Employees(c)
             THEN Upserted(db.mobiles[u], DiffOf(c, u), "mobile", call[c].seen[u].mobile)
             ELSE db.mobiles[u]]
      /\ history' = [u \in Tabs |-> IF DOMAIN DiffOf(c, u) = {} THEN history[u]
                                    ELSE Append(history[u], DiffOf(c, u))]
  BY DEF Commit
<1>2. t \notin Employees(c) => DOMAIN DiffOf(c, t) = {}
  BY DEF RowsInv, HandlerOK, DiffOf
<1> QED
  BY <1>1, <1>2

LEMMA CommitDiff ==
    ASSUME RowsInv, NEW c \in Clients, NEW t, DOMAIN DiffOf(c, t) # {}
    PROVE  RenderedOnly(DiffOf(c, t))
  BY DEF DiffOf, RowsInv, HandlerOK

LEMMA RowsCommitStep ==
    ASSUME SyncInv, RowsInv, NEW c \in Clients, Commit(c), Remember(c), UNCHANGED client
    PROVE  RowsInv'
<1>1. /\ UNCHANGED <<up, Depmap, Sotrmap, stamp>>
      /\ call' = [call EXCEPT ![c] = [NoCall EXCEPT !.at = "reset"]]
  BY DEF Commit
<1> DEFINE k == [NoCall EXCEPT !.at = "reset"]
<1>2. /\ k.at = "reset" /\ k.deps = {} /\ k.rows = {} /\ DOMAIN k.diffs = {}
      /\ call'[c] = k /\ \A d \in Clients \ {c} : call'[d] = call[d]
  BY <1>1, NoCallForm DEF SyncInv
<1> HIDE DEF k
<1>3. ASSUME NEW d \in Clients PROVE HandlerOK(d)'
  <2>1. CASE d = c
    BY <1>2, <2>1, HandlerQuiet DEF InFlush
  <2>2. CASE d # c
    <3>1. ASSUME call[d].at \in {"insert", "phones", "commit"}, NEW r \in call[d].rows
          PROVE  \/ r.tabnum \in late'[d]
                 \/ /\ db'.sotr[r.tabnum] = db.sotr[r.tabnum]
                    /\ db'.phones[r.tabnum] = db.phones[r.tabnum]
                    /\ db'.mobiles[r.tabnum] = db.mobiles[r.tabnum]
      <4>1. r.tabnum \in Tabs /\ r.tabnum \in Employees(d)
        BY DEF SyncInv, CallOK, Copied, Employees
      <4>2. CASE r.tabnum \in Employees(c)
        BY <2>2, <3>1, <4>1, <4>2, CommitBeside
      <4>3. CASE r.tabnum \notin Employees(c)
        BY <4>1, <4>3, CommitData
      <4> QED
        BY <4>2, <4>3
    <3>2. late[d] \subseteq late'[d]
      BY <2>2 DEF Remember
    <3> QED
      BY <1>2, <2>2, <3>1, <3>2, HandlerKept DEF RowsInv
  <2> QED
    BY <2>1, <2>2
<1>4. MapsOK'
  BY <1>1 DEF RowsInv, MapsOK, OfFile
<1>5. GhostsOK'
  <2>1. Employees(c) \subseteq Tabs /\ late[c] \subseteq Employees(c)
    BY DEF SyncInv, CallOK, Copied, Employees
  <2>2. PICK again \in SUBSET Employees(c) : /\ torn' = (torn \ Employees(c)) \cup again
                                             /\ uneven' = uneven \cup again
    BY <2>1 DEF Remember
  <2> QED
    BY <2>1, <2>2 DEF RowsInv, GhostsOK
<1>6. ASSUME NEW t \in Tabs PROVE HistoryOK(t)'
  <2> DEFINE h == history[t]
             d == DiffOf(c, t)
  <2>1. HistoryOK(t) /\ history'[t] = IF DOMAIN d = {} THEN h ELSE Append(h, d)
    BY CommitData DEF RowsInv
  <2>2. CASE DOMAIN d = {}
    BY <2>1, <2>2 DEF HistoryOK
  <2>3. CASE DOMAIN d # {}
    <3>1. RenderedOnly(d)
      BY <2>3, CommitDiff
    <3> HIDE DEF d
    <3>2. PICK S : h \in Seq(S)
      BY <2>1 DEF HistoryOK
    <3>3. h \in Seq(S \cup {d}) /\ d \in S \cup {d}
      BY <3>2, SeqMonotonic
    <3>4. /\ Append(h, d) \in Seq(S \cup {d}) /\ Len(Append(h, d)) = Len(h) + 1
          /\ \A i \in 1..Len(h) : Append(h, d)[i] = h[i]
          /\ Append(h, d)[Len(h) + 1] = d
      BY <3>3, AppendProperties
    <3>5. ASSUME NEW i \in DOMAIN Append(h, d) PROVE RenderedOnly(Append(h, d)[i])
      <4>1. Len(h) \in Nat /\ i \in 1..(Len(h) + 1) /\ DOMAIN h = 1..Len(h)
        BY <3>3, <3>4, LenProperties
      <4>2. CASE i \in 1..Len(h)
        BY <2>1, <3>4, <4>1, <4>2 DEF HistoryOK
      <4>3. CASE i = Len(h) + 1
        BY <3>1, <3>4, <4>3
      <4> QED
        BY <4>1, <4>2, <4>3
    <3> QED
      BY <2>1, <2>3, <3>4, <3>5 DEF HistoryOK
  <2> QED
    BY <2>2, <2>3
<1> QED
  BY <1>3, <1>4, <1>5, <1>6, PartsStay DEF RowsInv

LEMMA RowsDiesStep ==
    ASSUME SyncInv, RowsInv, Dies, UNCHANGED client, Forget(Clients)
    PROVE  RowsInv'
<1>1. /\ up' = FALSE /\ Sotrmap' = [t \in Tabs |-> Absent] /\ Depmap' = [i \in Idrs |-> Absent]
      /\ call' = [c \in Clients |-> NoCall] /\ UNCHANGED <<db, history, torn, uneven>>
  BY DEF Dies, Forget
<1>2. MapsOK'
  BY <1>1 DEF MapsOK
<1>3. ASSUME NEW d \in Clients PROVE HandlerOK(d)'
  <2> DEFINE k == NoCall
  <2>1. call'[d] = k /\ k.at = "none" /\ k.deps = {} /\ k.rows = {} /\ DOMAIN k.diffs = {}
    BY <1>1, NoCallForm
  <2> HIDE DEF k
  <2> QED
    BY <2>1, HandlerQuiet
<1>4. \A t \in Tabs : HistoryOK(t)'
  BY <1>1 DEF RowsInv, HistoryOK
<1> QED
  BY <1>1, <1>2, <1>3, <1>4, PartsStay DEF RowsInv, GhostsOK

LEMMA RowsStep ==
    ASSUME SyncInv, RowsInv, [Next]_vars
    PROVE  RowsInv'
<1>1. ASSUME NEW c \in Clients, (\E v \in Dumps : Start(c, v)) \/ ClientStep(c) PROVE RowsInv'
  BY <1>1, RowsClientAlone, RowsSendStep DEF ClientStep
<1>2. ASSUME NEW c \in Clients, HandlerStep(c) PROVE RowsInv'
  BY <1>2, HandlerSteps, RowsSaveStep, RowsFlushStep, RowsCopyStep, RowsBeforeSave, RowsKeepStep,
     RowsCommitStep, RowsDiesStep DEF Panic
<1>3. CASE ServerStep
  <2>1. CASE Crash /\ Forget(Clients)
    BY <1>3, <2>1, RowsDiesStep DEF ServerStep, Crash
  <2>2. CASE Restart /\ UNCHANGED ghosts
    <3>1. up' = TRUE /\ UNCHANGED <<Depmap, Sotrmap, call, db, history, client, torn, uneven, late>>
      BY <1>3, <2>2 DEF ServerStep, Restart, ghosts
    <3>2. MapsOK'
      BY <3>1 DEF RowsInv, MapsOK, OfFile
    <3>3. \A d \in Clients : HandlerOK(d)'
      BY <3>1, HandlerKept DEF RowsInv
    <3>4. \A t \in Tabs : HistoryOK(t)'
      BY <3>1 DEF RowsInv, HistoryOK
    <3> QED
      BY <3>1, <3>2, <3>3, <3>4, PartsStay DEF RowsInv, GhostsOK
  <2> QED
    BY <1>3, <2>1, <2>2 DEF ServerStep
<1>4. CASE AllDone \/ UNCHANGED vars
  BY <1>4, RowsStay, PartsStay DEF AllDone, vars, ghosts
<1> QED
  BY <1>1, <1>2, <1>3, <1>4 DEF Next

LEMMA RowsInvariant == Spec => [](SyncInv /\ RowsInv)
<1>1. SyncInv /\ RowsInv /\ [Next]_vars => (SyncInv /\ RowsInv)'
  BY SyncStep, RowsStep
<1> QED
  BY <1>1, InitSync, InitRows, PTL DEF Spec

\* Types: what a handler has collected comes from the dumps, it is late for
\* employees of its own only, and the history holds mobiles as they are
\* rendered.
THEOREM SyncTyped == Spec => []TypeOK
<1>1. SyncInv /\ RowsInv => TypeOK
  BY DEF SyncInv, CallOK, RowsInv, MapsOK, GhostsOK, PartOK, HandlerOK, HistoryOK, RenderedOnly, TypeOK
<1> QED
  BY <1>1, RowsInvariant, PTL

-----------------------------------------------------------------------------
(* Phones, mobiles and the history. *)

LEMMA ToSetFinite ==
    ASSUME NEW S, NEW s \in Seq(S)
    PROVE  IsFiniteSet(ToSet(s))
<1>1. DOMAIN s = 1..Len(s) /\ Len(s) \in Nat /\ IsFiniteSet(1..Len(s))
  BY LenProperties, FS_Interval
<1>2. s \in Surjection(1..Len(s), ToSet(s))
  BY <1>1 DEF ToSet, Surjection
<1> QED
  BY <1>1, <1>2, FS_Surjection

LEMMA ReadingForm ==
    ASSUME NEW stored, IsFiniteSet(stored), NEW list \in Readings(stored)
    PROVE  /\ list \in Seq(stored) /\ ToSet(list) = stored
           /\ Len(list) \in Nat /\ DOMAIN list = 1..Len(list)
<1>1. Cardinality(stored) \in Nat
  BY FS_CardinalityType
<1>2. list \in Seq(stored)
  BY <1>1 DEF Readings
<1> QED
  BY <1>2, LenProperties DEF Readings

LEMMA DiffForm ==
    ASSUME NEW new, NEW old, NEW ph, NEW mob, NEW diff, diff = Diff(new, old, ph, mob)
    PROVE  /\ "phone" \in DOMAIN diff <=> new.phone # ph
           /\ "phone" \in DOMAIN diff => diff.phone = ph
           /\ "mobile" \in DOMAIN diff <=> AllRendered(new.mobile) # AllRendered(mob)
           /\ "mobile" \in DOMAIN diff => diff.mobile = AllRendered(mob)
           /\ \A f \in Columns : /\ f \in DOMAIN diff <=> new[f] # old[f]
                                 /\ f \in DOMAIN diff => diff[f] = old[f]
  BY DEF Diff, Columns

\* The rendered mobiles of a list are the renderings of its set.
LEMMA AllRenderedForm ==
    ASSUME NEW S, NEW s \in Seq(S)
    PROVE  ToSet(AllRendered(s)) = {Rendered(n) : n \in ToSet(s)}
<1>1. DOMAIN s = 1..Len(s)
  BY LenProperties
<1>2. DOMAIN AllRendered(s) = DOMAIN s /\ \A i \in DOMAIN s : AllRendered(s)[i] = Rendered(s[i])
  BY <1>1 DEF AllRendered
<1> QED
  BY <1>2 DEF ToSet

\* After a change the employee has the phones of the new row and no other,
LEMMA PhonesReplaced ==
    ASSUME NEW new, NEW old, NEW ph, NEW mob, NEW diff, diff = Diff(new, old, ph, mob)
    PROVE  Upserted(ToSet(ph), diff, "phone", new.phone) = ToSet(new.phone)
<1>1. CASE new.phone = ph
  <2>1. "phone" \notin DOMAIN diff
    BY <1>1, DiffForm
  <2> QED
    BY <1>1, <2>1 DEF Upserted, Remaining, Deleted
<1>2. CASE new.phone # ph
  <2>1. "phone" \in DOMAIN diff /\ diff["phone"] = ph
    BY <1>2, DiffForm
  <2> QED
    BY <2>1 DEF Upserted, Remaining, Deleted
<1> QED
  BY <1>1, <1>2

\* and the mobiles of the new row, with those among his old ones that are too
\* short to be rendered at most; a reader sees those of the new row only when
\* the change names what was there.
LEMMA MobilesReplaced ==
    ASSUME NEW new, NEW old, NEW ph, NEW mob, NEW diff, diff = Diff(new, old, ph, mob),
           NEW S, NEW T, mob \in Seq(S), new.mobile \in Seq(T)
    PROVE  /\ ToSet(new.mobile) \subseteq Upserted(ToSet(mob), diff, "mobile", new.mobile)
           /\ \A n \in Upserted(ToSet(mob), diff, "mobile", new.mobile) :
                 Rendered(n) # 0 => n \in ToSet(new.mobile)
<1> DEFINE U == Upserted(ToSet(mob), diff, "mobile", new.mobile)
<1>0. \A n : Rendered(n) = n \/ Rendered(n) = 0
  BY DEF Rendered
<1>1. CASE AllRendered(new.mobile) = AllRendered(mob)
  <2>1. U = ToSet(mob) \cup ToSet(new.mobile)
    <3>1. "mobile" \notin DOMAIN diff
      BY <1>1, DiffForm
    <3> QED
      BY <3>1 DEF Upserted, Remaining, Deleted
  <2>2. ASSUME NEW n \in ToSet(mob), Rendered(n) # 0 PROVE n \in ToSet(new.mobile)
    <3>1. n \in {Rendered(m) : m \in ToSet(new.mobile)}
      BY <1>0, <1>1, <2>2, AllRenderedForm
    <3>2. PICK m \in ToSet(new.mobile) : n = Rendered(m)
      BY <3>1
    <3> QED
      BY <1>0, <2>2, <3>2 DEF Rendered
  <2> QED
    BY <2>1, <2>2
<1>2. CASE AllRendered(new.mobile) # AllRendered(mob)
  <2>1. U = (ToSet(mob) \ {Rendered(n) : n \in ToSet(mob)}) \cup ToSet(new.mobile)
    <3>1. "mobile" \in DOMAIN diff /\ diff["mobile"] = AllRendered(mob)
      BY <1>2, DiffForm
    <3> QED
      BY <3>1, AllRenderedForm DEF Upserted, Remaining, Deleted
  <2> QED
    BY <1>0, <2>1
<1> QED
  BY <1>1, <1>2

LEMMA ViewIsSomething == \A row, p, m : View(row, p, m) # <<>>
<1>1. \A row, p, m : "rest" \in DOMAIN View(row, p, m)
  BY DEF View
<1>2. "rest" \notin DOMAIN <<>>
  OBVIOUS
<1> QED
  BY <1>1, <1>2

\* Undoing a change gives back what a reader saw before it.
LEMMA UndoneForm ==
    ASSUME NEW new, NEW old, NEW ph, NEW mob, NEW diff, diff = Diff(new, old, ph, mob),
           mob \in Seq(ToSet(mob)), new.mobile \in Seq(Nat),
           NEW row, \A f \in Columns : row[f] = new[f]
    PROVE  Undone(View(row, Upserted(ToSet(ph), diff, "phone", new.phone),
                            Upserted(ToSet(mob), diff, "mobile", new.mobile)), diff)
               = View(old, ToSet(ph), ToSet(mob))
<1> DEFINE p == Upserted(ToSet(ph), diff, "phone", new.phone)
           m == Upserted(ToSet(mob), diff, "mobile", new.mobile)
<1> DEFINE v == View(row, p, m)
           w == View(old, ToSet(ph), ToSet(mob))
           u == Undone(v, diff)
<1>0. p = ToSet(new.phone)
  BY PhonesReplaced
<1>1. /\ DOMAIN v = Columns \cup {"phone", "mobile"} /\ DOMAIN w = DOMAIN v
      /\ v.phone = ToSet(new.phone) /\ w.phone = ToSet(ph)
      /\ v.mobile = {Rendered(n) : n \in m} /\ w.mobile = {Rendered(n) : n \in ToSet(mob)}
      /\ \A f \in Columns : v[f] = new[f] /\ w[f] = old[f]
  <2>1. /\ DOMAIN v = Columns \cup {"phone", "mobile"} /\ v.phone = p
        /\ v.mobile = {Rendered(n) : n \in m} /\ \A f \in Columns : v[f] = row[f]
    BY DEF View, Columns
  <2>2. /\ DOMAIN w = Columns \cup {"phone", "mobile"} /\ w.phone = ToSet(ph)
        /\ w.mobile = {Rendered(n) : n \in ToSet(mob)} /\ \A f \in Columns : w[f] = old[f]
    BY DEF View, Columns
  <2> HIDE DEF v, w
  <2> QED
    BY <1>0, <2>1, <2>2
<1>2. w = [f \in DOMAIN w |-> w[f]]
  BY DEF View
<1>3. /\ DOMAIN u = DOMAIN v
      /\ \A f \in DOMAIN v : u[f] = IF f \notin DOMAIN diff THEN v[f]
                                   ELSE IF f \in Columns THEN diff[f] ELSE ToSet(diff[f])
      /\ u = [f \in DOMAIN u |-> u[f]]
  BY DEF Undone
<1> HIDE DEF u, v, w, p, m
<1>4. \A f \in Columns : u[f] = w[f]
  BY <1>1, <1>3, DiffForm
<1>5. u.phone = w.phone
  <2>1. "phone" \notin Columns
    BY DEF Columns
  <2> QED
    BY <1>1, <1>3, <2>1, DiffForm
<1>6. u.mobile = w.mobile
  <2>1. "mobile" \notin Columns
    BY DEF Columns
  <2>2. CASE "mobile" \in DOMAIN diff
    <3>1. u.mobile = ToSet(AllRendered(mob))
      BY <1>1, <1>3, <2>1, <2>2, DiffForm
    <3> QED
      BY <1>1, <3>1, AllRenderedForm
  <2>3. CASE "mobile" \notin DOMAIN diff
    <3>1. u.mobile = v.mobile /\ AllRendered(new.mobile) = AllRendered(mob)
      BY <1>1, <1>3, <2>3, DiffForm
    <3>2. m = ToSet(mob) \cup ToSet(new.mobile)
      BY <2>3 DEF Upserted, Remaining, Deleted, m
    <3>3. {Rendered(n) : n \in ToSet(mob)} = {Rendered(n) : n \in ToSet(new.mobile)}
      BY <3>1, AllRenderedForm
    <3> QED
      BY <1>1, <3>1, <3>2, <3>3
  <2> QED
    BY <2>2, <2>3
<1>7. \A f \in DOMAIN w : u[f] = w[f]
  BY <1>1, <1>4, <1>5, <1>6
<1> QED
  BY <1>1, <1>2, <1>3, <1>7 DEF u, v, w, p, m

\* Undoing history h, newest change first, leads from v to w.
Leads(v, h, w) ==
    \E vs : /\ vs[0] = v /\ vs[Len(h)] = w
            /\ \A i \in 1..Len(h) : vs[i] = Undone(vs[i - 1], h[Len(h) + 1 - i])

LEMMA LeadsNowhere == \A v : Leads(v, <<>>, v)
<1> TAKE v
<1> DEFINE vs == [i \in {0} |-> v]
<1>1. vs[0] = v /\ Len(<<>>) = 0 /\ 1..0 = {}
  OBVIOUS
<1> HIDE DEF vs
<1>2. \E us : us[0] = v
  BY <1>1
<1>3. Leads(v, <<>>, v) <=> \E us : us[0] = v
  BY <1>1 DEF Leads
<1> QED
  BY <1>2, <1>3

LEMMA LeadsOn ==
    ASSUME NEW S, NEW h \in Seq(S), NEW d \in S, NEW u, NEW v, NEW w,
           Undone(u, d) = v, Leads(v, h, w)
    PROVE  Leads(u, Append(h, d), w)
<1> DEFINE g == Append(h, d)
           l == Len(h)
<1>1. /\ l \in Nat /\ Len(g) = l + 1 /\ g[l + 1] = d /\ \A i \in 1..l : g[i] = h[i]
  BY LenProperties, AppendProperties
<1>2. PICK vs : /\ vs[0] = v /\ vs[l] = w
                /\ \A i \in 1..l : vs[i] = Undone(vs[i - 1], h[l + 1 - i])
  BY DEF Leads
<1> HIDE DEF l, g
<1> DEFINE us == [i \in 0..(l + 1) |-> IF i = 0 THEN u ELSE vs[i - 1]]
<1>3. us[0] = u /\ \A i \in 1..(l + 1) : us[i] = vs[i - 1]
  BY <1>1
<1>4. us[l + 1] = w
  <2>1. l + 1 \in 1..(l + 1) /\ (l + 1) - 1 = l
    BY <1>1
  <2> QED
    BY <1>2, <1>3, <2>1
<1> HIDE DEF us
<1>5. ASSUME NEW i \in 1..(l + 1) PROVE us[i] = Undone(us[i - 1], g[(l + 1) + 1 - i])
  <2>1. CASE i = 1
    <3>1. us[i] = v /\ us[i - 1] = u /\ g[(l + 1) + 1 - i] = d
      BY <1>1, <1>2, <1>3, <2>1
    <3> QED
      BY <3>1
  <2>2. CASE i # 1
    <3> DEFINE j == i - 1
    <3>1. /\ j \in 1..l /\ i - 1 \in 1..(l + 1) /\ (l + 1) + 1 - i = l + 1 - j
          /\ l + 1 - j \in 1..l /\ i - 1 = j
      BY <1>1, <2>2
    <3> HIDE DEF j
    <3>2. us[i] = vs[j] /\ us[i - 1] = vs[j - 1] /\ g[(l + 1) + 1 - i] = h[l + 1 - j]
      BY <1>1, <1>3, <3>1
    <3> QED
      BY <1>2, <3>1, <3>2
  <2> QED
    BY <2>1, <2>2
<1> QED
  BY <1>1, <1>3, <1>4, <1>5 DEF Leads, g

LEMMA FirstFailure ==
    ASSUME NEW n \in Nat, NEW B \in SUBSET (0..n), B # {}
    PROVE  \E i \in B : \A j \in B : ~(j < i)
<1> DEFINE R == OpToRel(<, Nat)
<1>1. IsWellFoundedOn(R, Nat)
  BY NatLessThanWellFounded
<1>2. B \subseteq Nat
  OBVIOUS
<1> HIDE DEF R
<1>3. PICK i \in B : \A j \in B : ~(<<j, i>> \in R)
  BY <1>1, <1>2, WFMin
<1>4. \A j \in B : ~(j < i)
  BY <1>2, <1>3 DEF R, OpToRel
<1> QED
  BY <1>4

\* Replayed computes what Leads says.
LEMMA ReplayedForm ==
    ASSUME NEW t, NEW w, Len(history[t]) \in Nat, Leads(ViewOf(db, t), history[t], w)
    PROVE  Replayed(t) = w
<1> DEFINE h == history[t]
           last == Len(history[t])
           IsView(f) == f = [i \in 0..last |->
               IF i = 0 THEN ViewOf(db, t) ELSE Undone(f[i - 1], h[last + 1 - i])]
<1>1. Replayed(t) = (CHOOSE f : IsView(f))[last]
  BY DEF Replayed
<1>2. PICK vs : /\ vs[0] = ViewOf(db, t) /\ vs[last] = w
                /\ \A i \in 1..last : vs[i] = Undone(vs[i - 1], h[last + 1 - i])
  BY DEF Leads
<1> DEFINE g == [i \in 0..last |-> vs[i]]
<1> HIDE DEF h, last
<1>0. last \in Nat
  BY DEF last
<1>3. IsView(g)
  <2>1. ASSUME NEW i \in 0..last
        PROVE  g[i] = IF i = 0 THEN ViewOf(db, t) ELSE Undone(g[i - 1], h[last + 1 - i])
    <3>1. CASE i = 0
      BY <1>2, <3>1
    <3>2. CASE i # 0
      <4>1. i \in 1..last /\ i - 1 \in 0..last
        BY <1>0, <3>2
      <4>2. g[i] = vs[i] /\ g[i - 1] = vs[i - 1]
        BY <4>1
      <4> QED
        BY <1>2, <3>2, <4>1, <4>2
    <3> QED
      BY <3>1, <3>2
  <2> QED
    BY <2>1
<1> DEFINE f == CHOOSE e : IsView(e)
<1>4. IsView(f)
  <2> HIDE DEF IsView
  <2> QED
    BY <1>3
<1>5. /\ f[0] = ViewOf(db, t) 
      /\ \A i \in 1..last : f[i] = Undone(f[i - 1], h[last + 1 - i])
  <2> HIDE DEF f
  <2>1. \A i \in 0..last : f[i] = IF i = 0 THEN ViewOf(db, t) ELSE Undone(f[i - 1], h[last + 1 - i])
    BY <1>4
  <2> QED
    BY <1>0, <2>1
<1> HIDE DEF f, IsView
<1> DEFINE B == {i \in 0..last : f[i] # vs[i]}
<1>6. B = {}
  <2> SUFFICES ASSUME B # {} PROVE FALSE
    OBVIOUS
  <2>1. PICK i \in B : \A j \in B : ~(j < i)
    <3>1. B \in SUBSET (0..last)
      OBVIOUS
    <3> HIDE DEF B
    <3> QED
      BY <1>0, <3>1, FirstFailure
  <2>2. i # 0
    BY <1>2, <1>5, <2>1
  <2>3. i \in 1..last /\ i - 1 \in 0..last /\ i - 1 < i
    BY <1>0, <2>1, <2>2
  <2>4. f[i - 1] = vs[i - 1]
    BY <2>1, <2>3
  <2> QED
    BY <1>2, <1>5, <2>1, <2>3, <2>4
<1>7. f[last] = w
  BY <1>0, <1>2, <1>6
<1> QED
  BY <1>1, <1>7 DEF f

-----------------------------------------------------------------------------
(* The entry of an employee in the database. *)

Matches(t) ==
    \E r \in SotrRows :
        /\ r.tabnum = t /\ \A f \in Columns : r[f] = db.sotr[t][f]
        /\ db.phones[t] = ToSet(r.phone)
        /\ ToSet(r.mobile) \subseteq db.mobiles[t]
        /\ \A n \in db.mobiles[t] : Rendered(n) # 0 => n \in ToSet(r.mobile)

EntryOK(t) ==
    /\ IsFiniteSet(db.phones[t]) /\ IsFiniteSet(db.mobiles[t])
    /\ db.sotr[t] = Absent => /\ db.phones[t] = {} /\ db.mobiles[t] = {}
                              /\ history[t] = <<>> /\ first[t] = <<>>
    /\ db.sotr[t] # Absent => first[t] # <<>>
    /\ t \in Known \ torn => Matches(t)
    /\ t \in Known \ uneven => Leads(ViewOf(db, t), history[t], first[t])

EntriesInv == \A t \in Tabs : EntryOK(t)

LEMMA InitEntries == Init => EntriesInv
<1> SUFFICES ASSUME Init, NEW t \in Tabs PROVE EntryOK(t)
  BY DEF EntriesInv
<1>1. /\ db.sotr[t] = Absent /\ db.phones[t] = {} /\ db.mobiles[t] = {}
      /\ history[t] = <<>> /\ first[t] = <<>>
  BY DEF Init, StoreInit, NoData
<1> QED
  BY <1>1, FS_EmptySet DEF EntryOK, Known

\* When a transaction is not late in an employee, and the map has held his row
\* to its second look, he gets its phones and no other.
LEMMA CommitPhones ==
    ASSUME SyncInv, RowsInv, EntriesInv, NEW c \in Clients, Commit(c),
           NEW t \in Employees(c) \ late[c], call[c].seen[t] = RowOf(c, t)
    PROVE  db'.phones[t] = ToSet(RowOf(c, t).phone)
<1>1. PICK r, diff : r = RowOf(c, t) /\ diff = DiffOf(c, t)
  OBVIOUS
<1>2. r \in call[c].rows /\ r.tabnum = t /\ t \in Tabs /\ EntryOK(t)
  BY <1>1, RowIs DEF EntriesInv
<1>3. DiffOK(r, call[c].diffs)
  BY <1>2 DEF RowsInv, HandlerOK, Commit
<1>4. db'.phones[t] = Upserted(db.phones[t], diff, "phone", r.phone)
  BY <1>1, <1>2, CommitData
<1>5. CASE db.sotr[t] = Absent
  <2>1. db.phones[t] = {} /\ DOMAIN diff = {}
    BY <1>1, <1>2, <1>3, <1>5 DEF EntryOK, DiffOK, DiffOf
  <2> QED
    BY <1>1, <1>4, <2>1 DEF Upserted, Remaining, Deleted
<1>6. CASE db.sotr[t] # Absent
  <2>1. PICK ph \in Readings(db.phones[t]), mob \in Readings(db.mobiles[t]) :
            diff = Diff(r, db.sotr[t], ph, mob)
    BY <1>1, <1>2, <1>3, <1>6 DEF DiffOK, DiffOf
  <2>2. ToSet(ph) = db.phones[t]
    BY DEF Readings
  <2> QED
    BY <1>1, <1>4, <2>1, <2>2, PhonesReplaced
<1> QED
  BY <1>5, <1>6

\* What a commit makes of the entry of an employee it writes: r is his row,
\* diff what it appends to his history, if anything.
LEMMA CommitEntry ==
    ASSUME SyncInv, RowsInv, EntriesInv, NEW c \in Clients, Commit(c), Remember(c), UNCHANGED client,
           NEW t \in Employees(c)
    PROVE  EntryOK(t)'
<1> DEFINE r == RowOf(c, t)
           again == late[c] \cup {u \in Employees(c) : call[c].seen[u] # RowOf(c, u)}
           diff == DiffOf(c, t)
           old == db.sotr[t]
           new == call[c].seen[t]
           row == Stored(r, call[c].deps)
           p == db'.phones[t]
           m == db'.mobiles[t]
           v == View(row, p, m)
<1>0. r \in call[c].rows /\ r.tabnum = t /\ t \in Tabs
  BY RowIs
<1>1. /\ OfFile(r) /\ EntryOK(t) /\ HistoryOK(t)
      /\ new.tabnum = t /\ OfFile(new)
      /\ t \in late[c] \/ DiffOK(r, call[c].diffs)
  BY <1>0 DEF RowsInv, HandlerOK, EntriesInv, Commit
<1>2. /\ db'.sotr[t] = row
      /\ p = Upserted(db.phones[t], diff, "phone", new.phone)
      /\ m = Upserted(db.mobiles[t], diff, "mobile", new.mobile)
      /\ history'[t] = IF DOMAIN diff = {} THEN history[t] ELSE Append(history[t], diff)
  BY <1>0, CommitData
<1>3. /\ torn' = (torn \ Employees(c)) \cup again /\ uneven' = uneven \cup again
      /\ first'[t] = IF first[t] = <<>> THEN v ELSE first[t]
  BY <1>0, <1>2 DEF Remember, ViewOf
<1>4. row # Absent /\ \A f \in Columns : row[f] = r[f]
  BY DEF Stored, Absent, Columns
<1>5. v # <<>>
  BY ViewIsSomething
<1>6. PICK s \in SotrRow : s \in SotrRows /\ r = Stamped(s, r.n)
  BY <1>1, RowForm DEF OfFile
<1>7. /\ s.tabnum = t /\ r.phone = s.phone /\ r.mobile = s.mobile
      /\ \A f \in Columns : r[f] = s[f]
      /\ s.phone \in Seq(STRING) /\ s.mobile \in Seq(Nat)
  BY <1>0, <1>6, StampedForm DEF SotrRow
<1>8. /\ new.phone \in Seq(STRING) /\ new.mobile \in Seq(Nat)
  <2>1. PICK q \in SotrRow : new = Stamped(q, new.n)
    BY <1>1, RowForm DEF OfFile
  <2>2. new.phone = q.phone /\ new.mobile = q.mobile
    BY <2>1, StampedForm
  <2> QED
    BY <2>2 DEF SotrRow
<1>9. t \notin again => new = r /\ DiffOK(r, call[c].diffs)
  BY <1>1
<1>10. DiffOK(r, call[c].diffs) /\ old # Absent =>
          \E ph \in Readings(db.phones[t]), mob \in Readings(db.mobiles[t]) :
              diff = Diff(r, old, ph, mob)
  BY <1>0 DEF DiffOK, DiffOf
<1>11. DiffOK(r, call[c].diffs) /\ old = Absent => diff = <<>>
  BY <1>0 DEF DiffOK, DiffOf
<1> HIDE DEF r, diff, old, new, row, p, m, v, again
<1>12. IsFiniteSet(p) /\ IsFiniteSet(m)
  <2>1. IsFiniteSet(ToSet(new.phone)) /\ IsFiniteSet(ToSet(new.mobile))
    BY <1>8, ToSetFinite
  <2>2. IsFiniteSet(db.phones[t]) /\ IsFiniteSet(db.mobiles[t])
    BY <1>1 DEF EntryOK
  <2>3. /\ p \subseteq db.phones[t] \cup ToSet(new.phone)
        /\ m \subseteq db.mobiles[t] \cup ToSet(new.mobile)
    BY <1>2 DEF Upserted, Remaining
  <2> QED
    BY <2>1, <2>2, <2>3, FS_Union, FS_Subset
\* What the entry is when the map still held the row, and nobody came between.
<1>13. ASSUME new = r, DiffOK(r, call[c].diffs)
       PROVE  /\ p = ToSet(s.phone) /\ ToSet(s.mobile) \subseteq m
              /\ \A n \in m : Rendered(n) # 0 => n \in ToSet(s.mobile)
              /\ old # Absent => Undone(v, diff) = ViewOf(db, t)
  <2>1. CASE old = Absent
    <3>1. db.phones[t] = {} /\ db.mobiles[t] = {} /\ DOMAIN diff = {}
      BY <1>1, <1>11, <1>13, <2>1 DEF EntryOK, old
    <3>2. p = ToSet(s.phone) /\ m = ToSet(s.mobile)
      BY <1>2, <1>7, <1>13, <3>1 DEF Upserted, Remaining, Deleted
    <3> QED
      BY <2>1, <3>2
  <2>2. CASE old # Absent
    <3>1. PICK ph \in Readings(db.phones[t]), mob \in Readings(db.mobiles[t]) :
              diff = Diff(r, old, ph, mob)
      BY <1>10, <1>13, <2>2
    <3>2. /\ ToSet(ph) = db.phones[t] /\ ToSet(mob) = db.mobiles[t]
          /\ mob \in Seq(db.mobiles[t])
      BY <1>1, <3>1, ReadingForm DEF EntryOK
    <3>3. /\ p = Upserted(ToSet(ph), diff, "phone", r.phone)
          /\ m = Upserted(ToSet(mob), diff, "mobile", r.mobile) /\ r.mobile \in Seq(Nat)
      BY <1>2, <1>7, <1>13, <3>2
    <3>4. p = ToSet(s.phone)
      BY <1>7, <3>1, <3>3, PhonesReplaced
    <3>5. /\ ToSet(s.mobile) \subseteq m
          /\ \A n \in m : Rendered(n) # 0 => n \in ToSet(s.mobile)
      BY <1>7, <3>1, <3>2, <3>3, MobilesReplaced
    <3>6. Undone(View(row, p, m), diff) = View(old, ToSet(ph), ToSet(mob))
      <4>1. \A f \in Columns : row[f] = r[f]
        BY <1>4
      <4>2. /\ diff = Diff(r, old, ph, mob) /\ mob \in Seq(ToSet(mob)) /\ r.mobile \in Seq(Nat)
            /\ p = Upserted(ToSet(ph), diff, "phone", r.phone)
            /\ m = Upserted(ToSet(mob), diff, "mobile", r.mobile)
        BY <3>1, <3>2, <3>3
      <4>3. Undone(View(row, Upserted(ToSet(ph), diff, "phone", r.phone),
                             Upserted(ToSet(mob), diff, "mobile", r.mobile)), diff)
               = View(old, ToSet(ph), ToSet(mob))
        BY ONLY <4>1, <4>2, UndoneForm
      <4> QED
        BY <4>2, <4>3
    <3> QED
      BY <3>2, <3>4, <3>5, <3>6 DEF v, ViewOf, old
  <2> QED
    BY <2>1, <2>2
<1>14. t \notin torn' => Matches(t)'
  <2>1. t \notin torn' => new = r /\ DiffOK(r, call[c].diffs)
    BY <1>3, <1>9
  <2>2. ASSUME new = r, DiffOK(r, call[c].diffs)
        PROVE  /\ s.tabnum = t /\ \A f \in Columns : s[f] = db'.sotr[t][f]
               /\ db'.phones[t] = ToSet(s.phone)
               /\ ToSet(s.mobile) \subseteq db'.mobiles[t]
               /\ \A n \in db'.mobiles[t] : Rendered(n) # 0 => n \in ToSet(s.mobile)
    BY <1>2, <1>4, <1>7, <1>13, <2>2 DEF p, m
  <2> QED
    BY <1>6, <2>1, <2>2 DEF Matches
<1>15. t \notin uneven' => Leads(v, history'[t], first'[t])
  <2> SUFFICES ASSUME t \notin uneven' PROVE Leads(v, history'[t], first'[t])
    OBVIOUS
  <2>1. new = r /\ DiffOK(r, call[c].diffs) /\ t \notin uneven
    BY <1>3, <1>9
  <2>2. CASE old = Absent
    <3>1. history'[t] = <<>> /\ first'[t] = v
      BY <1>1, <1>2, <1>3, <1>11, <2>1, <2>2 DEF EntryOK, old
    <3> QED
      BY <3>1, LeadsNowhere
  <2>3. CASE old # Absent
    <3>1. /\ Leads(ViewOf(db, t), history[t], first[t]) /\ first'[t] = first[t]
          /\ Undone(v, diff) = ViewOf(db, t)
      BY <1>0, <1>1, <1>3, <1>13, <2>1, <2>3 DEF EntryOK, Known, old
    <3>2. CASE DOMAIN diff = {}
      <4>1. v = [f \in DOMAIN v |-> v[f]]
        BY DEF v, View
      <4>2. Undone(v, diff) = v
        BY <3>2, <4>1 DEF Undone
      <4> QED
        BY <1>2, <3>1, <3>2, <4>2
    <3>3. CASE DOMAIN diff # {}
      <4>1. PICK S : history[t] \in Seq(S)
        BY <1>1 DEF HistoryOK
      <4>2. history[t] \in Seq(S \cup {diff}) /\ diff \in S \cup {diff}
        BY <4>1, SeqMonotonic
      <4>3. Leads(v, Append(history[t], diff), first[t])
        BY <3>1, <4>2, LeadsOn
      <4> QED
        BY <1>2, <3>1, <3>3, <4>3
    <3> QED
      BY <3>2, <3>3
  <2> QED
    BY <2>2, <2>3
<1>16. v = ViewOf(db, t)'
  BY <1>2 DEF v, p, m, ViewOf
<1>17. db'.sotr[t] # Absent /\ first'[t] # <<>>
  BY <1>2, <1>3, <1>4, <1>5
<1> QED
  BY <1>12, <1>14, <1>15, <1>16, <1>17 DEF EntryOK, p, m

LEMMA EntriesStep ==
    ASSUME SyncInv, RowsInv, EntriesInv, [Next]_vars
    PROVE  EntriesInv'
<1>1. CASE UNCHANGED <<db, history, torn, uneven, first>>
  BY <1>1 DEF EntriesInv, EntryOK, Matches, Known, ViewOf
<1>2. ASSUME NEW c \in Clients, Commit(c), Remember(c), UNCHANGED client, NEW t \in Tabs
      PROVE  EntryOK(t)'
  <2>1. CASE t \in Employees(c)
    BY <1>2, <2>1, CommitEntry
  <2>2. CASE t \notin Employees(c)
    <3>1. /\ db'.sotr[t] = db.sotr[t] /\ db'.phones[t] = db.phones[t]
          /\ db'.mobiles[t] = db.mobiles[t] /\ history'[t] = history[t]
      BY <1>2, <2>2, CommitData
    <3>2. /\ first'[t] = first[t] /\ (t \in torn' <=> t \in torn) /\ (t \in uneven' <=> t \in uneven)
      BY <1>2, <2>2 DEF Remember, SyncInv, CallOK
    <3>3. EntryOK(t)
      BY DEF EntriesInv
    <3> QED
      BY <3>1, <3>2, <3>3 DEF EntryOK, Matches, Known, ViewOf
  <2> QED
    BY <2>1, <2>2
<1>3. CASE \E c \in Clients : Commit(c) /\ Remember(c) /\ UNCHANGED client
  BY <1>2, <1>3 DEF EntriesInv
<1> QED
  BY <1>1, <1>3, OnlyCommits

LEMMA EntriesInvariant == Spec => [](SyncInv /\ RowsInv /\ EntriesInv)
<1>1. SyncInv /\ RowsInv /\ EntriesInv /\ [Next]_vars => (SyncInv /\ RowsInv /\ EntriesInv)'
  BY SyncStep, RowsStep, EntriesStep
<1> QED
  BY <1>1, InitSync, InitRows, InitEntries, PTL DEF Spec

\* An employee's phones are those of the row his columns come from, and a search
\* by mobile finds him under those of that row and no other that is rendered;
\* torn employees, those of an overtaken transaction among them, left out.
THEOREM PhonesFollowColumns == Spec => []PhonesMatchColumns
<1>1. ASSUME EntriesInv, NEW t \in Known \ torn
      PROVE  \E r \in SotrRows :
                 /\ r.tabnum = t /\ \A f \in Columns : r[f] = db.sotr[t][f]
                 /\ db.phones[t] = ToSet(r.phone)
                 /\ \A n \in Mobiles :
                       /\ n \in ToSet(r.mobile) => t \in ByMobile(n)
                       /\ t \in ByMobile(n) /\ Rendered(n) # 0 => n \in ToSet(r.mobile)
  <2>1. Matches(t)
    BY <1>1 DEF EntriesInv, EntryOK, Known
  <2>2. \A n : t \in ByMobile(n) <=> n \in db.mobiles[t]
    BY DEF ByMobile
  <2> QED
    BY <2>1, <2>2 DEF Matches
<1>2. EntriesInv => PhonesMatchColumns
  BY <1>1 DEF PhonesMatchColumns
<1> QED
  BY <1>2, EntriesInvariant, PTL

\* Undoing the history of an employee who is not uneven, newest change first,
\* gives what was first written of him.
THEOREM HistoryIsComplete == Spec => []HistoryReplays
<1>1. ASSUME RowsInv, EntriesInv, NEW t \in Known \ uneven PROVE Replayed(t) = first[t]
  <2>1. Leads(ViewOf(db, t), history[t], first[t]) /\ HistoryOK(t)
    BY <1>1 DEF RowsInv, EntriesInv, EntryOK, Known
  <2>2. Len(history[t]) \in Nat
    BY <2>1, LenProperties DEF HistoryOK
  <2> QED
    BY <2>1, <2>2, ReplayedForm
<1>2. RowsInv /\ EntriesInv => HistoryReplays
  BY <1>1 DEF HistoryReplays
<1> QED
  BY <1>2, EntriesInvariant, PTL

-----------------------------------------------------------------------------
(* A command that starts undisturbed and meets no fault. *)

\* The maps hold the last row of each key among the first m of a file.
DepsIn(v, m) ==
    LET f == File[v]["dep"] IN
    \A j \in 1..m : (\A i \in 1..m : i > j => f[i].idr # f[j].idr) => Depmap[f[j].idr] = f[j]

SotrsIn(v, m) ==
    LET f == File[v]["sotr"] IN
    \A j \in 1..m :
        /\ ~Refused(f[j])
        /\ \A i \in 1..m : i > j /\ ~Refused(f[i]) => f[i].tabnum # f[j].tabnum
        => /\ Sotrmap[f[j].tabnum] # Absent
           /\ Sotrmap[f[j].tabnum] = Stamped(f[j], Sotrmap[f[j].tabnum].n)

RowsIn(p, v, m) == IF p = "dep" THEN DepsIn(v, m) ELSE SotrsIn(v, m)

\* The client has read k - 1 rows of its part, all of which the server has, but
\* for the one it is saving.
Halfway(c, p, v, k) ==
    /\ client[c].part = p
    /\ k \in 1..(Len(File[v][p]) + 1) /\ client[c].left = From(File[v][p], k)
    /\ \/ call[c].at = "none" /\ RowsIn(p, v, k - 1)
       \/ /\ call[c].at = "save" /\ k > 1
          /\ call[c].item = File[v][p][k - 1] /\ ~Refused(File[v][p][k - 1])
          /\ RowsIn(p, v, k - 2)
       \/ call[c].at = "load" /\ p = "sotr" /\ k = 1

AllDeps(v) == DepsIn(v, Len(File[v]["dep"]))
AllSotrs(v) == SotrsIn(v, Len(File[v]["sotr"]))

\* The employees of a dump whose department it has too.
Placed(v) == {r \in LastSotrs(v) : \E d \in LastDeps(v) : d.idr = r.parent}

Arrived(v) ==
    /\ LastDeps(v) \subseteq db.dep
    /\ \A r \in Placed(v) :
          /\ r.tabnum \in Known
          /\ \A g \in Columns : db.sotr[r.tabnum][g] = r[g]
          /\ db.phones[r.tabnum] = ToSet(r.phone)

\* The employees it has copied are those of the map still, and it is late in none.
Fresh(c) == late[c] = {} /\ \A r \in call[c].rows : r = Sotrmap[r.tabnum]

Finishing(c, v) ==
    \/ call[c].at = "load" /\ FlashCounter = 2 /\ AllDeps(v) /\ AllSotrs(v)
    \/ call[c].at = "begin" /\ AllDeps(v) /\ AllSotrs(v)
    \/ call[c].at \in {"deps", "sotrs"} /\ LastDeps(v) \subseteq call[c].deps /\ AllSotrs(v)
    \/ /\ call[c].at \in Copying /\ LastDeps(v) \subseteq call[c].deps /\ AllSotrs(v)
       /\ \A r \in Placed(v) : Sotrmap[r.tabnum] \in call[c].rows
       /\ Fresh(c)
       /\ call[c].at = "commit" => \A t \in Employees(c) : call[c].seen[t] = RowOf(c, t)
    \/ call[c].at \in {"none", "reset"} /\ Arrived(v)

Alone(c) == \A d \in Clients \ {c} : ~Working(d)

\* Its transaction has ended.
Past(c) == client[c].part = "done" /\ call[c].at \in {"none", "reset"}

CleanFor(c, v) ==
    /\ client[c].dump = v /\ Alone(c)
    /\ Past(c) \/ Comparable(v)
    /\ \/ FlashCounter = 0 /\ \E k : Halfway(c, "dep", v, k)
       \/ FlashCounter = 1 /\ AllDeps(v) /\ \E k : Halfway(c, "sotr", v, k)
       \/ client[c].part = "done" /\ Finishing(c, v)

CleanInv ==
    /\ DOMAIN clean = Clients
    /\ \A c \in Clients : /\ client[c].part = "idle" => Free(c)
                          /\ clean[c] => \E v \in Dumps : CleanFor(c, v)

LEMMA InitClean == Init => CleanInv
<1> SUFFICES ASSUME Init PROVE CleanInv
  OBVIOUS
<1>1. DOMAIN clean = Clients /\ \A c \in Clients : ~clean[c] /\ call[c] = NoCall
  BY DEF Init, StoreInit
<1> QED
  BY <1>1, NoCallForm DEF CleanInv, Free

\* The rows of a file, by their place in it.
LEMMA FileForm ==
    ASSUME NEW v \in Dumps
    PROVE  /\ File[v]["dep"] \in Seq(DepRow) /\ Len(File[v]["dep"]) \in Nat
           /\ DOMAIN File[v]["dep"] = 1..Len(File[v]["dep"])
           /\ \A i \in 1..Len(File[v]["dep"]) : /\ IsDep(File[v]["dep"][i])
                                                /\ File[v]["dep"][i].idr \in Idrs
                                                /\ File[v]["dep"][i] # Absent
           /\ File[v]["sotr"] \in Seq(SotrRow) /\ Len(File[v]["sotr"]) \in Nat
           /\ DOMAIN File[v]["sotr"] = 1..Len(File[v]["sotr"])
           /\ \A i \in 1..Len(File[v]["sotr"]) : /\ File[v]["sotr"][i] \in SotrRow
                                                 /\ ~IsDep(File[v]["sotr"][i])
                                                 /\ File[v]["sotr"][i].tabnum \in Tabs
<1>1. File[v]["dep"] \in Seq(DepRow) /\ File[v]["sotr"] \in Seq(SotrRow)
  BY SyncAssumption
<1>2. /\ Len(File[v]["dep"]) \in Nat /\ DOMAIN File[v]["dep"] = 1..Len(File[v]["dep"])
      /\ Len(File[v]["sotr"]) \in Nat /\ DOMAIN File[v]["sotr"] = 1..Len(File[v]["sotr"])
      /\ \A i \in 1..Len(File[v]["dep"]) : File[v]["dep"][i] \in DepRow
      /\ \A i \in 1..Len(File[v]["sotr"]) : File[v]["sotr"][i] \in SotrRow
  BY <1>1, LenProperties, ElementOfSeq
<1>3. \A i \in DepRow : IsDep(i) /\ i.idr \in Idrs /\ i # Absent
  BY DEF DepRow, IsDep, Absent
<1>4. \A i \in SotrRow : ~IsDep(i) /\ i.tabnum \in Tabs
  BY DEF SotrRow, IsDep
<1> QED
  BY <1>1, <1>2, <1>3, <1>4

\* One row more.
LEMMA DepSaved ==
    ASSUME NEW v \in Dumps, NEW m \in Nat, m + 1 <= Len(File[v]["dep"]), DepsIn(v, m),
           DOMAIN Depmap = Idrs, NEW i, i = File[v]["dep"][m + 1],
           Depmap' = [Depmap EXCEPT ![i.idr] = i]
    PROVE  DepsIn(v, m + 1)'
<1> DEFINE f == File[v]["dep"]
<1>1. Len(f) \in Nat /\ \A j \in 1..Len(f) : f[j].idr \in Idrs
  BY FileForm
<1>2. i = f[m + 1] /\ m + 1 <= Len(f) /\ m + 1 \in 1..Len(f)
  BY <1>1
<1>3. \A j \in 1..m : (\A k \in 1..m : k > j => f[k].idr # f[j].idr) => Depmap[f[j].idr] = f[j]
  BY DEF DepsIn
<1> HIDE DEF f
<1>4. ASSUME NEW j \in 1..(m + 1), \A k \in 1..(m + 1) : k > j => f[k].idr # f[j].idr
      PROVE  Depmap'[f[j].idr] = f[j]
  <2>1. CASE j = m + 1
    BY <1>1, <1>2, <2>1
  <2>2. CASE j # m + 1
    <3>1. j \in 1..m /\ j \in 1..Len(f) /\ m + 1 > j /\ m + 1 \in 1..(m + 1)
      BY <1>1, <1>2, <2>2
    <3>2. Depmap[f[j].idr] = f[j] /\ i.idr # f[j].idr
      BY <1>2, <1>3, <1>4, <3>1
    <3> QED
      BY <1>1, <3>1, <3>2
  <2> QED
    BY <2>1, <2>2
<1> QED
  BY <1>4 DEF DepsIn, f

LEMMA SotrSaved ==
    ASSUME NEW v \in Dumps, NEW m \in Nat, m + 1 <= Len(File[v]["sotr"]), SotrsIn(v, m),
           DOMAIN Sotrmap = Tabs, NEW i, i = File[v]["sotr"][m + 1],
           \/ Refused(i) /\ UNCHANGED Sotrmap
           \/ ~Refused(i) /\ \E n \in Nat \ {0} : Sotrmap' = [Sotrmap EXCEPT ![i.tabnum] = Stamped(i, n)]
    PROVE  SotrsIn(v, m + 1)'
<1> DEFINE f == File[v]["sotr"]
<1>1. Len(f) \in Nat /\ \A j \in 1..Len(f) : f[j].tabnum \in Tabs /\ f[j] \in SotrRow
  BY FileForm
<1>2. i = f[m + 1] /\ m + 1 <= Len(f) /\ m + 1 \in 1..Len(f)
  BY <1>1
<1>3. \A j \in 1..m :
        /\ ~Refused(f[j])
        /\ \A k \in 1..m : k > j /\ ~Refused(f[k]) => f[k].tabnum # f[j].tabnum
        => /\ Sotrmap[f[j].tabnum] # Absent
           /\ Sotrmap[f[j].tabnum] = Stamped(f[j], Sotrmap[f[j].tabnum].n)
  BY DEF SotrsIn
<1> HIDE DEF f
<1>4. ASSUME NEW j \in 1..(m + 1), ~Refused(f[j]),
             \A k \in 1..(m + 1) : k > j /\ ~Refused(f[k]) => f[k].tabnum # f[j].tabnum
      PROVE  /\ Sotrmap'[f[j].tabnum] # Absent
             /\ Sotrmap'[f[j].tabnum] = Stamped(f[j], Sotrmap'[f[j].tabnum].n)
  <2>1. CASE j = m + 1
    <3>1. PICK n \in Nat \ {0} : Sotrmap' = [Sotrmap EXCEPT ![i.tabnum] = Stamped(i, n)]
      BY <1>2, <1>4, <2>1
    <3> DEFINE new == Stamped(i, n)
    <3>2. new.n = n /\ new # Absent
      <4>1. new.n = n
        BY <1>1, <1>2, StampedForm
      <4> QED
        BY <4>1 DEF Absent
    <3>3. Sotrmap' = [Sotrmap EXCEPT ![i.tabnum] = new]
      BY <3>1
    <3> HIDE DEF new
    <3>4. Sotrmap'[i.tabnum] = new
      BY <1>1, <1>2, <3>3
    <3> QED
      BY <1>2, <2>1, <3>2, <3>4 DEF new
  <2>2. CASE j # m + 1
    <3>1. j \in 1..m /\ j \in 1..Len(f) /\ m + 1 > j /\ m + 1 \in 1..(m + 1)
      BY <1>1, <1>2, <2>2
    <3>2. \A k \in 1..m : k \in 1..(m + 1)
      OBVIOUS
    <3>3. /\ Sotrmap[f[j].tabnum] # Absent
          /\ Sotrmap[f[j].tabnum] = Stamped(f[j], Sotrmap[f[j].tabnum].n)
      BY <1>3, <1>4, <3>1, <3>2
    <3>4. Refused(i) \/ i.tabnum # f[j].tabnum
      BY <1>2, <1>4, <3>1
    <3>5. Sotrmap'[f[j].tabnum] = Sotrmap[f[j].tabnum]
      <4>1. CASE UNCHANGED Sotrmap
        BY <4>1
      <4>2. ASSUME NEW n, Sotrmap' = [Sotrmap EXCEPT ![i.tabnum] = Stamped(i, n)], i.tabnum # f[j].tabnum
            PROVE  Sotrmap'[f[j].tabnum] = Sotrmap[f[j].tabnum]
        BY <1>1, <3>1, <4>2
      <4> QED
        BY <3>4, <4>1, <4>2
    <3> QED
      BY <3>3, <3>5
  <2> QED
    BY <2>1, <2>2
<1> QED
  BY <1>4 DEF SotrsIn, f

LEMMA AllDepsForm ==
    ASSUME NEW v \in Dumps, AllDeps(v)
    PROVE  LastDeps(v) \subseteq {Depmap[i] : i \in Idrs} \ {Absent}
<1> DEFINE f == File[v]["dep"]
<1> SUFFICES ASSUME NEW d \in LastDeps(v) PROVE d \in {Depmap[i] : i \in Idrs} \ {Absent}
  OBVIOUS
<1>1. PICK j \in DOMAIN f : d = f[j] /\ \A k \in DOMAIN f : k > j => f[k].idr # f[j].idr
  BY DEF LastDeps
<1>2. j \in 1..Len(f) /\ \A k \in 1..Len(f) : k > j => f[k].idr # f[j].idr
  BY <1>1, FileForm
<1>3. Depmap[f[j].idr] = f[j]
  BY <1>2 DEF AllDeps, DepsIn
<1>4. f[j].idr \in Idrs /\ f[j] # Absent
  BY <1>2, FileForm
<1> QED
  BY <1>1, <1>3, <1>4

LEMMA AllSotrsForm ==
    ASSUME NEW v \in Dumps, AllSotrs(v), NEW r \in LastSotrs(v)
    PROVE  /\ r \in SotrRow /\ r.tabnum \in Tabs
           /\ Sotrmap[r.tabnum] # Absent
           /\ Sotrmap[r.tabnum] = Stamped(r, Sotrmap[r.tabnum].n)
<1> DEFINE f == File[v]["sotr"]
<1>1. PICK j \in DOMAIN f :
          /\ r = f[j] /\ ~Refused(f[j])
          /\ \A k \in DOMAIN f : k > j /\ ~Refused(f[k]) => f[k].tabnum # f[j].tabnum
  BY DEF LastSotrs
<1>2. /\ j \in 1..Len(f) /\ ~Refused(f[j])
      /\ \A k \in 1..Len(f) : k > j /\ ~Refused(f[k]) => f[k].tabnum # f[j].tabnum
  BY <1>1, FileForm
<1>3. /\ Sotrmap[f[j].tabnum] # Absent
      /\ Sotrmap[f[j].tabnum] = Stamped(f[j], Sotrmap[f[j].tabnum].n)
  BY <1>2 DEF AllSotrs, SotrsIn
<1> QED
  BY <1>1, <1>2, <1>3, FileForm

-----------------------------------------------------------------------------
(* Each step of such a command. *)

LEMMA AloneStays ==
    ASSUME NEW c \in Clients, Alone(c),
           \A d \in Clients \ {c} : /\ client'[d] = client[d]
                                    /\ call'[d] = call[d] \/ call'[d].at = "none"
    PROVE  Alone(c)'
  BY DEF Alone, Working, Sending, Free

\* The others have no call.
LEMMA OthersFree ==
    ASSUME RowsInv, CleanInv, NEW c \in Clients, Alone(c), NEW d \in Clients \ {c}
    PROVE  call[d].at = "none" /\ ~Sending(d)
  BY DEF Alone, Working, Sending, Free, CleanInv, RowsInv, PartOK

LEMMA ComparableStays ==
    ASSUME UNCHANGED <<Sotrmap, db>>, NEW v, Comparable(v)
    PROVE  Comparable(v)'
  BY DEF Comparable, Known

LEMMA CleanStart ==
    ASSUME SyncInv, RowsInv, CleanInv, NEW c \in Clients, NEW v \in Dumps, Start(c, v), clean'[c]
    PROVE  CleanFor(c, v)'
<1>1. /\ client' = [client EXCEPT ![c] = Opened(v, "dep")] /\ UNCHANGED store /\ ~Working(c)
      /\ FlashCounter = 0 /\ (\A e \in Clients \ {c} : ~Working(e)) /\ Comparable(v)
  BY DEF Start, Undisturbed
<1>2. client'[c] = Opened(v, "dep") /\ \A d \in Clients \ {c} : client'[d] = client[d]
  BY <1>1 DEF SyncInv
<1>3. client'[c].part = "dep" /\ client'[c].dump = v /\ client'[c].left = File[v]["dep"]
  BY <1>2 DEF Opened
<1>4. UNCHANGED <<call, FlashCounter, Depmap, Sotrmap, db>>
  BY <1>1 DEF store
<1>5. call[c].at = "none"
  BY <1>1 DEF Working, Sending, Free, CleanInv, RowsInv, PartOK
<1>6. Alone(c)'
  BY <1>1, <1>2, <1>4, AloneStays DEF Alone
<1>7. Halfway(c, "dep", v, 1)'
  <2>1. 1 \in 1..(Len(File[v]["dep"]) + 1)
        /\ File[v]["dep"] = From(File[v]["dep"], 1)
    BY FileForm, SubSeqProperties DEF From
  <2>2. RowsIn("dep", v, 1 - 1)'
    BY DEF RowsIn, DepsIn
  <2> QED
    BY <1>3, <1>4, <1>5, <2>1, <2>2 DEF Halfway
<1> QED
  BY <1>1, <1>3, <1>4, <1>6, <1>7, ComparableStays DEF CleanFor

\* Where a command is that still sends: k is its place.
Stands(c, p, v, k) ==
    /\ Halfway(c, p, v, k)
    /\ client[c].left = <<>> <=> k = Len(File[v][p]) + 1
    /\ client[c].left # <<>> =>
          /\ k \in 1..Len(File[v][p]) /\ k + 1 \in 1..(Len(File[v][p]) + 1)
          /\ Head(client[c].left) = File[v][p][k]
          /\ Tail(client[c].left) = From(File[v][p], k + 1)

LEMMA StandsForm ==
    ASSUME SyncInv, NEW c \in Clients, NEW v \in Dumps, CleanFor(c, v), Sending(c),
           NEW p, p = client[c].part
    PROVE  /\ p \in Parts /\ FlashCounter = (IF p = "dep" THEN 0 ELSE 1)
           /\ p = "sotr" => AllDeps(v)
           /\ Comparable(v)
           /\ DOMAIN client[c] = {"part", "dump", "left"} /\ client[c].dump = v
           /\ Len(File[v][p]) \in Nat
           /\ \E k : Stands(c, p, v, k)
<1>1. p \in Parts /\ p # "done"
  BY DEF Sending, Parts
<1>2. DOMAIN client[c] = {"part", "dump", "left"} /\ client[c].dump = v /\ Comparable(v)
  BY <1>1 DEF SyncInv, ClientOK, CleanFor, Past
<1>3. File[v][p] \in Seq(Item) /\ Len(File[v][p]) \in Nat
  BY <1>1, FilesAreItems, LenProperties
<1>4. /\ FlashCounter = (IF p = "dep" THEN 0 ELSE 1) /\ (p = "sotr" => AllDeps(v))
      /\ \E k : Halfway(c, p, v, k)
  BY <1>1 DEF CleanFor, Halfway
<1>5. PICK k : Halfway(c, p, v, k)
  BY <1>4
<1>6. k \in 1..(Len(File[v][p]) + 1) /\ client[c].left = From(File[v][p], k)
  BY <1>5 DEF Halfway
<1>7. Stands(c, p, v, k)
  <2> DEFINE f == File[v][p]
  <2>1. f \in Seq(Item) /\ k \in 1..(Len(f) + 1) /\ client[c].left = From(f, k) /\ Len(f) \in Nat
    BY <1>3, <1>6
  <2> HIDE DEF f
  <2>2. From(f, k) = <<>> <=> k = Len(f) + 1
    BY <2>1, FromForm
  <2>3. From(f, k) # <<>> => Head(From(f, k)) = f[k] /\ Tail(From(f, k)) = From(f, k + 1)
    BY <2>1, FromForm
  <2>4. From(f, k) # <<>> => k \in 1..Len(f) /\ k + 1 \in 1..(Len(f) + 1)
    BY <2>1, <2>2
  <2> QED
    BY <1>5, <2>1, <2>2, <2>3, <2>4 DEF Stands, f
<1> QED
  BY <1>1, <1>2, <1>3, <1>4, <1>7

\* The command goes on with its part.
LEMMA CleanGoesOn ==
    ASSUME NEW c \in Clients, NEW v, NEW p \in Parts, NEW k, Alone(c)', Comparable(v)',
           client'[c].dump = v, FlashCounter' = (IF p = "dep" THEN 0 ELSE 1),
           p = "sotr" => AllDeps(v)', Halfway(c, p, v, k)'
    PROVE  CleanFor(c, v)'
  BY DEF CleanFor, Parts

LEMMA RowsInStay ==
    ASSUME UNCHANGED <<Depmap, Sotrmap>>, NEW p, NEW v, NEW m
    PROVE  /\ RowsIn(p, v, m) => RowsIn(p, v, m)'
           /\ AllDeps(v) => AllDeps(v)'
           /\ AllSotrs(v) => AllSotrs(v)'
  BY DEF RowsIn, DepsIn, SotrsIn, AllDeps, AllSotrs

LEMMA CleanSendRow ==
    ASSUME SyncInv, NEW c \in Clients, NEW v \in Dumps, CleanFor(c, v), SendRow(c)
    PROVE  CleanFor(c, v)'
<1>0. PICK p, i : p = client[c].part /\ i = Head(client[c].left)
  OBVIOUS
<1> DEFINE f == File[v][p]
<1>1. /\ Sending(c) /\ call[c].at = "none" /\ client[c].left # <<>> /\ ~Refused(i)
      /\ call' = [call EXCEPT ![c].at = "save", ![c].item = i]
      /\ client' = [client EXCEPT ![c] = Sent(c)]
      /\ UNCHANGED <<Depmap, Sotrmap, FlashCounter, db>>
  BY <1>0 DEF SendRow, Free
<1>2. /\ p \in Parts /\ FlashCounter = (IF p = "dep" THEN 0 ELSE 1) /\ (p = "sotr" => AllDeps(v))
      /\ DOMAIN client[c] = {"part", "dump", "left"} /\ client[c].dump = v /\ Len(f) \in Nat
  BY <1>0, <1>1, StandsForm
<1>3. PICK k \in 1..Len(f) : /\ Halfway(c, p, v, k) /\ k + 1 \in 1..(Len(f) + 1)
                             /\ i = f[k] /\ Tail(client[c].left) = From(f, k + 1)
  <2>1. PICK k : Stands(c, p, v, k)
    BY <1>0, <1>1, StandsForm
  <2> QED
    BY <1>0, <1>1, <2>1 DEF Stands
<1>4. RowsIn(p, v, k - 1)
  BY <1>1, <1>3 DEF Halfway
<1>5. /\ client'[c].part = p /\ client'[c].dump = v /\ client'[c].left = Tail(client[c].left)
      /\ \A d \in Clients \ {c} : client'[d] = client[d]
  BY <1>0, <1>1, <1>2 DEF Sent, SyncInv
<1> HIDE DEF f
<1>6. /\ call'[c].at = "save" /\ call'[c].item = i
      /\ \A d \in Clients \ {c} : call'[d] = call[d]
  BY <1>1, CallForm DEF SyncInv
<1>7. Alone(c)'
  BY <1>5, <1>6, AloneStays DEF CleanFor
<1>8. RowsIn(p, v, k - 1)' /\ (p = "sotr" => AllDeps(v)')
  BY <1>1, <1>2, <1>4, RowsInStay
<1>9. (k + 1) - 1 = k /\ (k + 1) - 2 = k - 1 /\ k + 1 > 1
  BY <1>2
<1>10. Halfway(c, p, v, k + 1)'
  BY <1>1, <1>3, <1>5, <1>6, <1>8, <1>9 DEF Halfway, f
<1>11. Comparable(v)'
  BY <1>0, <1>1, StandsForm, ComparableStays
<1> QED
  BY <1>1, <1>2, <1>5, <1>7, <1>8, <1>10, <1>11, CleanGoesOn

LEMMA CleanRowFails ==
    ASSUME SyncInv, NEW c \in Clients, NEW v \in Dumps, CleanFor(c, v), RowFails(c), up
    PROVE  CleanFor(c, v)'
<1>0. PICK p, i : p = client[c].part /\ i = Head(client[c].left)
  OBVIOUS
<1> DEFINE f == File[v][p]
<1>1. /\ Sending(c) /\ call[c].at = "none" /\ client[c].left # <<>> /\ Refused(i)
      /\ client' = [client EXCEPT ![c] = Sent(c)]
      /\ UNCHANGED <<call, Depmap, Sotrmap, FlashCounter, db>>
  BY <1>0 DEF RowFails, Free, store
<1>2. /\ p \in Parts /\ FlashCounter = (IF p = "dep" THEN 0 ELSE 1) /\ (p = "sotr" => AllDeps(v))
      /\ DOMAIN client[c] = {"part", "dump", "left"} /\ client[c].dump = v /\ Len(f) \in Nat
  BY <1>0, <1>1, StandsForm
<1>3. PICK k \in 1..Len(f) : /\ Halfway(c, p, v, k) /\ k + 1 \in 1..(Len(f) + 1)
                             /\ i = f[k] /\ Tail(client[c].left) = From(f, k + 1)
  <2>1. PICK k : Stands(c, p, v, k)
    BY <1>0, <1>1, StandsForm
  <2> QED
    BY <1>0, <1>1, <2>1 DEF Stands
<1>4. RowsIn(p, v, k - 1)
  BY <1>1, <1>3 DEF Halfway
<1>5. /\ client'[c].part = p /\ client'[c].dump = v /\ client'[c].left = Tail(client[c].left)
      /\ \A d \in Clients \ {c} : client'[d] = client[d]
  BY <1>0, <1>1, <1>2 DEF Sent, SyncInv
<1>6. p = "sotr"
  <2>1. p = "dep" => IsDep(i)
    BY <1>3, FileForm
  <2> QED
    BY <1>1, <1>2, <2>1 DEF Refused, Parts
<1>7. Alone(c)'
  BY <1>1, <1>5, AloneStays DEF CleanFor
<1>8. RowsIn(p, v, (k + 1) - 1)' /\ (p = "sotr" => AllDeps(v)')
  <2> DEFINE m == k - 1
  <2>1. m \in Nat /\ m + 1 <= Len(File[v]["sotr"]) /\ m + 1 = k /\ (k + 1) - 1 = k
    BY <1>2, <1>3, <1>6
  <2>2. SotrsIn(v, m) /\ i = File[v]["sotr"][m + 1]
    BY <1>3, <1>4, <1>6, <2>1 DEF RowsIn
  <2> HIDE DEF m
  <2>3. SotrsIn(v, m + 1)'
    BY <1>1, <2>1, <2>2, SotrSaved DEF SyncInv
  <2> QED
    BY <1>1, <1>2, <1>6, <2>1, <2>3, RowsInStay DEF RowsIn
<1> HIDE DEF f
<1>9. Halfway(c, p, v, k + 1)'
  BY <1>1, <1>3, <1>5, <1>8 DEF Halfway, f
<1>10. Comparable(v)'
  BY <1>0, <1>1, StandsForm, ComparableStays
<1> QED
  BY <1>1, <1>2, <1>5, <1>7, <1>8, <1>9, <1>10, CleanGoesOn

LEMMA CleanSendFlush ==
    ASSUME SyncInv, NEW c \in Clients, NEW v \in Dumps, CleanFor(c, v), SendFlush(c)
    PROVE  CleanFor(c, v)'
<1>0. PICK p : p = client[c].part
  OBVIOUS
<1>1. /\ Sending(c) /\ call[c].at = "none" /\ client[c].left = <<>>
      /\ call' = [call EXCEPT ![c].at = "load"] /\ FlashCounter' = FlashCounter + 1
      /\ client' = [client EXCEPT ![c] = Skipped(c)]
      /\ UNCHANGED <<Depmap, Sotrmap, db>>
  BY DEF SendFlush, Add, Free
<1>2. /\ p \in Parts /\ FlashCounter = (IF p = "dep" THEN 0 ELSE 1) /\ (p = "sotr" => AllDeps(v))
      /\ DOMAIN client[c] = {"part", "dump", "left"} /\ client[c].dump = v
      /\ Len(File[v][p]) \in Nat
  BY <1>0, <1>1, StandsForm
<1>3. PICK k : Stands(c, p, v, k)
  BY <1>0, <1>1, StandsForm
<1>4. RowsIn(p, v, k - 1) /\ k = Len(File[v][p]) + 1
  BY <1>1, <1>3 DEF Stands, Halfway
<1>5. k - 1 = Len(File[v][p])
  BY <1>2, <1>4
<1>6. RowsIn(p, v, Len(File[v][p]))
  BY <1>4, <1>5
<1>7. /\ client'[c].part = (IF p = "dep" THEN "sotr" ELSE "done") /\ client'[c].dump = v
      /\ p = "dep" => client'[c].left = File[v]["sotr"]
      /\ \A d \in Clients \ {c} : client'[d] = client[d]
  BY <1>0, <1>1, <1>2 DEF Skipped, SyncInv
<1>8. call'[c].at = "load" /\ \A d \in Clients \ {c} : call'[d] = call[d]
  BY <1>1, CallForm DEF SyncInv
<1>9. Alone(c)' /\ Comparable(v)'
  BY <1>0, <1>1, <1>7, <1>8, AloneStays, StandsForm, ComparableStays DEF CleanFor
<1>10. CASE p = "dep"
  <2>1. AllDeps(v)'
    BY <1>1, <1>6, <1>10, RowsInStay DEF RowsIn, AllDeps
  <2>2. /\ 1 \in 1..(Len(File[v]["sotr"]) + 1)
        /\ File[v]["sotr"] = From(File[v]["sotr"], 1)
    BY FileForm, SubSeqProperties DEF From
  <2>3. Halfway(c, "sotr", v, 1)'
    BY <1>7, <1>8, <1>10, <2>2 DEF Halfway
  <2>4. FlashCounter' = 1
    BY <1>1, <1>2, <1>10
  <2> QED
    BY <1>7, <1>9, <2>1, <2>3, <2>4 DEF CleanFor
<1>11. CASE p = "sotr"
  <2>1. AllDeps(v)' /\ AllSotrs(v)'
    BY <1>1, <1>2, <1>6, <1>11, RowsInStay DEF RowsIn, AllSotrs
  <2>2. FlashCounter' = 2
    BY <1>1, <1>2, <1>11
  <2>3. Finishing(c, v)'
    BY <1>8, <2>1, <2>2 DEF Finishing
  <2> QED
    BY <1>7, <1>9, <1>11, <2>3 DEF CleanFor
<1> QED
  BY <1>2, <1>10, <1>11 DEF Parts

\* A row of the dump in the map is compared like the dump.
LEMMA ComparableSaved ==
    ASSUME NEW v, Comparable(v), UNCHANGED db, NEW i \in Accepted(v), i \in SotrRow, NEW n,
           DOMAIN Sotrmap = Tabs, Sotrmap' = [Sotrmap EXCEPT ![i.tabnum] = Stamped(i, n)]
    PROVE  Comparable(v)'
<1>0. PICK new : new = Stamped(i, n) /\ new.tabnum = i.tabnum /\ new.email = i.email
  BY StampedForm DEF Columns
<1>1. Sotrmap' = [Sotrmap EXCEPT ![i.tabnum] = new]
  BY <1>0
<1>2. ASSUME NEW t \in Known, NEW r \in Accepted(v) \cup ({Sotrmap'[t]} \ {Absent}), r.tabnum = t
      PROVE  ~DiffPanics(r, db.sotr[t])
  <2>1. r \in Accepted(v) \cup ({Sotrmap[t]} \ {Absent}) \/ (r = new /\ t = i.tabnum)
    BY <1>1, <1>2 DEF Known
  <2>2. CASE r = new /\ t = i.tabnum
    <3>1. ~DiffPanics(i, db.sotr[t])
      BY <2>2 DEF Comparable
    <3> QED
      BY <1>0, <2>2, <3>1 DEF DiffPanics
  <2> QED
    BY <1>2, <2>1, <2>2 DEF Comparable
<1> QED
  BY <1>2 DEF Comparable, Known

\* Nobody else is inside the maps.
LEMMA CleanSave ==
    ASSUME SyncInv, RowsInv, CleanInv, NEW c \in Clients, NEW v \in Dumps, CleanFor(c, v), Save(c),
           UNCHANGED client
    PROVE  CleanFor(c, v)'
<1>1. /\ call[c].at = "save" /\ call' = [call EXCEPT ![c] = NoCall] /\ UNCHANGED <<FlashCounter, db>>
      /\ Put(c)
  <2>1. ~Racing(c)
    BY OthersFree DEF Racing, CleanFor
  <2> QED
    BY <2>1 DEF Save
<1>2. PICK p, i : p = client[c].part /\ i = call[c].item
  OBVIOUS
<1>3. Sending(c)
  BY <1>1 DEF CleanFor, Finishing, Halfway, Sending, Parts, Copying
<1>4. /\ p \in Parts /\ FlashCounter = (IF p = "dep" THEN 0 ELSE 1) /\ (p = "sotr" => AllDeps(v))
      /\ client[c].dump = v /\ Len(File[v][p]) \in Nat /\ Comparable(v)
  BY <1>2, <1>3, StandsForm
<1>5. PICK k : Halfway(c, p, v, k)
  BY <1>2, <1>3, StandsForm DEF Stands
<1>6. /\ k \in 1..(Len(File[v][p]) + 1) /\ client[c].left = From(File[v][p], k) /\ k > 1
      /\ i = File[v][p][k - 1] /\ ~Refused(i) /\ RowsIn(p, v, k - 2)
  BY <1>1, <1>2, <1>5 DEF Halfway
<1>7. PICK m \in Nat : m = k - 2 /\ m + 1 = k - 1 /\ m + 1 <= Len(File[v][p])
  <2>1. k - 2 \in Nat /\ (k - 2) + 1 = k - 1 /\ (k - 2) + 1 <= Len(File[v][p])
    BY <1>4, <1>6
  <2> QED
    BY <2>1
<1>8. i = File[v][p][m + 1] /\ RowsIn(p, v, m)
  BY <1>6, <1>7
<1>9. /\ \A d \in Clients \ {c} : call'[d] = call[d]
      /\ call'[c].at = "none"
  BY <1>1, NoCallForm DEF SyncInv
<1>10. Alone(c)'
  BY <1>9, AloneStays DEF CleanFor
<1>11. RowsIn(p, v, m + 1)' /\ (p = "sotr" => AllDeps(v)') /\ Comparable(v)'
  <2>1. CASE p = "dep"
    <3>1. IsDep(i)
      BY <1>4, <1>7, <1>8, <2>1, FileForm
    <3>2. Depmap' = [Depmap EXCEPT ![i.idr] = i] /\ DOMAIN Depmap = Idrs
      BY <1>1, <1>2, <3>1 DEF Put, RowsInv, MapsOK
    <3>3. DepsIn(v, m + 1)'
      BY <1>7, <1>8, <2>1, <3>2, DepSaved DEF RowsIn
    <3>4. UNCHANGED Sotrmap
      BY <1>1, <1>2, <3>1 DEF Put
    <3> QED
      BY <1>1, <1>4, <2>1, <3>3, <3>4, ComparableStays DEF RowsIn
  <2>2. CASE p = "sotr"
    <3>1. ~IsDep(i)
      BY <1>4, <1>7, <1>8, <2>2, FileForm
    <3>2. /\ Sotrmap' = [Sotrmap EXCEPT ![i.tabnum] = Stamped(i, stamp + 1)] /\ UNCHANGED Depmap
      BY <1>1, <1>2, <3>1 DEF Put
    <3>3. stamp + 1 \in Nat \ {0} /\ DOMAIN Sotrmap = Tabs
      BY DEF SyncInv
    <3>4. \E n \in Nat \ {0} : Sotrmap' = [Sotrmap EXCEPT ![i.tabnum] = Stamped(i, n)]
      BY <3>2, <3>3
    <3>5. SotrsIn(v, m)
      BY <1>8, <2>2 DEF RowsIn
    <3>6. SotrsIn(v, m + 1)'
      BY <1>6, <1>7, <1>8, <2>2, <3>3, <3>4, <3>5, SotrSaved
    <3>7. AllDeps(v)'
      BY <1>4, <2>2, <3>2 DEF AllDeps, DepsIn
    <3>8. Comparable(v)'
      <4>1. i \in Accepted(v) /\ i \in SotrRow
        BY <1>6, <1>7, <1>8, <2>2, FileForm DEF Accepted, ToSet
      <4> QED
        BY <1>1, <1>4, <3>2, <3>3, <4>1, ComparableSaved
    <3> QED
      BY <2>2, <3>6, <3>7, <3>8 DEF RowsIn
  <2> QED
    BY <1>4, <2>1, <2>2 DEF Parts
<1>12. Halfway(c, p, v, k)'
  BY <1>2, <1>6, <1>7, <1>9, <1>11 DEF Halfway
<1> QED
  BY <1>1, <1>4, <1>10, <1>11, <1>12, CleanGoesOn

\* Flush, step by step; the first one only counts.
LEMMA CleanLoad ==
    ASSUME SyncInv, RowsInv, NEW c \in Clients, NEW v \in Dumps, CleanFor(c, v), Load(c), UNCHANGED client
    PROVE  CleanFor(c, v)'
<1>1. /\ call[c].at = "load" /\ UNCHANGED <<Depmap, Sotrmap, FlashCounter, db>>
      /\ Comparable(v) /\ Comparable(v)'
  BY ComparableStays DEF Load, CleanFor, Past
<1>2. ASSUME \A d \in Clients \ {c} : call'[d] = call[d] PROVE Alone(c)'
  BY <1>2, AloneStays DEF CleanFor
<1>3. CASE Sending(c)
  <2>1. PICK p : p = client[c].part
    OBVIOUS
  <2>2. PICK k : Halfway(c, p, v, k)
    BY <1>3, <2>1, StandsForm DEF Stands
  <2>3. /\ FlashCounter = 1 /\ AllDeps(v) /\ p = "sotr" /\ k = 1
        /\ k \in 1..(Len(File[v][p]) + 1) /\ client[c].left = From(File[v][p], k)
        /\ client[c].dump = v
    BY <1>1, <1>3, <2>1, <2>2, StandsForm DEF Halfway
  <2>4. call' = [call EXCEPT ![c] = NoCall]
    BY <2>3 DEF Load, Due
  <2>5. call'[c].at = "none" /\ \A d \in Clients \ {c} : call'[d] = call[d]
    BY <2>4, NoCallForm DEF SyncInv
  <2>6. RowsIn("sotr", v, 1 - 1)'
    BY DEF RowsIn, SotrsIn
  <2>7. Halfway(c, "sotr", v, 1)'
    BY <2>1, <2>3, <2>5, <2>6 DEF Halfway
  <2>8. AllDeps(v)' /\ FlashCounter' = 1
    BY <1>1, <2>3, RowsInStay
  <2> QED
    BY <1>1, <1>2, <2>3, <2>5, <2>7, <2>8 DEF CleanFor
<1>4. CASE ~Sending(c)
  <2>1. /\ client[c].part = "done" /\ client[c].dump = v
        /\ FlashCounter = 2 /\ AllDeps(v) /\ AllSotrs(v)
    BY <1>1, <1>4 DEF CleanFor, Finishing, Halfway, Sending, Parts, Copying
  <2>2. call' = [call EXCEPT ![c].at = "begin"]
    BY <1>1, <2>1, CallForm DEF Load, Due
  <2>3. call'[c].at = "begin" /\ \A d \in Clients \ {c} : call'[d] = call[d]
    BY <2>2, CallForm DEF SyncInv
  <2>4. AllDeps(v)' /\ AllSotrs(v)'
    BY <1>1, <2>1, RowsInStay
  <2>5. Finishing(c, v)'
    BY <2>3, <2>4 DEF Finishing
  <2> QED
    BY <1>1, <1>2, <2>1, <2>3, <2>5 DEF CleanFor
<1> QED
  BY <1>3, <1>4

\* In a transaction a command is past its files.
LEMMA FinishingForm ==
    ASSUME NEW c \in Clients, NEW v \in Dumps, CleanFor(c, v),
           call[c].at \in InFlush \ {"load"}
    PROVE  /\ client[c].part = "done" /\ client[c].dump = v /\ Finishing(c, v)
           /\ call[c].at # "reset" => Comparable(v)
<1>1. call[c].at \notin {"none", "save", "load"}
  BY DEF InFlush
<1> QED
  BY <1>1 DEF CleanFor, Halfway, Past

\* The transaction goes on: what it has collected, or copied, stays.
LEMMA CleanMoves ==
    ASSUME NEW c \in Clients, NEW v \in Dumps, CleanFor(c, v), SyncInv,
           call[c].at \in InFlush \ {"load", "reset"}, UNCHANGED <<client, Sotrmap, db>>,
           NEW k, call' = [call EXCEPT ![c] = k], Finishing(c, v)'
    PROVE  CleanFor(c, v)'
<1>1. client[c].part = "done" /\ client[c].dump = v /\ Comparable(v)
  BY FinishingForm DEF InFlush
<1>2. \A d \in Clients \ {c} : call'[d] = call[d]
  BY DEF SyncInv
<1>3. Alone(c)'
  BY <1>2, AloneStays DEF CleanFor
<1>4. Comparable(v)'
  BY <1>1, ComparableStays
<1> QED
  BY <1>1, <1>3, <1>4 DEF CleanFor

LEMMA CleanDepsSteps ==
    ASSUME SyncInv, NEW c \in Clients, NEW v \in Dumps, CleanFor(c, v),
           CollectDeps(c) \/ UpsertDeps(c), UNCHANGED client
    PROVE  CleanFor(c, v)'
<1>1. call[c].at \in {"begin", "deps"} /\ UNCHANGED <<Depmap, Sotrmap, db>>
  BY DEF CollectDeps, UpsertDeps
<1>2. Finishing(c, v)
  BY <1>1, FinishingForm DEF InFlush
<1>3. PICK k : /\ call' = [call EXCEPT ![c] = k] /\ k.at \in {"deps", "sotrs"}
               /\ LastDeps(v) \subseteq k.deps
  <2>1. CASE CollectDeps(c)
    <3> DEFINE ds == {Depmap[i] : i \in Idrs} \ {Absent}
               k == [call[c] EXCEPT !.at = "deps", !.deps = ds]
    <3>1. call' = [call EXCEPT ![c] = k]
      BY <2>1 DEF CollectDeps
    <3>2. LastDeps(v) \subseteq ds
      BY <1>2, <2>1, AllDepsForm DEF Finishing, CollectDeps, Copying
    <3> HIDE DEF ds
    <3>3. k.at = "deps" /\ k.deps = ds
      BY CallForm
    <3> HIDE DEF k
    <3> QED
      BY <3>1, <3>2, <3>3
  <2>2. CASE UpsertDeps(c)
    <3> DEFINE k == [call[c] EXCEPT !.at = "sotrs"]
    <3>1. call' = [call EXCEPT ![c] = k]
      BY <2>2 DEF UpsertDeps
    <3>2. LastDeps(v) \subseteq call[c].deps
      BY <1>2, <2>2 DEF Finishing, UpsertDeps, Copying
    <3>3. k.at = "sotrs" /\ k.deps = call[c].deps
      BY CallForm
    <3> HIDE DEF k
    <3> QED
      BY <3>1, <3>2, <3>3
  <2> QED
    BY <2>1, <2>2
<1>4. call'[c] = k
  BY <1>3 DEF SyncInv
<1>5. AllSotrs(v)'
  BY <1>1, <1>2, RowsInStay DEF Finishing, Copying
<1>6. Finishing(c, v)'
  BY <1>3, <1>4, <1>5 DEF Finishing
<1> QED
  BY <1>1, <1>3, <1>6, CleanMoves DEF InFlush

LEMMA CleanCopySotrs ==
    ASSUME SyncInv, NEW c \in Clients, NEW v \in Dumps, CleanFor(c, v), CopySotrs(c),
           UNCHANGED <<client, late>>
    PROVE  CleanFor(c, v)'
<1>1. call[c].at = "sotrs" /\ UNCHANGED <<Depmap, Sotrmap, db>>
  BY DEF CopySotrs
<1>2. LastDeps(v) \subseteq call[c].deps /\ AllSotrs(v) /\ AllSotrs(v)'
  BY <1>1, FinishingForm, RowsInStay DEF InFlush, Finishing, Copying
<1> DEFINE rs == {Sotrmap[t] : t \in Wanted(c)}
           k == [call[c] EXCEPT !.at = "read", !.rows = rs]
<1>3. call' = [call EXCEPT ![c] = k]
  BY DEF CopySotrs
<1>4. ASSUME NEW r \in Placed(v) PROVE Sotrmap[r.tabnum] \in rs
  <2>1. /\ r.tabnum \in Tabs /\ r \in SotrRow /\ Sotrmap[r.tabnum] # Absent
        /\ Sotrmap[r.tabnum] = Stamped(r, Sotrmap[r.tabnum].n)
    BY <1>2, AllSotrsForm DEF Placed
  <2>2. Sotrmap[r.tabnum].parent = r.parent
    BY <2>1, StampedForm DEF Columns
  <2>3. \E d \in call[c].deps : d.idr = r.parent
    BY <1>2 DEF Placed
  <2>4. r.tabnum \in Wanted(c)
    BY <2>1, <2>2, <2>3 DEF Wanted
  <2> QED
    BY <2>4
<1>5. \A r \in rs : r = Sotrmap[r.tabnum]
  BY DEF SyncInv, MapOK, Wanted
<1> HIDE DEF rs
<1>6. k.at = "read" /\ k.deps = call[c].deps /\ k.rows = rs
  BY CallForm
<1> HIDE DEF k
<1>7. call'[c] = k /\ late'[c] = {}
  BY <1>1, <1>3, CallForm DEF SyncInv, Copying
<1>8. Finishing(c, v)'
  <2>1. Fresh(c)'
    BY <1>1, <1>5, <1>6, <1>7 DEF Fresh
  <2>2. \A r \in Placed(v) : Sotrmap'[r.tabnum] \in call'[c].rows
    BY <1>1, <1>4, <1>6, <1>7
  <2> QED
    BY <1>2, <1>6, <1>7, <2>1, <2>2 DEF Finishing, Copying
<1> QED
  BY <1>1, <1>3, <1>8, CleanMoves DEF InFlush

LEMMA CleanKeeps ==
    ASSUME SyncInv, NEW c \in Clients, NEW v \in Dumps, CleanFor(c, v),
           BeforeSave(c) \/ UpsertSotrs(c) \/ PreparePhones(c), UNCHANGED <<client, late>>
    PROVE  CleanFor(c, v)'
<1>1. call[c].at \in {"read", "insert", "phones"} /\ UNCHANGED <<Depmap, Sotrmap, db>>
  BY DEF BeforeSave, UpsertSotrs, PreparePhones
<1>2. /\ LastDeps(v) \subseteq call[c].deps /\ AllSotrs(v) /\ AllSotrs(v)' /\ Fresh(c)
      /\ \A r \in Placed(v) : Sotrmap[r.tabnum] \in call[c].rows
  BY <1>1, FinishingForm, RowsInStay DEF InFlush, Finishing, Copying
<1>3. PICK k : /\ call' = [call EXCEPT ![c] = k] /\ k.at \in Copying
               /\ k.deps = call[c].deps /\ k.rows = call[c].rows
               /\ k.at = "commit" => k.seen = [t \in Employees(c) |-> Sotrmap[t]]
  <2>1. ASSUME NEW ds, call' = [call EXCEPT ![c].at = "insert", ![c].diffs = ds]
        PROVE  \E k : /\ call' = [call EXCEPT ![c] = k] /\ k.at = "insert"
                      /\ k.deps = call[c].deps /\ k.rows = call[c].rows
    <3> DEFINE k == [call[c] EXCEPT !.at = "insert", !.diffs = ds]
    <3>1. call' = [call EXCEPT ![c] = k]
      BY <2>1
    <3>2. k.at = "insert" /\ k.deps = call[c].deps /\ k.rows = call[c].rows
      BY CallForm
    <3> HIDE DEF k
    <3> QED
      BY <3>1, <3>2
  <2>2. CASE BeforeSave(c)
    <3>1. \E ds : call' = [call EXCEPT ![c].at = "insert", ![c].diffs = ds]
      BY <2>2 DEF BeforeSave
    <3> QED
      BY <2>1, <3>1 DEF Copying
  <2>3. CASE UpsertSotrs(c)
    <3> DEFINE k == [call[c] EXCEPT !.at = "phones"]
    <3>1. call' = [call EXCEPT ![c] = k]
      BY <2>3 DEF UpsertSotrs
    <3>2. k.at = "phones" /\ k.deps = call[c].deps /\ k.rows = call[c].rows
      BY CallForm
    <3> HIDE DEF k
    <3> QED
      BY <3>1, <3>2 DEF Copying
  <2>4. CASE PreparePhones(c)
    <3> DEFINE s == [t \in Employees(c) |-> Sotrmap[t]]
               k == [call[c] EXCEPT !.at = "commit", !.seen = s]
    <3>1. call' = [call EXCEPT ![c] = k]
      BY <2>4 DEF PreparePhones
    <3> HIDE DEF s
    <3>2. k.at = "commit" /\ k.deps = call[c].deps /\ k.rows = call[c].rows /\ k.seen = s
      BY CallForm
    <3> HIDE DEF k
    <3> QED
      BY <3>1, <3>2 DEF s, Copying
  <2> QED
    BY <2>2, <2>3, <2>4
<1>4. call'[c] = k
  BY <1>3 DEF SyncInv
<1>5. ASSUME k.at = "commit", NEW t \in Employees(c) PROVE k.seen[t] = RowOf(c, t)
  <2>1. RowOf(c, t) \in call[c].rows /\ RowOf(c, t).tabnum = t
    BY RowIs
  <2>2. RowOf(c, t) = Sotrmap[t]
    BY <1>2, <2>1 DEF Fresh
  <2>3. k.seen = [u \in Employees(c) |-> Sotrmap[u]]
    BY <1>3, <1>5
  <2> QED
    BY <2>2, <2>3
<1>6. Employees(c)' = Employees(c) /\ \A t : RowOf(c, t)' = RowOf(c, t)
  BY <1>3, <1>4 DEF Employees, RowOf
<1>7. Fresh(c)'
  BY <1>1, <1>2, <1>3, <1>4 DEF Fresh
<1>8. Finishing(c, v)'
  BY <1>1, <1>2, <1>3, <1>4, <1>5, <1>6, <1>7 DEF Finishing
<1> QED
  BY <1>1, <1>3, <1>8, CleanMoves DEF InFlush

\* Neither the dump nor the map has brought it a row that Diff cannot compare.
LEMMA CleanNoPanic ==
    ASSUME SyncInv, NEW c \in Clients, NEW v \in Dumps, CleanFor(c, v)
    PROVE  ~Panic(c)
<1> SUFFICES ASSUME call[c].at = "read", NEW t \in Old(c) PROVE ~DiffPanics(RowOf(c, t), db.sotr[t])
  BY DEF Panic, Panics
<1>1. Fresh(c) /\ Comparable(v)
  BY FinishingForm DEF InFlush, Finishing, Copying
<1>2. t \in Employees(c) /\ t \in Known /\ t \in Tabs
  BY RowIs DEF Old, Known
<1>3. RowOf(c, t) \in call[c].rows /\ RowOf(c, t).tabnum = t
  BY <1>2, RowIs
<1>4. RowOf(c, t) = Sotrmap[t] /\ Sotrmap[t] # Absent
  <2>1. RowOf(c, t) = Sotrmap[t]
    BY <1>1, <1>3 DEF Fresh
  <2>2. Copied(RowOf(c, t), call[c].deps)
    BY <1>3 DEF SyncInv, CallOK
  <2> QED
    BY <1>3, <2>1, <2>2 DEF Copied
<1> QED
  BY <1>1, <1>2, <1>3, <1>4 DEF Comparable

LEMMA CleanCommit ==
    ASSUME SyncInv, RowsInv, EntriesInv, NEW c \in Clients, NEW v \in Dumps, CleanFor(c, v), Commit(c),
           UNCHANGED client
    PROVE  CleanFor(c, v)'
<1>1. call[c].at = "commit" /\ call' = [call EXCEPT ![c] = [NoCall EXCEPT !.at = "reset"]]
  BY DEF Commit
<1>2. /\ client[c].part = "done" /\ client[c].dump = v
      /\ LastDeps(v) \subseteq call[c].deps /\ AllSotrs(v) /\ Fresh(c)
      /\ \A r \in Placed(v) : Sotrmap[r.tabnum] \in call[c].rows
      /\ \A t \in Employees(c) : call[c].seen[t] = RowOf(c, t)
  BY <1>1, FinishingForm DEF InFlush, Finishing
<1>3. /\ call'[c].at = "reset" /\ \A d \in Clients \ {c} : call'[d] = call[d]
  BY <1>1, NoCallForm DEF SyncInv
<1>4. Alone(c)'
  BY <1>3, AloneStays DEF CleanFor
<1>5. LastDeps(v) \subseteq db'.dep
  BY <1>2 DEF Commit, DepTable
<1>6. ASSUME NEW r \in Placed(v)
      PROVE  /\ r.tabnum \in Known'
             /\ \A g \in Columns : db'.sotr[r.tabnum][g] = r[g]
             /\ db'.phones[r.tabnum] = ToSet(r.phone)
  <2>1. PICK t, q : t = r.tabnum /\ q = Sotrmap[t]
    OBVIOUS
  <2>2. /\ t \in Tabs /\ r \in SotrRow /\ q # Absent /\ q = Stamped(r, q.n) /\ q \in call[c].rows
    BY <1>2, <2>1, AllSotrsForm DEF Placed
  <2>3. q.tabnum = t /\ q.phone = r.phone /\ \A g \in Columns : q[g] = r[g]
    BY <2>1, <2>2, StampedForm
  <2>4. t \in Employees(c) \ late[c]
    BY <1>2, <2>2, <2>3 DEF Employees, Fresh
  <2>5. RowOf(c, t) = q
    BY <2>2, <2>3, <2>4, RowIs
  <2>6. db'.sotr[t] = Stored(q, call[c].deps)
    BY <2>2, <2>4, <2>5, CommitData
  <2>7. /\ Stored(q, call[c].deps) # Absent
        /\ \A g \in Columns : Stored(q, call[c].deps)[g] = q[g]
    BY DEF Stored, Absent, Columns
  <2>8. db'.phones[t] = ToSet(q.phone)
    BY <1>2, <2>4, <2>5, CommitPhones
  <2> QED
    BY <2>1, <2>2, <2>3, <2>6, <2>7, <2>8 DEF Known
<1>7. Arrived(v)'
  BY <1>5, <1>6 DEF Arrived
<1>8. Finishing(c, v)' /\ Past(c)'
  BY <1>2, <1>3, <1>7 DEF Finishing, Past
<1> QED
  BY <1>2, <1>4, <1>8 DEF CleanFor

\* Once it has arrived, what ends calls leaves it there.
LEMMA CleanEnds ==
    ASSUME SyncInv, NEW c \in Clients, NEW v \in Dumps, CleanFor(c, v), UNCHANGED <<client, db>>,
           client[c].part = "done", call[c].at \in {"none", "reset"},
           call'[c].at = "none",
           \A d \in Clients \ {c} : call'[d] = call[d] \/ call'[d].at = "none"
    PROVE  CleanFor(c, v)'
<1>1. client[c].dump = v /\ Alone(c) /\ Arrived(v)
  BY DEF CleanFor, Finishing, Halfway, Copying
<1>2. Alone(c)'
  BY <1>1, AloneStays
<1>3. Arrived(v)'
  BY <1>1 DEF Arrived, Known
<1> QED
  BY <1>1, <1>2, <1>3 DEF CleanFor, Finishing, Past

\* What a step that is not of c and changes neither its record nor its call does.
LEMMA CleanStays ==
    ASSUME NEW c \in Clients, NEW v \in Dumps, CleanFor(c, v),
           UNCHANGED <<client, call, Depmap, Sotrmap, FlashCounter, db, late>>
    PROVE  CleanFor(c, v)'
<1>1. Alone(c)'
  BY AloneStays DEF CleanFor
<1>2. \A p, k : Halfway(c, p, v, k) => Halfway(c, p, v, k)'
  BY RowsInStay DEF Halfway
<1>3. Finishing(c, v) => Finishing(c, v)'
  <2>1. \A t : Employees(c)' = Employees(c) /\ RowOf(c, t)' = RowOf(c, t)
    BY DEF Employees, RowOf
  <2>2. Fresh(c)' = Fresh(c) /\ Arrived(v)' = Arrived(v)
    BY DEF Fresh, Arrived, Known
  <2> QED
    BY <2>1, <2>2, RowsInStay DEF Finishing
<1>4. AllDeps(v) => AllDeps(v)'
  BY RowsInStay
<1>5. Comparable(v) => Comparable(v)'
  BY ComparableStays
<1> QED
  BY <1>1, <1>2, <1>3, <1>4, <1>5 DEF CleanFor, Past

LEMMA CleanClientStep ==
    ASSUME SyncInv, RowsInv, CleanInv, NEW c \in Clients, clean'[c], NEW e \in Clients,
           (\E v \in Dumps : Start(e, v)) \/ ClientStep(e)
    PROVE  \E v \in Dumps : CleanFor(c, v)'
<1>1. ASSUME NEW v \in Dumps, Start(e, v) PROVE CleanFor(c, v)'
  <2>1. c = e
    BY <1>1 DEF Start
  <2> QED
    BY <1>1, <2>1, CleanStart
<1>2. CASE ClientStep(e)
  <2>1. /\ Sending(e) /\ clean[c]
        /\ \/ SendRow(e) \/ SendFlush(e) \/ (RowFails(e) /\ up)
           \/ c # e
    <3>1. Sending(e)
      BY <1>2 DEF ClientStep, SendRow, RowFails, SendFlush, FlushFails, ReadFails, OpenFails, Expire
    <3>2. \/ (SendRow(e) \/ SendFlush(e) \/ (RowFails(e) /\ up)) /\ UNCHANGED clean
          \/ Soil(e)
      BY <1>2 DEF ClientStep, SendRow, RowFails, SendFlush, FlushFails, ReadFails, OpenFails, Expire
    <3>3. Soil(e) => c # e /\ clean[c]
      BY DEF Soil, CleanInv
    <3> QED
      BY <3>1, <3>2, <3>3
  <2>2. PICK v \in Dumps : CleanFor(c, v)
    BY <2>1 DEF CleanInv
  <2>3. c = e
    BY <2>1, <2>2, OthersFree DEF CleanFor
  <2> QED
    BY <2>1, <2>2, <2>3, CleanSendRow, CleanSendFlush, CleanRowFails
<1> QED
  BY <1>1, <1>2

LEMMA HandlerBusy ==
    ASSUME NEW c \in Clients, HandlerStep(c)
    PROVE  call[c].at # "none"
  BY HandlerSteps DEF Save, Load, CollectDeps, UpsertDeps, CopySotrs, BeforeSave, UpsertSotrs,
                      PreparePhones, Commit, Reset, Rollback, Panic, InFlush

LEMMA CleanHandlerStep ==
    ASSUME SyncInv, RowsInv, EntriesInv, CleanInv, NEW c \in Clients, clean'[c], NEW e \in Clients,
           HandlerStep(e)
    PROVE  \E v \in Dumps : CleanFor(c, v)'
<1>1. UNCHANGED client /\ clean[c] /\ call[e].at # "none"
  <2>1. SoilAll => clean[c]
    BY DEF SoilAll
  <2> QED
    BY <2>1, HandlerBusy DEF HandlerStep
<1>2. PICK v \in Dumps : CleanFor(c, v)
  BY <1>1 DEF CleanInv
<1>3. c = e
  BY <1>1, <1>2, OthersFree DEF CleanFor
<1>4. UNCHANGED ghosts => UNCHANGED late
  BY DEF ghosts
<1>5. CASE Reset(c)
  <2>1. /\ call[c].at = "reset" /\ call' = [call EXCEPT ![c] = NoCall] /\ UNCHANGED db
    BY <1>5 DEF Reset
  <2>2. /\ call'[c].at = "none" /\ \A d \in Clients \ {c} : call'[d] = call[d]
    BY <2>1, NoCallForm DEF SyncInv
  <2>3. client[c].part = "done"
    BY <1>2, <2>1, FinishingForm DEF InFlush
  <2> QED
    BY <1>1, <1>2, <2>1, <2>2, <2>3, CleanEnds
<1>6. ~(Rollback(c) /\ SoilAll)
  <2> SUFFICES ASSUME Rollback(c), SoilAll PROVE FALSE
    OBVIOUS
  <2>1. call[c].at \in InFlush \ {"load"} /\ call[c].at # "none"
    BY DEF Rollback, InFlush
  <2>2. Working(c)
    BY <1>2, <2>1, FinishingForm DEF Working, Free
  <2> QED
    BY <2>2 DEF SoilAll
<1>7. CASE (Rollback(e) /\ SoilAll) \/ Panic(e)
  BY <1>2, <1>3, <1>6, <1>7, CleanNoPanic
<1>8. CASE Save(e) \/ Load(e) \/ Commit(e)
  BY <1>1, <1>2, <1>3, <1>8, CleanSave, CleanLoad, CleanCommit
<1>9. CASE (CollectDeps(e) \/ UpsertDeps(e) \/ CopySotrs(e)) /\ UNCHANGED ghosts
  BY <1>1, <1>2, <1>3, <1>4, <1>9, CleanDepsSteps, CleanCopySotrs
<1>10. CASE (BeforeSave(e) \/ UpsertSotrs(e) \/ PreparePhones(e)) /\ UNCHANGED ghosts
  BY <1>1, <1>2, <1>3, <1>4, <1>10, CleanKeeps
<1> QED
  BY <1>3, <1>5, <1>7, <1>8, <1>9, <1>10 DEF HandlerStep

LEMMA CleanServerStep ==
    ASSUME SyncInv, RowsInv, CleanInv, NEW c \in Clients, clean'[c], ServerStep
    PROVE  \E v \in Dumps : CleanFor(c, v)'
<1>1. CASE Crash /\ SoilAll
  <2>1. /\ clean[c] /\ ~Working(c) /\ UNCHANGED <<client, db>>
        /\ call' = [d \in Clients |-> NoCall]
    BY <1>1 DEF SoilAll, Crash, Dies, ServerStep
  <2>2. PICK v \in Dumps : CleanFor(c, v)
    BY <2>1 DEF CleanInv
  <2>3. client[c].part = "done" /\ call[c].at = "none"
    BY <2>1, <2>2 DEF CleanFor, Halfway, Working, Sending, Parts, Free
  <2>4. \A d \in Clients : call'[d].at = "none"
    BY <2>1, NoCallForm
  <2> QED
    BY <2>1, <2>2, <2>3, <2>4, CleanEnds
<1>2. CASE Restart /\ UNCHANGED <<clean, ghosts>>
  <2>1. UNCHANGED <<client, call, Depmap, Sotrmap, FlashCounter, db, late, clean>>
    BY <1>2 DEF Restart, ServerStep, ghosts
  <2>2. PICK v \in Dumps : CleanFor(c, v)
    BY <2>1 DEF CleanInv
  <2> QED
    BY <2>1, <2>2, CleanStays
<1> QED
  BY <1>1, <1>2 DEF ServerStep

\* A client has a call only after a command has begun.
LEMMA IdleStep ==
    ASSUME SyncInv, RowsInv, CleanInv, [Next]_vars, NEW d \in Clients, client'[d].part = "idle"
    PROVE  Free(d)'
<1>1. ASSUME NEW e \in Clients, NEW k, client' = [client EXCEPT ![e] = k], k.part # "idle",
             \A b \in Clients \ {e} : call'[b] = call[b]
      PROVE  Free(d)'
  <2>1. d # e /\ client'[d] = client[d] /\ call'[d] = call[d]
    BY <1>1 DEF SyncInv
  <2> QED
    BY <2>1 DEF CleanInv, Free
<1>2. ASSUME NEW e \in Clients, (\E v \in Dumps : Start(e, v)) \/ ClientStep(e) PROVE Free(d)'
  <2>1. \A b \in Clients \ {e} : call'[b] = call[b]
    BY <1>2 DEF ClientStep, Start, SendRow, RowFails, SendFlush, Add, FlushFails, ReadFails, OpenFails,
                Expire, store, SyncInv
  <2>2. ASSUME NEW v \in Dumps, Start(e, v) PROVE Free(d)'
    <3>1. client' = [client EXCEPT ![e] = Opened(v, "dep")] /\ Opened(v, "dep").part = "dep"
      BY <2>2 DEF Start, Opened
    <3> QED
      BY <1>1, <2>1, <3>1
  <2>3. CASE SendRow(e) \/ RowFails(e)
    <3>1. Sending(e) /\ client[e].left # <<>> /\ client' = [client EXCEPT ![e] = Sent(e)]
      BY <2>3 DEF SendRow, RowFails
    <3>2. Sent(e).part # "idle"
      BY <3>1, ClientStepForm DEF Sending, Parts
    <3> QED
      BY <1>1, <2>1, <3>1, <3>2
  <2>4. CASE SendFlush(e) \/ FlushFails(e) \/ OpenFails(e)
    <3>1. Sending(e) /\ client' = [client EXCEPT ![e] = Skipped(e)]
      BY <2>4 DEF SendFlush, FlushFails, OpenFails
    <3>2. Skipped(e).part # "idle"
      BY <3>1, ClientStepForm
    <3> QED
      BY <1>1, <2>1, <3>1, <3>2
  <2>5. CASE ReadFails(e) \/ Expire(e)
    <3>1. PICK k : /\ client' = [client EXCEPT ![e] = k] /\ Sending(e)
                   /\ \/ k = [client[e] EXCEPT !.left = <<>>]
                      \/ k = [client[e] EXCEPT !.part = "done", !.left = <<>>]
      BY <2>5 DEF ReadFails, Expire
    <3>2. DOMAIN client[e] = {"part", "dump", "left"} /\ client[e].part # "idle"
      BY <3>1 DEF SyncInv, ClientOK, Sending, Parts
    <3>3. k.part # "idle"
      BY <3>1, <3>2
    <3> QED
      BY <1>1, <2>1, <3>1, <3>3
  <2> QED
    BY <1>2, <2>2, <2>3, <2>4, <2>5 DEF ClientStep
<1>3. ASSUME UNCHANGED client, call'[d] = call[d] \/ call'[d].at = "none" PROVE Free(d)'
  BY <1>3 DEF CleanInv, Free
<1>4. ASSUME NEW e \in Clients, HandlerStep(e) PROVE Free(d)'
  <2>1. UNCHANGED client /\ call[d].at = "none"
    BY <1>4 DEF HandlerStep, CleanInv, Free
  <2>2. e # d
    BY <1>4, <2>1, HandlerBusy
  <2>3. call'[d] = call[d] \/ call'[d].at = "none"
    <3>1. CASE Dies
      BY <3>1, NoCallForm DEF Dies
    <3>2. CASE BeforeSave(e)
      <4>1. PICK k : call' = [call EXCEPT ![e].at = "insert", ![e].diffs = k]
        BY <3>2 DEF BeforeSave
      <4> QED
        BY <2>2, <4>1 DEF SyncInv
    <3>3. CASE \/ Save(e) \/ Load(e) \/ CollectDeps(e) \/ UpsertDeps(e) \/ CopySotrs(e)
               \/ UpsertSotrs(e) \/ PreparePhones(e) \/ Commit(e) \/ Reset(e) \/ Rollback(e)
      BY <2>2, <3>3 DEF Save, Load, CollectDeps, UpsertDeps, CopySotrs, UpsertSotrs, PreparePhones,
                        Commit, Reset, Rollback, SyncInv
    <3> QED
      BY <1>4, <3>1, <3>2, <3>3 DEF HandlerStep, Panic
  <2> QED
    BY <1>3, <2>1, <2>3
<1>5. CASE ServerStep
  <2>1. UNCHANGED client /\ (call'[d] = call[d] \/ call'[d].at = "none")
    BY <1>5, NoCallForm DEF ServerStep, Crash, Dies, Restart
  <2> QED
    BY <1>3, <2>1
<1>6. CASE AllDone \/ UNCHANGED vars
  BY <1>3, <1>6 DEF AllDone, vars, store
<1> QED
  BY <1>2, <1>4, <1>5, <1>6 DEF Next

LEMMA CleanStep ==
    ASSUME SyncInv, RowsInv, EntriesInv, CleanInv, [Next]_vars
    PROVE  CleanInv'
<1>1. DOMAIN clean' = Clients
  <2>1. \/ UNCHANGED clean \/ SoilAll \/ (\E c \in Clients : Soil(c))
        \/ \E c \in Clients : \E v \in Dumps : Start(c, v)
    BY DEF Next, ClientStep, SendRow, RowFails, SendFlush, FlushFails, ReadFails, OpenFails, Expire,
           HandlerStep, ServerStep, AllDone, vars
  <2> QED
    BY <2>1 DEF SoilAll, Soil, Start, CleanInv
<1>2. \A d \in Clients : client'[d].part = "idle" => Free(d)'
  BY IdleStep
<1>3. ASSUME NEW c \in Clients, clean'[c] PROVE \E v \in Dumps : CleanFor(c, v)'
  <2>1. CASE AllDone \/ UNCHANGED vars
    <3>1. UNCHANGED <<client, call, Depmap, Sotrmap, FlashCounter, db, late, clean>>
      BY <2>1 DEF AllDone, vars, store
    <3>2. PICK v \in Dumps : CleanFor(c, v)
      BY <1>3, <3>1 DEF CleanInv
    <3> QED
      BY <3>1, <3>2, CleanStays
  <2> QED
    BY <1>3, <2>1, CleanClientStep, CleanHandlerStep, CleanServerStep DEF Next
<1> QED
  BY <1>1, <1>2, <1>3 DEF CleanInv

\* A command that finds the counter at zero, nobody beside it and an e-mail in
\* every row that Diff will compare (Undisturbed) and meets none of the faults of
\* FaultNames ends with its departments and the rows and phones of their
\* employees in the database, whatever else earlier commands have left in the
\* maps; its transaction does not panic.
THEOREM CleanSyncsArrive == Spec => []CleanSyncArrives
<1>1. ASSUME SyncInv, RowsInv, EntriesInv, CleanInv, [Next]_vars
      PROVE  SyncInv' /\ RowsInv' /\ EntriesInv' /\ CleanInv'
  BY <1>1, SyncStep, RowsStep, EntriesStep, CleanStep
<1>2. CleanInv => CleanSyncArrives
  <2> SUFFICES ASSUME CleanInv, NEW c \in Clients, clean[c], ~Working(c)
               PROVE  /\ LastDeps(client[c].dump) \subseteq db.dep
                      /\ \A r \in LastSotrs(client[c].dump) :
                            (\E d \in LastDeps(client[c].dump) : d.idr = r.parent) =>
                                /\ r.tabnum \in Known
                                /\ \A g \in Columns : db.sotr[r.tabnum][g] = r[g]
                                /\ db.phones[r.tabnum] = ToSet(r.phone)
    BY DEF CleanSyncArrives
  <2>1. PICK v \in Dumps : CleanFor(c, v)
    BY DEF CleanInv
  <2>2. client[c].dump = v /\ Arrived(v)
    BY <2>1 DEF CleanFor, Halfway, Finishing, Working, Sending, Parts, Free, Copying
  <2> QED
    BY <2>2 DEF Arrived, Placed
<1> QED
  BY <1>1, <1>2, InitSync, InitRows, InitEntries, InitClean, PTL DEF Spec

-----------------------------------------------------------------------------
(* Who can pass whom. *)

KeysOf(S) == {x.idr : x \in S}
Held == {i \in Idrs : Depmap[i] # Absent}

\* Depmap only gains keys while the server lives, and a transaction collects
\* them all: the keys of two transactions are those of an earlier and of a
\* later look.
KeysInv ==
    /\ \A i \in Idrs : Depmap[i] # Absent => Depmap[i].idr = i
    /\ \A c \in Clients : KeysOf(call[c].deps) \subseteq Held
    /\ \A c, d \in Clients :
          \/ KeysOf(call[c].deps) \subseteq KeysOf(call[d].deps)
          \/ KeysOf(call[d].deps) \subseteq KeysOf(call[c].deps)

LEMMA InitKeys == Init => KeysInv
<1> SUFFICES ASSUME Init PROVE KeysInv
  OBVIOUS
<1>1. (\A i \in Idrs : Depmap[i] = Absent) /\ \A c \in Clients : call[c].deps = {}
  BY DEF Init, StoreInit, NewMaps, NoCall
<1> QED
  BY <1>1 DEF KeysInv, KeysOf

\* Calls keep what they have collected or drop it, the map gains rows.
LEMMA KeysKept ==
    ASSUME KeysInv,
           \A c \in Clients : call'[c].deps = call[c].deps \/ call'[c].deps = {},
           \A i \in Idrs :
               \/ Depmap'[i] = Depmap[i]
               \/ Depmap'[i] # Absent /\ Depmap'[i].idr = i
    PROVE  KeysInv'
<1>1. \A c \in Clients : KeysOf(call'[c].deps) = KeysOf(call[c].deps) \/ KeysOf(call'[c].deps) = {}
  BY DEF KeysOf
<1>2. Held \subseteq Held'
  BY DEF Held
<1> QED
  BY <1>1, <1>2 DEF KeysInv

LEMMA KeysCollected ==
    ASSUME SyncInv, KeysInv, NEW c \in Clients, CollectDeps(c)
    PROVE  KeysInv'
<1> DEFINE ds == {Depmap[i] : i \in Idrs} \ {Absent}
<1>1. UNCHANGED Depmap /\ call' = [call EXCEPT ![c].at = "deps", ![c].deps = ds]
  BY DEF CollectDeps
<1>2. KeysOf(ds) = Held
  BY DEF KeysInv, KeysOf, Held
<1> HIDE DEF ds
<1>3. call'[c].deps = ds /\ \A d \in Clients \ {c} : call'[d] = call[d]
  BY <1>1, CallForm DEF SyncInv
<1>4. Held' = Held
  BY <1>1 DEF Held
<1>5. \A d \in Clients : \/ KeysOf(call'[d].deps) = KeysOf(call[d].deps)
                         \/ d = c /\ KeysOf(call'[d].deps) = Held
  BY <1>2, <1>3
<1> QED
  BY <1>1, <1>4, <1>5 DEF KeysInv

LEMMA KeysSaved ==
    ASSUME SyncInv, RowsInv, KeysInv, NEW c \in Clients, Save(c)
    PROVE  KeysInv'
<1>1. /\ call[c].at = "save" /\ call' = [call EXCEPT ![c] = NoCall]
      /\ \/ UNCHANGED Depmap
         \/ IsDep(call[c].item) /\ Depmap' = [Depmap EXCEPT ![call[c].item.idr] = call[c].item]
  BY DEF Save, Put
<1>2. \A d \in Clients : call'[d].deps = call[d].deps \/ call'[d].deps = {}
  BY <1>1, NoCallForm DEF SyncInv
<1>3. ASSUME NEW i \in Idrs
      PROVE  Depmap'[i] = Depmap[i] \/ (Depmap'[i] # Absent /\ Depmap'[i].idr = i)
  <2>1. CASE UNCHANGED Depmap
    BY <2>1
  <2>2. ASSUME NEW r, r = call[c].item, IsDep(r), Depmap' = [Depmap EXCEPT ![r.idr] = r]
        PROVE  Depmap'[i] = Depmap[i] \/ (Depmap'[i] # Absent /\ Depmap'[i].idr = i)
    <3>1. r \in DepRows \cup SotrRows /\ DOMAIN Depmap = Idrs
      BY <1>1, <2>2 DEF RowsInv, HandlerOK, MapsOK
    <3>2. r # Absent
      BY <2>2 DEF IsDep, Absent
    <3> QED
      BY <2>2, <3>1, <3>2
  <2> QED
    BY <1>1, <2>1, <2>2
<1> QED
  BY <1>2, <1>3, KeysKept

LEMMA KeysHandler ==
    ASSUME SyncInv, RowsInv, KeysInv, NEW c \in Clients, HandlerStep(c)
    PROVE  KeysInv'
<1>1. CASE Dies
  <2>1. (\A i \in Idrs : Depmap'[i] = Absent) /\ \A d \in Clients : call'[d].deps = {}
    BY <1>1, NoCallForm DEF Dies
  <2> QED
    BY <2>1 DEF KeysInv, KeysOf
<1>2. ASSUME NEW k, call' = [call EXCEPT ![c] = k], k.deps = call[c].deps \/ k.deps = {}, UNCHANGED Depmap
      PROVE  KeysInv'
  <2>1. \A d \in Clients : call'[d].deps = call[d].deps \/ call'[d].deps = {}
    BY <1>2 DEF SyncInv
  <2> QED
    BY <1>2, <2>1, KeysKept
<1>3. CASE Load(c) \/ Reset(c) \/ Rollback(c) \/ Commit(c)
  <2>1. \E k : /\ call' = [call EXCEPT ![c] = k] /\ (k.deps = call[c].deps \/ k.deps = {})
               /\ UNCHANGED Depmap
    <3>1. [NoCall EXCEPT !.at = "reset"].deps = {} /\ [NoCall EXCEPT !.at = RolledBack].deps = {}
      BY DEF NoCall
    <3>2. [call[c] EXCEPT !.at = "begin"].deps = call[c].deps
      BY CallForm
    <3> QED
      BY <1>3, <3>1, <3>2, NoCallForm DEF Load, Reset, Rollback, Commit
  <2> QED
    BY <1>2, <2>1
<1>4. CASE UpsertDeps(c) \/ CopySotrs(c) \/ BeforeSave(c) \/ UpsertSotrs(c) \/ PreparePhones(c)
  <2>1. UNCHANGED Depmap /\ \A d \in Clients : call'[d].deps = call[d].deps
    <3>1. ASSUME NEW at, call' = [call EXCEPT ![c].at = at]
          PROVE  \A d \in Clients : call'[d].deps = call[d].deps
      BY <3>1, CallForm DEF SyncInv
    <3>2. ASSUME NEW at, NEW x, \/ call' = [call EXCEPT ![c].at = at, ![c].rows = x]
                               \/ call' = [call EXCEPT ![c].at = at, ![c].diffs = x]
                               \/ call' = [call EXCEPT ![c].at = at, ![c].seen = x]
          PROVE  \A d \in Clients : call'[d].deps = call[d].deps
      BY <3>2, CallForm DEF SyncInv
    <3>3. CASE UpsertDeps(c) \/ UpsertSotrs(c)
      BY <3>1, <3>3 DEF UpsertDeps, UpsertSotrs
    <3>4. CASE CopySotrs(c) \/ BeforeSave(c) \/ PreparePhones(c)
      BY <3>2, <3>4 DEF CopySotrs, BeforeSave, PreparePhones
    <3> QED
      BY <1>4, <3>3, <3>4 DEF UpsertDeps, CopySotrs, BeforeSave, UpsertSotrs, PreparePhones
  <2> QED
    BY <2>1, KeysKept
<1> QED
  BY <1>1, <1>3, <1>4, KeysSaved, KeysCollected DEF HandlerStep, Panic

LEMMA KeysStep ==
    ASSUME SyncInv, RowsInv, KeysInv, [Next]_vars
    PROVE  KeysInv'
<1>1. ASSUME UNCHANGED Depmap, \A d \in Clients : call'[d].deps = call[d].deps PROVE KeysInv'
  BY <1>1, KeysKept
<1>2. ASSUME NEW c \in Clients, (\E v \in Dumps : Start(c, v)) \/ ClientStep(c) PROVE KeysInv'
  <2>1. UNCHANGED Depmap /\ \A d \in Clients : call'[d].deps = call[d].deps
    <3>1. CASE SendRow(c) \/ SendFlush(c)
      BY <3>1, CallForm DEF SendRow, SendFlush, Add, SyncInv
    <3> QED
      BY <1>2, <3>1 DEF ClientStep, Start, RowFails, FlushFails, ReadFails, OpenFails, Expire, store
  <2> QED
    BY <1>1, <2>1
<1>3. CASE Crash
  <2>1. (\A i \in Idrs : Depmap'[i] = Absent) /\ \A d \in Clients : call'[d].deps = {}
    BY <1>3, NoCallForm DEF Crash, Dies
  <2> QED
    BY <2>1 DEF KeysInv, KeysOf
<1>4. CASE Restart \/ AllDone \/ UNCHANGED vars
  BY <1>1, <1>4 DEF Restart, AllDone, vars, store
<1> QED
  BY <1>2, <1>3, <1>4, KeysHandler DEF Next, ServerStep

LEMMA KeysNested == KeysInv => ApartMeansRenamed
  BY DEF KeysInv, KeysOf, ApartMeansRenamed

\* Of two transactions in progress with no department row in common, one has
\* another row of every department of the other: whoever passes another one
\* does it by a department that was renamed or moved in between.
THEOREM OnlyRenamedPass == Spec => []ApartMeansRenamed
<1>1. ASSUME SyncInv, RowsInv, KeysInv, [Next]_vars PROVE SyncInv' /\ RowsInv' /\ KeysInv'
  BY <1>1, SyncStep, RowsStep, KeysStep
<1> QED
  BY <1>1, InitSync, InitRows, InitKeys, KeysNested, PTL DEF Spec

\* No two dumps have different rows of one department.
NoneRenamed == \A x, y \in DepRows : x.idr = y.idr => x = y

LEMMA NoneLate ==
    ASSUME NoneRenamed, SyncInv, RowsInv, KeysInv, [Next]_vars, \A c \in Clients : late[c] = {}
    PROVE  \A c \in Clients : late'[c] = {}
<1>1. ASSUME NEW c \in Clients, NEW d \in Clients PROVE Overtaken(c, d) = {}
  <2> SUFFICES ASSUME NEW t \in Employees(c) \cap Employees(d), Common(c, d) = {} PROVE FALSE
    BY DEF Overtaken
  <2>1. Copied(RowOf(c, t), call[c].deps) /\ Copied(RowOf(d, t), call[d].deps)
    BY RowIs DEF SyncInv, CallOK
  <2>2. PICK x \in call[c].deps, y \in call[d].deps : TRUE
    BY <2>1 DEF Copied
  <2>3. \E a \in call[c].deps, b \in call[d].deps : a.idr = b.idr
    BY <2>2, KeysNested DEF ApartMeansRenamed
  <2>4. call[c].deps \subseteq DepRows /\ call[d].deps \subseteq DepRows
    BY DEF RowsInv, HandlerOK
  <2> QED
    BY <2>3, <2>4 DEF NoneRenamed, Common
<1>2. CASE UNCHANGED late \/ (\E C : Forget(C))
  BY <1>2 DEF Forget
<1>3. ASSUME NEW c \in Clients, Remember(c) PROVE \A d \in Clients : late'[d] = {}
  BY <1>1, <1>3 DEF Remember
<1>4. \/ UNCHANGED late \/ (\E C : Forget(C))
      \/ \E c \in Clients : Remember(c)
  BY HandlerSteps DEF Next, ClientStep, Start, SendRow, RowFails, SendFlush, FlushFails, ReadFails,
                      OpenFails, Expire, ServerStep, AllDone, ghosts, vars
<1> QED
  BY <1>2, <1>3, <1>4

\* While no department is renamed or moved, an employee's row never goes back,
\* however transactions overlap: any two of them share a locked department.
THEOREM UnrenamedRowsNeverGoBack ==
    ASSUME NoneRenamed
    PROVE  Spec => [][\A t \in Tabs : db'.sotr[t].n >= db.sotr[t].n]_vars
<1>1. Init => \A c \in Clients : late[c] = {}
  BY DEF Init
<1>2. ASSUME SyncInv, RowsInv, KeysInv, \A c \in Clients : late[c] = {}, [Next]_vars
      PROVE  /\ SyncInv' /\ RowsInv' /\ KeysInv' /\ (\A c \in Clients : late[c] = {})'
  BY <1>2, SyncStep, RowsStep, KeysStep, NoneLate
<1>3. ASSUME \A c \in Clients : late[c] = {},
             [\A t \in Tabs : \/ db'.sotr[t].n >= db.sotr[t].n
                              \/ \E c \in Clients : call[c].at = "commit" /\ t \in late[c]]_vars
      PROVE  [\A t \in Tabs : db'.sotr[t].n >= db.sotr[t].n]_vars
  BY <1>3
<1> QED
  BY <1>1, <1>2, <1>3, InitSync, InitRows, InitKeys, RowsNeverGoBack, PTL DEF Spec, NeverBack
=============================================================================
