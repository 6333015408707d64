--------------------------- MODULE AvatarsProofs ---------------------------
(***************************************************************************)
(* Theorems about the avatar files for any workers, avatars, versions and  *)
(* faults: a dump touches no file it found; whatever the downloads of      *)
(* several workers, failures and crashes leave, a published file is one    *)
(* version, whole, unless two workers downloaded it at once; and after a   *)
(* dump without a fault every avatar of an employee is there in the length *)
(* the source has.                                                         *)
(***************************************************************************)
EXTENDS Avatars, SequenceTheorems, WellFoundedInduction, TLAPS

Cells == Versions \cup {"error", "hole"}
Complete(c, v) == c = [i \in 1..Size[v] |-> v]

Active(w) == worker[w].at # "idle"
Past(w) == worker[w].at \in {"write", "rename"}
NameOf(w) == worker[w].name
TempOf(w) == Temp(NameOf(w))

-----------------------------------------------------------------------------
(* Names. *)

LEMMA EndingsAre == ToSet(Endings) = {"jpg", "jpg.tmp", "tmp", "tmp.tmp"}
<1>1. DOMAIN Endings = 1..4
  BY DEF Endings
<1>2. ToSet(Endings) = {Endings[i] : i \in 1..4}
  BY <1>1 DEF ToSet
<1>3. /\ Endings[1] = "jpg" /\ Endings[2] = "jpg.tmp" /\ Endings[3] = "tmp"
      /\ Endings[4] = "tmp.tmp"
  BY DEF Endings
<1>4. 1..4 = {1, 2, 3, 4}
  OBVIOUS
<1> QED
  BY <1>2, <1>3, <1>4

LEMMA NameFields ==
    ASSUME NEW n \in Names
    PROVE  /\ n.key \in Keys /\ n.num \in Nat /\ n.num >= 1 /\ n.num <= MaxRuns + 1
           /\ n.suffix \in {"jpg", "jpg.tmp", "tmp", "tmp.tmp"}
           /\ n = [key |-> n.key, num |-> n.num, suffix |-> n.suffix]
  BY EndingsAre, AvatarsAssumption DEF Names

\* Nobody downloads under the name of a worker that rests.
LEMMA NoNameIsNone == NoName \notin Names /\ Resting.name = NoName /\ Resting.at = "idle" /\ Resting.inode = 0
<1>1. NoName.num = 0
  BY DEF NoName
<1>2. NoName \notin Names
  BY <1>1, NameFields
<1> QED
  BY <1>2 DEF Resting

\* The temporary name of a file to be written, and what a target is.
IsTarget(n) == n \in Names /\ n.suffix \in {"jpg", "tmp"}

LEMMA TempForm ==
    ASSUME NEW n, IsTarget(n)
    PROVE  /\ Temp(n) \in Names /\ Temp(n).key = n.key /\ Temp(n).num = n.num
           /\ Temp(n).suffix = IF n.suffix = "jpg" THEN "jpg.tmp" ELSE "tmp.tmp"
           /\ ~Published(Temp(n)) /\ Temp(n) # n
<1>1. /\ n \in Names /\ n.suffix \in {"jpg", "tmp"}
      /\ n = [key |-> n.key, num |-> n.num, suffix |-> n.suffix]
  BY NameFields DEF IsTarget
<1> DEFINE s == IF n.suffix = "jpg" THEN "jpg.tmp" ELSE "tmp.tmp"
<1>2. Temp(n) = [key |-> n.key, num |-> n.num, suffix |-> s]
  <2>1. ASSUME NEW a, NEW b, NEW c, n = [key |-> a, num |-> b, suffix |-> c]
        PROVE  Temp(n) = [key |-> a, num |-> b,
                          suffix |-> IF c = "jpg" THEN "jpg.tmp" ELSE "tmp.tmp"]
    BY <2>1 DEF Temp
  <2> QED
    BY <1>1, <2>1
<1>3. s \in ToSet(Endings) /\ s \notin {"jpg", "tmp"}
  BY EndingsAre
<1>4. n.key \in Keys /\ n.num \in 1..(MaxRuns + 1)
  BY <1>1 DEF Names
<1> HIDE DEF s
<1>5. Temp(n) \in Names
  BY <1>2, <1>3, <1>4 DEF Names
<1>6. Temp(n).suffix = s /\ Temp(n).key = n.key /\ Temp(n).num = n.num
  BY <1>2
<1> QED
  BY <1>1, <1>3, <1>5, <1>6 DEF Published, s

\* Two downloads under different names touch different names.
LEMMA Spots ==
    ASSUME NEW m, IsTarget(m), NEW n, IsTarget(n), m # n
    PROVE  m # Temp(n) /\ Temp(m) # n /\ Temp(m) # Temp(n)
<1>1. /\ m = [key |-> m.key, num |-> m.num, suffix |-> m.suffix]
      /\ n = [key |-> n.key, num |-> n.num, suffix |-> n.suffix]
      /\ m.suffix \in {"jpg", "tmp"} /\ n.suffix \in {"jpg", "tmp"}
  BY NameFields DEF IsTarget
<1>2. m.key # n.key \/ m.num # n.num \/ m.suffix # n.suffix
  BY <1>1
<1> QED
  BY <1>1, <1>2, TempForm

-----------------------------------------------------------------------------
(* The newest file. *)

LEMMA Ranks ==
    ASSUME NEW n \in Names
    PROVE  /\ Rank(n.suffix) \in 1..4 /\ Endings[Rank(n.suffix)] = n.suffix
<1>1. n.suffix \in ToSet(Endings) /\ DOMAIN Endings = 1..4
  BY DEF Names, Endings
<1>2. \E i \in 1..4 : Endings[i] = n.suffix
  BY <1>1 DEF ToSet
<1> QED
  BY <1>2 DEF Rank

\* A nonempty set of natural numbers has a least element.
LEMMA Least ==
    ASSUME NEW T \in SUBSET Nat, T # {}
    PROVE  \E m \in T : \A x \in T : m <= x
<1> DEFINE R == OpToRel(<, Nat)
<1>1. IsWellFoundedOn(R, Nat)
  BY NatLessThanWellFounded
<1>2. PICK m \in T : \A x \in T : ~(<<x, m>> \in R)
  BY <1>1, WFMin
<1>3. \A x \in T : ~(x < m)
  BY <1>2 DEF OpToRel
<1> QED
  BY <1>3

\* Numbers are bounded, so there is a newest name of every avatar that has one.
LEMMA NewestForm ==
    ASSUME NEW k, DOMAIN dir \subseteq Names, NamesOf(k) # {}
    PROVE  /\ Newest(k) \in NamesOf(k)
           /\ \A m \in NamesOf(k) :
                 \/ m.num < Newest(k).num
                 \/ m.num = Newest(k).num /\ Rank(m.suffix) >= Rank(Newest(k).suffix)
<1> DEFINE M == MaxRuns + 1
           S(n) == 5 * (M - n.num) + Rank(n.suffix)
           T == {S(n) : n \in NamesOf(k)}
<1>1. \A n \in NamesOf(k) : n.num \in Nat /\ n.num <= M /\ Rank(n.suffix) \in 1..4
  BY NameFields, Ranks DEF NamesOf
<1>2. M \in Nat
  BY AvatarsAssumption
<1> HIDE DEF M
<1>3. \A n \in NamesOf(k) : S(n) \in Nat
  <2> SUFFICES ASSUME NEW n \in NamesOf(k) PROVE S(n) \in Nat
    OBVIOUS
  <2> DEFINE a == n.num
             r == Rank(n.suffix)
  <2>1. a \in Nat /\ a <= M /\ r \in 1..4
    BY <1>1
  <2> HIDE DEF a, r
  <2>2. 5 * (M - a) + r \in Nat
    BY <1>2, <2>1
  <2> QED
    BY <2>2 DEF a, r
<1>4. PICK n \in NamesOf(k) : \A m \in NamesOf(k) : S(n) <= S(m)
  <2>1. T \in SUBSET Nat /\ T # {}
    BY <1>3
  <2>2. PICK x \in T : \A y \in T : x <= y
    BY <2>1, Least
  <2> QED
    BY <2>2
<1>5. \A m \in NamesOf(k) :
          m.num < n.num \/ (m.num = n.num /\ Rank(m.suffix) >= Rank(n.suffix))
  <2> SUFFICES ASSUME NEW m \in NamesOf(k)
               PROVE  m.num < n.num \/ (m.num = n.num /\ Rank(m.suffix) >= Rank(n.suffix))
    OBVIOUS
  <2> DEFINE a == n.num
             r == Rank(n.suffix)
             b == m.num
             q == Rank(m.suffix)
  <2>1. a \in Nat /\ a <= M /\ r \in 1..4 /\ b \in Nat /\ b <= M /\ q \in 1..4
        /\ 5 * (M - a) + r <= 5 * (M - b) + q
    BY <1>1, <1>4
  <2> HIDE DEF a, r, b, q
  <2>2. b < a \/ (b = a /\ q >= r)
    BY <1>2, <2>1
  <2> QED
    BY <2>2 DEF a, r, b, q
<1>6. \E x \in NamesOf(k) : \A m \in NamesOf(k) :
          m.num < x.num \/ (m.num = x.num /\ Rank(m.suffix) >= Rank(x.suffix))
  BY <1>5
<1> QED
  BY <1>6 DEF Newest

-----------------------------------------------------------------------------
(* The invariant. *)

Types ==
    /\ runs \in 0..MaxRuns /\ running \in BOOLEAN /\ ok \in BOOLEAN
    /\ running => runs # 0
    /\ source \in [Keys -> Versions]
    /\ todo \in [Keys -> Nat]
    /\ data \in [Inodes -> Seq(Cells)]
    /\ DOMAIN dir \subseteq Names /\ DOMAIN before \subseteq Names
    /\ \A n \in DOMAIN dir : dir[n] \in Inodes /\ n.num <= runs
    /\ \A m, n \in DOMAIN dir : dir[m] = dir[n] => m = n
    /\ DOMAIN worker = Workers

\* A worker that does not rest downloads to the target of this dump.
WorkerOK(w) ==
    \/ worker[w] = Resting
    \/ /\ running
       /\ worker[w] \in [at : {"get", "write", "rename"}, name : Names, inode : Inodes \cup {0},
                         ver : Versions \cup {"none"}, pos : Nat]
       /\ NameOf(w) = Target(NameOf(w).key)
       /\ worker[w].at = "write" <=> worker[w].inode # 0
       /\ worker[w].at = "write" => worker[w].ver \in Versions /\ worker[w].pos <= Size[worker[w].ver]
       /\ worker[w].at = "get" => worker[w].pos = 0

Working == \A w \in Workers : WorkerOK(w)

\* What was collected at the start is what was there.
Collected ==
    running =>
        /\ \A n \in DOMAIN before :
              n.key \in DOMAIN found /\ n.num <= found[n.key].name.num /\ n.num < runs
        /\ \A k \in DOMAIN found : found[k].name \in DOMAIN before /\ found[k].name.key = k

\* An open file is nobody's but of those who download to the same name.
HandleOK(w) ==
    worker[w].at = "write" =>
        /\ \A n \in DOMAIN dir : dir[n] = worker[w].inode => n \in {NameOf(w), TempOf(w)}
        /\ \A v \in Workers : worker[v].inode = worker[w].inode => NameOf(v) = NameOf(w)

Handles == \A w \in Workers : HandleOK(w)

\* Who downloads alone finds under the temporary name what he wrote.
Alone(w) ==
    /\ \A v \in Workers \ {w} : NameOf(v) = NameOf(w) => worker[v].at = "get"
    /\ worker[w].at = "write" =>
          /\ TempOf(w) \in DOMAIN dir /\ dir[TempOf(w)] = worker[w].inode
          /\ data[worker[w].inode] = [c \in 1..worker[w].pos |-> worker[w].ver]
    /\ worker[w].at = "rename" /\ TempOf(w) \in DOMAIN dir =>
          \E v \in Versions : Complete(Content(TempOf(w)), v)

Lonely == \A w \in Workers : Past(w) /\ NameOf(w) \notin shared => Alone(w)

FilesInv ==
    /\ Types /\ Working /\ Collected /\ Handles /\ Lonely
    /\ OldFilesStay /\ PublishedComplete

LEMMA TargetForm ==
    ASSUME Types, Collected, running, NEW k \in Keys
    PROVE  /\ IsTarget(Target(k)) /\ Target(k).key = k /\ Target(k).num <= runs
           /\ \A n \in DOMAIN before : n.key = k => n.num < Target(k).num
           /\ Target(k) \notin DOMAIN before /\ Temp(Target(k)) \notin DOMAIN before
           /\ k \in DOMAIN found => Target(k).suffix = Ext(found[k].name.suffix)
                                 /\ Target(k).num = found[k].name.num + 1
           /\ k \notin DOMAIN found => Target(k).suffix = "jpg"
<1>0. runs \in Nat /\ runs # 0 /\ runs <= MaxRuns /\ MaxRuns \in Nat
  BY AvatarsAssumption DEF Types
<1>1. CASE k \notin DOMAIN found
  <2>1. Target(k) = [key |-> k, num |-> 1, suffix |-> "jpg"]
    BY <1>1 DEF Target
  <2>2. "jpg" \in ToSet(Endings) /\ 1 \in 1..(MaxRuns + 1)
    BY <1>0, EndingsAre
  <2>3. Target(k) \in Names
    BY <2>1, <2>2 DEF Names
  <2>4. \A n \in DOMAIN before : n.key # k
    BY <1>1 DEF Collected
  <2>5. IsTarget(Target(k)) /\ Target(k).key = k /\ Target(k).num = 1 /\ Target(k).suffix = "jpg"
    BY <2>1, <2>3 DEF IsTarget
  <2> QED
    BY <1>0, <1>1, <2>4, <2>5, TempForm
<1>2. CASE k \in DOMAIN found
  <2> DEFINE f == found[k].name
  <2>1. /\ f \in DOMAIN before /\ f.key = k /\ f \in Names /\ f.num < runs
        /\ \A n \in DOMAIN before : n.key = k => n.num <= f.num
    BY <1>2 DEF Collected, Types
  <2>2. f.num \in Nat /\ f.num >= 1 /\ f = [key |-> f.key, num |-> f.num, suffix |-> f.suffix]
    BY <2>1, NameFields
  <2>3. Target(k) = [f EXCEPT !.num = @ + 1, !.suffix = Ext(@)]
    BY <1>2 DEF Target
  <2> HIDE DEF f
  <2>4. Target(k) = [key |-> f.key, num |-> f.num + 1, suffix |-> Ext(f.suffix)]
    <3>1. ASSUME NEW a, NEW b, NEW c, f = [key |-> a, num |-> b, suffix |-> c]
          PROVE  Target(k) = [key |-> a, num |-> b + 1, suffix |-> Ext(c)]
      BY <2>3, <3>1
    <3> QED
      BY <2>2, <3>1
  <2>5. Ext(f.suffix) \in {"jpg", "tmp"} /\ Ext(f.suffix) \in ToSet(Endings)
    BY EndingsAre DEF Ext
  <2>6. f.num + 1 \in 1..(MaxRuns + 1)
    BY <1>0, <2>1, <2>2
  <2>7. Target(k) \in Names
    BY <2>1, <2>4, <2>5, <2>6 DEF Names
  <2>8. /\ Target(k).key = k /\ Target(k).num = f.num + 1 /\ Target(k).suffix = Ext(f.suffix)
    BY <2>1, <2>4
  <2>9. IsTarget(Target(k))
    BY <2>5, <2>7, <2>8 DEF IsTarget
  <2>10. \A n \in DOMAIN before : n.num \in Nat
    BY NameFields DEF Types
  <2>11. \A n \in DOMAIN before : n.key = k => n.num < Target(k).num
    BY <2>1, <2>2, <2>8, <2>10
  <2>12. Target(k) \notin DOMAIN before /\ Temp(Target(k)) \notin DOMAIN before
    <3>1. ~(Target(k).num < Target(k).num)
      BY <2>2, <2>8
    <3> QED
      BY <2>8, <2>9, <2>11, <3>1, TempForm
  <2>13. Target(k).num <= runs
    BY <1>0, <2>1, <2>2, <2>8
  <2> QED
    BY <1>2, <2>8, <2>9, <2>11, <2>12, <2>13 DEF f
<1> QED
  BY <1>1, <1>2

\* Where a worker that does not rest is.
LEMMA Place ==
    ASSUME Types, Collected, Working, NEW w \in Workers, Active(w)
    PROVE  /\ running /\ IsTarget(NameOf(w)) /\ NameOf(w) # NoName /\ NameOf(w).key \in Keys
           /\ NameOf(w) = Target(NameOf(w).key)
           /\ NameOf(w).num <= runs
           /\ TempOf(w) \in Names /\ TempOf(w).num <= runs /\ ~Published(TempOf(w)) /\ TempOf(w) # NameOf(w)
           /\ NameOf(w) \notin DOMAIN before /\ TempOf(w) \notin DOMAIN before
           /\ worker[w].at \in {"get", "write", "rename"}
           /\ worker[w] \in [at : {"get", "write", "rename"}, name : Names, inode : Inodes \cup {0},
                             ver : Versions \cup {"none"}, pos : Nat]
           /\ worker[w].at = "write" <=> worker[w].inode # 0
           /\ worker[w].at = "write" => /\ worker[w].ver \in Versions /\ worker[w].pos <= Size[worker[w].ver]
                                        /\ worker[w].inode \in Inodes
           /\ worker[w].at = "get" => worker[w].pos = 0
<1>1. WorkerOK(w) /\ worker[w] # Resting
  BY NoNameIsNone DEF Working, Active
<1>2. /\ running /\ NameOf(w) \in Names /\ NameOf(w) = Target(NameOf(w).key)
      /\ worker[w].at \in {"get", "write", "rename"}
      /\ worker[w] \in [at : {"get", "write", "rename"}, name : Names, inode : Inodes \cup {0},
                        ver : Versions \cup {"none"}, pos : Nat]
      /\ worker[w].at = "write" <=> worker[w].inode # 0
      /\ worker[w].at = "write" => /\ worker[w].ver \in Versions /\ worker[w].pos <= Size[worker[w].ver]
                                   /\ worker[w].inode \in Inodes
      /\ worker[w].at = "get" => worker[w].pos = 0
  BY <1>1 DEF WorkerOK, NameOf
<1>3. NameOf(w).key \in Keys
  BY <1>2, NameFields
<1>4. /\ IsTarget(NameOf(w)) /\ NameOf(w).num <= runs
      /\ NameOf(w) \notin DOMAIN before /\ TempOf(w) \notin DOMAIN before
  <2> DEFINE k == NameOf(w).key
  <2>1. k \in Keys /\ NameOf(w) = Target(k)
    BY <1>2, <1>3
  <2> HIDE DEF k
  <2> QED
    BY <1>2, <2>1, TargetForm DEF TempOf
<1>5. /\ TempOf(w) \in Names /\ TempOf(w).num = NameOf(w).num /\ ~Published(TempOf(w)) /\ TempOf(w) # NameOf(w)
  BY <1>4, TempForm DEF TempOf
<1> QED
  BY <1>2, <1>3, <1>4, <1>5, NoNameIsNone

\* Two workers download to the same names or to names of which none is common.
LEMMA Apart ==
    ASSUME Types, Collected, Working, NEW v \in Workers, NEW w \in Workers, Active(v), Active(w),
           NameOf(v) # NameOf(w)
    PROVE  {NameOf(v), TempOf(v)} \cap {NameOf(w), TempOf(w)} = {}
<1>1. IsTarget(NameOf(v)) /\ IsTarget(NameOf(w))
  BY Place
<1> QED
  BY <1>1, Spots DEF TempOf

\* Files with a name and open files keep what they hold.
LEMMA CleanForm ==
    ASSUME NEW d, NEW ws, NEW content \in [Inodes -> Seq(Cells)]
    PROVE  /\ Clean(d, ws, content) \in [Inodes -> Seq(Cells)]
           /\ \A n \in DOMAIN d : d[n] \in Inodes => Clean(d, ws, content)[d[n]] = content[d[n]]
           /\ \A w \in Workers : ws[w].inode \in Inodes =>
                  Clean(d, ws, content)[ws[w].inode] = content[ws[w].inode]
<1>1. <<>> \in Seq(Cells)
  BY EmptySeq
<1> QED
  BY <1>1 DEF Clean

\* Steps of worker w, seen from everything that is not its file: other files
\* keep their contents, and others who download alone find what they wrote.
LEMMA Elsewhere ==
    ASSUME FilesInv, NEW w \in Workers, Active(w), UNCHANGED before, shared \subseteq shared',
           \A v \in Workers \ {w} : worker'[v] = worker[v],
           worker'[w] = Resting \/ worker'[w].name = NameOf(w),
           \A m \in Names \ {NameOf(w), TempOf(w)} :
              /\ m \in DOMAIN dir' <=> m \in DOMAIN dir
              /\ m \in DOMAIN dir => dir'[m] = dir[m] /\ data'[dir[m]] = data[dir[m]],
           DOMAIN dir' \subseteq Names,
           \A v \in Workers \ {w} : worker[v].at = "write" /\ NameOf(v) # NameOf(w) =>
              data'[worker[v].inode] = data[worker[v].inode],
           \A v \in Workers : Past(v)' /\ worker'[v].name = NameOf(w) /\ NameOf(w) \notin shared' => Alone(v)',
           NameOf(w) \in DOMAIN dir' /\ Published(NameOf(w)) /\ NameOf(w) \notin shared' =>
              \E v \in Versions : Complete(data'[dir'[NameOf(w)]], v)
    PROVE  OldFilesStay' /\ PublishedComplete' /\ Lonely'
<1> DEFINE n == NameOf(w)
           t == TempOf(w)
<1>0. /\ n \in Names /\ t \in Names /\ n \notin DOMAIN before /\ t \notin DOMAIN before /\ ~Published(t)
      /\ n # NoName /\ DOMAIN before \subseteq Names /\ DOMAIN dir \subseteq Names
  BY Place DEF FilesInv, Types, IsTarget
<1> HIDE DEF n, t
<1>1. \A m \in Names \ {n, t} :
         /\ m \in DOMAIN dir' <=> m \in DOMAIN dir
         /\ m \in DOMAIN dir => dir'[m] = dir[m] /\ data'[dir[m]] = data[dir[m]]
  BY DEF n, t
<1>2. OldFilesStay'
  <2>1. \A m \in DOMAIN before : m \in DOMAIN dir /\ data[dir[m]] = before[m]
    BY DEF FilesInv, OldFilesStay, Content
  <2>2. \A m \in DOMAIN before : m \in DOMAIN dir' /\ data'[dir'[m]] = before[m]
    BY <1>0, <1>1, <2>1
  <2> QED
    BY <2>2 DEF OldFilesStay, Content
<1>3. PublishedComplete'
  <2> SUFFICES ASSUME NEW m \in DOMAIN dir', Published(m), m \notin shared'
               PROVE  \E v \in Versions : Complete(data'[dir'[m]], v)
    BY DEF PublishedComplete, Content, Complete, Published
  <2>1. CASE m = n
    BY <2>1 DEF n
  <2>2. CASE m # n
    <3>1. m \in Names \ {n, t} /\ m \in DOMAIN dir /\ m \notin shared
      BY <1>0, <1>1, <2>2
    <3>2. \E v \in Versions : Complete(data[dir[m]], v)
      BY <3>1 DEF FilesInv, PublishedComplete, Content, Complete
    <3> QED
      BY <1>1, <3>1, <3>2
  <2> QED
    BY <2>1, <2>2
<1>4. Lonely'
  <2> SUFFICES ASSUME NEW v \in Workers, Past(v)', worker'[v].name \notin shared'
               PROVE  Alone(v)'
    BY DEF Lonely, NameOf
  <2>1. CASE worker'[v].name = n
    BY <2>1 DEF n
  <2>2. CASE worker'[v].name # n
    <3>1. v # w /\ worker'[v] = worker[v] /\ Past(v) /\ NameOf(v) \notin shared /\ NameOf(v) # n
      BY <2>2, NoNameIsNone DEF Past, NameOf, n
    <3>2. Alone(v) /\ Active(v)
      BY <3>1 DEF FilesInv, Lonely, Past, Active
    <3>3. TempOf(v) \in Names \ {n, t}
      <4>1. NameOf(v) # NameOf(w) /\ TempOf(v) \in Names
        BY <3>1, <3>2, Place DEF FilesInv, n
      <4> QED
        BY <3>2, <4>1, Apart DEF FilesInv, n, t
    <3>4. \A u \in Workers \ {v} : worker'[u].name = NameOf(v) => worker'[u].at = "get"
      <4> SUFFICES ASSUME NEW u \in Workers \ {v}, worker'[u].name = NameOf(v)
                   PROVE  worker'[u].at = "get"
        OBVIOUS
      <4>1. NameOf(v) # NoName
        BY <3>2, Place DEF FilesInv
      <4>2. u # w
        BY <3>1, <4>1, NoNameIsNone DEF n
      <4> QED
        BY <3>2, <4>2 DEF Alone, NameOf
    <3>5. worker[v].at = "write" => data'[worker[v].inode] = data[worker[v].inode]
      BY <3>1 DEF n
    <3>6. TempOf(v) \in DOMAIN dir <=> TempOf(v) \in DOMAIN dir'
      BY <1>1, <3>3
    <3>7. TempOf(v) \in DOMAIN dir => /\ dir'[TempOf(v)] = dir[TempOf(v)]
                                      /\ data'[dir[TempOf(v)]] = data[dir[TempOf(v)]]
      BY <1>1, <3>3
    <3>8. NameOf(v)' = NameOf(v) /\ TempOf(v)' = TempOf(v)
      BY <3>1 DEF NameOf, TempOf
    <3>9. /\ worker[v].at = "write" =>
             /\ TempOf(v) \in DOMAIN dir' /\ dir'[TempOf(v)] = worker[v].inode
             /\ data'[worker[v].inode] = [c \in 1..worker[v].pos |-> worker[v].ver]
      BY <3>2, <3>5, <3>6, <3>7 DEF Alone
    <3>10. worker[v].at = "rename" /\ TempOf(v) \in DOMAIN dir' =>
              \E x \in Versions : Complete(data'[dir'[TempOf(v)]], x)
      BY <3>2, <3>6, <3>7 DEF Alone, Content
    <3> QED
      BY <3>1, <3>4, <3>8, <3>9, <3>10 DEF Alone, Content, NameOf, Complete
  <2> QED
    BY <2>1, <2>2
<1> QED
  BY <1>2, <1>3, <1>4

\* A step that leaves the files alone, as far as the workers are concerned.
LEMMA Quiet ==
    ASSUME FilesInv, UNCHANGED <<dir, data, before, shared>>,
           \A w \in Workers : /\ Past(w)' => worker'[w] = worker[w]
                              /\ ~Past(w)' => ~Past(w) /\ worker'[w].at \in {"idle", "get"}
                                           /\ (worker'[w].at = "idle" => worker'[w] = Resting)
                                           /\ (worker'[w].at = "get" => worker'[w].inode = 0)
    PROVE  OldFilesStay' /\ PublishedComplete' /\ Lonely' /\ Handles'
<1>1. OldFilesStay' /\ PublishedComplete'
  BY DEF FilesInv, OldFilesStay, PublishedComplete, Content
<1>2. ASSUME NEW w \in Workers, Past(w)', NameOf(w)' \notin shared'
      PROVE  Alone(w)'
  <2>1. worker'[w] = worker[w] /\ Past(w) /\ NameOf(w) \notin shared /\ Active(w)
    BY <1>2 DEF Past, NameOf, Active
  <2>2. Alone(w) /\ NameOf(w) # NoName
    BY <2>1, Place DEF FilesInv, Lonely
  <2>3. \A v \in Workers \ {w} : worker'[v].name = NameOf(w) => worker'[v].at = "get"
    <3> SUFFICES ASSUME NEW v \in Workers \ {w}, worker'[v].name = NameOf(w)
                 PROVE  worker'[v].at = "get"
      OBVIOUS
    <3>1. CASE Past(v)'
      BY <2>2, <3>1 DEF Alone, NameOf
    <3>2. CASE ~Past(v)'
      BY <2>2, <3>2, NoNameIsNone
    <3> QED
      BY <3>1, <3>2
  <2>4. NameOf(w)' = NameOf(w) /\ TempOf(w)' = TempOf(w)
    BY <2>1 DEF NameOf, TempOf
  <2> QED
    BY <2>1, <2>2, <2>3, <2>4 DEF Alone, Content, NameOf
<1>3. ASSUME NEW w \in Workers PROVE HandleOK(w)'
  <2>1. CASE worker'[w].at = "write"
    <3>1. worker'[w] = worker[w] /\ HandleOK(w) /\ Active(w)
      BY <2>1 DEF Past, FilesInv, Handles, Active
    <3>2. worker[w].inode # 0
      BY <2>1, <3>1, Place DEF FilesInv
    <3>3. \A v \in Workers : worker'[v].inode = worker[w].inode => worker'[v].name = NameOf(w)
      <4> SUFFICES ASSUME NEW v \in Workers, worker'[v].inode = worker[w].inode
                   PROVE  worker'[v].name = NameOf(w)
        OBVIOUS
      <4>1. Past(v)'
        BY <3>2, NoNameIsNone
      <4> QED
        BY <2>1, <3>1, <4>1 DEF HandleOK, NameOf
    <3> QED
      BY <2>1, <3>1, <3>3 DEF HandleOK, NameOf, TempOf
  <2> QED
    BY <2>1 DEF HandleOK
<1> QED
  BY <1>1, <1>2, <1>3 DEF Lonely, Handles

-----------------------------------------------------------------------------
(* What a dump without a fault has done so far. *)

Busy(k) == \E w \in Workers : Active(w) /\ NameOf(w).key = k

\* The collection names the newest of the files found, and its length.
Measured ==
    running => \A k \in DOMAIN found :
        /\ found[k].size = Len(before[found[k].name])
        /\ \A m \in DOMAIN before : m.key = k =>
              \/ m.num < found[k].name.num
              \/ m.num = found[k].name.num /\ Rank(m.suffix) >= Rank(found[k].name.suffix)

\* Who downloads alone downloads what the source has.
Fetched(w) ==
    /\ worker[w].at = "write" => worker[w].ver = source[NameOf(w).key]
    /\ worker[w].at = "rename" => /\ TempOf(w) \in DOMAIN dir
                                  /\ Complete(Content(TempOf(w)), source[NameOf(w).key])

\* Each avatar of an employee waits, is being downloaded, is unchanged or there.
Handled(k) ==
    \/ todo[k] > 0 \/ TasksPerRun[k] = 0
    \/ Busy(k)
    \/ Unchanged(k)
    \/ Target(k) \in DOMAIN dir

\* Nothing but the targets, and the temporary files of who is busy, is new.
Expected(n) ==
    \/ n \in DOMAIN before
    \/ n = Target(n.key)
    \/ Busy(n.key) /\ n = Temp(Target(n.key))

Arrived ==
    ok /\ running =>
        /\ \A w \in Workers : Past(w) => TempOf(w) \in DOMAIN dir \/ NameOf(w) \in DOMAIN dir
        /\ \A w \in Workers : Past(w) /\ NameOf(w) \notin shared => Fetched(w)
        /\ \A k \in Keys : Target(k) \in DOMAIN dir /\ Target(k) \notin shared =>
              Complete(Content(Target(k)), source[k])
        /\ \A k \in Keys : Handled(k)
        /\ \A n \in DOMAIN dir : Expected(n)

ArriveInv == FilesInv /\ Measured /\ Arrived /\ UpToDate

\* A step of a worker on the files of its target, seen from all other files.
LEMMA ArriveElsewhere ==
    ASSUME FilesInv, Arrived, ok, running, NEW w \in Workers, Active(w),
           UNCHANGED <<source, running, found, todo, before, ok>>, shared \subseteq shared',
           \A v \in Workers \ {w} : worker'[v] = worker[v],
           \/ worker'[w].name = NameOf(w) /\ worker'[w].at # "idle"
           \/ worker'[w] = Resting /\ NameOf(w) \in DOMAIN dir' /\ TempOf(w) \notin DOMAIN dir',
           DOMAIN dir' \subseteq Names,
           \A m \in Names \ {NameOf(w), TempOf(w)} :
              /\ m \in DOMAIN dir' <=> m \in DOMAIN dir
              /\ m \in DOMAIN dir => dir'[m] = dir[m] /\ data'[dir[m]] = data[dir[m]],
           NameOf(w) \in DOMAIN dir => NameOf(w) \in DOMAIN dir',
           NameOf(w) \in DOMAIN dir' \/ TempOf(w) \in DOMAIN dir',
           \A v \in Workers : Past(v)' /\ worker'[v].name = NameOf(w) /\ NameOf(w) \notin shared' =>
              Fetched(v)',
           NameOf(w) \in DOMAIN dir' /\ NameOf(w) \notin shared' =>
              Complete(data'[dir'[NameOf(w)]], source[NameOf(w).key])
    PROVE  Arrived'
<1> DEFINE n == NameOf(w)
           t == TempOf(w)
<1>0. /\ n \in Names /\ t \in Names /\ n = Target(n.key) /\ t = Temp(n) /\ t.key = n.key
      /\ n # NoName /\ IsTarget(n)
  BY Place, TempForm DEF FilesInv, IsTarget, TempOf
<1>1. \A k : Target(k)' = Target(k)
  BY DEF Target
<1>2. \A k \in Keys : /\ Target(k) \in Names /\ Target(k) # t /\ Target(k).key = k
                      /\ Target(k) = n => k = n.key
  <2> SUFFICES ASSUME NEW k \in Keys PROVE Target(k) \in Names /\ Target(k) # t /\ Target(k).key = k
    OBVIOUS
  <2>1. IsTarget(Target(k)) /\ Target(k).key = k
    BY TargetForm DEF FilesInv
  <2>2. Target(k) # t
    <3>1. CASE Target(k) = n
      BY <1>0, <3>1, TempForm
    <3>2. CASE Target(k) # n
      BY <1>0, <2>1, <3>2, Spots
    <3> QED
      BY <3>1, <3>2
  <2> QED
    BY <2>1, <2>2 DEF IsTarget
<1>3. \A m \in Names \ {n, t} :
         /\ m \in DOMAIN dir' <=> m \in DOMAIN dir
         /\ m \in DOMAIN dir => dir'[m] = dir[m] /\ data'[dir[m]] = data[dir[m]]
  OBVIOUS
<1>4. \A k : Busy(k) => Busy(k)' \/ k = n.key
  BY DEF Busy, Active, NameOf
<1>5. \/ \A k : k = n.key => Busy(k)'
      \/ n \in DOMAIN dir' /\ t \notin DOMAIN dir'
  BY DEF Busy, Active, NameOf
<1>6. ASSUME NEW v \in Workers, Past(v)', worker'[v].name # n
      PROVE  /\ v # w /\ worker'[v] = worker[v] /\ Past(v)
             /\ NameOf(v) \in Names \ {n, t} /\ TempOf(v) \in Names \ {n, t}
  <2>1. v # w /\ worker'[v] = worker[v] /\ Past(v) /\ Active(v) /\ NameOf(v) # NameOf(w)
    BY <1>6, NoNameIsNone DEF Past, Active, NameOf
  <2>2. NameOf(v) \in Names /\ TempOf(v) \in Names
    BY <2>1, Place DEF FilesInv, IsTarget
  <2> QED
    BY <2>1, <2>2, Apart DEF FilesInv
<1> HIDE DEF n, t
<1>7. ASSUME NEW v \in Workers, Past(v)'
      PROVE  TempOf(v)' \in DOMAIN dir' \/ NameOf(v)' \in DOMAIN dir'
  <2>1. CASE worker'[v].name = n
    BY <2>1 DEF NameOf, TempOf, n, t
  <2>2. CASE worker'[v].name # n
    <3>1. TempOf(v) \in DOMAIN dir \/ NameOf(v) \in DOMAIN dir
      BY <1>6, <1>7, <2>2 DEF Arrived
    <3>2. TempOf(v) \in DOMAIN dir' \/ NameOf(v) \in DOMAIN dir'
      BY <1>3, <1>6, <1>7, <2>2, <3>1
    <3>3. worker'[v] = worker[v]
      BY <1>6, <1>7, <2>2
    <3> QED
      BY <3>2, <3>3 DEF NameOf, TempOf
  <2> QED
    BY <2>1, <2>2
<1>8. ASSUME NEW v \in Workers, Past(v)', worker'[v].name \notin shared'
      PROVE  Fetched(v)'
  <2>1. CASE worker'[v].name = n
    BY <1>8, <2>1 DEF n
  <2>2. CASE worker'[v].name # n
    <3>1. worker'[v] = worker[v] /\ Past(v) /\ NameOf(v) \notin shared /\ TempOf(v) \in Names \ {n, t}
      BY <1>6, <1>8, <2>2 DEF NameOf
    <3>2. Fetched(v)
      BY <3>1 DEF Arrived
    <3>3. NameOf(v)' = NameOf(v) /\ TempOf(v)' = TempOf(v)
      BY <3>1 DEF NameOf, TempOf
    <3> QED
      BY <1>3, <3>1, <3>2, <3>3 DEF Fetched, Content
  <2> QED
    BY <2>1, <2>2
<1>9. ASSUME NEW k \in Keys, Target(k) \in DOMAIN dir', Target(k) \notin shared'
      PROVE  Complete(data'[dir'[Target(k)]], source[k])
  <2>1. CASE Target(k) = n
    BY <1>2, <1>9, <2>1 DEF n
  <2>2. CASE Target(k) # n
    <3>1. Target(k) \in Names \ {n, t} /\ Target(k) \in DOMAIN dir /\ Target(k) \notin shared
      BY <1>2, <1>3, <1>9, <2>2
    <3>2. Complete(data[dir[Target(k)]], source[k])
      BY <3>1 DEF Arrived, Content
    <3> QED
      BY <1>3, <3>1, <3>2
  <2> QED
    BY <2>1, <2>2
<1>10. ASSUME NEW k \in Keys PROVE Handled(k)'
  <2>1. Handled(k)
    BY DEF Arrived
  <2>2. Target(k) \in DOMAIN dir => Target(k) \in DOMAIN dir'
    BY <1>2, <1>3 DEF n
  <2>3. Busy(k) => Busy(k)' \/ Target(k) \in DOMAIN dir'
    BY <1>0, <1>4, <1>5
  <2>4. Unchanged(k)' <=> Unchanged(k)
    BY DEF Unchanged
  <2> QED
    BY <1>1, <2>1, <2>2, <2>3, <2>4 DEF Handled
<1>11. ASSUME NEW m \in DOMAIN dir' PROVE Expected(m)'
  <2>1. CASE m = n
    BY <1>0, <1>1, <2>1 DEF Expected
  <2>2. CASE m = t
    <3>1. \A k : k = n.key => Busy(k)'
      BY <1>5, <1>11, <2>2
    <3> QED
      BY <1>0, <1>1, <2>2, <3>1 DEF Expected
  <2>3. CASE m \notin {n, t}
    <3>1. m \in DOMAIN dir /\ Expected(m)
      BY <1>3, <2>3 DEF Arrived
    <3>2. Busy(m.key) /\ m = Temp(Target(m.key)) => Busy(m.key)'
      BY <1>0, <1>4, <2>3
    <3> QED
      BY <1>1, <3>1, <3>2 DEF Expected
  <2> QED
    BY <2>1, <2>2, <2>3
<1> QED
  BY <1>1, <1>7, <1>8, <1>9, <1>10, <1>11 DEF Arrived, Content, NameOf

-----------------------------------------------------------------------------
(* The steps. *)

LEMMA InitFiles == Init => FilesInv
<1> SUFFICES ASSUME Init PROVE FilesInv
  OBVIOUS
<1>1. /\ DOMAIN dir = {} /\ DOMAIN before = {} /\ runs = 0 /\ running = FALSE /\ ok = TRUE
      /\ source \in [Keys -> Versions] /\ todo = [k \in Keys |-> 0]
      /\ data = [i \in Inodes |-> <<>>] /\ worker = [w \in Workers |-> Resting]
  BY DEF Init
<1>2. <<>> \in Seq(Cells)
  BY EmptySeq
<1>3. Types
  <2>1. data \in [Inodes -> Seq(Cells)] /\ todo \in [Keys -> Nat] /\ DOMAIN worker = Workers
    BY <1>1, <1>2
  <2>2. runs \in 0..MaxRuns
    BY <1>1, AvatarsAssumption
  <2>3. running \in BOOLEAN /\ ok \in BOOLEAN /\ ~running
    BY <1>1
  <2> QED
    BY <1>1, <2>1, <2>2, <2>3 DEF Types
<1>4. \A w \in Workers : worker[w] = Resting /\ worker[w].at = "idle"
  BY <1>1, NoNameIsNone
<1>5. Working /\ Handles /\ Lonely
  BY <1>4 DEF Working, WorkerOK, Handles, HandleOK, Lonely, Past
<1> QED
  BY <1>1, <1>3, <1>5 DEF FilesInv, Collected, OldFilesStay, PublishedComplete

\* Another worker sees nothing of a step that leaves it and the collection alone.
LEMMA Others ==
    ASSUME Working, NEW v \in Workers, worker'[v] = worker[v], UNCHANGED <<running, found>>
    PROVE  WorkerOK(v)'
<1>1. WorkerOK(v)
  BY DEF Working
<1>2. CASE worker[v] = Resting
  BY <1>2 DEF WorkerOK
<1>3. CASE worker[v] # Resting
  <2>1. \A k : Target(k)' = Target(k)
    BY DEF Target
  <2> QED
    BY <1>1, <1>3, <2>1 DEF WorkerOK, NameOf
<1> QED
  BY <1>2, <1>3

LEMMA ChangeFiles ==
    ASSUME FilesInv, NEW k \in Keys, Change(k)
    PROVE  FilesInv'
<1>1. UNCHANGED <<dir, data, running, runs, found, todo, worker, before, shared>> /\ ok' = FALSE
  BY DEF Change
<1>2. source' \in [Keys -> Versions]
  BY DEF Change, FilesInv, Types
<1>3. OldFilesStay' /\ PublishedComplete' /\ Lonely' /\ Handles'
  <2>1. \A w \in Workers : ~Past(w) => /\ worker[w].at \in {"idle", "get"}
                                       /\ (worker[w].at = "idle" => worker[w] = Resting)
                                       /\ (worker[w].at = "get" => worker[w].inode = 0)
    BY NoNameIsNone DEF FilesInv, Working, WorkerOK, Past
  <2> QED
    BY <1>1, <2>1, Quiet DEF Past
<1>4. Working'
  BY <1>1, Others DEF FilesInv, Working
<1> QED
  BY <1>1, <1>2, <1>3, <1>4 DEF FilesInv, Types, Collected

LEMMA AskFiles ==
    ASSUME FilesInv, NEW w \in Workers, NEW k \in Keys, Ask(w, k) \/ AskFails(w, k)
    PROVE  FilesInv' /\ (Arrived => Arrived')
<1>1. /\ UNCHANGED <<source, dir, data, running, runs, found, before, shared, ok>>
      /\ running /\ worker[w].at = "idle"
      /\ todo' = [todo EXCEPT ![k] = @ - 1] /\ todo[k] > 0
      /\ \/ worker' = worker
         \/ worker' = [worker EXCEPT ![w] = [Resting EXCEPT !.at = "get", !.name = Target(k)]]
  BY DEF Ask, AskFails, Take, Goes
<1>2. IsTarget(Target(k)) /\ Target(k).key = k
  BY <1>1, TargetForm DEF FilesInv
<1> DEFINE g == [Resting EXCEPT !.at = "get", !.name = Target(k)]
<1>3. /\ g.at = "get" /\ g.name = Target(k) /\ g.inode = 0 /\ g.pos = 0
      /\ g \in [at : {"get", "write", "rename"}, name : Names, inode : Inodes \cup {0},
                ver : Versions \cup {"none"}, pos : Nat]
  <2>1. Target(k) \in Names
    BY <1>2 DEF IsTarget
  <2> QED
    BY <2>1 DEF Resting
<1> HIDE DEF g
<1>4. /\ \A v \in Workers \ {w} : worker'[v] = worker[v]
      /\ worker'[w] = worker[w] \/ worker'[w] = g
      /\ DOMAIN worker' = Workers
  BY <1>1 DEF g, FilesInv, Types
<1>5. \A v \in Workers : ~Past(v) => /\ worker[v].at \in {"idle", "get"}
                                     /\ (worker[v].at = "idle" => worker[v] = Resting)
                                     /\ (worker[v].at = "get" => worker[v].inode = 0)
  BY NoNameIsNone DEF FilesInv, Working, WorkerOK, Past
<1>6. OldFilesStay' /\ PublishedComplete' /\ Lonely' /\ Handles'
  <2>1. \A v \in Workers : /\ Past(v)' => worker'[v] = worker[v]
                           /\ ~Past(v)' => ~Past(v) /\ worker'[v].at \in {"idle", "get"}
                                        /\ (worker'[v].at = "idle" => worker'[v] = Resting)
                                        /\ (worker'[v].at = "get" => worker'[v].inode = 0)
    <3> TAKE v \in Workers
    <3>1. CASE worker'[v] = worker[v]
      BY <1>5, <3>1 DEF Past
    <3>2. CASE v = w /\ worker'[w] = g
      BY <1>1, <1>3, <3>2 DEF Past
    <3> QED
      BY <1>4, <3>1, <3>2
  <2> QED
    BY <1>1, <2>1, Quiet
<1>7. Working'
  <2> SUFFICES ASSUME NEW v \in Workers PROVE WorkerOK(v)'
    BY DEF Working
  <2>1. CASE worker'[v] = worker[v]
    BY <1>1, <2>1, Others DEF FilesInv
  <2>2. CASE v = w /\ worker'[w] = g
    <3>1. Target(k)' = Target(k)
      BY <1>1 DEF Target
    <3>2. worker'[w].at = "get" /\ worker'[w].name = Target(k) /\ Target(k).key = k
      BY <1>2, <1>3, <2>2
    <3> QED
      BY <1>1, <1>2, <1>3, <2>2, <3>1, <3>2 DEF WorkerOK, NameOf
  <2> QED
    BY <1>4, <2>1, <2>2
<1>8. todo' \in [Keys -> Nat]
  <2>1. todo[k] - 1 \in Nat /\ todo \in [Keys -> Nat]
    BY <1>1 DEF FilesInv, Types
  <2> QED
    BY <1>1, <2>1
<1>9. ASSUME Arrived PROVE Arrived'
  <2>0. CASE ~ok
    BY <1>1, <2>0 DEF Arrived
  <2> SUFFICES ASSUME ok, Arrived PROVE Arrived'
    BY <1>9, <2>0
  <2>1. /\ \A j : Target(j)' = Target(j) /\ (Unchanged(j)' <=> Unchanged(j))
        /\ \A v \in Workers : (Past(v)' <=> Past(v)) /\ (Past(v) => worker'[v] = worker[v])
        /\ \A j : Busy(j) => Busy(j)'
    <3>1. \A j : Target(j)' = Target(j) /\ (Unchanged(j)' <=> Unchanged(j))
      BY <1>1 DEF Target, Unchanged
    <3>2. \A v \in Workers : worker'[v] # worker[v] => v = w /\ ~Past(v) /\ ~Past(v)'
      BY <1>1, <1>3, <1>4 DEF Past
    <3>3. \A j : Busy(j) => Busy(j)'
      BY <1>1, <1>4 DEF Busy, Active, NameOf
    <3> QED
      BY <3>1, <3>2, <3>3 DEF Past
  <2>2. Handled(k)'
    <3>1. CASE worker' = worker
      <4>1. Unchanged(k) \/ worker'[w] = g
        BY <3>1 DEF Ask, AskFails, Goes, g, FilesInv, Types
      <4>2. worker'[w] # g
        BY <1>1, <1>3, <3>1
      <4> QED
        BY <2>1, <4>1, <4>2 DEF Handled
    <3>2. CASE worker'[w] = g
      BY <1>2, <1>3, <3>2 DEF Handled, Busy, Active, NameOf
    <3> QED
      BY <1>1, <3>1, <3>2 DEF g, FilesInv, Types
  <2>3. \A j \in Keys : Handled(j)'
    <3> SUFFICES ASSUME NEW j \in Keys, j # k PROVE Handled(j)'
      BY <2>2
    <3>1. todo'[j] = todo[j] /\ Handled(j)
      BY <1>1 DEF Arrived, FilesInv, Types
    <3> QED
      BY <1>1, <2>1, <3>1 DEF Handled
  <2>4. \A m \in DOMAIN dir : Expected(m)'
    BY <1>1, <2>1 DEF Arrived, Expected
  <2>5. \A v \in Workers : Past(v)' =>
           /\ TempOf(v)' \in DOMAIN dir \/ NameOf(v)' \in DOMAIN dir
           /\ NameOf(v)' \notin shared => Fetched(v)'
    <3> SUFFICES ASSUME NEW v \in Workers, Past(v)'
                 PROVE  /\ TempOf(v)' \in DOMAIN dir \/ NameOf(v)' \in DOMAIN dir
                        /\ NameOf(v)' \notin shared => Fetched(v)'
      OBVIOUS
    <3>1. worker'[v] = worker[v] /\ Past(v)
      BY <2>1
    <3>2. NameOf(v)' = NameOf(v) /\ TempOf(v)' = TempOf(v)
      BY <3>1 DEF NameOf, TempOf
    <3>3. Fetched(v)' <=> Fetched(v)
      BY <1>1, <3>1, <3>2 DEF Fetched, Content
    <3> QED
      BY <1>1, <3>1, <3>2, <3>3 DEF Arrived
  <2>6. \A j \in Keys : Target(j) \in DOMAIN dir /\ Target(j) \notin shared =>
           Complete(data[dir[Target(j)]], source[j])
    BY <1>1 DEF Arrived, Content
  <2> QED
    BY <1>1, <2>1, <2>3, <2>4, <2>5, <2>6 DEF Arrived, Content
<1> QED
  BY <1>1, <1>4, <1>6, <1>7, <1>8, <1>9 DEF FilesInv, Types, Collected

\* A dump that ends, orderly or not.
LEMMA StopsFiles ==
    ASSUME FilesInv, Stops, ok' \in BOOLEAN
    PROVE  FilesInv'
<1>1. /\ running' = FALSE /\ todo' = [k \in Keys |-> 0] /\ worker' = [w \in Workers |-> Resting]
      /\ UNCHANGED <<source, dir, runs, before, shared>> /\ data' = Clean(dir, worker', data)
  BY DEF Stops
<1>2. /\ data' \in [Inodes -> Seq(Cells)]
      /\ \A n \in DOMAIN dir : data'[dir[n]] = data[dir[n]]
  <2>1. data \in [Inodes -> Seq(Cells)] /\ \A n \in DOMAIN dir : dir[n] \in Inodes
    BY DEF FilesInv, Types
  <2> QED
    BY <1>1, <2>1, CleanForm
<1>3. \A w \in Workers : worker'[w] = Resting /\ worker'[w].at = "idle"
  BY <1>1, NoNameIsNone
<1>4. Working' /\ Handles' /\ Lonely'
  BY <1>3 DEF Working, WorkerOK, Handles, HandleOK, Lonely, Past
<1>5. OldFilesStay' /\ PublishedComplete'
  BY <1>1, <1>2 DEF FilesInv, OldFilesStay, PublishedComplete, Content
<1>6. Types'
  BY <1>1, <1>2 DEF FilesInv, Types
<1> QED
  BY <1>1, <1>4, <1>5, <1>6 DEF FilesInv, Collected

LEMMA StartFiles ==
    ASSUME FilesInv, StartRun
    PROVE  FilesInv'
<1>1. /\ ~running /\ running' = TRUE /\ runs < MaxRuns /\ runs' = runs + 1 /\ ok' = TRUE
      /\ todo' = TasksPerRun /\ UNCHANGED <<source, dir, data, worker, shared>>
      /\ before' = [n \in DOMAIN dir |-> Content(n)]
      /\ DOMAIN found' = {n.key : n \in DOMAIN dir}
      /\ \A k \in {n.key : n \in DOMAIN dir} : found'[k].name = Newest(k)
  BY DEF StartRun
<1>2. Types'
  BY <1>1, AvatarsAssumption, NameFields DEF FilesInv, Types
<1>3. Collected'
  <2>1. ASSUME NEW k \in DOMAIN found'
        PROVE  /\ found'[k].name \in DOMAIN dir /\ found'[k].name.key = k
               /\ \A m \in DOMAIN dir : m.key = k => m.num <= found'[k].name.num
    <3>1. found'[k].name = Newest(k) /\ NamesOf(k) # {} /\ DOMAIN dir \subseteq Names
      BY <1>1 DEF NamesOf, FilesInv, Types
    <3>2. /\ Newest(k) \in NamesOf(k)
          /\ \A m \in NamesOf(k) : m.num < Newest(k).num \/ m.num = Newest(k).num
      BY <3>1, NewestForm
    <3>3. \A m \in NamesOf(k) : m.num \in Nat
      BY <3>1, NameFields DEF NamesOf
    <3>4. \A m \in NamesOf(k) : m.num <= Newest(k).num
      BY <3>2, <3>3
    <3> QED
      BY <3>1, <3>2, <3>4 DEF NamesOf
  <2>2. \A n \in DOMAIN dir : n.key \in DOMAIN found' /\ n.num < runs'
    BY <1>1, NameFields DEF FilesInv, Types
  <2>3. DOMAIN before' = DOMAIN dir
    BY <1>1
  <2> QED
    BY <2>1, <2>2, <2>3 DEF Collected
<1>4. \A w \in Workers : worker[w] = Resting /\ worker[w].at = "idle" /\ worker'[w] = Resting
  BY <1>1, NoNameIsNone DEF FilesInv, Working, WorkerOK
<1>5. Working' /\ Handles' /\ Lonely'
  BY <1>4 DEF Working, WorkerOK, Handles, HandleOK, Lonely, Past
<1>6. OldFilesStay' /\ PublishedComplete'
  BY <1>1 DEF FilesInv, OldFilesStay, PublishedComplete, Content
<1> QED
  BY <1>2, <1>3, <1>5, <1>6 DEF FilesInv

\* The file opened for a download is nobody else's.
LEMMA OpenedForm ==
    ASSUME FilesInv, NEW w \in Workers, worker[w].at = "get", Create(w)
    PROVE  /\ Opened(w) \in Inodes
           /\ \A m \in DOMAIN dir : dir[m] = Opened(w) => m = TempOf(w)
           /\ \A v \in Workers : worker[v].inode = Opened(w) => NameOf(v) = NameOf(w)
           /\ DOMAIN dir' = DOMAIN dir \cup {TempOf(w)} /\ dir'[TempOf(w)] = Opened(w)
           /\ \A m \in DOMAIN dir \ {TempOf(w)} : dir'[m] = dir[m]
<1> DEFINE t == TempOf(w)
           i == Opened(w)
<1>0. Active(w) /\ t = Temp(worker[w].name)
  BY DEF Active, TempOf, NameOf
<1>1. dir' = [m \in DOMAIN dir \cup {t} |-> IF m = t THEN i ELSE dir[m]]
  BY <1>0 DEF Create
<1>2. CASE t \in DOMAIN dir
  <2>1. i = dir[t] /\ i \in Inodes /\ \A m \in DOMAIN dir : dir[m] = i => m = t
    BY <1>0, <1>2 DEF Opened, FilesInv, Types
  <2> HIDE DEF i, t
  <2>2. ASSUME NEW v \in Workers, worker[v].inode = i
        PROVE  NameOf(v) = NameOf(w)
    <3>1. i # 0
      BY <2>1, AvatarsAssumption
    <3>2. Active(v)
      BY <2>2, <3>1, NoNameIsNone DEF FilesInv, Working, WorkerOK, Active
    <3>3. worker[v].at = "write"
      BY <2>2, <3>1, <3>2, Place DEF FilesInv
    <3>4. t \in {NameOf(v), TempOf(v)}
      BY <1>2, <2>1, <2>2, <3>3 DEF FilesInv, Handles, HandleOK
    <3> QED
      BY <1>0, <3>2, <3>4, Apart DEF FilesInv, t
  <2> QED
    BY <1>1, <2>1, <2>2 DEF t, i
<1>3. CASE t \notin DOMAIN dir
  <2>1. \E j \in Inodes : ~InUse(j)
    BY <1>0, <1>3 DEF Create
  <2>2. i \in Inodes /\ ~InUse(i)
    <3>1. i = CHOOSE j \in Inodes : ~InUse(j)
      BY <1>0, <1>3 DEF Opened
    <3> HIDE DEF i
    <3> QED
      BY <2>1, <3>1
  <2> HIDE DEF i, t
  <2>3. /\ \A m \in DOMAIN dir : dir[m] # i
        /\ \A v \in Workers : worker[v].inode # i
    BY <2>2 DEF InUse
  <2> QED
    BY <1>1, <2>2, <2>3 DEF t, i
<1> QED
  BY <1>2, <1>3

\* Types and handles after a step of w that keeps or drops names of its own.
LEMMA StepTypes ==
    ASSUME FilesInv, NEW w \in Workers, NEW next, worker' = [worker EXCEPT ![w] = next],
           UNCHANGED <<source, running, runs, found, todo, before>>, ok' \in BOOLEAN,
           data' \in [Inodes -> Seq(Cells)],
           DOMAIN dir' \subseteq DOMAIN dir \cup {NameOf(w), TempOf(w)},
           \A m \in DOMAIN dir' : dir'[m] \in Inodes,
           \A m, n \in DOMAIN dir' : dir'[m] = dir'[n] => m = n,
           Active(w), WorkerOK(w)'
    PROVE  /\ Types' /\ Collected' /\ Working' /\ worker'[w] = next
           /\ \A v \in Workers \ {w} : worker'[v] = worker[v]
<1>1. worker'[w] = next /\ DOMAIN worker' = Workers /\ \A v \in Workers \ {w} : worker'[v] = worker[v]
  BY DEF FilesInv, Types
<1>2. NameOf(w) \in Names /\ TempOf(w) \in Names /\ NameOf(w).num <= runs /\ TempOf(w).num <= runs
  BY Place DEF FilesInv, IsTarget
<1>3. Types'
  <2>1. \A m \in DOMAIN dir' : m \in Names /\ m.num <= runs
    BY <1>2 DEF FilesInv, Types
  <2> QED
    BY <1>1, <2>1 DEF FilesInv, Types
<1>4. Working'
  <2>1. \A v \in Workers \ {w} : WorkerOK(v)'
    BY <1>1, Others DEF FilesInv
  <2> QED
    BY <2>1 DEF Working
<1> QED
  BY <1>1, <1>3, <1>4 DEF FilesInv, Collected

\* Handles after such a step: the names of w move to other files of w at most.
LEMMA StepHandles ==
    ASSUME FilesInv, NEW w \in Workers, Active(w),
           \A v \in Workers \ {w} : worker'[v] = worker[v],
           worker'[w] = Resting \/ worker'[w].name = NameOf(w),
           \A m \in DOMAIN dir' \ {NameOf(w), TempOf(w)} : m \in DOMAIN dir /\ dir'[m] = dir[m],
           \A m \in DOMAIN dir' \cap {NameOf(w), TempOf(w)} :
              \A v \in Workers \ {w} : worker[v].inode = dir'[m] => NameOf(v) = NameOf(w),
           worker'[w].at = "write" =>
              /\ worker'[w].name = NameOf(w)
              /\ \A m \in DOMAIN dir' : dir'[m] = worker'[w].inode => m \in {NameOf(w), TempOf(w)}
              /\ \A v \in Workers \ {w} : worker[v].inode = worker'[w].inode => NameOf(v) = NameOf(w),
           worker'[w].at # "write" => worker'[w].inode = 0
    PROVE  Handles'
<1> SUFFICES ASSUME NEW v \in Workers, worker'[v].at = "write"
             PROVE  /\ \A m \in DOMAIN dir' : dir'[m] = worker'[v].inode =>
                          m \in {worker'[v].name, Temp(worker'[v].name)}
                    /\ \A u \in Workers : worker'[u].inode = worker'[v].inode =>
                          worker'[u].name = worker'[v].name
  BY DEF Handles, HandleOK, NameOf, TempOf
<1>1. CASE v = w
  BY <1>1 DEF NameOf, TempOf
<1>2. CASE v # w
  <2>1. worker'[v] = worker[v] /\ worker[v].at = "write" /\ HandleOK(v) /\ Active(v)
    BY <1>2 DEF FilesInv, Handles, Active
  <2>2. ASSUME NEW m \in DOMAIN dir', dir'[m] = worker[v].inode
        PROVE  m \in {NameOf(v), TempOf(v)}
    <3>1. CASE m \in {NameOf(w), TempOf(w)}
      <4>1. NameOf(v) = NameOf(w)
        BY <1>2, <2>2, <3>1
      <4> QED
        BY <3>1, <4>1 DEF TempOf
    <3>2. CASE m \notin {NameOf(w), TempOf(w)}
      BY <2>1, <2>2, <3>2 DEF HandleOK
    <3> QED
      BY <3>1, <3>2
  <2>3. worker[v].inode # 0
    BY <2>1, Place DEF FilesInv
  <2>4. ASSUME NEW u \in Workers, worker'[u].inode = worker[v].inode
        PROVE  worker'[u].name = NameOf(v)
    <3>1. CASE u # w
      BY <2>1, <2>4, <3>1 DEF HandleOK, NameOf
    <3>2. CASE u = w
      <4>1. worker'[w].at = "write"
        BY <2>3, <2>4, <3>2
      <4> QED
        BY <1>2, <2>4, <3>2, <4>1
    <3> QED
      BY <3>1, <3>2
  <2> QED
    BY <2>1, <2>2, <2>4 DEF NameOf, TempOf
<1> QED
  BY <1>1, <1>2

\* What w is after its own step.
LEMMA StepWorker ==
    ASSUME NEW w \in Workers, NEW g, worker'[w] = g, running', UNCHANGED found,
           g \in [at : {"get", "write", "rename"}, name : Names, inode : Inodes \cup {0},
                 ver : Versions \cup {"none"}, pos : Nat],
           g.name = Target(g.name.key),
           g.at = "write" <=> g.inode # 0,
           g.at = "write" => g.ver \in Versions /\ g.pos <= Size[g.ver],
           g.at = "get" => g.pos = 0
    PROVE  WorkerOK(w)'
<1>1. \A k : Target(k)' = Target(k)
  BY DEF Target
<1> QED
  BY <1>1 DEF WorkerOK, NameOf

LEMMA GetFiles ==
    ASSUME FilesInv, NEW w \in Workers, Get(w)
    PROVE  FilesInv' /\ (Arrived => Arrived')
<1> DEFINE n == NameOf(w)
           t == TempOf(w)
           i == Opened(w)
           g == [worker[w] EXCEPT !.at = "write", !.inode = i, !.ver = source[worker[w].name.key]]
<1>1. /\ worker[w].at = "get" /\ Create(w) /\ worker' = [worker EXCEPT ![w] = g]
      /\ data' = [data EXCEPT ![i] = <<>>]
      /\ shared' = (IF Meets(w) THEN shared \cup {n} ELSE shared)
      /\ UNCHANGED <<source, running, runs, found, todo, before, ok>>
  BY DEF Get, Goes, Share, NameOf
<1>2. /\ Active(w) /\ n \in Names /\ t \in Names /\ t # n /\ n = Target(n.key) /\ n.key \in Keys
      /\ running /\ n # NoName
      /\ worker[w] \in [at : {"get", "write", "rename"}, name : Names, inode : Inodes \cup {0},
                        ver : Versions \cup {"none"}, pos : Nat]
  BY <1>1, Place DEF FilesInv, Active, IsTarget
<1>3. /\ i \in Inodes /\ i # 0
      /\ \A m \in DOMAIN dir : dir[m] = i => m = t
      /\ \A v \in Workers : worker[v].inode = i => NameOf(v) = n
      /\ DOMAIN dir' = DOMAIN dir \cup {t} /\ dir'[t] = i
      /\ \A m \in DOMAIN dir \ {t} : dir'[m] = dir[m]
  BY <1>1, OpenedForm, AvatarsAssumption
<1>4. /\ data' \in [Inodes -> Seq(Cells)] /\ data'[i] = <<>>
      /\ \A j \in Inodes \ {i} : data'[j] = data[j]
  <2>1. <<>> \in Seq(Cells) /\ data \in [Inodes -> Seq(Cells)]
    BY EmptySeq DEF FilesInv, Types
  <2> HIDE DEF i
  <2> QED
    BY <1>1, <1>3, <2>1
<1>5. /\ g.at = "write" /\ g.inode = i /\ g.name = n /\ g.ver \in Versions /\ g.pos = 0
      /\ g \in [at : {"get", "write", "rename"}, name : Names, inode : Inodes \cup {0},
                ver : Versions \cup {"none"}, pos : Nat]
  <2> DEFINE x == source[worker[w].name.key]
             r == worker[w]
  <2>1. x \in Versions /\ r.name = n /\ r.pos = 0
    BY <1>1, <1>2, Place DEF FilesInv, Types, NameOf
  <2>2. g = [r EXCEPT !.at = "write", !.inode = i, !.ver = x]
    OBVIOUS
  <2>3. r \in [at : {"get", "write", "rename"}, name : Names, inode : Inodes \cup {0},
              ver : Versions \cup {"none"}, pos : Nat]
    BY <1>2
  <2> HIDE DEF x, i, r, g
  <2> QED
    BY <1>3, <2>1, <2>2, <2>3
<1> HIDE DEF g
<1>6. WorkerOK(w)'
  <2>1. worker'[w] = g
    BY <1>1 DEF FilesInv, Types
  <2>2. Size[g.ver] \in Nat
    BY <1>5, AvatarsAssumption
  <2>3. g.name = Target(g.name.key) /\ g.pos <= Size[g.ver]
    BY <1>2, <1>5, <2>2
  <2>4. running' /\ UNCHANGED found
    BY <1>1, <1>2
  <2> HIDE DEF n, t, i
  <2> QED
    BY <1>3, <1>5, <2>1, <2>3, <2>4, StepWorker
<1>7. /\ Types' /\ Collected' /\ Working' /\ worker'[w] = g
      /\ \A v \in Workers \ {w} : worker'[v] = worker[v]
  <2>1. \A m \in DOMAIN dir' : dir'[m] \in Inodes
    BY <1>3 DEF FilesInv, Types
  <2>2. \A m, q \in DOMAIN dir' : dir'[m] = dir'[q] => m = q
    BY <1>3 DEF FilesInv, Types
  <2>3. ok' \in BOOLEAN
    BY <1>1 DEF FilesInv, Types
  <2> HIDE DEF i
  <2> QED
    BY <1>1, <1>2, <1>3, <1>4, <1>6, <2>1, <2>2, <2>3, StepTypes
<1> HIDE DEF i
<1>8. Handles'
  <2>1. \A m \in DOMAIN dir' \ {n, t} : m \in DOMAIN dir /\ dir'[m] = dir[m]
    BY <1>3
  <2>2. \A m \in DOMAIN dir' \cap {n, t} :
           \A v \in Workers \ {w} : worker[v].inode = dir'[m] => NameOf(v) = n
    <3> SUFFICES ASSUME NEW v \in Workers \ {w}, n \in DOMAIN dir', worker[v].inode = dir'[n]
                 PROVE  NameOf(v) = n
      BY <1>3
    <3>1. n \in DOMAIN dir /\ dir'[n] = dir[n] /\ dir[n] \in Inodes /\ dir[n] # 0
      BY <1>2, <1>3, AvatarsAssumption DEF FilesInv, Types
    <3>2. Active(v)
      BY <3>1, NoNameIsNone DEF FilesInv, Working, WorkerOK, Active
    <3>3. worker[v].at = "write"
      BY <3>1, <3>2, Place DEF FilesInv
    <3>4. n \in {NameOf(v), TempOf(v)}
      BY <3>1, <3>3 DEF FilesInv, Handles, HandleOK
    <3> QED
      BY <1>2, <3>2, <3>4, Apart DEF FilesInv
  <2>3. \A m \in DOMAIN dir' : dir'[m] = i => m \in {n, t}
    BY <1>3
  <2> QED
    BY <1>2, <1>3, <1>5, <1>7, <2>1, <2>2, <2>3, StepHandles
<1>9. OldFilesStay' /\ PublishedComplete' /\ Lonely'
  <2>1. \A m \in Names \ {n, t} :
           /\ m \in DOMAIN dir' <=> m \in DOMAIN dir
           /\ m \in DOMAIN dir => dir'[m] = dir[m] /\ data'[dir[m]] = data[dir[m]]
    BY <1>3, <1>4 DEF FilesInv, Types
  <2>2. \A v \in Workers \ {w} : worker[v].at = "write" /\ NameOf(v) # n =>
           data'[worker[v].inode] = data[worker[v].inode]
    <3> TAKE v \in Workers \ {w}
    <3> HAVE worker[v].at = "write" /\ NameOf(v) # n
    <3>1. worker[v].inode \in Inodes /\ worker[v].inode # i
      BY <1>3, Place DEF FilesInv, Active
    <3> QED
      BY <1>4, <3>1
  <2>3. n \notin shared' => \A v \in Workers \ {w} : NameOf(v) # n
    BY <1>1 DEF Meets, NameOf
  <2>4. \A v \in Workers : Past(v)' /\ worker'[v].name = n /\ n \notin shared' => Alone(v)'
    <3> SUFFICES ASSUME NEW v \in Workers, worker'[v].name = n, n \notin shared' PROVE Alone(v)'
      OBVIOUS
    <3>1. v = w
      BY <1>7, <2>3 DEF NameOf
    <3>2. \A u \in Workers \ {w} : worker'[u].name # n
      BY <1>7, <2>3 DEF NameOf
    <3>3. /\ t \in DOMAIN dir' /\ dir'[t] = g.inode
          /\ data'[g.inode] = [c \in 1..g.pos |-> g.ver]
      <4>1. 1..0 = {}
        OBVIOUS
      <4>2. <<>> = [c \in 1..0 |-> g.ver]
        BY <4>1
      <4> QED
        BY <1>3, <1>4, <1>5, <4>2
    <3>4. worker'[w] = g /\ g.at = "write" /\ g.name = n /\ t = Temp(n)
      BY <1>5, <1>7 DEF TempOf
    <3> HIDE DEF n, t
    <3> QED
      BY <3>1, <3>2, <3>3, <3>4 DEF Alone, NameOf, TempOf
  <2>5. n \in DOMAIN dir' /\ Published(n) /\ n \notin shared' =>
           \E v \in Versions : Complete(data'[dir'[n]], v)
    <3> HAVE n \in DOMAIN dir' /\ Published(n) /\ n \notin shared'
    <3>1. n \in DOMAIN dir /\ dir'[n] = dir[n] /\ dir[n] # i /\ n \notin shared
      BY <1>1, <1>2, <1>3
    <3>2. \E v \in Versions : Complete(data[dir[n]], v)
      BY <3>1 DEF FilesInv, PublishedComplete, Content, Complete
    <3>3. data'[dir[n]] = data[dir[n]]
      BY <1>4, <3>1 DEF FilesInv, Types
    <3> QED
      BY <3>1, <3>2, <3>3
  <2>6. DOMAIN dir' \subseteq Names /\ shared \subseteq shared'
    BY <1>1, <1>2, <1>3 DEF FilesInv, Types
  <2> QED
    BY <1>1, <1>2, <1>5, <1>7, <2>1, <2>2, <2>4, <2>5, <2>6, Elsewhere
<1>10. ASSUME Arrived PROVE Arrived'
  <2>0. CASE ~ok
    BY <1>1, <2>0 DEF Arrived
  <2> SUFFICES ASSUME ok, Arrived PROVE Arrived'
    BY <1>10, <2>0
  <2>1. \A m \in Names \ {n, t} :
           /\ m \in DOMAIN dir' <=> m \in DOMAIN dir
           /\ m \in DOMAIN dir => dir'[m] = dir[m] /\ data'[dir[m]] = data[dir[m]]
    BY <1>3, <1>4 DEF FilesInv, Types
  <2>2. \A v \in Workers : Past(v)' /\ worker'[v].name = n /\ n \notin shared' => Fetched(v)'
    <3> SUFFICES ASSUME NEW v \in Workers, worker'[v].name = n, n \notin shared' PROVE Fetched(v)'
      OBVIOUS
    <3>1. v = w
      BY <1>1, <1>7 DEF Meets, NameOf
    <3>2. g.ver = source[n.key]
      BY <1>1, <1>2 DEF g, NameOf
    <3> QED
      BY <1>1, <1>5, <1>7, <3>1, <3>2 DEF Fetched, NameOf
  <2>3. n \in DOMAIN dir' /\ n \notin shared' => Complete(data'[dir'[n]], source[n.key])
    <3> HAVE n \in DOMAIN dir' /\ n \notin shared'
    <3>1. n \in DOMAIN dir /\ dir'[n] = dir[n] /\ dir[n] # i /\ n \notin shared
      BY <1>1, <1>2, <1>3
    <3>2. Complete(data[dir[n]], source[n.key])
      BY <1>2, <3>1 DEF Arrived, Content
    <3>3. data'[dir[n]] = data[dir[n]]
      BY <1>4, <3>1 DEF FilesInv, Types
    <3> QED
      BY <3>1, <3>2, <3>3
  <2>4. DOMAIN dir' \subseteq Names /\ shared \subseteq shared'
    BY <1>1, <1>2, <1>3 DEF FilesInv, Types
  <2>5. worker'[w].name = n /\ worker'[w].at # "idle"
    BY <1>5, <1>7
  <2> QED
    BY <1>1, <1>2, <1>3, <1>7, <2>1, <2>2, <2>3, <2>4, <2>5, ArriveElsewhere
<1> QED
  BY <1>7, <1>8, <1>9, <1>10 DEF FilesInv

\* Who has a file of w open downloads to the same name.
LEMMA Owner ==
    ASSUME FilesInv, NEW w \in Workers, Active(w), NEW v \in Workers,
           NEW m \in DOMAIN dir \cap {NameOf(w), TempOf(w)}, worker[v].inode = dir[m]
    PROVE  NameOf(v) = NameOf(w)
<1>1. dir[m] \in Inodes /\ dir[m] # 0
  BY AvatarsAssumption DEF FilesInv, Types
<1>2. Active(v)
  BY <1>1, NoNameIsNone DEF FilesInv, Working, WorkerOK, Active
<1>3. worker[v].at = "write"
  BY <1>1, <1>2, Place DEF FilesInv
<1>4. m \in {NameOf(v), TempOf(v)}
  BY <1>3 DEF FilesInv, Handles, HandleOK
<1> QED
  BY <1>2, <1>4, Apart DEF FilesInv

\* One cell more of a file.
Grown(s, p, v) ==
    [c \in DOMAIN s \cup 1..p |-> IF c = p THEN v ELSE IF c \in DOMAIN s THEN s[c] ELSE "hole"]

LEMMA Written ==
    ASSUME NEW s \in Seq(Cells), NEW q \in Nat, NEW v \in Versions
    PROVE  /\ Grown(s, q + 1, v) \in Seq(Cells)
           /\ s = [c \in 1..q |-> v] => Grown(s, q + 1, v) = [c \in 1..(q + 1) |-> v]
<1> DEFINE p == q + 1
           z == Grown(s, p, v)
<1>0. p = q + 1 /\ z = [c \in DOMAIN s \cup 1..p |->
                          IF c = p THEN v ELSE IF c \in DOMAIN s THEN s[c] ELSE "hole"]
  BY DEF Grown
<1> HIDE DEF p, z
<1>1. /\ DOMAIN s = 1..Len(s) /\ Len(s) \in Nat /\ p \in Nat
      /\ \A c \in DOMAIN s : s[c] \in Cells
  BY <1>0, LenProperties, ElementOfSeq
<1>2. z \in Seq(Cells)
  <2> DEFINE m == IF Len(s) < p THEN p ELSE Len(s)
  <2>1. DOMAIN s \cup 1..p = 1..m /\ m \in Nat
    BY <1>1
  <2>2. \A c \in 1..m : z[c] \in Cells
    BY <1>0, <1>1, <2>1 DEF Cells
  <2>3. z = [c \in 1..m |-> z[c]]
    BY <1>0, <2>1
  <2> HIDE DEF m
  <2>4. z \in [1..m -> Cells]
    BY <2>2, <2>3
  <2> QED
    BY <2>1, <2>4, SeqDef
<1>3. ASSUME s = [c \in 1..q |-> v] PROVE z = [c \in 1..p |-> v]
  <2>1. DOMAIN s = 1..q /\ \A c \in 1..q : s[c] = v
    BY <1>3
  <2>2. DOMAIN s \cup 1..p = 1..p /\ \A c \in 1..p : c = p \/ c \in 1..q
    BY <1>0, <2>1
  <2> QED
    BY <1>0, <2>1, <2>2
<1> QED
  BY <1>0, <1>2, <1>3 DEF z

LEMMA WriteFiles ==
    ASSUME FilesInv, NEW w \in Workers, Write(w)
    PROVE  FilesInv' /\ (Arrived => Arrived')
<1> DEFINE n == NameOf(w)
           t == TempOf(w)
           r == worker[w]
           i == r.inode
           q == r.pos
           p == q + 1
           g == [r EXCEPT !.pos = p]
           z == Grown(data[i], p, r.ver)
<1>1. /\ r.at = "write" /\ q < Size[r.ver] /\ worker' = [worker EXCEPT ![w] = g]
      /\ data' = [data EXCEPT ![i] = z]
      /\ UNCHANGED <<source, dir, running, runs, found, todo, before, shared, ok>>
  BY DEF Write, Goes, Grown
<1>2. /\ Active(w) /\ n \in Names /\ t \in Names /\ t # n /\ n = Target(n.key) /\ running /\ n # NoName
      /\ r \in [at : {"get", "write", "rename"}, name : Names, inode : Inodes \cup {0},
                ver : Versions \cup {"none"}, pos : Nat]
      /\ i \in Inodes /\ i # 0 /\ r.ver \in Versions /\ q \in Nat /\ Size[r.ver] \in Nat /\ r.name = n
  <2>1. Active(w)
    BY <1>1 DEF Active
  <2> QED
    BY <1>1, <2>1, Place, AvatarsAssumption DEF FilesInv, IsTarget, NameOf
<1> HIDE DEF z
<1>3. /\ z \in Seq(Cells) /\ (data[i] = [c \in 1..q |-> r.ver] => z = [c \in 1..p |-> r.ver])
      /\ data' \in [Inodes -> Seq(Cells)] /\ data'[i] = z
      /\ \A j \in Inodes \ {i} : data'[j] = data[j]
  <2>1. data \in [Inodes -> Seq(Cells)] /\ data[i] \in Seq(Cells)
    BY <1>2 DEF FilesInv, Types
  <2>2. z \in Seq(Cells) /\ (data[i] = [c \in 1..q |-> r.ver] => z = [c \in 1..p |-> r.ver])
    <3> DEFINE s == data[i]
               x == r.ver
    <3>1. s \in Seq(Cells) /\ x \in Versions /\ q \in Nat
      BY <1>2, <2>1
    <3> HIDE DEF s, x, q
    <3>2. /\ Grown(s, q + 1, x) \in Seq(Cells)
          /\ s = [c \in 1..q |-> x] => Grown(s, q + 1, x) = [c \in 1..(q + 1) |-> x]
      BY <3>1, Written
    <3> QED
      BY <3>2 DEF s, x, z
  <2> HIDE DEF i
  <2> QED
    BY <1>1, <1>2, <2>1, <2>2
<1>4. /\ g.at = "write" /\ g.inode = i /\ g.name = n /\ g.ver = r.ver /\ g.pos = p /\ p <= Size[g.ver]
      /\ g \in [at : {"get", "write", "rename"}, name : Names, inode : Inodes \cup {0},
                ver : Versions \cup {"none"}, pos : Nat]
  <2>1. p \in Nat /\ p <= Size[r.ver]
    BY <1>1, <1>2
  <2> HIDE DEF p, r
  <2> QED
    BY <1>1, <1>2, <2>1
<1> HIDE DEF g, p
<1>5. WorkerOK(w)'
  <2>1. worker'[w] = g /\ running' /\ UNCHANGED found
    BY <1>1, <1>2 DEF FilesInv, Types
  <2>2. g.name = Target(g.name.key) /\ g.ver \in Versions
    BY <1>2, <1>4
  <2> HIDE DEF n, t, i, r
  <2> QED
    BY <1>2, <1>4, <2>1, <2>2, StepWorker
<1>6. /\ Types' /\ Collected' /\ Working' /\ worker'[w] = g
      /\ \A v \in Workers \ {w} : worker'[v] = worker[v]
  <2>1. /\ \A m \in DOMAIN dir' : dir'[m] \in Inodes
        /\ \A m, u \in DOMAIN dir' : dir'[m] = dir'[u] => m = u
        /\ ok' \in BOOLEAN /\ DOMAIN dir' \subseteq DOMAIN dir \cup {n, t}
    BY <1>1 DEF FilesInv, Types
  <2> QED
    BY <1>1, <1>2, <1>3, <1>5, <2>1, StepTypes
<1>7. HandleOK(w)
  BY DEF FilesInv, Handles
<1>8. Handles'
  <2>1. \A m \in DOMAIN dir' \cap {n, t} :
           \A v \in Workers \ {w} : worker[v].inode = dir'[m] => NameOf(v) = n
    BY <1>1, <1>2, Owner
  <2>2. /\ \A m \in DOMAIN dir' : dir'[m] = i => m \in {n, t}
        /\ \A v \in Workers \ {w} : worker[v].inode = i => NameOf(v) = n
    BY <1>1, <1>7 DEF HandleOK
  <2> HIDE DEF i, n, t
  <2> QED
    BY <1>1, <1>2, <1>4, <1>6, <2>1, <2>2, StepHandles DEF n, t
<1>9. n \notin shared => Alone(w)
  BY <1>1 DEF FilesInv, Lonely, Past
<1>10. OldFilesStay' /\ PublishedComplete' /\ Lonely'
  <2>1. \A m \in Names \ {n, t} :
           /\ m \in DOMAIN dir' <=> m \in DOMAIN dir
           /\ m \in DOMAIN dir => dir'[m] = dir[m] /\ data'[dir[m]] = data[dir[m]]
    BY <1>1, <1>3, <1>7 DEF FilesInv, Types, HandleOK
  <2>2. \A v \in Workers \ {w} : worker[v].at = "write" /\ NameOf(v) # n =>
           data'[worker[v].inode] = data[worker[v].inode]
    <3> TAKE v \in Workers \ {w}
    <3> HAVE worker[v].at = "write" /\ NameOf(v) # n
    <3>1. worker[v].inode \in Inodes /\ worker[v].inode # i
      BY <1>1, <1>7, Place DEF FilesInv, Active, HandleOK
    <3> QED
      BY <1>3, <3>1
  <2>3. \A v \in Workers : Past(v)' /\ worker'[v].name = n /\ n \notin shared' => Alone(v)'
    <3> SUFFICES ASSUME NEW v \in Workers, Past(v)', worker'[v].name = n, n \notin shared' PROVE Alone(v)'
      OBVIOUS
    <3>1. Alone(w)
      BY <1>1, <1>9
    <3>2. v = w
      BY <1>6, <3>1 DEF Alone, NameOf, Past
    <3>3. \A u \in Workers \ {w} : worker'[u].name = n => worker'[u].at = "get"
      BY <1>6, <3>1 DEF Alone, NameOf
    <3>4. t \in DOMAIN dir' /\ dir'[t] = i /\ data'[i] = [c \in 1..p |-> r.ver]
      <4>1. t \in DOMAIN dir /\ dir[t] = i /\ data[i] = [c \in 1..q |-> r.ver]
        BY <1>1, <3>1 DEF Alone
      <4> QED
        BY <1>1, <1>3, <4>1
    <3>5. worker'[w] = g /\ t = Temp(n)
      BY <1>6 DEF TempOf
    <3> HIDE DEF n, t, i, r
    <3> QED
      BY <1>4, <3>2, <3>3, <3>4, <3>5 DEF Alone, NameOf, TempOf
  <2>4. n \in DOMAIN dir' /\ Published(n) /\ n \notin shared' =>
           \E v \in Versions : Complete(data'[dir'[n]], v)
    <3> HAVE n \in DOMAIN dir' /\ Published(n) /\ n \notin shared'
    <3>1. Alone(w) /\ n \in DOMAIN dir /\ n \notin shared
      BY <1>1, <1>9
    <3>2. t \in DOMAIN dir /\ dir[t] = i
      BY <1>1, <3>1 DEF Alone
    <3>3. dir[n] \in Inodes /\ dir[n] # i
      BY <1>2, <3>1, <3>2 DEF FilesInv, Types
    <3>4. \E v \in Versions : Complete(data[dir[n]], v)
      BY <3>1 DEF FilesInv, PublishedComplete, Content, Complete
    <3> QED
      BY <1>1, <1>3, <3>3, <3>4
  <2>5. DOMAIN dir' \subseteq Names /\ shared \subseteq shared'
    BY <1>1 DEF FilesInv, Types
  <2> QED
    BY <1>1, <1>2, <1>4, <1>6, <2>1, <2>2, <2>3, <2>4, <2>5, Elsewhere
<1>11. ASSUME Arrived PROVE Arrived'
  <2>0. CASE ~ok
    BY <1>1, <2>0 DEF Arrived
  <2> SUFFICES ASSUME ok, Arrived PROVE Arrived'
    BY <1>11, <2>0
  <2>1. \A m \in Names \ {n, t} :
           /\ m \in DOMAIN dir' <=> m \in DOMAIN dir
           /\ m \in DOMAIN dir => dir'[m] = dir[m] /\ data'[dir[m]] = data[dir[m]]
    BY <1>1, <1>3, <1>7 DEF FilesInv, Types, HandleOK
  <2>2. Past(w) /\ (t \in DOMAIN dir \/ n \in DOMAIN dir)
    BY <1>1, <1>2 DEF Past, Arrived
  <2>3. \A v \in Workers : Past(v)' /\ worker'[v].name = n /\ n \notin shared' => Fetched(v)'
    <3> SUFFICES ASSUME NEW v \in Workers, Past(v)', worker'[v].name = n, n \notin shared' PROVE Fetched(v)'
      OBVIOUS
    <3>1. Alone(w) /\ Fetched(w)
      BY <1>1, <1>2, <1>9, <2>2 DEF Arrived
    <3>2. v = w
      BY <1>6, <3>1 DEF Alone, NameOf, Past
    <3>3. r.ver = source[n.key]
      BY <1>1, <3>1 DEF Fetched
    <3>4. worker'[w] = g /\ source' = source
      BY <1>1, <1>6
    <3> HIDE DEF n, t, r, i
    <3> QED
      BY <1>4, <3>2, <3>3, <3>4 DEF Fetched, NameOf
  <2>4. n \in DOMAIN dir' /\ n \notin shared' => Complete(data'[dir'[n]], source[n.key])
    <3> HAVE n \in DOMAIN dir' /\ n \notin shared'
    <3>1. Alone(w) /\ n \in DOMAIN dir /\ n \notin shared
      BY <1>1, <1>9
    <3>2. t \in DOMAIN dir /\ dir[t] = i
      BY <1>1, <3>1 DEF Alone
    <3>3. dir[n] \in Inodes /\ dir[n] # i
      BY <1>2, <3>1, <3>2 DEF FilesInv, Types
    <3>4. n.key \in Keys
      BY <1>2, NameFields
    <3>5. Complete(data[dir[n]], source[n.key])
      BY <1>2, <3>1, <3>4 DEF Arrived, Content
    <3> QED
      BY <1>1, <1>3, <3>3, <3>5
  <2>5. DOMAIN dir' \subseteq Names /\ shared \subseteq shared'
    BY <1>1 DEF FilesInv, Types
  <2>6. worker'[w].name = n /\ worker'[w].at # "idle"
    BY <1>4, <1>6
  <2> QED
    BY <1>1, <1>2, <1>6, <2>1, <2>2, <2>3, <2>4, <2>5, <2>6, ArriveElsewhere
<1> QED
  BY <1>6, <1>8, <1>10, <1>11 DEF FilesInv

LEMMA DownloadedFiles ==
    ASSUME FilesInv, NEW w \in Workers, Downloaded(w)
    PROVE  FilesInv' /\ (Arrived => Arrived')
<1> DEFINE n == NameOf(w)
           t == TempOf(w)
           r == worker[w]
           i == r.inode
           g == [r EXCEPT !.at = "rename", !.inode = 0]
<1>1. /\ r.at = "write" /\ r.pos = Size[r.ver] /\ worker' = [worker EXCEPT ![w] = g]
      /\ data' = Clean(dir, worker', data)
      /\ UNCHANGED <<source, dir, running, runs, found, todo, before, shared, ok>>
  BY DEF Downloaded, Goes
<1>2. /\ Active(w) /\ n \in Names /\ t \in Names /\ t # n /\ n = Target(n.key) /\ running /\ n # NoName
      /\ r \in [at : {"get", "write", "rename"}, name : Names, inode : Inodes \cup {0},
                ver : Versions \cup {"none"}, pos : Nat]
      /\ r.ver \in Versions /\ r.name = n
  <2>1. Active(w)
    BY <1>1 DEF Active
  <2> QED
    BY <1>1, <2>1, Place DEF FilesInv, IsTarget, NameOf
<1>3. /\ g.at = "rename" /\ g.inode = 0 /\ g.name = n
      /\ g \in [at : {"get", "write", "rename"}, name : Names, inode : Inodes \cup {0},
                ver : Versions \cup {"none"}, pos : Nat]
  <2> HIDE DEF r
  <2> QED
    BY <1>2
<1> HIDE DEF g
<1>4. /\ worker'[w] = g /\ \A v \in Workers \ {w} : worker'[v] = worker[v]
      /\ running' /\ UNCHANGED found
  BY <1>1, <1>2 DEF FilesInv, Types
<1>5. /\ data' \in [Inodes -> Seq(Cells)]
      /\ \A m \in DOMAIN dir : data'[dir[m]] = data[dir[m]]
      /\ \A v \in Workers \ {w} : worker[v].inode \in Inodes =>
            data'[worker[v].inode] = data[worker[v].inode]
  <2>1. data \in [Inodes -> Seq(Cells)] /\ \A m \in DOMAIN dir : dir[m] \in Inodes
    BY DEF FilesInv, Types
  <2> DEFINE ws == worker'
             z == data'
  <2>2. z = Clean(dir, ws, data)
    BY <1>1
  <2>3. /\ z \in [Inodes -> Seq(Cells)] /\ \A m \in DOMAIN dir : z[dir[m]] = data[dir[m]]
        /\ \A v \in Workers : ws[v].inode \in Inodes => z[ws[v].inode] = data[ws[v].inode]
    <3> HIDE DEF ws, z
    <3> QED
      BY <2>1, <2>2, CleanForm
  <2> QED
    BY <1>4, <2>3
<1>6. WorkerOK(w)'
  <2>1. g.name = Target(g.name.key)
    BY <1>2, <1>3
  <2> HIDE DEF n, t, i, r
  <2> QED
    BY <1>3, <1>4, <2>1, StepWorker
<1>7. Types' /\ Collected' /\ Working'
  <2>1. /\ \A m \in DOMAIN dir' : dir'[m] \in Inodes
        /\ \A m, u \in DOMAIN dir' : dir'[m] = dir'[u] => m = u
        /\ ok' \in BOOLEAN /\ DOMAIN dir' \subseteq DOMAIN dir \cup {n, t}
    BY <1>1 DEF FilesInv, Types
  <2> QED
    BY <1>1, <1>2, <1>5, <1>6, <2>1, StepTypes
<1>8. Handles'
  <2>1. \A m \in DOMAIN dir' \cap {n, t} :
           \A v \in Workers \ {w} : worker[v].inode = dir'[m] => NameOf(v) = n
    BY <1>1, <1>2, Owner
  <2> HIDE DEF n, t, i
  <2> QED
    BY <1>1, <1>2, <1>3, <1>4, <2>1, StepHandles DEF n, t
<1>9. n \notin shared => Alone(w)
  BY <1>1 DEF FilesInv, Lonely, Past
<1>10. OldFilesStay' /\ PublishedComplete' /\ Lonely'
  <2>1. \A m \in Names \ {n, t} :
           /\ m \in DOMAIN dir' <=> m \in DOMAIN dir
           /\ m \in DOMAIN dir => dir'[m] = dir[m] /\ data'[dir[m]] = data[dir[m]]
    BY <1>1, <1>5
  <2>2. \A v \in Workers \ {w} : worker[v].at = "write" /\ NameOf(v) # n =>
           data'[worker[v].inode] = data[worker[v].inode]
    BY <1>5, Place DEF FilesInv, Active
  <2>3. \A v \in Workers : Past(v)' /\ worker'[v].name = n /\ n \notin shared' => Alone(v)'
    <3> SUFFICES ASSUME NEW v \in Workers, Past(v)', worker'[v].name = n, n \notin shared' PROVE Alone(v)'
      OBVIOUS
    <3>1. Alone(w)
      BY <1>1, <1>9
    <3>2. v = w
      BY <1>4, <3>1 DEF Alone, NameOf, Past
    <3>3. \A u \in Workers \ {w} : worker'[u].name = n => worker'[u].at = "get"
      BY <1>4, <3>1 DEF Alone, NameOf
    <3>4. Complete(data'[dir'[t]], r.ver)
      <4>1. t \in DOMAIN dir /\ dir[t] = i /\ data[i] = [c \in 1..r.pos |-> r.ver]
        BY <1>1, <3>1 DEF Alone
      <4> QED
        BY <1>1, <1>5, <4>1 DEF Complete
    <3>5. worker'[w] = g /\ t = Temp(n)
      BY <1>4 DEF TempOf
    <3>6. r.ver \in Versions
      BY <1>2
    <3> HIDE DEF n, t, i, r
    <3> QED
      BY <1>3, <3>2, <3>3, <3>4, <3>5, <3>6 DEF Alone, NameOf, TempOf, Content, Complete
  <2>4. n \in DOMAIN dir' /\ Published(n) /\ n \notin shared' =>
           \E v \in Versions : Complete(data'[dir'[n]], v)
    <3> HAVE n \in DOMAIN dir' /\ Published(n) /\ n \notin shared'
    <3>1. n \in DOMAIN dir /\ dir'[n] = dir[n] /\ n \notin shared
      BY <1>1
    <3>2. \E v \in Versions : Complete(data[dir[n]], v)
      BY <3>1 DEF FilesInv, PublishedComplete, Content, Complete
    <3> QED
      BY <1>5, <3>1, <3>2
  <2>5. DOMAIN dir' \subseteq Names /\ shared \subseteq shared'
    BY <1>1 DEF FilesInv, Types
  <2> QED
    BY <1>1, <1>2, <1>3, <1>4, <2>1, <2>2, <2>3, <2>4, <2>5, Elsewhere
<1>11. ASSUME Arrived PROVE Arrived'
  <2>0. CASE ~ok
    BY <1>1, <2>0 DEF Arrived
  <2> SUFFICES ASSUME ok, Arrived PROVE Arrived'
    BY <1>11, <2>0
  <2>1. \A m \in Names \ {n, t} :
           /\ m \in DOMAIN dir' <=> m \in DOMAIN dir
           /\ m \in DOMAIN dir => dir'[m] = dir[m] /\ data'[dir[m]] = data[dir[m]]
    BY <1>1, <1>5
  <2>2. Past(w) /\ (t \in DOMAIN dir \/ n \in DOMAIN dir)
    BY <1>1, <1>2 DEF Past, Arrived
  <2>3. \A v \in Workers : Past(v)' /\ worker'[v].name = n /\ n \notin shared' => Fetched(v)'
    <3> SUFFICES ASSUME NEW v \in Workers, Past(v)', worker'[v].name = n, n \notin shared' PROVE Fetched(v)'
      OBVIOUS
    <3>1. Alone(w) /\ Fetched(w)
      BY <1>1, <1>2, <1>9, <2>2 DEF Arrived
    <3>2. v = w
      BY <1>4, <3>1 DEF Alone, NameOf, Past
    <3>3. r.ver = source[n.key]
      BY <1>1, <3>1 DEF Fetched
    <3>4. t \in DOMAIN dir' /\ Complete(data'[dir'[t]], source[n.key])
      <4>1. t \in DOMAIN dir /\ dir[t] = i /\ data[i] = [c \in 1..r.pos |-> r.ver]
        BY <1>1, <3>1 DEF Alone
      <4> QED
        BY <1>1, <1>5, <3>3, <4>1, ZenonT(60) DEF Complete
    <3>5. worker'[w] = g /\ source' = source /\ t = Temp(n)
      BY <1>1, <1>4 DEF TempOf
    <3> HIDE DEF n, t, r, i
    <3> QED
      BY <1>3, <3>2, <3>4, <3>5 DEF Fetched, NameOf, TempOf, Content
  <2>4. n \in DOMAIN dir' /\ n \notin shared' => Complete(data'[dir'[n]], source[n.key])
    <3> HAVE n \in DOMAIN dir' /\ n \notin shared'
    <3>1. n \in DOMAIN dir /\ n \notin shared /\ n.key \in Keys
      BY <1>1, <1>2, NameFields
    <3>2. Complete(data[dir[n]], source[n.key])
      BY <1>2, <3>1 DEF Arrived, Content
    <3> QED
      BY <1>1, <1>5, <3>1, <3>2
  <2>5. DOMAIN dir' \subseteq Names /\ shared \subseteq shared'
    BY <1>1 DEF FilesInv, Types
  <2>6. worker'[w].name = n /\ worker'[w].at # "idle"
    BY <1>3, <1>4
  <2> QED
    BY <1>1, <1>2, <1>4, <2>1, <2>2, <2>3, <2>4, <2>5, <2>6, ArriveElsewhere
<1> QED
  BY <1>7, <1>8, <1>10, <1>11 DEF FilesInv

LEMMA GetStatusFiles ==
    ASSUME FilesInv, NEW w \in Workers, GetStatus(w)
    PROVE  FilesInv'
<1> DEFINE n == NameOf(w)
           t == TempOf(w)
           i == Opened(w)
           page == [data EXCEPT ![i] = <<"error">>]
<1>1. /\ worker[w].at = "get" /\ Create(w) /\ worker' = [worker EXCEPT ![w] = Resting]
      /\ data' = Clean(dir', worker', page)
      /\ shared' = (IF Meets(w) THEN shared \cup {n} ELSE shared) /\ ok' = FALSE
      /\ UNCHANGED <<source, running, runs, found, todo, before>>
  BY DEF GetStatus, Goes, Share, NameOf
<1>2. /\ Active(w) /\ n \in Names /\ t \in Names /\ t # n /\ running /\ n # NoName
  BY <1>1, Place DEF FilesInv, Active, IsTarget
<1>3. /\ i \in Inodes /\ i # 0
      /\ \A m \in DOMAIN dir : dir[m] = i => m = t
      /\ \A v \in Workers : worker[v].inode = i => NameOf(v) = n
      /\ DOMAIN dir' = DOMAIN dir \cup {t} /\ dir'[t] = i
      /\ \A m \in DOMAIN dir \ {t} : dir'[m] = dir[m]
  BY <1>1, OpenedForm, AvatarsAssumption
<1>4. worker'[w] = Resting /\ \A v \in Workers \ {w} : worker'[v] = worker[v]
  BY <1>1 DEF FilesInv, Types
<1>5. /\ \A m \in DOMAIN dir' : dir'[m] \in Inodes
      /\ \A m, u \in DOMAIN dir' : dir'[m] = dir'[u] => m = u
  BY <1>3 DEF FilesInv, Types
<1>6. /\ page \in [Inodes -> Seq(Cells)]
      /\ \A j \in Inodes \ {i} : page[j] = data[j]
  <2>1. "error" \in Cells /\ data \in [Inodes -> Seq(Cells)]
    BY DEF Cells, FilesInv, Types
  <2>2. <<"error">> \in Seq(Cells)
    BY <2>1
  <2> HIDE DEF i
  <2> QED
    BY <1>3, <2>1, <2>2
<1> HIDE DEF i, page
<1>7. /\ data' \in [Inodes -> Seq(Cells)]
      /\ \A m \in DOMAIN dir \ {t} : data'[dir[m]] = data[dir[m]]
      /\ \A v \in Workers \ {w} : worker[v].inode \in Inodes \ {i} =>
            data'[worker[v].inode] = data[worker[v].inode]
  <2>1. /\ \A m \in DOMAIN dir' : data'[dir'[m]] = page[dir'[m]]
        /\ \A v \in Workers : worker'[v].inode \in Inodes =>
              data'[worker'[v].inode] = page[worker'[v].inode]
        /\ data' \in [Inodes -> Seq(Cells)]
    <3> DEFINE ws == worker'
               z == data'
               d == dir'
    <3>1. z = Clean(d, ws, page) /\ \A m \in DOMAIN d : d[m] \in Inodes
      BY <1>1, <1>5
    <3>2. /\ z \in [Inodes -> Seq(Cells)] /\ \A m \in DOMAIN d : z[d[m]] = page[d[m]]
          /\ \A v \in Workers : ws[v].inode \in Inodes => z[ws[v].inode] = page[ws[v].inode]
      <4> HIDE DEF ws, z, d
      <4> QED
        BY <1>6, <3>1, CleanForm
    <3> QED
      BY <3>2
  <2>2. \A m \in DOMAIN dir \ {t} : dir[m] \in Inodes \ {i} /\ m \in DOMAIN dir' /\ dir'[m] = dir[m]
    BY <1>3 DEF FilesInv, Types
  <2> QED
    BY <1>4, <1>6, <2>1, <2>2
<1>8. Types' /\ Collected' /\ Working'
  <2>1. WorkerOK(w)'
    BY <1>4 DEF WorkerOK
  <2> QED
    BY <1>1, <1>2, <1>3, <1>5, <1>7, <2>1, StepTypes
<1>9. Handles'
  <2>1. \A m \in DOMAIN dir' \ {n, t} : m \in DOMAIN dir /\ dir'[m] = dir[m]
    BY <1>3
  <2>2. \A m \in DOMAIN dir' \cap {n, t} :
           \A v \in Workers \ {w} : worker[v].inode = dir'[m] => NameOf(v) = n
    <3> SUFFICES ASSUME NEW v \in Workers \ {w}, n \in DOMAIN dir', worker[v].inode = dir'[n]
                 PROVE  NameOf(v) = n
      BY <1>3
    <3> QED
      BY <1>2, <1>3, Owner
  <2> QED
    BY <1>2, <1>4, <2>1, <2>2, NoNameIsNone, StepHandles
<1>10. OldFilesStay' /\ PublishedComplete' /\ Lonely'
  <2>1. \A m \in Names \ {n, t} :
           /\ m \in DOMAIN dir' <=> m \in DOMAIN dir
           /\ m \in DOMAIN dir => dir'[m] = dir[m] /\ data'[dir[m]] = data[dir[m]]
    BY <1>3, <1>7
  <2>2. \A v \in Workers \ {w} : worker[v].at = "write" /\ NameOf(v) # n =>
           data'[worker[v].inode] = data[worker[v].inode]
    BY <1>3, <1>7, Place DEF FilesInv, Active
  <2>3. \A v \in Workers : Past(v)' /\ worker'[v].name = n /\ n \notin shared' => Alone(v)'
    <3> SUFFICES ASSUME NEW v \in Workers, Past(v)', worker'[v].name = n, n \notin shared' PROVE FALSE
      OBVIOUS
    <3>1. v # w
      BY <1>2, <1>4, NoNameIsNone
    <3> QED
      BY <1>1, <1>4, <3>1 DEF Meets, NameOf
  <2>4. n \in DOMAIN dir' /\ Published(n) /\ n \notin shared' =>
           \E v \in Versions : Complete(data'[dir'[n]], v)
    <3> HAVE n \in DOMAIN dir' /\ Published(n) /\ n \notin shared'
    <3>1. n \in DOMAIN dir \ {t} /\ dir'[n] = dir[n] /\ n \notin shared
      BY <1>1, <1>2, <1>3
    <3>2. \E v \in Versions : Complete(data[dir[n]], v)
      BY <3>1 DEF FilesInv, PublishedComplete, Content, Complete
    <3> QED
      BY <1>7, <3>1, <3>2
  <2>5. DOMAIN dir' \subseteq Names /\ shared \subseteq shared'
    BY <1>1, <1>2, <1>3 DEF FilesInv, Types
  <2> QED
    BY <1>1, <1>2, <1>4, <2>1, <2>2, <2>3, <2>4, <2>5, Elsewhere
<1> QED
  BY <1>8, <1>9, <1>10 DEF FilesInv

LEMMA GetFailsFiles ==
    ASSUME FilesInv, NEW w \in Workers, GetFails(w)
    PROVE  FilesInv'
<1> DEFINE n == NameOf(w)
           t == TempOf(w)
           r == worker[w]
           g == [r EXCEPT !.at = "rename", !.inode = 0]
<1>1. /\ r.at = "get" \/ r.at = "write"
      /\ worker' = [worker EXCEPT ![w] = Resting] \/ worker' = [worker EXCEPT ![w] = g]
      /\ dir' = Without(t) /\ data' = Clean(dir', worker', data)
      /\ shared' = (IF Meets(w) THEN shared \cup {n} ELSE shared) /\ ok' = FALSE
      /\ UNCHANGED <<source, running, runs, found, todo, before>>
  BY DEF GetFails, Goes, Share, NameOf, TempOf
<1>2. /\ Active(w) /\ n \in Names /\ t \in Names /\ t # n /\ n = Target(n.key) /\ running /\ n # NoName
      /\ r \in [at : {"get", "write", "rename"}, name : Names, inode : Inodes \cup {0},
                ver : Versions \cup {"none"}, pos : Nat]
      /\ r.name = n
  <2>1. Active(w)
    BY <1>1 DEF Active
  <2> QED
    BY <1>1, <2>1, Place DEF FilesInv, IsTarget, NameOf
<1>3. /\ g.at = "rename" /\ g.inode = 0 /\ g.name = n
      /\ g \in [at : {"get", "write", "rename"}, name : Names, inode : Inodes \cup {0},
                ver : Versions \cup {"none"}, pos : Nat]
  <2> HIDE DEF r
  <2> QED
    BY <1>2
<1> HIDE DEF g
<1>4. /\ worker'[w] = Resting \/ worker'[w] = g
      /\ \A v \in Workers \ {w} : worker'[v] = worker[v]
      /\ running' /\ UNCHANGED found
  BY <1>1, <1>2 DEF FilesInv, Types
<1>5. /\ DOMAIN dir' = DOMAIN dir \ {t} /\ \A m \in DOMAIN dir' : dir'[m] = dir[m]
      /\ \A m \in DOMAIN dir' : dir'[m] \in Inodes
      /\ \A m, u \in DOMAIN dir' : dir'[m] = dir'[u] => m = u
  BY <1>1 DEF Without, FilesInv, Types
<1>6. /\ data' \in [Inodes -> Seq(Cells)]
      /\ \A m \in DOMAIN dir' : data'[dir[m]] = data[dir[m]]
      /\ \A v \in Workers \ {w} : worker[v].inode \in Inodes =>
            data'[worker[v].inode] = data[worker[v].inode]
  <2> DEFINE ws == worker'
             z == data'
             d == dir'
  <2>1. z = Clean(d, ws, data) /\ data \in [Inodes -> Seq(Cells)] /\ \A m \in DOMAIN d : d[m] \in Inodes
    BY <1>1, <1>5 DEF FilesInv, Types
  <2>2. /\ z \in [Inodes -> Seq(Cells)] /\ \A m \in DOMAIN d : z[d[m]] = data[d[m]]
        /\ \A v \in Workers : ws[v].inode \in Inodes => z[ws[v].inode] = data[ws[v].inode]
    <3> HIDE DEF ws, z, d
    <3> QED
      BY <2>1, CleanForm
  <2> QED
    BY <1>4, <1>5, <2>2
<1>7. WorkerOK(w)'
  <2>1. CASE worker'[w] = Resting
    BY <2>1 DEF WorkerOK
  <2>2. CASE worker'[w] = g
    <3>1. g.name = Target(g.name.key)
      BY <1>2, <1>3
    <3> HIDE DEF n, t, r
    <3> QED
      BY <1>3, <1>4, <2>2, <3>1, StepWorker
  <2> QED
    BY <1>4, <2>1, <2>2
<1>8. Types' /\ Collected' /\ Working'
  <2>1. ok' \in BOOLEAN /\ DOMAIN dir' \subseteq DOMAIN dir \cup {n, t}
    BY <1>1, <1>5
  <2>2. CASE worker' = [worker EXCEPT ![w] = Resting]
    BY <1>1, <1>2, <1>5, <1>6, <1>7, <2>1, <2>2, StepTypes
  <2>3. CASE worker' = [worker EXCEPT ![w] = g]
    BY <1>1, <1>2, <1>5, <1>6, <1>7, <2>1, <2>3, StepTypes
  <2> QED
    BY <1>1, <2>2, <2>3
<1>9. Handles'
  <2>1. \A m \in DOMAIN dir' \cap {n, t} :
           \A v \in Workers \ {w} : worker[v].inode = dir'[m] => NameOf(v) = n
    BY <1>2, <1>5, Owner
  <2>2. \A m \in DOMAIN dir' \ {n, t} : m \in DOMAIN dir /\ dir'[m] = dir[m]
    BY <1>5
  <2>3. worker'[w].at # "write" /\ worker'[w].inode = 0 /\ (worker'[w] = Resting \/ worker'[w].name = n)
    BY <1>3, <1>4, NoNameIsNone
  <2> HIDE DEF n, t
  <2> QED
    BY <1>2, <1>4, <2>1, <2>2, <2>3, StepHandles DEF n, t
<1>10. OldFilesStay' /\ PublishedComplete' /\ Lonely'
  <2>1. \A m \in Names \ {n, t} :
           /\ m \in DOMAIN dir' <=> m \in DOMAIN dir
           /\ m \in DOMAIN dir => dir'[m] = dir[m] /\ data'[dir[m]] = data[dir[m]]
    BY <1>5, <1>6
  <2>2. \A v \in Workers \ {w} : worker[v].at = "write" /\ NameOf(v) # n =>
           data'[worker[v].inode] = data[worker[v].inode]
    BY <1>6, Place DEF FilesInv, Active
  <2>3. \A v \in Workers : Past(v)' /\ worker'[v].name = n /\ n \notin shared' => Alone(v)'
    <3> SUFFICES ASSUME NEW v \in Workers, Past(v)', worker'[v].name = n, n \notin shared' PROVE Alone(v)'
      OBVIOUS
    <3>1. \A u \in Workers \ {w} : NameOf(u) # n
      BY <1>1 DEF Meets, NameOf
    <3>2. v = w /\ worker'[w] = g
      BY <1>2, <1>4, <3>1, NoNameIsNone DEF NameOf
    <3>3. \A u \in Workers \ {w} : worker'[u].name # n
      BY <1>4, <3>1 DEF NameOf
    <3>4. t \notin DOMAIN dir' /\ t = Temp(n)
      BY <1>5 DEF TempOf
    <3> HIDE DEF n, t, r
    <3> QED
      BY <1>3, <3>2, <3>3, <3>4 DEF Alone, NameOf, TempOf
  <2>4. n \in DOMAIN dir' /\ Published(n) /\ n \notin shared' =>
           \E v \in Versions : Complete(data'[dir'[n]], v)
    <3> HAVE n \in DOMAIN dir' /\ Published(n) /\ n \notin shared'
    <3>1. n \in DOMAIN dir /\ dir'[n] = dir[n] /\ n \notin shared
      BY <1>1, <1>5
    <3>2. \E v \in Versions : Complete(data[dir[n]], v)
      BY <3>1 DEF FilesInv, PublishedComplete, Content, Complete
    <3> QED
      BY <1>6, <3>1, <3>2
  <2>5. DOMAIN dir' \subseteq Names /\ shared \subseteq shared'
    BY <1>1, <1>5 DEF FilesInv, Types
  <2>6. worker'[w] = Resting \/ worker'[w].name = n
    BY <1>3, <1>4
  <2> QED
    BY <1>1, <1>2, <1>4, <2>1, <2>2, <2>3, <2>4, <2>5, <2>6, Elsewhere
<1> QED
  BY <1>8, <1>9, <1>10 DEF FilesInv

LEMMA RenameFiles ==
    ASSUME FilesInv, NEW w \in Workers, Rename(w)
    PROVE  FilesInv' /\ (Arrived => Arrived')
<1> DEFINE n == NameOf(w)
           t == TempOf(w)
<1>1. /\ worker[w].at = "rename" /\ worker' = [worker EXCEPT ![w] = Resting]
      /\ dir' = (IF t \in DOMAIN dir THEN Renamed(n, t) ELSE dir)
      /\ data' = Clean(dir', worker', data)
      /\ UNCHANGED <<source, running, runs, found, todo, before, shared, ok>>
  BY DEF Rename, Goes, NameOf, TempOf
<1>2. /\ Active(w) /\ n \in Names /\ t \in Names /\ t # n /\ running /\ n # NoName
  <2>1. Active(w)
    BY <1>1 DEF Active
  <2> QED
    BY <2>1, Place DEF FilesInv, IsTarget
<1>3. worker'[w] = Resting /\ \A v \in Workers \ {w} : worker'[v] = worker[v]
  BY <1>1 DEF FilesInv, Types
<1>4. /\ \A m \in DOMAIN dir \ {n, t} : m \in DOMAIN dir' /\ dir'[m] = dir[m]
      /\ \A m \in DOMAIN dir' \ {n, t} : m \in DOMAIN dir
      /\ t \in DOMAIN dir => n \in DOMAIN dir' /\ t \notin DOMAIN dir' /\ dir'[n] = dir[t]
      /\ t \notin DOMAIN dir => dir' = dir
      /\ DOMAIN dir' \subseteq DOMAIN dir \cup {n, t}
  BY <1>1, <1>2 DEF Renamed
<1>5. /\ \A m \in DOMAIN dir' : dir'[m] \in Inodes
      /\ \A m, u \in DOMAIN dir' : dir'[m] = dir'[u] => m = u
  BY <1>4 DEF FilesInv, Types
<1>6. /\ data' \in [Inodes -> Seq(Cells)]
      /\ \A m \in DOMAIN dir' : data'[dir'[m]] = data[dir'[m]]
      /\ \A v \in Workers \ {w} : worker[v].inode \in Inodes =>
            data'[worker[v].inode] = data[worker[v].inode]
  <2> DEFINE ws == worker'
             z == data'
             d == dir'
  <2>1. z = Clean(d, ws, data) /\ data \in [Inodes -> Seq(Cells)] /\ \A m \in DOMAIN d : d[m] \in Inodes
    BY <1>1, <1>5 DEF FilesInv, Types
  <2>2. /\ z \in [Inodes -> Seq(Cells)] /\ \A m \in DOMAIN d : z[d[m]] = data[d[m]]
        /\ \A v \in Workers : ws[v].inode \in Inodes => z[ws[v].inode] = data[ws[v].inode]
    <3> HIDE DEF ws, z, d
    <3> QED
      BY <2>1, CleanForm
  <2> QED
    BY <1>3, <2>2
<1>7. Types' /\ Collected' /\ Working'
  <2>1. WorkerOK(w)'
    BY <1>3 DEF WorkerOK
  <2>2. ok' \in BOOLEAN
    BY <1>1 DEF FilesInv, Types
  <2> QED
    BY <1>1, <1>2, <1>4, <1>5, <1>6, <2>1, <2>2, StepTypes
<1>8. Handles'
  <2>1. \A m \in DOMAIN dir' \cap {n, t} :
           \A v \in Workers \ {w} : worker[v].inode = dir'[m] => NameOf(v) = n
    <3> SUFFICES ASSUME NEW m \in DOMAIN dir' \cap {n, t}, NEW v \in Workers \ {w},
                        worker[v].inode = dir'[m]
                 PROVE  NameOf(v) = n
      OBVIOUS
    <3>1. \E u \in DOMAIN dir \cap {n, t} : dir'[m] = dir[u]
      BY <1>2, <1>4
    <3> QED
      BY <1>2, <3>1, Owner
  <2>2. \A m \in DOMAIN dir' \ {n, t} : m \in DOMAIN dir /\ dir'[m] = dir[m]
    BY <1>4
  <2> QED
    BY <1>2, <1>3, <2>1, <2>2, NoNameIsNone, StepHandles
<1>9. n \notin shared => Alone(w)
  BY <1>1 DEF FilesInv, Lonely, Past
<1>10. OldFilesStay' /\ PublishedComplete' /\ Lonely'
  <2>1. \A m \in Names \ {n, t} :
           /\ m \in DOMAIN dir' <=> m \in DOMAIN dir
           /\ m \in DOMAIN dir => dir'[m] = dir[m] /\ data'[dir[m]] = data[dir[m]]
    BY <1>4, <1>6
  <2>2. \A v \in Workers \ {w} : worker[v].at = "write" /\ NameOf(v) # n =>
           data'[worker[v].inode] = data[worker[v].inode]
    BY <1>6, Place DEF FilesInv, Active
  <2>3. \A v \in Workers : Past(v)' /\ worker'[v].name = n /\ n \notin shared' => Alone(v)'
    <3> SUFFICES ASSUME NEW v \in Workers, Past(v)', worker'[v].name = n, n \notin shared' PROVE FALSE
      OBVIOUS
    <3>1. v # w /\ worker'[v] = worker[v]
      BY <1>2, <1>3, NoNameIsNone
    <3>2. worker[v].at = "get"
      BY <1>1, <1>9, <3>1 DEF Alone, NameOf
    <3> QED
      BY <3>1, <3>2 DEF Past
  <2>4. n \in DOMAIN dir' /\ Published(n) /\ n \notin shared' =>
           \E v \in Versions : Complete(data'[dir'[n]], v)
    <3> HAVE n \in DOMAIN dir' /\ Published(n) /\ n \notin shared'
    <3>1. n \notin shared /\ data'[dir'[n]] = data[dir'[n]]
      BY <1>1, <1>6
    <3>2. CASE t \in DOMAIN dir
      BY <1>1, <1>4, <1>9, <3>1, <3>2 DEF Alone, Content
    <3>3. CASE t \notin DOMAIN dir
      <4>1. n \in DOMAIN dir /\ dir'[n] = dir[n]
        BY <1>4, <3>3
      <4>2. \E v \in Versions : Complete(data[dir[n]], v)
        BY <3>1, <4>1 DEF FilesInv, PublishedComplete, Content, Complete
      <4> QED
        BY <3>1, <4>1, <4>2
    <3> QED
      BY <3>2, <3>3
  <2>5. DOMAIN dir' \subseteq Names /\ shared \subseteq shared'
    BY <1>1, <1>2, <1>4 DEF FilesInv, Types
  <2> QED
    BY <1>1, <1>2, <1>3, <2>1, <2>2, <2>3, <2>4, <2>5, Elsewhere
<1>11. ASSUME Arrived PROVE Arrived'
  <2>0. CASE ~ok
    BY <1>1, <2>0 DEF Arrived
  <2> SUFFICES ASSUME ok, Arrived PROVE Arrived'
    BY <1>11, <2>0
  <2>1. \A m \in Names \ {n, t} :
           /\ m \in DOMAIN dir' <=> m \in DOMAIN dir
           /\ m \in DOMAIN dir => dir'[m] = dir[m] /\ data'[dir[m]] = data[dir[m]]
    BY <1>4, <1>6
  <2>2. n \in DOMAIN dir' /\ t \notin DOMAIN dir'
    <3>1. t \in DOMAIN dir \/ n \in DOMAIN dir
      BY <1>1, <1>2 DEF Past, Arrived
    <3> QED
      BY <1>4, <3>1
  <2>3. \A v \in Workers : Past(v)' /\ worker'[v].name = n /\ n \notin shared' => Fetched(v)'
    <3> SUFFICES ASSUME NEW v \in Workers, Past(v)', worker'[v].name = n, n \notin shared' PROVE FALSE
      OBVIOUS
    <3>1. v # w /\ worker'[v] = worker[v]
      BY <1>2, <1>3, NoNameIsNone
    <3>2. worker[v].at = "get"
      BY <1>1, <1>9, <3>1 DEF Alone, NameOf
    <3> QED
      BY <3>1, <3>2 DEF Past
  <2>4. n \in DOMAIN dir' /\ n \notin shared' => Complete(data'[dir'[n]], source[n.key])
    <3> HAVE n \in DOMAIN dir' /\ n \notin shared'
    <3>1. Fetched(w)
      BY <1>1, <1>2 DEF Past, Arrived
    <3>2. t \in DOMAIN dir /\ Complete(data[dir[t]], source[n.key])
      BY <1>1, <3>1 DEF Fetched, Content
    <3>3. dir'[n] = dir[t] /\ data'[dir'[n]] = data[dir'[n]]
      BY <1>4, <1>6, <3>2
    <3> QED
      BY <3>2, <3>3
  <2>5. DOMAIN dir' \subseteq Names /\ shared \subseteq shared'
    BY <1>1, <1>2, <1>4 DEF FilesInv, Types
  <2> QED
    BY <1>1, <1>2, <1>3, <2>1, <2>2, <2>3, <2>4, <2>5, ArriveElsewhere
<1> QED
  BY <1>7, <1>8, <1>10, <1>11 DEF FilesInv

LEMMA NextFiles == FilesInv /\ [Next]_vars => FilesInv'
<1> SUFFICES ASSUME FilesInv, [Next]_vars PROVE FilesInv'
  OBVIOUS
<1>1. CASE StartRun
  BY <1>1, StartFiles
<1>2. CASE EndRun
  <2>1. Stops /\ ok' \in BOOLEAN
    BY <1>2 DEF EndRun, FilesInv, Types
  <2> QED
    BY <2>1, StopsFiles
<1>3. CASE Crash
  BY <1>3, StopsFiles DEF Crash
<1>4. ASSUME NEW k \in Keys, Change(k) PROVE FilesInv'
  BY <1>4, ChangeFiles
<1>5. ASSUME NEW w \in Workers, GetAvatar(w) PROVE FilesInv'
  <2>1. CASE \E k \in Keys : Ask(w, k) \/ AskFails(w, k)
    BY <2>1, AskFiles
  <2>2. CASE \E k \in Keys : AskPanics(w, k)
    BY <2>2, StopsFiles DEF AskPanics
  <2>3. CASE Get(w)
    BY <2>3, GetFiles
  <2>4. CASE GetStatus(w)
    BY <2>4, GetStatusFiles
  <2>5. CASE Write(w)
    BY <2>5, WriteFiles
  <2>6. CASE Downloaded(w)
    BY <2>6, DownloadedFiles
  <2>7. CASE GetFails(w)
    BY <2>7, GetFailsFiles
  <2>8. CASE Rename(w)
    BY <2>8, RenameFiles
  <2> QED
    BY <1>5, <2>1, <2>2, <2>3, <2>4, <2>5, <2>6, <2>7, <2>8 DEF GetAvatar
<1>6. CASE UNCHANGED vars
  <2>1. UNCHANGED <<source, dir, data, running, runs, found, todo, worker, before, shared, ok>>
    BY <1>6 DEF vars
  <2>2. Types' /\ Collected'
    BY <2>1 DEF FilesInv, Types, Collected
  <2>5. OldFilesStay' /\ PublishedComplete'
    BY <2>1 DEF FilesInv, OldFilesStay, PublishedComplete, Content
  <2>3. Working'
    BY <2>1, Others DEF FilesInv, Working
  <2>4. Handles' /\ Lonely'
    BY <2>1 DEF FilesInv, Handles, HandleOK, Lonely, Alone, Past, NameOf, TempOf, Content
  <2> QED
    BY <2>2, <2>3, <2>4, <2>5 DEF FilesInv
<1> QED
  BY <1>1, <1>2, <1>3, <1>4, <1>5, <1>6 DEF Next

LEMMA FilesInvariant == Spec => []FilesInv
  BY InitFiles, NextFiles, PTL DEF Spec

-----------------------------------------------------------------------------
(* A dump from its start to its end. *)

NewTargets == \A k \in Keys : Target(k) \notin DOMAIN before

LEMMA TargetsAreNew == FilesInv /\ running => NewTargets
  BY TargetForm DEF FilesInv, NewTargets

LEMMA TargetsWillBeNew == FilesInv' /\ running' => NewTargets'
  BY TargetsAreNew, PTL

LEMMA StartArrives ==
    ASSUME FilesInv, FilesInv', StartRun
    PROVE  Measured' /\ Arrived' /\ UpToDate'
<1>1. /\ running' = TRUE /\ todo' = TasksPerRun /\ UNCHANGED <<source, dir, data, worker, shared>>
      /\ before' = [n \in DOMAIN dir |-> Content(n)]
      /\ DOMAIN found' = {n.key : n \in DOMAIN dir}
      /\ \A k \in {n.key : n \in DOMAIN dir} :
            found'[k].name = Newest(k) /\ found'[k].size = Len(Content(Newest(k)))
      /\ ~running
  BY DEF StartRun
<1>2. \A w \in Workers : ~Past(w)'
  BY <1>1, NoNameIsNone DEF FilesInv, Working, WorkerOK, Past
<1>3. Measured'
  <2> SUFFICES ASSUME NEW k \in DOMAIN found'
               PROVE  /\ found'[k].size = Len(before'[found'[k].name])
                      /\ \A m \in DOMAIN before' : m.key = k =>
                            \/ m.num < found'[k].name.num
                            \/ m.num = found'[k].name.num
                               /\ Rank(m.suffix) >= Rank(found'[k].name.suffix)
    BY DEF Measured
  <2>1. NamesOf(k) # {} /\ DOMAIN dir \subseteq Names
    BY <1>1 DEF NamesOf, FilesInv, Types
  <2>2. /\ Newest(k) \in NamesOf(k)
        /\ \A m \in NamesOf(k) :
              \/ m.num < Newest(k).num
              \/ m.num = Newest(k).num /\ Rank(m.suffix) >= Rank(Newest(k).suffix)
    BY <2>1, NewestForm
  <2>3. found'[k].name = Newest(k) /\ found'[k].size = Len(Content(Newest(k)))
    BY <1>1
  <2>4. DOMAIN before' = DOMAIN dir /\ before'[Newest(k)] = Content(Newest(k))
    BY <1>1, <2>2 DEF NamesOf
  <2> QED
    BY <2>2, <2>3, <2>4 DEF NamesOf
<1>4. \A k \in Keys : Target(k)' \notin DOMAIN dir'
  <2>1. NewTargets' /\ DOMAIN before' = DOMAIN dir'
    BY <1>1, TargetsWillBeNew
  <2> QED
    BY <2>1 DEF NewTargets
<1>5. \A k \in Keys : Handled(k)'
  <2>1. \A k \in Keys : TasksPerRun[k] > 0 \/ TasksPerRun[k] = 0
    BY AvatarsAssumption
  <2> QED
    BY <1>1, <2>1 DEF Handled
<1>6. \A n \in DOMAIN dir' : Expected(n)'
  BY <1>1 DEF Expected
<1>7. Arrived'
  BY <1>2, <1>4, <1>5, <1>6 DEF Arrived
<1> QED
  BY <1>1, <1>3, <1>7 DEF UpToDate

\* The length of a whole version.
LEMMA WholeLength ==
    ASSUME NEW s \in Seq(Cells), NEW v \in Versions, Complete(s, v)
    PROVE  Len(s) = Size[v]
<1>1. Size[v] \in Nat /\ DOMAIN s = 1..Size[v]
  BY AvatarsAssumption DEF Complete
<1> QED
  BY <1>1, LenProperties

\* Two names of a key in the place of the newest are one.
LEMMA SameNewest ==
    ASSUME NEW m \in Names, NEW n \in Names, m.key = n.key,
           m.num < n.num \/ (m.num = n.num /\ Rank(m.suffix) >= Rank(n.suffix)),
           n.num < m.num \/ (n.num = m.num /\ Rank(n.suffix) >= Rank(m.suffix))
    PROVE  m = n
<1> DEFINE a == m.num
           b == n.num
           p == Rank(m.suffix)
           q == Rank(n.suffix)
<1>1. /\ a \in Nat /\ b \in Nat /\ p \in 1..4 /\ q \in 1..4
      /\ a < b \/ (a = b /\ p >= q)
      /\ b < a \/ (b = a /\ q >= p)
      /\ Endings[p] = m.suffix /\ Endings[q] = n.suffix
  BY NameFields, Ranks
<1> HIDE DEF a, b, p, q
<1>2. a = b /\ p = q
  BY <1>1
<1>3. m.suffix = n.suffix /\ m.num = n.num
  BY <1>1, <1>2 DEF a, b
<1> QED
  BY <1>3, NameFields

LEMMA EndArrives ==
    ASSUME FilesInv, Measured, Arrived, EndRun
    PROVE  UpToDate'
<1> SUFFICES ASSUME ok', NEW k \in Keys, TasksPerRun[k] > 0,
                    \A n \in NamesOf(k)' : Published(n) /\ n \notin shared'
             PROVE  NamesOf(k)' # {} /\ Len(Content(Newest(k)))' = Size[source'[k]]
  BY DEF UpToDate
<1>1. /\ running /\ \A w \in Workers : ~Active(w)
      /\ todo[k] = 0 /\ UNCHANGED <<ok, source, dir, before, shared>>
      /\ data' = Clean(dir, worker', data)
  BY DEF EndRun, Stops, Active
<1>2. \A n \in DOMAIN dir : data'[dir[n]] = data[dir[n]] /\ data[dir[n]] \in Seq(Cells)
  <2>1. data \in [Inodes -> Seq(Cells)] /\ \A n \in DOMAIN dir : dir[n] \in Inodes
    BY DEF FilesInv, Types
  <2> QED
    BY <1>1, <2>1, CleanForm
<1>3. NamesOf(k)' = NamesOf(k) /\ Newest(k)' = Newest(k)
  BY <1>1 DEF NamesOf, Newest
<1>4. /\ ~Busy(k) /\ source[k] \in Versions
      /\ \A n \in NamesOf(k) : n \in DOMAIN before \/ n = Target(k)
      /\ \A n \in NamesOf(k) : n \in Names /\ n.key = k /\ n \in DOMAIN dir /\ n \notin shared
  <2>1. ~Busy(k) /\ source[k] \in Versions
    BY <1>1 DEF Busy, FilesInv, Types
  <2>2. \A n \in NamesOf(k) : n \in Names /\ n.key = k /\ n \in DOMAIN dir /\ n \notin shared
    BY <1>1, <1>3 DEF NamesOf, FilesInv, Types
  <2>3. \A n \in NamesOf(k) : Expected(n)
    BY <1>1, <2>2 DEF Arrived
  <2> QED
    BY <2>1, <2>2, <2>3 DEF Expected
<1>5. /\ Target(k) \in Names /\ Target(k).key = k /\ Target(k).num \in Nat
      /\ \A n \in DOMAIN before : n.key = k => n.num < Target(k).num /\ n.num \in Nat
  <2>1. IsTarget(Target(k))
    BY <1>1, TargetForm DEF FilesInv
  <2>2. \A n \in DOMAIN before : n.num \in Nat
    BY NameFields DEF FilesInv, Types
  <2> QED
    BY <1>1, <2>1, <2>2, TargetForm, NameFields DEF FilesInv, IsTarget
<1>6. NamesOf(k) # {} => /\ Newest(k) \in NamesOf(k)
                         /\ \A m \in NamesOf(k) :
                               \/ m.num < Newest(k).num
                               \/ m.num = Newest(k).num /\ Rank(m.suffix) >= Rank(Newest(k).suffix)
  <2>1. DOMAIN dir \subseteq Names
    BY DEF FilesInv, Types
  <2> QED
    BY <2>1, NewestForm
<1>7. CASE Target(k) \in DOMAIN dir
  <2>1. Target(k) \in NamesOf(k)
    BY <1>5, <1>7 DEF NamesOf
  <2>2. Newest(k) = Target(k)
    <3> DEFINE x == Newest(k)
               y == Target(k)
    <3>1. x \in NamesOf(k) /\ (y.num < x.num \/ y.num = x.num)
      BY <1>6, <2>1
    <3>2. x = y \/ (x.num < y.num /\ x.num \in Nat /\ y.num \in Nat)
      BY <1>4, <1>5, <3>1
    <3> HIDE DEF x, y
    <3>3. ~(x.num < y.num /\ x.num \in Nat /\ y.num \in Nat)
      BY <3>1
    <3> QED
      BY <3>2, <3>3 DEF x, y
  <2>3. Complete(Content(Target(k)), source[k]) /\ Content(Target(k)) \in Seq(Cells)
    BY <1>1, <1>2, <1>4, <1>7, <2>1 DEF Arrived, Content
  <2>4. Len(Content(Target(k))) = Size[source[k]]
    BY <1>4, <2>3, WholeLength
  <2>5. Content(Newest(k))' = Content(Target(k))
    BY <1>1, <1>2, <1>3, <1>7, <2>2 DEF Content
  <2> QED
    BY <1>1, <1>3, <2>1, <2>4, <2>5
<1>8. CASE Target(k) \notin DOMAIN dir
  <2> DEFINE f == found[k].name
             x == Newest(k)
  <2>1. k \in DOMAIN found /\ found[k].size = Size[source[k]]
    <3>1. Handled(k) /\ ~(todo[k] > 0) /\ TasksPerRun[k] # 0
      BY <1>1 DEF Arrived
    <3> QED
      BY <1>4, <1>8, <3>1 DEF Handled, Unchanged
  <2>2. /\ f \in DOMAIN before /\ f.key = k /\ f \in Names /\ f \in NamesOf(k)
        /\ Content(f) = before[f] /\ found[k].size = Len(before[f])
    <3>1. f \in DOMAIN before /\ f.key = k /\ f \in Names /\ found[k].size = Len(before[f])
      BY <1>1, <2>1 DEF FilesInv, Collected, Types, Measured
    <3>2. f \in DOMAIN dir /\ Content(f) = before[f]
      BY <3>1 DEF FilesInv, OldFilesStay
    <3> QED
      BY <3>1, <3>2 DEF NamesOf
  <2>3. /\ x \in NamesOf(k) /\ x \in Names /\ x.key = k /\ x \in DOMAIN before
        /\ f.num < x.num \/ (f.num = x.num /\ Rank(f.suffix) >= Rank(x.suffix))
    BY <1>4, <1>6, <1>8, <2>2
  <2>4. x.num < f.num \/ (x.num = f.num /\ Rank(x.suffix) >= Rank(f.suffix))
    BY <1>1, <2>1, <2>3 DEF Measured
  <2>5. f = x
    <3> HIDE DEF f, x
    <3> QED
      BY <2>2, <2>3, <2>4, SameNewest
  <2>6. Content(Newest(k))' = Content(f)
    BY <1>1, <1>2, <1>3, <2>2, <2>5, <1>4 DEF Content
  <2> QED
    BY <1>1, <1>3, <2>1, <2>2, <2>6
<1> QED
  BY <1>7, <1>8

LEMMA ArriveNext == ArriveInv /\ [Next]_vars => ArriveInv'
<1> SUFFICES ASSUME ArriveInv, [Next]_vars PROVE ArriveInv'
  OBVIOUS
<1>0. FilesInv /\ FilesInv' /\ Measured /\ Arrived /\ UpToDate
  BY NextFiles DEF ArriveInv
<1>1. CASE StartRun
  BY <1>0, <1>1, StartArrives DEF ArriveInv
<1>2. CASE EndRun
  <2>1. running' = FALSE
    BY <1>2 DEF EndRun, Stops
  <2>2. UpToDate'
    BY <1>0, <1>2, EndArrives
  <2> QED
    BY <1>0, <2>1, <2>2 DEF ArriveInv, Measured, Arrived
<1>3. CASE Crash
  <2>1. running' = FALSE /\ ok' = FALSE
    BY <1>3 DEF Crash, Stops
  <2> QED
    BY <1>0, <2>1 DEF ArriveInv, Measured, Arrived, UpToDate
<1>4. CASE \E k \in Keys : Change(k)
  <2>1. UNCHANGED <<running, found, before>> /\ ok' = FALSE
    BY <1>4 DEF Change
  <2> QED
    BY <1>0, <2>1 DEF ArriveInv, Measured, Arrived, UpToDate
<1>5. ASSUME NEW w \in Workers, GetAvatar(w) PROVE ArriveInv'
  <2>1. CASE \E k \in Keys : AskPanics(w, k)
    <3>1. running' = FALSE /\ ok' = FALSE
      BY <2>1 DEF AskPanics, Stops
    <3> QED
      BY <1>0, <3>1 DEF ArriveInv, Measured, Arrived, UpToDate
  <2>2. CASE GetStatus(w) \/ GetFails(w)
    <3>1. UNCHANGED <<running, found, before>> /\ ok' = FALSE
      BY <2>2 DEF GetStatus, GetFails
    <3> QED
      BY <1>0, <3>1 DEF ArriveInv, Measured, Arrived, UpToDate
  <2>3. ASSUME Arrived', running, UNCHANGED <<running, found, before>> PROVE ArriveInv'
    BY <1>0, <2>3 DEF ArriveInv, Measured, UpToDate
  <2>4. CASE \E k \in Keys : Ask(w, k) \/ AskFails(w, k)
    <3>1. Arrived' /\ running /\ UNCHANGED <<running, found, before>>
      BY <1>0, <2>4, AskFiles DEF Ask, AskFails, Take
    <3> QED
      BY <2>3, <3>1
  <2>5. ASSUME Active(w) PROVE running
    BY <1>0, <2>5, Place DEF FilesInv
  <2>6. CASE Get(w)
    <3>1. Arrived' /\ Active(w) /\ UNCHANGED <<running, found, before>>
      BY <1>0, <2>6, GetFiles DEF Get, Active
    <3> QED
      BY <2>3, <2>5, <3>1
  <2>7. CASE Write(w)
    <3>1. Arrived' /\ Active(w) /\ UNCHANGED <<running, found, before>>
      BY <1>0, <2>7, WriteFiles DEF Write, Active
    <3> QED
      BY <2>3, <2>5, <3>1
  <2>8. CASE Downloaded(w)
    <3>1. Arrived' /\ Active(w) /\ UNCHANGED <<running, found, before>>
      BY <1>0, <2>8, DownloadedFiles DEF Downloaded, Active
    <3> QED
      BY <2>3, <2>5, <3>1
  <2>9. CASE Rename(w)
    <3>1. Arrived' /\ Active(w) /\ UNCHANGED <<running, found, before>>
      BY <1>0, <2>9, RenameFiles DEF Rename, Active
    <3> QED
      BY <2>3, <2>5, <3>1
  <2> QED
    BY <1>5, <2>1, <2>2, <2>4, <2>6, <2>7, <2>8, <2>9 DEF GetAvatar
<1>6. CASE UNCHANGED vars
  <2>1. UNCHANGED <<source, dir, data, running, runs, found, todo, worker, before, shared, ok>>
    BY <1>6 DEF vars
  <2>2. Measured'
    BY <1>0, <2>1 DEF Measured
  <2>3. UpToDate'
    BY <1>0, <2>1 DEF UpToDate, NamesOf, Newest, Content
  <2>4. Arrived'
    BY <1>0, <2>1 DEF Arrived, Past, Fetched, Handled, Expected, Busy, Active, NameOf, TempOf,
                      Target, Unchanged, Content
  <2> QED
    BY <1>0, <2>2, <2>3, <2>4 DEF ArriveInv
<1> QED
  BY <1>1, <1>2, <1>3, <1>4, <1>5, <1>6 DEF Next

-----------------------------------------------------------------------------
(* The theorems. *)

\* Names stay within their numbers and endings, no two have one file, and a worker
\* has a file open exactly while it writes.
THEOREM FilesTyped == Spec => []TypeOK
<1>1. FilesInv => TypeOK
  <2> SUFFICES ASSUME FilesInv PROVE TypeOK
    OBVIOUS
  <2>1. \A n \in DOMAIN dir : data[dir[n]] \in Seq(Versions \cup {"error", "hole"})
    BY DEF FilesInv, Types, Cells
  <2>2. \A w \in Workers : worker[w].at \in {"idle", "get", "write", "rename"}
                           /\ (worker[w].at = "write" <=> worker[w].inode # 0)
    <3> TAKE w \in Workers
    <3>1. CASE Active(w)
      BY <3>1, Place DEF FilesInv
    <3>2. CASE ~Active(w)
      BY <3>2, NoNameIsNone DEF FilesInv, Working, WorkerOK, Active
    <3> QED
      BY <3>1, <3>2
  <2> QED
    BY <2>1, <2>2 DEF FilesInv, Types, TypeOK
<1> QED
  BY <1>1, FilesInvariant, PTL

\* A dump leaves every file it found as it was: what it downloads goes to a
\* number above those of all files of that avatar.
THEOREM DumpsTouchNoOldFile == Spec => []OldFilesStay
<1>1. FilesInv => OldFilesStay
  BY DEF FilesInv
<1> QED
  BY <1>1, FilesInvariant, PTL

\* A file without ".tmp" is one version, whole, unless two workers downloaded it
\* at once: only a complete download is renamed.
THEOREM PublishedIsComplete == Spec => []PublishedComplete
<1>1. FilesInv => PublishedComplete
  BY DEF FilesInv
<1> QED
  BY <1>1, FilesInvariant, PTL

\* After a dump without a fault every avatar of an employee is there in the
\* length the source has: it was downloaded, or the newest file had that length
\* already.
THEOREM AvatarsAreUpToDate == Spec => []UpToDate
<1>1. Init => ArriveInv
  <2> SUFFICES ASSUME Init PROVE ArriveInv
    OBVIOUS
  <2>1. running = FALSE /\ runs = 0
    BY DEF Init
  <2> QED
    BY <2>1, InitFiles DEF ArriveInv, Measured, Arrived, UpToDate
<1>2. ArriveInv => UpToDate
  BY DEF ArriveInv
<1> QED
  BY <1>1, <1>2, ArriveNext, PTL DEF Spec
=============================================================================
