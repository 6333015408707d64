-------------------------- MODULE FileStoreProofs --------------------------
(***************************************************************************)
(* Theorems about the file storage for any callers, keys, values, faults   *)
(* and bounds: the types; that nothing acknowledged is lost or reordered   *)
(* as long as the process ends by Close; what crashes cost at most when it *)
(* does not; and that a dump stores no department twice.                   *)
(***************************************************************************)
EXTENDS FileStore, SequenceTheorems, FiniteSetTheorems, TLAPS

-----------------------------------------------------------------------------
(* Sequences. *)

\* Named, so that a leaf that does not look into them has nothing to rewrite.
Joined(l, p) == l \o p
Taken(p, n) == SubSeq(p, 1, n)
Rest(p, n) == SubSeq(p, n + 1, Len(p))

\* Two parts of a sequence.
LEMMA Halves ==
    ASSUME NEW S, NEW p \in Seq(S), NEW n \in 0..Len(p)
    PROVE  /\ Taken(p, n) \in Seq(S) /\ Len(Taken(p, n)) = n
           /\ \A i \in 1..n : Taken(p, n)[i] = p[i]
           /\ Rest(p, n) \in Seq(S) /\ Len(Rest(p, n)) = Len(p) - n
           /\ \A i \in 1..(Len(p) - n) : Rest(p, n)[i] = p[n + i]
<1>0. Len(p) \in Nat /\ \A i \in 1..Len(p) : p[i] \in S
  BY LenProperties, ElementOfSeq
<1>1. /\ Taken(p, n) \in Seq(S) /\ Len(Taken(p, n)) = n
      /\ \A i \in 1..n : Taken(p, n)[i] = p[i]
  <2>1. \A i \in 1..n : p[i] \in S
    BY <1>0
  <2>2. /\ Taken(p, n) \in Seq(S) /\ Len(Taken(p, n)) = (IF 1 <= n THEN n - 1 + 1 ELSE 0)
        /\ \A i \in 1..(n - 1 + 1) : Taken(p, n)[i] = p[1 + i - 1]
    BY <2>1, <1>0, SubSeqProperties DEF Taken
  <2> QED
    BY <2>2, <1>0
<1>2. /\ Rest(p, n) \in Seq(S) /\ Len(Rest(p, n)) = Len(p) - n
      /\ \A i \in 1..(Len(p) - n) : Rest(p, n)[i] = p[n + i]
  <2>1. \A i \in (n + 1)..Len(p) : p[i] \in S
    BY <1>0
  <2>2. /\ Rest(p, n) \in Seq(S)
        /\ Len(Rest(p, n)) = (IF n + 1 <= Len(p) THEN Len(p) - (n + 1) + 1 ELSE 0)
        /\ \A i \in 1..(Len(p) - (n + 1) + 1) : Rest(p, n)[i] = p[(n + 1) + i - 1]
    BY <2>1, <1>0, SubSeqProperties DEF Rest
  <2> QED
    BY <2>2, <1>0
<1> QED
  BY <1>1, <1>2

\* A beginning of the second sequence moves to the end of the first.
LEMMA MoveFront ==
    ASSUME NEW S, NEW l \in Seq(S), NEW p \in Seq(S), NEW n \in 0..Len(p)
    PROVE  Joined(Joined(l, Taken(p, n)), Rest(p, n)) = Joined(l, p)
<1> DEFINE a == Taken(p, n)
           b == Rest(p, n)
<1>1. /\ a \in Seq(S) /\ Len(a) = n /\ \A i \in 1..n : a[i] = p[i]
      /\ b \in Seq(S) /\ Len(b) = Len(p) - n /\ \A i \in 1..(Len(p) - n) : b[i] = p[n + i]
      /\ Len(p) \in Nat
  BY Halves, LenProperties
<1> HIDE DEF a, b
<1>2. a \o b = p
  <2>1. /\ a \o b \in Seq(S) /\ Len(a \o b) = Len(a) + Len(b)
        /\ \A i \in 1..(Len(a) + Len(b)) :
              (a \o b)[i] = IF i <= Len(a) THEN a[i] ELSE b[i - Len(a)]
    BY <1>1, ConcatProperties
  <2>2. \A i \in 1..Len(p) : (a \o b)[i] = p[i]
    BY <1>1, <2>1
  <2>3. Len(a \o b) = Len(p)
    BY <1>1, <2>1
  <2> QED
    BY <2>1, <2>2, <2>3, SeqEqual
<1>3. (l \o a) \o b = l \o (a \o b)
  BY <1>1, ConcatAssociative, SMTT(60)
<1>4. Joined(Joined(l, a), b) = Joined(l, p)
  BY <1>2, <1>3 DEF Joined
<1> QED
  BY <1>4 DEF a, b

\* Appending to the second appends to the whole.
LEMMA AppendEnd ==
    ASSUME NEW S, NEW l \in Seq(S), NEW p \in Seq(S), NEW e \in S
    PROVE  Joined(l, Append(p, e)) = Append(Joined(l, p), e)
<1>1. <<e>> \in Seq(S) /\ l \o p \in Seq(S)
  BY ConcatProperties
<1>2. l \o (p \o <<e>>) = (l \o p) \o <<e>>
  BY <1>1, ConcatAssociative
<1> QED
  BY <1>1, <1>2, AppendIsConcat DEF Joined

\* What is left of a sequence with one more element, without that element.
LEMMA FrontOfRest ==
    ASSUME NEW S, NEW p \in Seq(S), NEW e \in S, NEW n \in 0..Len(p)
    PROVE  Front(Rest(Append(p, e), n)) = Rest(p, n)
<1> DEFINE q == Append(p, e)
           b == Rest(q, n)
           c == Rest(p, n)
<1>1. /\ q \in Seq(S) /\ Len(p) \in Nat /\ Len(q) = Len(p) + 1
      /\ \A i \in 1..Len(p) : q[i] = p[i]
  BY AppendProperties, LenProperties
<1>2. /\ b \in Seq(S) /\ Len(b) = Len(q) - n /\ \A i \in 1..(Len(q) - n) : b[i] = q[n + i]
      /\ c \in Seq(S) /\ Len(c) = Len(p) - n /\ \A i \in 1..(Len(p) - n) : c[i] = p[n + i]
  <2>1. n \in 0..Len(q)
    BY <1>1
  <2> QED
    BY <1>1, <2>1, Halves
<1> HIDE DEF q, b, c
<1>3. Len(b) - 1 \in 0..Len(b) /\ Len(b) - 1 = Len(c) /\ Len(c) \in Nat
  BY <1>1, <1>2
<1>4. /\ Taken(b, Len(b) - 1) \in Seq(S) /\ Len(Taken(b, Len(b) - 1)) = Len(b) - 1
      /\ \A i \in 1..(Len(b) - 1) : Taken(b, Len(b) - 1)[i] = b[i]
  BY <1>2, <1>3, Halves, ZenonT(30)
<1>5. \A i \in 1..Len(c) : Taken(b, Len(b) - 1)[i] = c[i]
  <2> SUFFICES ASSUME NEW i \in 1..Len(c) PROVE Taken(b, Len(b) - 1)[i] = c[i]
    OBVIOUS
  <2>1. i \in 1..(Len(b) - 1) /\ i \in 1..(Len(q) - n) /\ i \in 1..(Len(p) - n)
        /\ n + i \in 1..Len(p)
    BY <1>1, <1>2, <1>3
  <2>2. Taken(b, Len(b) - 1)[i] = b[i] /\ b[i] = q[n + i] /\ q[n + i] = p[n + i] /\ c[i] = p[n + i]
    BY <1>1, <1>2, <1>4, <2>1
  <2> QED
    BY <2>2
<1>6. Taken(b, Len(b) - 1) = c
  BY <1>2, <1>3, <1>4, <1>5, SeqEqual
<1> QED
  BY <1>6 DEF Taken, Front, q, b, c

-----------------------------------------------------------------------------
(* The writer. *)

Lines(f) == Row(f) \cup {Torn}
States(f) == [lines : Seq(Lines(f)), pend : Seq(Row(f)),
              frag : {"none", "own", "dead"}, failed : BOOLEAN]

\* Lines and pending rows together.
Whole(s) == Joined(s.lines, s.pend)

\* A fragment of the writer's own is the beginning of a pending row.
Owned(s) == s.frag = "own" => s.pend # <<>> \/ s.failed

LEMMA StateTypes ==
    ASSUME NEW f \in Files, NEW s \in States(f)
    PROVE  /\ s.lines \in Seq(Lines(f)) /\ s.pend \in Seq(Row(f)) /\ s.pend \in Seq(Lines(f))
           /\ s.frag \in {"none", "own", "dead"} /\ s.failed \in BOOLEAN
           /\ Len(s.pend) \in Nat /\ \A i \in 1..Len(s.pend) : s.pend[i] \in Row(f)
           /\ s.pend = <<>> <=> Len(s.pend) = 0
<1>1. /\ s.lines \in Seq(Lines(f)) /\ s.pend \in Seq(Row(f))
      /\ s.frag \in {"none", "own", "dead"} /\ s.failed \in BOOLEAN
  BY DEF States
<1>2. s.pend \in Seq(Lines(f))
  BY <1>1, SeqMonotonic DEF Lines
<1> QED
  BY <1>1, <1>2, LenProperties, ElementOfSeq, EmptySeq

\* What is written out of the buffer is in the file, in order, unless a former
\* process has left a fragment.
LEMMA EmittedKeeps ==
    ASSUME NEW f \in Files, NEW s \in States(f), NEW n \in 0..Len(s.pend), NEW part \in BOOLEAN
    PROVE  /\ Emitted(s, n, part) \in States(f)
           /\ Emitted(s, n, part).pend = Rest(s.pend, n)
           /\ Len(Emitted(s, n, part).pend) = Len(s.pend) - n
           /\ Emitted(s, n, part).failed = s.failed
           /\ Emitted(s, n, part).frag \in {s.frag, "own", "none"}
           /\ part = FALSE => Emitted(s, n, part).frag = IF n = 0 THEN s.frag
                                                ELSE "none"
           /\ s.frag # "dead" => Whole(Emitted(s, n, part)) = Whole(s)
                              /\ Emitted(s, n, part).lines = Joined(s.lines, Taken(s.pend, n))
<1> DEFINE t == Emitted(s, n, part)
           p == s.pend
           w == [i \in 1..n |-> Line(s, i)]
<1>0. n \in Nat /\ n \in 0..Len(p)
  BY StateTypes
<1>1. w \in Seq(Lines(f)) /\ Len(w) = n /\ (s.frag # "dead" => \A i \in 1..n : w[i] = p[i])
  <2>1. \A i \in 1..n : Line(s, i) \in Lines(f)
    <3>1. \A i \in 1..n : s.pend[i] \in Row(f)
      BY <1>0, StateTypes
    <3> QED
      BY <3>1 DEF Line, Lines
  <2>2. w \in [1..n -> Lines(f)]
    BY <2>1
  <2>3. s.frag # "dead" => \A i \in 1..n : w[i] = p[i]
    BY DEF Line
  <2> QED
    BY <2>2, <2>3, <1>0
<1> HIDE DEF w
<1>2. /\ t.lines = Joined(s.lines, w) /\ t.pend = Rest(p, n) /\ t.failed = s.failed
      /\ t.frag \in {s.frag, "own", "none"}
      /\ part = FALSE => t.frag = IF n = 0 THEN s.frag ELSE "none"
      /\ t = [lines |-> t.lines, pend |-> t.pend, frag |-> t.frag, failed |-> t.failed]
  BY DEF Emitted, Joined, Rest, w
<1>3. Joined(s.lines, w) \in Seq(Lines(f))
  BY <1>1, StateTypes, ConcatProperties DEF Joined
<1>4. Rest(p, n) \in Seq(Row(f)) /\ Len(Rest(p, n)) = Len(p) - n
  BY <1>0, StateTypes, Halves
<1>5. s.frag # "dead" => w = Taken(p, n)
  <2>1. /\ Taken(p, n) \in Seq(Lines(f)) /\ Len(Taken(p, n)) = n
        /\ \A i \in 1..n : Taken(p, n)[i] = p[i]
    <3>1. p \in Seq(Lines(f))
      BY StateTypes
    <3> HIDE DEF p
    <3> QED
      BY <1>0, <3>1, Halves
  <2> QED
    BY <1>1, <2>1, SeqEqual
<1>6. Joined(Joined(s.lines, Taken(p, n)), Rest(p, n)) = Joined(s.lines, p)
  BY <1>0, StateTypes, MoveFront
<1>7. t \in States(f)
  <2>1. s.frag \in {"none", "own", "dead"} /\ s.failed \in BOOLEAN
    BY StateTypes
  <2> HIDE DEF t
  <2> QED
    BY <2>1, <1>2, <1>3, <1>4 DEF States
<1>8. s.frag # "dead" => Whole(t) = Whole(s)
  BY <1>2, <1>5, <1>6 DEF Whole
<1> QED
  BY <1>2, <1>4, <1>5, <1>7, <1>8

LEMMA WithKeeps ==
    ASSUME NEW f \in Files, NEW s \in States(f), NEW row \in Row(f)
    PROVE  /\ With(s, row) \in States(f)
           /\ With(s, row).pend = Append(s.pend, row) /\ With(s, row).pend # <<>>
           /\ Len(With(s, row).pend) = Len(s.pend) + 1
           /\ With(s, row).lines = s.lines /\ With(s, row).frag = s.frag
           /\ With(s, row).failed = s.failed
           /\ Whole(With(s, row)) = Append(Whole(s), row)
<1>1. /\ With(s, row).pend = Append(s.pend, row) /\ With(s, row).lines = s.lines
      /\ With(s, row).frag = s.frag /\ With(s, row).failed = s.failed
  <2>1. DOMAIN s = {"lines", "pend", "frag", "failed"}
    BY DEF States
  <2> QED
    BY <2>1 DEF With
<1>2. /\ Append(s.pend, row) \in Seq(Row(f)) /\ Len(Append(s.pend, row)) = Len(s.pend) + 1
      /\ Append(s.pend, row) # <<>>
  BY StateTypes, AppendProperties, EmptySeq
<1>3. Joined(s.lines, Append(s.pend, row)) = Append(Joined(s.lines, s.pend), row)
  <2> DEFINE l == s.lines
             p == s.pend
  <2>1. l \in Seq(Lines(f)) /\ p \in Seq(Lines(f)) /\ row \in Lines(f)
    BY StateTypes DEF Lines
  <2> HIDE DEF l, p
  <2>2. Joined(l, Append(p, row)) = Append(Joined(l, p), row)
    BY <2>1, AppendEnd
  <2> QED
    BY <2>2 DEF l, p
<1>4. With(s, row) \in States(f)
  <2> DEFINE p == Append(s.pend, row)
  <2> HIDE DEF p
  <2>1. [s EXCEPT !.pend = p] \in States(f)
    BY <1>2 DEF States, p
  <2> QED
    BY <2>1 DEF With, p
<1> QED
  BY <1>1, <1>2, <1>3, <1>4 DEF Whole

\* A member of Broken, taken apart.
LEMMA BrokenForm ==
    ASSUME NEW s, NEW m, NEW t \in Broken(s, m)
    PROVE  \E n \in 0..m : \E part \in BOOLEAN :
               t = [Emitted(s, n, part) EXCEPT !.failed = TRUE]
<1> DEFINE E(n, part) == [Emitted(s, n, part) EXCEPT !.failed = TRUE]
<1>1. "disk" \in Faults
  BY DEF Broken
<1>2. t \in UNION {{E(n, part) : part \in BOOLEAN} : n \in 0..m}
  BY <1>1 DEF Broken
<1> HIDE DEF E
<1>3. \E n \in 0..m : \E part \in BOOLEAN : t = E(n, part)
  BY <1>2
<1> QED
  BY <1>3 DEF E

LEMMA AcceptedKeeps ==
    ASSUME NEW f \in Files, NEW s \in States(f), NEW row \in Row(f), NEW t \in Accepted(s, row)
    PROVE  /\ t \in States(f)
           /\ Owned(s) => Owned(t)
           /\ s.frag # "dead" => t.frag # "dead" /\ Whole(t) = Append(Whole(s), row)
<1> DEFINE u == With(s, row)
<1>1. /\ u \in States(f) /\ u.pend # <<>> /\ Len(u.pend) = Len(s.pend) + 1 /\ Len(s.pend) \in Nat
      /\ u.frag = s.frag /\ Whole(u) = Append(Whole(s), row)
  BY WithKeeps, StateTypes
<1>2. CASE t = u
  BY <1>1, <1>2 DEF Owned
<1>3. CASE t # u
  <2> DEFINE P == IF s.pend = <<>> THEN {} ELSE BOOLEAN
             E(part) == Emitted(u, Len(s.pend), part)
  <2>0. \E part \in BOOLEAN : t = E(part)
    <3>1. t \in {E(part) : part \in P}
      BY <1>3 DEF Accepted
    <3> HIDE DEF E
    <3> QED
      BY <3>1
  <2>1. PICK part \in BOOLEAN : t = Emitted(u, Len(s.pend), part)
    BY <2>0
  <2> HIDE DEF u
  <2>2. Len(s.pend) \in 0..Len(u.pend)
    BY <1>1
  <2> DEFINE n == Len(s.pend)
  <2> HIDE DEF n
  <2>3. /\ t \in States(f) /\ Len(t.pend) = Len(u.pend) - n
        /\ t.frag \in {u.frag, "own", "none"}
        /\ u.frag # "dead" => Whole(t) = Whole(u)
    <3>1. n \in 0..Len(u.pend) /\ u \in States(f) /\ t = Emitted(u, n, part)
      BY <1>1, <2>1, <2>2 DEF n
    <3> QED
      BY <3>1, EmittedKeeps, ZenonT(60)
  <2>4. Len(t.pend) = 1
    BY <1>1, <2>3 DEF n
  <2>5. t.pend # <<>>
    <3>1. t.pend = <<>> <=> Len(t.pend) = 0
      BY <2>3, StateTypes
    <3> QED
      BY <2>4, <3>1
  <2> QED
    BY <1>1, <2>3, <2>5 DEF Owned
<1> QED
  BY <1>2, <1>3

\* A write that fails leaves what an emission of the rows before it leaves.
LEMMA RejectedForm ==
    ASSUME NEW f \in Files, NEW s \in States(f), NEW row \in Row(f), NEW t \in Rejected(s, row)
    PROVE  \/ t = s
           \/ \E n \in 0..Len(s.pend) : \E part \in BOOLEAN :
                 t = [Emitted(s, n, part) EXCEPT !.failed = TRUE]
<1> SUFFICES ASSUME t # s
             PROVE  \E n \in 0..Len(s.pend) : \E part \in BOOLEAN :
                        t = [Emitted(s, n, part) EXCEPT !.failed = TRUE]
  OBVIOUS
<1> DEFINE u == With(s, row)
<1>1. PICK b \in Broken(u, Len(s.pend)) : t = [b EXCEPT !.pend = Front(@)]
  BY DEF Rejected
<1>2. PICK n \in 0..Len(s.pend), part \in BOOLEAN :
          b = [Emitted(u, n, part) EXCEPT !.failed = TRUE]
  BY <1>1, BrokenForm
<1>3. /\ u.pend = Append(s.pend, row) /\ u.lines = s.lines /\ u.frag = s.frag
      /\ Len(s.pend) \in Nat /\ s.pend \in Seq(Row(f))
  BY WithKeeps, StateTypes
<1>4. \A i \in 1..n : Line(u, i) = Line(s, i)
  <2>1. \A i \in 1..Len(s.pend) : u.pend[i] = s.pend[i]
    BY <1>3, AppendProperties
  <2> HIDE DEF u
  <2> QED
    BY <1>3, <2>1 DEF Line
<1>5. Front(Rest(u.pend, n)) = Rest(s.pend, n)
  <2> DEFINE p == s.pend
  <2>1. p \in Seq(Row(f)) /\ n \in 0..Len(p) /\ u.pend = Append(p, row)
    BY <1>3
  <2> HIDE DEF p, u
  <2>2. Front(Rest(Append(p, row), n)) = Rest(p, n)
    BY <2>1, FrontOfRest
  <2> QED
    BY <2>1, <2>2 DEF p
<1> HIDE DEF u
<1>6. [i \in 1..n |-> Line(u, i)] = [i \in 1..n |-> Line(s, i)]
  BY <1>4
<1>7. /\ Emitted(u, n, part).lines = Emitted(s, n, part).lines
      /\ Emitted(u, n, part).frag = Emitted(s, n, part).frag
      /\ Emitted(u, n, part).pend = Rest(u.pend, n) /\ Emitted(s, n, part).pend = Rest(s.pend, n)
  BY <1>3, <1>6 DEF Emitted, Rest
<1> DEFINE e == Emitted(u, n, part)
           o == Emitted(s, n, part)
<1>8. /\ e = [lines |-> e.lines, pend |-> e.pend, frag |-> e.frag, failed |-> e.failed]
      /\ o = [lines |-> o.lines, pend |-> o.pend, frag |-> o.frag, failed |-> o.failed]
  BY DEF Emitted
<1>9. b = [e EXCEPT !.failed = TRUE]
  BY <1>2
<1>10. e.lines = o.lines /\ e.frag = o.frag /\ Front(e.pend) = o.pend
  BY <1>5, <1>7
<1> HIDE DEF e, o
<1>11. b = [lines |-> e.lines, pend |-> e.pend, frag |-> e.frag, failed |-> TRUE]
  BY <1>8, <1>9
<1>12. t = [lines |-> e.lines, pend |-> Front(e.pend), frag |-> e.frag, failed |-> TRUE]
  BY <1>1, <1>11
<1>13. t = [o EXCEPT !.failed = TRUE]
  <2>1. ASSUME NEW q, q = [o EXCEPT !.failed = TRUE]
        PROVE  q = [lines |-> o.lines, pend |-> o.pend, frag |-> o.frag, failed |-> TRUE]
    BY <1>8, <2>1
  <2>2. \A q : q = [o EXCEPT !.failed = TRUE] => t = q
    BY <1>10, <1>12, <2>1
  <2> QED
    BY <2>2
<1> QED
  BY <1>13 DEF o

\* A state with the writer's error set.
LEMMA FailedForm ==
    ASSUME NEW f \in Files, NEW e \in States(f), NEW t, t = [e EXCEPT !.failed = TRUE]
    PROVE  /\ t \in States(f) /\ t.lines = e.lines /\ t.pend = e.pend /\ t.frag = e.frag
           /\ t.failed = TRUE /\ Whole(t) = Whole(e) /\ Owned(t)
<1>1. /\ t \in States(f) /\ t.lines = e.lines /\ t.pend = e.pend /\ t.frag = e.frag
      /\ t.failed = TRUE
  BY DEF States
<1> QED
  BY <1>1 DEF Whole, Owned

LEMMA RejectedKeeps ==
    ASSUME NEW f \in Files, NEW s \in States(f), NEW row \in Row(f), NEW t \in Rejected(s, row)
    PROVE  /\ t \in States(f)
           /\ Owned(s) => Owned(t)
           /\ s.frag # "dead" => t.frag # "dead" /\ Whole(t) = Whole(s)
<1>1. CASE t = s
  BY <1>1
<1>2. CASE \E n \in 0..Len(s.pend) : \E part \in BOOLEAN :
              t = [Emitted(s, n, part) EXCEPT !.failed = TRUE]
  <2>1. PICK n \in 0..Len(s.pend), part \in BOOLEAN :
            t = [Emitted(s, n, part) EXCEPT !.failed = TRUE]
    BY <1>2
  <2> DEFINE e == Emitted(s, n, part)
  <2>2. /\ e \in States(f) /\ e.frag \in {s.frag, "own", "none"}
        /\ s.frag # "dead" => Whole(e) = Whole(s)
    BY EmittedKeeps
  <2>3. t = [e EXCEPT !.failed = TRUE]
    BY <2>1
  <2> HIDE DEF e
  <2>4. t \in States(f) /\ t.frag = e.frag /\ Whole(t) = Whole(e) /\ Owned(t)
    BY <2>2, <2>3, FailedForm
  <2> QED
    BY <2>2, <2>4
<1> QED
  BY <1>1, <1>2, RejectedForm

LEMMA FlushedKeeps ==
    ASSUME NEW f \in Files, NEW s \in States(f), NEW t \in Flushed(s), Owned(s)
    PROVE  /\ t \in States(f) /\ Owned(t)
           /\ s.frag # "dead" => t.frag # "dead" /\ Whole(t) = Whole(s)
           /\ ~t.failed => t.pend = <<>> /\ t.frag # "own"
<1>0. Len(s.pend) \in Nat /\ (s.pend = <<>> <=> Len(s.pend) = 0)
  BY StateTypes
<1>1. CASE s.failed
  BY <1>1 DEF Flushed
<1>2. CASE ~s.failed /\ t = Emitted(s, Len(s.pend), FALSE)
  <2> DEFINE n == Len(s.pend)
  <2> HIDE DEF n
  <2>1. /\ t \in States(f) /\ Len(t.pend) = Len(s.pend) - n
        /\ t.frag = IF n = 0 THEN s.frag ELSE "none"
        /\ s.frag # "dead" => Whole(t) = Whole(s)
    <3>1. n \in 0..Len(s.pend) /\ t = Emitted(s, n, FALSE) /\ FALSE \in BOOLEAN
      BY <1>0, <1>2 DEF n
    <3> QED
      BY <3>1, EmittedKeeps
  <2>2. t.pend = <<>>
    <3>1. t.pend = <<>> <=> Len(t.pend) = 0
      BY <2>1, StateTypes
    <3> QED
      BY <1>0, <2>1, <3>1 DEF n
  <2>3. t.frag # "own" /\ (s.frag # "dead" => t.frag # "dead")
    BY <1>0, <1>2, <2>1 DEF Owned, n
  <2> QED
    BY <2>1, <2>2, <2>3 DEF Owned
<1>3. CASE ~s.failed /\ t # Emitted(s, Len(s.pend), FALSE)
  <2>1. PICK n \in 0..(Len(s.pend) - 1), part \in BOOLEAN :
            t = [Emitted(s, n, part) EXCEPT !.failed = TRUE]
    <3>1. t \in Broken(s, Len(s.pend) - 1)
      BY <1>3 DEF Flushed
    <3> QED
      BY <3>1, BrokenForm
  <2> DEFINE e == Emitted(s, n, part)
  <2>2. n \in 0..Len(s.pend)
    BY <1>0
  <2>3. /\ e \in States(f) /\ e.frag \in {s.frag, "own", "none"}
        /\ s.frag # "dead" => Whole(e) = Whole(s)
    BY <2>2, EmittedKeeps
  <2>4. t = [e EXCEPT !.failed = TRUE]
    BY <2>1
  <2> HIDE DEF e
  <2>5. /\ t \in States(f) /\ t.lines = e.lines /\ t.pend = e.pend /\ t.frag = e.frag
        /\ t.failed = TRUE
    BY <2>3, <2>4 DEF States
  <2> QED
    BY <2>3, <2>5 DEF Owned, Whole
<1> QED
  BY <1>1, <1>2, <1>3, StateTypes

LEMMA GoneState ==
    ASSUME NEW f \in Files, NEW s \in States(f)
    PROVE  /\ Gone(s) \in States(f) /\ Gone(s).pend = <<>> /\ Gone(s).frag # "own"
           /\ Gone(s).lines = s.lines
           /\ s.frag = "none" => Gone(s).frag = "none"
<1>1. /\ Gone(s).lines = s.lines /\ Gone(s).pend = <<>> /\ Gone(s).failed = FALSE
      /\ Gone(s).frag = IF s.frag = "own" THEN "dead" ELSE s.frag
  <2>1. DOMAIN s = {"lines", "pend", "frag", "failed"}
    BY DEF States
  <2> QED
    BY <2>1 DEF Gone
<1>2. Gone(s) \in States(f)
  <2> DEFINE g == IF s.frag = "own" THEN "dead" ELSE s.frag
  <2>1. <<>> \in Seq(Row(f)) /\ g \in {"none", "own", "dead"}
    BY EmptySeq DEF States
  <2> HIDE DEF g
  <2>2. [s EXCEPT !.pend = <<>>, !.failed = FALSE, !.frag = g] \in States(f)
    BY <2>1 DEF States
  <2> QED
    BY <2>2 DEF Gone, g
<1> QED
  BY <1>1, <1>2, StateTypes DEF States

-----------------------------------------------------------------------------
(* The storage. *)

\* NothingLost is inductive with the types, and with what makes a clean Close
\* one: no fragment of a dead process lies in the file.
StoreInv ==
    /\ DOMAIN file = Files /\ DOMAIN log = Files /\ DOMAIN item = Clients
    /\ crashes \in Nat /\ up \in BOOLEAN
    /\ pc \in [Clients -> {"idle", "write"}]
    /\ \A c \in Clients : pc[c] = "write" => item[c] \in Items
    /\ \A f \in Files :
          /\ file[f] \in States(f) /\ Owned(file[f])
          /\ ~up => file[f].pend = <<>> /\ file[f].frag # "own"
          /\ crashes = 0 => file[f].frag # "dead" /\ Whole(file[f]) = log[f]

LEMMA InitStore == Init => StoreInv
<1> SUFFICES ASSUME Init PROVE StoreInv
  OBVIOUS
<1>1. \A f \in Files : Fresh \in States(f) /\ Whole(Fresh) = <<>> /\ Owned(Fresh)
                       /\ Fresh.frag = "none"
  <2> TAKE f \in Files
  <2>1. <<>> \in Seq(Row(f)) /\ <<>> \in Seq(Lines(f))
    BY EmptySeq
  <2>2. <<>> \o <<>> = <<>>
    BY <2>1, ConcatEmptySeq
  <2> QED
    BY <2>1, <2>2 DEF Fresh, States, Whole, Joined, Owned
<1> QED
  BY <1>1 DEF Init, StoreInv

\* One file f changes from s to t while its row is or is not acknowledged.
LEMMA LookStep ==
    ASSUME StoreInv, NEW c \in Clients, NEW i \in Items, Look(c, i)
    PROVE  StoreInv'
<1>1. UNCHANGED <<file, up, log, crashes>>
  BY DEF Look
<1>2. /\ pc' \in [Clients -> {"idle", "write"}] /\ DOMAIN item' = Clients
      /\ \A d \in Clients : pc'[d] = "write" => item'[d] \in Items
  <2>1. CASE UNCHANGED <<pc, item>>
    BY <2>1 DEF StoreInv
  <2>2. CASE pc' = [pc EXCEPT ![c] = "write"] /\ item' = [item EXCEPT ![c] = i]
    BY <2>2 DEF StoreInv
  <2> QED
    BY <2>1, <2>2 DEF Look
<1> QED
  BY <1>1, <1>2 DEF StoreInv

LEMMA WriteStep ==
    ASSUME StoreInv, NEW c \in Clients, Write(c)
    PROVE  StoreInv'
<1> DEFINE f == item[c].file
           row == item[c].row
<1>1. f \in Files /\ row \in Row(f)
  <2>1. item[c] \in Items
    BY DEF Write, StoreInv
  <2> QED
    BY <2>1 DEF Items
<1>2. up /\ UNCHANGED <<up, crashes>>
  BY DEF Write
<1>3. /\ pc' \in [Clients -> {"idle", "write"}] /\ DOMAIN item' = Clients
      /\ \A d \in Clients : pc'[d] = "write" => item'[d] \in Items
  <2>1. pc' = [pc EXCEPT ![c] = "idle"] /\ item' = [item EXCEPT ![c] = Unsaved]
    BY DEF Write
  <2> QED
    BY <2>1 DEF StoreInv
<1>4. ASSUME NEW t, file' = [file EXCEPT ![f] = t], DOMAIN log' = Files,
             \A g \in Files \ {f} : log'[g] = log[g],
             t \in States(f), Owned(t),
             crashes = 0 => t.frag # "dead" /\ Whole(t) = log'[f]
      PROVE  StoreInv'
  <2>1. DOMAIN file' = Files /\ file'[f] = t /\ \A g \in Files \ {f} : file'[g] = file[g]
    BY <1>1, <1>4 DEF StoreInv
  <2> HIDE DEF f
  <2>2. \A g \in Files :
          /\ file'[g] \in States(g) /\ Owned(file'[g])
          /\ crashes = 0 => file'[g].frag # "dead" /\ Whole(file'[g]) = log'[g]
    <3> TAKE g \in Files
    <3>1. CASE g = f
      BY <1>4, <2>1, <3>1
    <3>2. CASE g # f
      BY <1>4, <2>1, <3>2 DEF StoreInv
    <3> QED
      BY <3>1, <3>2
  <2> QED
    BY <1>2, <1>3, <1>4, <2>1, <2>2 DEF StoreInv, Owned, Whole
<1>5. file[f] \in States(f) /\ Owned(file[f]) /\ DOMAIN log = Files
      /\ (crashes = 0 => file[f].frag # "dead" /\ Whole(file[f]) = log[f])
  BY <1>1 DEF StoreInv
<1>6. CASE /\ \E s \in Accepted(file[f], row) : file' = [file EXCEPT ![f] = s]
           /\ log' = [log EXCEPT ![f] = Append(@, row)]
  <2>1. PICK t \in Accepted(file[f], row) : file' = [file EXCEPT ![f] = t]
    BY <1>6
  <2>2. /\ t \in States(f) /\ Owned(t)
        /\ file[f].frag # "dead" => t.frag # "dead" /\ Whole(t) = Append(Whole(file[f]), row)
    BY <1>1, <1>5, AcceptedKeeps
  <2> HIDE DEF f, row
  <2>3. log'[f] = Append(log[f], row) /\ DOMAIN log' = Files
        /\ \A g \in Files \ {f} : log'[g] = log[g]
    BY <1>1, <1>5, <1>6
  <2> QED
    BY <1>4, <1>5, <2>1, <2>2, <2>3
<1>7. CASE /\ \E s \in Rejected(file[f], row) : file' = [file EXCEPT ![f] = s]
           /\ UNCHANGED log
  <2>1. PICK t \in Rejected(file[f], row) : file' = [file EXCEPT ![f] = t]
    BY <1>7
  <2>2. /\ t \in States(f) /\ Owned(t)
        /\ file[f].frag # "dead" => t.frag # "dead" /\ Whole(t) = Whole(file[f])
    BY <1>1, <1>5, RejectedKeeps
  <2> HIDE DEF f, row
  <2> QED
    BY <1>4, <1>5, <1>7, <2>1, <2>2
<1> QED
  BY <1>6, <1>7 DEF Write

\* What a flush makes of both files.
LEMMA FlushFiles ==
    ASSUME StoreInv, NEW d \in FlushOf("dep"), NEW s \in FlushOf("sotr"),
           NEW f \in Files, NEW t, t = IF f = "dep" THEN d ELSE s
    PROVE  /\ t \in States(f) /\ Owned(t)
           /\ crashes = 0 => t.frag # "dead" /\ Whole(t) = log[f]
           /\ ~t.failed => t.pend = <<>> /\ t.frag # "own"
<1>1. t \in Flushed(file[f])
  BY DEF Files, FlushOf
<1>2. file[f] \in States(f) /\ Owned(file[f])
      /\ (crashes = 0 => file[f].frag # "dead" /\ Whole(file[f]) = log[f])
  BY DEF StoreInv
<1> QED
  BY <1>1, <1>2, FlushedKeeps

LEMMA FlushStep ==
    ASSUME StoreInv, Flush
    PROVE  StoreInv'
<1>1. PICK d \in FlushOf("dep"), s \in FlushOf("sotr") :
          file' = [f \in Files |-> IF f = "dep" THEN d ELSE s]
  BY DEF Flush
<1>2. up /\ UNCHANGED <<up, pc, item, log, crashes>>
  BY DEF Flush, history
<1>3. \A f \in Files :
        /\ file'[f] \in States(f) /\ Owned(file'[f])
        /\ crashes = 0 => file'[f].frag # "dead" /\ Whole(file'[f]) = log[f]
  BY <1>1, FlushFiles
<1> QED
  BY <1>1, <1>2, <1>3 DEF StoreInv, Owned, Whole

\* The process ends with files g.
LEMMA EndStep ==
    ASSUME StoreInv, NEW g, End(g), crashes' \in Nat,
           \A f \in Files : g[f] \in States(f),
           crashes' = 0 => \A f \in Files : /\ g[f].frag = "none" /\ g[f].pend = <<>>
                                            /\ Whole(g[f]) = log[f]
    PROVE  StoreInv'
<1>1. /\ file' = [f \in Files |-> Gone(g[f])] /\ up' = FALSE /\ log' = log
      /\ pc' = [c \in Clients |-> "idle"] /\ item' = [c \in Clients |-> Unsaved]
  BY DEF End
<1>2. ASSUME NEW f \in Files
      PROVE  /\ file'[f] \in States(f) /\ Owned(file'[f])
             /\ file'[f].pend = <<>> /\ file'[f].frag # "own"
             /\ crashes' = 0 => file'[f].frag # "dead" /\ Whole(file'[f]) = log[f]
  <2>1. /\ Gone(g[f]) \in States(f) /\ Gone(g[f]).pend = <<>> /\ Gone(g[f]).frag # "own"
        /\ Gone(g[f]).lines = g[f].lines
        /\ g[f].frag = "none" => Gone(g[f]).frag = "none"
    BY GoneState
  <2>2. file'[f] = Gone(g[f])
    BY <1>1
  <2> QED
    BY <2>1, <2>2 DEF Owned, Whole
<1> QED
  BY <1>1, <1>2 DEF StoreInv, Owned, Whole

LEMMA CrashStep ==
    ASSUME StoreInv, Crash
    PROVE  StoreInv'
<1>1. End(file) /\ crashes' = crashes + 1 /\ crashes \in Nat
      /\ \A f \in Files : file[f] \in States(f)
  BY DEF Crash, StoreInv
<1>2. crashes' \in Nat /\ crashes' # 0
  BY <1>1
<1> QED
  BY <1>1, <1>2, EndStep

LEMMA CloseStep ==
    ASSUME StoreInv, CloseFiles
    PROVE  StoreInv'
<1>1. PICK d \in FlushOf("dep"), s \in FlushOf("sotr") :
          /\ End([f \in Files |-> IF f = "dep" THEN d ELSE s])
          /\ crashes' = IF d.failed \/ s.failed THEN crashes + 1 ELSE crashes
  BY DEF CloseFiles
<1> DEFINE g == [f \in Files |-> IF f = "dep" THEN d ELSE s]
<1>2. \A f \in Files :
        /\ g[f] \in States(f)
        /\ crashes = 0 => g[f].frag # "dead" /\ Whole(g[f]) = log[f]
        /\ ~g[f].failed => g[f].pend = <<>> /\ g[f].frag # "own"
  BY FlushFiles
<1>3. crashes' \in Nat
  BY <1>1 DEF StoreInv
<1>4. ASSUME crashes' = 0
      PROVE  crashes = 0 /\ \A f \in Files : ~g[f].failed
  <2>1. ~(d.failed \/ s.failed) /\ crashes = 0
    BY <1>1, <1>4 DEF StoreInv
  <2> QED
    BY <2>1
<1>5. ASSUME crashes' = 0, NEW f \in Files
      PROVE  g[f].frag = "none" /\ g[f].pend = <<>> /\ Whole(g[f]) = log[f]
  <2>1. g[f].frag \in {"none", "own", "dead"}
    BY <1>2, StateTypes
  <2> QED
    BY <1>2, <1>4, <1>5, <2>1
<1>6. End(g)
  BY <1>1
<1> HIDE DEF g
<1> QED
  BY <1>2, <1>3, <1>5, <1>6, EndStep

LEMMA StoreStep == StoreInv /\ [Next]_vars => StoreInv'
<1> SUFFICES ASSUME StoreInv, [Next]_vars PROVE StoreInv'
  OBVIOUS
<1>1. CASE UNCHANGED vars
  BY <1>1 DEF vars, store, history, StoreInv, Owned, Whole
<1>2. CASE Open
  BY <1>2 DEF Open, StoreInv, Owned, Whole
<1>3. CASE Next /\ ~Open
  BY <1>3, LookStep, WriteStep, FlushStep, CloseStep, CrashStep DEF Next, Close
<1> QED
  BY <1>1, <1>2, <1>3

LEMMA StoreInvariant == Spec => []StoreInv
BY InitStore, StoreStep, PTL DEF Spec

\* The types: in particular, a closed storage has nothing pending, and a
\* fragment in the file belongs to a pending row or to a dead process.
THEOREM StorageTyped == Spec => []TypeOK
<1>1. StoreInv => TypeOK
  BY StateTypes DEF StoreInv, TypeOK, Owned, Lines
<1> QED
  BY <1>1, StoreInvariant, PTL

\* As long as every end of the process was a Close without error, every
\* acknowledged row is in the file or in the buffer, in the order of the
\* appends: through spills that cut rows, failed writes and concurrent callers.
THEOREM AcknowledgedRowsStay == Spec => []NothingLost
<1>1. StoreInv => NothingLost
  BY DEF StoreInv, NothingLost, Whole, Joined
<1> QED
  BY <1>1, StoreInvariant, PTL

-----------------------------------------------------------------------------
(* What a dead fragment costs. *)

Marked(w, k) == [w EXCEPT ![k] = Torn]
Dead(s) == s.frag = "dead"

\* Sequence v is w, or w with one row spoilt; a fragment is dead before (d) and
\* after (e) the write, and spoils a row only by ceasing to be there.
Blotted(w, d, v, e) ==
    \/ v = w /\ e = d
    \/ d /\ ~e /\ \E k \in 1..Len(w) : v = Marked(w, k)

\* No row of the first sequence but those of the second.
Among(p, q) == \A i \in 1..Len(p) : \E j \in 1..Len(q) : p[i] = q[j]

LEMMA MarkedForm ==
    ASSUME NEW f \in Files, NEW w \in Seq(Lines(f)), NEW k \in 1..Len(w)
    PROVE  /\ Marked(w, k) \in Seq(Lines(f)) /\ Len(Marked(w, k)) = Len(w)
           /\ \A i \in 1..Len(w) : Marked(w, k)[i] = IF i = k THEN Torn ELSE w[i]
<1>1. Torn \in Lines(f) /\ k \in 1..Len(w)
  BY DEF Lines
<1> QED
  BY <1>1, ExceptSeq DEF Marked

\* A row of the second sequence is a row of the whole.
LEMMA MarkedEnd ==
    ASSUME NEW f \in Files, NEW l \in Seq(Lines(f)), NEW p \in Seq(Lines(f)), Len(p) # 0
    PROVE  Joined(l, Marked(p, 1)) = Marked(Joined(l, p), Len(l) + 1)
<1>1. Len(l) \in Nat /\ Len(p) \in Nat /\ 1 \in 1..Len(p)
  BY LenProperties
<1> DEFINE a == Joined(l, Marked(p, 1))
           w == Joined(l, p)
           m == Marked(p, 1)
           b == Marked(w, Len(l) + 1)
<1>2. /\ m \in Seq(Lines(f)) /\ Len(m) = Len(p)
      /\ \A i \in 1..Len(p) : m[i] = IF i = 1 THEN Torn ELSE p[i]
  BY <1>1, MarkedForm
<1> HIDE DEF m
<1>3. /\ w \in Seq(Lines(f)) /\ Len(w) = Len(l) + Len(p)
      /\ \A i \in 1..(Len(l) + Len(p)) : w[i] = IF i <= Len(l) THEN l[i] ELSE p[i - Len(l)]
  BY ConcatProperties DEF Joined
<1>4. /\ a \in Seq(Lines(f)) /\ Len(a) = Len(l) + Len(m)
      /\ \A i \in 1..(Len(l) + Len(m)) : a[i] = IF i <= Len(l) THEN l[i] ELSE m[i - Len(l)]
  BY <1>2, ConcatProperties DEF Joined, m
<1> HIDE DEF a, w
<1>5. /\ b \in Seq(Lines(f)) /\ Len(b) = Len(w)
      /\ \A i \in 1..Len(w) : b[i] = IF i = Len(l) + 1 THEN Torn ELSE w[i]
  <2>1. Len(l) + 1 \in 1..Len(w)
    BY <1>1, <1>3
  <2> QED
    BY <1>3, <2>1, MarkedForm
<1> HIDE DEF b
<1>6. \A i \in 1..Len(b) : a[i] = b[i]
  <2> TAKE i \in 1..Len(b)
  <2>1. i \in 1..(Len(l) + Len(p)) /\ i \in 1..(Len(l) + Len(m)) /\ i \in 1..Len(w)
    BY <1>2, <1>3, <1>5
  <2>2. CASE i <= Len(l)
    <3>1. a[i] = l[i] /\ w[i] = l[i] /\ i # Len(l) + 1
      BY <1>1, <1>3, <1>4, <2>1, <2>2
    <3> QED
      BY <1>5, <2>1, <3>1
  <2>3. CASE i > Len(l)
    <3>1. i - Len(l) \in 1..Len(p) /\ (i - Len(l) = 1 <=> i = Len(l) + 1)
      BY <1>1, <2>1, <2>3
    <3>2. a[i] = m[i - Len(l)] /\ w[i] = p[i - Len(l)]
      BY <1>1, <1>3, <1>4, <2>1, <2>3
    <3> QED
      BY <1>2, <1>5, <2>1, <3>1, <3>2
  <2> QED
    BY <1>1, <2>1, <2>2, <2>3
<1>7. Len(a) = Len(b)
  BY <1>2, <1>3, <1>4, <1>5
<1>8. a = b
  BY <1>4, <1>5, <1>6, <1>7, SeqEqual
<1> QED
  BY <1>8 DEF a, b, m, w

\* An emission into a file that ends in a dead fragment.
LEMMA EmittedBlots ==
    ASSUME NEW f \in Files, NEW s \in States(f), NEW n \in 0..Len(s.pend), NEW part \in BOOLEAN
    PROVE  /\ Blotted(Whole(s), Dead(s), Whole(Emitted(s, n, part)), Dead(Emitted(s, n, part)))
           /\ Among(Emitted(s, n, part).pend, s.pend)
<1> DEFINE t == Emitted(s, n, part)
           p == s.pend
           q == IF n = 0 THEN p ELSE Marked(p, 1)
           w == [i \in 1..n |-> Line(s, i)]
<1>1. /\ p \in Seq(Lines(f)) /\ s.lines \in Seq(Lines(f)) /\ Len(p) \in Nat /\ n \in 0..Len(p)
      /\ n # 0 => 1 \in 1..Len(p) /\ Len(p) # 0
  BY StateTypes
<1>2. /\ q \in Seq(Lines(f)) /\ Len(q) = Len(p)
      /\ \A i \in 1..Len(p) : q[i] = IF i = 1 /\ n # 0 THEN Torn ELSE p[i]
  BY <1>1, MarkedForm
<1>3. Among(t.pend, p)
  <2>1. t.pend = Rest(p, n)
    BY DEF Emitted, Rest
  <2>2. Len(Rest(p, n)) = Len(p) - n /\ \A i \in 1..(Len(p) - n) : Rest(p, n)[i] = p[n + i]
    BY <1>1, Halves, ZenonT(60)
  <2>3. \A i \in 1..(Len(p) - n) : n + i \in 1..Len(p)
    BY <1>1
  <2> HIDE DEF t, p
  <2> QED
    BY <2>1, <2>2, <2>3 DEF Among
<1>4. CASE s.frag # "dead"
  <2>1. Whole(t) = Whole(s) /\ ~Dead(t)
    BY <1>4, EmittedKeeps, ZenonT(60) DEF Dead
  <2> QED
    BY <1>3, <1>4, <2>1 DEF Blotted, Dead
<1>5. CASE s.frag = "dead"
  <2>1. t.lines = Joined(s.lines, w) /\ t.pend = Rest(p, n)
        /\ Dead(t) = (n = 0)
    BY <1>5 DEF Emitted, Joined, Rest, Dead
  <2>2. w = Taken(q, n)
    <3>1. Taken(q, n) \in Seq(Lines(f)) /\ Len(Taken(q, n)) = n
          /\ \A i \in 1..n : Taken(q, n)[i] = q[i]
      <4>1. n \in 0..Len(q)
        BY <1>1, <1>2
      <4> HIDE DEF q
      <4> QED
        BY <1>2, <4>1, Halves
    <3>2. \A i \in 1..n : i \in 1..Len(p) /\ n # 0
      BY <1>1
    <3>3. \A i \in 1..n : Line(s, i) = q[i]
      <4> HIDE DEF q
      <4> QED
        BY <1>2, <1>5, <3>2 DEF Line
    <3>4. w \in [1..n -> Lines(f)]
      <4>1. \A i \in 1..n : q[i] \in Lines(f)
        <5> HIDE DEF q, p
        <5> QED
          BY <1>1, <1>2, <3>2, ElementOfSeq
      <4> HIDE DEF q
      <4> QED
        BY <3>3, <4>1
    <3>5. w \in Seq(Lines(f)) /\ Len(w) = n
      BY <1>1, <3>4
    <3> HIDE DEF q
    <3>6. \A i \in 1..n : w[i] = Taken(q, n)[i]
      BY <3>1, <3>3
    <3> HIDE DEF w
    <3> QED
      BY <3>1, <3>5, <3>6, SeqEqual
  <2>3. Rest(p, n) = Rest(q, n)
    <3>1. /\ Rest(p, n) \in Seq(Lines(f)) /\ Len(Rest(p, n)) = Len(p) - n
          /\ \A i \in 1..(Len(p) - n) : Rest(p, n)[i] = p[n + i]
      <4> HIDE DEF p
      <4> QED
        BY <1>1, Halves
    <3>2. /\ Rest(q, n) \in Seq(Lines(f)) /\ Len(Rest(q, n)) = Len(q) - n
          /\ \A i \in 1..(Len(q) - n) : Rest(q, n)[i] = q[n + i]
      <4>1. n \in 0..Len(q)
        BY <1>1, <1>2
      <4> HIDE DEF q
      <4> QED
        BY <1>2, <4>1, Halves
    <3> HIDE DEF q, p
    <3>3. \A i \in 1..(Len(p) - n) : n + i \in 1..Len(p) /\ ~(n + i = 1 /\ n # 0)
      BY <1>1
    <3>4. \A i \in 1..(Len(p) - n) : Rest(p, n)[i] = Rest(q, n)[i]
      BY <1>2, <3>1, <3>2, <3>3
    <3> QED
      BY <1>2, <3>1, <3>2, <3>4, SeqEqual
  <2>4. Whole(t) = Joined(s.lines, q)
    <3>1. Joined(Joined(s.lines, Taken(q, n)), Rest(q, n)) = Joined(s.lines, q)
      <4>1. n \in 0..Len(q)
        BY <1>1, <1>2
      <4> HIDE DEF q
      <4> QED
        BY <1>1, <1>2, <4>1, MoveFront
    <3> HIDE DEF t, q, w
    <3> QED
      BY <2>1, <2>2, <2>3, <3>1 DEF Whole
  <2>5. CASE n = 0
    <3>1. Whole(t) = Whole(s)
      BY <2>4, <2>5 DEF Whole
    <3> HIDE DEF t
    <3> QED
      BY <1>3, <1>5, <2>1, <2>5, <3>1 DEF Blotted, Dead, t
  <2>6. CASE n # 0
    <3>1. Whole(t) = Marked(Whole(s), Len(s.lines) + 1)
      BY <1>1, <2>4, <2>6, MarkedEnd DEF Whole
    <3>2. Len(s.lines) + 1 \in 1..Len(Whole(s))
      <4> DEFINE l == s.lines
      <4>0. l \in Seq(Lines(f)) /\ Len(l) \in Nat /\ Whole(s) = l \o p
        BY <1>1, LenProperties DEF Whole, Joined
      <4> HIDE DEF p, l
      <4>1. Len(Whole(s)) = Len(l) + Len(p) /\ Len(l) \in Nat
        BY <1>1, <4>0, ConcatProperties
      <4> USE DEF l
      <4> QED
        BY <1>1, <2>6, <4>1
    <3>3. Dead(s) /\ ~Dead(t)
      BY <1>5, <2>1, <2>6 DEF Dead
    <3> HIDE DEF t
    <3> QED
      BY <1>3, <3>1, <3>2, <3>3 DEF Blotted, t
  <2> QED
    BY <2>5, <2>6
<1> QED
  BY <1>4, <1>5

\* Nothing happens to the sequence, or the writer's error is set.
LEMMA FailedBlots ==
    ASSUME NEW f \in Files, NEW s \in States(f), NEW n \in 0..Len(s.pend), NEW part \in BOOLEAN,
           NEW t, t = [Emitted(s, n, part) EXCEPT !.failed = TRUE]
    PROVE  Blotted(Whole(s), Dead(s), Whole(t), Dead(t)) /\ Among(t.pend, s.pend)
<1> DEFINE e == Emitted(s, n, part)
<1>1. /\ e \in States(f) /\ Blotted(Whole(s), Dead(s), Whole(e), Dead(e)) /\ Among(e.pend, s.pend)
  BY EmittedKeeps, EmittedBlots
<1>2. t = [e EXCEPT !.failed = TRUE]
  OBVIOUS
<1> HIDE DEF e
<1>3. t.frag = e.frag /\ t.pend = e.pend /\ Whole(t) = Whole(e)
  BY <1>1, <1>2, FailedForm, ZenonT(60)
<1> QED
  BY <1>1, <1>3 DEF Dead

LEMMA AcceptedBlots ==
    ASSUME NEW f \in Files, NEW s \in States(f), NEW row \in Row(f), NEW t \in Accepted(s, row)
    PROVE  /\ Blotted(Append(Whole(s), row), Dead(s), Whole(t), Dead(t))
           /\ Among(t.pend, Append(s.pend, row))
<1> DEFINE u == With(s, row)
<1>1. /\ u \in States(f) /\ u.frag = s.frag /\ Whole(u) = Append(Whole(s), row)
      /\ u.pend = Append(s.pend, row) /\ Len(u.pend) = Len(s.pend) + 1 /\ Len(s.pend) \in Nat
  BY WithKeeps, StateTypes
<1>2. CASE t = u
  BY <1>1, <1>2 DEF Blotted, Dead, Among
<1>3. CASE t # u
  <2> DEFINE P == IF s.pend = <<>> THEN {} ELSE BOOLEAN
             E(part) == Emitted(u, Len(s.pend), part)
  <2>1. \E part \in BOOLEAN : t = E(part)
    <3>1. t \in {E(part) : part \in P}
      BY <1>3 DEF Accepted
    <3> HIDE DEF E
    <3> QED
      BY <3>1
  <2>2. PICK part \in BOOLEAN : t = Emitted(u, Len(s.pend), part)
    BY <2>1
  <2> HIDE DEF u
  <2>3. Len(s.pend) \in 0..Len(u.pend)
    BY <1>1
  <2> DEFINE n == Len(s.pend)
  <2>4. n \in 0..Len(u.pend) /\ t = Emitted(u, n, part)
    BY <2>2, <2>3
  <2> HIDE DEF n
  <2>5. Blotted(Whole(u), Dead(u), Whole(t), Dead(t)) /\ Among(t.pend, u.pend)
    BY <1>1, <2>4, EmittedBlots
  <2> QED
    BY <1>1, <2>5 DEF Dead
<1> QED
  BY <1>2, <1>3

LEMMA RejectedBlots ==
    ASSUME NEW f \in Files, NEW s \in States(f), NEW row \in Row(f), NEW t \in Rejected(s, row)
    PROVE  Blotted(Whole(s), Dead(s), Whole(t), Dead(t)) /\ Among(t.pend, s.pend)
<1>1. CASE t = s
  BY <1>1 DEF Blotted, Among
<1>2. CASE \E n \in 0..Len(s.pend) : \E part \in BOOLEAN :
              t = [Emitted(s, n, part) EXCEPT !.failed = TRUE]
  BY <1>2, FailedBlots
<1> QED
  BY <1>1, <1>2, RejectedForm

LEMMA FlushedBlots ==
    ASSUME NEW f \in Files, NEW s \in States(f), NEW t \in Flushed(s)
    PROVE  Blotted(Whole(s), Dead(s), Whole(t), Dead(t)) /\ Among(t.pend, s.pend)
<1>0. Len(s.pend) \in Nat
  BY StateTypes
<1>1. CASE s.failed
  BY <1>1 DEF Flushed, Blotted, Among
<1>2. CASE ~s.failed /\ t = Emitted(s, Len(s.pend), FALSE)
  <2> DEFINE n == Len(s.pend)
  <2>1. n \in 0..Len(s.pend) /\ t = Emitted(s, n, FALSE) /\ FALSE \in BOOLEAN
    BY <1>0, <1>2
  <2> HIDE DEF n
  <2> QED
    BY <2>1, EmittedBlots
<1>3. CASE ~s.failed /\ t # Emitted(s, Len(s.pend), FALSE)
  <2>1. PICK n \in 0..(Len(s.pend) - 1), part \in BOOLEAN :
            t = [Emitted(s, n, part) EXCEPT !.failed = TRUE]
    <3>1. t \in Broken(s, Len(s.pend) - 1)
      BY <1>3 DEF Flushed
    <3> QED
      BY <3>1, BrokenForm
  <2>2. n \in 0..Len(s.pend)
    BY <1>0
  <2> QED
    BY <2>1, <2>2, FailedBlots
<1> QED
  BY <1>1, <1>2, <1>3

-----------------------------------------------------------------------------
(* What a crash costs. *)

Spoils(w) == {i \in 1..Len(w) : w[i] = Torn}
One(d) == IF d THEN 1 ELSE 0

LEMMA SpoilsFinite ==
    ASSUME NEW S, NEW w \in Seq(S)
    PROVE  IsFiniteSet(Spoils(w)) /\ Cardinality(Spoils(w)) \in Nat
<1>1. Len(w) \in Nat
  BY LenProperties
<1>2. IsFiniteSet(1..Len(w)) /\ Spoils(w) \subseteq 1..Len(w)
  BY <1>1, FS_Interval DEF Spoils
<1> QED
  BY <1>2, FS_Subset, FS_CardinalityType

\* A write exchanges at most the dead fragment for one spoilt row.
LEMMA BlottedCosts ==
    ASSUME NEW f \in Files, NEW w \in Seq(Lines(f)), NEW v, NEW d \in BOOLEAN, NEW e \in BOOLEAN,
           Blotted(w, d, v, e)
    PROVE  /\ v \in Seq(Lines(f)) /\ Len(v) = Len(w)
           /\ \A i \in 1..Len(w) : v[i] = w[i] \/ v[i] = Torn
           /\ Cardinality(Spoils(v)) + One(e) <= Cardinality(Spoils(w)) + One(d)
<1>1. CASE v = w /\ e = d
  <2>1. Cardinality(Spoils(w)) \in Nat /\ One(d) \in Nat
    BY SpoilsFinite DEF One
  <2> QED
    BY <1>1, <2>1
<1>2. CASE d /\ ~e /\ \E k \in 1..Len(w) : v = Marked(w, k)
  <2>1. PICK k \in 1..Len(w) : v = Marked(w, k)
    BY <1>2
  <2>2. /\ v \in Seq(Lines(f)) /\ Len(v) = Len(w)
        /\ \A i \in 1..Len(w) : v[i] = IF i = k THEN Torn ELSE w[i]
    BY <2>1, MarkedForm
  <2>3. Spoils(v) \subseteq Spoils(w) \cup {k}
    BY <2>2 DEF Spoils
  <2>4. IsFiniteSet(Spoils(w)) /\ Cardinality(Spoils(w)) \in Nat
    BY SpoilsFinite
  <2>5. /\ IsFiniteSet(Spoils(w) \cup {k})
        /\ Cardinality(Spoils(w) \cup {k}) = IF k \in Spoils(w) THEN Cardinality(Spoils(w))
                                              ELSE Cardinality(Spoils(w)) + 1
    BY <2>4, FS_AddElement
  <2>6. Cardinality(Spoils(v)) <= Cardinality(Spoils(w) \cup {k})
    BY <2>3, <2>5, FS_Subset
  <2>7. Cardinality(Spoils(v)) \in Nat /\ One(d) = 1 /\ One(e) = 0
    BY <1>2, <2>2, SpoilsFinite DEF One
  <2> QED
    BY <2>2, <2>4, <2>5, <2>6, <2>7
<1> QED
  BY <1>1, <1>2 DEF Blotted

\* Appending a row adds a row and spoils none.
LEMMA AppendCosts ==
    ASSUME NEW f \in Files, NEW w \in Seq(Lines(f)), NEW row \in Row(f)
    PROVE  /\ Append(w, row) \in Seq(Lines(f)) /\ Len(Append(w, row)) = Len(w) + 1
           /\ Spoils(Append(w, row)) = Spoils(w)
<1>1. row \in Lines(f) /\ row # Torn /\ Len(w) \in Nat
  BY FileStoreAssumption, LenProperties DEF Lines, Rows, Files
<1>2. /\ Append(w, row) \in Seq(Lines(f)) /\ Len(Append(w, row)) = Len(w) + 1
      /\ \A i \in 1..Len(w) : Append(w, row)[i] = w[i]
      /\ Append(w, row)[Len(w) + 1] = row
  BY <1>1, AppendProperties
<1> QED
  BY <1>1, <1>2 DEF Spoils

\* The rows in the file are a beginning of the whole, and the pending ones are
\* not spoilt.
LEMMA WholeForm ==
    ASSUME NEW f \in Files, NEW s \in States(f)
    PROVE  /\ Whole(s) \in Seq(Lines(f)) /\ Len(Whole(s)) = Len(s.lines) + Len(s.pend)
           /\ Len(s.lines) \in Nat /\ Len(s.pend) \in Nat
           /\ \A i \in 1..Len(s.lines) : Whole(s)[i] = s.lines[i]
           /\ \A i \in 1..Len(s.pend) : Whole(s)[Len(s.lines) + i] = s.pend[i]
           /\ Spoils(Whole(s)) = Spoils(s.lines)
<1> DEFINE l == s.lines
           p == s.pend
           w == Whole(s)
<1>1. /\ l \in Seq(Lines(f)) /\ p \in Seq(Lines(f)) /\ Len(l) \in Nat /\ Len(p) \in Nat
      /\ w = l \o p /\ \A i \in 1..Len(p) : p[i] \in Row(f)
  BY StateTypes, LenProperties DEF Whole, Joined
<1> HIDE DEF l, p, w
<1>2. /\ w \in Seq(Lines(f)) /\ Len(w) = Len(l) + Len(p)
      /\ \A i \in 1..(Len(l) + Len(p)) : w[i] = IF i <= Len(l) THEN l[i] ELSE p[i - Len(l)]
  BY <1>1, ConcatProperties
<1>3. \A i \in 1..Len(l) : w[i] = l[i]
  BY <1>1, <1>2
<1>4. \A i \in 1..Len(p) : w[Len(l) + i] = p[i]
  <2> TAKE i \in 1..Len(p)
  <2>1. Len(l) + i \in 1..(Len(l) + Len(p)) /\ ~(Len(l) + i <= Len(l)) /\ Len(l) + i - Len(l) = i
    BY <1>1
  <2> QED
    BY <1>2, <2>1
<1>5. \A i \in 1..Len(p) : p[i] # Torn
  BY <1>1, FileStoreAssumption DEF Rows, Files
<1>6. Spoils(w) = Spoils(l)
  <2>1. ASSUME NEW i \in 1..Len(w), w[i] = Torn PROVE i \in 1..Len(l)
    <3>1. CASE i > Len(l)
      <4>1. i - Len(l) \in 1..Len(p) /\ Len(l) + (i - Len(l)) = i
        BY <1>1, <1>2, <3>1
      <4> QED
        BY <1>4, <1>5, <2>1, <4>1
    <3> QED
      BY <1>1, <1>2, <3>1
  <2>2. \A i \in 1..Len(l) : i \in 1..Len(w)
    BY <1>1, <1>2
  <2> QED
    BY <1>3, <2>1, <2>2 DEF Spoils
<1> QED
  BY <1>1, <1>2, <1>3, <1>4, <1>6 DEF l, p, w

\* A file whose rows and losses make up the g acknowledged rows, and whose
\* spoilt rows and dead fragment have been paid for with c crashes.
Costs(s, g, l, c) ==
    /\ Len(Whole(s)) + l = g
    /\ Cardinality(Spoils(Whole(s))) + One(Dead(s)) <= c

\* CrashCost is inductive with the dead fragment counted as a row to be spoilt.
CostInv ==
    /\ StoreInv
    /\ DOMAIN lost = Files
    /\ \A f \in Files : /\ log[f] \in Seq(Row(f)) /\ lost[f] \in Nat
                        /\ Costs(file[f], Len(log[f]), lost[f], crashes)

LEMMA CostNats ==
    ASSUME NEW f \in Files, NEW s \in States(f)
    PROVE  /\ Cardinality(Spoils(Whole(s))) \in Nat /\ One(Dead(s)) \in {0, 1}
           /\ Len(Whole(s)) \in Nat /\ Dead(s) \in BOOLEAN
  BY WholeForm, SpoilsFinite, LenProperties DEF One, Dead

LEMMA BlottedPays ==
    ASSUME NEW f \in Files, NEW s \in States(f), NEW t \in States(f), NEW g, NEW l, NEW c \in Nat,
           Costs(s, g, l, c), Blotted(Whole(s), Dead(s), Whole(t), Dead(t))
    PROVE  Costs(t, g, l, c)
<1>1. /\ Len(Whole(t)) = Len(Whole(s))
      /\ Cardinality(Spoils(Whole(t))) + One(Dead(t)) <= Cardinality(Spoils(Whole(s))) + One(Dead(s))
  BY CostNats, WholeForm, BlottedCosts, ZenonT(60)
<1>2. /\ Cardinality(Spoils(Whole(t))) \in Nat /\ One(Dead(t)) \in {0, 1}
      /\ Cardinality(Spoils(Whole(s))) \in Nat /\ One(Dead(s)) \in {0, 1}
  BY CostNats
<1> QED
  BY <1>1, <1>2 DEF Costs

LEMMA AcceptedPays ==
    ASSUME NEW f \in Files, NEW s \in States(f), NEW t \in States(f), NEW row \in Row(f),
           NEW g \in Nat, NEW l \in Nat, NEW c \in Nat,
           Costs(s, g, l, c), Blotted(Append(Whole(s), row), Dead(s), Whole(t), Dead(t))
    PROVE  Costs(t, g + 1, l, c)
<1> DEFINE w == Append(Whole(s), row)
<1>1. w \in Seq(Lines(f)) /\ Len(w) = Len(Whole(s)) + 1 /\ Spoils(w) = Spoils(Whole(s))
  BY WholeForm, AppendCosts
<1>2. /\ Cardinality(Spoils(Whole(t))) \in Nat /\ One(Dead(t)) \in {0, 1} /\ Dead(t) \in BOOLEAN
      /\ Cardinality(Spoils(Whole(s))) \in Nat /\ One(Dead(s)) \in {0, 1} /\ Dead(s) \in BOOLEAN
      /\ Len(Whole(s)) \in Nat
  BY CostNats
<1> HIDE DEF w
<1>3. /\ Len(Whole(t)) = Len(w)
      /\ Cardinality(Spoils(Whole(t))) + One(Dead(t)) <= Cardinality(Spoils(w)) + One(Dead(s))
  BY <1>1, <1>2, BlottedCosts DEF w
<1> QED
  BY <1>1, <1>2, <1>3 DEF Costs

\* A process that ends leaves a fragment of its own only as a crash.
LEMMA GonePays ==
    ASSUME NEW f \in Files, NEW s \in States(f), NEW g \in Nat, NEW l \in Nat, NEW c \in Nat,
           Costs(s, g, l, c), NEW e \in Nat, c <= e, s.frag = "own" => c < e
    PROVE  Costs(Gone(s), g, l + Len(s.pend), e)
<1> DEFINE t == Gone(s)
<1>1. t \in States(f) /\ t.pend = <<>> /\ t.lines = s.lines
  BY GoneState
<1>2. Dead(t) <=> Dead(s) \/ s.frag = "own"
  <2>1. DOMAIN s = {"lines", "pend", "frag", "failed"}
    BY DEF States
  <2> QED
    BY <2>1 DEF Gone, Dead
<1> HIDE DEF t
<1>3. /\ Spoils(Whole(t)) = Spoils(Whole(s))
      /\ Len(Whole(t)) = Len(s.lines) /\ Len(Whole(s)) = Len(s.lines) + Len(s.pend)
      /\ Len(s.lines) \in Nat /\ Len(s.pend) \in Nat
  <2>1. Spoils(Whole(t)) = Spoils(t.lines) /\ Len(Whole(t)) = Len(t.lines) + Len(t.pend)
    BY <1>1, WholeForm
  <2>2. Len(t.pend) = 0
    BY <1>1, StateTypes
  <2>3. /\ Spoils(Whole(s)) = Spoils(s.lines) /\ Len(Whole(s)) = Len(s.lines) + Len(s.pend)
        /\ Len(s.lines) \in Nat /\ Len(s.pend) \in Nat
    BY WholeForm
  <2> QED
    BY <1>1, <2>1, <2>2, <2>3
<1>4. Cardinality(Spoils(Whole(s))) \in Nat
  BY CostNats
<1>5. Len(Whole(t)) + (l + Len(s.pend)) = g
  <2> DEFINE a == Len(s.lines)
             b == Len(s.pend)
             v == Len(Whole(t))
             w == Len(Whole(s))
  <2>1. w + l = g /\ v = a /\ w = a + b /\ a \in Nat /\ b \in Nat
    BY <1>3 DEF Costs
  <2> HIDE DEF a, b, v, w
  <2>2. v + (l + b) = g
    BY <2>1
  <2> QED
    BY <2>2 DEF a, b, v, w
<1>6. Cardinality(Spoils(Whole(t))) + One(Dead(t)) <= e
  <2>1. CASE s.frag = "own"
    BY <1>2, <1>3, <1>4, <2>1 DEF Costs, One, Dead
  <2>2. CASE s.frag # "own"
    BY <1>2, <1>3, <1>4, <2>2 DEF Costs, One, Dead
  <2> QED
    BY <2>1, <2>2
<1> QED
  BY <1>5, <1>6 DEF Costs, t

LEMMA InitCost == Init => CostInv
<1> SUFFICES ASSUME Init PROVE CostInv
  OBVIOUS
<1>1. ASSUME NEW f \in Files
      PROVE  /\ log[f] \in Seq(Row(f)) /\ lost[f] \in Nat
             /\ Costs(file[f], Len(log[f]), lost[f], crashes)
  <2>1. log[f] = <<>> /\ lost[f] = 0 /\ crashes = 0 /\ file[f] = Fresh
    BY DEF Init
  <2>2. <<>> \in Seq(Row(f)) /\ Len(<<>>) = 0
    BY EmptySeq
  <2>3. <<>> \o <<>> = <<>>
    BY <2>2, ConcatEmptySeq
  <2>4. Whole(Fresh) = <<>> /\ ~Dead(Fresh)
    BY <2>3 DEF Fresh, Whole, Joined, Dead
  <2>5. Spoils(<<>>) = {}
    BY <2>2 DEF Spoils
  <2>6. Cardinality(Spoils(<<>>)) = 0
    BY <2>5, FS_EmptySet
  <2> QED
    BY <2>1, <2>2, <2>4, <2>6 DEF Costs, One
<1> QED
  BY <1>1, InitStore DEF Init, CostInv

LEMMA WriteCost ==
    ASSUME CostInv, NEW c \in Clients, Write(c), StoreInv'
    PROVE  CostInv'
<1> DEFINE f == item[c].file
           row == item[c].row
<1>1. f \in Files /\ row \in Row(f)
  <2>1. item[c] \in Items
    BY DEF Write, CostInv, StoreInv
  <2> QED
    BY <2>1 DEF Items
<1>2. UNCHANGED <<lost, crashes>> /\ crashes \in Nat /\ DOMAIN file = Files /\ DOMAIN log = Files
  BY DEF Write, CostInv, StoreInv
<1>3. /\ file[f] \in States(f) /\ log[f] \in Seq(Row(f)) /\ lost[f] \in Nat
      /\ Costs(file[f], Len(log[f]), lost[f], crashes)
  BY <1>1 DEF CostInv, StoreInv
<1>4. ASSUME NEW t, file' = [file EXCEPT ![f] = t],
             \A g \in Files \ {f} : log'[g] = log[g],
             log'[f] \in Seq(Row(f)), Costs(t, Len(log'[f]), lost[f], crashes)
      PROVE  CostInv'
  <2>1. file'[f] = t /\ \A g \in Files \ {f} : file'[g] = file[g]
    BY <1>1, <1>2, <1>4
  <2> HIDE DEF f
  <2>2. \A g \in Files : /\ log'[g] \in Seq(Row(g)) /\ lost[g] \in Nat
                         /\ Costs(file'[g], Len(log'[g]), lost[g], crashes)
    <3> TAKE g \in Files
    <3>1. CASE g = f
      BY <1>3, <1>4, <2>1, <3>1
    <3>2. CASE g # f
      BY <1>4, <2>1, <3>2 DEF CostInv
    <3> QED
      BY <3>1, <3>2
  <2> QED
    BY <1>2, <2>2 DEF CostInv, Costs, Whole, Dead
<1>5. CASE /\ \E s \in Accepted(file[f], row) : file' = [file EXCEPT ![f] = s]
           /\ log' = [log EXCEPT ![f] = Append(@, row)]
  <2>1. PICK t \in Accepted(file[f], row) : file' = [file EXCEPT ![f] = t]
    BY <1>5
  <2>2. /\ t \in States(f)
        /\ Blotted(Append(Whole(file[f]), row), Dead(file[f]), Whole(t), Dead(t))
    BY <1>1, <1>3, AcceptedKeeps, AcceptedBlots
  <2> HIDE DEF f, row
  <2>3. log'[f] = Append(log[f], row) /\ \A g \in Files \ {f} : log'[g] = log[g]
    BY <1>1, <1>2, <1>5
  <2>4. Len(log[f]) \in Nat /\ log'[f] \in Seq(Row(f)) /\ Len(log'[f]) = Len(log[f]) + 1
    BY <1>1, <1>3, <2>3, AppendProperties, LenProperties
  <2>5. Costs(t, Len(log'[f]), lost[f], crashes)
    BY <1>1, <1>2, <1>3, <2>2, <2>4, AcceptedPays
  <2> QED
    BY <1>4, <2>1, <2>3, <2>4, <2>5
<1>6. CASE /\ \E s \in Rejected(file[f], row) : file' = [file EXCEPT ![f] = s]
           /\ UNCHANGED log
  <2>1. PICK t \in Rejected(file[f], row) : file' = [file EXCEPT ![f] = t]
    BY <1>6
  <2>2. t \in States(f) /\ Blotted(Whole(file[f]), Dead(file[f]), Whole(t), Dead(t))
    BY <1>1, <1>3, RejectedKeeps, RejectedBlots
  <2> HIDE DEF f, row
  <2>3. Costs(t, Len(log[f]), lost[f], crashes)
    BY <1>1, <1>2, <1>3, <2>2, BlottedPays
  <2> QED
    BY <1>3, <1>4, <1>6, <2>1, <2>3
<1> QED
  BY <1>5, <1>6 DEF Write

\* A flush pays for what it spoils.
LEMMA FlushPays ==
    ASSUME CostInv, NEW d \in FlushOf("dep"), NEW s \in FlushOf("sotr"),
           NEW f \in Files, NEW t, t = IF f = "dep" THEN d ELSE s
    PROVE  t \in States(f) /\ Costs(t, Len(log[f]), lost[f], crashes)
<1>1. t \in Flushed(file[f])
  BY DEF Files, FlushOf
<1>2. file[f] \in States(f) /\ Owned(file[f]) /\ crashes \in Nat
      /\ Costs(file[f], Len(log[f]), lost[f], crashes)
  BY DEF CostInv, StoreInv
<1> QED
  BY <1>1, <1>2, FlushedKeeps, FlushedBlots, BlottedPays

LEMMA EndCost ==
    ASSUME CostInv, StoreInv', NEW g, End(g), crashes <= crashes',
           \A f \in Files : /\ g[f] \in States(f) /\ Costs(g[f], Len(log[f]), lost[f], crashes)
                            /\ g[f].frag = "own" => crashes < crashes'
    PROVE  CostInv'
<1>1. /\ file' = [f \in Files |-> Gone(g[f])] /\ log' = log
      /\ lost' = [f \in Files |-> lost[f] + Len(g[f].pend)]
  BY DEF End
<1>2. crashes \in Nat /\ crashes' \in Nat
  BY DEF CostInv, StoreInv
<1>3. ASSUME NEW f \in Files
      PROVE  /\ log'[f] \in Seq(Row(f)) /\ lost'[f] \in Nat
             /\ Costs(file'[f], Len(log'[f]), lost'[f], crashes')
  <2>1. /\ log[f] \in Seq(Row(f)) /\ lost[f] \in Nat /\ g[f] \in States(f)
        /\ Costs(g[f], Len(log[f]), lost[f], crashes) /\ (g[f].frag = "own" => crashes < crashes')
    BY DEF CostInv
  <2>2. Len(log[f]) \in Nat /\ Len(g[f].pend) \in Nat
    BY <2>1, LenProperties, StateTypes
  <2> DEFINE e == crashes'
             s == g[f]
  <2>3. e \in Nat /\ crashes <= e /\ s \in States(f) /\ Costs(s, Len(log[f]), lost[f], crashes)
        /\ (s.frag = "own" => crashes < e)
    BY <1>2, <2>1
  <2> HIDE DEF e, s
  <2>4. Costs(Gone(s), Len(log[f]), lost[f] + Len(s.pend), e)
    BY <1>2, <2>1, <2>2, <2>3, GonePays
  <2>5. file'[f] = Gone(s) /\ lost'[f] = lost[f] + Len(s.pend) /\ log'[f] = log[f]
    BY <1>1 DEF s
  <2> QED
    BY <2>1, <2>2, <2>4, <2>5 DEF e, s
<1> QED
  BY <1>1, <1>3 DEF CostInv

LEMMA CloseCost ==
    ASSUME CostInv, CloseFiles, StoreInv'
    PROVE  CostInv'
<1>1. PICK d \in FlushOf("dep"), s \in FlushOf("sotr") :
          /\ End([f \in Files |-> IF f = "dep" THEN d ELSE s])
          /\ crashes' = IF d.failed \/ s.failed THEN crashes + 1 ELSE crashes
  BY DEF CloseFiles
<1> DEFINE g == [f \in Files |-> IF f = "dep" THEN d ELSE s]
<1>2. crashes \in Nat /\ crashes <= crashes' /\ ((d.failed \/ s.failed) => crashes < crashes')
  BY <1>1 DEF CostInv, StoreInv
<1>3. \A f \in Files : /\ g[f] \in States(f) /\ Costs(g[f], Len(log[f]), lost[f], crashes)
                       /\ g[f].frag = "own" => g[f].failed
  BY FlushPays, FlushFiles DEF CostInv
<1>4. \A f \in Files : g[f].failed => d.failed \/ s.failed
  OBVIOUS
<1>5. End(g)
  BY <1>1
<1> HIDE DEF g
<1> QED
  BY <1>2, <1>3, <1>4, <1>5, EndCost

LEMMA CrashCosts ==
    ASSUME CostInv, Crash, StoreInv'
    PROVE  CostInv'
<1>1. End(file) /\ crashes \in Nat /\ crashes <= crashes' /\ crashes < crashes'
      /\ \A f \in Files : file[f] \in States(f) /\ Costs(file[f], Len(log[f]), lost[f], crashes)
  BY DEF Crash, CostInv, StoreInv
<1> QED
  BY <1>1, EndCost

LEMMA FlushCost ==
    ASSUME CostInv, Flush, StoreInv'
    PROVE  CostInv'
<1>1. PICK d \in FlushOf("dep"), s \in FlushOf("sotr") :
          file' = [f \in Files |-> IF f = "dep" THEN d ELSE s]
  BY DEF Flush
<1>2. UNCHANGED <<log, lost, crashes>>
  BY DEF Flush, history
<1>3. \A f \in Files : Costs(file'[f], Len(log[f]), lost[f], crashes)
  BY <1>1, FlushPays
<1> QED
  BY <1>2, <1>3 DEF CostInv, Costs, Whole, Dead

LEMMA CostInvariant == Spec => []CostInv
<1>1. CostInv /\ [Next]_vars => CostInv'
  <2> SUFFICES ASSUME CostInv, [Next]_vars PROVE CostInv'
    OBVIOUS
  <2>0. StoreInv'
    BY StoreStep DEF CostInv
  <2>1. CASE UNCHANGED <<file, log, lost, crashes>>
    BY <2>0, <2>1 DEF CostInv, Costs, Whole, Dead
  <2>2. ASSUME NEW c \in Clients, NEW i \in Items, Look(c, i)
        PROVE  UNCHANGED <<file, log, lost, crashes>>
    BY <2>2 DEF Look
  <2>3. CASE UNCHANGED vars \/ Open
    BY <2>1, <2>3 DEF Open, vars, store, history
  <2>4. CASE Next /\ ~Open
    BY <2>0, <2>1, <2>2, <2>4, WriteCost, FlushCost, CloseCost, CrashCosts DEF Next, Close
  <2> QED
    BY <2>3, <2>4
<1> QED
  BY InitCost, <1>1, PTL DEF Spec

\* Whatever crashes, failed writes and failing calls of Close there were: every
\* acknowledged row is in the file, in the buffer or among the counted losses,
\* and each crash has spoilt at most one row of a later run.
THEOREM CrashesArePaid == Spec => []CrashCost
<1>1. CostInv => CrashCost
  <2> SUFFICES ASSUME CostInv, NEW f \in Files
               PROVE  /\ Len(log[f]) = Len(file[f].lines) + Len(file[f].pend) + lost[f]
                      /\ Cardinality(Spoilt(f)) <= crashes
                      /\ file[f].frag = "dead" => Cardinality(Spoilt(f)) < crashes
    BY DEF CrashCost
  <2>1. file[f] \in States(f) /\ Costs(file[f], Len(log[f]), lost[f], crashes) /\ crashes \in Nat
    BY DEF CostInv, StoreInv
  <2>2. /\ Len(Whole(file[f])) = Len(file[f].lines) + Len(file[f].pend)
        /\ Spoils(Whole(file[f])) = Spoils(file[f].lines)
        /\ Cardinality(Spoils(Whole(file[f]))) \in Nat
    BY <2>1, WholeForm, CostNats
  <2>3. Spoilt(f) = Spoils(file[f].lines)
    <3>1. file[f].lines \in Seq(Lines(f))
      BY <2>1, StateTypes
    <3> QED
      BY <3>1, LenProperties DEF Spoilt, Spoils
  <2>4. /\ Cardinality(Spoilt(f)) + One(Dead(file[f])) <= crashes
        /\ Cardinality(Spoilt(f)) \in Nat
        /\ Len(log[f]) = Len(file[f].lines) + Len(file[f].pend) + lost[f]
    BY <2>1, <2>2, <2>3 DEF Costs
  <2>5. One(Dead(file[f])) = IF file[f].frag = "dead" THEN 1 ELSE 0
    BY DEF One, Dead
  <2> QED
    BY <2>1, <2>4, <2>5
<1> QED
  BY <1>1, CostInvariant, PTL

-----------------------------------------------------------------------------
(* No department row twice. *)

Single(w) == \A i, j \in 1..Len(w) : w[i] = w[j] /\ w[i] # Torn => i = j
Holds(w, row) == \E i \in 1..Len(w) : w[i] = row

LEMMA BlottedSingle ==
    ASSUME NEW f \in Files, NEW w \in Seq(Lines(f)), NEW v, NEW d \in BOOLEAN, NEW e \in BOOLEAN,
           Blotted(w, d, v, e), Single(w)
    PROVE  Single(v) /\ \A row \in Row(f) : Holds(v, row) => Holds(w, row)
<1>1. Len(v) = Len(w) /\ \A i \in 1..Len(w) : v[i] = w[i] \/ v[i] = Torn
  BY BlottedCosts
<1>2. \A row \in Row(f) : row # Torn
  BY FileStoreAssumption DEF Rows, Files
<1> QED
  BY <1>1, <1>2 DEF Single, Holds

LEMMA AppendSingle ==
    ASSUME NEW f \in Files, NEW w \in Seq(Lines(f)), NEW row \in Row(f),
           Single(w), ~Holds(w, row)
    PROVE  /\ Single(Append(w, row))
           /\ \A r : Holds(Append(w, row), r) => Holds(w, r) \/ r = row
<1> DEFINE a == Append(w, row)
<1>1. /\ Len(w) \in Nat /\ Len(a) = Len(w) + 1
      /\ \A i \in 1..Len(w) : a[i] = w[i]
      /\ a[Len(w) + 1] = row
  <2>1. row \in Lines(f)
    BY DEF Lines
  <2> QED
    BY <2>1, AppendProperties, LenProperties
<1> HIDE DEF a
<1>2. \A i \in 1..Len(a) : i \in 1..Len(w) \/ i = Len(w) + 1
  BY <1>1
<1>3. Single(a)
  BY <1>1, <1>2 DEF Single, Holds
<1>4. \A r : Holds(a, r) => Holds(w, r) \/ r = row
  BY <1>1, <1>2 DEF Holds
<1> QED
  BY <1>3, <1>4 DEF a

\* What is left when the process is gone is a beginning of what was there.
LEMMA GoneSingle ==
    ASSUME NEW f \in Files, NEW s \in States(f), Single(Whole(s))
    PROVE  Single(Whole(Gone(s)))
<1>1. /\ Gone(s) \in States(f) /\ Gone(s).pend = <<>> /\ Gone(s).lines = s.lines
  BY GoneState
<1>2. /\ Len(Whole(s)) = Len(s.lines) + Len(s.pend) /\ Len(s.lines) \in Nat /\ Len(s.pend) \in Nat
      /\ \A i \in 1..Len(s.lines) : Whole(s)[i] = s.lines[i]
  BY WholeForm
<1>3. /\ Len(Whole(Gone(s))) = Len(Gone(s).lines) + Len(Gone(s).pend)
      /\ \A i \in 1..Len(Gone(s).lines) : Whole(Gone(s))[i] = Gone(s).lines[i]
  BY <1>1, WholeForm
<1>4. Len(Gone(s).pend) = 0
  BY <1>1, StateTypes
<1> DEFINE w == Whole(s)
           v == Whole(Gone(s))
           l == s.lines
           n == Len(s.pend)
<1>5. /\ Len(w) = Len(l) + n /\ Len(l) \in Nat /\ n \in Nat
      /\ \A i \in 1..Len(l) : w[i] = l[i]
      /\ Len(v) = Len(l) /\ \A i \in 1..Len(l) : v[i] = l[i]
  <2>1. Len(w) = Len(l) + n /\ Len(l) \in Nat /\ n \in Nat /\ \A i \in 1..Len(l) : w[i] = l[i]
    BY <1>2
  <2> DEFINE m == Len(Gone(s).pend)
  <2>2. Len(v) = Len(l) + m /\ m = 0 /\ \A i \in 1..Len(l) : v[i] = l[i]
    BY <1>1, <1>3, <1>4
  <2> HIDE DEF w, v, l, n, m
  <2> QED
    BY <2>1, <2>2
<1>6. Single(w)
  OBVIOUS
<1> HIDE DEF w, v, l, n
<1>7. \A i \in 1..Len(v) : i \in 1..Len(w) /\ v[i] = w[i]
  BY <1>5
<1>8. Single(v)
  BY <1>6, <1>7 DEF Single
<1> QED
  BY <1>8 DEF v

Deps == file["dep"]
Writing(c) == pc[c] = "write" /\ item[c].file = "dep"
Seen(key) == <<"dep", key>> \in offered

\* The scan reads the file and not the buffer: that no row is there twice rests
\* on the keys of this run, and on no two writers having the same one.
DepInv ==
    /\ StoreInv
    /\ Single(Whole(Deps))
    /\ \A c \in Clients : Writing(c) => Seen(item[c].row.key) /\ ~Holds(Whole(Deps), item[c].row)
    /\ \A c, d \in Clients : Writing(c) /\ Writing(d) /\ c # d => item[c].row.key # item[d].row.key
    /\ \A i \in 1..Len(Deps.pend) : Seen(Deps.pend[i].key)
    /\ ~up => \A c \in Clients : pc[c] = "idle"

LEMMA InitDep == Init => DepInv
<1> SUFFICES ASSUME Init PROVE DepInv
  OBVIOUS
<1>1. Deps = Fresh /\ pc = [c \in Clients |-> "idle"]
  BY DEF Init, Deps, Files
<1>2. <<>> \in Seq({}) /\ Len(<<>>) = 0 /\ <<>> \o <<>> = <<>>
  BY EmptySeq, ConcatEmptySeq
<1>3. Whole(Fresh) = <<>> /\ Fresh.pend = <<>>
  BY <1>2 DEF Fresh, Whole, Joined
<1>4. Single(Whole(Deps)) /\ \A i \in 1..Len(Deps.pend) : Seen(Deps.pend[i].key)
  BY <1>1, <1>2, <1>3 DEF Single
<1>5. \A c \in Clients : pc[c] = "idle"
  BY <1>1
<1> QED
  BY <1>4, <1>5, InitStore DEF DepInv, Writing

LEMMA ItemRow ==
    ASSUME StoreInv, NEW c \in Clients, Writing(c)
    PROVE  item[c].row \in Row("dep")
<1>1. item[c] \in Items /\ item[c].file = "dep"
  BY DEF StoreInv, Writing
<1> QED
  BY <1>1 DEF Items

LEMMA LookDep ==
    ASSUME DepInv, OncePerRun, NEW c \in Clients, NEW i \in Items, Look(c, i), StoreInv'
    PROVE  DepInv'
<1>1. /\ UNCHANGED <<file, up>> /\ up /\ pc[c] = "idle"
      /\ offered' = offered \cup {<<i.file, i.row.key>>} /\ <<i.file, i.row.key>> \notin offered
  BY DEF Look
<1>2. /\ Deps' = Deps /\ \A key : Seen(key) => Seen(key)'
      /\ pc \in [Clients -> {"idle", "write"}] /\ DOMAIN item = Clients
  BY <1>1 DEF Deps, Seen, DepInv, StoreInv
<1>3. CASE UNCHANGED <<pc, item>>
  <2>1. \A d \in Clients : Writing(d)' = Writing(d) /\ item'[d] = item[d]
    BY <1>3 DEF Writing
  <2> QED
    BY <1>1, <1>2, <1>3, <2>1 DEF DepInv, Whole
<1>4. CASE /\ ~Double(i.file, i.row)
           /\ pc' = [pc EXCEPT ![c] = "write"] /\ item' = [item EXCEPT ![c] = i]
  <2>1. /\ item'[c] = i /\ \A d \in Clients \ {c} : item'[d] = item[d] /\ Writing(d)' = Writing(d)
        /\ Writing(c)' => i.file = "dep" /\ i.row \in Row("dep")
    BY <1>2, <1>4 DEF Writing, Items
  <2>2. ASSUME i.file = "dep"
        PROVE  ~Holds(Whole(Deps), i.row)
    <3>1. Deps \in States("dep") /\ "dep" \in Files
      BY DEF DepInv, StoreInv, Deps, Files
    <3> DEFINE l == Deps.lines
               p == Deps.pend
               w == Whole(Deps)
    <3>2. /\ Len(w) = Len(l) + Len(p) /\ Len(l) \in Nat /\ Len(p) \in Nat
          /\ \A j \in 1..Len(l) : w[j] = l[j]
          /\ \A j \in 1..Len(p) : w[Len(l) + j] = p[j]
      BY <3>1, WholeForm
    <3>3. \A j \in 1..Len(l) : l[j] # i.row
      <4>1. i.row \notin ToSet(l)
        BY <1>4, <2>2 DEF Double, Deps
      <4>2. DOMAIN l = 1..Len(l)
        BY <3>1, StateTypes, LenProperties
      <4> HIDE DEF l
      <4> QED
        BY <4>1, <4>2 DEF ToSet
    <3>4. \A j \in 1..Len(p) : p[j] # i.row
      BY <1>1, <2>2 DEF DepInv, Seen
    <3> HIDE DEF l, p, w
    <3>5. \A j \in 1..Len(w) : w[j] # i.row
      <4> TAKE j \in 1..Len(w)
      <4>1. CASE j <= Len(l)
        BY <3>2, <3>3, <4>1
      <4>2. CASE j > Len(l)
        <5>1. j - Len(l) \in 1..Len(p) /\ Len(l) + (j - Len(l)) = j
          BY <3>2, <4>2
        <5> QED
          BY <3>2, <3>4, <5>1
      <4> QED
        BY <3>2, <4>1, <4>2
    <3> QED
      BY <3>5 DEF Holds, w
  <2>3. \A d \in Clients \ {c} : Writing(d) /\ i.file = "dep" => item[d].row.key # i.row.key
    BY <1>1 DEF DepInv, Seen
  <2>4. i.file = "dep" => <<"dep", i.row.key>> \in offered'
    BY <1>1
  <2>5. \A d \in Clients : Writing(d)' =>
            <<"dep", item'[d].row.key>> \in offered' /\ ~Holds(Whole(Deps), item'[d].row)
    <3>1. \A d \in Clients \ {c} : Writing(d) =>
              <<"dep", item[d].row.key>> \in offered' /\ ~Holds(Whole(Deps), item[d].row)
      BY <1>1 DEF DepInv, Seen
    <3> QED
      BY <2>1, <2>2, <2>4, <3>1
  <2>6. \A d, e \in Clients : Writing(d)' /\ Writing(e)' /\ d # e =>
            item'[d].row.key # item'[e].row.key
    BY <2>1, <2>3 DEF DepInv
  <2>7. \A j \in 1..Len(Deps.pend) : <<"dep", Deps.pend[j].key>> \in offered'
    BY <1>1 DEF DepInv, Seen
  <2> QED
    BY <1>1, <1>2, <2>5, <2>6, <2>7 DEF DepInv, Whole, Seen
<1> QED
  BY <1>3, <1>4 DEF Look

LEMMA WriteDep ==
    ASSUME DepInv, NEW c \in Clients, Write(c), StoreInv'
    PROVE  DepInv'
<1> DEFINE f == item[c].file
           row == item[c].row
<1>1. f \in Files /\ row \in Row(f)
  <2>1. item[c] \in Items
    BY DEF Write, DepInv, StoreInv
  <2> QED
    BY <2>1 DEF Items
<1>2. /\ UNCHANGED <<up, offered>> /\ up /\ pc[c] = "write"
      /\ pc' = [pc EXCEPT ![c] = "idle"] /\ item' = [item EXCEPT ![c] = Unsaved]
      /\ DOMAIN file = Files /\ pc \in [Clients -> {"idle", "write"}] /\ DOMAIN item = Clients
  BY DEF Write, DepInv, StoreInv
<1>3. \A d \in Clients : Writing(d)' => d # c /\ Writing(d) /\ item'[d] = item[d]
  BY <1>2 DEF Writing
<1>4. \A key : Seen(key)' = Seen(key)
  BY <1>2 DEF Seen
<1>5. CASE f # "dep"
  <2>1. Deps' = Deps
    <3>1. \E t : file' = [file EXCEPT ![f] = t]
      BY DEF Write
    <3> QED
      BY <1>2, <1>5, <3>1 DEF Deps, Files
  <2> QED
    BY <1>2, <1>3, <1>4, <2>1 DEF DepInv, Whole
<1>6. CASE f = "dep"
  <2>1. Writing(c) /\ row \in Row("dep") /\ Deps \in States("dep") /\ "dep" \in Files
        /\ Dead(Deps) \in BOOLEAN
    BY <1>1, <1>2, <1>6 DEF Writing, DepInv, StoreInv, Deps, Dead
  <2>2. Single(Whole(Deps)) /\ Seen(row.key) /\ ~Holds(Whole(Deps), row)
        /\ Whole(Deps) \in Seq(Lines("dep"))
    BY <2>1, WholeForm DEF DepInv
  <2>3. ASSUME NEW t \in States("dep"), file' = [file EXCEPT ![f] = t], Single(Whole(t)),
               \A r \in Row("dep") : Holds(Whole(t), r) => Holds(Whole(Deps), r) \/ r = row,
               \A i \in 1..Len(t.pend) : Seen(t.pend[i].key)
        PROVE  DepInv'
    <3>1. Deps' = t
      BY <1>2, <1>6, <2>1, <2>3 DEF Deps
    <3>2. \A d \in Clients : Writing(d)' => item[d].row \in Row("dep") /\ item[d].row # row
      <4>1. \A d \in Clients : Writing(d) => item[d].row \in Row("dep")
        BY ItemRow DEF DepInv
      <4> QED
        BY <1>3, <2>1, <4>1 DEF DepInv
    <3>3. \A d \in Clients : Writing(d)' =>
              Seen(item'[d].row.key) /\ ~Holds(Whole(t), item'[d].row)
      BY <1>3, <2>3, <3>2 DEF DepInv
    <3>4. \A d, e \in Clients : Writing(d)' /\ Writing(e)' /\ d # e =>
              item'[d].row.key # item'[e].row.key
      BY <1>3 DEF DepInv
    <3> QED
      BY <1>2, <1>4, <2>3, <3>1, <3>3, <3>4 DEF DepInv, Whole
  <2>4. ASSUME NEW t \in States("dep"), NEW q, Among(t.pend, q),
               \A i \in 1..Len(q) : Seen(q[i].key)
        PROVE  \A i \in 1..Len(t.pend) : Seen(t.pend[i].key)
    BY <2>4 DEF Among
  <2>5. CASE \E s \in Accepted(file[f], row) : file' = [file EXCEPT ![f] = s]
    <3> DEFINE q == Append(Deps.pend, row)
               w == Append(Whole(Deps), row)
    <3>1. PICK t \in Accepted(Deps, row) : file' = [file EXCEPT ![f] = t]
      BY <1>6, <2>5 DEF Deps
    <3>2. /\ t \in States("dep") /\ Among(t.pend, q)
          /\ Blotted(w, Dead(Deps), Whole(t), Dead(t)) /\ Dead(t) \in BOOLEAN
      BY <2>1, <3>1, AcceptedKeeps, AcceptedBlots DEF Dead
    <3>3. Single(w) /\ (\A r : Holds(w, r) => Holds(Whole(Deps), r) \/ r = row)
          /\ w \in Seq(Lines("dep"))
      BY <2>1, <2>2, AppendSingle, AppendCosts
    <3>4. \A i \in 1..Len(q) : Seen(q[i].key)
      <4>1. /\ Len(q) = Len(Deps.pend) + 1 /\ Len(Deps.pend) \in Nat
            /\ \A i \in 1..Len(Deps.pend) : q[i] = Deps.pend[i]
            /\ q[Len(Deps.pend) + 1] = row
        BY <2>1, StateTypes, AppendProperties
      <4>2. \A i \in 1..Len(q) : i \in 1..Len(Deps.pend) \/ i = Len(Deps.pend) + 1
        BY <4>1
      <4> HIDE DEF q, f, row
      <4> QED
        BY <2>2, <4>1, <4>2 DEF DepInv
    <3> HIDE DEF q, w, f, row
    <3>5. Single(Whole(t)) /\ \A r \in Row("dep") : Holds(Whole(t), r) => Holds(w, r)
      BY <2>1, <3>2, <3>3, BlottedSingle
    <3>6. \A i \in 1..Len(t.pend) : Seen(t.pend[i].key)
      BY <2>4, <3>2, <3>4
    <3> QED
      BY <2>3, <3>1, <3>2, <3>3, <3>5, <3>6
  <2>6. CASE \E s \in Rejected(file[f], row) : file' = [file EXCEPT ![f] = s]
    <3>1. PICK t \in Rejected(Deps, row) : file' = [file EXCEPT ![f] = t]
      BY <1>6, <2>6 DEF Deps
    <3>2. /\ t \in States("dep") /\ Among(t.pend, Deps.pend)
          /\ Blotted(Whole(Deps), Dead(Deps), Whole(t), Dead(t)) /\ Dead(t) \in BOOLEAN
      BY <2>1, <3>1, RejectedKeeps, RejectedBlots DEF Dead
    <3> HIDE DEF f, row
    <3>3. Single(Whole(t)) /\ \A r \in Row("dep") : Holds(Whole(t), r) => Holds(Whole(Deps), r)
      BY <2>1, <2>2, <3>2, BlottedSingle
    <3>4. \A i \in 1..Len(t.pend) : Seen(t.pend[i].key)
      BY <2>4, <3>2 DEF DepInv
    <3> QED
      BY <2>3, <3>1, <3>2, <3>3, <3>4
  <2> QED
    BY <2>5, <2>6 DEF Write
<1> QED
  BY <1>5, <1>6

LEMMA FlushedDep ==
    ASSUME DepInv, NEW t \in FlushOf("dep")
    PROVE  /\ t \in States("dep") /\ Single(Whole(t))
           /\ \A r \in Row("dep") : Holds(Whole(t), r) => Holds(Whole(Deps), r)
           /\ \A i \in 1..Len(t.pend) : Seen(t.pend[i].key)
<1>1. t \in Flushed(Deps) /\ Deps \in States("dep") /\ "dep" \in Files /\ Owned(Deps)
  BY DEF FlushOf, DepInv, StoreInv, Deps, Files
<1>2. /\ t \in States("dep") /\ Among(t.pend, Deps.pend)
      /\ Blotted(Whole(Deps), Dead(Deps), Whole(t), Dead(t))
      /\ Dead(Deps) \in BOOLEAN /\ Dead(t) \in BOOLEAN
  BY <1>1, FlushedKeeps, FlushedBlots DEF Dead
<1>3. Single(Whole(t)) /\ \A r \in Row("dep") : Holds(Whole(t), r) => Holds(Whole(Deps), r)
  BY <1>1, <1>2, WholeForm, BlottedSingle DEF DepInv
<1>4. \A i \in 1..Len(t.pend) : Seen(t.pend[i].key)
  BY <1>2 DEF DepInv, Among
<1> QED
  BY <1>2, <1>3, <1>4

LEMMA FlushDep ==
    ASSUME DepInv, Flush, StoreInv'
    PROVE  DepInv'
<1>1. PICK d \in FlushOf("dep"), s \in FlushOf("sotr") :
          file' = [f \in Files |-> IF f = "dep" THEN d ELSE s]
  BY DEF Flush
<1>2. /\ Deps' = d /\ UNCHANGED <<pc, item, offered, up>>
  BY <1>1 DEF Flush, history, Deps, Files
<1>3. \A c \in Clients : Writing(c)' = Writing(c) /\ item'[c] = item[c]
                       /\ (Writing(c) => item[c].row \in Row("dep"))
  BY <1>2, ItemRow DEF Writing, DepInv
<1>4. \A key : Seen(key)' = Seen(key)
  BY <1>2 DEF Seen
<1>5. /\ Single(Whole(d)) /\ \A i \in 1..Len(d.pend) : Seen(d.pend[i].key)
      /\ \A r \in Row("dep") : Holds(Whole(d), r) => Holds(Whole(Deps), r)
  BY FlushedDep
<1> QED
  BY <1>2, <1>3, <1>4, <1>5 DEF DepInv, Whole

LEMMA EndDep ==
    ASSUME DepInv, NEW g, End(g), StoreInv', g["dep"] \in States("dep"), Single(Whole(g["dep"]))
    PROVE  DepInv'
<1>1. Deps' = Gone(g["dep"]) /\ up' = FALSE /\ \A c \in Clients : pc'[c] = "idle"
  BY DEF End, Deps, Files
<1>2. Single(Whole(Gone(g["dep"]))) /\ Len(Gone(g["dep"]).pend) = 0
  BY GoneSingle, GoneState, StateTypes DEF Files
<1> QED
  BY <1>1, <1>2 DEF DepInv, Writing, Whole

LEMMA DepInvariant == OncePerRun => (Spec => []DepInv)
<1> SUFFICES ASSUME OncePerRun PROVE Spec => []DepInv
  OBVIOUS
<1>1. DepInv /\ [Next]_vars => DepInv'
  <2> SUFFICES ASSUME DepInv, [Next]_vars PROVE DepInv'
    OBVIOUS
  <2>0. StoreInv'
    BY StoreStep DEF DepInv
  <2>1. CASE UNCHANGED vars
    <3>1. Deps' = Deps /\ UNCHANGED <<up, pc, item, offered>>
      BY <2>1 DEF vars, store, history, Deps
    <3> QED
      BY <2>0, <3>1 DEF DepInv, Writing, Seen, Whole
  <2>2. CASE Open
    <3>1. /\ ~up /\ UNCHANGED <<file, pc, item>>
      BY <2>2 DEF Open
    <3>2. Deps' = Deps /\ Deps.pend = <<>> /\ Deps \in States("dep") /\ "dep" \in Files
      BY <3>1 DEF Deps, DepInv, StoreInv, Files
    <3>3. Len(Deps.pend) = 0 /\ \A c \in Clients : pc'[c] = "idle"
      BY <3>1, <3>2, StateTypes DEF DepInv
    <3> QED
      BY <2>0, <3>2, <3>3 DEF DepInv, Writing, Whole
  <2>3. CASE Close
    <3>1. PICK d \in FlushOf("dep"), s \in FlushOf("sotr") :
              End([f \in Files |-> IF f = "dep" THEN d ELSE s])
      BY <2>3 DEF Close, CloseFiles
    <3> DEFINE g == [f \in Files |-> IF f = "dep" THEN d ELSE s]
    <3>2. g["dep"] = d /\ End(g)
      BY <3>1 DEF Files
    <3> HIDE DEF g
    <3> QED
      BY <2>0, <3>2, FlushedDep, EndDep
  <2>4. CASE Crash
    <3>1. End(file) /\ file["dep"] \in States("dep") /\ Single(Whole(file["dep"]))
      BY <2>4 DEF Crash, DepInv, StoreInv, Deps, Files
    <3> QED
      BY <2>0, <3>1, EndDep
  <2> QED
    BY <2>0, <2>1, <2>2, <2>3, <2>4, LookDep, WriteDep, FlushDep DEF Next
<1> QED
  BY InitDep, <1>1, PTL DEF Spec

\* A dump never puts a department row into its file twice, though the scan for
\* double rows does not see the buffer and others write between scan and append:
\* through any number of runs, crashes, spills and failed writes.
THEOREM DepartmentsAreKeptOnce == OncePerRun => (Spec => []NoDoubleDep)
<1>1. DepInv => NoDoubleDep
  <2> SUFFICES ASSUME DepInv PROVE NoDoubleDep
    OBVIOUS
  <2>1. Deps \in States("dep") /\ "dep" \in Files
    BY DEF DepInv, StoreInv, Deps, Files
  <2>2. DOMAIN Deps.lines = 1..Len(Deps.lines)
    BY <2>1, StateTypes, LenProperties
  <2>3. /\ Len(Whole(Deps)) = Len(Deps.lines) + Len(Deps.pend)
        /\ Len(Deps.lines) \in Nat /\ Len(Deps.pend) \in Nat
        /\ \A i \in 1..Len(Deps.lines) : Whole(Deps)[i] = Deps.lines[i]
    BY <2>1, WholeForm
  <2>4. \A i \in 1..Len(Deps.lines) : i \in 1..Len(Whole(Deps))
    <3> DEFINE a == Len(Deps.lines)
               b == Len(Deps.pend)
               w == Len(Whole(Deps))
    <3>1. w = a + b /\ a \in Nat /\ b \in Nat
      BY <2>3
    <3> HIDE DEF a, b, w
    <3>2. \A i \in 1..a : i \in 1..w
      BY <3>1
    <3> QED
      BY <3>2 DEF a, w
  <2>5. \A i, j \in 1..Len(Deps.lines) : Deps.lines[i] = Deps.lines[j] /\ Deps.lines[i] # Torn => i = j
    BY <2>3, <2>4, ZenonT(60) DEF DepInv, Single
  <2> QED
    BY <2>2, <2>5 DEF NoDoubleDep, Spoilt, Deps
<1> QED
  BY <1>1, DepInvariant, PTL

=============================================================================
