------------------------------ MODULE Employee ------------------------------
(***************************************************************************)
(* An employee as the gRPC interface carries him (kbv1.Sotr), as the       *)
(* database keeps him (datasource.Sotr with its tables of phones and       *)
(* mobiles), and the pure functions between the two: the conversions       *)
(* (internal/utils/conv.go), the comparison that makes the history         *)
(* (internal/datasource/employee.go, Diff) and what a change deletes       *)
(* (internal/storage/pg/db.go, preparePhones).                             *)
(*                                                                         *)
(* A mobile is the number its digits make, 0 if it has none; the           *)
(* punctuation around them never survives a conversion.                    *)
(***************************************************************************)
EXTENDS Naturals, Sequences, FiniteSets, SequencesExt

\* A row of the interface: [tabnum, parent, email, rest, phone, mobile]; rest
\* stands for idr, name, avatar and grade, each compared like parent.
NoEmail == ""

\* The columns of table sotrs that Diff compares.
Columns == {"parent", "email", "rest"}

\* Mobile.String: a number of fewer than five digits is lost.
Rendered(n) == IF n < 10000 THEN 0 ELSE n
AllRendered(list) == [i \in 1..Len(list) |-> Rendered(list[i])]

\* What the database may answer for a set of rows, having no ORDER BY: each
\* of them once.
Readings(stored) ==
    {list \in [1..Cardinality(stored) -> stored] : ToSet(list) = stored}

\* Mutant: mobiles are not compared.
DiffNoMobile(new, old, phones, mobiles) ==
    LET changed == {f \in Columns : new[f] # old[f]}
                   \cup {f \in {"phone"} : new.phone # phones}
    IN  [f \in changed |-> IF f = "phone" THEN phones ELSE old[f]]

\* Mutant: the history has the numbers as they are stored.
DiffRaw(new, old, phones, mobiles) ==
    IF new.mobile = mobiles THEN DiffNoMobile(new, old, phones, mobiles)
    ELSE DiffNoMobile(new, old, phones, mobiles) @@ [mobile |-> mobiles]

\* The history of a change: the fields that differ with their old values.
\* phones and mobiles are the readings of what is stored.
Diff(new, old, phones, mobiles) ==
    LET changed == {f \in Columns : new[f] # old[f]}
                   \cup {f \in {"phone"} : new.phone # phones}
                   \cup {f \in {"mobile"} : AllRendered(new.mobile) # AllRendered(mobiles)}
    IN  [f \in changed |-> IF f = "phone" THEN phones
                           ELSE IF f = "mobile" THEN AllRendered(mobiles) ELSE old[f]]

\* Diff dereferences the e-mail of both rows, which is nil when empty.
DiffPanics(new, old) == NoEmail \in {new.email, old.email}

\* What preparePhones deletes: the values of the entry's list, as they were
\* rendered into it.
Deleted(diff, field) == IF field \in DOMAIN diff THEN ToSet(diff[field]) ELSE {}

\* Mutant: only new phones and mobiles, none deleted.
UpsertKeeps(stored, diff, field, list) == stored \cup ToSet(list)

\* The delete statement finds rows by employee and value.
Remaining(stored, values) == stored \ values

\* Delete what the history says was there, insert, do nothing on conflict.
Upserted(stored, diff, field, list) ==
    Remaining(stored, Deleted(diff, field)) \cup ToSet(list)

\* What Conv2Kbv makes of a row for its readers: the columns, the phones, the
\* mobiles as they are rendered.
View(row, phones, mobiles) ==
    [parent |-> row.parent, email |-> row.email, rest |-> row.rest,
     phone |-> phones, mobile |-> {Rendered(n) : n \in mobiles}]

\* The view before a change, from the view after it and its history.
Undone(view, diff) ==
    [f \in DOMAIN view |-> IF f \notin DOMAIN diff THEN view[f]
                           ELSE IF f \in Columns THEN diff[f] ELSE ToSet(diff[f])]
=============================================================================
