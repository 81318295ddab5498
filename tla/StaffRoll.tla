----------------------------- MODULE StaffRoll ------------------------------
(***************************************************************************)
(* The employees of a tenant: added one at a time by worker threads, or    *)
(* from an uploaded file by one request that holds the event loop, checks  *)
(* every row first and then inserts them in one transaction.  What makes a *)
(* person unique (email, phone, employee code) is one name here; the       *)
(* database refuses a second row of the same name.                         *)
(***************************************************************************)
EXTENDS Naturals, Sequences, SequencesExt, FiniteSets

CONSTANTS People,
          Clerks,    \* threads that add or rename one employee
          Files,     \* files: sequences of [who, fits]
          None

VARIABLES
    staff,       \* the names of the rows committed
    inactive,    \* those of them that are switched off
    insert,      \* the row a clerk has inserted and not committed
    upload,      \* the upload under way
    mailed       \* who was sent a welcome mail

vars == <<staff, inactive, insert, upload, mailed>>

Names(file) == {file[i].who : i \in DOMAIN file}
\* rows  : what is left of the file       known : the names read before the loop
\* added : rows of the open transaction   made, failed : what it will report
Upload == [file : Files, rows : Seq([who : People, fits : BOOLEAN]),
           known : SUBSET People, added : SUBSET People,
           made : SUBSET People, failed : SUBSET People]

\* Types; no two transactions hold the same name, and none a committed one.
TypeOK ==
    /\ staff \subseteq People /\ inactive \subseteq staff /\ mailed \subseteq People
    /\ insert \in [Clerks -> People \union {None}]
    /\ upload \in Upload \union {None}
    /\ \A c \in Clerks : insert[c] \notin staff
    /\ \A c, d \in Clerks : insert[c] = insert[d] /\ insert[c] # None => c = d
    /\ upload # None => /\ upload.added \intersect staff = {}
                        /\ \A c \in Clerks : insert[c] \notin upload.added

Init ==
    /\ staff = {} /\ inactive = {} /\ mailed = {}
    /\ insert = [c \in Clerks |-> None]
    /\ upload = None

-----------------------------------------------------------------------------
Added    == IF upload = None THEN {} ELSE upload.added
Inserted == {insert[c] : c \in Clerks} \ {None}
\* An insert waits for a transaction that holds the name, and fails when the
\* name is committed.
Free(p) == p \notin staff \union Added \union Inserted

CreateEmployee(c, p) ==
    /\ insert[c] = None /\ Free(p)
    /\ insert' = [insert EXCEPT ![c] = p]
    /\ UNCHANGED <<staff, inactive, upload, mailed>>
\* The mail is queued before the commit and sent after the answer.
CreateCommit(c) ==
    /\ insert[c] # None
    /\ staff' = staff \union {insert[c]}
    /\ mailed' = mailed \union {insert[c]}
    /\ insert' = [insert EXCEPT ![c] = None]
    /\ UNCHANGED <<inactive, upload>>

UpdateEmployee(p, q) ==
    /\ p \in staff /\ Free(q)
    /\ staff' = (staff \ {p}) \union {q}
    /\ inactive' = IF p \in inactive THEN (inactive \ {p}) \union {q} ELSE inactive
    /\ UNCHANGED <<insert, upload, mailed>>

ToggleEmployeeStatus(p) ==
    /\ p \in staff
    /\ inactive' = IF p \in inactive THEN inactive \ {p} ELSE inactive \union {p}
    /\ UNCHANGED <<staff, insert, upload, mailed>>

-----------------------------------------------------------------------------
\* Every row is looked up in the database and compared with the others of the
\* file; one row that does not pass refuses the file.
ValidateEmployeeRow(row) == row.who \notin staff
Accepted(file) ==
    /\ \A i \in DOMAIN file : ValidateEmployeeRow(file[i])
    /\ Cardinality(Names(file)) = Len(file)

BulkCreateEmployees(file) ==
    /\ upload = None /\ Accepted(file)
    /\ upload' = [file |-> file, rows |-> file, known |-> staff,
                  added |-> {}, made |-> {}, failed |-> {}]
    /\ UNCHANGED <<staff, inactive, insert, mailed>>

AddRow ==
    LET row == Head(upload.rows) IN
    /\ upload # None /\ upload.rows # <<>>
    /\ row.fits /\ row.who \notin upload.known /\ Free(row.who)
    /\ upload' = [upload EXCEPT !.rows = Tail(@), !.added = @ \union {row.who},
                                !.made = @ \union {row.who}]
    /\ UNCHANGED <<staff, inactive, insert, mailed>>

\* Mutant: a row that fails is left out of the report.
FailRowUnreported ==
    LET row == Head(upload.rows) IN
    /\ upload # None /\ upload.rows # <<>>
    /\ ~row.fits \/ row.who \in upload.known \union staff
    /\ upload' = [upload EXCEPT !.rows = Tail(@), !.added = {}]
    /\ UNCHANGED <<staff, inactive, insert, mailed>>

\* A row that the schema refuses, whose name is known, or was committed since:
\* the transaction is rolled back, with the rows inserted before it.
FailRow ==
    LET row == Head(upload.rows) IN
    /\ upload # None /\ upload.rows # <<>>
    /\ ~row.fits \/ row.who \in upload.known \union staff
    /\ upload' = [upload EXCEPT !.rows = Tail(@), !.added = {},
                                !.failed = @ \union {row.who}]
    /\ UNCHANGED <<staff, inactive, insert, mailed>>

BulkCommit ==
    /\ upload # None /\ upload.rows = <<>>
    /\ staff' = staff \union upload.added
    /\ mailed' = mailed \union upload.made
    /\ upload' = None
    /\ UNCHANGED <<inactive, insert>>
\* The commit fails: the answer is an error and nothing is mailed.
BulkCommitFails ==
    /\ upload # None /\ upload.rows = <<>> /\ upload.made # {}
    /\ upload' = None
    /\ UNCHANGED <<staff, inactive, insert, mailed>>

Next ==
    \/ \E c \in Clerks : \/ \E p \in People : CreateEmployee(c, p)
                         \/ CreateCommit(c)
    \/ \E p, q \in People : UpdateEmployee(p, q)
    \/ \E p \in People : ToggleEmployeeStatus(p)
    \/ \E file \in Files : BulkCreateEmployees(file)
    \/ AddRow \/ FailRow \/ BulkCommit \/ BulkCommitFails

Spec == Init /\ [][Next]_vars

-----------------------------------------------------------------------------
\* An upload that reports no failed row has stored its whole file, and it stores
\* nobody it does not report.
NobodyLeftOut ==
    [][BulkCommit => /\ staff' \ staff \subseteq upload.made
                     /\ upload.failed = {} => Names(upload.file) \subseteq staff']_vars
=============================================================================
