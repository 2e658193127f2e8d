------------------------------ MODULE Results ------------------------------
(***************************************************************************)
(* How the rows of a statement reach the code that asked for them: the     *)
(* scanners genieql generated (every table has the same three), the loops  *)
(* of sqlx and sqlxx over them, and the insert of many torrents by one     *)
(* scanner.  The database may refuse a statement, and it may break off     *)
(* after some of the rows.                                                 *)
(*                                                                         *)
(* A row of a query is its place in the result.  In a batch, a value is    *)
(* <<k, field>>: the field of the k-th struct.                             *)
(***************************************************************************)
EXTENDS Naturals, Sequences

CONSTANTS
    MaxRows,    \* bound on the rows of a query
    MaxBatch    \* bound on the structs of a batch

ASSUME ResultsAssumption == MaxRows \in Nat /\ MaxBatch \in Nat

VARIABLES
    loop,       \* where the caller's loop is
    reader,     \* "all", "one": what the caller wants; "batch" the rows it inserts
    scanner,    \* what the caller reads from
    remaining,  \* the structs of a batch that no statement has taken
    wanted,     \* the rows the statement has, or the number of structs
    stored,     \* the rows a batch has stored
    got,        \* the rows the caller received
    cause       \* the error the caller is left with

resultVars == <<loop, reader, scanner, remaining, wanted, stored, got, cause>>

-----------------------------------------------------------------------------
(* The scanners.  Of the rows of a query, sql.Rows delivers the ones here;   *)
(* it is broken when these are not all of them.                              *)

NoScanner == [kind |-> "none", rows |-> <<>>, broken |-> FALSE]
errScanner == [kind |-> "err", rows |-> <<>>, broken |-> FALSE]
NewScannerStatic(rows, broken) == [kind |-> "rows", rows |-> rows, broken |-> broken]

ScannerNext(s) == s.kind = "rows" /\ s.rows # <<>>
ScannerErr(s) == s.kind = "err" \/ (s.kind = "rows" /\ s.rows = <<>> /\ s.broken)

\* what the database may answer for a statement with these rows
Answers(rows) ==
    {errScanner, NewScannerStatic(rows, FALSE)} \cup
    {NewScannerStatic(SubSeq(rows, 1, k), TRUE) : k \in 0..(Len(rows) - 1)}

-----------------------------------------------------------------------------
(* MetadataBatchInsertWithDefaults: 17 parameters for a struct               *)

transform ==
    <<"archivable", "auto_description", "bytes", "description", "encryption_seed", "id",
      "imported_at", "infohash", "known_media_id", "mimetype", "peers", "private",
      "seeding", "tombstoned_at", "tracker", "uploaded", "verify_at">>

\* the columns and parameters of the first tuple, 0 for DEFAULT
BatchColumns ==
    <<"archivable", "auto_description", "bytes", "created_at", "description",
      "downloaded", "encryption_seed", "hidden_at", "id", "imported_at", "infohash",
      "initiated_at", "known_media_id", "mimetype", "next_announce_at", "paused_at",
      "peers", "private", "seeding", "tombstoned_at", "tracker", "updated_at",
      "uploaded", "verify_at">>
BatchValues ==
    <<1, 2, 3, 0, 4, 0, 5, 0, 6, 7, 8, 0, 9, 10, 0, 0, 11, 12, 13, 14, 15, 0, 16, 17>>

\* the column a batch leaves to the table, by its declaration
BatchDefault ==
    {"created_at", "updated_at", "hidden_at", "initiated_at", "paused_at", "downloaded",
     "next_announce_at"}

\* One statement for each number of structs: by how much the parameters of each tuple
\* are shifted, the structs bound in this order, the first of the structs that are left,
\* and whether the scanner advanced.
Batch(shift, structs, rest, advanced) ==
    [shift |-> shift, structs |-> structs, rest |-> rest, advanced |-> advanced]

Batch1 == Batch(<<0>>, <<1>>, 2, TRUE)
Batch2 == Batch(<<0, 17>>, <<1, 2>>, 3, TRUE)
Batch3 == Batch(<<0, 17, 34>>, <<1, 2, 3>>, 4, TRUE)
Batch4 == Batch(<<0, 17, 34, 51>>, <<1, 2, 3, 4>>, 5, TRUE)
Batch5 == Batch(<<0, 17, 34, 51, 68>>, <<1, 2, 3, 4, 5>>, 6, TRUE)
Batch6 == Batch(<<0, 17, 34, 51, 68, 85>>, <<1, 2, 3, 4, 5, 6>>, 7, TRUE)
Batch7 == Batch(<<0, 17, 34, 51, 68, 85, 102>>, <<1, 2, 3, 4, 5, 6, 7>>, 8, TRUE)
Batch8 == Batch(<<0, 17, 34, 51, 68, 85, 102, 119>>, <<1, 2, 3, 4, 5, 6, 7, 8>>, 9, TRUE)
Batch9 ==
    Batch(<<0, 17, 34, 51, 68, 85, 102, 119, 136>>, <<1, 2, 3, 4, 5, 6, 7, 8, 9>>, 10, TRUE)

\* ten and more: ten are sent, the others forgotten, and the scanner stays where it was
BatchMore(n) ==
    Batch(<<0, 17, 34, 51, 68, 85, 102, 119, 136, 153>>, <<1, 2, 3, 4, 5, 6, 7, 8, 9, 10>>,
          n + 1, FALSE)

advance(n) ==
    LET sized == <<Batch1, Batch2, Batch3, Batch4, Batch5, Batch6, Batch7, Batch8, Batch9>>
    IN  IF n \in DOMAIN sized THEN sized[n] ELSE BatchMore(n)

\* the rows the statement stores for the structs p
Tuples(b, p) ==
    LET parameter(k) == <<p[b.structs[((k - 1) \div 17) + 1]], transform[((k - 1) % 17) + 1]>>
        bound(i, shift) == IF BatchValues[i] = 0 THEN <<0, BatchColumns[i]>>
                           ELSE parameter(BatchValues[i] + shift)
    IN  [t \in DOMAIN b.shift |-> [i \in DOMAIN BatchColumns |-> bound(i, b.shift[t])]]

-----------------------------------------------------------------------------
ResultsInit ==
    /\ loop = "idle" /\ reader = "none"
    /\ scanner = NoScanner
    /\ remaining = <<>> /\ wanted = <<>> /\ stored = <<>> /\ got = <<>>
    /\ cause = "none"

\* a query that is read to its end (ScanEach, ScanInto, Discard, a for over Iter), or
\* for one row (ScanOne and the scanners of a single row)
Query(n, r) ==
    /\ loop = "idle"
    /\ reader' = r
    /\ wanted' = [k \in 1..n |-> k]
    /\ \E s \in Answers(wanted') : scanner' = s
    /\ loop' = "next"
    /\ UNCHANGED <<remaining, stored, got, cause>>

NewMetadataBatchInsertWithDefaults(n) ==
    /\ loop = "idle"
    /\ reader' = "batch"
    /\ remaining' = [k \in 1..n |-> k]
    /\ wanted' = remaining'
    /\ loop' = "next"
    /\ UNCHANGED <<scanner, stored, got, cause>>

\* Mutant of Ended: the error of the rows is not asked for.
EndedQuietly(s) == loop' = "done" /\ cause' = "none"

\* the loop ends: Close, and the error of the scanner
Ended(s) == loop' = "done" /\ cause' = IF ScannerErr(s) THEN "error" ELSE "none"

Next1 ==
    /\ loop = "next"
    /\ ScannerNext(scanner)
    /\ loop' = "scan"
    /\ UNCHANGED <<reader, scanner, remaining, wanted, stored, got, cause>>

\* no struct is left either: for a single row there is none
NextEnds ==
    /\ loop = "next"
    /\ ~ScannerNext(scanner) /\ remaining = <<>>
    /\ IF reader = "one" /\ ~ScannerErr(scanner)
       THEN loop' = "done" /\ cause' = "no rows"
       ELSE Ended(scanner)
    /\ UNCHANGED <<reader, scanner, remaining, wanted, stored, got>>

\* Close of the scanner before, and one more statement
NextAdvances ==
    /\ loop = "next"
    /\ ~ScannerNext(scanner) /\ remaining # <<>>
    /\ LET b == advance(Len(remaining))
           rows == Tuples(b, remaining)
       IN  \E s \in Answers(rows) :
               /\ scanner' = s
               /\ stored' = IF s.kind = "err" THEN stored ELSE stored \o rows
               /\ remaining' = SubSeq(remaining, b.rest, Len(remaining))
               /\ IF b.advanced /\ ScannerNext(s)
                  THEN loop' = "scan" /\ UNCHANGED cause
                  ELSE Ended(s)
    /\ UNCHANGED <<reader, wanted, got>>

\* Scan, and the body of the loop
ScanRow ==
    /\ loop = "scan"
    /\ got' = Append(got, Head(scanner.rows))
    /\ scanner' = [scanner EXCEPT !.rows = Tail(@)]
    /\ loop' = IF reader = "one" THEN "done" ELSE "next"
    /\ UNCHANGED <<reader, remaining, wanted, stored, cause>>

\* a value that does not convert
ScanFails ==
    /\ loop = "scan"
    /\ loop' = "done" /\ cause' = "error"
    /\ UNCHANGED <<reader, scanner, remaining, wanted, stored, got>>

ResultsNext ==
    \/ \E n \in 0..MaxRows, r \in {"all", "one"} : Query(n, r)
    \/ \E n \in 0..MaxBatch : NewMetadataBatchInsertWithDefaults(n)
    \/ Next1 \/ NextEnds \/ NextAdvances \/ ScanRow \/ ScanFails

ResultsSpec == ResultsInit /\ [][ResultsNext]_resultVars

-----------------------------------------------------------------------------
\* A loop over the rows of a statement that ends without an error has seen all of them,
\* in order: a refused statement or a broken connection is not taken for the end of the
\* rows.  A batch of fewer than ten has also stored each struct once, every field in
\* its own column.
NothingLost ==
    loop = "done" /\ cause = "none" =>
        CASE reader = "all" -> got = wanted
          [] reader = "one" -> wanted # <<>> /\ got = SubSeq(wanted, 1, 1)
          [] reader = "batch" /\ Len(wanted) < 10 ->
                /\ got = stored
                /\ stored = [k \in DOMAIN wanted |-> [i \in DOMAIN BatchColumns |->
                      <<IF BatchColumns[i] \in BatchDefault THEN 0 ELSE k, BatchColumns[i]>>]]
          [] OTHER -> TRUE
=============================================================================
