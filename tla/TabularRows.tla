------------------------------ MODULE TabularRows ------------------------------
(* parse_csv_result and parse_xlsx_result of services/ingestion/tabular.py,   *)
(* with normalize_row: what becomes of every row of an uploaded file.  One    *)
(* action is one iteration of a loop.                                         *)
(*                                                                            *)
(* A row is [shape, amount, debit, credit, valid]: of no cells ("line_end",   *)
(* CSV only), of empty cells, or of cells; a cell is NoCell, BadCell or an    *)
(* amount.  "valid" says that its date and the other columns of its record    *)
(* type can be parsed.  A column mapping is left out.                         *)
EXTENDS Integers, Sequences, SequencesExt

CONSTANTS Books,    \* the files: [format, sheets], a CSV file being one sheet
          MaxSheets, MaxRows,
          NoCell, BadCell

IsSequence(s) == s \in Seq({s[k] : k \in DOMAIN s})

ASSUME TabularAssumption ==
  /\ MaxSheets \in Nat /\ MaxRows \in Nat
  /\ \A b \in Books :
       /\ b = [format |-> b.format, sheets |-> b.sheets]
       /\ b.format \in {"csv", "xlsx"} /\ (b.format = "csv" => Len(b.sheets) = 1)
       /\ IsSequence(b.sheets) /\ \A s \in DOMAIN b.sheets : IsSequence(b.sheets[s])

VARIABLES book,
          reading,    \* "idle", "header", "rows", "done" or "raised"
          sheet, line, \* where the reader is
          number,     \* the loop's row_number, of the next row
          rowRecords, \* what the parser returns: the records,
          rowErrors   \* and the errors, with the line each is of

rowVars == <<book, reading, sheet, line, number, rowRecords, rowErrors>>

RowsInit ==
  /\ book = [format |-> "csv", sheets |-> <<>>] /\ reading = "idle"
  /\ sheet = 1 /\ line = 0 /\ number = 2
  /\ rowRecords = <<>> /\ rowErrors = <<>>

-----------------------------------------------------------------------------
(* normalize_row.                                                             *)

\* The number 0 of a spreadsheet is false, the text "0" of a CSV file is not.
Falsy(cell) == cell = NoCell \/ (book.format = "xlsx" /\ cell = 0)

\* parse_decimal raises for the rest.
IsDecimal(cell) == cell \notin {NoCell, BadCell}

\* amount, else (debit or credit), negated if only a credit is given.
AmountOf(row) ==
  IF row.amount # NoCell THEN row.amount
  ELSE LET side == IF ~Falsy(row.debit) THEN row.debit ELSE row.credit IN
       IF row.debit = NoCell /\ IsDecimal(side) THEN -side ELSE side

Rows == book.sheets[sheet]
Row == Rows[line + 1]

\* Cells without a named column are of no use.
Normalized(row) ==
  /\ row.shape = "cells" /\ (book.format = "csv" => Rows[1].shape = "cells")
  /\ row.valid /\ IsDecimal(AmountOf(row))

-----------------------------------------------------------------------------

Entry(kind, amount) ==
  [sheet |-> sheet, number |-> number, line |-> line + 1, kind |-> kind, amount |-> amount]

OpenFile ==
  /\ reading = "idle"
  /\ \E b \in Books :
       LET limited == b.format = "xlsx" /\ Len(b.sheets) > MaxSheets IN
       /\ book' = IF limited THEN [b EXCEPT !.sheets = SubSeq(@, 1, MaxSheets)] ELSE b
       /\ rowErrors' = IF limited THEN <<[sheet |-> 0, number |-> 1, line |-> 0, kind |-> "sheets", amount |-> NoCell]>>
                       ELSE <<>>
  /\ reading' = "header"
  /\ UNCHANGED <<sheet, line, number, rowRecords>>

\* The first line of a CSV file is its header, whatever it holds; in a worksheet
\* the first row that is not empty is, and the rows are counted from it.
Header(rows) ==
  IF book.format = "csv" THEN {k \in DOMAIN rows : k = 1 /\ rows[k].shape # "line_end"}
  ELSE {k \in DOMAIN rows : rows[k].shape = "cells" /\ \A j \in 1..(k - 1) : rows[j].shape # "cells"}

ReadHeader ==
  /\ reading = "header" /\ sheet \in DOMAIN book.sheets
  /\ \/ book.format = "csv" /\ Header(Rows) = {} /\ reading' = "raised" /\ UNCHANGED <<sheet, line>>
     \/ book.format = "xlsx" /\ Header(Rows) = {} /\ sheet' = sheet + 1 /\ UNCHANGED <<reading, line>>
     \/ line' \in Header(Rows) /\ reading' = "rows" /\ UNCHANGED sheet
  /\ number' = 2
  /\ UNCHANGED <<book, rowRecords, rowErrors>>

\* The csv module gives back no row for a line without cells.
MoreRows == reading = "rows" /\ line < Len(Rows)
SkipLineEnd ==
  /\ MoreRows /\ book.format = "csv" /\ Row.shape = "line_end"
  /\ line' = line + 1
  /\ UNCHANGED <<book, reading, sheet, number, rowRecords, rowErrors>>

Given == MoreRows /\ (book.format = "csv" => Row.shape # "line_end")

LeaveSheet == sheet' = sheet + 1 /\ line' = 0 /\ reading' = "header"

\* Mutant: the rest of the sheet is dropped without a word.
OverLimitUntold ==
  /\ Given /\ number - 1 > MaxRows
  /\ LeaveSheet
  /\ UNCHANGED <<book, number, rowRecords, rowErrors>>

OverLimit ==
  /\ Given /\ number - 1 > MaxRows
  /\ rowErrors' = Append(rowErrors, Entry("rows", NoCell))
  /\ LeaveSheet
  /\ UNCHANGED <<book, number, rowRecords>>

AcceptRow ==
  /\ Normalized(Row)
  /\ rowRecords' = Append(rowRecords, Entry("record", AmountOf(Row)))
  /\ UNCHANGED rowErrors

RefuseRow ==
  /\ (book.format = "csv" \/ Row.shape = "cells") /\ ~Normalized(Row)
  /\ rowErrors' = Append(rowErrors, Entry("row", NoCell))
  /\ UNCHANGED rowRecords

ReadRow ==
  /\ Given /\ number - 1 <= MaxRows
  /\ line' = line + 1 /\ number' = number + 1
  /\ \/ book.format = "xlsx" /\ Row.shape # "cells" /\ UNCHANGED <<rowRecords, rowErrors>>
     \/ AcceptRow
     \/ RefuseRow
  /\ UNCHANGED <<book, reading, sheet>>

EndSheet ==
  /\ reading = "rows" /\ line = Len(Rows)
  /\ LeaveSheet
  /\ UNCHANGED <<book, number, rowRecords, rowErrors>>

EndFile ==
  /\ reading = "header" /\ sheet \notin DOMAIN book.sheets
  /\ reading' = "done"
  /\ UNCHANGED <<book, sheet, line, number, rowRecords, rowErrors>>

RowsNext == OpenFile \/ ReadHeader \/ SkipLineEnd \/ OverLimit \/ ReadRow \/ EndSheet \/ EndFile

RowsSpec == RowsInit /\ [][RowsNext]_rowVars

-----------------------------------------------------------------------------
RowsTypeOK ==
  /\ reading \in {"idle", "header", "rows", "done", "raised"}
  /\ sheet \in 1..(Len(book.sheets) + 1) /\ line \in Nat /\ number \in 2..(MaxRows + 2)
  /\ \A k \in DOMAIN rowRecords : rowRecords[k].kind = "record"

Entries == rowRecords \o rowErrors
About(s, k) == {e \in DOMAIN Entries : Entries[e].sheet = s /\ Entries[e].line = k}

\* An empty row of a worksheet is nothing; of a CSV file it is a row, and bad.
IsData(row) == row.shape = "cells" \/ (book.format = "csv" /\ row.shape = "empty")

OneSided(row) == row.amount = NoCell /\ NoCell \in {row.debit, row.credit}

\* When the parser returns, every row below a header is one record or one error,
\* or lies past a limit that has left an error: with no error, nothing of the
\* sheets that were read is missing.  Row numbers count from the header, and a
\* row with one of the two sides is worth debit minus credit.
RowsAccounted ==
  reading = "done" =>
    \A s \in DOMAIN book.sheets : \A h \in Header(book.sheets[s]) :
      \A k \in (h + 1)..Len(book.sheets[s]) :
        LET row == book.sheets[s][k] IN
        IsData(row) =>
          \/ \E e \in DOMAIN rowErrors :
               rowErrors[e].kind = "rows" /\ rowErrors[e].sheet = s /\ rowErrors[e].line <= k
          \/ \E e \in DOMAIN Entries :
               /\ About(s, k) = {e}
               /\ book.format = "xlsx" => Entries[e].number = k - h + 1
               /\ Entries[e].kind = "record" /\ OneSided(row) =>
                    Entries[e].amount = IF row.debit = NoCell THEN -row.credit ELSE row.debit
==============================================================================
