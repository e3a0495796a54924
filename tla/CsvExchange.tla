----------------------------- MODULE CsvExchange -----------------------------
(***************************************************************************)
(* Rows that leave the application as a CSV file and come back:            *)
(* apps/web/lib/csv.ts with the import of components/resource-page.tsx     *)
(* (leads, contacts, companies) and of app/app/team/page.tsx. A cell is a  *)
(* sequence of characters; "+" stands for the four that open a formula,    *)
(* "x" for any that mean nothing. Types of fields are left out.            *)
(***************************************************************************)
EXTENDS Naturals, FiniteSets, SequencesExt

CONSTANTS
  Tables,                   \* what the list may hold: sequences of rows of cells
  Required,                 \* the columns a row must have a value in
  RowLimit                  \* MAX_CSV_ROWS

ASSUME CsvAssumption == RowLimit \in Nat \ {0}

VARIABLES
  table,                    \* the rows that are exported
  file,                     \* the text of the file
  source,                   \* the rows the import reads, once it has parsed them
  at,                       \* the row the import is at
  imported,                 \* the rows it has had accepted, in order
  failures,                 \* the rows it reports (line = row + 1)
  refused,                  \* history: rows whose call failed
  csvPc                     \* the import: idle, running, done or refused

csvVars == <<table, file, source, at, imported, failures, refused, csvPc>>

Quote == "\""
CR == "\r"
LF == "\n"
Columns == <<<<"Nome">>, <<"Notas">>>>
Blank == {" ", CR, LF}

Trim(cell) ==
  LET solid == {i \in DOMAIN cell : cell[i] \notin Blank}
  IN  IF solid = {} THEN <<>> ELSE SubSeq(cell, Min(solid), Max(solid))

Joined(parts, separator) ==
  FlattenSeq([i \in DOMAIN parts |-> IF i = 1 THEN parts[i] ELSE separator \o parts[i]])

----------------------------------------------------------------------------
(* downloadCsv *)

\* A cell that would open a formula is marked.
Neutral(cell) == IF cell # <<>> /\ cell[1] = "+" THEN <<"'">> \o cell ELSE cell

\* A variant that leaves the quotes of a cell as they are.
SameQuotes(cell) == cell

Doubled(cell) ==
  FlattenSeq([i \in DOMAIN cell |->
                IF cell[i] = Quote THEN <<Quote, Quote>> ELSE <<cell[i]>>])

EscapeCsv(cell, delimiter) ==
  LET safe == Doubled(Neutral(cell))
  IN  IF ToSet(safe) \cap {delimiter, LF, CR, Quote} = {} THEN safe
      ELSE <<Quote>> \o safe \o <<Quote>>

CsvText(rows, delimiter) ==
  LET Line(row) == Joined([c \in DOMAIN row |-> EscapeCsv(row[c], delimiter)], <<delimiter>>)
  IN  Joined([i \in 1..Len(rows) + 1 |-> Line(IF i = 1 THEN Columns ELSE rows[i - 1])],
             <<CR, LF>>)

----------------------------------------------------------------------------
(* parseCsvFile *)

InQuotes(text, i) == Cardinality({j \in 1..i : text[j] = Quote}) % 2 = 1

\* The separator the first line has more of, outside quotes.
DetectDelimiter(text) ==
  LET breaks == {i \in DOMAIN text : text[i] \in {CR, LF} /\ ~InQuotes(text, i)}
      end == IF breaks = {} THEN Len(text) ELSE Min(breaks)
      Count(c) == Cardinality({i \in 1..end : text[i] = c /\ ~InQuotes(text, i)})
  IN  IF Count(";") >= Count(",") THEN ";" ELSE ","

\* One character after the other: the rows so far, the row and the cell being
\* read, and whether within quotes. The second character of a pair is skipped.
ParseDelimited(text, delimiter) ==
  LET After(i) == IF i < Len(text) THEN text[i + 1] ELSE ""
      EndCell(s) == [s EXCEPT !.row = Append(@, s.cell), !.cell = <<>>]
      EndRow(s) == [EndCell(s) EXCEPT !.rows = Append(@, EndCell(s).row), !.row = <<>>]
      Read(s, i) ==
        IF s.skip THEN [s EXCEPT !.skip = FALSE]
        ELSE IF text[i] = Quote
        THEN IF s.quoted /\ After(i) = Quote
             THEN [s EXCEPT !.cell = Append(@, Quote), !.skip = TRUE]
             ELSE [s EXCEPT !.quoted = ~@]
        ELSE IF s.quoted \/ text[i] \notin {delimiter, CR, LF}
        THEN [s EXCEPT !.cell = Append(@, text[i])]
        ELSE IF text[i] = delimiter THEN EndCell(s)
        ELSE [EndRow(s) EXCEPT !.skip = text[i] = CR /\ After(i) = LF]
  IN  EndRow(FoldLeftDomain(Read, [rows |-> <<>>, row |-> <<>>, cell |-> <<>>,
                                   quoted |-> FALSE, skip |-> FALSE], text)).rows

\* Cells are trimmed and rows without any value are dropped, the header first.
ParseCsvFile(text) ==
  LET trimmed == [i \in DOMAIN ParseDelimited(text, DetectDelimiter(text)) |->
                    LET row == ParseDelimited(text, DetectDelimiter(text))[i]
                    IN  [c \in DOMAIN row |-> Trim(row[c])]]
  IN  Tail(SelectSeq(trimmed, LAMBDA row : \E c \in DOMAIN row : row[c] # <<>>))

----------------------------------------------------------------------------
(* Export and import *)

CsvInit ==
  /\ table \in Tables
  /\ file = <<>> /\ source = <<>> /\ at = 0
  /\ imported = <<>> /\ failures = {} /\ refused = {}
  /\ csvPc = "idle"

Unstarted == UNCHANGED <<table, source, at, imported, failures, refused, csvPc>>

ExportRows ==
  /\ csvPc = "idle" /\ file = <<>>
  /\ file' = CsvText(table, ";")
  /\ Unstarted

\* A spreadsheet saves the table with commas.
SavedElsewhere ==
  /\ csvPc = "idle" /\ file = <<>>
  /\ file' = CsvText(table, ",")
  /\ Unstarted

\* importRows, importUsers: the file is read, and refused as a whole if it has
\* no rows or too many.
StartImport ==
  /\ csvPc = "idle" /\ file # <<>>
  /\ source' = ParseCsvFile(file)
  /\ csvPc' = IF Len(source') \in 1..RowLimit THEN "running" ELSE "refused"
  /\ at' = 1
  /\ UNCHANGED <<table, file, imported, failures, refused>>

\* Of the row the import is at: does each required column have a value?
Complete(row) == \A c \in Required : c \in DOMAIN row /\ row[c] # <<>>

Continue ==
  /\ at' = at + 1
  /\ csvPc' = IF at = Len(source) THEN "done" ELSE "running"
  /\ UNCHANGED <<table, file, source>>

SkipRow ==
  /\ csvPc = "running" /\ ~Complete(source[at])
  /\ failures' = failures \cup {at}
  /\ Continue
  /\ UNCHANGED <<imported, refused>>

PostRow ==
  /\ csvPc = "running" /\ Complete(source[at])
  /\ imported' = Append(imported, source[at])
  /\ Continue
  /\ UNCHANGED <<failures, refused>>

\* The call fails, and the import goes on with the next row.
PostFails ==
  /\ csvPc = "running" /\ Complete(source[at])
  /\ failures' = failures \cup {at}
  /\ refused' = refused \cup {at}
  /\ Continue
  /\ UNCHANGED imported

CsvNext ==
  \/ ExportRows \/ SavedElsewhere \/ StartImport
  \/ SkipRow \/ PostRow \/ PostFails

CsvSpec == CsvInit /\ [][CsvNext]_csvVars

----------------------------------------------------------------------------
(* Properties *)

\* The import stays within its file.
CsvTypeOK ==
  /\ csvPc \in {"idle", "running", "done", "refused"}
  /\ csvPc = "running" => at \in DOMAIN source
  /\ failures \subseteq DOMAIN source /\ refused \subseteq failures

\* Whatever characters its cells hold, a table comes back from its file as it
\* was exported: row for row and column for column, but for white space around a
\* cell, the mark before a formula and rows without any value. Only rows whose
\* call failed or that lack a required value are missing (csv.ts:22-84, 97-198;
\* resource-page.tsx:112-178; team/page.tsx:205-262).
ExportComesBack ==
  csvPc = "done" =>
    LET Plain(row) == [c \in DOMAIN row |-> Trim(Neutral(row[c]))]
        rows == SelectSeq([i \in DOMAIN table |-> Plain(table[i])],
                          LAMBDA row : \E c \in DOMAIN row : row[c] # <<>>)
        accepted == {i \in DOMAIN rows \ refused : Complete(rows[i])}
    IN  /\ Len(imported) = Cardinality(accepted)
        /\ \A i \in accepted : imported[Cardinality(accepted \cap 1..i)] = rows[i]
        /\ failures = DOMAIN rows \ accepted
=============================================================================
