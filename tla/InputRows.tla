------------------------------ MODULE InputRows ------------------------------
(***************************************************************************)
(* Input files (input_stream.rs, and the two row counters of               *)
(* execution_store.rs and run.rs): which lines of a file become rows, under *)
(* which numbers, and how many rows the program believes there are.        *)
(*                                                                         *)
(* A file is its format and its lines, each reduced to what the code can    *)
(* tell: "blank", which of a JSONL file is all that is whitespace and of a   *)
(* CSV file only what is empty; "row"; "keyless", a row without the column   *)
(* the handler requires; "malformed", which does not parse (JSON that is no *)
(* object, a CSV record with too few fields); "invalid", not UTF-8; and for *)
(* CSV "quote", a line with an odd number of quotes, so that a record runs   *)
(* from it to the next such line, and two kinds of line of spaces alone,    *)
(* which the csv reader does not pass over: "spaces", a record of a file of *)
(* one column, and "gap", one with too few fields in a file of several.     *)
(* ends is "cr" where a lone carriage return ends the lines, which the csv   *)
(* reader takes for a line end and the counters, which look for line feeds, *)
(* do not.                                                                 *)
(***************************************************************************)
EXTENDS Naturals, Sequences, FiniteSets

JsonlLines == {"blank", "row", "keyless", "malformed", "invalid"}
CsvLines   == JsonlLines \cup {"quote", "spaces", "gap"}
Whitespace == {"blank", "spaces", "gap"}

InputFile == [format : {"jsonl"}, ends : {"lf"}, lines : Seq(JsonlLines)]
               \cup [format : {"csv"}, ends : {"lf", "cr"}, lines : Seq(CsvLines)]

Least(S) == CHOOSE i \in S : \A j \in S : i <= j

(* The first line from p on that is not blank; one past the end if all are. *)
Content(lines, p) ==
  Least({j \in p..Len(lines) : lines[j] # "blank"} \cup {Len(lines) + 1})

---------------------------------------------------------------------------
(* The row counts.                                                          *)

(* hash_and_count_rows, kept as the execution's input_row_count: line feeds, *)
(* and the header of a CSV taken off. Blank lines count.                    *)
hash_and_count_rows(file) ==
  LET newlines == IF file.ends = "lf" THEN Len(file.lines)
                  ELSE IF file.lines = <<>> THEN 0 ELSE 1
  IN  IF file.format = "jsonl" \/ newlines = 0 THEN newlines ELSE newlines - 1

(* count_input_rows, the total an attempt announces: a line that trimming     *)
(* leaves nothing of does not, be it a record or not.                       *)
count_input_rows(file) ==
  LET used  == {i \in DOMAIN file.lines : file.lines[i] \notin Whitespace}
      total == IF file.ends = "lf" \/ used = {} THEN Cardinality(used) ELSE 1
  IN  IF file.format = "jsonl" \/ total = 0 THEN total ELSE total - 1

---------------------------------------------------------------------------
(* An iterator: the next line to read, the number of the next row, and the  *)
(* first row of a JSONL file, which open has already read (0 if none).      *)

Opened(p, first) == [pos |-> p, seq |-> 0, first |-> first]
OpenFailed == [pos |-> 0, seq |-> 0, first |-> 0]

(* The last line of the record that begins at s.                            *)
RecordEnd(lines, s) ==
  IF lines[s] # "quote" THEN s
  ELSE Least({q \in (s + 1)..Len(lines) : lines[q] = "quote"} \cup {Len(lines)})

(* What has no required column, if it is the header of a CSV.                *)
NoHeader == {"keyless", "invalid", "spaces", "gap"}

(* CsvInputStream::open reads the header record and looks for the required   *)
(* column in it. An empty file has an empty header.                         *)
OpenCsv(lines) ==
  LET s == Content(lines, 1)
  IN  IF s > Len(lines) \/ (s <= Len(lines) /\ lines[s] \in NoHeader)
      THEN OpenFailed
      ELSE Opened(RecordEnd(lines, s) + 1, 0)

(* JsonlInputStream::open passes over leading blank lines, which get no      *)
(* number, and parses the first line with content.                          *)
OpenJsonl(lines) ==
  LET j == Content(lines, 1)
  IN  IF j > Len(lines) THEN Opened(j, 0)
      ELSE IF lines[j] = "row" THEN Opened(j + 1, j)
      ELSE OpenFailed

open_input(file) ==
  IF file.format = "csv" THEN OpenCsv(file.lines) ELSE OpenJsonl(file.lines)

(* What next returns: the row (its number and where it stands in the file),  *)
(* or an error that consumes a number, and the iterator after it.           *)
Item(kind, n, line, next) ==
  [kind |-> kind, seq |-> n, line |-> line, next |-> next]
End(it) == Item("end", 0, 0, it)

NextCsv(lines, it) ==
  LET s == Content(lines, it.pos)
  IN  IF s > Len(lines) THEN End(it)
      ELSE Item(IF lines[s] \in {"malformed", "invalid", "gap"} THEN "error" ELSE "row",
                it.seq, s,
                [it EXCEPT !.pos = RecordEnd(lines, s) + 1, !.seq = it.seq + 1])

(* The peeked row first. After it a blank line is passed over but numbered.  *)
NextJsonl(lines, it) ==
  LET j == Content(lines, it.pos)
      n == it.seq + (j - it.pos)
  IN  IF it.first # 0
      THEN Item("row", it.seq, it.first, [it EXCEPT !.first = 0, !.seq = it.seq + 1])
      ELSE IF j > Len(lines) THEN End(it)
      ELSE Item(IF lines[j] \in {"row", "keyless"} THEN "row" ELSE "error", n, j,
                [it EXCEPT !.pos = j + 1, !.seq = n + 1])

(* Mutant of yield_next: the number of a row is the line it stands on, which *)
(* is what the count of the execution would fit if it began at the first row. *)
NumberedByLine(file, it) ==
  LET item == IF file.format = "csv" THEN NextCsv(file.lines, it)
              ELSE NextJsonl(file.lines, it)
  IN  [item EXCEPT !.seq = item.line]

yield_next(file, it) ==
  IF file.format = "csv" THEN NextCsv(file.lines, it) ELSE NextJsonl(file.lines, it)

(* The iterators of a file read to its end: as opened, and after each call.  *)
Walk(file) ==
  LET after[i \in 0..Len(file.lines)] ==
        IF i = 0 THEN open_input(file) ELSE yield_next(file, after[i - 1]).next
  IN  after

=============================================================================
