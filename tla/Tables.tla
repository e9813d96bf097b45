------------------------------- MODULE Tables -------------------------------
(***************************************************************************)
(* The way of one table through the program: CSVReader reads it from a     *)
(* file into a memory block row by row, the board hands it on, and its     *)
(* records are either compared with those of an expected file or written   *)
(* to a result file, which is read again when a later run or a later query *)
(* needs it.                                                               *)
(*                                                                         *)
(* A file is its lines and the way they end.  A line is the cells that its *)
(* author put there, each followed by a separator or the end of the line;  *)
(* the text of a cell may itself have separators.                          *)
(***************************************************************************)
EXTENDS TypesConverter, FiniteSets, FiniteSetsExt

CONSTANTS
    Cases,        \* the column specifications and files to start with
    BlockSize,    \* words in a memory block
    MaxRows,      \* the rows that ReadTableData reads: 2 000 000 in the code
    MaxRounds     \* how often the written file is read again

ASSUME SizesAssumption ==
    /\ BlockSize \in Nat \ {0}
    /\ MaxRows \in Nat \ {0}
    /\ MaxRounds \in Nat

VARIABLES
    specification,  \* type and size of each column, as the plan gives them
    files,          \* the files that exist: "table", "expected", "result"
    input,          \* the file that is read next
    block,          \* the words of the memory block
    row_counter,    \* the lines that were read into it
    result,         \* the records last taken from a block to be written
    verdict,        \* whether the records were found to be the expected ones
    round,          \* how many result files were written
    step, error

vars == <<specification, files, input, block, row_counter, result, verdict,
          round, step, error>>

File == [rows : Seq(Seq([text : Seq(Char)] \cup [number : Int] \cup
                        [thousandths : Int] \cup [date : Seq(Nat)])),
         crlf : BOOLEAN]

IsCase(case) ==
    /\ case.specification \in Seq([type : ColumnDataType, size : Nat \ {0}])
    /\ case.specification # <<>>
    /\ DOMAIN case.files \subseteq {"table", "expected"}
    /\ \A name \in DOMAIN case.files :
          /\ case.files[name] \in File
          /\ \A line \in ToSet(case.files[name].rows) : \A cell \in ToSet(line) :
                IsText(cell) => ToSet(cell.text) \cap NumberChar = {}

ASSUME CasesAssumption == \A case \in Cases : IsCase(case)

-----------------------------------------------------------------------------
(***************************************************************************)
(* GetHeaderColumnVector: the words of each column, with the factors of    *)
(* data_type_sizes.json, in quarters of a word.                            *)
(***************************************************************************)
DataTypeQuarters(type) ==
    CASE type = "varchar" -> 1
      [] type = "decimal" -> 8
      [] OTHER -> 4

IsSizeSupported(spec) ==
    \A c \in DOMAIN spec : (DataTypeQuarters(spec[c].type) * spec[c].size) % 4 = 0

GetHeaderColumnVector(spec) ==
    [c \in DOMAIN spec |->
        [type |-> spec[c].type,
         size |-> (DataTypeQuarters(spec[c].type) * spec[c].size) \div 4]]

columns == GetHeaderColumnVector(specification)

-----------------------------------------------------------------------------
(***************************************************************************)
(* Reading a line: getline cuts it at every separator, within quotes too,  *)
(* and returns nothing for an empty rest.  The CR of a line that ends with *)
(* CR and LF belongs to the last token, and is cut off afterwards.         *)
(***************************************************************************)
SplitText(chars) ==
    LET cuts == {k \in DOMAIN chars : chars[k] = Separator}
        Piece(from, to) == Text(SubSeq(chars, from + 1, to - 1))
        starts == SetToSortSeq({0} \cup cuts, <)
        End(from) == Min({k \in cuts : k > from} \cup {Len(chars) + 1})
    IN  [k \in DOMAIN starts |-> Piece(starts[k], End(starts[k]))]

Tokens(row, crlf) ==
    LET pieces == FlattenSeq([c \in DOMAIN row |->
                      IF IsText(row[c]) THEN SplitText(row[c].text) ELSE <<row[c]>>])
        all == IF row = <<>> THEN <<EmptyCell>> ELSE pieces
    IN  IF ~crlf /\ Last(all) = EmptyCell THEN Front(all) ELSE all

TokenRows(file) == [r \in DOMAIN file.rows |-> Tokens(file.rows[r], file.crlf)]

(***************************************************************************)
(* The bytes of a file.                                                    *)
(***************************************************************************)
TextSize(cell) == Len(Characters(cell))

LineSize(row, crlf) ==
    FoldLeft(LAMBDA sum, cell : sum + TextSize(cell) + 1,
             IF crlf THEN 1 ELSE 0, row)

FileSize(file) ==
    FoldLeft(LAMBDA sum, row : sum + LineSize(row, file.crlf), 0, file.rows)

(***************************************************************************)
(* IsMemoryLargeEnough compares the text with the block.                   *)
(***************************************************************************)
IsMemoryLargeEnough(file) == FileSize(file) <= 4 * BlockSize

-----------------------------------------------------------------------------
Init ==
    \E case \in Cases :
        /\ specification = case.specification
        /\ files = case.files
        /\ input = "table"
        /\ block = Zeros(BlockSize)
        /\ row_counter = 0
        /\ result = <<>>
        /\ verdict = "none"
        /\ round = 0
        /\ step = "stored"
        /\ error = "none"

Stop(reason) ==
    /\ step' = "stopped"
    /\ error' = reason

tokens == TokenRows(files[input])

(***************************************************************************)
(* TableManager::WriteDataToMemory up to its loop: the exceptions in their *)
(* order, or else a block that holds whatever was in it.                   *)
(***************************************************************************)
OpenError ==
    CASE ~IsSizeSupported(specification) -> "size is not supported"
      [] input \notin DOMAIN files -> "not found"
      [] ~IsMemoryLargeEnough(files[input]) -> "too big"
      [] OTHER -> "none"

FailToOpen ==
    /\ step = "stored"
    /\ OpenError # "none"
    /\ Stop(OpenError)
    /\ UNCHANGED <<specification, files, input, block, row_counter, result,
                   verdict, round>>

OpenTable ==
    /\ step = "stored"
    /\ OpenError = "none"
    /\ step' = "loading"
    /\ row_counter' = 0
    /\ \E stale \in {0, 1} : block' = [k \in 1..BlockSize |-> stale]
    /\ UNCHANGED <<specification, files, input, result, verdict, round, error>>

(***************************************************************************)
(* One iteration of the loop.  A row of more cells than there are columns  *)
(* reads past the column types, and one that ends outside the block writes *)
(* there; what the program does then is not defined, and the model ends.   *)
(***************************************************************************)
row == tokens[row_counter + 1]
words == ConvertRecordStringToIntegers(columns, row)

(* Slip: a row starts where one of its own length would.                   *)
RowStartOfOwn == row_counter * Len(words)

RowStart == row_counter * RecordSize(columns)

HasRow == step = "loading" /\ row_counter < Len(tokens)

LoadRow ==
    /\ HasRow
    /\ ConvertRecordError(columns, row) = "none"
    /\ RowStart + Len(words) <= BlockSize
    /\ block' = [k \in 1..BlockSize |->
                    IF k - RowStart \in DOMAIN words THEN words[k - RowStart]
                    ELSE block[k]]
    /\ row_counter' = row_counter + 1
    /\ UNCHANGED <<specification, files, input, result, verdict, round, step, error>>

FailToLoadRow ==
    /\ HasRow
    /\ \/ /\ ConvertRecordError(columns, row) # "none"
          /\ Stop(ConvertRecordError(columns, row))
       \/ /\ ConvertRecordError(columns, row) = "none"
          /\ RowStart + Len(words) > BlockSize
          /\ Stop("undefined: address")
    /\ UNCHANGED <<specification, files, input, block, row_counter, result,
                   verdict, round>>

FinishLoading ==
    /\ step = "loading"
    /\ row_counter = Len(tokens)
    /\ step' = "loaded"
    /\ UNCHANGED <<specification, files, input, block, row_counter, result,
                   verdict, round, error>>

-----------------------------------------------------------------------------
(***************************************************************************)
(* ReadTableFromMemory: as many records as there were rows.                *)
(***************************************************************************)
IsTableInside == row_counter * RecordSize(columns) <= BlockSize

ReadTableFromMemory == SubSeq(block, 1, row_counter * RecordSize(columns))

(***************************************************************************)
(* ReadTableFromFile: the words of the first MaxRows rows one after the    *)
(* other, and none if there is no such file.                               *)
(***************************************************************************)
ExpectedRows ==
    IF "expected" \notin DOMAIN files THEN <<>>
    ELSE LET all == TokenRows(files["expected"])
         IN  SubSeq(all, 1, IF Len(all) < MaxRows THEN Len(all) ELSE MaxRows)

(* Slip: one row less than there are.                                      *)
ReadTableFromFileButLast ==
    FlattenSeq([r \in 1..(Len(ExpectedRows) - 1) |->
        ConvertRecordStringToIntegers(columns, ExpectedRows[r])])

ReadTableFromFile ==
    FlattenSeq([r \in DOMAIN ExpectedRows |->
        ConvertRecordStringToIntegers(columns, ExpectedRows[r])])

(***************************************************************************)
(* CheckResults.                                                           *)
(***************************************************************************)
UnreadableRows ==
    {r \in DOMAIN ExpectedRows : ConvertRecordError(columns, ExpectedRows[r]) # "none"}

CheckError ==
    IF UnreadableRows = {} THEN "none"
    ELSE ConvertRecordError(columns, ExpectedRows[Min(UnreadableRows)])

CheckResults ==
    /\ step = "loaded"
    /\ CheckError = "none"
    /\ IsTableInside
    /\ step' = "checked"
    /\ verdict' = IF ReadTableFromFile = ReadTableFromMemory THEN "correct" ELSE "incorrect"
    /\ UNCHANGED <<specification, files, input, block, row_counter, result, round, error>>

FailToCheck ==
    /\ step = "loaded"
    /\ CheckError # "none"
    /\ Stop(CheckError)
    /\ UNCHANGED <<specification, files, input, block, row_counter, result,
                   verdict, round>>

(***************************************************************************)
(* WriteResults: the file has a line for each record, with all columns.    *)
(***************************************************************************)
WriteResults ==
    /\ step = "loaded"
    /\ round < MaxRounds
    /\ IsTableInside
    /\ step' = "stored"
    /\ result' = ReadTableFromMemory
    /\ files' = [name \in DOMAIN files \cup {"result"} |->
                    IF name = "result"
                    THEN [rows |-> AddStringDataFromIntegerData(columns, ReadTableFromMemory),
                          crlf |-> FALSE]
                    ELSE files[name]]
    /\ input' = "result"
    /\ round' = round + 1
    /\ UNCHANGED <<specification, block, row_counter, verdict, error>>

(***************************************************************************)
(* Both read the table from the block, which a last row that is too short  *)
(* to leave it does not fill.                                              *)
(***************************************************************************)
FailToReadTable ==
    /\ step = "loaded"
    /\ ~IsTableInside
    /\ Stop("undefined: address")
    /\ UNCHANGED <<specification, files, input, block, row_counter, result,
                   verdict, round>>

Next ==
    \/ FailToOpen
    \/ OpenTable
    \/ LoadRow
    \/ FailToLoadRow
    \/ FinishLoading
    \/ CheckResults
    \/ FailToCheck
    \/ WriteResults
    \/ FailToReadTable

Spec == Init /\ [][Next]_vars

-----------------------------------------------------------------------------
(***************************************************************************)
(* What a file says, by docs/table_data.md: a text within quotes is one    *)
(* cell, any other is cut at its separators; and what a cell says for its  *)
(* column, whatever words it is stored as.                                 *)
(***************************************************************************)
DocumentedCells(line) ==
    IF line = <<>> THEN <<EmptyCell>>
    ELSE FlattenSeq([c \in DOMAIN line |->
             IF IsText(line[c]) /\ ~IsQuoted(line[c].text) THEN SplitText(line[c].text)
                                                         ELSE <<line[c]>>])

Canonical(column, cell) ==
    CASE column.type = "integer" -> Number(LeadingInteger(cell))
      [] column.type = "varchar" -> Text(Unquoted(Characters(cell)))
      [] column.type = "null" -> EmptyCell
      [] column.type = "decimal" -> Decimal(10 * Hundredths(cell))
      [] column.type = "date" -> ConvertDateValuesToString(<<WithoutHyphens(cell)>>)

CanonicalRows(file) ==
    [r \in DOMAIN file.rows |->
        [c \in DOMAIN columns |-> Canonical(columns[c], DocumentedCells(file.rows[r])[c])]]

(* Every line has a cell for each column, and every cell can be read.      *)
IsComplete(file) ==
    \A r \in DOMAIN file.rows :
        /\ Len(DocumentedCells(file.rows[r])) = Len(columns)
        /\ ConvertRecordError(columns, DocumentedCells(file.rows[r])) = "none"

(* The two ways of writing a complete line that are read as another one: a *)
(* separator within quotes, and an empty cell at the end, which getline    *)
(* does not return unless a CR follows.                                    *)
NoQuotedSeparator(file) ==
    \A r \in DOMAIN file.rows : \A c \in DOMAIN file.rows[r] :
        LET cell == file.rows[r][c]
        IN  IsText(cell) /\ IsQuoted(cell.text) => Separator \notin ToSet(cell.text)
NoEmptyLastCell(file) ==
    file.crlf \/ \A r \in DOMAIN file.rows : Last(DocumentedCells(file.rows[r])) # EmptyCell

(* A column of integers, dates or decimals for more than one value has room*)
(* that no cell fills.                                                     *)
ColumnsFilled ==
    \A c \in DOMAIN columns :
        columns[c].size =
            CASE columns[c].type \in {"varchar", "null"} -> columns[c].size
              [] columns[c].type = "decimal" -> 2
              [] OTHER -> 1

(* The first of four characters has two digits: it is no control character.*)
IsPrintable(chars) ==
    \A k \in DOMAIN chars : (k - 1) % CharsPerWord = 0 => chars[k] >= HexBase

TextsPrintable(file) ==
    \A r \in DOMAIN file.rows, c \in DOMAIN columns :
        columns[c].type = "varchar" => IsPrintable(CanonicalRows(file)[r][c].text)

NoneNegative(file) ==
    \A r \in DOMAIN file.rows, c \in DOMAIN columns :
        columns[c].type = "integer" => CanonicalRows(file)[r][c].number >= 0

(* No text is cut, or loses quotes, when it is read.                       *)
TextsUncut(rows) ==
    \A r \in DOMAIN rows : \A c \in DOMAIN rows[r] :
        IsText(rows[r][c]) => /\ Separator \notin ToSet(rows[r][c].text)
                              /\ ~IsQuoted(rows[r][c].text)

-----------------------------------------------------------------------------
(***************************************************************************)
(* Every variable keeps its type, and a row that was read lies in the      *)
(* block.                                                                  *)
(***************************************************************************)
TypeOK ==
    /\ specification \in Seq([type : ColumnDataType, size : Nat \ {0}])
    /\ DOMAIN files \subseteq {"table", "expected", "result"}
    /\ \A name \in DOMAIN files : files[name] \in File
    /\ input \in {"table", "result"}
    /\ block \in [1..BlockSize -> Word]
    /\ row_counter \in Nat
    /\ result \in Seq(Word)
    /\ verdict \in {"none", "correct", "incorrect"}
    /\ round \in 0..MaxRounds
    /\ step \in {"stored", "loading", "loaded", "checked", "stopped"}
    /\ error \in {"none", "size is not supported", "not found", "too big",
                  "cannot convert", "undefined: column", "undefined: address"}
    /\ error # "none" <=> step = "stopped"

(***************************************************************************)
(* A complete row is in its own place in the block, whatever rows were     *)
(* read before and after it: a shorter or longer row does not shift the    *)
(* others (WriteTableFromFileToMemory, csv_reader.cpp).                    *)
(***************************************************************************)
RowsInPlace ==
    step \in {"loading", "loaded"} =>
        \A r \in 1..row_counter : \A k \in DOMAIN ConvertRecordStringToIntegers(columns, tokens[r]) :
            block[(r - 1) * RecordSize(columns) + k] =
                ConvertRecordStringToIntegers(columns, tokens[r])[k]

(***************************************************************************)
(* A complete table comes back from the board with the cells that its file *)
(* had: texts without their quotes, decimals rounded to two places, of a   *)
(* number in a column of another type what is read of it.  Not so negative *)
(* integers, which are printed without a sign, texts with control          *)
(* characters, and quoted separators (WriteTableData, types_converter.cpp).*)
(***************************************************************************)
StoredAsWritten ==
    /\ step = "stored" /\ round = 1
    /\ ColumnsFilled
    /\ IsComplete(files["table"])
    /\ NoQuotedSeparator(files["table"])
    /\ TextsPrintable(files["table"])
    /\ NoneNegative(files["table"])
    => files["result"].rows = CanonicalRows(files["table"])

(***************************************************************************)
(* A table that the program wrote can be read again and gives the records  *)
(* it was written from.  What may fail is an integer above the range of    *)
(* stoi, an empty text, which cannot be parsed, a text that has a          *)
(* separator or quotes, a null at the end of a line, which getline does    *)
(* not see, and a table for which the block is too small.                  *)
(***************************************************************************)
ResultsReadBack ==
    LET written == files["result"].rows
        IsLineEnd(c) == c = Len(columns)
        IsReadable ==
            /\ IsComplete(files["table"])
            /\ NoQuotedSeparator(files["table"])
            /\ TextsPrintable(files["table"])
            /\ TextsUncut(written)
            /\ \A r \in DOMAIN written, c \in DOMAIN columns :
                   /\ columns[c].type = "integer" => FitsInt(written[r][c].number)
                   /\ columns[c].type = "varchar" => written[r][c].text # <<>>
                   /\ IsLineEnd(c) => columns[c].type # "null"
    IN  (round = 1 /\ ColumnsFilled /\ IsReadable) =>
            /\ step = "loaded" => ReadTableFromMemory = result
            /\ (step = "stopped" /\ row_counter < Len(tokens)) => error = "too big"

(***************************************************************************)
(* The comparison says "correct" just if the files had the same cells, when*)
(* both are complete, neither has quoted separators or empty cells at the  *)
(* end of a line, and the expected one is not longer than the program      *)
(* reads, however the two write their texts, decimals and line ends        *)
(* (CheckResults, query_manager.cpp).                                      *)
(***************************************************************************)
IsPlain(file) == IsComplete(file) /\ NoQuotedSeparator(file) /\ NoEmptyLastCell(file)

VerdictRight ==
    /\ step = "checked"
    /\ ColumnsFilled
    /\ IsPlain(files["table"])
    /\ TextsPrintable(files["table"])
    /\ round > 0 => /\ NoneNegative(files["table"])
                    /\ TextsUncut(files["result"].rows)
                    /\ IsPlain(files["result"])
    /\ "expected" \in DOMAIN files
    /\ IsPlain(files["expected"])
    /\ Len(files["expected"].rows) <= MaxRows
    => (verdict = "correct" <=>
            CanonicalRows(files["table"]) = CanonicalRows(files["expected"]))

-----------------------------------------------------------------------------
(***************************************************************************)
(* What the documentation says and the code does not do.                   *)
(***************************************************************************)

(* A complete table that the program accepts is stored as it is.  It fits, *)
(* as csv_reader.hpp:30 says of the check that IsMemoryLargeEnough makes:  *)
(* no row is written past the block.  And a row that was read holds the    *)
(* cells of its line, those with separators included, for which quotes     *)
(* "are needed if the string has a comma" (docs/table_data.md:36).         *)
RowsFit == error # "undefined: address"
RowsHoldCells ==
    \A r \in 1..row_counter :
        LET stored == ConvertRecordStringToIntegers(columns, DocumentedCells(files[input].rows[r]))
        IN  \A k \in DOMAIN stored : block[(r - 1) * RecordSize(columns) + k] = stored[k]
AcceptedTablesStored ==
    /\ step \in {"loaded", "stopped"} /\ round = 0
    /\ input \in DOMAIN files
    /\ ColumnsFilled
    /\ IsComplete(files[input])
    => RowsFit /\ RowsHoldCells
=============================================================================
