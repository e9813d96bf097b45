--------------------------- MODULE TypesConverter ---------------------------
(***************************************************************************)
(* TypesConverter: the cells of a table as text and as the words of the    *)
(* board.  A word has eight digits to the base HexBase, and a character    *)
(* has two: the code has the base 16, so that a word has 32 bits.          *)
(*                                                                         *)
(* The text of a cell is known by what a parser makes of it: a number, a   *)
(* decimal in thousandths, a date, or else the codes of its characters,    *)
(* which begin no number.  A third decimal of 5 is left out, since the way *)
(* it rounds depends on the binary fraction.  char has no sign, as on the  *)
(* board's processor.                                                      *)
(***************************************************************************)
EXTENDS Integers, Sequences, SequencesExt

CONSTANTS
    HexBase,     \* the base of std::hex
    Quote,       \* the code of '"'
    Separator    \* the code of the character between two cells of a line

CharCount == HexBase * HexBase
CharsPerWord == 4
WordCount == CharCount * CharCount * CharCount * CharCount

(* The digits, and what else numbers and dates are written with.           *)
Zero == 3 * HexBase
Digit == Zero..(Zero + 9)
Hyphen == Zero - 3
Point == Zero - 2
NumberChar == Digit \cup {Hyphen, Point}

ASSUME CodesAssumption ==
    /\ HexBase \in Nat \ {0, 1}
    /\ Quote \in HexBase..(CharCount - 1) \ NumberChar
    /\ Separator \in HexBase..(CharCount - 1) \ (NumberChar \cup {Quote})

Word == 0..(WordCount - 1)
Char == 0..(CharCount - 1)

ColumnDataType == {"integer", "varchar", "null", "decimal", "date"}

Text(chars) == [text |-> chars]
Number(n) == [number |-> n]
Decimal(thousandths) == [thousandths |-> thousandths]
Date(year, month, day) == [date |-> <<year, month, day>>]
EmptyCell == Text(<<>>)

IsText(cell) == "text" \in DOMAIN cell
IsNumber(cell) == "number" \in DOMAIN cell
IsDecimal(cell) == "thousandths" \in DOMAIN cell

Zeros(n) == [k \in 1..n |-> 0]
(* Slip: a negative number stays one.                                      *)
AsWordSigned(n) == n

AsWord(n) == n % WordCount
AsSigned(word) == IF 2 * word >= WordCount THEN word - WordCount ELSE word
(* The range of std::stoi.                                                 *)
FitsInt(n) == -WordCount <= 2 * n /\ 2 * n < WordCount

(***************************************************************************)
(* The characters of a cell: a decimal has two digits after the point, or  *)
(* three if the last is not 0.                                             *)
(***************************************************************************)
Magnitude(n) == IF n < 0 THEN -n ELSE n

(* The last digits of a number.                                            *)
DigitsOf(n, count) == [k \in 1..count |-> Zero + ((n \div 10 ^ (count - k)) % 10)]
DigitCount(n) ==
    CHOOSE k \in 1..10 : n < 10 ^ k /\ (k = 1 \/ n >= 10 ^ (k - 1))

Sign(n) == IF n < 0 THEN <<Hyphen>> ELSE <<>>
Decimals(thousandths) ==
    IF thousandths % 10 = 0 THEN DigitsOf(thousandths \div 10, 2) ELSE DigitsOf(thousandths, 3)

Characters(cell) ==
    CASE IsText(cell) -> cell.text
      [] IsNumber(cell) ->
             LET n == Magnitude(cell.number)
             IN  Sign(cell.number) \o DigitsOf(n, DigitCount(n))
      [] IsDecimal(cell) ->
             LET n == Magnitude(cell.thousandths)
             IN  Sign(cell.thousandths) \o DigitsOf(n \div 1000, DigitCount(n \div 1000))
                 \o <<Point>> \o Decimals(n)
      [] OTHER -> DigitsOf(cell.date[1], 4) \o <<Hyphen>> \o DigitsOf(cell.date[2], 2)
                  \o <<Hyphen>> \o DigitsOf(cell.date[3], 2)

-----------------------------------------------------------------------------
(***************************************************************************)
(* ConvertCharStringToAscii: four characters to a word, the first one in   *)
(* the highest digits, without the quotes around them.                     *)
(***************************************************************************)
IsQuoted(chars) == chars # <<>> /\ chars[1] = Quote /\ Last(chars) = Quote

Unquoted(chars) == IF IsQuoted(chars) THEN SubSeq(chars, 2, Len(chars) - 1) ELSE chars

FitsText(chars, size) ==
    /\ chars # <<>>                             \* input_string.at(0)
    /\ chars # <<Quote>>                        \* its length less 2 is not small
    /\ Len(Unquoted(chars)) <= size * CharsPerWord

CharAt(chars, k) == IF k \in DOMAIN chars THEN chars[k] ELSE 0

(* Slip: the quotes count as characters.                                   *)
ConvertCharStringToAsciiQuoted(chars, size) ==
    [w \in 1..size |->
        LET At(k) == CharAt(chars, (w - 1) * CharsPerWord + k)
        IN  ((At(1) * CharCount + At(2)) * CharCount + At(3)) * CharCount + At(4)]

ConvertCharStringToAscii(chars, size) ==
    [w \in 1..size |->
        LET At(k) == CharAt(Unquoted(chars), (w - 1) * CharsPerWord + k)
        IN  ((At(1) * CharCount + At(2)) * CharCount + At(3)) * CharCount + At(4)]

(***************************************************************************)
(* ConvertStringValuesToString: each word that is not 0 is written with as *)
(* many digits as it needs, and ConvertHexStringToString takes the digits  *)
(* of all words two by two.                                                *)
(***************************************************************************)
HexDigits(word) ==
    LET Shifted(n) == word \div (HexBase ^ n)
        count == CHOOSE n \in 0..8 : Shifted(n) = 0 /\ \A k \in 0..(n - 1) : Shifted(k) # 0
    IN  [k \in 1..count |-> Shifted(count - k) % HexBase]

ConvertHexStringToString(digits) ==
    LET End(i) == IF 2 * i <= Len(digits) THEN 2 * i ELSE Len(digits)
        pairs == [i \in 1..((Len(digits) + 1) \div 2) |->
                     SubSeq(digits, 2 * i - 1, End(i))]
        Code(pair) == IF Len(pair) = 2 THEN pair[1] * HexBase + pair[2] ELSE pair[1]
        kept == SelectSeq(pairs, LAMBDA pair : pair # <<0, 0>>)
    IN  [i \in DOMAIN kept |-> Code(kept[i])]

ConvertStringValuesToString(words) ==
    ConvertHexStringToString(FlattenSeq([k \in DOMAIN words |-> HexDigits(words[k])]))

(***************************************************************************)
(* std::stoi reads as much of a cell as is an integer: a decimal up to its *)
(* point, a date up to its first hyphen.  ConvertDateValuesToIntegerData   *)
(* removes the hyphens first, those that are signs too.                    *)
(***************************************************************************)
DateNumber(date) == date[1] * 10000 + date[2] * 100 + date[3]

(* A decimal without its fraction; \div rounds down.                       *)
IntegerPart(thousandths) ==
    IF thousandths < 0 THEN -(-thousandths \div 1000) ELSE thousandths \div 1000

LeadingInteger(cell) ==
    CASE IsNumber(cell) -> cell.number
      [] IsDecimal(cell) -> IntegerPart(cell.thousandths)
      [] OTHER -> cell.date[1]

WithoutHyphens(cell) ==
    IF IsNumber(cell) \/ IsDecimal(cell) THEN Magnitude(LeadingInteger(cell))
                                         ELSE DateNumber(cell.date)

(***************************************************************************)
(* ConvertDecimalValuesToIntegerData: what std::stod reads of the cell, in *)
(* hundredths, as two words, the signed high one first.                    *)
(***************************************************************************)
Rounded(thousandths) ==
    IF thousandths >= 0 THEN (thousandths + 5) \div 10 ELSE -((5 - thousandths) \div 10)

Hundredths(cell) ==
    IF IsDecimal(cell) THEN Rounded(cell.thousandths) ELSE 100 * LeadingInteger(cell)

ConvertDecimalValuesToIntegerData(cell) ==
    <<AsWord(Hundredths(cell) \div WordCount), AsWord(Hundredths(cell))>>

ConvertDecimalValuesToString(words) ==
    Decimal(10 * (AsSigned(words[1]) * WordCount + words[2]))

(***************************************************************************)
(* ConvertDateValuesToString: hyphens after four and six of eight digits.  *)
(* A word with more digits than that is left out.                          *)
(***************************************************************************)
(* Slip: day and month exchanged.                                          *)
ConvertDateValuesToStringSwapped(words) ==
    Date(words[1] \div 10000, words[1] % 100, (words[1] \div 100) % 100)

ConvertDateValuesToString(words) ==
    Date(words[1] \div 10000, (words[1] \div 100) % 100, words[1] % 100)

-----------------------------------------------------------------------------
(***************************************************************************)
(* ConvertDataToIntegers: whether it returns, and what it appends.         *)
(***************************************************************************)
CanConvert(column, cell) ==
    CASE column.type = "integer" -> ~IsText(cell) /\ FitsInt(LeadingInteger(cell))
      [] column.type = "varchar" -> FitsText(Characters(cell), column.size)
      [] column.type = "null" -> TRUE
      [] column.type = "decimal" -> ~IsText(cell)
      [] column.type = "date" -> ~IsText(cell) /\ FitsInt(WithoutHyphens(cell))

ConvertDataToIntegers(column, cell) ==
    CASE column.type = "integer" -> <<AsWord(LeadingInteger(cell))>>
      [] column.type = "varchar" -> ConvertCharStringToAscii(Characters(cell), column.size)
      [] column.type = "null" -> Zeros(column.size)
      [] column.type = "decimal" -> ConvertDecimalValuesToIntegerData(cell)
      [] column.type = "date" -> <<WithoutHyphens(cell)>>

(***************************************************************************)
(* ConvertDataToString.  An integer is printed without a sign.             *)
(***************************************************************************)
ConvertDataToString(column, words) ==
    CASE column.type = "integer" -> Number(words[1])
      [] column.type = "varchar" -> Text(ConvertStringValuesToString(words))
      [] column.type = "null" -> EmptyCell
      [] column.type = "decimal" -> ConvertDecimalValuesToString(words)
      [] column.type = "date" -> ConvertDateValuesToString(words)

(***************************************************************************)
(* ConvertRecordStringToIntegers: the cells are converted in their order,  *)
(* so that one that cannot be is met before one that has no column, whose  *)
(* type is read past the end of a vector.                                  *)
(***************************************************************************)
ConvertRecordError(columns, row) ==
    IF \E c \in DOMAIN row \cap DOMAIN columns : ~CanConvert(columns[c], row[c])
    THEN "cannot convert"
    ELSE IF Len(row) > Len(columns) THEN "undefined: column"
    ELSE "none"

ConvertRecordStringToIntegers(columns, row) ==
    FlattenSeq([c \in DOMAIN row |-> ConvertDataToIntegers(columns[c], row[c])])

(***************************************************************************)
(* AddStringDataFromIntegerData: the words are dealt out to the columns;   *)
(* those of a last record that is not complete are dropped.                *)
(***************************************************************************)
RecordSize(columns) == FoldLeft(LAMBDA sum, column : sum + column.size, 0, columns)

ColumnStart(columns, c) == RecordSize(SubSeq(columns, 1, c - 1))

AddStringDataFromIntegerData(columns, words) ==
    LET Elements(r, c) ==
            LET start == (r - 1) * RecordSize(columns) + ColumnStart(columns, c)
            IN  SubSeq(words, start + 1, start + columns[c].size)
    IN  [r \in 1..(Len(words) \div RecordSize(columns)) |->
            [c \in DOMAIN columns |-> ConvertDataToString(columns[c], Elements(r, c))]]
=============================================================================
