------------------------------ MODULE MCTables ------------------------------
EXTENDS Tables

(* Characters: letters of two digits, a tab of one digit, and the two that *)
(* mean something to the parser.                                           *)
A == 4 * HexBase + 2
B == 5 * HexBase
Tab == 1
CharsUsed == {A, B, Tab, Quote, Separator}

Lines(rows) == [rows |-> rows, crlf |-> FALSE]
DOSLines(rows) == [rows |-> rows, crlf |-> TRUE]

Column(type, size) == [type |-> type, size |-> size]
Only(table) == ("table" :> table)
Checked(table, expected) == ("table" :> table) @@ ("expected" :> expected)
Case(spec, fs) == [specification |-> spec, files |-> fs]

(* Every text of a few characters in a column of two words, alone and      *)
(* before other columns.                                                   *)
ShortTexts == UNION {[1..n -> CharsUsed] : n \in 0..3}
LongTexts == {[k \in 1..n |-> IF k = special THEN char ELSE IF k % 2 = 0 THEN A ELSE B] :
                  n \in {4, 7, 8, 9}, special \in 4..5, char \in CharsUsed}
Quoted(chars) == <<Quote>> \o chars \o <<Quote>>
Texts == ShortTexts \cup LongTexts \cup {Quoted(chars) : chars \in LongTexts}

TextCases ==
    {Case(<<Column("varchar", 8)>>, Only(Lines(<<<<Text(chars)>>, <<Text(<<A>>)>>>>))) :
        chars \in Texts}
    \cup
    {Case(<<Column("varchar", 8), Column("integer", 1)>>,
          Only(Lines(<<<<Text(chars), Number(3)>>>>))) : chars \in Texts}
    \cup
    {Case(<<Column("varchar", 8), Column("null", 1)>>,
          Only(Lines(<<<<Text(chars), EmptyCell>>, <<Text(<<A>>), Text(<<B>>)>>>>))) :
        chars \in Texts}

(* Numbers at the ends of their ranges, and sizes that are not supported or*)
(* not filled.                                                             *)
Half == WordCount \div 2
Numbers == {-Half - 1, -Half, -1, 0, 1, 99, 100, Half - 1, Half, WordCount - 1}
Thousandths == {-WordCount * 10, -1239, -1231, -10, -4, 0, 4, 6, 1231, 1239, WordCount * 10 + 10}
Dates == {<<0, 1, 1>>, <<99, 12, 31>>, <<100, 10, 9>>, <<838, 12, 31>>, <<840, 1, 1>>}
NumberCases ==
    {Case(<<Column("integer", 1), Column("decimal", 1)>>,
          Only(Lines(<<<<Number(n), Decimal(4321)>>, <<Number(7), Decimal(t)>>>>))) :
        n \in Numbers, t \in Thousandths}
    \cup
    {Case(<<Column("integer", size), Column("varchar", chars)>>,
          Only(Lines(<<<<Number(n), Text(<<A, B>>)>>>>))) :
        size \in {1, 2}, chars \in {2, 4}, n \in Numbers}
    \cup
    {Case(<<Column("date", size), Column("integer", 1)>>,
          Only(Lines(<<<<Date(d[1], d[2], d[3]), Number(1)>>>>))) :
        size \in {1, 2}, d \in Dates}

(* Tables of integers and nulls with short and long rows, and two line     *)
(* ends, next to expected ones.                                            *)
IntegerRows == {<<Number(1), Number(2)>>, <<Number(3), Number(4)>>}
Rows == IntegerRows \cup {<<>>, <<Number(5)>>, <<Number(6), EmptyCell>>,
                          <<EmptyCell, Number(8)>>, <<Number(1), Number(2), Number(3)>>}
Tables(n, rows) == UNION {[1..k -> rows] : k \in 0..n}
IntegerCases ==
    {Case(<<Column("integer", 1), Column(type, 1)>>, Checked(table, expected)) :
        type \in {"integer", "null"},
        table \in {Lines(rows) : rows \in Tables(2, Rows)}
                  \cup {DOSLines(rows) : rows \in Tables(1, Rows)},
        expected \in {Lines(rows) : rows \in Tables(1, Rows) \cup Tables(2, IntegerRows)}
                     \cup {DOSLines(rows) : rows \in Tables(1, Rows)}}
    \cup
    {Case(<<Column("integer", 1), Column("integer", 1)>>, Checked(table, expected)) :
        table, expected \in {Lines(rows) : rows \in Tables(4, IntegerRows)}}

(* The same data written in two ways.                                      *)
VariantCases ==
    {Case(<<Column("varchar", 4), Column("decimal", 1), Column("null", 1), Column("integer", 1)>>,
          Checked(Lines(<<<<Text(t), Decimal(d), EmptyCell, Number(n)>>>>),
                  DOSLines(<<<<Text(u), Decimal(1230), Text(<<A>>), Number(1)>>>>))) :
        t \in {<<A, B>>, Quoted(<<A, B>>), <<B, A>>, <<Tab, A>>},
        u \in {<<A, B>>, Quoted(<<A, B>>), <<A, B, A>>, <<Tab, A>>},
        d \in {1230, 1226, 1234, 1236}, n \in {1, -1}}

MissingCases ==
    {Case(<<Column("integer", 1)>>, Only(Lines(<<>>))),
     Case(<<Column("integer", 1)>>, [name \in {} |-> 0]),
     Case([c \in 1..5 |-> Column("integer", 1)],
          Only(Lines(<<[c \in 1..5 |-> Number(c)], [c \in 1..5 |-> Number(c)],
                       <<Number(1), Number(2)>>>>))),
     Case(<<Column("integer", 1)>>, Only(Lines([r \in 1..12 |-> <<Number(10 ^ (r \div 2))>>])))}

(* A cell of every kind in a column of every type.                         *)
Kinds == {Number(0), Number(-12), Number(837), Decimal(-1990), Decimal(1999), Decimal(20),
          Date(20, 12, 31), Date(0, 1, 1), Text(<<A>>), EmptyCell}
MixedCases ==
    {Case(<<Column(type, size), Column("integer", 1)>>,
          Checked(Lines(<<<<cell, Number(1)>>>>), Lines(<<<<other, Number(1)>>>>))) :
        <<type, size>> \in {<<"integer", 1>>, <<"varchar", 12>>, <<"null", 1>>,
                            <<"decimal", 1>>, <<"date", 1>>},
        cell, other \in Kinds}

(* Rows with a cell too many, which an unreadable cell comes before, in    *)
(* the table or in the expected one.                                       *)
UnreadableRow == <<Text(<<A>>), Number(1)>>
LongRow == <<Number(1), Number(2)>>
UnreadableCases ==
    {Case(<<Column("integer", 1)>>, Only(Lines(<<UnreadableRow>>))),
     Case(<<Column("integer", 1)>>, Checked(Lines(<<<<Number(1)>>>>), Lines(<<LongRow, UnreadableRow>>))),
     Case(<<Column("integer", 1)>>, Checked(Lines(<<<<Number(1)>>>>), Lines(<<UnreadableRow, LongRow>>)))}

SmallCases ==
    TextCases \cup NumberCases \cup IntegerCases \cup VariantCases \cup MissingCases
    \cup MixedCases \cup UnreadableCases

(* Six rows of a text with a separator, which is quoted, and of a column   *)
(* without a meaning: less text than the block has bytes, more words.      *)
DocumentedCases ==
    {Case(<<Column("varchar", 8), Column("null", 1)>>,
          Only(Lines([r \in 1..6 |-> <<Text(Quoted(<<A, Separator, B>>)), EmptyCell>>])))}
=============================================================================
