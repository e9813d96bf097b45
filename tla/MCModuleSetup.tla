--------------------------- MODULE MCModuleSetup ---------------------------
EXTENDS ModuleSetup

In(id, size) == [id |-> id, size |-> size]
Node(operation, location, inputs, chunks, parameters) ==
    [operation |-> operation, location |-> location, inputs |-> inputs,
     output |-> [id |-> 1, chunks |-> chunks], parameters |-> parameters]
Run(bitstream, nodes) == [bitstream |-> bitstream, nodes |-> nodes]

(* Two runs of one node, with the bitstream kept or changed in between.    *)
Pairs(nodes) ==
    {<<Run("A", <<first>>), Run(bitstream, <<second>>)>> :
        first, second \in nodes, bitstream \in {"A", "B"}}

(* Records with two words that are not 1.                                  *)
FewRecords ==
    {[place \in Places |-> IF place = p THEN v ELSE IF place = q THEN w ELSE 1] :
        p, q \in Places, v, w \in {0, 2}}

(***************************************************************************)
(* Filters, with their parameters laid out as filter_setup.hpp describes.  *)
(***************************************************************************)
Comparison(compare_function, values, literals, clauses) ==
    <<<<compare_function>>, values, literals, clauses>>
Column(chunk, position, comparisons) ==
    <<<<chunk, position, Len(comparisons)>>>> \o FlattenSeq(comparisons)
Filter(columns) == Node("kFilter", 1, <<In(0, 4)>>, 2, FlattenSeq(columns))

OneWord == {Comparison(f, <<1>>, literals[1], literals[2]) :
               f \in {0, 5},
               literals \in {<<<<>>, <<0>>>>, <<<<2>>, <<1>>>>, <<<<1, 2>>, <<0, 1>>>>, <<<<0, 1>>, <<1, 0>>>>}}
TwoWords == {Comparison(2, <<1, v>>, <<>>, clauses) : v \in {0, 1}, clauses \in {<<1>>, <<1, 0>>}}
Columns ==
    {Column(chunk, position, <<c>>) :
        chunk \in Chunks, position \in Positions, c \in OneWord}
    \cup {Column(0, position, <<c, d>>) : position \in Positions, c, d \in OneWord}
    \cup {Column(0, position, <<c>>) : position \in Positions, c \in TwoWords}
    \cup {Column(0, 0, <<c, d>>) : c, d \in TwoWords}
FewColumns == {Column(0, 1, <<Comparison(0, <<1>>, <<1, 2>>, <<0, 1>>), Comparison(2, <<0>>, <<>>, <<1>>)>>),
               Column(0, 2, <<Comparison(2, <<1, 0, 2>>, <<>>, <<0>>)>>),
               Column(1, 1, <<Comparison(5, <<0>>, <<>>, <<1>>)>>)}
Overlapping == Column(0, 0, <<Comparison(0, <<0>>, <<2>>, <<0>>)>>)
Filters == {Filter(<<column>>) : column \in Columns}
           \cup {Filter(<<column, Column(1, 0, <<c>>)>>) : column \in FewColumns, c \in OneWord}
           \cup {Filter(<<FewColumn, Overlapping>>) : FewColumn \in FewColumns}
BadFilters ==
    {Filter(<<>>), Filter(<<<<<<>>>>>>), Filter(<<<<<<0, 1>>>>>>), Filter(<<<<<<0, 1, 1>>, <<0>>, <<1>>>>>>),
     Filter(<<Column(0, 1, <<Comparison(0, <<1>>, <<>>, <<>>)>>)>>),
     Filter(<<Column(0, 1, <<Comparison(0, <<1>>, <<1>>, <<0, 1>>)>>)>>)}

FilterSessions ==
    {<<Run("A", <<first>>), Run(bitstream, <<second>>)>> :
        first \in {Filter(<<column>>) : column \in FewColumns},
        second \in Filters \cup BadFilters, bitstream \in {"A", "B"}}
    \cup Pairs({Filter(<<column>>) : column \in FewColumns})

(***************************************************************************)
(* Joins, sorters and arithmetic.                                          *)
(***************************************************************************)
Joins == {Node("kJoin", 2, <<In(0, first), In(2, second)>>,
               CalculateChunksPerRecord(first + second), <<<<shift>>>>) :
             first \in 1..9, second \in 1..7, shift \in 0..3}
JoinSessions == {<<Run("A", <<join>>)>> : join \in Joins}
                \cup Pairs({join \in Joins : join.inputs[1].size \in {2, 5} /\ join.inputs[2].size \in {3, 4}})
                \cup {<<Run("A", <<Node("kJoin", 1, <<In(0, 2), In(1, 2)>>, 2, parameters)>>)>> :
                         parameters \in {<<>>, <<<<>>>>}}

Sorts(operation, location) == {Node(operation, location, <<In(id, size)>>, 1, <<>>) :
                                  id \in {0, 1}, size \in {1, 3, 8, 16}}
SortSessions == {<<Run("A", <<merge_sort, linear_sort>>)>> :
                    merge_sort \in Sorts("kMergeSort", 1), linear_sort \in Sorts("kLinearSort", 2)}

Bits(n) == [1..n -> {0, 1}]
Counting(n) == [k \in 1..n |-> 10 + k]
Additions == {Node("kAddition", 1, <<In(3, 4)>>, 1, <<<<1>>, bits, Counting(kDatapathWidth)>>) :
                 bits \in Bits(Slots)}
             \cup {Node("kAddition", 1, <<In(3, 4)>>, 1, <<<<0>>, <<>>, <<>>>>)}
Multiplications ==
    {Node("kMultiplication", 2, <<In(3, 4)>>, 1, vectors) :
        vectors \in {<<<<0>> \o b, <<1>> \o c>> : b, c \in Bits(Slots)}
                    \cup {<<<<1>> \o b>> : b \in Bits(Slots)} \cup {<<>>, <<<<0, 1>>>>}}
SumNode(columns) == Node("kAggregationSum", 1, <<In(1, 4)>>, 1, <<<<1>>, columns>>)
SumsOf(location) ==
    {[SumNode(columns) EXCEPT !.location = location] :
        columns \in {<<>>, <<0, 1>>} \cup {<<i>> : i \in 0..(Slots - 1)}}
    \cup {[SumNode(<<>>) EXCEPT !.parameters = <<<<0>>>>, !.location = location]}

ArithmeticSessions ==
    Pairs(Additions) \cup Pairs(SumsOf(1))
    \cup {<<Run("A", <<sum, other>>), Run("A", <<other>>)>> : sum \in SumsOf(1), other \in SumsOf(3)}
    \cup {<<Run("A", <<m>>), Run("A", <<n>>)>> : m \in {m \in Multiplications : Len(m.parameters) < 2},
                                                n \in Multiplications}
    \cup {<<Run("A", <<addition, multiplication, sum>>), Run("A", <<other, sum>>)>> :
             addition \in Additions, multiplication \in {m \in Multiplications : Len(m.parameters) < 2},
             sum \in SumsOf(3), other \in SumsOf(4)}

SmallSessions == FilterSessions \cup JoinSessions \cup SortSessions
                 \cup ArithmeticSessions

(* One run with a sum of one column or of two.                             *)
SumSessions == {<<Run("A", <<SumNode(columns)>>)>> : columns \in {<<1>>, <<0, 1>>}}
=============================================================================
