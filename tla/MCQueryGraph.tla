---------------------------- MODULE MCQueryGraph ----------------------------
EXTENDS QueryGraph, TLC

Field(kind, value) == [kind |-> kind, value |-> value]
Array(elements) == Field("array", elements)
File == 9

(* A node with a file for each input without a link, but for the inputs in *)
(* flipped.                                                                *)
LeftOut == <<-1>>       \* for links: the field is left out
Words(words) == [kind |-> "words", words |-> words]
Text(n, size) == [kind |-> "text", text |-> [k \in 1..n |-> "A"], size |-> size]
Parameters(vectors) ==
    [input_stream_params |-> vectors, output_stream_params |-> vectors,
     operation_params |-> <<Words(<<1>>)>>]
Links(previous, next) ==
    (IF previous = LeftOut THEN <<>> ELSE "previous_nodes" :> Array(previous))
    @@ (IF next = LeftOut THEN <<>> ELSE "next_nodes" :> Array(next))
Required(input, output) ==
    [input |-> Array(input), output |-> Array(output), operation |-> Field("string", "kFilter"),
     operation_parameters |-> Field("object", Parameters(<<Words(<<0, 1>>), Words(<<>>), Words(<<>>), Words(<<>>)>>))]
InputFiles(previous, flipped) ==
    [i \in DOMAIN previous |-> IF (previous[i] = 0) = (i \notin flipped) THEN File ELSE 0]
Node(previous, next, flipped) ==
    Links(previous, next)
    @@ Required(IF previous = LeftOut THEN <<File>> ELSE InputFiles(previous, flipped),
                IF next = LeftOut THEN <<0>> ELSE [i \in DOMAIN next |-> IF next[i] = 0 THEN File ELSE 0])

(* Links of two and three nodes in every combination, and to a node that   *)
(* does not exist.                                                         *)
OneOrTwo(names) == [1..1 -> names] \cup [1..2 -> names]
NodesOfTwo == {Node(previous, next, flipped) :
                  previous \in OneOrTwo(0..2), next \in [1..1 -> 0..2], flipped \in {{}, {1}}}
              \cup {Node(LeftOut, next, {}) : next \in {LeftOut} \cup OneOrTwo(0..2)}
              \cup {Node(<<3>>, <<2>>, {}), Node(<<0>>, <<3>>, {}), Node(<<0>>, <<1, 2>>, {})}
TwoNodes == [1..2 -> NodesOfTwo]

NodesOfThree == {Node(previous, next, {}) :
                    previous \in [1..1 -> 0..3] \cup {<<1, 2>>, <<2, 1>>, <<1, 3>>, <<0, 2>>},
                    next \in [1..1 -> 0..3] \cup {<<2, 3>>}}
ThreeNodes == [1..3 -> NodesOfThree]

(* A chain of two nodes with one field of the second one changed.          *)
First == Node(<<0>>, <<2>>, {})
Second == Node(<<1>>, <<0>>, {})
OtherFields ==
    {Field("null", <<>>), Field("other", 1), Field("string", "kSort"), Field("string", "kJoin"),
     Array(<<>>), Array(<<0>>), Array(<<1>>), Array(<<0, 0>>)}
    \cup {Field("object", Parameters(vectors)) :
             vectors \in {<<>>, <<Words(<<>>), Words(<<2>>)>>}
                         \cup {<<Text(n, size)>> : n \in 0..9, size \in 0..2}}
    \cup {Field("object", [operation_params |-> <<>>])}
ChangedNodes ==
    {<<First, (name :> field) @@ Second>> :
        name \in DOMAIN Second, field \in OtherFields}
    \cup {<<First, [name \in DOMAIN Second \ {left_out} |-> Second[name]]>> :
             left_out \in DOMAIN Second}
    \cup {<<(name :> field) @@ First, Node(<<1>>, <<2>>, {1})>> :
             name \in DOMAIN First, field \in OtherFields}
    \cup {<<First, ("comment" :> field) @@ Second>> : field \in OtherFields}
    \cup {<<>>}

SmallDefinitions == TwoNodes \cup ThreeNodes \cup ChangedNodes
=============================================================================
