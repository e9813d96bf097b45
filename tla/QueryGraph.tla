----------------------------- MODULE QueryGraph -----------------------------
(***************************************************************************)
(* How the JSON definition of a query becomes the graph of its nodes:      *)
(* RapidJSONReader::ReadInputDefinition and GraphCreator::MakeGraph.       *)
(*                                                                         *)
(* Nodes are numbers in the order of their names, the order of the maps    *)
(* that hold them.  A definition gives each node's fields, each a record of*)
(* the kind of JSON value it is and the value.  In an array, 0 is an       *)
(* element that is not a string, or the empty string; another number is    *)
(* the name of a node or of a file.                                        *)
(***************************************************************************)
EXTENDS Integers, Sequences, FiniteSetsExt

CONSTANTS
    Definitions,            \* the definitions the program may be started with
    SupportedFunctions      \* the names in kSupportedFunctions

VARIABLES
    definition,             \* the JSON document
    data,                   \* what the reader makes of it
    graph,                  \* graph_nodes_map: the nodes made so far
    linked,                 \* how many nodes have been linked
    roots,                  \* the root nodes of the finished graph
    step, error

vars == <<definition, data, graph, linked, roots, step, error>>

Null == 0
NoError == "none"
OutOfRange == "out of range"            \* what .at() throws
BadVariant == "bad variant access"      \* what std::get throws

Nodes == DOMAIN definition

(* The fields a node needs, the two that may be left out, and the kind each*)
(* has to be of.                                                           *)
RequiredKind == [input |-> "array", output |-> "array", operation |-> "string",
                 operation_parameters |-> "object"]
LinkKind == [previous_nodes |-> "array", next_nodes |-> "array"]
ParameterFields == {"input_stream_params", "output_stream_params", "operation_params"}

-----------------------------------------------------------------------------
(***************************************************************************)
(* ReadInputDefinition.  A vector of parameters holds words, or a text and *)
(* the number of words it is to take, with four characters in a word.      *)
(***************************************************************************)
IsText(vector) == vector.kind = "text"

ConvertCharStringToAscii(vector) ==
    [w \in 1..vector.size |-> SubSeq(vector.text, 4 * w - 3, Min({4 * w, Len(vector.text)}))]

ReadVectors(vectors) ==
    [v \in DOMAIN vectors |-> IF IsText(vectors[v]) THEN ConvertCharStringToAscii(vectors[v])
                              ELSE vectors[v].words]

ReadParameters(parameters) == [name \in DOMAIN parameters |-> ReadVectors(parameters[name])]

ReadField(field) ==
    IF field.kind = "object" THEN [kind |-> "object", value |-> ReadParameters(field.value)]
    ELSE field

(* A null leaves its field out.                                            *)
ReadNode(fields) ==
    [name \in {name \in DOMAIN fields : fields[name].kind # "null"} |-> ReadField(fields[name])]

TextsOf(field) ==
    IF field.kind # "object" THEN {}
    ELSE {vector \in UNION {{field.value[name][v] : v \in DOMAIN field.value[name]} :
                            name \in DOMAIN field.value} : IsText(vector)}

(* A document that was parsed is a list of nodes, each with fields that are*)
(* values of JSON.                                                         *)
JSONKind == {"array", "string", "object", "null", "other"}
IsField(field) ==
    /\ field.kind \in JSONKind
    /\ field.kind = "array" => field.value \in Seq(Nat)
    /\ \A vector \in TextsOf(field) : Len(vector.text) \in Nat /\ vector.size \in Nat
IsDefinition(d) ==
    /\ Len(d) \in Nat /\ DOMAIN d = 1..Len(d)
    /\ \A n \in DOMAIN d : \A name \in DOMAIN d[n] : IsField(d[n][name])

(* The errors of the reader.  Which of several comes first is left open.   *)
ReadErrors ==
    LET fields == UNION {{definition[n][name] : name \in DOMAIN definition[n]} : n \in Nodes}
    IN  {"Something went wrong. Please use a verifier!" :
             field \in {field \in fields : field.kind = "other"}}
        \cup {"longer" : vector \in {vector \in UNION {TextsOf(field) : field \in fields} :
                                        Len(vector.text) > 4 * vector.size}}

-----------------------------------------------------------------------------
(* PopulateGraphNodesMapWithJSONData: what is wrong with a node's fields.  *)
HasKind(fields, name, kind) == name \in DOMAIN fields => fields[name].kind = kind

PopulateErrors(fields) ==
    LET is_incomplete ==
            \/ DOMAIN RequiredKind \ DOMAIN fields # {}
            \/ "operation_parameters" \in DOMAIN fields
                  /\ fields.operation_parameters.kind = "object"
                  /\ ParameterFields \ DOMAIN fields.operation_parameters.value # {}
            \/ "operation" \in DOMAIN fields
                  /\ fields.operation.kind = "string"
                  /\ fields.operation.value \notin SupportedFunctions
        is_mistyped ==
            \/ \E name \in DOMAIN RequiredKind : ~HasKind(fields, name, RequiredKind[name])
            \/ \E name \in DOMAIN LinkKind : ~HasKind(fields, name, LinkKind[name])
    IN  (IF is_incomplete THEN {OutOfRange} ELSE {}) \cup (IF is_mistyped THEN {BadVariant} ELSE {})

NewNode(fields) ==
    [input_data_definition_files |-> fields.input.value,
     output_data_definition_files |-> fields.output.value,
     is_checked |-> [i \in DOMAIN fields.output.value |-> fields.output.value[i] # 0],
     operation_type |-> fields.operation.value,
     operation_parameters |-> fields.operation_parameters.value,
     previous_nodes |-> <<>>, next_nodes |-> <<>>]

-----------------------------------------------------------------------------
(***************************************************************************)
(* LinkDependentNodes, for one node: each input has a link or a file, and  *)
(* the nodes that links name exist.                                        *)
(***************************************************************************)
PreviousNames(n) == data[n].previous_nodes.value
NextNames(n) == data[n].next_nodes.value
HasPrevious(n) == "previous_nodes" \in DOMAIN data[n]
HasNext(n) == "next_nodes" \in DOMAIN data[n]
FilesOf(n) == graph[n].input_data_definition_files

InputError(n, i) ==
    CASE PreviousNames(n)[i] # Null /\ FilesOf(n)[i] # 0 -> "Input file not required!"
      [] PreviousNames(n)[i] = Null /\ FilesOf(n)[i] = 0 -> "Input file required!"
      [] PreviousNames(n)[i] \notin Nodes \cup {Null} -> OutOfRange
      [] OTHER -> NoError

InputErrors(n) == {i \in DOMAIN PreviousNames(n) : InputError(n, i) # NoError}

(* Slip: fewer links than files are accepted.                              *)
LinkErrorUncounted(n) ==
    IF HasPrevious(n) /\ Len(PreviousNames(n)) > Len(FilesOf(n))
    THEN "Incorrect number of input file definitions found!"
    ELSE IF HasPrevious(n) /\ InputErrors(n) # {} THEN InputError(n, Min(InputErrors(n)))
    ELSE IF HasNext(n) /\ \E i \in DOMAIN NextNames(n) : NextNames(n)[i] \notin Nodes \cup {Null}
         THEN OutOfRange
    ELSE NoError

LinkError(n) ==
    IF HasPrevious(n) /\ Len(PreviousNames(n)) # Len(FilesOf(n))
    THEN "Incorrect number of input file definitions found!"
    ELSE IF HasPrevious(n) /\ InputErrors(n) # {} THEN InputError(n, Min(InputErrors(n)))
    ELSE IF HasNext(n) /\ \E i \in DOMAIN NextNames(n) : NextNames(n)[i] \notin Nodes \cup {Null}
         THEN OutOfRange
    ELSE NoError

Linked(n) ==
    [graph[n] EXCEPT !.previous_nodes = IF HasPrevious(n) THEN PreviousNames(n) ELSE <<>>,
                     !.next_nodes = IF HasNext(n) THEN NextNames(n) ELSE <<>>]

(***************************************************************************)
(* MakeGraph: the nodes that wait for no other are the roots.  The graph   *)
(* keeps these, and each node those in its next_nodes; the others cease to *)
(* exist with graph_nodes_map, and the links back to them are null.        *)
(***************************************************************************)
Producers(n) == {graph[n].previous_nodes[i] : i \in DOMAIN graph[n].previous_nodes} \ {Null}
Consumers(n) == {graph[n].next_nodes[i] : i \in DOMAIN graph[n].next_nodes} \ {Null}

(* Slip: a node with a table among its inputs is a root.                   *)
RootNodesByTable ==
    {n \in Nodes : graph[n].previous_nodes = <<>>
                   \/ \E i \in DOMAIN graph[n].previous_nodes : graph[n].previous_nodes[i] = Null}

RootNodes == {n \in Nodes : Producers(n) = {}}

IsKept(nodes) ==
    \A n \in nodes : n \in RootNodes \/ \E m \in nodes : n \in Consumers(m)

KeptNodes == UNION {nodes \in SUBSET Nodes : IsKept(nodes)}

Kept(n) ==
    [graph[n] EXCEPT !.previous_nodes =
        [i \in DOMAIN @ |-> IF @[i] \in KeptNodes THEN @[i] ELSE Null]]

-----------------------------------------------------------------------------
Init ==
    /\ definition \in Definitions /\ IsDefinition(definition)
    /\ data = <<>>
    /\ graph = <<>>
    /\ linked = 0
    /\ roots = {}
    /\ step = "read"
    /\ error = NoError

Fail(what) ==
    /\ error' = what
    /\ step' = "failed"
    /\ UNCHANGED <<definition, data, graph, linked, roots>>

ReadInputDefinition ==
    /\ step = "read" /\ ReadErrors = {}
    /\ data' = [n \in Nodes |-> ReadNode(definition[n])]
    /\ step' = IF Nodes = {} THEN "link" ELSE "populate"
    /\ UNCHANGED <<definition, graph, linked, roots, error>>

FailToRead ==
    /\ step = "read"
    /\ \E what \in ReadErrors : Fail(what)

(* The nodes one after the other; new_node is the next one.                *)
new_node == Len(graph) + 1

PopulateNode ==
    /\ step = "populate" /\ new_node \in Nodes
    /\ PopulateErrors(data[new_node]) = {}
    /\ graph' = Append(graph, NewNode(data[new_node]))
    /\ step' = IF new_node + 1 \in Nodes THEN "populate" ELSE "link"
    /\ UNCHANGED <<definition, data, linked, roots, error>>

FailToPopulate ==
    /\ step = "populate" /\ new_node \in Nodes
    /\ \E what \in PopulateErrors(data[new_node]) : Fail(what)

LinkNode ==
    /\ step = "link" /\ linked + 1 \in Nodes
    /\ LinkError(linked + 1) = NoError
    /\ graph' = [graph EXCEPT ![linked + 1] = Linked(linked + 1)]
    /\ linked' = linked + 1
    /\ UNCHANGED <<definition, data, roots, step, error>>

FailToLink ==
    /\ step = "link" /\ linked + 1 \in Nodes
    /\ LinkError(linked + 1) # NoError
    /\ Fail(LinkError(linked + 1))

MakeGraph ==
    /\ step = "link" /\ linked = Len(graph)
    /\ roots' = RootNodes
    /\ graph' = [n \in KeptNodes |-> Kept(n)]
    /\ step' = "done"
    /\ UNCHANGED <<definition, data, linked, error>>

Next ==
    \/ ReadInputDefinition
    \/ FailToRead
    \/ PopulateNode
    \/ FailToPopulate
    \/ LinkNode
    \/ FailToLink
    \/ MakeGraph

Spec == Init /\ [][Next]_vars

-----------------------------------------------------------------------------
(***************************************************************************)
(* Properties.                                                             *)
(***************************************************************************)

(* The plan that the finished graph is for the scheduler.                  *)
IsProjected(parameters, k, i) ==
    LET vector == 4 * (i - 1) + 1
    IN  vector \in DOMAIN parameters[k] /\ parameters[k][vector] # <<>>

Plan ==
    [nodes |-> DOMAIN graph,
     operation_type |-> [n \in DOMAIN graph |-> graph[n].operation_type],
     previous_nodes |-> [n \in DOMAIN graph |-> graph[n].previous_nodes],
     next_nodes |-> [n \in DOMAIN graph |-> graph[n].next_nodes],
     is_checked |-> [n \in DOMAIN graph |-> graph[n].is_checked],
     input_projection |-> [n \in DOMAIN graph |->
         [i \in DOMAIN graph[n].previous_nodes |->
             IsProjected(graph[n].operation_parameters, "input_stream_params", i)]],
     output_projection |-> [n \in DOMAIN graph |->
         [i \in DOMAIN graph[n].next_nodes |->
             IsProjected(graph[n].operation_parameters, "output_stream_params", i)]]]

Scheduling == INSTANCE QueryPlan WITH Plans <- {}

(* The fields that a definition gives, and what it says of a node's links. *)
Given(n) == {name \in DOMAIN definition[n] : definition[n][name].kind # "null"}

Names(n, name) ==
    IF name \in Given(n) /\ definition[n][name].kind = "array"
    THEN definition[n][name].value ELSE <<>>
Named(n, name) == {Names(n, name)[i] : i \in DOMAIN Names(n, name)} \ {Null}

(* Conditions that nothing checks: both ends of a link name each other,    *)
(* there is no cycle, a node that reads a table and waits for no other     *)
(* lists its inputs, and each output has a link, if only null.             *)
IsConsistent ==
    /\ \A n, m \in Nodes : m \in Named(n, "next_nodes") <=> n \in Named(m, "previous_nodes")
    /\ \A nodes \in SUBSET Nodes :
          nodes # {} => \E n \in nodes : Named(n, "previous_nodes") \cap nodes = {}
    /\ \A n \in Nodes : /\ "previous_nodes" \in Given(n)
                        /\ Len(Names(n, "output")) = Len(Names(n, "next_nodes"))

(* The graph of a consistent definition is a plan that the scheduler can   *)
(* work with, with every node, every link, the nodes that wait for nothing *)
(* as its roots, and one source for each input (MakeGraph,                 *)
(* LinkDependentNodes).                                                    *)
GraphIsPlan ==
    step = "done" /\ IsConsistent =>
        /\ DOMAIN graph = Nodes
        /\ Scheduling!IsLinked(Plan)
        /\ Scheduling!IsAnnotated(Plan)
        /\ roots = Scheduling!RootNodes(Plan)
        /\ \A n \in Nodes :
              /\ Producers(n) = Named(n, "previous_nodes")
              /\ Consumers(n) = Named(n, "next_nodes")
              /\ \A i \in DOMAIN graph[n].input_data_definition_files :
                    graph[n].input_data_definition_files[i] = 0
                        <=> graph[n].previous_nodes[i] # Null

(* A definition in which every field is there, is of its kind and names    *)
(* what exists, and each input has one source.                             *)
IsSound(n) ==
    LET fields == definition[n]
    IN  /\ \A name \in Given(n) :
              /\ fields[name].kind # "other"
              /\ \A vector \in TextsOf(fields[name]) : Len(vector.text) <= 4 * vector.size
        /\ \A name \in DOMAIN RequiredKind :
              name \in Given(n) /\ fields[name].kind = RequiredKind[name]
        /\ \A name \in DOMAIN LinkKind \cap Given(n) : fields[name].kind = "array"
        /\ ParameterFields \subseteq DOMAIN fields.operation_parameters.value
        /\ fields.operation.value \in SupportedFunctions
        /\ Named(n, "previous_nodes") \cup Named(n, "next_nodes") \subseteq Nodes
        /\ "previous_nodes" \in Given(n) =>
              /\ Len(Names(n, "previous_nodes")) = Len(Names(n, "input"))
              /\ \A i \in DOMAIN Names(n, "input") :
                    Names(n, "input")[i] = 0 <=> Names(n, "previous_nodes")[i] # Null

(* The program accepts no definition with a flaw that it can see, and      *)
(* refuses none without (ReadInputDefinition,                              *)
(* PopulateGraphNodesMapWithJSONData, LinkDependentNodes).                 *)
SoundDefinitionsAccepted ==
    /\ step = "done" => \A n \in Nodes : IsSound(n)
    /\ step = "failed" => \E n \in Nodes : ~IsSound(n)
=============================================================================
