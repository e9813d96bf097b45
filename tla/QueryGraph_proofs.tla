-------------------------- MODULE QueryGraph_proofs --------------------------
(***************************************************************************)
(* Proof that the program makes a graph out of every definition without a  *)
(* flaw and of no other, and that the graph of a consistent definition is  *)
(* a plan such as the scheduler takes for granted: for all definitions.    *)
(***************************************************************************)
EXTENDS QueryGraph, SequenceLemmas

(* The links of a node as the reader got them, an absent list being empty. *)
PreviousLinks(n) == IF HasPrevious(n) THEN PreviousNames(n) ELSE <<>>
NextLinks(n) == IF HasNext(n) THEN NextNames(n) ELSE <<>>

(* A node after it is linked.                                              *)
LinkedNode(n) ==
    [NewNode(data[n]) EXCEPT !.previous_nodes = PreviousLinks(n),
                             !.next_nodes = NextLinks(n)]

(* What is right with a node that has passed the reader, PopulateNode and  *)
(* LinkNode.                                                               *)
IsReadable(n) ==
    \A name \in DOMAIN definition[n] :
        /\ definition[n][name].kind # "other"
        /\ \A vector \in TextsOf(definition[n][name]) :
              Len(vector.text) <= 4 * vector.size

FieldsFit(fields) ==
    /\ \A name \in DOMAIN RequiredKind :
          name \in DOMAIN fields /\ fields[name].kind = RequiredKind[name]
    /\ \A name \in DOMAIN LinkKind : HasKind(fields, name, "array")
    /\ ParameterFields \subseteq DOMAIN fields.operation_parameters.value
    /\ fields.operation.value \in SupportedFunctions

InputFits(n, i) ==
    /\ PreviousNames(n)[i] # Null <=> data[n].input.value[i] = 0
    /\ PreviousNames(n)[i] \in Nodes \cup {Null}
LinksFit(n) ==
    /\ HasPrevious(n) =>
          /\ Len(PreviousNames(n)) = Len(data[n].input.value)
          /\ \A i \in DOMAIN PreviousNames(n) : InputFits(n, i)
    /\ HasNext(n) => \A i \in DOMAIN NextNames(n) : NextNames(n)[i] \in Nodes \cup {Null}

-----------------------------------------------------------------------------
(***************************************************************************)
(* The inductive invariant: what each phase has made and has checked.      *)
(***************************************************************************)
IsRead == data = [n \in Nodes |-> ReadNode(definition[n])]

Started == step = "read" => graph = <<>> /\ linked = 0

DataRead ==
    step \in {"populate", "link", "done"} =>
        /\ \A n \in Nodes : IsReadable(n)
        /\ IsRead

GraphGrown ==
    step \in {"populate", "link"} =>
        /\ IsSequence(graph)
        /\ Len(graph) <= Len(definition)
        /\ linked \in 0..Len(graph)
        /\ \A n \in 1..Len(graph) :
              /\ FieldsFit(data[n])
              /\ n <= linked => LinksFit(n)
              /\ graph[n] = IF n <= linked THEN LinkedNode(n) ELSE NewNode(data[n])

PhasesInOrder ==
    /\ step \in {"read", "populate", "link", "done", "failed"}
    /\ step = "populate" => linked = 0 /\ new_node \in Nodes
    /\ step = "link" => Len(graph) = Len(definition)

GraphMade ==
    step = "done" =>
        /\ \A n \in Nodes : FieldsFit(data[n]) /\ LinksFit(n)
        /\ IsConsistent =>
              /\ graph = [n \in Nodes |-> LinkedNode(n)]
              /\ roots = {n \in Nodes : Named(n, "previous_nodes") = {}}

FlawFound == step = "failed" => \E n \in Nodes : ~IsSound(n)

IInv ==
    /\ IsDefinition(definition)
    /\ Started /\ DataRead /\ PhasesInOrder /\ GraphGrown /\ GraphMade /\ FlawFound

-----------------------------------------------------------------------------
(***************************************************************************)
(* The fields of a node.                                                   *)
(***************************************************************************)

(* The names and kinds of the fields.                                      *)
LEMMA FieldNames ==
    /\ DOMAIN RequiredKind = {"input", "output", "operation", "operation_parameters"}
    /\ RequiredKind["input"] = "array" /\ RequiredKind["output"] = "array"
    /\ RequiredKind["operation"] = "string"
    /\ RequiredKind["operation_parameters"] = "object"
    /\ DOMAIN LinkKind = {"previous_nodes", "next_nodes"}
    /\ LinkKind["previous_nodes"] = "array" /\ LinkKind["next_nodes"] = "array"
  BY DEF RequiredKind, LinkKind

(* What the reader makes of a field: its kind stays, and so does its value,*)
(* but for the vectors in an object.                                       *)
LEMMA ReadFields ==
    ASSUME IsRead, NEW n \in Nodes
    PROVE  /\ DOMAIN data[n] = Given(n)
           /\ \A name \in Given(n) :
                 /\ data[n][name].kind = definition[n][name].kind
                 /\ definition[n][name].kind # "object" =>
                       data[n][name].value = definition[n][name].value
                 /\ definition[n][name].kind = "object" =>
                       DOMAIN data[n][name].value = DOMAIN definition[n][name].value
<1>1. data[n] = [name \in Given(n) |-> ReadField(definition[n][name])]
  BY Zenon DEF IsRead, ReadNode, Given
<1>2. ASSUME NEW field
      PROVE  /\ ReadField(field).kind = field.kind
             /\ field.kind # "object" => ReadField(field).value = field.value
             /\ field.kind = "object" => DOMAIN ReadField(field).value = DOMAIN field.value
  BY DEF ReadField, ReadParameters
<1>3. QED
  BY <1>1, <1>2

(* A node passes PopulateNode when its fields fit.                         *)
LEMMA PopulateFits ==
    ASSUME NEW fields
    PROVE  PopulateErrors(fields) = {} <=> FieldsFit(fields)
<1> DEFINE is_incomplete ==
            \/ DOMAIN RequiredKind \ DOMAIN fields # {}
            \/ "operation_parameters" \in DOMAIN fields
                  /\ fields.operation_parameters.kind = "object"
                  /\ ParameterFields \ DOMAIN fields.operation_parameters.value # {}
            \/ "operation" \in DOMAIN fields
                  /\ fields.operation.kind = "string"
                  /\ fields.operation.value \notin SupportedFunctions
           is_mistyped ==
            \/ \E name \in DOMAIN RequiredKind : ~HasKind(fields, name, RequiredKind[name])
            \/ \E name \in DOMAIN LinkKind : ~HasKind(fields, name, LinkKind[name])
<1>1. PopulateErrors(fields) = {} <=> ~is_incomplete /\ ~is_mistyped
  <2>1. PopulateErrors(fields) =
            (IF is_incomplete THEN {OutOfRange} ELSE {})
                \cup (IF is_mistyped THEN {BadVariant} ELSE {})
    BY Zenon DEF PopulateErrors
  <2> HIDE DEF is_incomplete, is_mistyped
  <2>2. QED
    BY <2>1
<1>2. ~is_incomplete /\ ~is_mistyped <=> FieldsFit(fields)
  BY FieldNames DEF FieldsFit, HasKind
<1>3. QED
  BY <1>1, <1>2, Zenon

(* The lists among the fields of a node.                                   *)
LEMMA ListFields ==
    ASSUME IsDefinition(definition), IsRead, NEW n \in Nodes, FieldsFit(data[n])
    PROVE  /\ {"input", "output", "operation", "operation_parameters"} \subseteq Given(n)
           /\ data[n].input.value = Names(n, "input")
           /\ data[n].output.value = Names(n, "output")
           /\ data[n].operation.value = definition[n].operation.value
           /\ PreviousLinks(n) = Names(n, "previous_nodes")
           /\ NextLinks(n) = Names(n, "next_nodes")
           /\ HasPrevious(n) <=> "previous_nodes" \in Given(n)
           /\ HasNext(n) <=> "next_nodes" \in Given(n)
           /\ \A name : Names(n, name) \in Seq(Nat)
<1>1. /\ DOMAIN data[n] = Given(n)
      /\ \A name \in Given(n) :
            /\ data[n][name].kind = definition[n][name].kind
            /\ definition[n][name].kind # "object" =>
                  data[n][name].value = definition[n][name].value
  BY ReadFields
<1>2. \A name \in Given(n) : definition[n][name].kind = "array" =>
          definition[n][name].value \in Seq(Nat)
  BY DEF IsDefinition, IsField, Given, Nodes
<1>3. \A name : Names(n, name) \in Seq(Nat)
  BY <1>2 DEF Names
<1>4. /\ \A name \in {"input", "output", "operation", "operation_parameters"} :
            name \in Given(n) /\ data[n][name].kind = RequiredKind[name]
      /\ \A name \in {"previous_nodes", "next_nodes"} :
            name \in Given(n) => data[n][name].kind = "array"
  BY <1>1, FieldNames DEF FieldsFit, HasKind
<1>5. QED
  BY <1>1, <1>3, <1>4, FieldNames DEF Names, PreviousLinks, NextLinks, PreviousNames,
     NextNames, HasPrevious, HasNext

(* LinkNode accepts a node when its links fit.                             *)
LEMMA LinkFits ==
    ASSUME IsDefinition(definition), IsRead, NEW n \in Nodes, FieldsFit(data[n]),
           graph[n] = NewNode(data[n])
    PROVE  LinkError(n) = NoError <=> LinksFit(n)
<1>1. FilesOf(n) = data[n].input.value
  BY DEF FilesOf, NewNode
<1>2. ASSUME NEW i
      PROVE  InputError(n, i) = NoError <=> InputFits(n, i)
  BY <1>1 DEF InputError, InputFits, NoError, OutOfRange
<1>3. HasPrevious(n) => InputErrors(n) \in SUBSET Nat
  <2>1. ASSUME HasPrevious(n)
        PROVE  PreviousNames(n) \in Seq(Nat)
    BY <2>1, ListFields DEF PreviousLinks
  <2>2. QED
    BY <2>1, LenProperties DEF InputErrors
<1>4. ASSUME HasPrevious(n), InputErrors(n) # {}
      PROVE  InputError(n, Min(InputErrors(n))) # NoError
  <2>1. Min(InputErrors(n)) \in InputErrors(n)
    BY <1>3, <1>4, LeastIsMin
  <2>2. QED
    BY <2>1, Zenon DEF InputErrors
<1>5. HasPrevious(n) =>
          (InputErrors(n) = {} <=> \A i \in DOMAIN PreviousNames(n) : InputFits(n, i))
  BY <1>2 DEF InputErrors
<1>6. QED
  BY <1>1, <1>4, <1>5 DEF LinkError, LinksFit, NoError, OutOfRange

(***************************************************************************)
(* A node is sound when it passes all three.                               *)
(***************************************************************************)
LEMMA SoundFits ==
    ASSUME IsDefinition(definition), IsRead, NEW n \in Nodes
    PROVE  IsSound(n) <=> IsReadable(n) /\ FieldsFit(data[n]) /\ LinksFit(n)
<1> DEFINE readable ==
            \A name \in Given(n) :
                /\ definition[n][name].kind # "other"
                /\ \A vector \in TextsOf(definition[n][name]) :
                      Len(vector.text) <= 4 * vector.size
           fields_fit ==
            /\ \A name \in DOMAIN RequiredKind :
                  name \in Given(n) /\ definition[n][name].kind = RequiredKind[name]
            /\ \A name \in DOMAIN LinkKind \cap Given(n) : definition[n][name].kind = "array"
            /\ ParameterFields \subseteq DOMAIN definition[n].operation_parameters.value
            /\ definition[n].operation.value \in SupportedFunctions
           links_fit ==
            /\ Named(n, "previous_nodes") \cup Named(n, "next_nodes") \subseteq Nodes
            /\ "previous_nodes" \in Given(n) =>
                  /\ Len(Names(n, "previous_nodes")) = Len(Names(n, "input"))
                  /\ \A i \in DOMAIN Names(n, "input") :
                        Names(n, "input")[i] = 0 <=> Names(n, "previous_nodes")[i] # Null
<1>1. IsSound(n) <=> readable /\ fields_fit /\ links_fit
  BY Zenon DEF IsSound
<1>2. IsReadable(n) <=> readable
  <2>1. ASSUME NEW name, definition[n][name].kind = "null"
        PROVE  TextsOf(definition[n][name]) = {}
    BY <2>1 DEF TextsOf
  <2>2. QED
    BY <2>1 DEF IsReadable, Given
<1>3. FieldsFit(data[n]) <=> fields_fit
  BY ReadFields, FieldNames DEF FieldsFit, HasKind
<1>4. ASSUME FieldsFit(data[n])
      PROVE  LinksFit(n) <=> links_fit
  <2> DEFINE previous == Names(n, "previous_nodes")
             next == Names(n, "next_nodes")
             input == Names(n, "input")
  <2>1. /\ data[n].input.value = input
        /\ HasPrevious(n) <=> "previous_nodes" \in Given(n)
        /\ HasNext(n) <=> "next_nodes" \in Given(n)
        /\ HasPrevious(n) => PreviousNames(n) = previous
        /\ HasNext(n) => NextNames(n) = next
        /\ ~HasPrevious(n) => previous = <<>>
        /\ ~HasNext(n) => next = <<>>
    BY <1>4, ListFields DEF PreviousLinks, NextLinks
  <2>2. /\ previous \in Seq(Nat) /\ next \in Seq(Nat) /\ input \in Seq(Nat)
    BY <1>4, ListFields
  <2>3. /\ DOMAIN previous = 1..Len(previous) /\ DOMAIN next = 1..Len(next)
        /\ DOMAIN input = 1..Len(input)
    BY <2>2, LenProperties
  <2>4. /\ Named(n, "previous_nodes") = {previous[i] : i \in DOMAIN previous} \ {Null}
        /\ Named(n, "next_nodes") = {next[i] : i \in DOMAIN next} \ {Null}
    BY Zenon DEF Named
  <2>5. LinksFit(n) <=>
            /\ HasPrevious(n) =>
                  /\ Len(previous) = Len(input)
                  /\ \A i \in DOMAIN previous :
                        /\ previous[i] # Null <=> input[i] = 0
                        /\ previous[i] \in Nodes \cup {Null}
            /\ HasNext(n) => \A i \in DOMAIN next : next[i] \in Nodes \cup {Null}
    BY <2>1 DEF LinksFit, InputFits
  <2>6. links_fit <=>
            /\ \A i \in DOMAIN previous : previous[i] \in Nodes \cup {Null}
            /\ \A i \in DOMAIN next : next[i] \in Nodes \cup {Null}
            /\ HasPrevious(n) =>
                  /\ Len(previous) = Len(input)
                  /\ \A i \in DOMAIN input : input[i] = 0 <=> previous[i] # Null
    BY <2>1, <2>4
  <2> HIDE DEF previous, next, input, links_fit
  <2>7. (previous = <<>> => DOMAIN previous = {}) /\ (next = <<>> => DOMAIN next = {})
    OBVIOUS
  <2>8. QED
    BY <2>1, <2>3, <2>5, <2>6, <2>7
<1> HIDE DEF readable, fields_fit, links_fit
<1>5. QED
  BY <1>1, <1>2, <1>3, <1>4

(* What the reader complains of is in a node that is not sound.            *)
LEMMA ReadErrorsFound ==
    ASSUME IsDefinition(definition)
    PROVE  /\ ReadErrors = {} => \A n \in Nodes : IsReadable(n)
           /\ ReadErrors # {} => \E n \in Nodes : ~IsSound(n)
<1> DEFINE fields == UNION {{definition[n][name] : name \in DOMAIN definition[n]} : n \in Nodes}
           others == {field \in fields : field.kind = "other"}
           longer == {vector \in UNION {TextsOf(field) : field \in fields} :
                         Len(vector.text) > 4 * vector.size}
<1>1. ReadErrors = {} <=> others = {} /\ longer = {}
  <2>1. ReadErrors = {"Something went wrong. Please use a verifier!" : field \in others}
                         \cup {"longer" : vector \in longer}
    BY Zenon DEF ReadErrors
  <2> HIDE DEF others, longer
  <2>2. QED
    BY <2>1
<1>2. ASSUME NEW field
      PROVE  field \in fields <=>
                 \E n \in Nodes : \E name \in DOMAIN definition[n] : field = definition[n][name]
  OBVIOUS
<1>3. ASSUME NEW n \in Nodes, NEW name \in DOMAIN definition[n],
             NEW vector \in TextsOf(definition[n][name])
      PROVE  Len(vector.text) \in Nat /\ vector.size \in Nat
  BY Zenon DEF IsDefinition, IsField, Nodes
<1>4. ASSUME ReadErrors = {}, NEW n \in Nodes
      PROVE  IsReadable(n)
  <2>1. \A name \in DOMAIN definition[n] : definition[n][name] \in fields
    BY <1>2
  <2> HIDE DEF fields
  <2>2. QED
    BY <1>1, <1>3, <1>4, <2>1 DEF IsReadable
<1>5. ASSUME NEW n \in Nodes, ~IsReadable(n)
      PROVE  ~IsSound(n)
  BY <1>5 DEF IsReadable, IsSound, Given, TextsOf
<1>6. ASSUME ReadErrors # {}
      PROVE  \E n \in Nodes : ~IsReadable(n)
  <2> HIDE DEF fields
  <2>1. \E n \in Nodes : \E name \in DOMAIN definition[n] :
            \/ definition[n][name].kind = "other"
            \/ \E vector \in TextsOf(definition[n][name]) : Len(vector.text) > 4 * vector.size
    BY <1>1, <1>2, <1>6
  <2>2. QED
    BY <1>3, <2>1 DEF IsReadable
<1>7. QED
  BY <1>4, <1>5, <1>6

-----------------------------------------------------------------------------
(***************************************************************************)
(* The steps.                                                              *)
(***************************************************************************)

(* What rests on the definition alone, and what on the data read from it.  *)
LEMMA DefinitionKept ==
    ASSUME definition' = definition
    PROVE  /\ Nodes' = Nodes /\ IsConsistent' = IsConsistent
           /\ IsDefinition(definition)' = IsDefinition(definition)
           /\ \A n : /\ IsReadable(n)' = IsReadable(n)
                     /\ IsSound(n)' = IsSound(n)
                     /\ Named(n, "previous_nodes")' = Named(n, "previous_nodes")
<1>1. /\ Nodes' = Nodes /\ IsDefinition(definition)' = IsDefinition(definition)
      /\ \A n : Given(n)' = Given(n)
  BY DEF Nodes, Given, IsDefinition
<1>2. \A n, name : Names(n, name)' = Names(n, name)
  BY <1>1 DEF Names
<1>3. \A n, name : Named(n, name)' = Named(n, name)
  BY <1>2 DEF Named
<1>4. IsConsistent' = IsConsistent
  BY <1>1, <1>2, <1>3, Zenon DEF IsConsistent
<1>5. \A n : IsReadable(n)' = IsReadable(n)
  BY Zenon DEF IsReadable
<1>6. \A n : IsSound(n)' = IsSound(n)
  BY <1>1, <1>2, <1>3, Zenon DEF IsSound
<1>7. QED
  BY <1>1, <1>3, <1>4, <1>5, <1>6

LEMMA DataKept ==
    ASSUME definition' = definition, data' = data
    PROVE  /\ IsRead' = IsRead
           /\ \A n : LinksFit(n)' = LinksFit(n) /\ LinkedNode(n)' = LinkedNode(n)
<1>1. \A n : /\ HasPrevious(n)' = HasPrevious(n) /\ HasNext(n)' = HasNext(n)
             /\ PreviousNames(n)' = PreviousNames(n) /\ NextNames(n)' = NextNames(n)
  BY DEF HasPrevious, HasNext, PreviousNames, NextNames
<1>2. Nodes' = Nodes
  BY DEF Nodes
<1>3. \A n, i : InputFits(n, i)' = InputFits(n, i)
  BY <1>1, <1>2, Zenon DEF InputFits
<1>4. \A n : LinksFit(n)' = LinksFit(n)
  BY <1>1, <1>2, <1>3, Zenon DEF LinksFit
<1>5. \A n : LinkedNode(n)' = LinkedNode(n)
  BY <1>1, Zenon DEF LinkedNode, PreviousLinks, NextLinks
<1>6. QED
  BY <1>2, <1>4, <1>5, Zenon DEF IsRead

(* The empty sequence, and the nodes.                                      *)
LEMMA EmptyIsSequence == IsSequence(<<>>)
  BY DEF IsSequence

LEMMA NodesAreNumbers ==
    ASSUME IsDefinition(definition)
    PROVE  Len(definition) \in Nat /\ Nodes = 1..Len(definition)
  BY DEF IsDefinition, Nodes

LEMMA InitHolds == Init => IInv
  BY DEF Init, IInv, Started, DataRead, PhasesInOrder, GraphGrown, GraphMade, FlawFound

LEMMA FailHolds ==
    ASSUME IInv, NEW what, Fail(what), \E n \in Nodes : ~IsSound(n)
    PROVE  IInv'
<1>1. definition' = definition /\ step' = "failed"
  BY DEF Fail
<1>2. (\E n \in Nodes : ~IsSound(n))'
  BY <1>1, DefinitionKept
<1>3. IsDefinition(definition)'
  BY <1>1, DefinitionKept DEF IInv
<1>4. QED
  BY <1>1, <1>2, <1>3
     DEF IInv, Started, DataRead, PhasesInOrder, GraphGrown, GraphMade, FlawFound

LEMMA ReadHolds ==
    ASSUME IInv, ReadInputDefinition
    PROVE  IInv'
<1>1. /\ definition' = definition /\ graph' = <<>> /\ linked' = 0
      /\ step' = IF Nodes = {} THEN "link" ELSE "populate"
      /\ data' = [n \in Nodes |-> ReadNode(definition[n])]
      /\ ReadErrors = {} /\ IsDefinition(definition)
  BY DEF ReadInputDefinition, IInv, Started
<1>2. Nodes' = Nodes /\ (\A n \in Nodes : IsReadable(n))' /\ IsDefinition(definition)'
  BY <1>1, DefinitionKept, ReadErrorsFound
<1>3. IsRead'
  BY <1>1, <1>2, Zenon DEF IsRead
<1>4. Len(definition) \in Nat /\ Nodes = 1..Len(definition)
  BY <1>1, NodesAreNumbers
<1>5. GraphGrown'
  BY <1>1, <1>4, EmptyIsSequence DEF GraphGrown
<1>6. PhasesInOrder'
  BY <1>1, <1>2, <1>4 DEF PhasesInOrder, new_node
<1>7. QED
  BY <1>1, <1>2, <1>3, <1>5, <1>6 DEF IInv, Started, DataRead, GraphMade, FlawFound

LEMMA PopulateHolds ==
    ASSUME IInv, PopulateNode
    PROVE  IInv'
<1> DEFINE len == Len(graph)
<1>1. /\ definition' = definition /\ data' = data /\ linked' = linked
      /\ step = "populate" /\ new_node \in Nodes
      /\ graph' = Append(graph, NewNode(data[new_node]))
      /\ step' = IF new_node + 1 \in Nodes THEN "populate" ELSE "link"
      /\ FieldsFit(data[new_node])
  BY PopulateFits DEF PopulateNode
<1>2. /\ IsDefinition(definition) /\ linked = 0
      /\ \A n \in Nodes : IsReadable(n)
      /\ IsRead /\ IsSequence(graph) /\ Len(graph) <= Len(definition)
      /\ \A n \in 1..len : FieldsFit(data[n]) /\ graph[n] = NewNode(data[n])
  <2>1. \A n \in 1..Len(graph) : ~(n <= 0)
    OBVIOUS
  <2>2. QED
    BY <1>1, <2>1 DEF IInv, DataRead, GraphGrown, PhasesInOrder
<1>3. /\ IsSequence(graph') /\ len \in Nat /\ Len(graph') = len + 1
      /\ \A k \in 1..len : graph'[k] = graph[k]
      /\ graph'[len + 1] = NewNode(data[len + 1])
  BY <1>1, <1>2, AppendSequence DEF new_node
<1>4. Len(definition) \in Nat /\ Nodes = 1..Len(definition) /\ new_node = len + 1
  BY <1>2, NodesAreNumbers DEF new_node
<1>5. /\ Nodes' = Nodes /\ IsDefinition(definition)' /\ IsRead'
      /\ (\A n \in Nodes : IsReadable(n))'
  BY <1>1, <1>2, DefinitionKept, DataKept
<1> HIDE DEF len
<1>6. (\A n \in 1..Len(graph) :
          /\ FieldsFit(data[n])
          /\ graph[n] = NewNode(data[n]))'
  <2>1. ASSUME NEW n \in 1..(len + 1)
        PROVE  /\ FieldsFit(data[n])
               /\ graph'[n] = NewNode(data[n])
    <3>1. n \in 1..len \/ n = len + 1
      BY <1>3
    <3>2. QED
      BY <1>1, <1>2, <1>3, <1>4, <3>1
  <2>2. \A n \in 1..Len(graph') :
            /\ FieldsFit(data'[n])
            /\ graph'[n] = NewNode(data'[n])
    BY <1>1, <1>3, <2>1
  <2>3. QED
    BY <2>2, Zenon DEF FieldsFit, HasKind, NewNode
<1>7. GraphGrown'
  <2>1. (\A n \in 1..Len(graph) : ~(n <= linked))'
    BY <1>1, <1>2, <1>3
  <2>2. IsSequence(graph)'
    BY <1>3, Zenon DEF IsSequence, ToSet
  <2>3. (Len(graph) <= Len(definition) /\ linked \in 0..Len(graph))'
    BY <1>1, <1>2, <1>3, <1>4
  <2>4. QED
    BY <1>6, <2>1, <2>2, <2>3, Zenon DEF GraphGrown
<1>8. PhasesInOrder'
  BY <1>1, <1>2, <1>3, <1>4, <1>5 DEF PhasesInOrder, new_node
<1>9. QED
  BY <1>1, <1>5, <1>7, <1>8 DEF IInv, Started, DataRead, GraphMade, FlawFound

LEMMA LinkHolds ==
    ASSUME IInv, LinkNode
    PROVE  IInv'
<1> DEFINE m == linked + 1
<1>1. /\ definition' = definition /\ data' = data /\ linked' = m
      /\ step = "link" /\ step' = "link" /\ m \in Nodes
      /\ LinkError(m) = NoError
      /\ graph' = [graph EXCEPT ![m] = Linked(m)]
  BY DEF LinkNode
<1>2. /\ IsDefinition(definition) /\ IsRead
      /\ \A n \in Nodes : IsReadable(n)
      /\ IsSequence(graph) /\ linked \in Nat
      /\ Len(graph) = Len(definition)
      /\ \A n \in Nodes :
            /\ FieldsFit(data[n])
            /\ n <= linked => LinksFit(n)
            /\ graph[n] = IF n <= linked THEN LinkedNode(n) ELSE NewNode(data[n])
  BY <1>1, NodesAreNumbers DEF IInv, DataRead, GraphGrown, PhasesInOrder
<1>3. Len(definition) \in Nat /\ Nodes = 1..Len(definition)
  BY <1>2, NodesAreNumbers
<1>4. graph[m] = NewNode(data[m]) /\ FieldsFit(data[m])
  BY <1>1, <1>2, <1>3
<1>5. LinksFit(m)
  BY <1>1, <1>2, <1>4, LinkFits
<1>6. Linked(m) = LinkedNode(m)
  BY <1>4, Zenon DEF Linked, LinkedNode, PreviousLinks, NextLinks
<1>7. /\ Nodes' = Nodes /\ IsDefinition(definition)' /\ IsRead'
      /\ (\A n \in Nodes : IsReadable(n))'
      /\ \A n : LinksFit(n)' = LinksFit(n) /\ LinkedNode(n)' = LinkedNode(n)
  BY <1>1, <1>2, DefinitionKept, DataKept
<1>8. DOMAIN graph = Nodes
  BY <1>2, <1>3, LenProperties DEF IsSequence
<1> HIDE DEF m
<1>9. \A n \in Nodes : graph'[n] = IF n = m THEN LinkedNode(m) ELSE graph[n]
  BY <1>1, <1>6, <1>8
<1>10. ASSUME NEW n \in Nodes
       PROVE  /\ n <= linked' => LinksFit(n)
              /\ graph'[n] = IF n <= linked' THEN LinkedNode(n) ELSE NewNode(data[n])
  <2>1. n <= linked' <=> n <= linked \/ n = m
    BY <1>1, <1>2, <1>3 DEF m
  <2>2. QED
    BY <1>2, <1>5, <1>9, <2>1
<1>11. IsSequence(graph') /\ Len(graph') = Len(graph)
  <2>1. DOMAIN graph' = 1..Len(graph) /\ Len(graph) \in Nat
    BY <1>1, <1>2, <1>3, <1>8
  <2>2. graph' = [n \in 1..Len(graph) |-> graph'[n]]
    BY <1>1, <2>1
  <2>3. \A n \in 1..Len(graph) : graph'[n] \in ToSet(graph')
    BY <2>1 DEF ToSet
  <2> DEFINE g == graph'
  <2> HIDE DEF g
  <2>4. g \in Seq(ToSet(g)) /\ Len(g) = Len(graph)
    BY <2>1, <2>2, <2>3 DEF g
  <2>5. QED
    BY <2>4 DEF IsSequence, g
<1>12. GraphGrown'
  <2>1. (\A n \in Nodes :
            /\ FieldsFit(data[n])
            /\ n <= linked => LinksFit(n)
            /\ graph[n] = IF n <= linked THEN LinkedNode(n) ELSE NewNode(data[n]))'
    <3>1. \A n \in Nodes : /\ FieldsFit(data[n])' <=> FieldsFit(data[n])
                          /\ NewNode(data[n])' = NewNode(data[n])
      BY <1>1, Zenon DEF FieldsFit, HasKind, NewNode
    <3>2. \A n \in Nodes : FieldsFit(data[n])
      BY <1>2
    <3>3. QED
      BY <1>7, <1>10, <3>1, <3>2, Zenon
  <2>2. (1..Len(graph) = Nodes)'
    BY <1>2, <1>3, <1>7, <1>11
  <2>3. IsSequence(graph)'
    BY <1>11, Zenon DEF IsSequence, ToSet
  <2>4. (Len(graph) <= Len(definition) /\ linked \in 0..Len(graph))'
    BY <1>1, <1>2, <1>3, <1>11 DEF m
  <2>5. QED
    BY <2>1, <2>2, <2>3, <2>4, Zenon DEF GraphGrown
<1>13. PhasesInOrder'
  BY <1>1, <1>2, <1>11 DEF PhasesInOrder
<1>14. QED
  BY <1>1, <1>7, <1>12, <1>13 DEF IInv, Started, DataRead, GraphMade, FlawFound

(* A linked node has the links and the files of the definition.            *)
LEMMA LinkedFields ==
    ASSUME IsDefinition(definition), IsRead, NEW n \in Nodes, FieldsFit(data[n])
    PROVE  /\ LinkedNode(n).previous_nodes = Names(n, "previous_nodes")
           /\ LinkedNode(n).next_nodes = Names(n, "next_nodes")
           /\ LinkedNode(n).input_data_definition_files = Names(n, "input")
           /\ LinkedNode(n).is_checked =
                  [i \in DOMAIN Names(n, "output") |-> Names(n, "output")[i] # 0]
  BY ListFields DEF LinkedNode, NewNode

(* The links of a node that fits lead to nodes.                            *)
LEMMA LinksLeadToNodes ==
    ASSUME IsDefinition(definition), IsRead, NEW n \in Nodes, FieldsFit(data[n]), LinksFit(n)
    PROVE  /\ \A i \in DOMAIN Names(n, "previous_nodes") :
                 Names(n, "previous_nodes")[i] \in Nodes \cup {Null}
           /\ \A i \in DOMAIN Names(n, "next_nodes") :
                 Names(n, "next_nodes")[i] \in Nodes \cup {Null}
<1>1. /\ PreviousLinks(n) = Names(n, "previous_nodes")
      /\ NextLinks(n) = Names(n, "next_nodes")
  BY ListFields
<1>2. /\ \A i \in DOMAIN PreviousLinks(n) : PreviousLinks(n)[i] \in Nodes \cup {Null}
      /\ \A i \in DOMAIN NextLinks(n) : NextLinks(n)[i] \in Nodes \cup {Null}
  BY DEF LinksFit, InputFits, PreviousLinks, NextLinks
<1>3. QED
  BY <1>1, <1>2

(* All nodes of a consistent definition are kept, with all their links.    *)
LEMMA AllNodesKept ==
    ASSUME IsDefinition(definition), IsRead, IsConsistent,
           \A n \in Nodes : /\ FieldsFit(data[n]) /\ LinksFit(n)
                            /\ graph[n] = LinkedNode(n)
    PROVE  /\ [n \in KeptNodes |-> Kept(n)] = [n \in Nodes |-> LinkedNode(n)]
           /\ RootNodes = {n \in Nodes : Named(n, "previous_nodes") = {}}
<1>1. ASSUME NEW n \in Nodes
      PROVE  /\ Producers(n) = Named(n, "previous_nodes")
             /\ Consumers(n) = Named(n, "next_nodes")
             /\ Named(n, "previous_nodes") \subseteq Nodes
  <2>1. /\ graph[n].previous_nodes = Names(n, "previous_nodes")
        /\ graph[n].next_nodes = Names(n, "next_nodes")
    BY LinkedFields
  <2>2. /\ Producers(n) = Named(n, "previous_nodes")
        /\ Consumers(n) = Named(n, "next_nodes")
    BY <2>1, Zenon DEF Producers, Consumers, Named
  <2>3. Named(n, "previous_nodes") \subseteq Nodes
    BY LinksLeadToNodes DEF Named
  <2>4. QED
    BY <2>2, <2>3
<1>2. RootNodes = {n \in Nodes : Named(n, "previous_nodes") = {}}
  BY <1>1 DEF RootNodes
<1>3. \A n, m \in Nodes : m \in Named(n, "next_nodes") <=> n \in Named(m, "previous_nodes")
  BY Zenon DEF IsConsistent
<1>4. IsKept(Nodes)
  BY <1>1, <1>2, <1>3 DEF IsKept
<1>5. KeptNodes = Nodes
  BY <1>4 DEF KeptNodes
<1>6. ASSUME NEW n \in Nodes
      PROVE  Kept(n) = LinkedNode(n)
  <2> DEFINE previous == Names(n, "previous_nodes")
             kept == [i \in DOMAIN previous |-> IF previous[i] \in Nodes THEN previous[i] ELSE Null]
  <2>1. previous \in Seq(Nat) /\ \A i \in DOMAIN previous : previous[i] \in Nodes \cup {Null}
    BY ListFields, LinksLeadToNodes
  <2>2. graph[n].previous_nodes = previous
    BY LinkedFields
  <2>3. kept = previous
    <3> HIDE DEF previous
    <3>1. previous = [i \in DOMAIN previous |-> previous[i]]
      BY <2>1
    <3>2. QED
      BY <2>1, <3>1
  <2>4. Kept(n) = [graph[n] EXCEPT !.previous_nodes = kept]
    BY <1>5, <2>2, Zenon DEF Kept
  <2>5. [LinkedNode(n) EXCEPT !.previous_nodes = LinkedNode(n).previous_nodes] = LinkedNode(n)
    BY DEF LinkedNode, NewNode
  <2>6. QED
    BY <2>2, <2>3, <2>4, <2>5, Zenon
<1>7. QED
  BY <1>2, <1>5, <1>6, Zenon

LEMMA MakeGraphHolds ==
    ASSUME IInv, MakeGraph
    PROVE  IInv'
<1>1. /\ definition' = definition /\ data' = data
      /\ step = "link" /\ step' = "done" /\ linked = Len(graph)
      /\ roots' = RootNodes
      /\ graph' = [n \in KeptNodes |-> Kept(n)]
  BY DEF MakeGraph
<1>2. /\ IsDefinition(definition) /\ IsRead
      /\ \A n \in Nodes : IsReadable(n)
      /\ \A n \in Nodes : /\ FieldsFit(data[n]) /\ LinksFit(n)
                          /\ graph[n] = LinkedNode(n)
  BY <1>1, NodesAreNumbers DEF IInv, DataRead, GraphGrown, PhasesInOrder
<1>3. /\ Nodes' = Nodes /\ IsDefinition(definition)' /\ IsRead'
      /\ (\A n \in Nodes : IsReadable(n))' /\ IsConsistent' = IsConsistent
      /\ \A n : /\ LinksFit(n)' = LinksFit(n) /\ LinkedNode(n)' = LinkedNode(n)
                /\ Named(n, "previous_nodes")' = Named(n, "previous_nodes")
  BY <1>1, <1>2, DefinitionKept, DataKept
<1>4. (\A n \in Nodes : FieldsFit(data[n]) /\ LinksFit(n))'
  BY <1>1, <1>2, <1>3, Zenon DEF FieldsFit, HasKind
<1>5. ASSUME IsConsistent
      PROVE  (/\ graph = [n \in Nodes |-> LinkedNode(n)]
              /\ roots = {n \in Nodes : Named(n, "previous_nodes") = {}})'
  <2>1. /\ graph' = [n \in Nodes |-> LinkedNode(n)]
        /\ roots' = {n \in Nodes : Named(n, "previous_nodes") = {}}
    BY <1>1, <1>2, <1>5, AllNodesKept
  <2>2. (graph = [n \in Nodes |-> LinkedNode(n)])'
    BY <1>3, <2>1
  <2>3. (roots = {n \in Nodes : Named(n, "previous_nodes") = {}})'
    BY <1>3, <2>1
  <2>4. QED
    BY <2>2, <2>3
<1>6. GraphMade'
  BY <1>3, <1>4, <1>5, Zenon DEF GraphMade
<1>7. QED
  BY <1>1, <1>3, <1>6
     DEF IInv, Started, DataRead, PhasesInOrder, GraphGrown, FlawFound

-----------------------------------------------------------------------------
(* The invariant is inductive.                                             *)
LEMMA StepHolds == IInv /\ [Next]_vars => IInv'
<1>1. SUFFICES ASSUME IInv, [Next]_vars
               PROVE  IInv'
  OBVIOUS
<1>2. CASE ReadInputDefinition
  BY <1>1, <1>2, ReadHolds
<1>3. CASE FailToRead
  <2>1. PICK what \in ReadErrors : Fail(what)
    BY <1>3 DEF FailToRead
  <2>2. \E n \in Nodes : ~IsSound(n)
    BY <1>1, <2>1, ReadErrorsFound DEF IInv
  <2>3. QED
    BY <1>1, <2>1, <2>2, FailHolds
<1>4. CASE PopulateNode
  BY <1>1, <1>4, PopulateHolds
<1>5. CASE FailToPopulate
  <2>1. PICK what \in PopulateErrors(data[new_node]) : Fail(what)
    BY <1>5 DEF FailToPopulate
  <2>2. /\ new_node \in Nodes /\ ~FieldsFit(data[new_node])
        /\ IsDefinition(definition) /\ IsRead
    BY <1>1, <1>5, <2>1, PopulateFits DEF FailToPopulate, IInv, DataRead
  <2>3. ~IsSound(new_node)
    BY <2>2, SoundFits
  <2>4. QED
    BY <1>1, <2>1, <2>2, <2>3, FailHolds
<1>6. CASE LinkNode
  BY <1>1, <1>6, LinkHolds
<1>7. CASE FailToLink
  <2> DEFINE m == linked + 1
  <2>1. /\ step = "link" /\ m \in Nodes /\ LinkError(m) # NoError
        /\ Fail(LinkError(m))
    BY <1>7 DEF FailToLink
  <2>2. IsDefinition(definition) /\ IsRead
    BY <1>1, <2>1 DEF IInv, DataRead
  <2>3. FieldsFit(data[m]) /\ graph[m] = NewNode(data[m])
    <3>1. linked \in Nat /\ ~(m <= linked)
      BY <1>1, <2>1, NodesAreNumbers DEF IInv, GraphGrown, PhasesInOrder
    <3>2. m \in 1..Len(graph)
      BY <1>1, <2>1, NodesAreNumbers DEF IInv, PhasesInOrder
    <3> HIDE DEF m
    <3>3. QED
      BY <1>1, <2>1, <3>1, <3>2 DEF IInv, GraphGrown
  <2> HIDE DEF m
  <2>4. ~LinksFit(m)
    BY <2>1, <2>2, <2>3, LinkFits
  <2>5. ~IsSound(m)
    BY <2>1, <2>2, <2>4, SoundFits
  <2>6. QED
    BY <1>1, <2>1, <2>5, FailHolds
<1>8. CASE MakeGraph
  BY <1>1, <1>8, MakeGraphHolds
<1>9. CASE UNCHANGED vars
  <2>1. /\ definition' = definition /\ data' = data /\ graph' = graph /\ linked' = linked
        /\ roots' = roots /\ step' = step
    BY <1>9 DEF vars
  <2>2. IsDefinition(definition)' /\ Started' /\ PhasesInOrder'
    BY <1>1, <2>1, DefinitionKept DEF IInv, Started, PhasesInOrder, new_node, Nodes
  <2>3. DataRead' /\ FlawFound'
    BY <1>1, <2>1, DefinitionKept, DataKept DEF IInv, DataRead, FlawFound
  <2>4. \A n : /\ FieldsFit(data[n])' = FieldsFit(data[n])
               /\ NewNode(data[n])' = NewNode(data[n])
    BY <2>1, Zenon DEF FieldsFit, HasKind, NewNode
  <2>5. IsSequence(graph)' = IsSequence(graph)
    BY <2>1, Zenon DEF IsSequence, ToSet
  <2>6. GraphGrown' = GraphGrown
    BY <2>1, <2>4, <2>5, DataKept DEF GraphGrown
  <2>7. GraphMade' = GraphMade
    BY <2>1, <2>4, DefinitionKept, DataKept DEF GraphMade
  <2>8. QED
    BY <1>1, <2>2, <2>3, <2>6, <2>7 DEF IInv
<1>10. QED
  BY <1>1, <1>2, <1>3, <1>4, <1>5, <1>6, <1>7, <1>8, <1>9 DEF Next

LEMMA InvHolds == Spec => []IInv
  BY InitHolds, StepHolds, PTL DEF Spec

(***************************************************************************)
(* The program makes a graph of every definition whose nodes are all       *)
(* sound, and of no other.                                                 *)
(***************************************************************************)
THEOREM SoundDefinitionsAcceptedHolds == Spec => []SoundDefinitionsAccepted
<1>1. ASSUME IInv
      PROVE  SoundDefinitionsAccepted
  BY <1>1, SoundFits DEF IInv, DataRead, GraphMade, FlawFound, SoundDefinitionsAccepted
<1>2. QED
  BY <1>1, InvHolds, PTL

(***************************************************************************)
(* The graph of a consistent definition is a plan for the scheduler, with  *)
(* every node, every link and one source for each input.                   *)
(***************************************************************************)
THEOREM GraphIsPlanHolds == Spec => []GraphIsPlan
<1>1. ASSUME IInv, step = "done", IsConsistent
      PROVE  /\ DOMAIN graph = Nodes
             /\ Scheduling!IsLinked(Plan)
             /\ Scheduling!IsAnnotated(Plan)
             /\ roots = Scheduling!RootNodes(Plan)
             /\ \A n \in Nodes :
                   /\ Producers(n) = Named(n, "previous_nodes")
                   /\ Consumers(n) = Named(n, "next_nodes")
                   /\ \A i \in DOMAIN graph[n].input_data_definition_files :
                         graph[n].input_data_definition_files[i] = 0
                             <=> graph[n].previous_nodes[i] # Null
  <2>1. /\ IsDefinition(definition) /\ IsRead
        /\ \A n \in Nodes : FieldsFit(data[n]) /\ LinksFit(n)
        /\ graph = [n \in Nodes |-> LinkedNode(n)]
        /\ roots = {n \in Nodes : Named(n, "previous_nodes") = {}}
    BY <1>1, Zenon DEF IInv, DataRead, GraphMade
  <2>2. ASSUME NEW n \in Nodes
        PROVE  /\ graph[n].previous_nodes = Names(n, "previous_nodes")
               /\ graph[n].next_nodes = Names(n, "next_nodes")
               /\ graph[n].input_data_definition_files = Names(n, "input")
               /\ graph[n].is_checked =
                      [i \in DOMAIN Names(n, "output") |-> Names(n, "output")[i] # 0]
    BY <2>1, LinkedFields
  <2>3. ASSUME NEW n \in Nodes
        PROVE  /\ Names(n, "previous_nodes") \in Seq(Nodes \cup {Null})
               /\ Names(n, "next_nodes") \in Seq(Nodes \cup {Null})
    <3> DEFINE previous == Names(n, "previous_nodes")
               next == Names(n, "next_nodes")
    <3>1. previous \in Seq(Nat) /\ next \in Seq(Nat)
      BY <2>1, ListFields
    <3>2. /\ \A i \in DOMAIN previous : previous[i] \in Nodes \cup {Null}
          /\ \A i \in DOMAIN next : next[i] \in Nodes \cup {Null}
      BY <2>1, LinksLeadToNodes
    <3> HIDE DEF previous, next
    <3>3. QED
      BY <3>1, <3>2 DEF previous, next
  <2>4. /\ Plan.nodes = Nodes
        /\ Plan.previous_nodes = [n \in Nodes |-> graph[n].previous_nodes]
        /\ Plan.next_nodes = [n \in Nodes |-> graph[n].next_nodes]
        /\ Plan.is_checked = [n \in Nodes |-> graph[n].is_checked]
        /\ \A n \in Nodes :
              /\ Plan.input_projection[n] = [i \in DOMAIN graph[n].previous_nodes |->
                     IsProjected(graph[n].operation_parameters, "input_stream_params", i)]
              /\ Plan.output_projection[n] = [i \in DOMAIN graph[n].next_nodes |->
                     IsProjected(graph[n].operation_parameters, "output_stream_params", i)]
    <3>1. DOMAIN graph = Nodes
      BY <2>1
    <3>2. QED
      BY <3>1 DEF Plan
  <2>5. \A n \in Nodes : /\ Plan.previous_nodes[n] = Names(n, "previous_nodes")
                         /\ Plan.next_nodes[n] = Names(n, "next_nodes")
                         /\ Plan.is_checked[n] = graph[n].is_checked
    BY <2>2, <2>4
  <2>6. ASSUME NEW n \in Nodes
        PROVE  /\ Scheduling!Producers(Plan, n) = Named(n, "previous_nodes")
               /\ Scheduling!Consumers(Plan, n) = Named(n, "next_nodes")
    BY <2>5, Zenon DEF Scheduling!Producers, Scheduling!Consumers, Scheduling!Inputs,
       Scheduling!Outputs, Scheduling!Null, Named, Null
  <2>7. /\ \A n, m \in Nodes : m \in Named(n, "next_nodes") <=> n \in Named(m, "previous_nodes")
        /\ \A nodes \in SUBSET Nodes :
              nodes # {} => \E n \in nodes : Named(n, "previous_nodes") \cap nodes = {}
        /\ \A n \in Nodes : /\ "previous_nodes" \in Given(n)
                            /\ Len(Names(n, "output")) = Len(Names(n, "next_nodes"))
    BY <1>1, Zenon DEF IsConsistent
  <2>8. Scheduling!IsLinked(Plan)
    <3>1. /\ Plan.previous_nodes \in [Nodes -> Seq(Nodes \cup {Null})]
          /\ Plan.next_nodes \in [Nodes -> Seq(Nodes \cup {Null})]
      <4>1. /\ Plan.previous_nodes = [n \in Nodes |-> Names(n, "previous_nodes")]
            /\ Plan.next_nodes = [n \in Nodes |-> Names(n, "next_nodes")]
        BY <2>2, <2>4
      <4>2. QED
        BY <2>3, <4>1
    <3>2. \A n, m \in Nodes :
              m \in Scheduling!Consumers(Plan, n) <=> n \in Scheduling!Producers(Plan, m)
      BY <2>6, <2>7
    <3>3. Scheduling!IsAcyclic(Plan)
      <4>1. ASSUME NEW S \in SUBSET Nodes, S # {}
            PROVE  \E n \in S : Scheduling!Producers(Plan, n) \cap S = {}
        BY <2>6, <2>7, <4>1
      <4>2. QED
        BY <2>4, <4>1, Zenon DEF Scheduling!IsAcyclic
    <3>4. QED
      BY <2>4, <3>1, <3>2, <3>3, Zenon DEF Scheduling!IsLinked, Scheduling!Null, Null
  <2>9. Scheduling!IsAnnotated(Plan)
    <3>1. ASSUME NEW n \in Nodes
          PROVE  /\ Plan.is_checked[n] \in [Scheduling!Outputs(Plan, n) -> BOOLEAN]
                 /\ Plan.output_projection[n] \in [Scheduling!Outputs(Plan, n) -> BOOLEAN]
                 /\ Plan.input_projection[n] \in [Scheduling!Inputs(Plan, n) -> BOOLEAN]
      <4>1. /\ Scheduling!Outputs(Plan, n) = DOMAIN Names(n, "next_nodes")
            /\ Scheduling!Inputs(Plan, n) = DOMAIN Names(n, "previous_nodes")
        BY <2>5 DEF Scheduling!Outputs, Scheduling!Inputs
      <4>2. DOMAIN Names(n, "output") = DOMAIN Names(n, "next_nodes")
        <5>1. Names(n, "output") \in Seq(Nat) /\ Names(n, "next_nodes") \in Seq(Nat)
          BY <2>1, ListFields
        <5>2. QED
          BY <2>7, <5>1, LenProperties
      <4>3. \A parameters, k, i : IsProjected(parameters, k, i) \in BOOLEAN
        BY Zenon DEF IsProjected
      <4>4. /\ Plan.output_projection[n] \in [DOMAIN Names(n, "next_nodes") -> BOOLEAN]
            /\ Plan.input_projection[n] \in [DOMAIN Names(n, "previous_nodes") -> BOOLEAN]
        <5>1. /\ Plan.output_projection[n] = [i \in DOMAIN Names(n, "next_nodes") |->
                     IsProjected(graph[n].operation_parameters, "output_stream_params", i)]
              /\ Plan.input_projection[n] = [i \in DOMAIN Names(n, "previous_nodes") |->
                     IsProjected(graph[n].operation_parameters, "input_stream_params", i)]
          BY <2>2, <2>4
        <5>2. QED
          BY <4>3, <5>1
      <4>5. Plan.is_checked[n] \in [DOMAIN Names(n, "next_nodes") -> BOOLEAN]
        <5>1. Plan.is_checked[n] =
                  [i \in DOMAIN Names(n, "next_nodes") |-> Names(n, "output")[i] # 0]
          BY <2>2, <2>5, <4>2
        <5>2. QED
          BY <5>1
      <4>6. QED
        BY <4>1, <4>4, <4>5
    <3>2. QED
      BY <2>4, <3>1, Zenon DEF Scheduling!IsAnnotated
  <2>10. roots = Scheduling!RootNodes(Plan)
    BY <2>1, <2>4, <2>6 DEF Scheduling!RootNodes
  <2>11. ASSUME NEW n \in Nodes
         PROVE  /\ Producers(n) = Named(n, "previous_nodes")
                /\ Consumers(n) = Named(n, "next_nodes")
                /\ \A i \in DOMAIN graph[n].input_data_definition_files :
                      graph[n].input_data_definition_files[i] = 0
                          <=> graph[n].previous_nodes[i] # Null
    <3>1. Producers(n) = Named(n, "previous_nodes") /\ Consumers(n) = Named(n, "next_nodes")
      BY <2>2, Zenon DEF Producers, Consumers, Named
    <3>2. IsSound(n)
      BY <1>1, <2>1, SoundFits DEF IInv, DataRead
    <3>3. \A i \in DOMAIN Names(n, "input") :
              Names(n, "input")[i] = 0 <=> Names(n, "previous_nodes")[i] # Null
      BY <2>7, <3>2, Zenon DEF IsSound
    <3>4. QED
      BY <2>2, <3>1, <3>3
  <2>12. QED
    BY <2>1, <2>8, <2>9, <2>10, <2>11
<1>2. IInv => GraphIsPlan
  BY <1>1, Zenon DEF GraphIsPlan
<1>3. QED
  BY <1>2, InvHolds, PTL
=============================================================================
