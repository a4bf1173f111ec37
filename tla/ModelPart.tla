------------------------------ MODULE ModelPart ------------------------------
(***************************************************************************)
(* CoSimIO::ModelPart (src/co_sim_io/impl/model_part.hpp): a mesh built    *)
(* by CreateNewNode and CreateNewElement.  Nodes and elements are kept in  *)
(* the order of creation (std::vector); an element refers to its nodes by  *)
(* pointer, modelled by their ids.  Coordinates are data no check depends  *)
(* on and are left out.  A CO_SIM_IO_ERROR is an exception the caller may *)
(* catch and go on with the same model part; error records that the last *)
(* call threw.                                                             *)
(***************************************************************************)
EXTENDS Naturals, Sequences, SequencesExt

CONSTANTS
    Name,           \* the name the model part is constructed with
    NodeIds,        \* ids passed to CreateNewNode (0 is invalid)
    ElementIds,     \* ids passed to CreateNewElement (0 is invalid)
    ElementTypes,   \* element types passed to CreateNewElement
    MaxConn         \* longest connectivity passed to CreateNewElement

VARIABLES
    nodes,      \* mNodes: the node ids in order of creation
    elements,   \* mElements: [id, type, nodes] in order of creation
    error       \* the last call ended with an exception

vars == <<nodes, elements, error>>

(* FindNode/HasNode (lines 199-211, 227-230) and FindElement/HasElement   *)
(* (lines 213-225, 232-235): linear searches by id.                        *)
HasNode(id)    == \E i \in 1..Len(nodes) : nodes[i] = id
HasElement(id) == \E i \in 1..Len(elements) : elements[i].id = id

(* The constructor checks of Node (lines 38-49) and of Element (lines   *)
(* 81-91): an id of at least 1, and at least one node.                    *)
NodeIdValid(id) == id >= 1
ElementValid(id, conn) == id >= 1 /\ Len(conn) >= 1

Throw == error' = TRUE /\ UNCHANGED <<nodes, elements>>

(* The constructor (lines 118-122) throws for an empty name or one that  *)
(* contains a "."; only a model part with a valid name exists.            *)
NameValid(n) == n # <<>> /\ \A i \in 1..Len(n) : n[i] # "."

Init == NameValid(Name) /\ nodes = <<>> /\ elements = <<>> /\ error = FALSE

(* Mutation: the id check of the Node constructor (line 48) left out.     *)
CreateNewNodeAnyId(id) ==
    \/ HasNode(id) /\ Throw
    \/ /\ ~HasNode(id)
       /\ nodes' = Append(nodes, id)
       /\ error' = FALSE
       /\ UNCHANGED elements

(* CreateNewNode (lines 132-142): a duplicate id throws; otherwise the    *)
(* Node constructor (lines 38-49) throws for an id below 1 before the     *)
(* node is appended.                                                       *)
CreateNewNode(id) ==
    \/ HasNode(id) /\ Throw
    \/ ~HasNode(id) /\ ~NodeIdValid(id) /\ Throw
    \/ /\ ~HasNode(id) /\ NodeIdValid(id)
       /\ nodes' = Append(nodes, id)
       /\ error' = FALSE
       /\ UNCHANGED elements

(* Mutation: GetNode without its check (line 169), so an unknown id is    *)
(* taken as a node.                                                        *)
CreateNewElementUnchecked(id, type, conn) ==
    \/ HasElement(id) /\ Throw
    \/ /\ ~HasElement(id)
       /\ (id < 1 \/ conn = <<>>) /\ Throw
    \/ /\ ~HasElement(id) /\ id >= 1 /\ conn # <<>>
       /\ elements' = Append(elements, [id |-> id, type |-> type, nodes |-> conn])
       /\ error' = FALSE
       /\ UNCHANGED nodes

CreateNewElement(id, type, conn) ==
    \/ HasElement(id) /\ Throw
    \/ /\ ~HasElement(id)
       /\ \E i \in 1..Len(conn) : ~HasNode(conn[i])
       /\ Throw
    \/ /\ ~HasElement(id) /\ \A i \in 1..Len(conn) : HasNode(conn[i])
       /\ ~ElementValid(id, conn) /\ Throw
    \/ /\ ~HasElement(id) /\ \A i \in 1..Len(conn) : HasNode(conn[i])
       /\ ElementValid(id, conn)
       /\ elements' = Append(elements, [id |-> id, type |-> type, nodes |-> conn])
       /\ error' = FALSE
       /\ UNCHANGED nodes

(* GetNode (lines 166-178) and GetElement (lines 180-192) called by the   *)
(* user: they throw for an id that is not in the model part.              *)
GetNode(id) ==
    /\ error' = ~HasNode(id)
    /\ UNCHANGED <<nodes, elements>>

GetElement(id) ==
    /\ error' = ~HasElement(id)
    /\ UNCHANGED <<nodes, elements>>

Next ==
    \/ \E id \in NodeIds : CreateNewNode(id) \/ GetNode(id)
    \/ \E id \in ElementIds : GetElement(id)
    \/ \E id \in ElementIds, type \in ElementTypes, conn \in BoundedSeq(NodeIds, MaxConn) :
          CreateNewElement(id, type, conn)

Spec == Init /\ [][Next]_vars

-----------------------------------------------------------------------------
(* Properties                                                              *)

(* Ids are IdType values of at least 1 (the checks of the constructors).  *)
TypeOK ==
    /\ nodes \in Seq({id \in NodeIds : id >= 1})
    /\ elements \in Seq([id : {id \in ElementIds : id >= 1}, type : ElementTypes,
                         nodes : Seq(NodeIds)])
    /\ error \in BOOLEAN

ElementsReferToNodes ==
    \A i \in 1..Len(elements) :
        /\ elements[i].nodes # <<>>
        /\ ToSet(elements[i].nodes) \subseteq ToSet(nodes)

=============================================================================
