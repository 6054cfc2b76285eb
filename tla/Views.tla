------------------------------- MODULE Views --------------------------------
(***************************************************************************)
(* The views of op-server (viewfilter.rs): the registry that gives every   *)
(* distinct view a number, which board.rs and layout.rs fill at boot with  *)
(* the numbers they were given before, and the masks of a class that has   *)
(* more fields than a mask has bits, kept in buckets.                      *)
(*                                                                         *)
(* Numbers are those of the code and start at 0; a ViewNodeId is a u8, so  *)
(* it is taken modulo Span.                                                *)
(***************************************************************************)
EXTENDS Integers, Sequences

CONSTANTS
  Concepts, Masks,   \* what a view shows, and of what
  Span,              \* the numbers a ViewNodeId can be, 256
  BucketWidth,       \* BUCKET_WIDTH, 256
  Names,             \* names of fields
  MaxChildren, MaxFields   \* bounds of the model

ASSUME ViewsAssumption ==
  /\ Span \in Nat \ {0}
  /\ BucketWidth \in Nat \ {0}
  /\ MaxChildren \in Nat /\ MaxFields \in Nat

VARIABLES
  nodes,      \* ViewRegistry.nodes
  given,      \* history: the views asked for, each with the number given for it
  panicked,   \* the registry was full and the program stopped
  universe    \* the fields of a class, in their order

vars == <<nodes, given, panicked, universe>>

Id == 0 .. Span - 1
Node == [concept : Concepts, mask : Masks, children : Seq(Id)]
ViewNode(concept, mask, children) == [concept |-> concept, mask |-> mask, children |-> children]

\* resolve
Resolves(id, node) == id < Len(nodes) /\ nodes[id + 1] = node

-----------------------------------------------------------------------------
Init ==
  /\ nodes = <<>> /\ given = {} /\ panicked = FALSE
  /\ universe = <<>>

\* Children before parents.
ChildrenKnown(children) == \A k \in DOMAIN children : children[k] < Len(nodes)

\* The number of an equal view.
Reuse(node, id) ==
  /\ Resolves(id, node)
  /\ given' = given \cup {[node |-> node, id |-> id]}
  /\ UNCHANGED <<nodes, panicked>>

\* Mutant: no limit is set to the registry.
AddUnlimited(node) ==
  /\ \A id \in 0 .. Len(nodes) - 1 : nodes[id + 1] # node
  /\ Len(nodes) <= Span
  /\ nodes' = Append(nodes, node)
  /\ given' = given \cup {[node |-> node, id |-> Len(nodes) % Span]}
  /\ UNCHANGED panicked

\* A new view and its number, or the assert that there is one left.
Add(node) ==
  /\ \A id \in 0 .. Len(nodes) - 1 : nodes[id + 1] # node
  /\ IF Len(nodes) < Span
     THEN /\ nodes' = Append(nodes, node)
          /\ given' = given \cup {[node |-> node, id |-> Len(nodes) % Span]}
          /\ UNCHANGED panicked
     ELSE panicked' = TRUE /\ UNCHANGED <<nodes, given>>

Intern(node) ==
  /\ ~panicked /\ ChildrenKnown(node.children)
  /\ (\E id \in Id : Reuse(node, id)) \/ Add(node)
  /\ UNCHANGED universe

\* The class gets a field more.
Declare(name) ==
  /\ ~panicked /\ Len(universe) < MaxFields
  /\ universe' = Append(universe, name)
  /\ UNCHANGED <<nodes, given, panicked>>

-----------------------------------------------------------------------------
(* bucketized_masks: the universe in pieces of BucketWidth, of each the    *)
(* set of positions present, counted from the start of the piece.          *)
BucketCount == (Len(universe) + BucketWidth - 1) \div BucketWidth

BucketizedMasks(present) ==
  [b \in 0 .. BucketCount - 1 |->
     {k \in 0 .. BucketWidth - 1 :
        b * BucketWidth + k < Len(universe) /\ universe[b * BucketWidth + k + 1] \in present}]

\* Mutant: positions count from 1.
BucketsHaveFromOne(buckets, pos) ==
  (pos + 1) \div BucketWidth \in DOMAIN buckets
  /\ (pos + 1) % BucketWidth \in buckets[(pos + 1) \div BucketWidth]

BucketsHave(buckets, pos) ==
  pos \div BucketWidth \in DOMAIN buckets
  /\ pos % BucketWidth \in buckets[pos \div BucketWidth]

Next ==
  \/ \E concept \in Concepts, mask \in Masks, n \in 0 .. MaxChildren :
       \E children \in [1 .. n -> Id] : Intern(ViewNode(concept, mask, children))
  \/ \E name \in Names : Declare(name)

Spec == Init /\ [][Next]_vars

-----------------------------------------------------------------------------
\* The values of the variables.
TypeOK ==
  /\ nodes \in Seq(Node) /\ Len(nodes) <= Span
  /\ given \in SUBSET [node : Node, id : Id]
  /\ panicked \in BOOLEAN
  /\ universe \in Seq(Names)

(* verify_stack_order: a view is made of views with lower numbers, so no   *)
(* view contains itself.                                                   *)
StackOrder ==
  \A k \in DOMAIN nodes : \A c \in DOMAIN nodes[k].children : nodes[k].children[c] < k - 1

(* verify_bijective: a number once given stands for the view it was given  *)
(* for, and for no other, however many views are added later.              *)
Bijective ==
  /\ \A g \in given : Resolves(g.id, g.node)
  /\ \A j, k \in DOMAIN nodes : nodes[j] = nodes[k] => j = k

(* buckets_match_direct: in a class of any size a position looked up in    *)
(* the buckets is found exactly if its field is present.                   *)
BucketsMatchDirect ==
  \A present \in SUBSET Names, pos \in 0 .. Len(universe) - 1 :
    BucketsHave(BucketizedMasks(present), pos) <=> universe[pos + 1] \in present

=============================================================================
