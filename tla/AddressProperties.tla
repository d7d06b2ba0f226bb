------------------------- MODULE AddressProperties -------------------------
(***************************************************************************)
(* What the address space and its Browse service promise.                  *)
(***************************************************************************)
EXTENDS AddressSpace

\* A reference is kept at both of its nodes or at none, and none leads to a node
\* that is gone, unless a request asked for one side alone (deleteBidirectional,
\* deleteTargetReferences): additions, failed additions and deletions of whole
\* subtrees (removeIncomingReferences) leave no half of a reference.
ReferencesMutual == OneSided(refs) \subseteq askew

\* "A node is auto-deleted if all its hierarchical parents are being deleted"
\* (hasParentRef), and no other one: of the nodes that go in one step at most
\* one, the node of the request, has a parent that stays; no node that stays has
\* lost its last parent, and none its type, unless the type was itself such a
\* child (buildDeleteNodeSet, the refusal to delete a type with instances).
Parents(h) == {x.target : x \in {y \in Refs(h) : y.inverse /\ y.type \in Hierarchical}}
SubtreesDeleted ==
  [][LET gone == DOMAIN refs \ DOMAIN refs'
     IN gone # {} =>
          /\ \E n \in gone :
               /\ \A m \in gone \ {n} : Parents(refs[m]) \subseteq gone
               /\ n = Type => \A m \in DOMAIN refs' : Type \in TypeOf(refs[m]) => Type \in TypeOf(refs'[m])
          /\ \A m \in DOMAIN refs' : Parents(refs[m]) # {} => Parents(refs'[m]) # {}]_refs

=============================================================================
