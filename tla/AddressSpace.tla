---------------------------- MODULE AddressSpace ----------------------------
(***************************************************************************)
(* The address space of the server: nodes with their references (created   *)
(* and deleted by ua_services_nodemanagement.c, kept by ua_nodes.c) and    *)
(* the Browse service, which hands out the references of a node in several *)
(* responses (ua_services_view.c).  A reference is kept twice, at its      *)
(* source and, inverse, at its target, in arrays that are reordered by     *)
(* every deletion; what is left of a Browse is remembered as the next      *)
(* reference in that order.                                                *)
(*                                                                         *)
(* Every operation runs to its end under the service mutex.  The nodes are *)
(* objects, apart from the folder and the ObjectType that the server       *)
(* starts with; the type has no children, so none are copied, and a        *)
(* constructor does no more than to succeed or fail.                       *)
(*                                                                         *)
(* The variants named Defect... are explained in module Subscription.      *)
(***************************************************************************)
EXTENDS SequencesExt

CONSTANTS
  Folder,          \* the folder of the server's own objects and types
  Type,            \* the ObjectType of all objects
  Object,          \* NodeIds of objects
  NoNode,          \* the null NodeId
  Parent,          \* parents that clients ask for, some of them not there
  Link,            \* references clients add and delete: <<source, type, target>>
  Description,     \* Browse requests: [node, direction, types]
  MaxReferences,   \* references in a response (maxReferencesPerNode)
  MaxCps,          \* UA_MAXCONTINUATIONPOINTS
  MaxAskew         \* bound: links with one side only

Node == Object \union {Folder, Type}
RefType == {"Organizes", "HasTypeDefinition"}
Hierarchical == {"Organizes"}

ASSUME AddressAssumption ==
  /\ Folder # Type /\ {Folder, Type} \intersect Object = {} /\ NoNode \notin Node
  /\ Parent \subseteq Node \union {NoNode}
  /\ \A l \in Link : l \in Node \X RefType \X Node /\ l[1] # l[3]
  /\ Description \subseteq [node : Node, direction : {"forward", "inverse", "both"}, types : SUBSET RefType]
  /\ MaxReferences \in Nat \ {0} /\ {MaxCps, MaxAskew} \subseteq Nat

VARIABLES
  refs,      \* the nodestore: references of a node, grouped into kinds
  begun,     \* nodes that are not constructed yet
  cps,       \* the session's continuation points, newest first
  available, \* session->availableContinuationPoints
  askew,     \* history: links made one-sided by request
  ended      \* history: the browse that has just come to its end

space == <<refs, begun, askew>>
vars == <<refs, begun, cps, available, askew, ended>>

NoBrowse == [sent |-> <<>>, first |-> {}]

----------------------------------------------------------------------------
(* The references of a node *)

\* The references in the order of the arrays.
Flat(h) ==
  FlattenSeq([i \in DOMAIN h |->
    [j \in DOMAIN h[i].targets |-> [type |-> h[i].type, inverse |-> h[i].inverse, target |-> h[i].targets[j]]]])

\* The same references as a set, where their order does not matter.
Refs(h) ==
  UNION {{[type |-> k.type, inverse |-> k.inverse, target |-> m] : m \in Range(k.targets)} : k \in Range(h)}

Kinds(h, t, inverse) == {i \in DOMAIN h : h[i].type = t /\ h[i].inverse = inverse}
Holds(h, t, inverse, m) == \E i \in Kinds(h, t, inverse) : m \in Range(h[i].targets)

\* UA_Node_addReference: at the end of its kind, or as a new kind.
AddReferenceTo(h, t, inverse, m) ==
  IF Holds(h, t, inverse, m) THEN h
  ELSE IF Kinds(h, t, inverse) = {}
    THEN Append(h, [type |-> t, inverse |-> inverse, targets |-> <<m>>])
    ELSE [h EXCEPT ![Min(Kinds(h, t, inverse))].targets = Append(@, m)]

\* The last element moves to the place of the removed one.
Unplaced(s, i) == Front([s EXCEPT ![i] = Last(s)])

\* UA_Node_deleteReference: a kind without targets is removed too.
DeleteReferenceFrom(h, t, inverse, m) ==
  IF ~Holds(h, t, inverse, m) THEN h
  ELSE LET i == Min({k \in Kinds(h, t, inverse) : m \in Range(h[k].targets)})
           left == Unplaced(h[i].targets, SelectInSeq(h[i].targets, LAMBDA x : x = m))
       IN IF left = <<>> THEN Unplaced(h, i) ELSE [h EXCEPT ![i].targets = left]

----------------------------------------------------------------------------
(* References between nodes; r is a nodestore *)

\* Operation_addReference, for two nodes that exist.
WithReference(r, s, t, m) ==
  [r EXCEPT ![s] = AddReferenceTo(@, t, FALSE, m), ![m] = AddReferenceTo(@, t, TRUE, s)]

\* Operation_deleteReference in one direction.
WithoutOneWay(r, s, t, inverse, m) ==
  IF s \in DOMAIN r THEN [r EXCEPT ![s] = DeleteReferenceFrom(@, t, inverse, m)] ELSE r

\* removeIncomingReferences
DefectRemoveIncoming(r, n) ==
  FoldLeft(LAMBDA q, x : WithoutOneWay(q, x.target, x.type, x.inverse, n), r, Flat(r[n]))
RemoveIncoming(r, n) ==
  FoldLeft(LAMBDA q, x : WithoutOneWay(q, x.target, x.type, ~x.inverse, n), r, Flat(r[n]))

\* hasParentRef: a parent that is not among the nodes of tree.
DefectHasParentRef(h, tree) ==
  \E x \in Refs(h) : ~x.inverse /\ x.type \in Hierarchical /\ x.target \notin Range(tree)
HasParentRef(h, tree) ==
  \E x \in Refs(h) : x.inverse /\ x.type \in Hierarchical /\ x.target \notin Range(tree)

\* autoDeleteChildren
WithChildren(r, tree, n) ==
  FoldLeft(LAMBDA q, x :
      IF x.inverse \/ x.type \notin Hierarchical \/ x.target \notin DOMAIN r
           \/ x.target \in Range(q) \/ HasParentRef(r[x.target], q)
        THEN q ELSE Append(q, x.target),
    tree, Flat(r[n]))

\* buildDeleteNodeSet: the children are looked for until the set grows no more.
DeleteNodeSet(r, n) ==
  FoldLeft(LAMBDA tree, pos :
      IF pos > Len(tree) \/ tree[pos] \notin DOMAIN r THEN tree ELSE WithChildren(r, tree, tree[pos]),
    <<n>>, [pos \in 1..Cardinality(DOMAIN r) |-> pos])

\* deleteNodeSet, children first.
WithoutNodes(r, tree, removeTargetRefs) ==
  FoldLeft(LAMBDA q, n :
      IF n \notin DOMAIN q THEN q
      ELSE Restrict(IF removeTargetRefs THEN RemoveIncoming(q, n) ELSE q, DOMAIN q \ {n}),
    r, Reverse(tree))

\* UA_Node_hasSubTypeOrInstances
HasInstances(h) == Kinds(h, "HasTypeDefinition", TRUE) # {}

\* The links of which exactly one side is there.
HeldForward(r, l) == l[1] \in DOMAIN r /\ Holds(r[l[1]], l[2], FALSE, l[3])
HeldInverse(r, l) == l[3] \in DOMAIN r /\ Holds(r[l[3]], l[2], TRUE, l[1])
Sides(r) ==
  UNION {{IF x.inverse THEN <<x.target, x.type, n>> ELSE <<n, x.type, x.target>> : x \in Refs(r[n])}
         : n \in DOMAIN r}
OneSided(r) == {l \in Sides(r) : HeldForward(r, l) # HeldInverse(r, l)}

----------------------------------------------------------------------------
(* Browsing *)

\* browseReferences: the references of a node that match a description.
Matching(h, d) ==
  SelectSeq(Flat(h), LAMBDA x :
    x.type \in d.types /\ (x.inverse => d.direction # "forward") /\ (~x.inverse => d.direction # "inverse"))

IsNext(x, next) == x.type = next.type /\ x.target = next.target

\* A deletion at the browsed node reorders its references, and the next
\* reference is found again by type and target only: a browse promises little
\* after the one, or when the other can mean two references.  What it has sent
\* is forgotten then.
Ambiguous(h, d) == \E x, y \in Range(Matching(h, d)) : x # y /\ IsNext(x, y)
Lost(cp) == [cp EXCEPT !.sent = <<>>, !.first = {}, !.disturbed = TRUE]
Disturbed(cp, r, r2) ==
  \/ cp.disturbed
  \/ cp.d.node \notin DOMAIN r2
  \/ ~(Refs(r[cp.d.node]) \subseteq Refs(r2[cp.d.node]))
  \/ Ambiguous(r2[cp.d.node], cp.d)

\* What every step on the address space does to the histories.
Notice(touched) ==
  /\ askew' = {l \in askew \union touched : HeldForward(refs', l) # HeldInverse(refs', l)}
  /\ Cardinality(askew') <= MaxAskew
  /\ cps' = [i \in DOMAIN cps |->
       IF Disturbed(cps[i], refs, refs') THEN Lost(cps[i]) ELSE cps[i]]
  /\ ended' = NoBrowse

Init ==
  /\ refs = WithReference(Folder :> <<>> @@ Type :> <<>>, Folder, "Organizes", Type)
  /\ begun = {} /\ cps = <<>> /\ available = MaxCps
  /\ askew = {} /\ ended = NoBrowse

----------------------------------------------------------------------------
(* Node management *)

\* checkParentReference: a parent that exists, or none, which an object may.
ParentAllowed(n, parent) == parent = NoNode \/ (parent \in DOMAIN refs /\ parent # n)

\* AddNode_addRefs
AddRefs(r, n, parent) ==
  WithReference(IF parent = NoNode THEN r ELSE WithReference(r, parent, "Organizes", n),
                n, "HasTypeDefinition", Type)

\* Operation_addNode_begin.  With anything missing the new node is deleted again
\* at once.
AddNodeBegin(n, parent) ==
  /\ n \notin DOMAIN refs /\ Type \in DOMAIN refs /\ ParentAllowed(n, parent)
  /\ refs' = AddRefs(n :> <<>> @@ refs, n, parent)
  /\ begun' = begun \union {n}
  /\ Notice({})
  /\ UNCHANGED available

\* deleteNodeOperation; a type with instances stays.
Deleted(n, removeTargetRefs) ==
  IF HasInstances(refs[n])
    THEN refs' = refs /\ begun' = begun /\ Notice({})
    ELSE LET tree == DeleteNodeSet(refs, n)
         IN /\ refs' = WithoutNodes(refs, tree, removeTargetRefs)
            /\ begun' = begun \ Range(tree)
            /\ Notice(IF removeTargetRefs THEN {}
                      ELSE {l \in Sides(refs) : {l[1], l[3]} \intersect Range(tree) # {}})

\* getNodeType
TypeOf(h) == {x.target : x \in {y \in Refs(h) : ~y.inverse /\ y.type = "HasTypeDefinition"}}

\* AddNode_finish.  Without a type, or when a constructor fails, the node is
\* deleted, with what was put below it since it was begun.
AddNodeFinish(n) ==
  /\ n \in begun
  /\ UNCHANGED available
  /\ \/ /\ Type \in TypeOf(refs[n]) /\ Type \in DOMAIN refs
        /\ begun' = begun \ {n} /\ UNCHANGED refs /\ Notice({})
     \/ Deleted(n, TRUE)

DeleteNode(n, removeTargetRefs) ==
  /\ n \in DOMAIN refs \ {Folder}
  /\ Deleted(n, removeTargetRefs)
  /\ UNCHANGED available

\* Operation_addReference; a side that was missing alone is added.
AddReference(l) ==
  /\ {l[1], l[3]} \subseteq DOMAIN refs
  /\ refs' = WithReference(refs, l[1], l[2], l[3])
  /\ Notice({})
  /\ UNCHANGED <<begun, available>>

\* Operation_deleteReference.  Only when the first side was there the other one
\* is deleted.
DeleteReference(l, isForward, bidirectional) ==
  /\ IF isForward THEN HeldForward(refs, l) ELSE HeldInverse(refs, l)
  /\ LET source == IF isForward THEN l[1] ELSE l[3]
         target == IF isForward THEN l[3] ELSE l[1]
         r == WithoutOneWay(refs, source, l[2], ~isForward, target)
     IN refs' = IF bidirectional THEN WithoutOneWay(r, target, l[2], isForward, source) ELSE r
  /\ Notice(IF bidirectional THEN {} ELSE {l})
  /\ UNCHANGED <<begun, available>>

----------------------------------------------------------------------------
(* The view service *)

\* What a response holds and what comes after it, from position i of the
\* references m.
Response(m, i) == SubSeq(m, i, i + MaxReferences - 1)
After(i) == i + MaxReferences

\* Operation_Browse: without a free continuation point an error.
Browse(d) ==
  /\ d.node \in DOMAIN refs
  /\ LET m == Matching(refs[d.node], d)
         cp == [d |-> d, next |-> m[After(1)], sent |-> Response(m, 1),
                first |-> Range(m), disturbed |-> FALSE]
     IN IF Len(m) < After(1)
          THEN /\ ended' = [sent |-> m, first |-> Range(m)]
               /\ UNCHANGED <<cps, available>>
          ELSE /\ available > 0
               /\ cps' = <<IF Ambiguous(refs[d.node], d) THEN Lost(cp) ELSE cp>> \o cps
               /\ available' = available - 1
               /\ ended' = NoBrowse
  /\ UNCHANGED space

Dropped(i) == cps' = RemoveAt(cps, i) /\ available' = available + 1

\* Operation_BrowseNext.  When the node or the next reference is gone the
\* continuation point goes with an error.
BrowseNext(i) ==
  /\ LET cp == cps[i]
         m == IF cp.d.node \in DOMAIN refs THEN Matching(refs[cp.d.node], cp.d) ELSE <<>>
         k == SelectInSeq(m, LAMBDA x : IsNext(x, cp.next))
         sent == IF cp.disturbed THEN <<>> ELSE cp.sent \o Response(m, k)
     IN \/ k = 0 /\ Dropped(i) /\ ended' = NoBrowse
        \/ /\ k > 0 /\ Len(m) < After(k)
           /\ Dropped(i)
           /\ ended' = [sent |-> sent, first |-> cp.first]
        \/ /\ k > 0 /\ Len(m) >= After(k)
           /\ cps' = [cps EXCEPT ![i].next = m[After(k)], ![i].sent = sent]
           /\ ended' = NoBrowse /\ UNCHANGED available
  /\ UNCHANGED space

ReleaseContinuationPoint(i) == Dropped(i) /\ ended' = NoBrowse /\ UNCHANGED space

\* UA_Session_clear, and a new session.
CloseSession ==
  /\ cps # <<>> /\ cps' = <<>> /\ available' = MaxCps /\ ended' = NoBrowse
  /\ UNCHANGED space

Next ==
  \/ \E n \in Object, p \in Parent : AddNodeBegin(n, p)
  \/ \E n \in Object : AddNodeFinish(n)
  \/ \E n \in Node, all \in BOOLEAN : DeleteNode(n, all)
  \/ \E l \in Link : AddReference(l)
  \/ \E l \in Link, forward, both \in BOOLEAN : DeleteReference(l, forward, both)
  \/ \E d \in Description : Browse(d)
  \/ \E i \in DOMAIN cps : BrowseNext(i)
  \/ \E i \in DOMAIN cps : ReleaseContinuationPoint(i)
  \/ CloseSession

Spec == Init /\ [][Next]_vars
=============================================================================
