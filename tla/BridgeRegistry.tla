--------------------------- MODULE BridgeRegistry ---------------------------
(***************************************************************************)
(* The names of the bridge library (src/DLLtoUnity/dllmain.cpp).  A script *)
(* speaks of objects and variables by name; the library translates: at the *)
(* server with ObjectNodes, filled by OPC_ServerAddVariable, at the client *)
(* with ClientObjectNodes, filled by walking through the server's address  *)
(* space, and back again with the tables of the subscribed variables, from *)
(* the NodeId or the id of a MonitoredItem to the names.                   *)
(*                                                                         *)
(* Client and server are one pair: the client browses in several requests, *)
(* between which the server's script adds variables or creates its server  *)
(* anew.  Requests are one step each; what a server does with them is      *)
(* taken from open62541.  Values are left out: which node a name or a      *)
(* notification stands for is what the library adds.                       *)
(*                                                                         *)
(* The variants named Defect... are explained in module Subscription.      *)
(***************************************************************************)
EXTENDS SequencesExt, TLC

CONSTANTS
  Object,        \* names of objects
  Var,           \* names of variables
  Length,        \* the length of a variable's name
  Root,          \* "", where variables stand without an object
  NoName,        \* no string in a numeric NodeId
  MaxNode,       \* bound: nodes of one server
  MaxServers,    \* bound: servers ever created
  MaxConnects,   \* bound: calls of OPC_ClientConnect
  MaxWanted,     \* bound: variables on the client's list
  MaxSubs        \* bound: subscriptions of one session

ASSUME RegistryAssumption ==
  /\ Root \notin Object /\ NoName \notin Var
  /\ Length \in [Var -> Nat \ {0}]
  /\ {MaxNode, MaxServers, MaxConnects, MaxWanted, MaxSubs} \subseteq Nat

Name == (Object \union {Root}) \X Var

\* A UA_NodeId is numeric or a string, in a union: identifier.numeric of a
\* string is the length, the first member of UA_String.
Numeric(n) == [numeric |-> n, string |-> NoName]
StringId(v) == [numeric |-> Length[v], string |-> v]
Null == Numeric(0)

VARIABLES
  node,             \* the nodes of the server, oldest first
  servers,          \* servers created so far
  objectNodes,      \* ObjectNodes: object to its NodeId and its variables
  serverItems,      \* NodeIds with a local MonitoredItem
  serverRegistered, \* allServerRegisteredSubscription
  connects,         \* calls of OPC_ClientConnect so far
  connected,        \* the client's session can be used
  pc,               \* what the client's caller is doing
  browsing,         \* the calls of Client_Service_browse_recursive, innermost last
  clientNodes,      \* ClientObjectNodes: object to its variables
  wanted,           \* allClientSubscription
  subs,             \* the session's subscriptions: monitoredItemId to NodeId
  registered,       \* allRegisteredSubscription
  browsed,          \* history: the server that the last browse began with
  changed,          \* history: the names that browse need not have seen
  astray            \* history: variables were subscribed with the names of an
                    \* earlier server

serverVars == <<node, servers, objectNodes, serverItems, serverRegistered>>
clientVars == <<connects, connected, pc, browsing, clientNodes, wanted, subs, registered, browsed, astray>>
vars == <<serverVars, clientVars, changed>>

Empty == [x \in {} |-> Null]
With(f, x, y) == (x :> y) @@ f

\* operator[] of a map: a name that is not there gets the NodeId zero.
Entry(f, x) == IF x \in DOMAIN f THEN f[x] ELSE Null

Init ==
  /\ node = <<>> /\ servers = 0
  /\ objectNodes = Empty /\ serverItems = {} /\ serverRegistered = Empty
  /\ connects = 0 /\ connected = FALSE /\ pc = "none" /\ browsing = <<>>
  /\ clientNodes = Empty /\ wanted = <<>> /\ subs = <<>> /\ registered = Empty
  /\ browsed = 0 /\ changed = Name /\ astray = FALSE

-----------------------------------------------------------------------------
(* The server. *)

Ids == {node[i].id : i \in DOMAIN node}

\* The id of a new node depends on nothing but the number of nodes there are,
\* so that a server created anew assigns the ids of the last one again.  The
\* ids lie above all lengths of names.
Assigned(n) == Numeric(100 + n)

\* OPC_ServerCreate: new tables, and a server without the nodes of the last
\* one.  Its clients lose their connection and their session.
ServerCreate ==
  /\ servers < MaxServers
  /\ servers' = servers + 1
  /\ node' = <<>> /\ serverItems' = {}
  /\ objectNodes' = Empty /\ serverRegistered' = Empty
  /\ connected' = FALSE /\ subs' = <<>>
  /\ changed' = Name
  /\ UNCHANGED <<connects, pc, browsing, clientNodes, wanted, registered, browsed, astray>>

\* OPC_ServerAddVariable without an object: a string NodeId; a second variable
\* of that name is refused.
AddRootVariable(v) ==
  /\ servers > 0 /\ Len(node) < MaxNode
  /\ StringId(v) \notin Ids
  /\ node' = Append(node, [id |-> StringId(v), parent |-> Null, name |-> v])
  /\ UNCHANGED <<servers, objectNodes, serverItems, serverRegistered, clientVars, changed>>

\* The object, when it is not known.
NewObject(o) ==
  IF o \in DOMAIN objectNodes THEN <<>>
  ELSE <<[id |-> Assigned(Len(node) + 1), parent |-> Null, name |-> o]>>

\* OPC_ServerAddVariable with an object.  Nothing refuses a second variable of
\* the same name: the table then names the newer.
AddVariable(o, v) ==
  /\ servers > 0 /\ Len(node) + 2 <= MaxNode
  /\ LET known == node \o NewObject(o)
         object == IF o \in DOMAIN objectNodes THEN objectNodes[o]
                   ELSE [id |-> Last(known).id, vars |-> Empty]
         id == Assigned(Len(known) + 1)
     IN /\ node' = Append(known, [id |-> id, parent |-> object.id, name |-> v])
        /\ objectNodes' = With(objectNodes, o, [object EXCEPT !.vars = With(@, v, id)])
  /\ changed' = changed \union {<<o, v>>}
  /\ UNCHANGED <<servers, serverItems, serverRegistered, clientVars>>

\* What OPC_ServerSubscription addresses; for an unknown object it follows a null
\* pointer.  (The calls that read and write look for the variables of the root
\* in another namespace, where there are none.)
ServerTarget(o, v) == IF o = Root THEN StringId(v) ELSE Entry(objectNodes[o].vars, v)

\* Note the names under the numeric identifier, whatever kind it is.
RegisterServer(id, name) == serverRegistered' = With(serverRegistered, id.numeric, name)

\* OPC_ServerSubscription.  Asking for a variable adds its name to the table,
\* and a MonitoredItem that cannot be created is registered all the same.
ServerSubscription(o, v) ==
  /\ servers > 0
  /\ o \in DOMAIN objectNodes \union {Root}
  /\ objectNodes' = IF o = Root THEN objectNodes
                    ELSE [objectNodes EXCEPT ![o].vars = With(@, v, Entry(@, v))]
  /\ LET id == ServerTarget(o, v)
     IN /\ serverItems' = serverItems \union ({id} \intersect Ids)
        /\ RegisterServer(id, <<o, v>>)
  /\ UNCHANGED <<node, servers, clientVars, changed>>

-----------------------------------------------------------------------------
(* The client's connection. *)

\* OPC_ClientConnect: new tables and a new client.
ClientConnect ==
  /\ servers > 0 /\ pc \in {"none", "idle"}
  /\ connects < MaxConnects
  /\ connects' = connects + 1
  /\ connected' = TRUE /\ pc' = "idle"
  /\ clientNodes' = Empty /\ wanted' = <<>> /\ registered' = Empty /\ subs' = <<>>
  /\ browsed' = servers /\ changed' = Name /\ astray' = FALSE
  /\ UNCHANGED <<serverVars, browsing>>

\* The connection breaks, at any time.
Break ==
  /\ connected
  /\ connected' = FALSE
  /\ UNCHANGED <<serverVars, connects, pc, browsing, clientNodes, wanted, subs, registered, browsed, changed, astray>>

\* UA_Client_run_iterate in OPC_ClientUpdate connects again, with the old
\* session or with a new one.
Reconnect ==
  /\ pc = "idle" /\ ~connected
  /\ connected' = TRUE
  /\ subs' \in {subs, <<>>}
  /\ UNCHANGED <<serverVars, connects, pc, browsing, clientNodes, wanted, registered, browsed, changed, astray>>

-----------------------------------------------------------------------------
(* Reading the structure of the server. *)

\* The nodes below a node in the order of their creation; a request that fails
\* has none.
Children(id) == IF connected THEN SelectSeq(node, LAMBDA n : n.parent = id) ELSE <<>>

\* OPC_UA_Client_Service_browse empties the table and asks for the folder
\* Objects.
Browse ==
  /\ pc = "idle"
  /\ pc' = "browse"
  /\ clientNodes' = Empty
  /\ browsing' = <<[parent |-> Root, refs |-> Children(Null)]>>
  /\ browsed' = servers /\ changed' = IF connected THEN {} ELSE Name
  /\ UNCHANGED <<serverVars, connects, connected, wanted, subs, registered, astray>>

DefectFirstStays(parent, ref) ==
  IF parent = Root THEN clientNodes
  ELSE LET known == IF parent \in DOMAIN clientNodes THEN clientNodes[parent] ELSE Empty
       IN With(clientNodes, parent, known @@ (ref.name :> ref.id))

\* Note the child under its parent's name.  Of two of the same name the later
\* one stays; the children of the folder Objects are not noted.
Noted(parent, ref) ==
  IF parent = Root THEN clientNodes
  ELSE LET known == IF parent \in DOMAIN clientNodes THEN clientNodes[parent] ELSE Empty
       IN With(clientNodes, parent, With(known, ref.name, ref.id))

\* Client_Service_browse_recursive, one reference: note it, and walk through it
\* first when it is an object.  A request that fails while walking leaves the
\* table incomplete without a word.
BrowseNext ==
  /\ pc = "browse" /\ browsing # <<>> /\ Last(browsing).refs # <<>>
  /\ LET frame == Last(browsing)
         ref == Head(frame.refs)
         rest == Append(Front(browsing), [frame EXCEPT !.refs = Tail(@)])
     IN /\ clientNodes' = Noted(frame.parent, ref)
        /\ IF ref.name \in Object
           THEN /\ browsing' = Append(rest, [parent |-> ref.name, refs |-> Children(ref.id)])
                /\ changed' = IF connected THEN changed ELSE Name
           ELSE browsing' = rest /\ UNCHANGED changed
  /\ UNCHANGED <<serverVars, connects, connected, pc, wanted, subs, registered, browsed, astray>>

BrowseReturn ==
  /\ pc = "browse" /\ browsing # <<>> /\ Last(browsing).refs = <<>>
  /\ browsing' = Front(browsing)
  /\ pc' = IF Len(browsing) = 1 THEN "idle" ELSE pc
  /\ UNCHANGED <<serverVars, connects, connected, clientNodes, wanted, subs, registered, browsed, changed, astray>>

-----------------------------------------------------------------------------
(* Subscribing. *)

\* checkFunction
Known(o, v) == o \in DOMAIN clientNodes /\ v \in DOMAIN clientNodes[o]

\* What the client's calls address.
ClientTarget(o, v) == IF o = Root THEN StringId(v) ELSE Entry(clientNodes[o], v)

\* OPC_ClientSubscriptionAddVariable
ClientSubscriptionAddVariable(o, v) ==
  /\ pc = "idle" /\ Len(wanted) < MaxWanted
  /\ o # Root => Known(o, v)
  /\ wanted' = Append(wanted, <<o, v>>)
  /\ UNCHANGED <<serverVars, connects, connected, pc, browsing, clientNodes, subs, registered, browsed, changed, astray>>

\* OPC_ClientSubscriptions, first the subscription ...
CreateSubscription ==
  /\ pc = "idle" /\ wanted # <<>> /\ Len(subs) < MaxSubs
  /\ subs' = IF connected THEN Append(subs, <<>>) ELSE subs
  /\ pc' = "items"
  /\ UNCHANGED <<serverVars, connects, connected, browsing, clientNodes, wanted, registered, browsed, changed, astray>>

\* Which of the variables on the list exist, and the ids their MonitoredItems
\* get: one counter for each subscription, 0 for an item that is not created.
Exists(i) == ClientTarget(wanted[i][1], wanted[i][2]) \in Ids
ItemId(i) == IF Exists(i) THEN Cardinality({j \in 1..i : Exists(j)}) ELSE 0

\* The table after the loop over the results; of the items with one id the
\* last one stays.
Registered ==
  LET ids == {ItemId(i) : i \in DOMAIN wanted}
      LastWith(id) == CHOOSE i \in DOMAIN wanted :
                        /\ ItemId(i) = id
                        /\ \A j \in DOMAIN wanted : ItemId(j) = id => j <= i
  IN [id \in ids |-> wanted[LastWith(id)]] @@ registered

DefectCleared == <<>>

\* The list after the call, whose clear() is commented out.
Remaining == wanted

\* ... then an item for every variable on the list, those of earlier calls
\* included.  Without an answer, or with an object that the last browse has not
\* found, the call follows a null pointer.
CreateItems ==
  /\ pc = "items"
  /\ IF ~connected \/ \E i \in DOMAIN wanted : wanted[i][1] \notin DOMAIN clientNodes \union {Root}
     THEN pc' = "crashed" /\ UNCHANGED <<subs, registered, clientNodes>>
     ELSE /\ pc' = "idle"
          /\ clientNodes' = [o \in DOMAIN clientNodes |->
               LET asked == {wanted[i][2] : i \in {j \in DOMAIN wanted : wanted[j][1] = o}}
               IN [v \in DOMAIN clientNodes[o] \union asked |-> Entry(clientNodes[o], v)]]
          /\ subs' = [subs EXCEPT ![Len(subs)] =
               LET made == SelectSeq([i \in DOMAIN wanted |-> i], Exists)
               IN [k \in DOMAIN made |-> ClientTarget(wanted[made[k]][1], wanted[made[k]][2])]]
          /\ registered' = Registered
  /\ wanted' = Remaining
  /\ astray' = (astray \/ browsed # servers)
  /\ UNCHANGED <<serverVars, connects, connected, browsing, browsed, changed>>

Next ==
  \/ ServerCreate
  \/ \E v \in Var : AddRootVariable(v)
  \/ \E o \in Object, v \in Var : AddVariable(o, v)
  \/ \E o \in Object \union {Root}, v \in Var :
       ServerSubscription(o, v) \/ ClientSubscriptionAddVariable(o, v)
  \/ ClientConnect \/ Break \/ Reconnect
  \/ Browse \/ BrowseNext \/ BrowseReturn
  \/ CreateSubscription \/ CreateItems

Spec == Init /\ [][Next]_vars
=============================================================================
