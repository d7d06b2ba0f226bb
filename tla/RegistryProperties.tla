------------------------- MODULE RegistryProperties -------------------------
(***************************************************************************)
(* What the names of the bridge library have to stand for.                 *)
(***************************************************************************)
EXTENDS BridgeRegistry

\* The names a node was created with.
NameOf(id) ==
  LET n == node[CHOOSE i \in DOMAIN node : node[i].id = id]
  IN <<IF n.parent = Null THEN Root ELSE node[CHOOSE i \in DOMAIN node : node[i].id = n.parent].name,
       n.name>>

AtServer(o, v) == IF o \in DOMAIN objectNodes THEN Entry(objectNodes[o].vars, v) ELSE Null
AtClient(o, v) == IF o \in DOMAIN clientNodes THEN Entry(clientNodes[o], v) ELSE Null

\* As long as the server is the one the last walk through the address space
\* (OPC_UA_Client_Service_browse) began with, a name never stands for another
\* variable, however far the walk has come; and after it client and server mean
\* the same node by a name, or both none, unless the variable was added since
\* the walk began.
NamesAgree ==
  /\ browsed = servers =>
       \A o \in Object, v \in Var : AtClient(o, v) # Null => NameOf(AtClient(o, v)) = <<o, v>>
  /\ pc = "idle" =>
       \A o \in Object, v \in Var : <<o, v>> \notin changed => AtClient(o, v) = AtServer(o, v)

\* A change is reported under the names of the variable that has changed: at the
\* server by its NodeId (serverDataChangeNotificationCallback); at the client by
\* the id of the MonitoredItem (handler_TheAnswerChanged), which means the same
\* in every subscription as long as every call subscribed with the names of the
\* present server and all variables on the list existed.
ChangesNamed ==
  /\ \A id \in serverItems :
       id.numeric \in DOMAIN serverRegistered /\ serverRegistered[id.numeric] = NameOf(id)
  /\ ~astray /\ 0 \notin DOMAIN registered =>
       \A s \in DOMAIN subs : \A item \in DOMAIN subs[s] :
         item \in DOMAIN registered /\ registered[item] = NameOf(subs[s][item])
=============================================================================
