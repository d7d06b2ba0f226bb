---------------------------- MODULE UnityBridge ----------------------------
(***************************************************************************)
(* The Unity component OPCUA_SERVER_DLL and its three threads.             *)
(*                                                                         *)
(* The Unity thread runs the scripts' calls, Update once per frame and     *)
(* OnDestroy at the end; the server thread runs server_Thread_loop and the *)
(* client thread client_Thread_loop.  They share two .NET mutexes, two     *)
(* dictionaries of buffered reads and writes, two lists of events, and     *)
(* through the DLL one UA_Server and one UA_Client, neither of which is    *)
(* built for more than one thread (UA_MULTITHREADING is 0).                *)
(*                                                                         *)
(* A call into the DLL takes two steps, entering and leaving, so that two  *)
(* threads can be inside at once.  List.Add is two steps as well: it reads *)
(* the length and then stores the element behind it, without a lock.       *)
(*                                                                         *)
(* The script follows the rule of the sample scene (SimplyOPCtest.cs:102): *)
(* the client thread is started after every direct call on the client.     *)
(* Each thread is started once, and one server is created.                 *)
(*                                                                         *)
(* The variants named Defect... are explained in module Subscription.      *)
(***************************************************************************)
EXTENDS Integers, Sequences, FiniteSets

CONSTANTS
  Key,            \* (object, variable) pairs that only this client writes and
                  \* that OPC_UA_Client_Service_browse has found
  Value,          \* values the script writes
  Updates,        \* the parameter _updates of StartClientThread
  ConnectMayFail, \* whether the server may be absent when connecting
  MayTimeOut,     \* whether a request of the client may run into its time-out
  MaxEvents,      \* bound: events raised per list
  MaxRequests     \* bound: a new channel is opened only while fewer requests
                  \* are on their way, those of earlier channels included

ASSUME ValueAssumption == Value \subseteq Nat \ {0}
ASSUME FlagAssumption == {Updates, ConnectMayFail, MayTimeOut} \subseteq BOOLEAN
ASSUME BoundAssumption == {MaxEvents, MaxRequests} \subseteq Nat

Absent == -2          \* no entry for the key in the dictionary
Failed == -1          \* what OPC_ClientReadValueDouble returns on an error
NoCall == [key |-> "none", val |-> 0]
NoAdd  == -1          \* the thread is not inside List.Add
Lists  == {"allEvent", "allVariableEvents"}
Thread == {"unity", "server", "client"}
Side   == {"server", "client"}

VARIABLES
  pc,         \* where each thread is
  connected,  \* serverConnected and clientConnected
  mutex,      \* Server_mutexObj and Client_mutexObj: "null", "free",
              \* "abandoned" or the thread that owns it
  stop,       \* the flag stop
  aborted,    \* threads on which Abort was called
  client,     \* the UA_Client: "none", "deleted", or the state of its channel:
              \* "open", "late" (open, but the next answer to arrive belongs to
              \* a request nobody waits for), "closed"
  forRead,    \* VariablesForRead
  toWrite,    \* VariablesToWrite
  todo,       \* keys the client thread has yet to read or write
  call,       \* key and value of the call in progress, per thread
  inbox,      \* requests on their way to the server
  reply,      \* the answer a thread waiting for one has received
  listening,  \* the server's network layer is running
  registered, \* the callbacks are registered in the DLL
  var,        \* values of the variables on the server
  events,     \* the two lists
  adding,     \* per list and thread: the length List.Add has read, or NoAdd
  next,       \* per list: index of the loop in Update
  raised,     \* history: events raised per list
  shown,      \* history: events handed to the script, per list
  latest      \* history: the last value accepted by setClientWrite; 0 before
              \* the first one, and once its write has failed

scriptVars == <<connected, registered>>
bufferVars == <<forRead, toWrite, latest>>
wireVars   == <<inbox, reply, var>>
eventVars  == <<events, adding, next, raised, shown>>
dataVars   == <<bufferVars, wireVars, eventVars>>
flagVars   == <<stop, aborted, listening>>
workVars   == <<client, todo, call>>
vars == <<pc, mutex, scriptVars, dataVars, flagVars, workVars>>

Init ==
  /\ pc = [t \in Thread |-> IF t = "unity" THEN "idle" ELSE "none"]
  /\ connected = [s \in Side |-> FALSE]
  /\ mutex = [s \in Side |-> "null"]
  /\ stop = FALSE
  /\ aborted = {}
  /\ client = "none"
  /\ forRead = [k \in Key |-> Absent]
  /\ toWrite = [k \in Key |-> Absent]
  /\ todo = {}
  /\ call = [t \in Thread |-> NoCall]
  /\ inbox = <<>>
  /\ reply = [t \in Thread |-> Absent]
  /\ listening = FALSE
  /\ registered = TRUE
  /\ var = [k \in Key |-> 0]
  /\ events = [l \in Lists |-> <<>>]
  /\ adding = [l \in Lists |-> [t \in Thread |-> NoAdd]]
  /\ next = [l \in Lists |-> 1]
  /\ raised = [l \in Lists |-> 0]
  /\ shown = [l \in Lists |-> <<>>]
  /\ latest = [k \in Key |-> 0]

Goto(t, label) == pc' = [pc EXCEPT ![t] = label]
Keys(dictionary) == {k \in Key : dictionary[k] # Absent}
Idle == pc["unity"] = "idle"

-----------------------------------------------------------------------------
(* Requests of the client and their answers. *)

\* The thread sends a synchronous request and blocks in the DLL for the answer.
\* Without a channel the service fails at once.  What a call on a deleted client
\* does is undefined: it fails too, or the program ends with it.
Send(t, kind, k, v) ==
  /\ IF client \notin {"open", "late"}
     THEN reply' = [reply EXCEPT ![t] = Failed] /\ UNCHANGED inbox
     ELSE /\ inbox' = Append(inbox, [from |-> t, kind |-> kind, key |-> k, val |-> v])
          /\ UNCHANGED reply
  /\ UNCHANGED var

Answered(t) ==
  /\ reply[t] # Absent
  /\ reply' = [reply EXCEPT ![t] = Absent]
  /\ UNCHANGED <<inbox, var>>

\* Nobody waits for the answer of t's request any more; the server may still
\* execute it.
GivesUp(t) ==
  /\ reply' = [reply EXCEPT ![t] = Absent]
  /\ inbox' = [i \in DOMAIN inbox |->
                 IF inbox[i].from = t THEN [inbox[i] EXCEPT !.from = "nobody"]
                 ELSE inbox[i]]
  /\ UNCHANGED var

DefectWaitForever(t) == FALSE /\ GivesUp(t)

\* The request runs into its time-out.
TimedOut(t) == MayTimeOut /\ reply[t] = Absent /\ GivesUp(t)

\* A synchronous service returns: with its answer; or because the connection is
\* gone or the answer of an earlier request arrives, which closes the channel;
\* or on the time-out, which closes the channel too, except when it is noticed
\* just after another message has been received.  A second such time-out before
\* the late answer is left out.
Returns(t) ==
  \/ /\ Answered(t)
     /\ IF reply[t] = Failed
        THEN client' = IF client = "deleted" THEN client ELSE "closed"
        ELSE client = "open" /\ UNCHANGED client
  \/ client = "late" /\ GivesUp(t) /\ client' = "closed"
  \/ TimedOut(t) /\ client' \in {"closed"} \union (IF client = "open" THEN {"late"} ELSE {})

\* UA_Server_run_iterate handles one request.
Serve ==
  LET r == Head(inbox) IN
  /\ pc["server"] = "update"
  /\ listening
  /\ inbox # <<>>
  /\ inbox' = Tail(inbox)
  /\ var' = IF r.kind = "write" THEN [var EXCEPT ![r.key] = r.val] ELSE var
  /\ reply' = IF r.from = "nobody" THEN reply
              ELSE [reply EXCEPT ![r.from] =
                      IF r.kind = "read" THEN var[r.key] ELSE 0]
  /\ UNCHANGED <<pc, mutex, flagVars, workVars, scriptVars, bufferVars,
                 eventVars>>

\* A server that has been shut down refuses or drops the connection.
Refuse ==
  LET r == Head(inbox) IN
  /\ ~listening
  /\ inbox # <<>>
  /\ inbox' = Tail(inbox)
  /\ reply' = IF r.from = "nobody" THEN reply ELSE [reply EXCEPT ![r.from] = Failed]
  /\ UNCHANGED <<pc, mutex, var, flagVars, workVars, scriptVars, bufferVars,
                 eventVars>>

-----------------------------------------------------------------------------
(* The callbacks MethodCall and ValueChange: an unlocked List.Add. *)

\* Threads inside a part of the DLL that may run the callback of a list.
MayRaise(t, l) ==
  /\ registered
  /\ IF l = "allEvent"
     THEN \/ t = "server" /\ pc[t] = "update"
          \/ t = "unity" /\ pc[t] = "serverCall"
     ELSE /\ client \in {"open", "late", "closed"}
          /\ \/ t = "client" /\ pc[t] \in {"update", "reading", "writing"}
             \/ t = "unity" /\ pc[t] \in {"clientCall", "deleting"}

AddBegin(t, l) ==
  /\ MayRaise(t, l)
  /\ adding[l][t] = NoAdd
  /\ raised[l] + Cardinality({u \in Thread : adding[l][u] # NoAdd}) < MaxEvents
  /\ adding' = [adding EXCEPT ![l][t] = Len(events[l])]
  /\ UNCHANGED <<pc, mutex, events, next, raised, shown, flagVars, workVars,
                 scriptVars, bufferVars, wireVars>>

\* The element goes behind the length read before.  If the list was cleared in
\* between, the places before it hold the default element, written 0 here.
AddEnd(t, l) ==
  LET n == adding[l][t] IN
  /\ n # NoAdd
  /\ events' = [events EXCEPT ![l] =
       [i \in 1..(n + 1) |-> IF i = n + 1 THEN raised[l] + 1
                             ELSE IF i \in DOMAIN events[l] THEN events[l][i]
                             ELSE 0]]
  /\ raised' = [raised EXCEPT ![l] = @ + 1]
  /\ adding' = [adding EXCEPT ![l][t] = NoAdd]
  /\ UNCHANGED <<pc, mutex, next, shown, flagVars, workVars, scriptVars,
                 bufferVars, wireVars>>

\* A thread leaves the DLL when no callback of its is running.
NoCallback(t) == \A l \in Lists : adding[l][t] = NoAdd

-----------------------------------------------------------------------------
(* Unity thread: the calls of the script. *)

\* startServer, with OPC_ServerCreate.
startServer ==
  /\ Idle
  /\ ~connected["server"]
  /\ connected' = [connected EXCEPT !["server"] = TRUE]
  /\ listening' = TRUE
  /\ UNCHANGED <<pc, mutex, registered, stop, aborted, workVars, dataVars>>

StartServerThread ==
  /\ Idle
  /\ connected["server"] /\ pc["server"] = "none"
  /\ Goto("server", "top")
  /\ mutex' = [mutex EXCEPT !["server"] = "free"]
  /\ UNCHANGED <<flagVars, workVars, scriptVars, dataVars>>

\* A call of the script into the server: adding and writing variables, calling
\* a method.  None of them takes the mutex.
ServerCall ==
  /\ Idle
  /\ connected["server"]
  /\ Goto("unity", "serverCall")
  /\ UNCHANGED <<mutex, flagVars, workVars, scriptVars, dataVars>>

ServerCallReturns ==
  /\ pc["unity"] = "serverCall" /\ NoCallback("unity")
  /\ Goto("unity", "idle")
  /\ UNCHANGED <<mutex, flagVars, workVars, scriptVars, dataVars>>

\* stopServer: without a thread the call of Abort throws, and the server is
\* not shut down.
stopServer ==
  /\ Idle
  /\ connected["server"]
  /\ registered' = FALSE
  /\ IF pc["server"] = "none"
     THEN UNCHANGED <<pc, aborted>>
     ELSE /\ aborted' = aborted \union {"server"}
          /\ Goto("unity", "stopping")
  /\ UNCHANGED <<mutex, connected, stop, listening, workVars, dataVars>>

ShutdownReturns ==
  /\ pc["unity"] = "stopping"
  /\ listening' = FALSE
  /\ Goto("unity", "idle")
  /\ UNCHANGED <<mutex, stop, aborted, workVars, scriptVars, dataVars>>

\* ClientConnect: new dictionaries, then OPC_ClientConnect.
ClientConnect ==
  /\ Idle
  /\ pc["client"] = "none"
  /\ forRead' = [k \in Key |-> Absent]
  /\ toWrite' = [k \in Key |-> Absent]
  /\ latest' = [k \in Key |-> 0]
  /\ client' = "open"
  /\ Len(inbox) < MaxRequests
  /\ ConnectMayFail \/ (listening /\ pc["server"] # "none")
  /\ inbox' = Append(inbox, [from |-> "unity", kind |-> "connect",
                             key |-> "none", val |-> 0])
  /\ Goto("unity", "connecting")
  /\ UNCHANGED <<mutex, reply, var, todo, call, flagVars, scriptVars,
                 eventVars>>

\* The result of OPC_ClientConnect is logged and otherwise ignored: on a
\* failure the client has been deleted and clientConnected is set all the same.
ClientConnectReturns ==
  /\ pc["unity"] = "connecting"
  /\ \/ /\ Answered("unity")
        /\ client' = IF reply["unity"] = Failed THEN "deleted" ELSE client
     \/ /\ ConnectMayFail /\ reply["unity"] = Absent
        /\ inbox' = <<>>
        /\ client' = "deleted"
        /\ UNCHANGED <<reply, var>>
  /\ connected' = [connected EXCEPT !["client"] = TRUE]
  /\ Goto("unity", "idle")
  /\ UNCHANGED <<mutex, registered, todo, call, flagVars, bufferVars,
                 eventVars>>

\* Browsing, subscribing and calling methods: straight into the client, without
\* the mutex, and by the rule of the scene before the client thread is started.
ClientCall ==
  /\ Idle
  /\ connected["client"] /\ pc["client"] = "none"
  /\ Send("unity", "call", "none", 0)
  /\ Goto("unity", "clientCall")
  /\ UNCHANGED <<mutex, flagVars, workVars, scriptVars, bufferVars,
                 eventVars>>

ClientCallReturns ==
  /\ pc["unity"] = "clientCall" /\ NoCallback("unity")
  /\ Returns("unity")
  /\ Goto("unity", "idle")
  /\ UNCHANGED <<mutex, todo, call, flagVars, scriptVars, bufferVars,
                 eventVars>>

StartClientThread ==
  /\ Idle
  /\ connected["client"] /\ pc["client"] = "none"
  /\ Goto("client", "top")
  /\ mutex' = [mutex EXCEPT !["client"] = "free"]
  /\ UNCHANGED <<flagVars, workVars, scriptVars, dataVars>>

DefectGaveUpWaiting(side) == TRUE

\* Whether the Unity thread's WaitOne returns at once.
Free(side) == mutex[side] \in {"free", "unity"}

\* setClientWrite, up to WaitOne and from there to the end.
setClientWrite(k, v) ==
  /\ Idle
  /\ connected["client"] /\ mutex["client"] # "null"
  /\ call' = [call EXCEPT !["unity"] = [key |-> k, val |-> v]]
  /\ Goto("unity", "setWrite")
  /\ UNCHANGED <<mutex, client, todo, flagVars, scriptVars, dataVars>>

DefectWriteUnlocked ==
  LET c == call["unity"] IN
  /\ pc["unity"] = "setWrite"
  /\ toWrite' = [toWrite EXCEPT ![c.key] = c.val]
  /\ latest' = [latest EXCEPT ![c.key] = c.val]
  /\ call' = [call EXCEPT !["unity"] = NoCall]
  /\ Goto("unity", "idle")
  /\ UNCHANGED <<mutex, forRead, client, todo, flagVars, scriptVars, wireVars,
                 eventVars>>

setClientWriteBody ==
  LET c == call["unity"] IN
  /\ pc["unity"] = "setWrite"
  /\ Free("client")
  /\ toWrite' = [toWrite EXCEPT ![c.key] = c.val]
  /\ latest' = [latest EXCEPT ![c.key] = c.val]
  /\ call' = [call EXCEPT !["unity"] = NoCall]
  /\ Goto("unity", "idle")
  /\ UNCHANGED <<mutex, forRead, client, todo, flagVars, scriptVars, wireVars,
                 eventVars>>

\* getClientRead: the first call enters the key with the value 0, later calls
\* return the buffered value; with deleteAfrerRead (val = 1) the key is removed.
getClientRead(k, d) ==
  /\ Idle
  /\ connected["client"] /\ mutex["client"] # "null"
  /\ call' = [call EXCEPT !["unity"] = [key |-> k, val |-> d]]
  /\ Goto("unity", "getRead")
  /\ UNCHANGED <<mutex, client, todo, flagVars, scriptVars, dataVars>>

getClientReadBody ==
  LET c == call["unity"] IN
  /\ pc["unity"] = "getRead"
  /\ Free("client")
  /\ forRead' = [forRead EXCEPT ![c.key] =
                   IF @ = Absent THEN 0 ELSE IF c.val = 1 THEN Absent ELSE @]
  /\ call' = [call EXCEPT !["unity"] = NoCall]
  /\ Goto("unity", "idle")
  /\ UNCHANGED <<mutex, toWrite, latest, client, todo, flagVars, scriptVars,
                 wireVars, eventVars>>

-----------------------------------------------------------------------------
(* Unity thread: Update. *)

Update ==
  /\ Idle
  /\ Goto("unity", "updateServer")
  /\ UNCHANGED <<mutex, flagVars, workVars, scriptVars, dataVars>>

\* WaitOne on a mutex whose owner died throws; the frame ends and the Unity
\* thread owns the mutex from then on.
UpdateServerMutex ==
  /\ pc["unity"] = "updateServer"
  /\ IF mutex["server"] = "abandoned"
     THEN /\ mutex' = [mutex EXCEPT !["server"] = "unity"]
          /\ Goto("unity", "idle")
     ELSE /\ mutex["server"] = "null" \/ Free("server")
          /\ Goto("unity", "updateClient")
          /\ UNCHANGED mutex
  /\ UNCHANGED <<flagVars, workVars, scriptVars, dataVars>>

DefectUpdateUnlocked ==
  /\ pc["unity"] = "updateClient"
  /\ IF mutex["client"] = "null"
     THEN Goto("unity", "idle") /\ UNCHANGED mutex
     ELSE Goto("unity", "allEvent") /\ UNCHANGED mutex
  /\ UNCHANGED <<flagVars, workVars, scriptVars, dataVars>>

UpdateClientMutex ==
  /\ pc["unity"] = "updateClient"
  /\ IF mutex["client"] = "null"
     THEN Goto("unity", "idle") /\ UNCHANGED mutex
     ELSE /\ Free("client")
          /\ mutex' = [mutex EXCEPT !["client"] = "unity"]
          /\ Goto("unity", "allEvent")
  /\ UNCHANGED <<flagVars, workVars, scriptVars, dataVars>>

\* One turn of the loop over a list; its length is read on every turn.
Invoke(l) ==
  /\ pc["unity"] = l
  /\ next[l] <= Len(events[l])
  /\ shown' = [shown EXCEPT ![l] = Append(@, events[l][next[l]])]
  /\ next' = [next EXCEPT ![l] = @ + 1]
  /\ UNCHANGED <<pc, mutex, events, adding, raised, flagVars, workVars,
                 scriptVars, bufferVars, wireVars>>

LoopEnds(l) ==
  /\ pc["unity"] = l
  /\ next[l] > Len(events[l])
  /\ Goto("unity", IF l = "allEvent" THEN "clearCalls" ELSE "clearChanges")
  /\ UNCHANGED <<mutex, flagVars, workVars, scriptVars, dataVars>>

ClearCalls ==
  /\ pc["unity"] = "clearCalls"
  /\ events' = [events EXCEPT !["allEvent"] = <<>>]
  /\ next' = [next EXCEPT !["allEvent"] = 1]
  /\ Goto("unity", "allVariableEvents")
  /\ UNCHANGED <<mutex, adding, raised, shown, flagVars, workVars, scriptVars,
                 bufferVars, wireVars>>

ClearChanges ==
  /\ pc["unity"] = "clearChanges"
  /\ events' = [events EXCEPT !["allVariableEvents"] = <<>>]
  /\ next' = [next EXCEPT !["allVariableEvents"] = 1]
  /\ mutex' = [mutex EXCEPT !["client"] = "free"]
  /\ Goto("unity", "idle")
  /\ UNCHANGED <<adding, raised, shown, flagVars, workVars, scriptVars,
                 bufferVars, wireVars>>

-----------------------------------------------------------------------------
(* Unity thread: OnDestroy.  The two mutexes are never released. *)

OnDestroy ==
  /\ Idle
  /\ Goto("unity", "destroyServer")
  /\ UNCHANGED <<mutex, flagVars, workVars, scriptVars, dataVars>>

\* The first WaitOne; on an abandoned mutex it throws and OnDestroy ends there.
DestroyServerMutex ==
  /\ pc["unity"] = "destroyServer"
  /\ \/ /\ mutex["server"] = "null"
        /\ Goto("unity", "destroyClient")
        /\ UNCHANGED mutex
     \/ /\ Free("server")
        /\ mutex' = [mutex EXCEPT !["server"] = "unity"]
        /\ Goto("unity", "destroyClient")
     \/ /\ mutex["server"] = "abandoned"
        /\ mutex' = [mutex EXCEPT !["server"] = "unity"]
        /\ Goto("unity", "failed")
  /\ UNCHANGED <<flagVars, workVars, scriptVars, dataVars>>

ClearBuffers ==
  /\ forRead' = [k \in Key |-> Absent]
  /\ toWrite' = [k \in Key |-> Absent]
  /\ latest' = [k \in Key |-> 0]
  /\ events' = [l \in Lists |-> <<>>]
  /\ UNCHANGED <<adding, next, raised, shown>>

DefectNotWaiting ==
  /\ pc["unity"] = "destroyClient"
  /\ \/ mutex["client"] = "null" /\ UNCHANGED mutex
     \/ mutex' = [mutex EXCEPT !["client"] = "unity"]
  /\ ClearBuffers
  /\ stop' = TRUE
  /\ IF connected["client"]
     THEN Send("unity", "close", "none", 0) /\ Goto("unity", "deleting")
     ELSE Goto("unity", "destroyThreads") /\ UNCHANGED wireVars
  /\ UNCHANGED <<aborted, listening, workVars, scriptVars>>

\* The second WaitOne, the clearing of the buffers, stop = true, and with a
\* client the call of OPC_ClientDelete, which first closes the session.
DestroyClientMutex ==
  /\ pc["unity"] = "destroyClient"
  /\ \/ mutex["client"] = "null" /\ UNCHANGED mutex
     \/ Free("client") /\ mutex' = [mutex EXCEPT !["client"] = "unity"]
  /\ ClearBuffers
  /\ stop' = TRUE
  /\ IF connected["client"]
     THEN Send("unity", "close", "none", 0) /\ Goto("unity", "deleting")
     ELSE Goto("unity", "destroyThreads") /\ UNCHANGED wireVars
  /\ UNCHANGED <<aborted, listening, workVars, scriptVars>>

\* The client is deleted.  If its thread was never started, Abort throws.
ClientDeleteReturns ==
  /\ pc["unity"] = "deleting" /\ NoCallback("unity")
  /\ Answered("unity") \/ TimedOut("unity")
  /\ client' = "deleted"
  /\ IF pc["client"] = "none"
     THEN Goto("unity", "failed") /\ UNCHANGED aborted
     ELSE Goto("unity", "joinClient") /\ aborted' = aborted \union {"client"}
  /\ UNCHANGED <<mutex, stop, listening, todo, call, scriptVars, bufferVars,
                 eventVars>>

JoinClient ==
  /\ pc["unity"] = "joinClient"
  /\ pc["client"] = "dead"
  /\ Goto("unity", "destroyThreads")
  /\ UNCHANGED <<mutex, flagVars, workVars, scriptVars, dataVars>>

\* OPC_ServerShutdown, if there is a server.
DestroyServer ==
  /\ pc["unity"] = "destroyThreads"
  /\ Goto("unity", IF connected["server"] THEN "shuttingDown" ELSE "cleanUp")
  /\ UNCHANGED <<mutex, flagVars, workVars, scriptVars, dataVars>>

DestroyServerReturns ==
  /\ pc["unity"] = "shuttingDown"
  /\ listening' = FALSE
  /\ IF pc["server"] = "none"
     THEN Goto("unity", "failed") /\ UNCHANGED aborted
     ELSE Goto("unity", "joinServer") /\ aborted' = aborted \union {"server"}
  /\ UNCHANGED <<mutex, stop, workVars, scriptVars, dataVars>>

JoinServer ==
  /\ pc["unity"] = "joinServer"
  /\ pc["server"] = "dead"
  /\ Goto("unity", "cleanUp")
  /\ UNCHANGED <<mutex, flagVars, workVars, scriptVars, dataVars>>

CleanUp ==
  /\ pc["unity"] = "cleanUp"
  /\ connected' = [s \in Side |-> FALSE]
  /\ registered' = FALSE
  /\ ClearBuffers
  /\ Goto("unity", "destroyed")
  /\ UNCHANGED <<mutex, flagVars, workVars, wireVars>>

-----------------------------------------------------------------------------
(* Server thread: server_Thread_loop.  Abort ends a thread as soon as it is  *)
(* back in managed code, in WaitOne too; a mutex it owns is abandoned.       *)

ServerLoop ==
  /\ pc["server"] = "top"
  /\ Goto("server", IF stop \/ "server" \in aborted THEN "dead" ELSE "update")
  /\ UNCHANGED <<mutex, flagVars, workVars, scriptVars, dataVars>>

ServerUpdateReturns ==
  /\ pc["server"] = "update" /\ NoCallback("server")
  /\ Goto("server", IF "server" \in aborted THEN "dead" ELSE "wait")
  /\ UNCHANGED <<mutex, flagVars, workVars, scriptVars, dataVars>>

ServerLocks ==
  /\ pc["server"] = "wait"
  /\ "server" \notin aborted
  /\ mutex["server"] = "free"
  /\ mutex' = [mutex EXCEPT !["server"] = "server"]
  /\ Goto("server", "hold")
  /\ UNCHANGED <<flagVars, workVars, scriptVars, dataVars>>

ServerUnlocks ==
  /\ pc["server"] = "hold"
  /\ IF "server" \in aborted
     THEN Goto("server", "dead") /\ mutex' = [mutex EXCEPT !["server"] = "abandoned"]
     ELSE Goto("server", "top") /\ mutex' = [mutex EXCEPT !["server"] = "free"]
  /\ UNCHANGED <<flagVars, workVars, scriptVars, dataVars>>

\* A thread that waits for a mutex is taken out of WaitOne.
AbortedInWait(t) ==
  /\ pc[t] = "wait"
  /\ t \in aborted
  /\ Goto(t, "dead")
  /\ UNCHANGED <<mutex, flagVars, workVars, scriptVars, dataVars>>

-----------------------------------------------------------------------------
(* Client thread: client_Thread_loop. *)

ClientLoop ==
  /\ pc["client"] = "top"
  /\ Goto("client", IF stop \/ "client" \in aborted THEN "dead"
                    ELSE IF Updates THEN "update" ELSE "wait")
  /\ UNCHANGED <<mutex, flagVars, workVars, scriptVars, dataVars>>

\* OPC_ClientUpdate, outside the mutex: it reconnects a client whose channel
\* is closed, or is closed by the late answer it receives.
Reconnect ==
  /\ pc["client"] = "update"
  /\ client \in {"closed", "late"} /\ listening
  /\ Len(inbox) < MaxRequests
  /\ client' = "open"
  /\ UNCHANGED <<pc, mutex, todo, call, flagVars, scriptVars, dataVars>>

ClientUpdateReturns ==
  /\ pc["client"] = "update" /\ NoCallback("client")
  /\ Goto("client", IF "client" \in aborted THEN "dead" ELSE "wait")
  /\ UNCHANGED <<mutex, flagVars, workVars, scriptVars, dataVars>>

\* WaitOne, and the copy of the keys.
ClientLocks ==
  /\ pc["client"] = "wait"
  /\ "client" \notin aborted
  /\ mutex["client"] = "free"
  /\ mutex' = [mutex EXCEPT !["client"] = "client"]
  /\ todo' = Keys(forRead)
  /\ Goto("client", "reads")
  /\ UNCHANGED <<client, call, flagVars, scriptVars, dataVars>>

Read(k) ==
  /\ pc["client"] = "reads"
  /\ k \in todo
  /\ todo' = todo \ {k}
  /\ call' = [call EXCEPT !["client"] = [key |-> k, val |-> 0]]
  /\ Send("client", "read", k, 0)
  /\ Goto("client", "reading")
  /\ UNCHANGED <<mutex, client, flagVars, scriptVars, bufferVars, eventVars>>

ReadReturns ==
  LET k == call["client"].key IN
  /\ pc["client"] = "reading" /\ NoCallback("client")
  /\ Returns("client")
  /\ forRead' = [forRead EXCEPT ![k] =
                   IF client' = "open" THEN reply["client"] ELSE Failed]
  /\ call' = [call EXCEPT !["client"] = NoCall]
  /\ Goto("client", "reads")
  /\ UNCHANGED <<mutex, toWrite, latest, todo, flagVars, scriptVars,
                 eventVars>>

DefectWriteReadOnly ==
  /\ pc["client"] = "reads"
  /\ todo = {}
  /\ todo' = Keys(toWrite) \intersect Keys(forRead)
  /\ Goto("client", "writes")
  /\ UNCHANGED <<mutex, client, call, flagVars, scriptVars, dataVars>>

ReadsDone ==
  /\ pc["client"] = "reads"
  /\ todo = {}
  /\ todo' = Keys(toWrite)
  /\ Goto("client", "writes")
  /\ UNCHANGED <<mutex, client, call, flagVars, scriptVars, dataVars>>

Write(k) ==
  /\ pc["client"] = "writes"
  /\ k \in todo
  /\ todo' = todo \ {k}
  /\ call' = [call EXCEPT !["client"] = [key |-> k, val |-> toWrite[k]]]
  /\ Send("client", "write", k, toWrite[k])
  /\ Goto("client", "writing")
  /\ UNCHANGED <<mutex, client, flagVars, scriptVars, bufferVars, eventVars>>

\* The result of the write is not looked at: a failed write is not repeated.
WriteReturns ==
  /\ pc["client"] = "writing" /\ NoCallback("client")
  /\ Returns("client")
  /\ latest' = IF client' = "open" THEN latest
               ELSE [latest EXCEPT ![call["client"].key] = 0]
  /\ call' = [call EXCEPT !["client"] = NoCall]
  /\ Goto("client", "writes")
  /\ UNCHANGED <<mutex, forRead, toWrite, todo, flagVars, scriptVars,
                 eventVars>>

\* VariablesToWrite.Clear and ReleaseMutex.
WritesDone ==
  /\ pc["client"] = "writes"
  /\ todo = {}
  /\ toWrite' = [k \in Key |-> Absent]
  /\ mutex' = [mutex EXCEPT !["client"] = "free"]
  /\ Goto("client", "top")
  /\ UNCHANGED <<forRead, latest, flagVars, workVars, scriptVars, wireVars,
                 eventVars>>

-----------------------------------------------------------------------------
Script ==
  \/ startServer \/ StartServerThread \/ ServerCall \/ stopServer
  \/ ClientConnect \/ ClientCall \/ StartClientThread
  \/ \E k \in Key : \/ \E v \in Value : setClientWrite(k, v)
                    \/ \E d \in {0, 1} : getClientRead(k, d)
  \/ Update \/ OnDestroy

\* Steps of the Unity thread that do not wait for a mutex.
UnityRuns ==
  \/ ServerCallReturns \/ ShutdownReturns
  \/ ClientConnectReturns \/ ClientCallReturns
  \/ \E l \in Lists : Invoke(l) \/ LoopEnds(l)
  \/ ClearCalls \/ ClearChanges
  \/ ClientDeleteReturns \/ JoinClient \/ DestroyServer
  \/ DestroyServerReturns \/ JoinServer \/ CleanUp

\* Steps of the Unity thread that begin with WaitOne.
UnityLocks ==
  \/ setClientWriteBody \/ getClientReadBody
  \/ UpdateServerMutex \/ UpdateClientMutex
  \/ DestroyServerMutex \/ DestroyClientMutex

ServerRuns ==
  ServerLoop \/ ServerUpdateReturns \/ ServerUnlocks \/ AbortedInWait("server")

ClientRuns ==
  \/ ClientLoop \/ ClientUpdateReturns \/ AbortedInWait("client")
  \/ \E k \in Key : Read(k) \/ Write(k)
  \/ ReadReturns \/ ReadsDone \/ WriteReturns \/ WritesDone

Callback == \E l \in Lists, t \in Thread : AddBegin(t, l) \/ AddEnd(t, l)

Next ==
  \/ Script \/ UnityRuns \/ UnityLocks
  \/ ServerRuns \/ ServerLocks \/ Serve \/ Refuse
  \/ ClientRuns \/ ClientLocks \/ Reconnect
  \/ Callback

Spec == Init /\ [][Next]_vars

\* Every thread runs when it can, a callback returns, and a server inside
\* UA_Server_run_iterate handles what has arrived.  The kernel queues the
\* threads that wait for a mutex, so a thread whose mutex is free again and
\* again gets it: strong fairness for WaitOne, and for the answer of a server
\* that is inside the DLL again and again.
FairSpec ==
  /\ Spec
  /\ WF_vars(UnityRuns) /\ SF_vars(UnityLocks)
  /\ WF_vars(ServerRuns) /\ SF_vars(ServerLocks) /\ SF_vars(Serve) /\ WF_vars(Refuse)
  /\ WF_vars(ClientRuns) /\ SF_vars(ClientLocks)
  /\ WF_vars(\E l \in Lists, t \in Thread : AddEnd(t, l))

=============================================================================
