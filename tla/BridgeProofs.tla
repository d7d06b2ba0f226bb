---------------------------- MODULE BridgeProofs ----------------------------
(***************************************************************************)
(* What is proved about the threads of the Unity component, for any keys,  *)
(* values and bounds.  The mutex of the client keeps the Unity thread and  *)
(* the client thread out of each other's calls, and keeps the client and   *)
(* the list of changes whole, as long as the client thread was started     *)
(* without updates; no written value is forgotten, with or without them.   *)
(***************************************************************************)
EXTENDS BridgeProperties, SequenceTheorems, TLAPS

\* The program counters of the Unity thread while Update owns Client_mutexObj.
UpdateOwns == Lists \union {"clearCalls", "clearChanges"}

\* Those of OnDestroy after it has taken Client_mutexObj, which it never releases.
DestroyOwns ==
  {"deleting", "joinClient", "destroyThreads", "shuttingDown", "joinServer", "cleanUp", "destroyed"}

\* The client thread owns the mutex where it reads and writes, and without updates is
\* nowhere near OPC_ClientUpdate.
ClientOwns ==
  /\ pc["client"] \in {"none", "top", "update", "wait", "reads", "reading", "writes", "writing", "dead"}
  /\ pc["client"] = "update" => Updates
  /\ pc["client"] \in {"reads", "reading", "writes", "writing"} => mutex["client"] = "client"

\* The Unity thread owns it in Update and while it deletes the client, or there
\* is neither a mutex nor a client thread.
UnityOwns ==
  /\ mutex["client"] = "null" <=> pc["client"] = "none"
  /\ pc["unity"] \in UpdateOwns => mutex["client"] = "unity"
  /\ pc["unity"] \in DestroyOwns => mutex["client"] \in {"unity", "null"}
  /\ pc["unity"] \in {"connecting", "clientCall"} => pc["client"] = "none"

MutexInv ==
  /\ pc = [t \in Thread |-> pc[t]] /\ mutex = [s \in Side |-> mutex[s]]
  /\ ClientOwns
  /\ UnityOwns

\* The invariant holds at the start.
LEMMA MutexInit == Init => MutexInv
<1> SUFFICES ASSUME Init PROVE MutexInv
    OBVIOUS
<1>1. pc = [t \in Thread |-> IF t = "unity" THEN "idle" ELSE "none"]
      /\ mutex = [s \in Side |-> "null"]
    BY DEF Init
<1>2. pc["unity"] = "idle" /\ pc["client"] = "none" /\ mutex["client"] = "null"
    BY <1>1 DEF Thread, Side
<1>3. pc = [t \in Thread |-> pc[t]] /\ mutex = [s \in Side |-> mutex[s]]
    BY <1>1
<1> QED
    BY <1>2, <1>3 DEF MutexInv, ClientOwns, UnityOwns, UpdateOwns, DestroyOwns, Lists

\* Whatever leaves alone the mutex and the client thread, and does not take the
\* Unity thread to where the mutex matters, keeps the invariant.
LEMMA UnityStep ==
  ASSUME MutexInv, NEW label, Goto("unity", label),
         mutex'["client"] = mutex["client"], mutex' = [s \in Side |-> mutex'[s]],
         label \notin UpdateOwns \union {"connecting", "clientCall"},
         label \in DestroyOwns => pc["unity"] \in DestroyOwns
  PROVE  MutexInv'
BY DEF MutexInv, ClientOwns, UnityOwns, Goto, Thread, UpdateOwns, DestroyOwns, Lists

\* The same for the server thread.
LEMMA ServerStep ==
  ASSUME MutexInv, NEW label, Goto("server", label),
         mutex'["client"] = mutex["client"], mutex' = [s \in Side |-> mutex'[s]]
  PROVE  MutexInv'
BY DEF MutexInv, ClientOwns, UnityOwns, Goto, Thread, UpdateOwns, DestroyOwns, Lists

\* The calls of the script keep the invariant.
LEMMA ScriptKeeps == ASSUME MutexInv, Script PROVE MutexInv'
<1>1. CASE startServer
    BY <1>1 DEF startServer, MutexInv, ClientOwns, UnityOwns, bufferVars
<1>2. CASE StartServerThread
    BY <1>2, ServerStep DEF StartServerThread, MutexInv, Side
<1>3. CASE ServerCall \/ stopServer \/ Update \/ OnDestroy
    BY <1>3, UnityStep DEF ServerCall, stopServer, Update, OnDestroy, UpdateOwns, DestroyOwns, Lists, MutexInv, ClientOwns, UnityOwns
<1>4. CASE ClientConnect \/ ClientCall
    BY <1>4 DEF ClientConnect, ClientCall, MutexInv, ClientOwns, UnityOwns, Goto, Thread, Side, UpdateOwns, DestroyOwns, Lists
<1>5. CASE StartClientThread
    BY <1>5 DEF StartClientThread, Idle, MutexInv, ClientOwns, UnityOwns, Goto, Thread, Side, UpdateOwns, DestroyOwns, Lists
<1>6. CASE \E k \in Key : (\E v \in Value : setClientWrite(k, v)) \/ (\E d \in {0, 1} : getClientRead(k, d))
    BY <1>6, UnityStep DEF setClientWrite, getClientRead, UpdateOwns, DestroyOwns, Lists, MutexInv
<1> QED
    BY <1>1, <1>2, <1>3, <1>4, <1>5, <1>6 DEF Script

\* So do the steps of the Unity thread, which releases and takes the mutex.
LEMMA UnityKeeps == ASSUME MutexInv, UnityRuns \/ UnityLocks PROVE MutexInv'
<1>1. CASE \/ ServerCallReturns \/ ShutdownReturns \/ ClientConnectReturns
           \/ ClientCallReturns \/ ClientDeleteReturns \/ JoinClient
           \/ DestroyServer \/ DestroyServerReturns \/ JoinServer \/ CleanUp
    BY <1>1, UnityStep
       DEF ServerCallReturns, ShutdownReturns, ClientConnectReturns,
           ClientCallReturns, ClientDeleteReturns, JoinClient, DestroyServer,
           DestroyServerReturns, JoinServer, CleanUp, UpdateOwns, DestroyOwns, Lists, MutexInv
<1>2. CASE setClientWriteBody \/ getClientReadBody
    BY <1>2, UnityStep DEF setClientWriteBody, getClientReadBody, UpdateOwns, DestroyOwns, Lists, MutexInv
<1>3. CASE UpdateServerMutex \/ DestroyServerMutex
    BY <1>3, UnityStep DEF UpdateServerMutex, DestroyServerMutex, UpdateOwns, DestroyOwns, Lists, MutexInv, Side
<1>4. CASE \E l \in Lists : Invoke(l)
    BY <1>4 DEF Invoke, MutexInv, ClientOwns, UnityOwns
<1>5. CASE (\E l \in Lists : LoopEnds(l)) \/ ClearCalls
    BY <1>5 DEF LoopEnds, ClearCalls, MutexInv, ClientOwns, UnityOwns, Goto, Thread, Side, UpdateOwns, DestroyOwns, Lists
<1>6. CASE ClearChanges
    BY <1>6 DEF ClearChanges, MutexInv, ClientOwns, UnityOwns, Goto, Thread, Side, UpdateOwns, DestroyOwns, Lists
<1>7. CASE UpdateClientMutex
    BY <1>7 DEF UpdateClientMutex, Free, MutexInv, ClientOwns, UnityOwns, Goto, Thread, Side, UpdateOwns, DestroyOwns, Lists
<1>8. CASE DestroyClientMutex
    BY <1>8 DEF DestroyClientMutex, Free, MutexInv, ClientOwns, UnityOwns, Goto, Thread, Side, UpdateOwns, DestroyOwns, Lists
<1> QED
    BY <1>1, <1>2, <1>3, <1>4, <1>5, <1>6, <1>7, <1>8 DEF UnityRuns, UnityLocks

\* The server thread does not touch the client's mutex.
LEMMA ServerKeeps == ASSUME MutexInv, ServerRuns \/ ServerLocks PROVE MutexInv'
BY ServerStep
   DEF ServerRuns, ServerLocks, ServerLoop, ServerUpdateReturns, ServerUnlocks,
       AbortedInWait, MutexInv, Side

\* The client thread takes the mutex when it is free, and gives it back.
LEMMA ClientKeeps == ASSUME MutexInv, ClientRuns \/ ClientLocks PROVE MutexInv'
<1>1. CASE ClientLoop \/ ClientUpdateReturns \/ AbortedInWait("client")
    BY <1>1 DEF ClientLoop, ClientUpdateReturns, AbortedInWait, MutexInv, ClientOwns, UnityOwns, Goto, Thread, Side, UpdateOwns, DestroyOwns, Lists
<1>2. CASE ClientLocks
    BY <1>2 DEF ClientLocks, MutexInv, ClientOwns, UnityOwns, Goto, Thread, Side, UpdateOwns, DestroyOwns, Lists
<1>3. CASE \E k \in Key : Read(k) \/ Write(k)
    BY <1>3 DEF Read, Write, MutexInv, ClientOwns, UnityOwns, Goto, Thread, Side, UpdateOwns, DestroyOwns, Lists
<1>4. CASE ReadReturns \/ ReadsDone \/ WriteReturns
    BY <1>4 DEF ReadReturns, ReadsDone, WriteReturns, MutexInv, ClientOwns, UnityOwns, Goto, Thread, Side, UpdateOwns, DestroyOwns, Lists
<1>5. CASE WritesDone
    BY <1>5 DEF WritesDone, MutexInv, ClientOwns, UnityOwns, Goto, Thread, Side, UpdateOwns, DestroyOwns, Lists
<1> QED
    BY <1>1, <1>2, <1>3, <1>4, <1>5 DEF ClientRuns

\* Every step keeps the invariant.
LEMMA MutexNext == ASSUME MutexInv, [Next]_vars PROVE MutexInv'
<1>1. CASE Serve \/ Refuse \/ Reconnect
    BY <1>1 DEF Serve, Refuse, Reconnect, MutexInv, ClientOwns, UnityOwns
<1>2. CASE Callback
    BY <1>2 DEF Callback, AddBegin, AddEnd, MutexInv, ClientOwns, UnityOwns
<1>3. CASE UNCHANGED vars
    BY <1>3 DEF vars, MutexInv, ClientOwns, UnityOwns
<1> QED
    BY <1>1, <1>2, <1>3, ScriptKeeps, UnityKeeps, ServerKeeps, ClientKeeps DEF Next

\* Without updates in the client thread, two threads are never inside the
\* UA_Client at the same time: not while OnDestroy deletes it, and not in the
\* calls that take no mutex, which come before the thread is started.
THEOREM OneThreadInClient == ASSUME ~Updates PROVE Spec => []ClientExclusive
<1>1. MutexInv /\ ~Updates => ClientExclusive
    BY DEF MutexInv, ClientOwns, UnityOwns, DestroyOwns, ClientExclusive, InClient, Thread
<1> QED
    BY <1>1, MutexInit, MutexNext, PTL DEF Spec

-----------------------------------------------------------------------------
(* Requests and answers: a thread has one request on its way while it waits. *)

Waiter == {"unity", "client"}
Waits(t) ==
  \/ t = "unity" /\ pc[t] \in {"connecting", "clientCall", "deleting"}
  \/ t = "client" /\ pc[t] \in {"reading", "writing"}

RequestKind == {"connect", "call", "close", "read", "write"}

\* What a request is: reads and writes are about a key, a write has a value.
Request ==
  {r \in [from : Waiter \union {"nobody"}, kind : RequestKind, key : Key \union {"none"}, val : Int] :
     /\ r.kind \in {"read", "write"} => r.key \in Key
     /\ r.kind = "write" => r.val \in Value}

\* At most one request of the thread is on its way, none once the answer is there, and
\* neither when the thread does not wait.
OneRequest(t) ==
  /\ \A i, j \in DOMAIN inbox : inbox[i].from = t /\ inbox[j].from = t => i = j
  /\ reply[t] # Absent \/ ~Waits(t) => \A i \in DOMAIN inbox : inbox[i].from # t
  /\ ~Waits(t) => reply[t] = Absent

WireInv ==
  /\ inbox \in Seq(Request) /\ reply \in [Thread -> Int] /\ var \in [Key -> Nat]
  /\ \A t \in Waiter : OneRequest(t)

\* Nothing changes on the wire while both threads wait or do not wait as before.
LEMMA WireSame ==
    ASSUME WireInv, UNCHANGED wireVars, \A t \in Waiter : Waits(t)' = Waits(t)
    PROVE  WireInv'
BY DEF WireInv, OneRequest, wireVars

\* A thread that did not wait sends a request.
LEMMA WireSend ==
    ASSUME WireInv, NEW t \in Waiter, ~Waits(t), \A u \in Waiter \ {t} : Waits(u)' = Waits(u),
           Waits(t)', NEW r \in Request, r.from = t, inbox' = Append(inbox, r), reply' = reply, var' = var
    PROVE  WireInv'
<1>1. /\ inbox' \in Seq(Request) /\ DOMAIN inbox = 1..Len(inbox) /\ Len(inbox) \in Nat
      /\ DOMAIN inbox' = 1..Len(inbox) + 1
      /\ inbox'[Len(inbox) + 1] = r
      /\ \A i \in 1..Len(inbox) : inbox'[i] = inbox[i]
    BY DEF WireInv
<1>2. ASSUME NEW u \in Waiter PROVE OneRequest(u)'
  <2>1. CASE u = t
    <3>1. reply[t] = Absent /\ \A i \in 1..Len(inbox) : inbox[i].from # t
      BY <1>1 DEF WireInv, OneRequest
    <3>2. \A i \in DOMAIN inbox' : inbox'[i].from = t => i = Len(inbox) + 1
      BY <1>1, <3>1
    <3> QED
      BY <2>1, <3>1, <3>2 DEF OneRequest
  <2>2. CASE u # t
    <3>1. OneRequest(u) /\ Waits(u)' = Waits(u)
      BY <2>2 DEF WireInv
    <3>2. \A i \in DOMAIN inbox' : inbox'[i].from = u => i \in DOMAIN inbox /\ inbox[i].from = u
      BY <1>1, <2>2
    <3> QED
      BY <3>1, <3>2 DEF OneRequest
  <2> QED
    BY <2>1, <2>2
<1> QED
    BY <1>1, <1>2 DEF WireInv

\* Without a channel the request fails at once.
LEMMA WireFails ==
    ASSUME WireInv, NEW t \in Waiter, ~Waits(t), \A u \in Waiter \ {t} : Waits(u)' = Waits(u),
           Waits(t)', reply' = [reply EXCEPT ![t] = Failed], inbox' = inbox, var' = var
    PROVE  WireInv'
<1>1. /\ reply' \in [Thread -> Int] /\ \A u \in Waiter \ {t} : reply'[u] = reply[u]
    BY DEF WireInv, Failed, Waiter, Thread
<1>2. ASSUME NEW u \in Waiter PROVE OneRequest(u)'
    BY <1>1 DEF WireInv, OneRequest
<1> QED
    BY <1>1, <1>2 DEF WireInv

\* A thread stops waiting: with its answer, or because it gives up.
LEMMA WireReturn ==
    ASSUME WireInv, NEW t \in Waiter, \A u \in Waiter \ {t} : Waits(u)' = Waits(u),
           Answered(t) \/ GivesUp(t)
    PROVE  WireInv'
<1>1. /\ reply' = [reply EXCEPT ![t] = Absent] /\ var' = var
      /\ reply' \in [Thread -> Int] /\ reply'[t] = Absent
      /\ \A u \in Waiter \ {t} : reply'[u] = reply[u]
    BY DEF WireInv, Answered, GivesUp, Absent, Waiter, Thread
<1>2. /\ inbox' \in Seq(Request) /\ DOMAIN inbox' = DOMAIN inbox
      /\ \A i \in DOMAIN inbox : inbox'[i].from # t
      /\ \A i \in DOMAIN inbox : \A u \in Waiter \ {t} : inbox'[i].from = u => inbox[i].from = u
  <2>1. CASE Answered(t)
    BY <2>1 DEF WireInv, Answered, OneRequest
  <2>2. CASE GivesUp(t)
    <3>1. /\ inbox \in Seq(Request) /\ DOMAIN inbox = 1..Len(inbox) /\ Len(inbox) \in Nat
          /\ inbox' = [i \in 1..Len(inbox) |->
                         IF inbox[i].from = t THEN [inbox[i] EXCEPT !.from = "nobody"]
                         ELSE inbox[i]]
      BY <2>2 DEF WireInv, GivesUp
    <3>2. ASSUME NEW i \in 1..Len(inbox)
          PROVE  /\ inbox'[i] \in Request /\ inbox'[i].from # t
                 /\ \A u \in Waiter \ {t} : inbox'[i].from = u => inbox[i].from = u
      <4>1. inbox[i] \in Request
        BY <3>1
      <4>2. inbox'[i] = IF inbox[i].from = t THEN [inbox[i] EXCEPT !.from = "nobody"]
                        ELSE inbox[i]
        BY <3>1
      <4> QED
        BY <4>1, <4>2 DEF Request, Waiter
    <3>3. inbox' \in [1..Len(inbox) -> Request]
      BY <3>1, <3>2
    <3> QED
      BY <3>1, <3>2, <3>3
  <2> QED
    BY <2>1, <2>2
<1>3. ASSUME NEW u \in Waiter PROVE OneRequest(u)'
  <2>1. CASE u = t
    BY <1>1, <1>2, <2>1 DEF OneRequest
  <2>2. CASE u # t
    <3>1. OneRequest(u) /\ Waits(u)' = Waits(u)
      BY <2>2 DEF WireInv
    <3> QED
      BY <1>1, <1>2, <2>2, <3>1 DEF OneRequest
  <2> QED
    BY <2>1, <2>2
<1> QED
    BY <1>1, <1>2, <1>3 DEF WireInv

\* The first request leaves the wire; its sender, if it still waits, has an answer.
LEMMA WireServed ==
    ASSUME WireInv, inbox # <<>>, inbox' = Tail(inbox), \A t \in Waiter : Waits(t)' = Waits(t),
           var' \in [Key -> Nat], NEW answer \in Int,
           reply' = IF Head(inbox).from = "nobody" THEN reply
                    ELSE [reply EXCEPT ![Head(inbox).from] = answer]
    PROVE  WireInv'
<1>1. /\ inbox' \in Seq(Request) /\ DOMAIN inbox = 1..Len(inbox) /\ Len(inbox) \in Nat
      /\ DOMAIN inbox' = 1..Len(inbox) - 1 /\ Head(inbox) = inbox[1] /\ 1 \in DOMAIN inbox
      /\ \A i \in DOMAIN inbox' : i + 1 \in DOMAIN inbox /\ inbox'[i] = inbox[i + 1]
    BY DEF WireInv
<1>2. /\ reply' \in [Thread -> Int]
      /\ \A t \in Waiter : t # inbox[1].from => reply'[t] = reply[t]
    BY <1>1 DEF WireInv, Thread, Waiter
<1>3. ASSUME NEW t \in Waiter PROVE OneRequest(t)'
  <2>1. OneRequest(t) /\ Waits(t)' = Waits(t)
    BY DEF WireInv
  <2>2. ASSUME NEW i \in DOMAIN inbox', NEW j \in DOMAIN inbox',
               inbox'[i].from = t, inbox'[j].from = t
        PROVE  i = j
    <3>1. i + 1 = j + 1 /\ i \in Nat /\ j \in Nat
      BY <1>1, <2>1, <2>2 DEF OneRequest
    <3> QED
      BY <3>1
  <2>3. CASE t = inbox[1].from
    <3>1. \A i \in DOMAIN inbox' : inbox'[i].from # t
      <4>1. \A i \in DOMAIN inbox' : i + 1 # 1
        BY <1>1
      <4> QED
        BY <1>1, <2>1, <2>3, <4>1 DEF OneRequest
    <3>2. Waits(t)
      BY <1>1, <2>1, <2>3 DEF OneRequest
    <3> QED
      BY <2>1, <3>1, <3>2 DEF OneRequest
  <2>4. CASE t # inbox[1].from
    <3>1. reply'[t] = reply[t]
      BY <1>2, <2>4
    <3>2. \A i \in DOMAIN inbox' : i + 1 \in DOMAIN inbox /\ inbox'[i].from = inbox[i + 1].from
      BY <1>1
    <3> QED
      BY <2>1, <2>2, <3>1, <3>2 DEF OneRequest
  <2> QED
    BY <2>3, <2>4
<1> QED
    BY <1>1, <1>2, <1>3 DEF WireInv

-----------------------------------------------------------------------------
(* The buffers.                                                              *)

\* The keys and values of the buffer of writes and of the calls in progress.  While the
\* client thread empties the buffer, what it has yet to write is in it.
BufferTypes ==
  /\ toWrite \in [Key -> Value \union {Absent}] /\ latest \in [Key -> Value \union {0}]
  /\ call \in [Thread -> [key : Key \union {"none"}, val : Int]]
  /\ todo \subseteq Key
  /\ pc["unity"] = "setWrite" => call["unity"].key \in Key /\ call["unity"].val \in Value
  /\ pc["client"] \in {"reading", "writing"} => call["client"].key \in Key
  /\ pc["client"] \in {"writes", "writing"} => \A k \in todo : toWrite[k] # Absent

\* Calls, keys and buffers stay as they are and the client thread stays out of its loops.
LEMMA BufferSame ==
    ASSUME BufferTypes, UNCHANGED <<toWrite, latest, todo>>,
           call' \in [Thread -> [key : Key \union {"none"}, val : Int]],
           pc'["unity"] = "setWrite" =>
             \/ call'["unity"].key \in Key /\ call'["unity"].val \in Value
             \/ pc["unity"] = "setWrite" /\ call' = call,
           \/ pc'["client"] \notin {"reading", "writes", "writing"}
           \/ pc'["client"] = pc["client"] /\ call'["client"] = call["client"]
    PROVE  BufferTypes'
BY DEF BufferTypes

\* The server holds the last value of the key, and no write of it is on its way.
NoWrite(k) == \A i \in DOMAIN inbox : inbox[i].kind = "write" => inbox[i].key # k
Arrived(k) == var[k] = latest[k] /\ NoWrite(k)

\* The write that the client thread waits for: it is the last one on the wire, and once it
\* has been answered the server holds its value.
WritingInv ==
  LET c == call["client"].key IN
  /\ toWrite[c] # Absent
  /\ \A i \in DOMAIN inbox : inbox[i].from = "client" =>
       /\ inbox[i].kind = "write" /\ inbox[i].key = c /\ inbox[i].val = toWrite[c]
       /\ \A j \in DOMAIN inbox : j > i => inbox[j].kind # "write"
  /\ reply["client"] \notin {Absent, Failed} => var[c] = toWrite[c] /\ NoWrite(c)

\* The buffer holds the last value or one given up, and what the client thread has been
\* through has arrived or been given up.
WritesInv ==
  /\ \A k \in Key : toWrite[k] # Absent => latest[k] \in {0, toWrite[k]}
  /\ WritesKept
  /\ pc["client"] \in {"writes", "writing"} => \A k \in Key \ todo :
       \/ latest[k] = 0 \/ Arrived(k)
       \/ pc["client"] = "writing" /\ call["client"].key = k
  /\ pc["client"] = "writing" => WritingInv

\* An index-preserving change of the wire that neither adds a write nor a request of the
\* client thread, other than a read, does no harm.
LEMMA WritesSame ==
    ASSUME WritesInv, UNCHANGED <<toWrite, latest, todo, var>>,
           \/ pc'["client"] \notin {"writes", "writing"}
           \/ /\ pc'["client"] = pc["client"] /\ call'["client"] = call["client"]
              /\ pc'["client"] = "writing" => reply'["client"] = reply["client"],
           \A i \in DOMAIN inbox' :
             \/ /\ inbox'[i].kind # "write"
                /\ inbox'[i].from = "client" => pc'["client"] # "writing"
             \/ /\ i \in DOMAIN inbox
                /\ inbox'[i].kind = inbox[i].kind /\ inbox'[i].key = inbox[i].key
                /\ inbox'[i].val = inbox[i].val
                /\ inbox'[i].from = "client" => inbox[i].from = "client"
    PROVE  WritesInv'
<1>1. \A k \in Key : NoWrite(k) => NoWrite(k)'
    BY DEF NoWrite
<1>2. \A k \in Key : Arrived(k) => Arrived(k)'
    BY <1>1 DEF Arrived
<1>3. WritesKept'
    BY <1>1 DEF WritesInv, WritesKept, NoWrite
<1>4. pc'["client"] = "writing" => WritingInv'
  <2>1. SUFFICES ASSUME pc'["client"] = "writing" PROVE WritingInv'
    OBVIOUS
  <2>2. /\ pc["client"] = "writing" /\ call'["client"] = call["client"]
        /\ reply'["client"] = reply["client"] /\ WritingInv
    BY <2>1 DEF WritesInv
  <2>3. \A i \in DOMAIN inbox' : inbox'[i].from = "client" =>
          /\ i \in DOMAIN inbox /\ inbox[i].from = "client"
          /\ inbox'[i].kind = inbox[i].kind /\ inbox'[i].key = inbox[i].key
          /\ inbox'[i].val = inbox[i].val
    BY <2>1
  <2>4. \A j \in DOMAIN inbox' : inbox'[j].kind = "write" => j \in DOMAIN inbox /\ inbox[j].kind = "write"
    OBVIOUS
  <2> QED
    BY <2>2, <2>3, <2>4 DEF WritingInv, NoWrite
<1> QED
    BY <1>2, <1>3, <1>4 DEF WritesInv

\* Nor does the loss of all values, of those given up and of those on the wire.
LEMMA WritesCleared ==
    ASSUME toWrite' = [k \in Key |-> Absent], latest' = [k \in Key |-> 0],
           pc'["client"] \notin {"writes", "writing"}
    PROVE  WritesInv'
BY DEF WritesInv, WritesKept

\* The server executes the first request, or drops it.
LEMMA WritesServed ==
    ASSUME WireInv, BufferTypes, WritesInv, inbox # <<>>, inbox' = Tail(inbox),
           UNCHANGED <<pc, call, toWrite, latest, todo>>,
           NEW answer \in Int,
           reply' = IF Head(inbox).from = "nobody" THEN reply
                    ELSE [reply EXCEPT ![Head(inbox).from] = answer],
           \/ answer = Failed /\ var' = var
           \/ var' = IF Head(inbox).kind = "write"
                     THEN [var EXCEPT ![Head(inbox).key] = Head(inbox).val] ELSE var
    PROVE  WritesInv'
<1> DEFINE r == inbox[1]
<1>1. /\ inbox \in Seq(Request) /\ DOMAIN inbox = 1..Len(inbox) /\ Len(inbox) \in Nat
      /\ DOMAIN inbox' = 1..Len(inbox) - 1 /\ Head(inbox) = r /\ 1 \in DOMAIN inbox
      /\ r \in Request
      /\ \A i \in DOMAIN inbox' : i + 1 \in DOMAIN inbox /\ inbox'[i] = inbox[i + 1] /\ i \in Nat
    BY DEF WireInv
<1>2. \A k \in Key : NoWrite(k) => NoWrite(k)' /\ var'[k] = var[k]
  <2>1. SUFFICES ASSUME NEW k \in Key, NoWrite(k) PROVE NoWrite(k)' /\ var'[k] = var[k]
    OBVIOUS
  <2>2. NoWrite(k)'
    BY <1>1, <2>1 DEF NoWrite
  <2>3. r.kind = "write" => r.key # k /\ r.key \in Key
    BY <1>1, <2>1 DEF NoWrite, Request
  <2> QED
    BY <1>1, <2>2, <2>3 DEF WireInv
<1>3. \A k \in Key : Arrived(k) => Arrived(k)'
    BY <1>2 DEF Arrived
<1>4. WritesKept'
    BY <1>2, <1>3 DEF WritesInv, WritesKept, Arrived, NoWrite
<1>5. pc["client"] = "writing" => WritingInv'
  <2>1. SUFFICES ASSUME pc["client"] = "writing", WritingInv PROVE WritingInv'
    BY DEF WritesInv
  <2> DEFINE c == call["client"].key
  <2>2. c \in Key /\ toWrite[c] # Absent /\ call' = call /\ toWrite' = toWrite
    BY <2>1 DEF BufferTypes, WritingInv
  <2>3. ASSUME NEW i \in DOMAIN inbox', inbox'[i].from = "client"
        PROVE  /\ inbox'[i].kind = "write" /\ inbox'[i].key = c /\ inbox'[i].val = toWrite[c]
               /\ \A j \in DOMAIN inbox' : j > i => inbox'[j].kind # "write"
    <3>1. i + 1 \in DOMAIN inbox /\ inbox'[i] = inbox[i + 1] /\ i \in Nat
      BY <1>1
    <3>2. /\ inbox[i + 1].kind = "write" /\ inbox[i + 1].key = c /\ inbox[i + 1].val = toWrite[c]
          /\ \A j \in DOMAIN inbox : j > i + 1 => inbox[j].kind # "write"
      BY <2>1, <2>3, <3>1 DEF WritingInv
    <3>3. ASSUME NEW j \in DOMAIN inbox', j > i PROVE inbox'[j].kind # "write"
      <4>1. j + 1 \in DOMAIN inbox /\ inbox'[j] = inbox[j + 1] /\ j \in Nat
        BY <1>1
      <4>2. j + 1 > i + 1
        BY <3>1, <3>3, <4>1
      <4> QED
        BY <3>2, <4>1, <4>2
    <3> QED
      BY <3>1, <3>2, <3>3
  <2>4. reply'["client"] \notin {Absent, Failed} => var'[c] = toWrite[c] /\ NoWrite(c)'
    <3>1. CASE r.from = "client"
      <4>1. r.kind = "write" /\ r.key = c /\ r.val = toWrite[c]
        BY <1>1, <2>1, <3>1 DEF WritingInv
      <4>2. \A j \in DOMAIN inbox : j > 1 => inbox[j].kind # "write"
        BY <1>1, <2>1, <3>1 DEF WritingInv
      <4>3. ASSUME NEW i \in DOMAIN inbox' PROVE inbox'[i].kind # "write"
        <5>1. i + 1 \in DOMAIN inbox /\ inbox'[i] = inbox[i + 1] /\ i \in 1..Len(inbox) - 1
          BY <1>1
        <5>2. i + 1 > 1
          BY <1>1, <5>1
        <5> QED
          BY <4>2, <5>1, <5>2
      <4>4. NoWrite(c)'
        BY <4>3 DEF NoWrite
      <4>5. reply'["client"] = answer
        BY <1>1, <3>1 DEF WireInv, Thread
      <4>6. answer # Failed => var'[c] = toWrite[c]
        BY <1>1, <2>2, <4>1 DEF WireInv
      <4> QED
        BY <4>4, <4>5, <4>6
    <3>2. CASE r.from # "client"
      <4>1. reply'["client"] = reply["client"]
        BY <1>1, <3>2 DEF WireInv, Thread
      <4> QED
        BY <1>2, <2>1, <2>2, <4>1 DEF WritingInv
    <3> QED
      BY <3>1, <3>2
  <2> QED
    BY <2>2, <2>3, <2>4 DEF WritingInv
<1> QED
    BY <1>3, <1>4, <1>5 DEF WritesInv

-----------------------------------------------------------------------------
(* Every step, thread by thread.                                             *)

\* A thread that stops waiting leaves every request where it is, and has no answer.
LEMMA ReturnEffect ==
    ASSUME WireInv, NEW t \in Waiter, Answered(t) \/ GivesUp(t)
    PROVE  /\ \A u \in Waiter \ {t} : reply'[u] = reply[u]
           /\ var' = var
           /\ \A i \in DOMAIN inbox' :
                /\ i \in DOMAIN inbox
                /\ inbox'[i].kind = inbox[i].kind /\ inbox'[i].key = inbox[i].key
                /\ inbox'[i].val = inbox[i].val
                /\ \A u \in Waiter : inbox'[i].from = u => inbox[i].from = u
<1>1. /\ \A u \in Waiter \ {t} : reply'[u] = reply[u]
      /\ var' = var
    BY DEF Answered, GivesUp, WireInv, Waiter, Thread
<1>2. CASE Answered(t)
    BY <1>1, <1>2 DEF Answered
<1>3. CASE GivesUp(t)
  <2>1. DOMAIN inbox' = DOMAIN inbox
        /\ \A i \in DOMAIN inbox :
             /\ inbox[i] \in Request
             /\ inbox'[i] = IF inbox[i].from = t THEN [inbox[i] EXCEPT !.from = "nobody"]
                            ELSE inbox[i]
    BY <1>3 DEF GivesUp, WireInv
  <2> QED
    BY <1>1, <2>1 DEF Request, Waiter
<1> QED
    BY <1>2, <1>3

DataInv == WireInv /\ BufferTypes /\ WritesInv

UnityWaits == {"connecting", "clientCall", "deleting"}
ClientWaits == {"reading", "writing"}

\* Steps that touch neither the wire nor the buffers.
LEMMA Quiet ==
    ASSUME DataInv, UNCHANGED <<wireVars, toWrite, latest, todo>>,
           \A t \in Waiter : Waits(t)' = Waits(t),
           call' \in [Thread -> [key : Key \union {"none"}, val : Int]],
           pc'["unity"] = "setWrite" =>
             \/ call'["unity"].key \in Key /\ call'["unity"].val \in Value
             \/ pc["unity"] = "setWrite" /\ call' = call,
           \/ pc'["client"] \notin {"reading", "writes", "writing"}
           \/ pc'["client"] = pc["client"] /\ call'["client"] = call["client"]
    PROVE  DataInv'
<1>1. WireInv'
    BY WireSame DEF DataInv, wireVars
<1>2. BufferTypes'
    BY BufferSame DEF DataInv
<1>3. inbox' = inbox /\ reply' = reply /\ var' = var
    BY DEF wireVars
<1>4. WritesInv'
    BY <1>3, WritesSame DEF DataInv
<1> QED
    BY <1>1, <1>2, <1>4 DEF DataInv

\* Such a step of the Unity thread.
LEMMA QuietUnity ==
    ASSUME MutexInv, DataInv, UNCHANGED <<wireVars, toWrite, latest, todo>>,
           NEW label, Goto("unity", label), pc["unity"] \notin UnityWaits,
           label \notin UnityWaits,
           call' = call \/ call' = [call EXCEPT !["unity"] = NoCall],
           label # "setWrite"
    PROVE  DataInv'
<1>1. pc'["unity"] = label /\ pc'["client"] = pc["client"]
    BY DEF MutexInv, Goto, Thread
<1>2. \A t \in Waiter : Waits(t)' = Waits(t)
    BY <1>1 DEF Waits, Waiter, UnityWaits
<1>3. call' \in [Thread -> [key : Key \union {"none"}, val : Int]] /\ call'["client"] = call["client"]
  <2>1. call \in [Thread -> [key : Key \union {"none"}, val : Int]] /\ "client" \in Thread
        /\ NoCall \in [key : Key \union {"none"}, val : Int]
    BY DEF DataInv, BufferTypes, NoCall, Thread
  <2> QED
    BY <2>1
<1> QED
    BY <1>1, <1>2, <1>3, Quiet

\* Such a step of the server thread.
LEMMA QuietServer ==
    ASSUME MutexInv, DataInv, UNCHANGED <<wireVars, toWrite, latest, todo, call>>,
           NEW label, Goto("server", label)
    PROVE  DataInv'
<1>1. pc'["unity"] = pc["unity"] /\ pc'["client"] = pc["client"]
    BY DEF MutexInv, Goto, Thread
<1>2. \A t \in Waiter : Waits(t)' = Waits(t)
    BY <1>1 DEF Waits, Waiter
<1>3. call' \in [Thread -> [key : Key \union {"none"}, val : Int]]
    BY DEF DataInv, BufferTypes
<1> QED
    BY <1>1, <1>2, <1>3, Quiet DEF DataInv, BufferTypes

\* Such a step of the client thread.
LEMMA QuietClient ==
    ASSUME MutexInv, DataInv, UNCHANGED <<wireVars, toWrite, latest, todo, call>>,
           NEW label, Goto("client", label), pc["client"] \notin ClientWaits,
           label \notin {"reading", "writes", "writing"}
    PROVE  DataInv'
<1>1. pc'["unity"] = pc["unity"] /\ pc'["client"] = label
    BY DEF MutexInv, Goto, Thread
<1>2. \A t \in Waiter : Waits(t)' = Waits(t)
    BY <1>1 DEF Waits, Waiter, ClientWaits
<1>3. call' \in [Thread -> [key : Key \union {"none"}, val : Int]]
    BY DEF DataInv, BufferTypes
<1> QED
    BY <1>1, <1>2, <1>3, Quiet DEF DataInv, BufferTypes

\* Such a step that leaves the threads where they are.
LEMMA QuietStay ==
    ASSUME DataInv, UNCHANGED <<wireVars, toWrite, latest, todo, call, pc>>
    PROVE  DataInv'
<1>1. \A t \in Waiter : Waits(t)' = Waits(t)
    BY DEF Waits
<1> QED
    BY <1>1, Quiet DEF DataInv, BufferTypes

\* A request of the Unity thread: none of its calls writes through the buffers.
LEMMA UnitySends ==
    ASSUME MutexInv, DataInv, NEW kind, kind \in {"call", "close", "connect"}, NEW label \in UnityWaits,
           pc["unity"] \notin UnityWaits, Goto("unity", label), UNCHANGED <<todo, call, var>>,
           \/ inbox' = Append(inbox, [from |-> "unity", kind |-> kind, key |-> "none", val |-> 0])
              /\ reply' = reply
           \/ reply' = [reply EXCEPT !["unity"] = Failed] /\ inbox' = inbox,
           \/ UNCHANGED <<toWrite, latest>>
           \/ /\ toWrite' = [k \in Key |-> Absent] /\ latest' = [k \in Key |-> 0]
              /\ pc["client"] \notin {"writes", "writing"}
    PROVE  DataInv'
<1> DEFINE r == [from |-> "unity", kind |-> kind, key |-> "none", val |-> 0]
<1>1. pc'["unity"] = label /\ pc'["client"] = pc["client"]
    BY DEF MutexInv, Goto, Thread
<1>2. /\ ~Waits("unity") /\ Waits("unity")' /\ "unity" \in Waiter
      /\ \A u \in Waiter \ {"unity"} : Waits(u)' = Waits(u)
    BY <1>1 DEF Waits, Waiter, UnityWaits
<1>3. r \in Request
  <2>1. r \in [from : Waiter \union {"nobody"}, kind : RequestKind, key : Key \union {"none"}, val : Int]
    BY DEF Waiter, RequestKind
  <2>2. r.kind \notin {"read", "write"}
    OBVIOUS
  <2> QED
    BY <2>1, <2>2 DEF Request
<1>4. WireInv'
  <2>1. CASE inbox' = Append(inbox, r) /\ reply' = reply
    <3>1. r.from = "unity"
      OBVIOUS
    <3> HIDE DEF r
    <3> QED
      BY <1>2, <1>3, <2>1, <3>1, WireSend DEF DataInv
  <2>2. CASE reply' = [reply EXCEPT !["unity"] = Failed] /\ inbox' = inbox
    BY <1>2, <2>2, WireFails DEF DataInv
  <2> QED
    BY <2>1, <2>2
<1>5. BufferTypes'
  <2>1. label # "setWrite"
    BY DEF UnityWaits
  <2> QED
    BY <1>1, <2>1 DEF DataInv, BufferTypes
<1>6. WritesInv'
  <2>1. CASE UNCHANGED <<toWrite, latest>>
    <3>1. reply'["client"] = reply["client"]
      BY DEF DataInv, WireInv, Thread
    <3>2. \A i \in DOMAIN inbox' :
             \/ inbox'[i].kind # "write" /\ inbox'[i].from # "client"
             \/ i \in DOMAIN inbox /\ inbox'[i] = inbox[i]
      <4>1. CASE inbox' = inbox
        BY <4>1
      <4>2. CASE inbox' = Append(inbox, r)
        <5>1. /\ DOMAIN inbox = 1..Len(inbox) /\ DOMAIN inbox' = 1..Len(inbox) + 1 /\ Len(inbox) \in Nat
              /\ inbox'[Len(inbox) + 1] = r /\ \A i \in 1..Len(inbox) : inbox'[i] = inbox[i]
          BY <1>3, <4>2 DEF DataInv, WireInv
        <5> QED
          BY <5>1
      <4> QED
        BY <4>1, <4>2
    <3> QED
      BY <1>1, <2>1, <3>1, <3>2, WritesSame DEF DataInv
  <2>2. CASE /\ toWrite' = [k \in Key |-> Absent] /\ latest' = [k \in Key |-> 0]
             /\ pc["client"] \notin {"writes", "writing"}
    BY <1>1, <2>2, WritesCleared
  <2> QED
    BY <2>1, <2>2
<1> QED
    BY <1>4, <1>5, <1>6 DEF DataInv

\* A call of the Unity thread returns.
LEMMA UnityReturns ==
    ASSUME MutexInv, DataInv, NEW label, label \notin UnityWaits \union {"setWrite"},
           Goto("unity", label), UNCHANGED <<todo, call, toWrite, latest>>,
           Answered("unity") \/ GivesUp("unity")
    PROVE  DataInv'
<1>1. pc'["unity"] = label /\ pc'["client"] = pc["client"]
    BY DEF MutexInv, Goto, Thread
<1>2. \A u \in Waiter \ {"unity"} : Waits(u)' = Waits(u)
    BY <1>1 DEF Waits, Waiter
<1>3. WireInv'
    BY <1>2, WireReturn DEF DataInv, Waiter
<1>4. BufferTypes'
    BY <1>1 DEF DataInv, BufferTypes
<1>5. /\ reply'["client"] = reply["client"] /\ var' = var
      /\ \A i \in DOMAIN inbox' :
           /\ i \in DOMAIN inbox
           /\ inbox'[i].kind = inbox[i].kind /\ inbox'[i].key = inbox[i].key
           /\ inbox'[i].val = inbox[i].val
           /\ inbox'[i].from = "client" => inbox[i].from = "client"
    BY ReturnEffect DEF DataInv, Waiter
<1>6. WritesInv'
    BY <1>1, <1>5, WritesSame DEF DataInv
<1> QED
    BY <1>3, <1>4, <1>6 DEF DataInv

\* The calls of the script.
LEMMA ScriptData == ASSUME MutexInv, DataInv, Script PROVE DataInv'
<1> USE DEF scriptVars, bufferVars, wireVars, eventVars, dataVars, flagVars, workVars
<1>1. CASE startServer
    BY <1>1, QuietStay DEF startServer
<1>2. CASE StartServerThread
    BY <1>2, QuietServer DEF StartServerThread
<1>3. CASE ServerCall
    BY <1>3, QuietUnity DEF ServerCall, Idle, UnityWaits
<1>4. CASE stopServer
    BY <1>4, QuietUnity, QuietStay DEF stopServer, Idle, UnityWaits
<1>5. CASE Update
    BY <1>5, QuietUnity DEF Update, Idle, UnityWaits
<1>6. CASE OnDestroy
    BY <1>6, QuietUnity DEF OnDestroy, Idle, UnityWaits
<1>7. CASE StartClientThread
    BY <1>7, QuietClient DEF StartClientThread, ClientWaits
<1>8. CASE ClientConnect
    BY <1>8, UnitySends DEF ClientConnect, Idle, UnityWaits
<1>9. CASE ClientCall
    BY <1>9, UnitySends DEF ClientCall, Send, Idle, UnityWaits
<1>10. ASSUME NEW k \in Key, NEW v \in Value, setClientWrite(k, v) PROVE DataInv'
  <2>1. /\ pc["unity"] = "idle" /\ pc'["unity"] = "setWrite" /\ pc'["client"] = pc["client"]
        /\ UNCHANGED <<wireVars, toWrite, latest, todo>>
        /\ call' = [call EXCEPT !["unity"] = [key |-> k, val |-> v]]
    BY <1>10 DEF setClientWrite, MutexInv, Goto, Thread, Idle
  <2>2. \A t \in Waiter : Waits(t)' = Waits(t)
    BY <2>1 DEF Waits, Waiter
  <2>3. /\ call \in [Thread -> [key : Key \union {"none"}, val : Int]]
        /\ [key |-> k, val |-> v] \in [key : Key \union {"none"}, val : Int]
    BY ValueAssumption DEF DataInv, BufferTypes
  <2>4. /\ call' \in [Thread -> [key : Key \union {"none"}, val : Int]]
        /\ call'["client"] = call["client"]
        /\ call'["unity"].key \in Key /\ call'["unity"].val \in Value
    BY <2>1, <2>3 DEF Thread
  <2> QED
    BY <2>1, <2>2, <2>4, Quiet
<1>11. ASSUME NEW k \in Key, NEW d \in {0, 1}, getClientRead(k, d) PROVE DataInv'
  <2>1. /\ pc["unity"] = "idle" /\ pc'["unity"] = "getRead" /\ pc'["client"] = pc["client"]
        /\ UNCHANGED <<wireVars, toWrite, latest, todo>>
        /\ call' = [call EXCEPT !["unity"] = [key |-> k, val |-> d]]
    BY <1>11 DEF getClientRead, MutexInv, Goto, Thread, Idle
  <2>2. \A t \in Waiter : Waits(t)' = Waits(t)
    BY <2>1 DEF Waits, Waiter
  <2>3. /\ call \in [Thread -> [key : Key \union {"none"}, val : Int]]
        /\ [key |-> k, val |-> d] \in [key : Key \union {"none"}, val : Int]
    BY DEF DataInv, BufferTypes
  <2>4. /\ call' \in [Thread -> [key : Key \union {"none"}, val : Int]]
        /\ call'["client"] = call["client"]
    BY <2>1, <2>3 DEF Thread
  <2> QED
    BY <2>1, <2>2, <2>4, Quiet
<1> QED
    BY <1>1, <1>2, <1>3, <1>4, <1>5, <1>6, <1>7, <1>8, <1>9, <1>10, <1>11 DEF Script

\* setClientWrite enters its value: nobody empties the buffer meanwhile.
LEMMA WriteEntered == ASSUME MutexInv, DataInv, setClientWriteBody PROVE DataInv'
<1> DEFINE c == call["unity"]
<1>1. /\ pc'["unity"] = "idle" /\ pc'["client"] = pc["client"]
      /\ pc["client"] \notin {"reading", "writes", "writing"}
    BY DEF setClientWriteBody, MutexInv, ClientOwns, Goto, Thread, Free
<1>2. \A t \in Waiter : Waits(t)' = Waits(t)
    BY <1>1 DEF Waits, Waiter, setClientWriteBody
<1>3. WireInv'
    BY <1>2, WireSame DEF DataInv, setClientWriteBody
<1>4. c.key \in Key /\ c.val \in Value
    BY DEF DataInv, BufferTypes, setClientWriteBody
<1>5. /\ toWrite' = [toWrite EXCEPT ![c.key] = c.val] /\ latest' = [latest EXCEPT ![c.key] = c.val]
      /\ call' = [call EXCEPT !["unity"] = NoCall] /\ todo' = todo
      /\ inbox' = inbox /\ var' = var
    BY DEF setClientWriteBody, wireVars
<1>6. /\ toWrite \in [Key -> Value \union {Absent}] /\ latest \in [Key -> Value \union {0}]
      /\ call \in [Thread -> [key : Key \union {"none"}, val : Int]] /\ todo \subseteq Key
      /\ NoCall \in [key : Key \union {"none"}, val : Int]
    BY DEF DataInv, BufferTypes, NoCall
<1>7. /\ toWrite' \in [Key -> Value \union {Absent}] /\ latest' \in [Key -> Value \union {0}]
      /\ call' \in [Thread -> [key : Key \union {"none"}, val : Int]]
    BY <1>4, <1>5, <1>6
<1>8. BufferTypes'
    BY <1>1, <1>5, <1>6, <1>7 DEF BufferTypes
<1>9. ASSUME NEW k \in Key
      PROVE  /\ toWrite'[k] # Absent => latest'[k] \in {0, toWrite'[k]}
             /\ latest'[k] # 0 => \/ toWrite'[k] = latest'[k]
                                  \/ /\ var'[k] = latest'[k]
                                     /\ \A i \in DOMAIN inbox' : inbox'[i].kind = "write" => inbox'[i].key # k
  <2>1. CASE k = c.key
    BY <1>4, <1>5, <1>6, <2>1
  <2>2. CASE k # c.key
    <3>1. toWrite'[k] = toWrite[k] /\ latest'[k] = latest[k]
      BY <1>4, <1>5, <1>6, <2>2
    <3> QED
      BY <1>5, <3>1 DEF DataInv, WritesInv, WritesKept
  <2> QED
    BY <2>1, <2>2
<1>10. WritesInv'
    BY <1>1, <1>9 DEF WritesInv, WritesKept
<1> QED
    BY <1>3, <1>8, <1>10 DEF DataInv

\* The end of OnDestroy and the taking of the client's mutex there.
LEMMA BuffersCleared ==
    ASSUME MutexInv, DataInv, UNCHANGED <<wireVars, todo, call>>, NEW label,
           Goto("unity", label), pc["unity"] \notin UnityWaits, label \notin UnityWaits \union {"setWrite"},
           ClearBuffers, pc["client"] \notin {"writes", "writing"}
    PROVE  DataInv'
<1>1. pc'["unity"] = label /\ pc'["client"] = pc["client"]
    BY DEF MutexInv, Goto, Thread
<1>2. \A t \in Waiter : Waits(t)' = Waits(t)
    BY <1>1 DEF Waits, Waiter, UnityWaits
<1>3. WireInv'
    BY <1>2, WireSame DEF DataInv
<1>4. BufferTypes'
    BY <1>1 DEF DataInv, BufferTypes, ClearBuffers
<1>5. WritesInv'
    BY <1>1, WritesCleared DEF ClearBuffers
<1> QED
    BY <1>3, <1>4, <1>5 DEF DataInv

\* The steps of the Unity thread.
LEMMA UnityData == ASSUME MutexInv, DataInv, UnityRuns \/ UnityLocks PROVE DataInv'
<1> USE DEF scriptVars, bufferVars, wireVars, eventVars, dataVars, flagVars, workVars
<1>1. CASE ServerCallReturns \/ ShutdownReturns \/ JoinClient \/ DestroyServer \/ DestroyServerReturns \/ JoinServer
    BY <1>1, QuietUnity DEF ServerCallReturns, ShutdownReturns, JoinClient, DestroyServer,
         DestroyServerReturns, JoinServer, UnityWaits
<1>2. CASE ClientConnectReturns
  <2>1. CASE Answered("unity")
    BY <1>2, <2>1, UnityReturns DEF ClientConnectReturns, UnityWaits
  <2>2. CASE /\ reply["unity"] = Absent /\ inbox' = <<>> /\ reply' = reply /\ var' = var
    <3>1. /\ pc'["unity"] = "idle" /\ pc'["client"] = pc["client"]
          /\ pc["client"] = "none"
          /\ UNCHANGED <<toWrite, latest, todo, call>>
      BY <1>2 DEF ClientConnectReturns, MutexInv, UnityOwns, Goto, Thread
    <3>2. WireInv'
      BY <2>2, <3>1 DEF DataInv, WireInv, OneRequest, Waits, Waiter
    <3>3. BufferTypes'
      BY <3>1 DEF DataInv, BufferTypes
    <3>4. WritesInv'
      BY <2>2, <3>1, WritesSame DEF DataInv
    <3> QED
      BY <3>2, <3>3, <3>4 DEF DataInv
  <2> QED
    BY <1>2, <2>1, <2>2 DEF ClientConnectReturns
<1>3. CASE ClientCallReturns
    BY <1>3, UnityReturns DEF ClientCallReturns, Returns, TimedOut, UnityWaits
<1>4. CASE ClientDeleteReturns
    BY <1>4, UnityReturns DEF ClientDeleteReturns, TimedOut, UnityWaits
<1>5. CASE \E l \in Lists : Invoke(l)
    BY <1>5, QuietStay DEF Invoke
<1>6. CASE (\E l \in Lists : LoopEnds(l)) \/ ClearCalls \/ ClearChanges
    BY <1>6, QuietUnity DEF LoopEnds, ClearCalls, ClearChanges, UnityWaits, Lists
<1>7. CASE getClientReadBody \/ UpdateServerMutex \/ UpdateClientMutex \/ DestroyServerMutex
    BY <1>7, QuietUnity DEF getClientReadBody, UpdateServerMutex, UpdateClientMutex, DestroyServerMutex, UnityWaits
<1>8. CASE setClientWriteBody
    BY <1>8, WriteEntered
<1>9. CASE CleanUp
  <2>1. pc["client"] \notin {"writes", "writing"}
    BY <1>9 DEF CleanUp, MutexInv, ClientOwns, UnityOwns, DestroyOwns
  <2> QED
    BY <1>9, <2>1, BuffersCleared DEF CleanUp, UnityWaits
<1>10. CASE DestroyClientMutex
  <2>1. pc["client"] \notin {"writes", "writing"}
    BY <1>10 DEF DestroyClientMutex, MutexInv, ClientOwns, UnityOwns, Free
  <2>2. CASE connected["client"]
    BY <1>10, <2>1, <2>2, UnitySends DEF DestroyClientMutex, Send, ClearBuffers, UnityWaits
  <2>3. CASE ~connected["client"]
    BY <1>10, <2>1, <2>3, BuffersCleared DEF DestroyClientMutex, UnityWaits
  <2> QED
    BY <2>2, <2>3
<1> QED
    BY <1>1, <1>2, <1>3, <1>4, <1>5, <1>6, <1>7, <1>8, <1>9, <1>10 DEF UnityRuns, UnityLocks

\* The steps of the server thread, and what arrives at the server.
LEMMA ServerData ==
    ASSUME MutexInv, DataInv, ServerRuns \/ ServerLocks \/ Serve \/ Refuse PROVE DataInv'
<1> USE DEF scriptVars, bufferVars, wireVars, eventVars, dataVars, flagVars, workVars
<1>1. CASE ServerRuns \/ ServerLocks
    BY <1>1, QuietServer DEF ServerRuns, ServerLocks, ServerLoop, ServerUpdateReturns, ServerUnlocks, AbortedInWait
<1>2. CASE Serve \/ Refuse
  <2> DEFINE r == Head(inbox)
             answer == IF Refuse THEN Failed ELSE IF r.kind = "read" THEN var[r.key] ELSE 0
  <2>1. inbox # <<>> /\ r \in Request
    BY <1>2 DEF Serve, Refuse, DataInv, WireInv
  <2>2. /\ r.kind \in {"read", "write"} => r.key \in Key
        /\ r.kind = "write" => r.val \in Nat
    BY <2>1, ValueAssumption DEF Request
  <2>3. answer \in Int
    BY <2>2 DEF DataInv, WireInv, Failed
  <2>4. /\ UNCHANGED <<pc, call, toWrite, latest, todo>> /\ inbox' = Tail(inbox)
        /\ reply' = IF r.from = "nobody" THEN reply ELSE [reply EXCEPT ![r.from] = answer]
        /\ \/ answer = Failed /\ var' = var
           \/ var' = IF r.kind = "write" THEN [var EXCEPT ![r.key] = r.val] ELSE var
    BY <1>2 DEF Serve, Refuse
  <2>5. var' \in [Key -> Nat]
    BY <2>2, <2>4 DEF DataInv, WireInv
  <2>6. \A t \in Waiter : Waits(t)' = Waits(t)
    BY <2>4 DEF Waits
  <2> HIDE DEF answer, r
  <2>7. WireInv'
    BY <2>1, <2>3, <2>4, <2>5, <2>6, WireServed DEF DataInv, r
  <2>8. WritesInv'
    BY <2>1, <2>3, <2>4, WritesServed DEF DataInv, r
  <2>9. BufferTypes'
    BY <2>4 DEF DataInv, BufferTypes
  <2> QED
    BY <2>7, <2>8, <2>9 DEF DataInv
<1> QED
    BY <1>1, <1>2

\* The client thread leaves its loops over keys alone: it locks, or starts the reads.
LEMMA ClientLocksData == ASSUME MutexInv, DataInv, ClientLocks PROVE DataInv'
<1>1. /\ pc'["client"] = "reads" /\ pc'["unity"] = pc["unity"] /\ pc["client"] = "wait"
      /\ UNCHANGED <<wireVars, toWrite, latest, call>> /\ todo' = Keys(forRead)
    BY DEF ClientLocks, MutexInv, Goto, Thread, dataVars, bufferVars
<1>2. \A t \in Waiter : Waits(t)' = Waits(t)
    BY <1>1 DEF Waits, Waiter
<1>3. WireInv'
    BY <1>1, <1>2, WireSame DEF DataInv
<1>4. BufferTypes'
    BY <1>1 DEF DataInv, BufferTypes, Keys
<1>5. WritesInv'
    BY <1>1 DEF DataInv, WritesInv, WritesKept, wireVars
<1> QED
    BY <1>3, <1>4, <1>5 DEF DataInv

\* It asks for the value of a key.
LEMMA ReadData == ASSUME MutexInv, DataInv, NEW k \in Key, Read(k) PROVE DataInv'
<1> DEFINE r == [from |-> "client", kind |-> "read", key |-> k, val |-> 0]
<1>1. /\ pc'["client"] = "reading" /\ pc'["unity"] = pc["unity"] /\ pc["client"] = "reads"
      /\ UNCHANGED <<var, toWrite, latest>> /\ todo' = todo \ {k}
      /\ call' = [call EXCEPT !["client"] = [key |-> k, val |-> 0]]
      /\ \/ inbox' = Append(inbox, r) /\ reply' = reply
         \/ reply' = [reply EXCEPT !["client"] = Failed] /\ inbox' = inbox
    BY DEF Read, Send, MutexInv, Goto, Thread, bufferVars
<1>2. /\ ~Waits("client") /\ Waits("client")' /\ "client" \in Waiter
      /\ \A u \in Waiter \ {"client"} : Waits(u)' = Waits(u)
    BY <1>1 DEF Waits, Waiter
<1>3. r \in Request /\ r.from = "client" /\ r.kind = "read"
    BY DEF Request, Waiter, RequestKind
<1> HIDE DEF r
<1>4. WireInv'
    BY <1>1, <1>2, <1>3, WireSend, WireFails DEF DataInv
<1>5. BufferTypes'
  <2>1. /\ call \in [Thread -> [key : Key \union {"none"}, val : Int]]
        /\ [key |-> k, val |-> 0] \in [key : Key \union {"none"}, val : Int]
    BY DEF DataInv, BufferTypes
  <2>2. /\ call' \in [Thread -> [key : Key \union {"none"}, val : Int]]
        /\ call'["unity"] = call["unity"] /\ call'["client"].key = k
    BY <1>1, <2>1 DEF Thread
  <2> QED
    BY <1>1, <2>2 DEF DataInv, BufferTypes
<1>6. \A i \in DOMAIN inbox' :
        \/ inbox'[i].kind # "write"
        \/ i \in DOMAIN inbox /\ inbox'[i] = inbox[i]
  <2>1. CASE inbox' = inbox
    BY <2>1
  <2>2. CASE inbox' = Append(inbox, r)
    <3>1. /\ DOMAIN inbox = 1..Len(inbox) /\ DOMAIN inbox' = 1..Len(inbox) + 1 /\ Len(inbox) \in Nat
          /\ inbox'[Len(inbox) + 1] = r /\ \A i \in 1..Len(inbox) : inbox'[i] = inbox[i]
      BY <1>3, <2>2 DEF DataInv, WireInv
    <3> QED
      BY <1>3, <3>1
  <2> QED
    BY <1>1, <2>1, <2>2
<1>7. \A k2 \in Key : NoWrite(k2) => NoWrite(k2)'
    BY <1>6 DEF NoWrite
<1>8. WritesInv'
    BY <1>1, <1>7 DEF DataInv, WritesInv, WritesKept, NoWrite
<1> QED
    BY <1>4, <1>5, <1>8 DEF DataInv

\* The answer, or none, is entered into the other buffer.
LEMMA ReadReturnsData == ASSUME MutexInv, DataInv, ReadReturns PROVE DataInv'
<1>1. /\ pc'["client"] = "reads" /\ pc'["unity"] = pc["unity"] /\ pc["client"] = "reading"
      /\ UNCHANGED <<toWrite, latest, todo>>
      /\ call' = [call EXCEPT !["client"] = NoCall]
      /\ Answered("client") \/ GivesUp("client")
    BY DEF ReadReturns, Returns, TimedOut, MutexInv, Goto, Thread
<1>2. \A u \in Waiter \ {"client"} : Waits(u)' = Waits(u)
    BY <1>1 DEF Waits, Waiter
<1>3. WireInv'
    BY <1>1, <1>2, WireReturn DEF DataInv, Waiter
<1>4. BufferTypes'
  <2>1. /\ call \in [Thread -> [key : Key \union {"none"}, val : Int]] /\ "unity" \in Thread
        /\ NoCall \in [key : Key \union {"none"}, val : Int]
    BY DEF DataInv, BufferTypes, NoCall, Thread
  <2>2. /\ call' \in [Thread -> [key : Key \union {"none"}, val : Int]]
        /\ call'["unity"] = call["unity"]
    BY <1>1, <2>1
  <2> QED
    BY <1>1, <2>2 DEF DataInv, BufferTypes
<1>5. var' = var /\ \A i \in DOMAIN inbox' :
        /\ i \in DOMAIN inbox
        /\ inbox'[i].kind = inbox[i].kind /\ inbox'[i].key = inbox[i].key
    BY <1>1, ReturnEffect DEF DataInv, Waiter
<1>6. \A k \in Key : NoWrite(k) => NoWrite(k)'
    BY <1>5 DEF NoWrite
<1>7. WritesInv'
    BY <1>1, <1>5, <1>6 DEF DataInv, WritesInv, WritesKept, NoWrite
<1> QED
    BY <1>3, <1>4, <1>7 DEF DataInv

\* The writes begin: what is not in the buffer has arrived or been given up.
LEMMA ReadsDoneData == ASSUME MutexInv, DataInv, ReadsDone PROVE DataInv'
<1>1. /\ pc'["client"] = "writes" /\ pc'["unity"] = pc["unity"] /\ pc["client"] = "reads"
      /\ UNCHANGED <<wireVars, toWrite, latest, call>> /\ todo' = Keys(toWrite)
    BY DEF ReadsDone, MutexInv, Goto, Thread, dataVars, bufferVars
<1>2. \A t \in Waiter : Waits(t)' = Waits(t)
    BY <1>1 DEF Waits, Waiter
<1>3. WireInv'
    BY <1>1, <1>2, WireSame DEF DataInv
<1>4. BufferTypes'
    BY <1>1 DEF DataInv, BufferTypes, Keys
<1>5. inbox' = inbox /\ var' = var
    BY <1>1 DEF wireVars
<1>6. ASSUME NEW k \in Key, toWrite[k] = Absent PROVE latest[k] = 0 \/ Arrived(k)'
  <2>1. latest[k] # Absent
    BY ValueAssumption DEF DataInv, BufferTypes, Absent
  <2> QED
    BY <1>1, <1>5, <1>6, <2>1 DEF DataInv, WritesInv, WritesKept, Arrived, NoWrite
<1>7. WritesInv'
    BY <1>1, <1>5, <1>6 DEF DataInv, WritesInv, WritesKept, Keys
<1> QED
    BY <1>3, <1>4, <1>7 DEF DataInv

\* It writes the value of a key; the buffer still holds it.
LEMMA WriteData == ASSUME MutexInv, DataInv, NEW k \in Key, Write(k) PROVE DataInv'
<1> DEFINE r == [from |-> "client", kind |-> "write", key |-> k, val |-> toWrite[k]]
<1>1. /\ pc'["client"] = "writing" /\ pc'["unity"] = pc["unity"] /\ pc["client"] = "writes"
      /\ UNCHANGED <<var, toWrite, latest>> /\ todo' = todo \ {k} /\ k \in todo
      /\ call' = [call EXCEPT !["client"] = [key |-> k, val |-> toWrite[k]]]
      /\ \/ inbox' = Append(inbox, r) /\ reply' = reply
         \/ reply' = [reply EXCEPT !["client"] = Failed] /\ inbox' = inbox
    BY DEF Write, Send, MutexInv, Goto, Thread, bufferVars
<1>2. /\ ~Waits("client") /\ Waits("client")' /\ "client" \in Waiter
      /\ \A u \in Waiter \ {"client"} : Waits(u)' = Waits(u)
    BY <1>1 DEF Waits, Waiter
<1>3. toWrite[k] \in Value /\ toWrite[k] \in Int /\ toWrite[k] # Absent
  <2>1. toWrite[k] # Absent /\ toWrite[k] \in Value \union {Absent}
    BY <1>1 DEF DataInv, BufferTypes
  <2>2. toWrite[k] \in Value
    BY <2>1, Zenon
  <2>3. Value \subseteq Int
    BY ValueAssumption
  <2> QED
    BY <2>1, <2>2, <2>3, Zenon
<1>4. /\ r \in Request /\ r.from = "client" /\ r.kind = "write" /\ r.key = k /\ r.val = toWrite[k]
    BY <1>3 DEF Request, Waiter, RequestKind
<1> HIDE DEF r
<1>5. WireInv'
    BY <1>1, <1>2, <1>4, WireSend, WireFails DEF DataInv
<1>6. /\ call' \in [Thread -> [key : Key \union {"none"}, val : Int]]
      /\ call'["unity"] = call["unity"] /\ call'["client"].key = k
  <2>1. /\ call \in [Thread -> [key : Key \union {"none"}, val : Int]]
        /\ [key |-> k, val |-> toWrite[k]] \in [key : Key \union {"none"}, val : Int]
    BY <1>3 DEF DataInv, BufferTypes
  <2> QED
    BY <1>1, <2>1 DEF Thread
<1>7. BufferTypes'
    BY <1>1, <1>6 DEF DataInv, BufferTypes
<1>8. reply["client"] = Absent /\ \A i \in DOMAIN inbox : inbox[i].from # "client"
    BY <1>2 DEF DataInv, WireInv, OneRequest
<1>9. WritingInv'
  <2>1. CASE inbox' = Append(inbox, r) /\ reply' = reply
    <3>1. /\ DOMAIN inbox = 1..Len(inbox) /\ DOMAIN inbox' = 1..Len(inbox) + 1 /\ Len(inbox) \in Nat
          /\ inbox'[Len(inbox) + 1] = r /\ \A i \in 1..Len(inbox) : inbox'[i] = inbox[i]
      BY <1>4, <2>1 DEF DataInv, WireInv
    <3>2. \A i \in DOMAIN inbox' : inbox'[i].from = "client" => i = Len(inbox) + 1
      BY <1>8, <3>1
    <3>3. \A j \in DOMAIN inbox' : ~(j > Len(inbox) + 1)
      BY <3>1
    <3> QED
      BY <1>1, <1>3, <1>4, <1>6, <1>8, <2>1, <3>1, <3>2, <3>3 DEF WritingInv
  <2>2. CASE reply' = [reply EXCEPT !["client"] = Failed] /\ inbox' = inbox
    <3>1. reply'["client"] = Failed
      BY <2>2 DEF DataInv, WireInv, Thread
    <3> QED
      BY <1>1, <1>3, <1>6, <1>8, <2>2, <3>1 DEF WritingInv
  <2> QED
    BY <1>1, <2>1, <2>2
<1>10. \A other \in Key \ {k} : NoWrite(other) => NoWrite(other)'
  <2>1. CASE inbox' = inbox
    BY <2>1 DEF NoWrite
  <2>2. CASE inbox' = Append(inbox, r)
    <3>1. /\ DOMAIN inbox = 1..Len(inbox) /\ DOMAIN inbox' = 1..Len(inbox) + 1 /\ Len(inbox) \in Nat
          /\ inbox'[Len(inbox) + 1] = r /\ \A i \in 1..Len(inbox) : inbox'[i] = inbox[i]
      BY <1>4, <2>2 DEF DataInv, WireInv
    <3>2. \A i \in DOMAIN inbox' : i = Len(inbox) + 1 \/ (i \in DOMAIN inbox /\ inbox'[i] = inbox[i])
      BY <3>1
    <3> QED
      BY <1>4, <3>1, <3>2 DEF NoWrite
  <2> QED
    BY <1>1, <2>1, <2>2
<1>11. ASSUME NEW other \in Key, latest[other] # 0
       PROVE  \/ toWrite[other] = latest[other]
              \/ other # k /\ Arrived(other)'
  <2>1. \/ toWrite[other] = latest[other]
        \/ Arrived(other)
    BY <1>11 DEF DataInv, WritesInv, WritesKept, Arrived, NoWrite
  <2>2. CASE other = k
    BY <1>3, <1>11, <2>2 DEF DataInv, WritesInv
  <2>3. CASE other # k
    BY <1>1, <1>10, <2>1, <2>3 DEF Arrived
  <2> QED
    BY <2>2, <2>3
<1>12. WritesKept'
    BY <1>1, <1>11 DEF WritesKept, Arrived, NoWrite
<1>13. \A other \in Key \ todo' : latest[other] = 0 \/ Arrived(other)' \/ other = k
    BY <1>1, <1>10 DEF DataInv, WritesInv, Arrived
<1>14. WritesInv'
    BY <1>1, <1>6, <1>9, <1>12, <1>13 DEF DataInv, WritesInv
<1> QED
    BY <1>5, <1>7, <1>14 DEF DataInv

\* The write has arrived, or it is given up.
LEMMA WriteReturnsData == ASSUME MutexInv, DataInv, WriteReturns PROVE DataInv'
<1>0. PICK c \in Key : call["client"].key = c
    BY DEF WriteReturns, DataInv, BufferTypes
<1>1. /\ pc'["client"] = "writes" /\ pc'["unity"] = pc["unity"] /\ pc["client"] = "writing"
      /\ UNCHANGED <<toWrite, todo>>
      /\ call' = [call EXCEPT !["client"] = NoCall]
      /\ Answered("client") \/ GivesUp("client")
      /\ latest' = IF client' = "open" THEN latest ELSE [latest EXCEPT ![c] = 0]
    BY <1>0 DEF WriteReturns, Returns, TimedOut, MutexInv, Goto, Thread
<1>2. client' = "open" => reply["client"] \notin {Absent, Failed}
    BY DEF WriteReturns, Returns, TimedOut, Answered
<1>3. \A u \in Waiter \ {"client"} : Waits(u)' = Waits(u)
    BY <1>1 DEF Waits, Waiter
<1>4. WireInv'
    BY <1>1, <1>3, WireReturn DEF DataInv, Waiter
<1>5. /\ c \in Key /\ latest \in [Key -> Value \union {0}]
      /\ call \in [Thread -> [key : Key \union {"none"}, val : Int]]
    BY <1>1 DEF DataInv, BufferTypes
<1>6. /\ call' \in [Thread -> [key : Key \union {"none"}, val : Int]]
      /\ call'["unity"] = call["unity"]
  <2>1. NoCall \in [key : Key \union {"none"}, val : Int] /\ "unity" \in Thread
    BY DEF NoCall, Thread
  <2> QED
    BY <1>1, <1>5, <2>1
<1>7. latest' \in [Key -> Value \union {0}] /\ \A k \in Key : latest'[k] = latest[k] \/ latest'[k] = 0
    BY <1>1, <1>5
<1>8. BufferTypes'
    BY <1>1, <1>6, <1>7 DEF DataInv, BufferTypes
<1>9. var' = var /\ \A i \in DOMAIN inbox' :
        /\ i \in DOMAIN inbox
        /\ inbox'[i].kind = inbox[i].kind /\ inbox'[i].key = inbox[i].key
    BY <1>1, ReturnEffect DEF DataInv, Waiter
<1>10. \A k \in Key : NoWrite(k) => NoWrite(k)'
    BY <1>9 DEF NoWrite
<1>11. WritesKept'
    BY <1>1, <1>7, <1>9, <1>10 DEF DataInv, WritesInv, WritesKept, NoWrite
<1>12. latest'[c] = 0 \/ Arrived(c)'
  <2>1. CASE client' = "open"
    <3>1. var[c] = toWrite[c] /\ NoWrite(c) /\ toWrite[c] # Absent
      BY <1>0, <1>1, <1>2, <2>1 DEF DataInv, WritesInv, WritingInv
    <3>2. latest[c] \in {0, toWrite[c]} /\ latest' = latest
      BY <1>1, <1>5, <2>1, <3>1 DEF DataInv, WritesInv
    <3> QED
      BY <1>5, <1>9, <1>10, <3>1, <3>2 DEF Arrived
  <2>2. CASE client' # "open"
    BY <1>1, <1>5, <2>2
  <2> QED
    BY <2>1, <2>2
<1>13. ASSUME NEW k \in Key \ todo PROVE latest'[k] = 0 \/ Arrived(k)'
  <2>1. CASE k = c
    BY <1>12, <2>1
  <2>2. CASE k # c
    <3>1. latest[k] = 0 \/ Arrived(k)
      BY <1>0, <1>1, <2>2 DEF DataInv, WritesInv
    <3> QED
      BY <1>7, <1>9, <1>10, <3>1 DEF Arrived
  <2> QED
    BY <2>1, <2>2
<1>14. \A k \in Key : toWrite'[k] # Absent => latest'[k] \in {0, toWrite'[k]}
    BY <1>1, <1>7 DEF DataInv, WritesInv
<1>15. WritesInv'
    BY <1>1, <1>11, <1>13, <1>14 DEF WritesInv
<1> QED
    BY <1>4, <1>8, <1>15 DEF DataInv

\* The buffer is emptied when all of it has been written.
LEMMA WritesDoneData == ASSUME MutexInv, DataInv, WritesDone PROVE DataInv'
<1>1. /\ pc'["client"] = "top" /\ pc'["unity"] = pc["unity"] /\ pc["client"] = "writes"
      /\ UNCHANGED <<wireVars, latest, todo, call>> /\ todo = {}
      /\ toWrite' = [k \in Key |-> Absent]
    BY DEF WritesDone, MutexInv, Goto, Thread, workVars
<1>2. \A t \in Waiter : Waits(t)' = Waits(t)
    BY <1>1 DEF Waits, Waiter
<1>3. WireInv'
    BY <1>1, <1>2, WireSame DEF DataInv
<1>4. BufferTypes'
    BY <1>1 DEF DataInv, BufferTypes
<1>5. \A k \in Key : latest[k] = 0 \/ Arrived(k)
    BY <1>1 DEF DataInv, WritesInv
<1>6. WritesInv'
    BY <1>1, <1>5 DEF WritesInv, WritesKept, Arrived, NoWrite, wireVars
<1> QED
    BY <1>3, <1>4, <1>6 DEF DataInv

\* The steps of the client thread.
LEMMA ClientData ==
    ASSUME MutexInv, DataInv, ClientRuns \/ ClientLocks \/ Reconnect PROVE DataInv'
<1> USE DEF scriptVars, bufferVars, wireVars, eventVars, dataVars, flagVars, workVars
<1>1. CASE ClientLoop \/ ClientUpdateReturns \/ AbortedInWait("client")
    BY <1>1, QuietClient DEF ClientLoop, ClientUpdateReturns, AbortedInWait, ClientWaits
<1>2. CASE Reconnect
    BY <1>2, QuietStay DEF Reconnect
<1> QED
    BY <1>1, <1>2, ClientLocksData, ReadData, ReadReturnsData, ReadsDoneData, WriteData,
       WriteReturnsData, WritesDoneData DEF ClientRuns

\* Every step keeps the invariant of the wire and the buffers.
LEMMA DataNext == ASSUME MutexInv, DataInv, [Next]_vars PROVE DataInv'
<1> USE DEF scriptVars, bufferVars, wireVars, eventVars, dataVars, flagVars, workVars
<1>1. CASE Callback \/ UNCHANGED vars
    BY <1>1, QuietStay DEF Callback, AddBegin, AddEnd, vars
<1> QED
    BY <1>1, ScriptData, UnityData, ServerData, ClientData DEF Next

\* It holds at the start.
LEMMA DataInit == Init => DataInv
<1> SUFFICES ASSUME Init PROVE DataInv
    OBVIOUS
<1>1. /\ inbox = <<>> /\ reply = [t \in Thread |-> Absent] /\ var = [k \in Key |-> 0]
      /\ pc["unity"] = "idle" /\ pc["client"] = "none"
    BY DEF Init, Thread
<1>2. WireInv
    BY <1>1 DEF WireInv, OneRequest, Waiter, Waits, Thread, Absent
<1>3. BufferTypes
    BY <1>1 DEF Init, BufferTypes, NoCall
<1>4. WritesInv
    BY <1>1 DEF Init, WritesInv, WritesKept
<1> QED
    BY <1>2, <1>3, <1>4 DEF DataInv

\* With or without updates in the client thread, time-outs and failed connections, a value
\* accepted by setClientWrite is never forgotten or overtaken by an older one.
THEOREM WritesAlwaysKept == Spec => []WritesKept
<1>1. Init => MutexInv /\ DataInv
    BY MutexInit, DataInit
<1>2. MutexInv /\ DataInv /\ [Next]_vars => (MutexInv /\ DataInv)'
    BY MutexNext, DataNext
<1>3. DataInv => WritesKept
    BY DEF DataInv, WritesInv
<1> QED
    BY <1>1, <1>2, <1>3, PTL DEF Spec

-----------------------------------------------------------------------------
(* The client is there for every call, when the server is and the client     *)
(* thread was started without updates.                                       *)

\* The client is deleted at the end only, under a mutex that nobody else gets any more; a
\* connection that is being opened finds a server that listens.
UsableInv ==
  /\ connected = [s \in Side |-> connected[s]]
  /\ client \in {"none", "deleted", "open", "late", "closed"}
  /\ \/ connected["client"] \/ pc["client"] # "none" \/ pc["unity"] \in UnityWaits
     => client # "none"
  /\ client = "deleted" =>
       /\ pc["unity"] \in (DestroyOwns \ {"deleting"}) \union {"failed"}
       /\ mutex["client"] \in {"unity", "null"}
  /\ pc["unity"] = "connecting" => listening /\ reply["unity"] # Failed

\* Steps that leave client and server as they are and open no connection.
LEMMA UsableSame ==
    ASSUME UsableInv, UNCHANGED <<connected, client>>, mutex'["client"] = mutex["client"],
           pc["client"] = "none" => pc'["client"] = "none",
           pc'["unity"] = pc["unity"] \/ pc'["unity"] \notin UnityWaits,
           pc["unity"] \in (DestroyOwns \ {"deleting"}) \union {"failed"} =>
             pc'["unity"] \in (DestroyOwns \ {"deleting"}) \union {"failed"},
           pc["unity"] = "connecting" => reply'["unity"] # Failed /\ listening'
    PROVE  UsableInv'
BY DEF UsableInv, UnityWaits, DestroyOwns

\* The calls of the script.
LEMMA ScriptUsable == ASSUME MutexInv, DataInv, UsableInv, ~ConnectMayFail, Script PROVE UsableInv'
<1> USE DEF scriptVars, bufferVars, wireVars, eventVars, dataVars, flagVars, workVars
<1>1. CASE startServer
    BY <1>1 DEF startServer, UsableInv, Side
<1>2. CASE StartServerThread
    BY <1>2, UsableSame DEF StartServerThread, MutexInv, Goto, Thread, Side, UsableInv, Idle, UnityWaits
<1>3. CASE ServerCall \/ stopServer \/ Update \/ OnDestroy
    BY <1>3, UsableSame DEF ServerCall, stopServer, Update, OnDestroy, MutexInv, Goto, Thread, Idle,
         UsableInv, UnityWaits, DestroyOwns
<1>4. CASE StartClientThread
    BY <1>4 DEF StartClientThread, MutexInv, Goto, Thread, Side, UsableInv, Idle, UnityWaits, DestroyOwns
<1>5. CASE ClientConnect
  <2>1. reply["unity"] = Absent
    BY <1>5 DEF ClientConnect, Idle, DataInv, WireInv, OneRequest, Waits, Waiter
  <2> QED
    BY <1>5, <2>1 DEF ClientConnect, MutexInv, Goto, Thread, UsableInv, Idle, UnityWaits, DestroyOwns,
         Absent, Failed
<1>6. CASE ClientCall
    BY <1>6 DEF ClientCall, MutexInv, Goto, Thread, UsableInv, Idle, UnityWaits, DestroyOwns
<1>7. CASE \E k \in Key : (\E v \in Value : setClientWrite(k, v)) \/ (\E d \in {0, 1} : getClientRead(k, d))
    BY <1>7, UsableSame DEF setClientWrite, getClientRead, MutexInv, Goto, Thread, Idle,
         UsableInv, UnityWaits, DestroyOwns
<1> QED
    BY <1>1, <1>2, <1>3, <1>4, <1>5, <1>6, <1>7 DEF Script

\* The steps of the Unity thread.
LEMMA UnityUsable ==
    ASSUME MutexInv, DataInv, UsableInv, ~ConnectMayFail, UnityRuns \/ UnityLocks PROVE UsableInv'
<1> USE DEF scriptVars, bufferVars, wireVars, eventVars, dataVars, flagVars, workVars
<1>1. CASE \/ ServerCallReturns \/ ShutdownReturns \/ JoinClient \/ DestroyServer
           \/ DestroyServerReturns \/ JoinServer
    BY <1>1, UsableSame DEF ServerCallReturns, ShutdownReturns, JoinClient, DestroyServer,
         DestroyServerReturns, JoinServer, MutexInv, Goto, Thread, UnityWaits, DestroyOwns
<1>2. CASE CleanUp
    BY <1>2 DEF CleanUp, MutexInv, Goto, Thread, Side, UsableInv, UnityWaits, DestroyOwns
<1>3. CASE ClientConnectReturns
    BY <1>3 DEF ClientConnectReturns, MutexInv, Goto, Thread, Side, UsableInv, UnityWaits, DestroyOwns
<1>4. CASE ClientCallReturns
    BY <1>4 DEF ClientCallReturns, Returns, MutexInv, Goto, Thread, UsableInv, UnityWaits, DestroyOwns
<1>5. CASE ClientDeleteReturns
    BY <1>5 DEF ClientDeleteReturns, MutexInv, UnityOwns, Goto, Thread, UsableInv, UnityWaits, DestroyOwns
<1>6. CASE \E l \in Lists : Invoke(l)
    BY <1>6, UsableSame DEF Invoke, UsableInv
<1>7. CASE (\E l \in Lists : LoopEnds(l)) \/ ClearCalls
    BY <1>7, UsableSame DEF LoopEnds, ClearCalls, Lists, MutexInv, Goto, Thread, UnityWaits, DestroyOwns
<1>8. CASE ClearChanges
    BY <1>8 DEF ClearChanges, MutexInv, Goto, Thread, UsableInv, UnityWaits, DestroyOwns
<1>9. CASE setClientWriteBody \/ getClientReadBody \/ UpdateServerMutex \/ DestroyServerMutex
    BY <1>9, UsableSame DEF setClientWriteBody, getClientReadBody, UpdateServerMutex, DestroyServerMutex,
         MutexInv, Goto, Thread, Side, UnityWaits, DestroyOwns
<1>10. CASE UpdateClientMutex
    BY <1>10 DEF UpdateClientMutex, MutexInv, Goto, Thread, Side, UsableInv, UnityWaits, DestroyOwns
<1>11. CASE DestroyClientMutex
    BY <1>11 DEF DestroyClientMutex, Free, MutexInv, Goto, Thread, Side, UsableInv, UnityWaits, DestroyOwns
<1> QED
    BY <1>1, <1>2, <1>3, <1>4, <1>5, <1>6, <1>7, <1>8, <1>9, <1>10, <1>11 DEF UnityRuns, UnityLocks

\* The other threads.
LEMMA OthersUsable ==
    ASSUME MutexInv, DataInv, UsableInv,
           \/ ServerRuns \/ ServerLocks \/ Serve \/ Refuse
           \/ ClientRuns \/ ClientLocks \/ Reconnect \/ Callback
    PROVE  UsableInv'
<1> USE DEF scriptVars, bufferVars, wireVars, eventVars, dataVars, flagVars, workVars
<1>1. CASE ServerRuns \/ ServerLocks
    BY <1>1, UsableSame DEF ServerRuns, ServerLocks, ServerLoop, ServerUpdateReturns, ServerUnlocks,
         AbortedInWait, MutexInv, Goto, Thread, Side, UsableInv
<1>2. CASE Serve
  <2> DEFINE r == Head(inbox)
  <2>1. r \in Request /\ var \in [Key -> Nat] /\ reply \in [Thread -> Int]
    BY <1>2 DEF Serve, DataInv, WireInv
  <2>2. r.kind = "read" => var[r.key] \in Nat
    BY <2>1 DEF Request
  <2>3. pc["unity"] = "connecting" => reply'["unity"] # Failed
    BY <1>2, <2>1, <2>2 DEF Serve, Failed, Thread, UsableInv
  <2> QED
    BY <1>2, <2>3, UsableSame DEF Serve, UsableInv
<1>3. CASE Refuse
    BY <1>3, UsableSame DEF Refuse, UsableInv
<1>4. CASE ClientLoop \/ ClientUpdateReturns \/ AbortedInWait("client") \/ ReadsDone
    BY <1>4, UsableSame DEF ClientLoop, ClientUpdateReturns, AbortedInWait, ReadsDone, MutexInv, Goto, Thread, UsableInv
<1>5. CASE \E k \in Key : Read(k) \/ Write(k)
    BY <1>5, UsableSame DEF Read, Write, Send, MutexInv, Goto, Thread, UsableInv, DataInv, WireInv
<1>6. CASE ReadReturns \/ WriteReturns
  <2>1. /\ pc["client"] # "none" /\ mutex' = mutex /\ connected' = connected /\ listening' = listening
        /\ mutex["client"] = "client"
        /\ pc'["unity"] = pc["unity"] /\ pc'["client"] # "none"
        /\ client' = client \/ client' \in {"open", "late", "closed"}
    BY <1>6 DEF ReadReturns, WriteReturns, Returns, MutexInv, ClientOwns, Goto, Thread
  <2>2. pc["unity"] # "connecting"
    BY <2>1 DEF MutexInv, UnityOwns
  <2> QED
    BY <2>1, <2>2 DEF UsableInv
<1>7. CASE WritesDone \/ ClientLocks
    BY <1>7 DEF WritesDone, ClientLocks, MutexInv, ClientOwns, UnityOwns, Goto, Thread, Side, UsableInv, UnityWaits
<1>8. CASE Reconnect
    BY <1>8 DEF Reconnect, MutexInv, ClientOwns, UnityOwns, UsableInv, UnityWaits
<1>9. CASE Callback
    BY <1>9, UsableSame DEF Callback, AddBegin, AddEnd, UsableInv
<1> QED
    BY <1>1, <1>2, <1>3, <1>4, <1>5, <1>6, <1>7, <1>8, <1>9 DEF ClientRuns

\* When the server is there and the client thread was started without updates, no thread is
\* inside a client that has not been created or has been deleted.
THEOREM ClientAlwaysUsable == ASSUME ~Updates, ~ConnectMayFail PROVE Spec => []ClientUsable
<1> DEFINE Inv == MutexInv /\ DataInv /\ UsableInv
<1>1. Init => Inv
  <2>1. Init => UsableInv
    BY DEF Init, UsableInv, Side, Thread, UnityWaits
  <2> QED
    BY <2>1, MutexInit, DataInit
<1>2. Inv /\ [Next]_vars => Inv'
  <2>1. SUFFICES ASSUME MutexInv, DataInv, UsableInv, [Next]_vars PROVE UsableInv'
    BY MutexNext, DataNext
  <2>2. CASE UNCHANGED vars
    BY <2>1, <2>2 DEF UsableInv, vars, scriptVars, flagVars, workVars, dataVars, wireVars
  <2> QED
    BY <2>1, <2>2, ScriptUsable, UnityUsable, OthersUsable DEF Next
<1>3. Inv => ClientUsable
    BY DEF MutexInv, ClientOwns, UsableInv, ClientUsable, InClient, UnityWaits, DestroyOwns, Thread
<1> QED
    BY <1>1, <1>2, <1>3, PTL DEF Spec

-----------------------------------------------------------------------------
(* The changes of variables reach the script, when the client thread was     *)
(* started without updates.                                                  *)

Changes == "allVariableEvents"

\* The threads in which ValueChange may run.
Raising(t) ==
  \/ t = "client" /\ pc[t] \in {"reading", "writing"}
  \/ t = "unity" /\ pc[t] \in {"clientCall", "deleting"}

EventTypes ==
  /\ events \in [Lists -> Seq(Nat)] /\ shown \in [Lists -> Seq(Nat)]
  /\ raised \in [Lists -> Nat] /\ next \in [Lists -> Nat \ {0}]
  /\ adding \in [Lists -> [Thread -> Nat \union {NoAdd}]]

\* List.Add is under way only in a thread that is inside the client, and the length it has
\* read is still that of the list.
AddingInv ==
  \A t \in Thread : adding[Changes][t] # NoAdd =>
    Raising(t) /\ (~stop => adding[Changes][t] = Len(events[Changes]))

\* What the script has seen are the first changes, and the list holds the latest ones.
InOrder ==
  /\ next[Changes] <= Len(events[Changes]) + 1
  /\ Len(shown[Changes]) + Len(events[Changes]) + 1 = raised[Changes] + next[Changes]
  /\ \A i \in 1..Len(shown[Changes]) : shown[Changes][i] = i
  /\ \A i \in 1..Len(events[Changes]) :
       events[Changes][i] + Len(events[Changes]) = raised[Changes] + i
  /\ pc["unity"] = "clearChanges" => next[Changes] = Len(events[Changes]) + 1

EventsInv ==
  /\ EventTypes
  /\ AddingInv
  /\ ~stop => InOrder
  /\ pc["unity"] \in DestroyOwns => stop

\* Threads that raise changes are alone in the client, and Update is not in its loops.
LEMMA RaisingAlone ==
    ASSUME MutexInv, ~Updates, NEW t \in Thread, Raising(t)
    PROVE  /\ \A u \in Thread : Raising(u) => u = t
           /\ pc["unity"] \notin UpdateOwns
BY DEF MutexInv, ClientOwns, UnityOwns, DestroyOwns, UpdateOwns, Lists, Raising, Thread

\* A thread moves on without touching the lists, having finished its callbacks before it
\* leaves the client.
LEMMA EventsStep ==
    ASSUME MutexInv, EventsInv, UNCHANGED eventVars, stop => stop',
           NEW t \in Thread, NEW label, Goto(t, label),
           NoCallback(t) \/ ~Raising(t),
           t = "unity" => /\ label # "clearChanges" \/ next[Changes] > Len(events[Changes])
                          /\ label \in DestroyOwns => stop' \/ pc["unity"] \in DestroyOwns
    PROVE  EventsInv'
<1>1. /\ pc'[t] = label /\ \A u \in Thread \ {t} : pc'[u] = pc[u]
      /\ adding[Changes][t] = NoAdd
    BY DEF MutexInv, Goto, NoCallback, Lists, Changes, EventsInv, AddingInv
<1>2. /\ EventTypes'
      /\ adding' = adding /\ events' = events /\ next' = next /\ shown' = shown /\ raised' = raised
    BY DEF EventsInv, EventTypes, eventVars
<1>3. AddingInv'
    BY <1>1, <1>2 DEF EventsInv, AddingInv, Raising, Thread
<1>4. ~stop' => InOrder'
  <2> SUFFICES ASSUME ~stop' PROVE InOrder'
    OBVIOUS
  <2>1. InOrder
    BY DEF EventsInv
  <2>2. CASE t = "unity"
    <3>1. label = "clearChanges" => next[Changes] = Len(events[Changes]) + 1
      <4>1. next[Changes] \in Nat /\ Len(events[Changes]) \in Nat
        BY DEF EventsInv, EventTypes, Changes, Lists
      <4> QED
        BY <2>1, <2>2, <4>1 DEF InOrder
    <3> QED
      BY <1>1, <1>2, <2>1, <2>2, <3>1 DEF InOrder
  <2>3. CASE t # "unity"
    BY <1>1, <1>2, <2>1, <2>3 DEF InOrder, Thread
  <2> QED
    BY <2>2, <2>3
<1>5. pc'["unity"] \in DestroyOwns => stop'
    BY <1>1 DEF EventsInv, Thread
<1> QED
    BY <1>2, <1>3, <1>4, <1>5 DEF EventsInv

\* No thread moves and no list changes.
LEMMA EventsStay ==
    ASSUME EventsInv, UNCHANGED <<pc, stop, eventVars>>
    PROVE  EventsInv'
BY DEF EventsInv, EventTypes, AddingInv, InOrder, Raising, eventVars

\* A callback begins: List.Add reads the length of the list.
LEMMA AddBeginEvents ==
    ASSUME MutexInv, ~Updates, EventsInv, NEW t \in Thread, NEW l \in Lists, AddBegin(t, l)
    PROVE  EventsInv'
<1>1. /\ adding' = [adding EXCEPT ![l][t] = Len(events[l])]
      /\ UNCHANGED <<pc, stop, events, next, raised, shown>>
    BY DEF AddBegin, flagVars
<1>2. EventTypes'
    BY <1>1 DEF EventsInv, EventTypes
<1>3. AddingInv'
  <2> SUFFICES ASSUME NEW u \in Thread, adding'[Changes][u] # NoAdd
               PROVE  Raising(u)' /\ (~stop' => adding'[Changes][u] = Len(events'[Changes]))
    BY DEF AddingInv
  <2>1. CASE l = Changes /\ u = t
    <3>1. Raising(t)
      BY <2>1 DEF AddBegin, MayRaise, Changes, Raising, MutexInv, ClientOwns
    <3>2. adding'[Changes][t] = Len(events[Changes])
      BY <1>1, <2>1 DEF EventsInv, EventTypes
    <3> QED
      BY <1>1, <2>1, <3>1, <3>2 DEF Raising
  <2>2. CASE ~(l = Changes /\ u = t)
    <3>1. adding'[Changes][u] = adding[Changes][u]
      BY <1>1, <2>2 DEF EventsInv, EventTypes, Changes, Lists
    <3> QED
      BY <1>1, <3>1 DEF EventsInv, AddingInv, Raising
  <2> QED
    BY <2>1, <2>2
<1> QED
    BY <1>1, <1>2, <1>3 DEF EventsInv, InOrder

\* The element a callback stores behind the length it has read; a list that was cleared in
\* between is filled up.
LEMMA AddEndTypes ==
    ASSUME EventTypes, NEW t \in Thread, NEW l \in Lists, AddEnd(t, l)
    PROVE  /\ EventTypes'
           /\ \A m \in Lists \ {l} : events'[m] = events[m] /\ raised'[m] = raised[m] /\ adding'[m] = adding[m]
           /\ raised'[l] = raised[l] + 1
           /\ Len(events'[l]) = adding[l][t] + 1
           /\ \A i \in 1..adding[l][t] + 1 : events'[l][i] =
                IF i = adding[l][t] + 1 THEN raised[l] + 1
                ELSE IF i \in DOMAIN events[l] THEN events[l][i] ELSE 0
           /\ adding'[l][t] = NoAdd
           /\ \A u \in Thread \ {t} : adding'[l][u] = adding[l][u]
<1> DEFINE n == adding[l][t]
           list == [i \in 1..n + 1 |-> IF i = n + 1 THEN raised[l] + 1
                                       ELSE IF i \in DOMAIN events[l] THEN events[l][i] ELSE 0]
<1>1. /\ n \in Nat /\ raised[l] \in Nat /\ events[l] \in Seq(Nat)
      /\ events' = [events EXCEPT ![l] = list]
      /\ raised' = [raised EXCEPT ![l] = @ + 1]
      /\ adding' = [adding EXCEPT ![l][t] = NoAdd]
      /\ next' = next /\ shown' = shown
    BY DEF AddEnd, EventTypes
<1>2. \A i \in DOMAIN events[l] : events[l][i] \in Nat
    BY <1>1
<1>3. list \in [1..n + 1 -> Nat]
    BY <1>1, <1>2
<1>5. \A i \in 1..n + 1 : list[i] = IF i = n + 1 THEN raised[l] + 1
                                    ELSE IF i \in DOMAIN events[l] THEN events[l][i] ELSE 0
    OBVIOUS
<1> HIDE DEF list, n
<1>4. list \in Seq(Nat) /\ Len(list) = n + 1
  <2>1. n + 1 \in Nat
    BY <1>1
  <2> QED
    BY <1>3, <2>1
<1>6. /\ events'[l] = list
      /\ \A m \in Lists \ {l} : events'[m] = events[m] /\ raised'[m] = raised[m] /\ adding'[m] = adding[m]
      /\ raised'[l] = raised[l] + 1
    BY <1>1 DEF EventTypes
<1>7. /\ adding'[l][t] = NoAdd
      /\ \A u \in Thread \ {t} : adding'[l][u] = adding[l][u]
    BY <1>1 DEF EventTypes
<1>8. EventTypes'
    BY <1>1, <1>4 DEF EventTypes
<1> QED
    BY <1>4, <1>5, <1>6, <1>7, <1>8 DEF n

\* A callback ends: the new change is behind those raised before it.
LEMMA AddEndEvents ==
    ASSUME MutexInv, ~Updates, EventsInv, NEW t \in Thread, NEW l \in Lists, AddEnd(t, l)
    PROVE  EventsInv'
<1>1. /\ EventTypes'
      /\ UNCHANGED <<pc, stop, next, shown>>
      /\ adding[l][t] # NoAdd
    BY AddEndTypes DEF EventsInv, AddEnd, flagVars
<1>2. CASE l # Changes
  <2>1. /\ events'[Changes] = events[Changes] /\ raised'[Changes] = raised[Changes]
        /\ adding'[Changes] = adding[Changes]
    BY <1>2, AddEndTypes DEF EventsInv, Changes, Lists
  <2> QED
    BY <1>1, <2>1 DEF EventsInv, AddingInv, InOrder, Raising
<1>3. CASE l = Changes
  <2>1. /\ Raising(t) /\ ~stop => adding[Changes][t] = Len(events[Changes])
        /\ Raising(t)
    BY <1>1, <1>3 DEF EventsInv, AddingInv
  <2>2. \A u \in Thread : adding'[Changes][u] = NoAdd
    BY <1>3, <2>1, AddEndTypes, RaisingAlone DEF EventsInv, AddingInv
  <2>3. ASSUME ~stop PROVE InOrder'
    <3> DEFINE e == events[Changes]
               f == events'[Changes]
               r == raised[Changes]
    <3>1. /\ e \in Seq(Nat) /\ Len(e) \in Nat /\ r \in Nat /\ next[Changes] \in Nat
          /\ shown[Changes] \in Seq(Nat) /\ Len(shown[Changes]) \in Nat /\ DOMAIN e = 1..Len(e)
      BY DEF EventsInv, EventTypes, Changes, Lists
    <3>2. /\ Len(f) = Len(e) + 1 /\ raised'[Changes] = r + 1
          /\ \A i \in 1..Len(e) + 1 : f[i] = IF i = Len(e) + 1 THEN r + 1
                                             ELSE IF i \in DOMAIN e THEN e[i] ELSE 0
      BY <1>3, <2>1, <2>3, AddEndTypes DEF EventsInv
    <3>3. InOrder /\ pc["unity"] # "clearChanges"
      BY <2>1, <2>3, RaisingAlone DEF EventsInv, UpdateOwns
    <3>6. /\ next[Changes] <= Len(e) + 1
          /\ Len(shown[Changes]) + Len(e) + 1 = r + next[Changes]
          /\ \A i \in 1..Len(e) : e[i] + Len(e) = r + i
      BY <3>3 DEF InOrder
    <3> HIDE DEF e, f, r
    <3>4. ASSUME NEW i \in 1..Len(f) PROVE f[i] + Len(f) = (r + 1) + i
      <4>1. CASE i = Len(e) + 1
        BY <3>1, <3>2, <4>1
      <4>2. CASE i # Len(e) + 1
        <5>1. i \in 1..Len(e) /\ e[i] \in Nat /\ e[i] + Len(e) = r + i
          <6>1. i \in 1..Len(e)
            BY <3>1, <3>2, <4>2
          <6> QED
            BY <3>1, <3>6, <6>1
        <5>2. f[i] = e[i]
          BY <3>1, <3>2, <5>1
        <5>3. Len(f) = Len(e) + 1 /\ i \in Nat
          BY <3>2, <5>1
        <5> DEFINE a == e[i]
                   b == Len(e)
                   b1 == Len(f)
        <5>4. a + b = r + i /\ b1 = b + 1 /\ a \in Nat /\ b \in Nat /\ r \in Nat /\ i \in Nat
          BY <3>1, <5>1, <5>3
        <5> HIDE DEF a, b, b1
        <5>5. a + b1 = (r + 1) + i
          BY <5>4
        <5> QED
          BY <5>2, <5>5 DEF a, b, b1
      <4> QED
        BY <4>1, <4>2
    <3>5. /\ next[Changes] <= Len(f) + 1
          /\ Len(shown[Changes]) + Len(f) + 1 = (r + 1) + next[Changes]
      <4> DEFINE a == Len(shown[Changes])
                 b == Len(e)
                 b1 == Len(f)
                 n == next[Changes]
      <4>1. /\ a + b + 1 = r + n /\ n <= b + 1 /\ b1 = b + 1
            /\ a \in Nat /\ b \in Nat /\ r \in Nat /\ n \in Nat
        BY <3>1, <3>2, <3>6
      <4> HIDE DEF a, b, b1, n
      <4>2. n <= b1 + 1 /\ a + b1 + 1 = (r + 1) + n
        BY <4>1
      <4> QED
        BY <4>2 DEF a, b, b1, n
    <3> QED
      BY <1>1, <3>2, <3>3, <3>4, <3>5 DEF InOrder, e, f, r
  <2> QED
    BY <1>1, <2>2, <2>3 DEF EventsInv, AddingInv
<1> QED
    BY <1>2, <1>3

\* Update hands the next event to the script.
LEMMA InvokeEvents ==
    ASSUME EventsInv, NEW l \in Lists, Invoke(l)
    PROVE  EventsInv'
<1>1. /\ shown' = [shown EXCEPT ![l] = Append(@, events[l][next[l]])]
      /\ next' = [next EXCEPT ![l] = @ + 1]
      /\ UNCHANGED <<pc, stop, events, adding, raised>>
      /\ pc["unity"] = l /\ next[l] <= Len(events[l])
    BY DEF Invoke, flagVars
<1>2. /\ shown[l] \in Seq(Nat) /\ events[l] \in Seq(Nat) /\ next[l] \in Nat \ {0}
      /\ Len(events[l]) \in Nat /\ raised[l] \in Nat /\ Len(shown[l]) \in Nat
    BY DEF EventsInv, EventTypes
<1>3. next[l] \in 1..Len(events[l]) /\ events[l][next[l]] \in Nat
    BY <1>1, <1>2
<1>4. EventTypes'
  <2>1. Append(shown[l], events[l][next[l]]) \in Seq(Nat)
    BY <1>2, <1>3
  <2> QED
    BY <1>1, <1>2, <2>1 DEF EventsInv, EventTypes
<1>5. ASSUME ~stop PROVE InOrder'
  <2>1. InOrder
    BY <1>5 DEF EventsInv
  <2>2. CASE l # Changes
    BY <1>1, <2>1, <2>2 DEF EventsInv, EventTypes, InOrder, Changes, Lists
  <2>3. CASE l = Changes
    <3> DEFINE w == shown[Changes]
               v == shown'[Changes]
    <3>1. /\ v = Append(w, events[Changes][next[Changes]]) /\ next'[Changes] = next[Changes] + 1
      BY <1>1, <2>3 DEF EventsInv, EventTypes
    <3>2. events[Changes][next[Changes]] = Len(w) + 1
      <4>1. events[Changes][next[Changes]] + Len(events[Changes]) = raised[Changes] + next[Changes]
        BY <1>3, <2>1, <2>3 DEF InOrder
      <4>2. Len(w) + Len(events[Changes]) + 1 = raised[Changes] + next[Changes]
        BY <2>1 DEF InOrder
      <4> HIDE DEF w
      <4>3. \A a, b, c, d \in Nat : a + b = d /\ c + b + 1 = d => a = c + 1
        OBVIOUS
      <4>4. Len(w) \in Nat /\ raised[Changes] + next[Changes] \in Nat
        BY <1>2, <2>3 DEF w
      <4> QED
        BY <1>2, <1>3, <2>3, <4>1, <4>2, <4>3, <4>4
    <3>3. /\ Len(v) = Len(w) + 1
          /\ \A i \in 1..Len(w) : v[i] = w[i]
          /\ v[Len(w) + 1] = Len(w) + 1
      BY <1>2, <1>3, <2>3, <3>1, <3>2
    <3>4. ASSUME NEW i \in 1..Len(v) PROVE v[i] = i
      <4>1. i \in 1..Len(w) \/ i = Len(w) + 1
        BY <1>2, <2>3, <3>3
      <4> QED
        BY <2>1, <3>3, <4>1 DEF InOrder
    <3>5. /\ next'[Changes] <= Len(events[Changes]) + 1
          /\ Len(v) + Len(events[Changes]) + 1 = raised[Changes] + next'[Changes]
      <4> DEFINE a == Len(w)
                 b == Len(events[Changes])
                 r == raised[Changes]
                 n == next[Changes]
                 a1 == Len(v)
                 n1 == next'[Changes]
      <4>1. a + b + 1 = r + n /\ n <= b
        BY <1>1, <2>1, <2>3 DEF InOrder
      <4>2. a \in Nat /\ b \in Nat /\ r \in Nat /\ n \in Nat
        BY <1>2, <2>3
      <4>3. a1 = a + 1 /\ n1 = n + 1
        BY <3>1, <3>3
      <4> HIDE DEF a, b, r, n, a1, n1
      <4>4. n1 <= b + 1 /\ a1 + b + 1 = r + n1
        BY <4>1, <4>2, <4>3
      <4> QED
        BY <4>4 DEF a, b, r, n, a1, n1
    <3>6. pc["unity"] # "clearChanges"
      BY <1>1 DEF Lists
    <3> QED
      BY <1>1, <2>1, <3>4, <3>5, <3>6 DEF InOrder
  <2> QED
    BY <2>2, <2>3
<1> QED
    BY <1>1, <1>4, <1>5 DEF EventsInv, AddingInv, Raising

\* Update clears the list of method calls.
LEMMA ClearCallsEvents == ASSUME MutexInv, EventsInv, ClearCalls PROVE EventsInv'
<1>1. /\ pc'["unity"] = Changes /\ pc'["client"] = pc["client"] /\ pc["unity"] = "clearCalls"
      /\ events'[Changes] = events[Changes] /\ next'[Changes] = next[Changes]
      /\ UNCHANGED <<stop, adding, raised, shown>>
    BY DEF ClearCalls, MutexInv, Goto, Thread, Changes, Lists, EventsInv, EventTypes, flagVars
<1>2. EventTypes'
  <2>1. <<>> \in Seq(Nat) /\ 1 \in Nat \ {0}
    OBVIOUS
  <2> QED
    BY <2>1 DEF ClearCalls, EventsInv, EventTypes
<1> QED
    BY <1>1, <1>2 DEF EventsInv, AddingInv, InOrder, Raising, Changes, DestroyOwns

\* Update clears the list of changes, all of which the script has seen.
LEMMA ClearChangesEvents == ASSUME MutexInv, ~Updates, EventsInv, ClearChanges PROVE EventsInv'
<1>1. /\ pc'["unity"] = "idle" /\ pc["unity"] = "clearChanges"
      /\ events'[Changes] = <<>> /\ next'[Changes] = 1
      /\ UNCHANGED <<stop, adding, raised, shown>>
    BY DEF ClearChanges, MutexInv, Goto, Thread, Changes, Lists, EventsInv, EventTypes, flagVars
<1>2. EventTypes'
  <2>1. <<>> \in Seq(Nat) /\ 1 \in Nat \ {0}
    OBVIOUS
  <2> QED
    BY <2>1 DEF ClearChanges, EventsInv, EventTypes
<1>3. \A t \in Thread : adding[Changes][t] = NoAdd
    BY <1>1, RaisingAlone DEF EventsInv, AddingInv, UpdateOwns
<1>4. ASSUME ~stop PROVE InOrder'
  <2>1. /\ Len(shown[Changes]) \in Nat /\ Len(events[Changes]) \in Nat /\ raised[Changes] \in Nat
    BY DEF EventsInv, EventTypes, Changes, Lists
  <2>2. Len(shown[Changes]) + 0 + 1 = raised[Changes] + 1
    <3> DEFINE a == Len(shown[Changes])
               b == Len(events[Changes])
               r == raised[Changes]
               n == next[Changes]
    <3>1. a + b + 1 = r + n /\ n = b + 1
      BY <1>1, <1>4 DEF EventsInv, InOrder
    <3>2. a \in Nat /\ b \in Nat /\ r \in Nat
      BY <2>1
    <3> HIDE DEF a, b, r, n
    <3>3. a + 0 + 1 = r + 1
      BY <3>1, <3>2
    <3> QED
      BY <3>3 DEF a, r
  <2>3. \A i \in 1..Len(shown[Changes]) : shown[Changes][i] = i
    BY <1>4 DEF EventsInv, InOrder
  <2>4. Len(events'[Changes]) = 0 /\ 1..0 = {}
    BY <1>1
  <2> QED
    BY <1>1, <2>2, <2>3, <2>4 DEF InOrder
<1> QED
    BY <1>1, <1>2, <1>3, <1>4 DEF EventsInv, AddingInv, DestroyOwns

\* OnDestroy drops what is left.
LEMMA DropEvents ==
    ASSUME MutexInv, EventsInv, DestroyClientMutex \/ CleanUp
    PROVE  EventsInv'
<1>1. /\ \E label \in {"deleting", "destroyThreads", "destroyed"} : Goto("unity", label)
      /\ ClearBuffers /\ stop'
      /\ pc["unity"] \in {"destroyClient", "cleanUp"}
    BY DEF DestroyClientMutex, CleanUp, EventsInv, DestroyOwns, flagVars
<1>2. EventTypes'
    BY <1>1 DEF ClearBuffers, EventsInv, EventTypes
<1>3. adding' = adding /\ pc'["client"] = pc["client"] /\ ~Raising("unity")
    BY <1>1 DEF ClearBuffers, MutexInv, Goto, Thread, Raising
<1>4. AddingInv'
    BY <1>1, <1>3 DEF EventsInv, AddingInv, Raising, Thread
<1> QED
    BY <1>1, <1>2, <1>4 DEF EventsInv

\* The calls of the script.
LEMMA ScriptEvents == ASSUME MutexInv, EventsInv, Script PROVE EventsInv'
<1> USE DEF scriptVars, bufferVars, wireVars, eventVars, dataVars, flagVars, workVars
<1>1. CASE startServer
    BY <1>1, EventsStay DEF startServer
<1>2. CASE StartServerThread
    BY <1>2, EventsStep DEF StartServerThread, Raising, Thread
<1>3. CASE ServerCall \/ Update \/ OnDestroy \/ ClientConnect \/ ClientCall
    BY <1>3, EventsStep DEF ServerCall, Update, OnDestroy, ClientConnect, ClientCall,
         Idle, Raising, Thread, DestroyOwns
<1>4. CASE stopServer
    BY <1>4, EventsStep, EventsStay DEF stopServer, Idle, Raising, Thread, DestroyOwns
<1>5. CASE StartClientThread
    BY <1>5, EventsStep DEF StartClientThread, MutexInv, UnityOwns, Raising, Thread
<1>6. CASE \E k \in Key : (\E v \in Value : setClientWrite(k, v)) \/ (\E d \in {0, 1} : getClientRead(k, d))
    BY <1>6, EventsStep DEF setClientWrite, getClientRead, Idle, Raising, Thread, DestroyOwns
<1> QED
    BY <1>1, <1>2, <1>3, <1>4, <1>5, <1>6 DEF Script

\* The steps of the Unity thread.
LEMMA UnityEvents ==
    ASSUME MutexInv, ~Updates, EventsInv, UnityRuns \/ UnityLocks PROVE EventsInv'
<1> USE DEF scriptVars, bufferVars, wireVars, eventVars, dataVars, flagVars, workVars
<1>1. CASE ServerCallReturns \/ ShutdownReturns \/ ClientConnectReturns \/ ClientCallReturns
    BY <1>1, EventsStep DEF ServerCallReturns, ShutdownReturns, ClientConnectReturns,
         ClientCallReturns, Raising, Thread, DestroyOwns
<1>2. CASE ClientDeleteReturns \/ JoinClient \/ DestroyServer \/ DestroyServerReturns \/ JoinServer
    BY <1>2, EventsStep DEF ClientDeleteReturns, JoinClient, DestroyServer, DestroyServerReturns,
         JoinServer, Raising, Thread, DestroyOwns
<1>3. CASE \E l \in Lists : LoopEnds(l)
    BY <1>3, EventsStep DEF LoopEnds, Lists, Changes, Raising, Thread, DestroyOwns
<1>4. CASE setClientWriteBody \/ getClientReadBody \/ UpdateServerMutex \/ UpdateClientMutex \/ DestroyServerMutex
    BY <1>4, EventsStep DEF setClientWriteBody, getClientReadBody, UpdateServerMutex, UpdateClientMutex,
         DestroyServerMutex, Raising, Thread, DestroyOwns
<1> QED
    BY <1>1, <1>2, <1>3, <1>4, InvokeEvents, ClearCallsEvents, ClearChangesEvents, DropEvents
       DEF UnityRuns, UnityLocks

\* The other threads, and the network.
LEMMA OthersEvents ==
    ASSUME MutexInv, ~Updates, EventsInv,
           \/ ServerRuns \/ ServerLocks \/ Serve \/ Refuse
           \/ ClientRuns \/ ClientLocks \/ Reconnect \/ Callback
    PROVE  EventsInv'
<1> USE DEF scriptVars, bufferVars, wireVars, eventVars, dataVars, flagVars, workVars
<1>1. CASE ServerRuns \/ ServerLocks
    BY <1>1, EventsStep DEF ServerRuns, ServerLocks, ServerLoop, ServerUpdateReturns, ServerUnlocks,
         AbortedInWait, Raising, Thread
<1>2. CASE Serve \/ Refuse \/ Reconnect
    BY <1>2, EventsStay DEF Serve, Refuse, Reconnect
<1>3. CASE ClientLoop \/ ClientUpdateReturns \/ AbortedInWait("client") \/ ClientLocks
    BY <1>3, EventsStep DEF ClientLoop, ClientUpdateReturns, AbortedInWait, ClientLocks, Raising, Thread
<1>4. CASE (\E k \in Key : Read(k) \/ Write(k)) \/ ReadsDone \/ WritesDone
    BY <1>4, EventsStep DEF Read, Write, ReadsDone, WritesDone, Raising, Thread
<1>5. CASE ReadReturns \/ WriteReturns
    BY <1>5, EventsStep DEF ReadReturns, WriteReturns, Raising, Thread
<1>6. CASE Callback
    BY <1>6, AddBeginEvents, AddEndEvents DEF Callback
<1> QED
    BY <1>1, <1>2, <1>3, <1>4, <1>5, <1>6 DEF ClientRuns

\* The numbers a script has seen and those of the rest of the list are all up to the last.
LEMMA Numbered ==
    ASSUME NEW w \in Seq(Nat), NEW e \in Seq(Nat), NEW n \in Nat \ {0}, NEW r \in Nat,
           n <= Len(e) + 1, Len(w) + Len(e) + 1 = r + n,
           \A i \in 1..Len(w) : w[i] = i,
           \A i \in 1..Len(e) : e[i] + Len(e) = r + i
    PROVE  w \o SubSeq(e, n, Len(e)) = [i \in 1..r |-> i]
<1> DEFINE rest == SubSeq(e, n, Len(e))
<1>1. Len(e) \in Nat /\ Len(w) \in Nat /\ \A i \in 1..Len(e) : e[i] \in Nat
    OBVIOUS
<1>2. /\ rest \in Seq(Nat) /\ Len(rest) = Len(e) - n + 1
      /\ \A i \in 1..Len(e) - n + 1 : rest[i] = e[n + i - 1]
    BY <1>1
<1>3. Len(w) + Len(rest) = r
    BY <1>1, <1>2
<1> HIDE DEF rest
<1>4. /\ w \o rest \in Seq(Nat) /\ Len(w \o rest) = Len(w) + Len(rest)
      /\ \A i \in 1..Len(w) + Len(rest) :
           (w \o rest)[i] = IF i <= Len(w) THEN w[i] ELSE rest[i - Len(w)]
    BY <1>2, ConcatProperties
<1>5. ASSUME NEW i \in 1..r PROVE (w \o rest)[i] = i
  <2>1. CASE i <= Len(w)
    BY <1>1, <1>3, <1>4, <2>1
  <2>2. CASE i > Len(w)
    <3> DEFINE j == i - Len(w)
               k == n + j - 1
    <3>1. j \in 1..Len(e) - n + 1 /\ k \in 1..Len(e)
      BY <1>1, <1>2, <1>3, <2>2
    <3>2. (w \o rest)[i] = rest[j]
      BY <1>1, <1>3, <1>4, <2>2
    <3>3. rest[j] = e[k]
      BY <1>2, <3>1
    <3>4. k + Len(w) + 1 = n + i
      BY <1>1, <3>1
    <3> HIDE DEF j, k
    <3>5. e[k] + Len(e) = r + k /\ e[k] \in Nat /\ k \in Nat
      BY <1>1, <3>1
    <3>6. PICK x \in Nat : x = e[k]
      BY <3>5
    <3>7. PICK b \in Nat, a \in Nat : b = Len(e) /\ a = Len(w)
      BY <1>1
    <3>8. x + b = r + k /\ k + a + 1 = n + i /\ a + b + 1 = r + n
      BY <3>4, <3>5, <3>6, <3>7
    <3>9. x = i
      BY <3>5, <3>8
    <3> QED
      BY <3>2, <3>3, <3>6, <3>9
  <2>3. \A a \in Nat : i <= a \/ i > a
    OBVIOUS
  <2>4. i <= Len(w) \/ i > Len(w)
    BY <1>1, <2>3, Zenon
  <2> QED
    BY <2>1, <2>2, <2>4, Zenon
<1>6. Len(w \o rest) = r /\ w \o rest \in [1..r -> Nat]
  <2> DEFINE c == w \o rest
  <2>1. c \in Seq(Nat) /\ Len(c) = r
    BY <1>3, <1>4
  <2> HIDE DEF c
  <2>2. c \in [1..r -> Nat]
    BY <2>1
  <2> QED
    BY <2>1, <2>2 DEF c
<1>7. w \o rest = [i \in 1..r |-> i]
    BY <1>5, <1>6
<1> QED
    BY <1>7 DEF rest

\* Without updates in the client thread the script sees every change of a variable once and
\* in the order of the changes, although List.Add takes no lock: it only runs in threads that
\* hold the mutex of the client, or before there is a second thread.
THEOREM ChangesAlwaysDelivered == ASSUME ~Updates PROVE Spec => []ChangesDelivered
<1> DEFINE Inv == MutexInv /\ EventsInv
<1>1. Init => Inv
  <2>1. Init => EventsInv
    <3> SUFFICES ASSUME Init PROVE EventsInv
      OBVIOUS
    <3>1. EventTypes
      BY DEF Init, EventTypes, NoAdd
    <3>2. /\ pc["unity"] = "idle" /\ events[Changes] = <<>> /\ shown[Changes] = <<>>
          /\ next[Changes] = 1 /\ raised[Changes] = 0
          /\ \A t \in Thread : adding[Changes][t] = NoAdd
      BY DEF Init, Changes, Lists, Thread
    <3>3. Len(<<>>) = 0 /\ 1..0 = {} /\ 1 <= 0 + 1 /\ 0 + 0 + 1 = 0 + 1
      OBVIOUS
    <3> QED
      BY <3>1, <3>2, <3>3 DEF EventsInv, AddingInv, InOrder, DestroyOwns
  <2> QED
    BY <2>1, MutexInit
<1>2. Inv /\ [Next]_vars => Inv'
  <2>1. SUFFICES ASSUME MutexInv, EventsInv, [Next]_vars PROVE EventsInv'
    BY MutexNext
  <2>2. CASE UNCHANGED vars
    BY <2>1, <2>2, EventsStay DEF vars, dataVars, flagVars, eventVars
  <2>3. CASE Next
    BY <2>1, <2>3, ScriptEvents, UnityEvents, OthersEvents DEF Next
  <2> QED
    BY <2>1, <2>2, <2>3
<1>3. Inv => ChangesDelivered
  <2> SUFFICES ASSUME EventsInv, ~stop
               PROVE  shown[Changes] \o SubSeq(events[Changes], next[Changes], Len(events[Changes]))
                        = [i \in 1..raised[Changes] |-> i]
    BY DEF ChangesDelivered, Delivered, Changes
  <2>1. /\ events[Changes] \in Seq(Nat) /\ shown[Changes] \in Seq(Nat)
        /\ next[Changes] \in Nat \ {0} /\ raised[Changes] \in Nat
    BY DEF EventsInv, EventTypes, Changes, Lists
  <2>2. InOrder
    BY DEF EventsInv
  <2> DEFINE e == events[Changes]
             w == shown[Changes]
             n == next[Changes]
             r == raised[Changes]
  <2>3. /\ n <= Len(e) + 1 /\ Len(w) + Len(e) + 1 = r + n
        /\ \A i \in 1..Len(w) : w[i] = i
        /\ \A i \in 1..Len(e) : e[i] + Len(e) = r + i
    BY <2>2 DEF InOrder
  <2> HIDE DEF e, w, n, r
  <2>4. w \o SubSeq(e, n, Len(e)) = [i \in 1..r |-> i]
    BY <2>1, <2>3, Numbered DEF e, w, n, r
  <2> QED
    BY <2>4 DEF e, w, n, r
<1> QED
    BY <1>1, <1>2, <1>3, PTL DEF Spec
=============================================================================
