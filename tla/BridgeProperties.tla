-------------------------- MODULE BridgeProperties --------------------------
(***************************************************************************)
(* What the threads of the Unity component owe each other.                 *)
(***************************************************************************)
EXTENDS UnityBridge

-----------------------------------------------------------------------------
(* Exclusive use of the stack. *)

InClient(t) ==
  \/ t = "client" /\ pc[t] \in {"update", "reading", "writing"}
  \/ t = "unity" /\ pc[t] \in {"connecting", "clientCall", "deleting"}

\* Two threads are never inside the UA_Client at the same time, not even when
\* OnDestroy deletes the client before its thread is told to end.
ClientExclusive == \A t, u \in Thread : InClient(t) /\ InClient(u) => t = u

\* No thread is inside the client once OPC_ClientConnect or OPC_ClientDelete
\* has deleted it.
ClientUsable == \A t \in Thread : InClient(t) => client \in {"open", "late", "closed"}

-----------------------------------------------------------------------------
(* Events. *)

\* The events of a list reach the script one by one in the order in which they
\* were raised; none is lost, none twice and none made up, whatever the timing
\* of callbacks, Update and its Clear.  OnDestroy drops the rest.
Delivered(l) ==
  stop \/ shown[l] \o SubSeq(events[l], next[l], Len(events[l]))
            = [i \in 1..raised[l] |-> i]

\* Changes of variables: ValueChange runs inside the client's calls.
ChangesDelivered == Delivered("allVariableEvents")

-----------------------------------------------------------------------------
(* The buffered writes. *)

\* A value that setClientWrite has accepted is not forgotten while the client
\* thread empties the buffer, and no older value overtakes it, not even one
\* whose request has run into its time-out: it waits in the buffer, or it is
\* what the server holds and no other write of its key is on the wire.  Only a
\* write that has failed is given up.
WritesKept ==
  \A k \in Key : latest[k] # 0 =>
    \/ toWrite[k] = latest[k]
    \/ /\ var[k] = latest[k]
       /\ \A i \in DOMAIN inbox : inbox[i].kind = "write" => inbox[i].key # k

-----------------------------------------------------------------------------
(* Progress. *)

Ended == pc["unity"] \in {"destroyed", "failed"}

\* OnDestroy always comes to an end.  It takes the server's mutex first and
\* then waits for a client thread which may hold the client's mutex and wait
\* for an answer of the server thread, which waits for the server's mutex:
\* only the time-out of the client's request breaks the circle.
DestroyEnds == pc["unity"] = "destroyServer" ~> Ended

\* Nothing stops the exchange of values between script and server: the channel
\* is open, and neither stopServer nor OnDestroy has been called.
Connected ==
  /\ client = "open" /\ "server" \notin aborted
  /\ ~stop /\ pc["unity"] \notin {"destroyServer", "destroyClient", "failed"}

\* The value the script wrote last reaches the server, unless it is replaced or
\* the connection ends.
WritesArrive ==
  \A k \in Key, v \in Value :
    latest[k] = v ~> var[k] = v \/ latest[k] # v \/ ~Connected

=============================================================================
