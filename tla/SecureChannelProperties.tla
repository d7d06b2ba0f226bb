---------------------- MODULE SecureChannelProperties ----------------------
(***************************************************************************)
(* What the two ends of a SecureChannel owe each other.                    *)
(***************************************************************************)
EXTENDS SecureChannel

Arrived(wire, type) == wire # <<>> /\ Head(wire).type = type

\* Whatever the timing of renewals, requests and late answers, the next message
\* at either end bears a token the receiver still knows and is secured with the
\* key the receiver derives for it (checkSymHeader, decryptAndVerifyChunk). And
\* a client that renews in time is never cut off: no channel it holds open has
\* expired at the server, neither for the clean-up nor for its next message.
ChannelKept ==
  /\ \A type \in {"MSG", "CLO"} :
       Arrived(toServer, type) => server.state = "CLOSED" \/ Accepts(server, Head(toServer))
  /\ Arrived(toClient, "MSG") =>
       client.state = "CLOSED" \/ Accepts(client, Head(toClient))
  /\ config.diligent /\ client.state = "OPEN" /\ server.state = "OPEN" =>
       /\ ~Expired(CleanedUp(server))
       /\ Arrived(toServer, "MSG") => ~Expired(Revolved(server, Head(toServer)))

\* A read is answered or ends with its channel, through renewals, refusals and
\* broken connections: the connectivity check never blocks itself for good.
ReadsEnd == "read" \in waiting ~> "read" \notin waiting
=============================================================================
