----------------------- MODULE ChunkStreamProperties -----------------------
(***************************************************************************)
(* What the reassembly of messages promises.                               *)
(***************************************************************************)
EXTENDS ChunkStream

Messages == [id : 1..MaxMessages, chunks : 1..MaxChunkCount]
\* A queued chunk that is still to be read never points into a buffer that has
\* been released: it was copied, or the call that owns the buffer is running
\* (persistCompleteChunks in every call, nested ones included). And
\* decryptedChunksCount, kept apart from the queue and compared with the limit
\* of chunks, counts it.
ChunksOwned ==
  /\ \A queue \in {complete, decrypted} : \A i \in DOMAIN queue :
       queue[i].buffer <= Len(stack)
  /\ ~failed => count = Len(decrypted)

\* A sender that keeps to the standard and to the limits is never refused,
\* across aborted messages and wrapped sequence numbers.
NeverRefused == ~failed

\* However the stream is cut into buffers and wherever a callback receives the
\* next one itself, messages arrive whole, in order and once.
MS == INSTANCE MessageStream WITH Message <- Messages
DeliversInOrder == MS!StreamSpec

\* Every message sent is delivered: no chunk waits for a buffer to come.
AllDelivered ==
  \A k \in 1..MaxMessages : Len(sent) >= k ~> Len(delivered) >= k
=============================================================================
