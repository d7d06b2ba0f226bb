---------------------------- MODULE ChunkStream ----------------------------
(***************************************************************************)
(* How a SecureChannel cuts messages into chunks and puts them together    *)
(* again from the buffers in which TCP delivers the stream of bytes.       *)
(*                                                                         *)
(* A buffer may end anywhere, inside a header too.  The callback that gets *)
(* a message may receive again before it returns: a client that makes a    *)
(* synchronous call inside a callback reads the next buffer while the      *)
(* chunks of the last one are still queued.  The calls of                  *)
(* UA_SecureChannel_processBuffer form a stack; a chunk that has not been  *)
(* copied points into the buffer of one of them.                           *)
(*                                                                         *)
(* The sender is this stack or another one: it may abort a message it has  *)
(* begun, and wrap its sequence numbers anywhere the standard allows.      *)
(* Lengths are counted in units of half a header.                          *)
(*                                                                         *)
(* The variants named Defect... are explained in module Subscription.      *)
(***************************************************************************)
EXTENDS Integers, Sequences, SequencesExt

CONSTANTS
  SeqRange,        \* sequence numbers are 0..SeqRange-1 (2^32 in the code)
  Rollover,      \* UA_SEQUENCENUMBER_ROLLOVER
  MaxFirst,      \* numbers a wrapped sequence may start with (below 1024)
  FirstSeq,      \* sequence numbers from which the channel may start
  Size,          \* sizes of chunks, the header included
  MaxChunkCount, \* localMaxChunkCount, the same limit at both ends
  MaxBuffer,     \* bound: size of a buffer
  MaxDepth,      \* bound: calls of processBuffer inside each other
  MaxMessages,   \* bound: messages the sender begins
  MaxInFlight    \* bound: chunks not yet read completely

HeaderSize == 2

ASSUME SequenceAssumption ==
  /\ SeqRange \in Nat /\ MaxFirst \in 1..SeqRange /\ Rollover \in MaxFirst..SeqRange - 1
  /\ FirstSeq \subseteq 0..SeqRange - 1
ASSUME SizeAssumption == Size \subseteq Nat /\ \A n \in Size : n >= HeaderSize
ASSUME LimitAssumption ==
  /\ {MaxChunkCount, MaxBuffer, MaxDepth} \subseteq Nat \ {0}
  /\ {MaxMessages, MaxInFlight} \subseteq Nat

VARIABLES
  sendSeq,    \* sendSequenceNumber of the sender
  current,    \* the message it has begun: its number and its chunks so far
  begun,      \* messages begun, aborted ones included
  sent,       \* the messages finished
  stream,     \* the chunks that have not been read completely
  read,       \* how much of stream has been read: the length of incompleteChunk
  recvSeq,    \* receiveSequenceNumber
  complete,   \* completeChunks
  decrypted,  \* decryptedChunks
  count,      \* decryptedChunksCount
  stack,      \* the calls of processBuffer, each "processing" chunks or in the
              \* "callback" of a message
  delivered,  \* the messages given to the callback
  failed      \* processing has returned an error: the channel is closed

sender == <<sendSeq, current, begun, sent>>
receiver == <<recvSeq, complete, decrypted, count, stack, delivered, failed>>
vars == <<sender, stream, read, receiver>>

Idle == [id |-> 0, chunks |-> 0]

-----------------------------------------------------------------------------
(* Sequence numbers. *)

\* The numbers a sender may use after n: the next one, or beyond the threshold
\* a low one. From the greatest number it wraps to 0.
Successors(n) ==
  {(n + 1) % SeqRange} \union
  (IF n > Rollover /\ n < SeqRange - 1 THEN 0..MaxFirst - 1 ELSE {})

DefectNoRollover(received, n) == n = (received + 1) % SeqRange

\* processSequenceNumberSym accepts n after received.
SeqAccepted(received, n) ==
  \/ n = (received + 1) % SeqRange
  \/ (received + 1) % SeqRange > Rollover /\ n < MaxFirst

-----------------------------------------------------------------------------
(* The sender. *)

\* encodeHeadersSym, sendSymmetricChunk: a chunk of message m goes out.
SendChunk(m, type) ==
  \E size \in Size, n \in Successors(sendSeq) :
    /\ Len(stream) < MaxInFlight
    /\ sendSeq' = n
    /\ stream' = Append(stream, [id |-> m.id, type |-> type, size |-> size, seq |-> n])

\* UA_MessageContext_begin starts a new message when none is under way.
Message == IF current = Idle THEN [id |-> begun + 1, chunks |-> 0] ELSE current
MayBegin == current # Idle \/ begun < MaxMessages

\* sendSymmetricEncodingCallback: the buffer is full and more is to come.
SendIntermediate ==
  /\ MayBegin /\ Message.chunks + 1 < MaxChunkCount
  /\ SendChunk(Message, "intermediate")
  /\ current' = [Message EXCEPT !.chunks = @ + 1] /\ begun' = Message.id
  /\ UNCHANGED <<sent, read, receiver>>

\* UA_MessageContext_finish.
SendFinal ==
  /\ MayBegin /\ SendChunk(Message, "final")
  /\ current' = Idle /\ begun' = Message.id
  /\ sent' = Append(sent, [Message EXCEPT !.chunks = @ + 1])
  /\ UNCHANGED <<read, receiver>>

\* The sender gives the message up after some of its chunks.
SendAbort ==
  /\ current # Idle /\ SendChunk(current, "abort")
  /\ current' = Idle /\ UNCHANGED <<begun, sent, read, receiver>>

-----------------------------------------------------------------------------
(* The receiver. *)

Top == stack[Len(stack)]
Processing == stack # <<>> /\ Top = "processing" /\ ~failed

\* The length of the first k chunks of the stream.
Length(k) == FoldLeft(LAMBDA n, c : n + c.size, 0, SubSeq(stream, 1, k))

\* Of the stream, k chunks are complete in the first n units.
CompleteIn(k, n) == Length(k) <= n /\ (k < Len(stream) => Length(k + 1) > n)

\* UA_SecureChannel_processBuffer begins with a buffer of n units: all complete
\* chunks are queued, pointing into the buffer, the rest is kept.  It is called
\* at the top, and by a callback that waits for another message.
Receive(n) ==
  /\ ~failed /\ Len(stack) < MaxDepth /\ (stack # <<>> => Top = "callback")
  /\ n > 0 /\ read + n <= Length(Len(stream))
  /\ \E k \in 0..Len(stream) :
     LET new == [i \in 1..k |-> [id |-> stream[i].id, type |-> stream[i].type,
                                 seq |-> stream[i].seq, buffer |-> Len(stack) + 1]]
     IN /\ CompleteIn(k, read + n)
        /\ complete' = complete \o new
        /\ stream' = SubSeq(stream, k + 1, Len(stream))
        /\ read' = read + n - Length(k)
  /\ stack' = Append(stack, "processing")
  /\ UNCHANGED <<sender, recvSeq, decrypted, count, delivered, failed>>

Fail == failed' = TRUE /\ complete' = <<>> /\ decrypted' = <<>> /\ stack' = <<>>

\* What remains of the decrypted chunks d after an abort chunk.
AfterAbort(d) == <<>>

DefectAbortIsFinal(c) == c.type # "intermediate"

\* Chunk c ends a message.
Ends(c) == c.type = "final"

\* One turn of processChunks: a chunk is unpacked and queued; a final one makes
\* a message of all that are queued, which leave the queue before the callback
\* is called with it.
ProcessChunk ==
  /\ Processing /\ complete # <<>>
  /\ LET c == Head(complete)
         chunks == Append(decrypted, c)
         fits == SeqAccepted(recvSeq, c.seq) /\ count + 1 <= MaxChunkCount
         sound == \A i \in DOMAIN chunks : chunks[i].id = c.id
     IN \/ ~fits /\ Fail /\ UNCHANGED <<recvSeq, count, delivered>>
        \/ /\ fits /\ recvSeq' = c.seq /\ complete' = Tail(complete)
           /\ \/ /\ c.type = "intermediate" /\ decrypted' = chunks /\ count' = count + 1
                 /\ UNCHANGED <<stack, delivered, failed>>
              \/ /\ c.type = "abort" /\ decrypted' = AfterAbort(chunks) /\ count' = 0
                 /\ UNCHANGED <<stack, delivered, failed>>
              \/ /\ Ends(c) /\ sound
                 /\ decrypted' = <<>> /\ count' = 0
                 /\ delivered' = Append(delivered, [id |-> c.id, chunks |-> Len(chunks)])
                 /\ stack' = [stack EXCEPT ![Len(stack)] = "callback"]
                 /\ UNCHANGED failed
        \/ /\ fits /\ Ends(c) /\ ~sound /\ Fail
           /\ UNCHANGED <<recvSeq, count, delivered>>
  /\ UNCHANGED <<sender, stream, read>>

\* The callback returns to the loop.
Return ==
  /\ stack # <<>> /\ Top = "callback" /\ ~failed
  /\ stack' = [stack EXCEPT ![Len(stack)] = "processing"]
  /\ UNCHANGED <<sender, stream, read, recvSeq, complete, decrypted, count, delivered, failed>>

DefectNotPersisted(queue) == queue

\* persistCompleteChunks: every chunk gets a copy of its bytes.
Persisted(queue) == [i \in DOMAIN queue |-> [queue[i] EXCEPT !.buffer = 0]]

DefectOneMessage == TRUE

\* The loop of processChunks ends when no chunk is left.
NothingLeft == complete = <<>>

\* processBuffer returns and its buffer is released.
EndProcessing ==
  /\ Processing /\ NothingLeft
  /\ complete' = Persisted(complete) /\ decrypted' = Persisted(decrypted)
  /\ stack' = Front(stack)
  /\ UNCHANGED <<sender, stream, read, recvSeq, count, delivered, failed>>

Init ==
  /\ \E n \in FirstSeq : sendSeq = n /\ recvSeq = n
  /\ current = Idle /\ begun = 0 /\ sent = <<>> /\ stream = <<>> /\ read = 0
  /\ complete = <<>> /\ decrypted = <<>> /\ count = 0 /\ stack = <<>>
  /\ delivered = <<>> /\ failed = FALSE

ReceiveSome == \E n \in 1..MaxBuffer : Receive(n)

Next == \/ SendIntermediate \/ SendFinal \/ SendAbort
        \/ ReceiveSome \/ ProcessChunk \/ Return \/ EndProcessing

\* The receiver goes on as long as there is something to read; it is one
\* thread, which ends each call it has begun.
Spec == /\ Init /\ [][Next]_vars
        /\ WF_vars(ReceiveSome) /\ WF_vars(ProcessChunk)
        /\ WF_vars(Return) /\ WF_vars(EndProcessing)
=============================================================================
