--------------------------- MODULE MessageStream ---------------------------
(***************************************************************************)
(* What the layers above a SecureChannel expect of it: the messages of the *)
(* other side arrive whole, in the order they were sent, each once.        *)
(***************************************************************************)
EXTENDS Integers, Sequences

CONSTANT Message

VARIABLES
  sent,      \* the messages the other side has finished
  delivered  \* those handed to the layers above

svars == <<sent, delivered>>

StreamInit == sent = <<>> /\ delivered = <<>>

Send == /\ \E m \in Message : sent' = Append(sent, m)
        /\ UNCHANGED delivered

Deliver == /\ Len(delivered) < Len(sent)
           /\ delivered' = Append(delivered, sent[Len(delivered) + 1])
           /\ UNCHANGED sent

StreamSpec == StreamInit /\ [][Send \/ Deliver]_svars
=============================================================================
