----------------------------- MODULE NnFraming ------------------------------
(***************************************************************************)
(* One direction of an NN stream, byte by byte: the frames send_tcp_msg    *)
(* writes (a size of SizeBytes bytes, then the body) and the recv_tcp_msg  *)
(* loop that takes them apart under the 3 s read timeout.  The reader is   *)
(* the worker of the server (handle_connection) or the connector of the    *)
(* peer (recv_event): their recv_tcp_msg are the same, what they do with   *)
(* its result is not.                                                      *)
(*                                                                         *)
(* A place [frame, byte] names a byte of the stream; the stream is the     *)
(* places of frame 1, of frame 2, and so on.  TCP may hand over any number *)
(* of the bytes written, so both sides move one byte at a time, and the    *)
(* unread bytes are the places from pos up to, not including, put.         *)
(***************************************************************************)
EXTENDS Naturals, Sequences

CONSTANTS
  SizeBytes,  \* bytes of the size field: 4 in the code
  Sizes,      \* encoded sizes of the messages that are sent
  Spelled,    \* sizes that four bytes from anywhere else may spell
  MaxFrames   \* bound: messages sent

ASSUME SizeBytesPositive == SizeBytes \in Nat \ {0}
ASSUME SizesPositive == Sizes \subseteq Nat \ {0}  \* no message encodes to nothing
ASSUME SpelledNat == Spelled \subseteq Nat
ASSUME MaxFramesNat == MaxFrames \in Nat

Garbage == 0  \* in got: bytes that are not one message's

VARIABLES
  reader,  \* whose recv_tcp_msg this is: "worker" or "peer"
  sent,    \* Seq(Sizes)  the messages the sender has begun to write
  put,     \* the place of the next byte to be written
  open,    \* whether the sender holds its end of the stream open
  pc,      \* the reader: between calls, in read_exact of size or body, dead
  from,    \* the place where the present read_exact began
  pos,     \* the place of the next byte to be read
  have,    \* the bytes the present read_exact has got
  size,    \* the size the reader has decoded
  got,     \* Seq(Nat)    messages decoded, by frame number or Garbage
  said,    \* what the last call told the reader's caller
  torn     \* history: some call timed out inside a size field

senderVars == <<sent, put, open>>
readerVars == <<pc, from, pos, have, size, got, said, torn>>
vars == <<reader, senderVars, readerVars>>

Place == [frame: Nat, byte: Nat]
First == [frame |-> 1, byte |-> 1]

Init ==
  /\ reader \in {"worker", "peer"}
  /\ sent = <<>>
  /\ put = First
  /\ open = TRUE
  /\ pc = "idle"
  /\ from = First
  /\ pos = First
  /\ have = 0
  /\ size = 0
  /\ got = <<>>
  /\ said = "nothing"
  /\ torn = FALSE

\* The place after p.
FrameBytes(f) == SizeBytes + sent[f]
After(p) == IF p.byte < FrameBytes(p.frame)
            THEN [frame |-> p.frame, byte |-> p.byte + 1]
            ELSE [frame |-> p.frame + 1, byte |-> 1]

-----------------------------------------------------------------------------
(* The sender: send_tcp_msg *)

BetweenFrames == put.frame = Len(sent) + 1

\* A message is encoded and its size field begun.
SendBegin ==
  /\ open
  /\ BetweenFrames
  /\ Len(sent) < MaxFrames
  /\ \E s \in Sizes : sent' = Append(sent, s)
  /\ UNCHANGED <<reader, put, open, readerVars>>

\* write_all, of the size and then of the body.
SendByte ==
  /\ open
  /\ ~BetweenFrames
  /\ put' = After(put)
  /\ UNCHANGED <<reader, sent, open, readerVars>>

\* The sender's process ends or it drops the stream, be it inside a message.
SendClose ==
  /\ open
  /\ open' = FALSE
  /\ UNCHANGED <<reader, sent, put, readerVars>>

-----------------------------------------------------------------------------
(* The reader: recv_tcp_msg *)

Arrived == pos # put

\* Every read_exact begins with nothing.
Begin(field) ==
  /\ pc' = field
  /\ from' = pos
  /\ have' = 0

RecvCall ==
  /\ pc = "idle"
  /\ Begin("size")
  /\ UNCHANGED <<reader, senderVars, pos, size, got, said, torn>>

\* The next byte of the stream, whatever it is, goes into the buffer.
WantedWithSize ==  \* mutant: the size taken to count its own field
  IF pc = "size" THEN SizeBytes ELSE size + SizeBytes
Wanted == IF pc = "size" THEN SizeBytes ELSE size
RecvByte ==
  /\ pc \in {"size", "body"}
  /\ have < Wanted
  /\ Arrived
  /\ have' = have + 1
  /\ pos' = After(pos)
  /\ UNCHANGED <<reader, senderVars, pc, from, size, got, said, torn>>

\* The size field is there.  Bytes from anywhere else may spell any size.
AtSize == from.byte = 1
SizeSigned ==  \* mutant: a large size read as a negative number
  IF AtSize THEN {sent[from.frame]} ELSE {0 - 1}
SizeRead == IF AtSize THEN {sent[from.frame]} ELSE Spelled
RecvSize ==
  /\ pc = "size"
  /\ have = Wanted
  /\ size' \in SizeRead
  /\ Begin("body")
  /\ UNCHANGED <<reader, senderVars, pos, got, said, torn>>

\* The body is there and is decoded.  One message's body always decodes; other
\* bytes may or may not, and the worker panics if they do not.
AtBody == from.byte = SizeBytes + 1 /\ size = sent[from.frame]
RecvBody ==
  /\ pc = "body"
  /\ have = Wanted
  /\ \/ /\ got' = Append(got, IF AtBody THEN from.frame ELSE Garbage)
        /\ said' = "Ok"
        /\ pc' = "idle"
     \/ /\ ~AtBody
        /\ got' = got
        /\ said' = "SerializeError"
        /\ pc' = IF reader = "worker" THEN "dead" ELSE "idle"
  /\ UNCHANGED <<reader, senderVars, from, pos, size, have, torn>>

\* A read ends without a byte when none came for 3 s or the stream has ended.
ReadEndsOnClose == ~Arrived /\ ~open  \* mutant: no read timeout
ReadEnds == ~Arrived

\* In the size field this is an
\* error of the call, which the worker ignores and the peer's recv_event reports
\* as NotAvailable; the bytes of the field read so far are gone.
RecvSizeFails ==
  /\ pc = "size"
  /\ have < Wanted
  /\ ReadEnds
  /\ pc' = "idle"
  /\ said' = "NotAvailable"
  /\ torn' = (torn \/ have > 0)
  /\ UNCHANGED <<reader, senderVars, from, pos, size, have, got>>

\* In the body it is a panic of the reader's thread, on either side.
RecvBodyFails ==
  /\ pc = "body"
  /\ have < Wanted
  /\ ReadEnds
  /\ pc' = "dead"
  /\ UNCHANGED <<reader, senderVars, from, pos, size, have, got, said, torn>>

-----------------------------------------------------------------------------
Recv ==
  \/ RecvCall \/ RecvByte \/ RecvSize \/ RecvBody
  \/ RecvSizeFails \/ RecvBodyFails

Next == SendBegin \/ SendByte \/ SendClose \/ Recv

Spec == Init /\ [][Next]_vars

\* A call runs in its caller's thread, and each of its reads ends.
FairSpec == Spec /\ WF_vars(Recv)

-----------------------------------------------------------------------------
(* Safety *)

TypeOK ==
  /\ reader \in {"worker", "peer"}
  /\ sent \in Seq(Sizes)
  /\ put \in Place /\ from \in Place /\ pos \in Place
  /\ open \in BOOLEAN /\ torn \in BOOLEAN
  /\ pc \in {"idle", "size", "body", "dead"}
  /\ have \in Nat /\ size \in Nat
  /\ got \in Seq(Nat)
  /\ said \in {"nothing", "Ok", "NotAvailable", "SerializeError"}

\* As long as no call has timed out inside a size field, the reader gets the
\* messages that were sent, each once, in order and whole, however the bytes
\* arrive and whichever side stops where.
InStep == ~torn => \A i \in DOMAIN got : got[i] = i

\* A reader that no call has torn from the frames dies of one thing only: it has
\* read all there is, which ends inside the body of the very next message.
DiesInsideBody ==
  [][pc # "dead" /\ pc' = "dead" /\ ~torn =>
       /\ pos = put
       /\ pos.frame = Len(got) + 1 /\ pos.frame \in DOMAIN sent
       /\ pos.byte \in (SizeBytes + 1)..FrameBytes(pos.frame)]_vars

\* A call that came to nothing may be repeated: unless it was torn, the next call
\* begins with the first byte of the message after those the reader has got.
RetryLosesNothing ==
  (pc = "idle" /\ ~torn) => pos = [frame |-> Len(got) + 1, byte |-> 1]

\* The buffer that is allocated before the body arrives has the size of a message
\* the sender has announced; only torn frames make a reader allocate otherwise.
AllocatesAnnounced ==
  (pc = "body" /\ ~torn) => Len(got) + 1 \in DOMAIN sent /\ size = sent[Len(got) + 1]

\* No call blocks its caller for good, also when the sender has gone or the
\* frames are torn.
RecvReturns == pc \in {"size", "body"} ~> pc \in {"idle", "dead"}

(* What the comments say *)

\* "Receive one message of u32 len and [u8; len] bytes": what a call returns is
\* one message, and never bytes of several taken for one.
ReceivesOneMessage == \A i \in DOMAIN got : got[i] # Garbage
=============================================================================
