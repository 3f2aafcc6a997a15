-------------------------- MODULE NnFramingProofs ---------------------------
(***************************************************************************)
(* Theorems about NnFraming, for any width of the size field, any sizes    *)
(* and any number of messages.                                             *)
(***************************************************************************)
EXTENDS NnFraming, SequenceTheorems, TLAPS

USE DEF senderVars, readerVars

(***************************************************************************)
(* InStep says nothing of where the reader is in the stream.  What keeps   *)
(* it in step is that between calls it stands at the start of the message  *)
(* after those it has got, and within a call at the byte its count says.   *)
(***************************************************************************)

\* The sender stands at the end of what it has begun to write.
SenderPlace ==
  \/ put = [frame |-> Len(sent) + 1, byte |-> 1]
  \/ /\ Len(sent) > 0
     /\ put.frame = Len(sent)
     /\ put.byte \in 1..FrameBytes(Len(sent))

\* The reader is not ahead of the sender.
NotAhead ==
  \/ pos = put
  \/ /\ pos.frame \in 1..Len(sent) /\ pos.byte \in 1..FrameBytes(pos.frame)
     /\ (pos.frame < put.frame \/ (pos.frame = put.frame /\ pos.byte < put.byte))

\* A read in progress began at pos and, once it has a byte, in a frame.
ReadBegan ==
  pc \in {"size", "body"} =>
    /\ have = 0 => from = pos
    /\ have > 0 => from.frame \in DOMAIN sent

\* The message the reader is to get next.
Turn == Len(got) + 1

ReaderPlace ==
  /\ pc = "idle" => pos = [frame |-> Turn, byte |-> 1]
  /\ pc = "size" =>
       /\ from = [frame |-> Turn, byte |-> 1]
       /\ have <= SizeBytes
       /\ pos = [frame |-> Turn, byte |-> have + 1]
       /\ have > 0 => Turn \in DOMAIN sent
  /\ pc = "body" =>
       /\ Turn \in DOMAIN sent
       /\ from = [frame |-> Turn, byte |-> SizeBytes + 1]
       /\ size = sent[Turn]
       /\ have <= size
       /\ pos = IF have < size THEN [frame |-> Turn, byte |-> SizeBytes + have + 1]
                ELSE [frame |-> Turn + 1, byte |-> 1]

FrameInv ==
  /\ TypeOK
  /\ SenderPlace
  /\ NotAhead
  /\ ReadBegan
  /\ ~torn => InStep /\ ReaderPlace

-----------------------------------------------------------------------------
\* A frame is at least its size field and one byte.
LEMMA FrameSize ==
  ASSUME TypeOK, NEW f \in DOMAIN sent
  PROVE  sent[f] \in Nat \ {0} /\ FrameBytes(f) \in Nat /\ FrameBytes(f) > SizeBytes
<1>1. sent[f] \in Sizes BY DEF TypeOK
<1>2. sent[f] \in Nat \ {0} BY <1>1, SizesPositive
<1> QED BY <1>2, SizeBytesPositive DEF FrameBytes

\* A byte that has arrived lies in a frame, and what comes after it is not
\* ahead of the sender either.
LEMMA NextByte ==
  ASSUME TypeOK, SenderPlace, NotAhead, Arrived
  PROVE  /\ pos.frame \in DOMAIN sent
         /\ pos.byte \in 1..FrameBytes(pos.frame)
         /\ After(pos) \in Place
         /\ \/ After(pos) = put
            \/ /\ After(pos).frame \in 1..Len(sent)
               /\ After(pos).byte \in 1..FrameBytes(After(pos).frame)
               /\ \/ After(pos).frame < put.frame
                  \/ After(pos).frame = put.frame /\ After(pos).byte < put.byte
<1>1. /\ pos.frame \in 1..Len(sent) /\ pos.byte \in 1..FrameBytes(pos.frame)
      /\ (pos.frame < put.frame \/ (pos.frame = put.frame /\ pos.byte < put.byte))
  BY DEF NotAhead, Arrived
<1>2. DOMAIN sent = 1..Len(sent) /\ Len(sent) \in Nat BY DEF TypeOK
<1>3. \A f \in 1..Len(sent) : FrameBytes(f) \in Nat /\ FrameBytes(f) > SizeBytes
  BY <1>2, FrameSize
<1>4. put = [frame |-> put.frame, byte |-> put.byte] /\ put.frame \in Nat /\ put.byte \in Nat
      /\ pos.frame \in Nat /\ pos.byte \in Nat
  BY DEF TypeOK, Place
<1>5. put.frame <= Len(sent) + 1 /\ put.byte >= 1
      /\ (put.frame = Len(sent) + 1 => put.byte = 1)
      /\ (put.frame \in 1..Len(sent) => put.byte <= FrameBytes(put.frame))
  BY <1>2, <1>4 DEF SenderPlace
<1>6. CASE pos.byte < FrameBytes(pos.frame)
  <2>1. After(pos) = [frame |-> pos.frame, byte |-> pos.byte + 1] BY <1>6 DEF After
  <2> QED BY <1>1, <1>2, <1>3, <1>4, <1>5, <1>6, <2>1 DEF Place
<1>7. CASE ~(pos.byte < FrameBytes(pos.frame))
  <2>1. After(pos) = [frame |-> pos.frame + 1, byte |-> 1] BY <1>7 DEF After
  <2>2. pos.frame < put.frame BY <1>1, <1>3, <1>4, <1>5, <1>7
  <2>3. CASE pos.frame + 1 = put.frame
    BY <1>1, <1>2, <1>3, <1>4, <1>5, <2>1, <2>3, SizeBytesPositive DEF Place
  <2>4. CASE pos.frame + 1 < put.frame
    BY <1>1, <1>2, <1>3, <1>4, <1>5, <2>1, <2>4, SizeBytesPositive DEF Place
  <2> QED BY <1>4, <2>2, <2>3, <2>4
<1> QED BY <1>1, <1>2, <1>6, <1>7

\* A message that is begun goes after the messages before it.
LEMMA SendBeginStep ==
  ASSUME FrameInv, SendBegin
  PROVE  FrameInv'
<1>1. PICK s \in Sizes : sent' = Append(sent, s) BY DEF SendBegin
<1>2. /\ UNCHANGED <<reader, put, open, pc, from, pos, have, size, got, said, torn>>
      /\ put.frame = Len(sent) + 1
  BY DEF SendBegin, BetweenFrames
<1>3. /\ sent \in Seq(Sizes) /\ Len(sent) \in Nat /\ DOMAIN sent = 1..Len(sent)
      /\ SizeBytes \in Nat \ {0} /\ s \in Nat \ {0}
  BY SizeBytesPositive, SizesPositive DEF FrameInv, TypeOK
<1>4. /\ sent' \in Seq(Sizes) /\ Len(sent') = Len(sent) + 1 /\ DOMAIN sent' = 1..Len(sent')
      /\ \A f \in 1..Len(sent) : sent'[f] = sent[f]
      /\ sent'[Len(sent) + 1] = s
  BY <1>1, <1>3
<1>5. TypeOK' BY <1>2, <1>4 DEF FrameInv, TypeOK
<1>6. put = [frame |-> Len(sent) + 1, byte |-> 1]
  <2>1. put.frame = Len(sent) + 1 BY DEF SendBegin, BetweenFrames
  <2>2. Len(sent) \in Nat BY <1>3
  <2>3. put.frame # Len(sent) BY <2>1, <2>2
  <2> QED BY <2>3 DEF FrameInv, SenderPlace
<1>7. SenderPlace' BY <1>2, <1>3, <1>4, <1>6 DEF SenderPlace, FrameBytes
<1>8. \A f \in 1..Len(sent) : FrameBytes(f)' = FrameBytes(f) BY <1>4 DEF FrameBytes
<1>9. NotAhead' BY <1>2, <1>3, <1>4, <1>8 DEF FrameInv, NotAhead
<1>10. ReadBegan' BY <1>2, <1>3, <1>4 DEF FrameInv, ReadBegan
<1>11. (~torn => InStep /\ ReaderPlace)'
  BY <1>2, <1>3, <1>4 DEF FrameInv, InStep, ReaderPlace, Turn
<1> QED BY <1>5, <1>7, <1>9, <1>10, <1>11 DEF FrameInv

\* Writing a byte moves the sender on, within the message it has begun.
LEMMA SendByteStep ==
  ASSUME FrameInv, SendByte
  PROVE  FrameInv'
<1>1. /\ UNCHANGED <<reader, sent, open, pc, from, pos, have, size, got, said, torn>>
      /\ put' = After(put) /\ put.frame # Len(sent) + 1
  BY DEF SendByte, BetweenFrames
<1>2. /\ Len(sent) \in Nat /\ put.frame = Len(sent) /\ Len(sent) > 0
      /\ put.byte \in 1..FrameBytes(Len(sent)) /\ FrameBytes(Len(sent)) \in Nat
      /\ put = [frame |-> put.frame, byte |-> put.byte]
  BY <1>1, FrameSize DEF FrameInv, SenderPlace, TypeOK, Place
<1>3. \/ put' = [frame |-> Len(sent), byte |-> put.byte + 1] /\ put.byte < FrameBytes(Len(sent))
      \/ put' = [frame |-> Len(sent) + 1, byte |-> 1]
  BY <1>1, <1>2 DEF After
<1>4. TypeOK' BY <1>1, <1>2, <1>3 DEF FrameInv, TypeOK, Place
<1>5. SenderPlace' BY <1>1, <1>2, <1>3 DEF SenderPlace, FrameBytes
<1>6. NotAhead'
  <2>1. \A f : FrameBytes(f)' = FrameBytes(f) BY <1>1 DEF FrameBytes
  <2>2. CASE pos = put
    BY <1>1, <1>2, <1>3, <2>1, <2>2 DEF NotAhead
  <2>3. CASE /\ pos.frame \in 1..Len(sent) /\ pos.byte \in 1..FrameBytes(pos.frame)
             /\ (pos.frame < put.frame \/ (pos.frame = put.frame /\ pos.byte < put.byte))
    BY <1>1, <1>2, <1>3, <2>1, <2>3 DEF NotAhead
  <2> QED BY <2>2, <2>3 DEF FrameInv, NotAhead
<1>7. ReadBegan' BY <1>1 DEF FrameInv, ReadBegan
<1>8. (~torn => InStep /\ ReaderPlace)'
  BY <1>1 DEF FrameInv, InStep, ReaderPlace, Turn
<1> QED BY <1>4, <1>5, <1>6, <1>7, <1>8 DEF FrameInv

\* Reading a byte keeps the count and the place together.
LEMMA RecvByteStep ==
  ASSUME FrameInv, RecvByte
  PROVE  FrameInv'
<1>1. /\ pc \in {"size", "body"} /\ have < Wanted /\ Arrived
      /\ have' = have + 1 /\ pos' = After(pos)
      /\ UNCHANGED <<reader, sent, put, open, pc, from, size, got, said, torn>>
  BY DEF RecvByte
<1>2. /\ have \in Nat /\ Len(sent) \in Nat /\ DOMAIN sent = 1..Len(sent) /\ Len(got) \in Nat
  BY DEF FrameInv, TypeOK
<1>3. /\ pos.frame \in DOMAIN sent
      /\ pos.byte \in 1..FrameBytes(pos.frame)
      /\ After(pos) \in Place
      /\ \/ After(pos) = put
         \/ /\ After(pos).frame \in 1..Len(sent)
            /\ After(pos).byte \in 1..FrameBytes(After(pos).frame)
            /\ \/ After(pos).frame < put.frame
               \/ After(pos).frame = put.frame /\ After(pos).byte < put.byte
  BY <1>1, NextByte DEF FrameInv
<1>4. TypeOK' BY <1>1, <1>2, <1>3 DEF FrameInv, TypeOK
<1>5. SenderPlace' BY <1>1 DEF FrameInv, SenderPlace, FrameBytes
<1>6. NotAhead' BY <1>1, <1>3 DEF NotAhead, FrameBytes
<1>7. ReadBegan' BY <1>1, <1>2, <1>3 DEF FrameInv, ReadBegan
<1>8. ASSUME ~torn PROVE ReaderPlace'
  <2>1. ReaderPlace BY <1>8 DEF FrameInv
  <2>2. sent[pos.frame] \in Nat \ {0} /\ FrameBytes(pos.frame) = SizeBytes + sent[pos.frame]
    BY <1>3, FrameSize DEF FrameInv, FrameBytes
  <2>3. SizeBytes \in Nat \ {0} BY SizeBytesPositive
  <2>4. CASE pc = "size"
    <3>1. have < SizeBytes BY <1>1, <2>4 DEF Wanted
    <3>2. pos = [frame |-> Turn, byte |-> have + 1] BY <2>1, <2>4 DEF ReaderPlace
    <3>3. After(pos) = [frame |-> Turn, byte |-> have + 2]
      BY <1>2, <2>2, <2>3, <3>1, <3>2 DEF After
    <3> QED BY <1>1, <1>2, <1>3, <2>1, <2>3, <2>4, <3>1, <3>2, <3>3 DEF ReaderPlace, Turn
  <2>5. CASE pc = "body"
    <3>1. have < size BY <1>1, <2>5 DEF Wanted
    <3>2. /\ size = sent[Turn] /\ Turn \in DOMAIN sent
          /\ pos = [frame |-> Turn, byte |-> SizeBytes + have + 1]
      BY <2>1, <2>5, <3>1 DEF ReaderPlace
    <3>3. After(pos) = IF have + 1 < size
                       THEN [frame |-> Turn, byte |-> SizeBytes + (have + 1) + 1]
                       ELSE [frame |-> Turn + 1, byte |-> 1]
      BY <1>2, <2>2, <2>3, <3>1, <3>2 DEF After
    <3>4. have + 1 <= size BY <1>2, <2>2, <3>1, <3>2
    <3> QED BY <1>1, <1>2, <2>1, <2>5, <3>2, <3>3, <3>4 DEF ReaderPlace, Turn
  <2> QED BY <1>1, <2>4, <2>5
<1>9. (~torn => InStep)' BY <1>1 DEF FrameInv, InStep
<1> QED BY <1>1, <1>4, <1>5, <1>6, <1>7, <1>8, <1>9 DEF FrameInv

\* A call begins, or goes on from the size to the body.
LEMMA RecvCallStep ==
  ASSUME FrameInv, RecvCall
  PROVE  FrameInv'
<1>1. /\ pc = "idle" /\ pc' = "size" /\ from' = pos /\ have' = 0
      /\ UNCHANGED <<reader, sent, put, open, pos, size, got, said, torn>>
  BY DEF RecvCall, Begin
<1>2. TypeOK' BY <1>1 DEF FrameInv, TypeOK
<1>3. SenderPlace' /\ NotAhead' BY <1>1 DEF FrameInv, SenderPlace, NotAhead, FrameBytes
<1>4. ReadBegan' BY <1>1 DEF ReadBegan
<1>5. (~torn => InStep /\ ReaderPlace)'
  BY <1>1, SizeBytesPositive DEF FrameInv, InStep, ReaderPlace, Turn
<1> QED BY <1>2, <1>3, <1>4, <1>5 DEF FrameInv

\* A size that is read to its end says how many bytes follow.
LEMMA RecvSizeStep ==
  ASSUME FrameInv, RecvSize
  PROVE  FrameInv'
<1>1. /\ pc = "size" /\ have = SizeBytes /\ pc' = "body" /\ from' = pos /\ have' = 0
      /\ size' \in IF from.byte = 1 THEN {sent[from.frame]} ELSE Spelled
      /\ UNCHANGED <<reader, sent, put, open, pos, got, said, torn>>
  BY DEF RecvSize, SizeRead, Begin, Wanted, AtSize
<1>2. from.frame \in DOMAIN sent BY <1>1, SizeBytesPositive DEF FrameInv, ReadBegan
<1>3. size' \in Nat BY <1>1, <1>2, FrameSize, SpelledNat DEF FrameInv
<1>4. TypeOK' BY <1>1, <1>3 DEF FrameInv, TypeOK
<1>5. SenderPlace' /\ NotAhead' BY <1>1 DEF FrameInv, SenderPlace, NotAhead, FrameBytes
<1>6. ReadBegan' BY <1>1 DEF ReadBegan
<1>7. ASSUME ~torn PROVE ReaderPlace'
  <2>1. /\ from = [frame |-> Turn, byte |-> 1]
        /\ pos = [frame |-> Turn, byte |-> SizeBytes + 1]
        /\ Turn \in DOMAIN sent
    BY <1>1, <1>7, SizeBytesPositive DEF FrameInv, ReaderPlace
  <2>2. size' = sent[Turn] /\ sent[Turn] \in Nat \ {0} BY <1>1, <2>1, FrameSize DEF FrameInv
  <2> QED BY <1>1, <2>1, <2>2, SizeBytesPositive DEF ReaderPlace, Turn
<1>8. (~torn => InStep)' BY <1>1 DEF FrameInv, InStep
<1> QED BY <1>1, <1>4, <1>5, <1>6, <1>7, <1>8 DEF FrameInv

\* What a call that is in step returns is the message whose turn it is.
LEMMA RecvBodyStep ==
  ASSUME FrameInv, RecvBody
  PROVE  FrameInv'
<1>1. /\ pc = "body" /\ have = size
      /\ UNCHANGED <<reader, sent, put, open, from, pos, size, have, torn>>
      /\ \/ /\ got' = Append(got, IF AtBody THEN from.frame ELSE Garbage)
            /\ said' = "Ok" /\ pc' = "idle"
         \/ /\ ~AtBody /\ got' = got /\ said' = "SerializeError" /\ pc' \in {"dead", "idle"}
  BY DEF RecvBody, Wanted
<1>2. got \in Seq(Nat) /\ Len(got) \in Nat /\ DOMAIN got = 1..Len(got)
  BY DEF FrameInv, TypeOK
<1>3. (IF AtBody THEN from.frame ELSE Garbage) \in Nat
  BY DEF FrameInv, TypeOK, Place, Garbage
<1>4. got' \in Seq(Nat) BY <1>1, <1>2, <1>3, AppendProperties
<1>5. TypeOK' BY <1>1, <1>4 DEF FrameInv, TypeOK
<1>6. SenderPlace' /\ NotAhead' BY <1>1 DEF FrameInv, SenderPlace, NotAhead, FrameBytes
<1>7. ReadBegan' BY <1>1 DEF ReadBegan
<1>8. ASSUME ~torn PROVE InStep' /\ ReaderPlace'
  <2>1. /\ from = [frame |-> Turn, byte |-> SizeBytes + 1] /\ size = sent[Turn]
        /\ pos = [frame |-> Turn + 1, byte |-> 1]
    <3>1. ReaderPlace BY <1>8 DEF FrameInv
    <3>2. ~(have < size) BY <1>1 DEF FrameInv, TypeOK
    <3> QED BY <1>1, <3>1, <3>2 DEF ReaderPlace
  <2>2. AtBody BY <2>1 DEF AtBody
  <2>3. got' = Append(got, Turn) /\ pc' = "idle" BY <1>1, <2>1, <2>2
  <2>4. Turn \in Nat BY <1>2 DEF Turn
  <2>5. /\ Len(got') = Len(got) + 1 /\ DOMAIN got' = 1..(Len(got) + 1)
        /\ \A i \in 1..Len(got) : got'[i] = got[i]
        /\ got'[Len(got) + 1] = Turn
    BY <1>2, <1>4, <2>3, <2>4, AppendProperties
  <2>6. InStep' BY <1>2, <1>8, <2>5 DEF FrameInv, InStep, Turn
  <2>7. ReaderPlace' BY <1>1, <1>2, <2>1, <2>3, <2>5 DEF ReaderPlace, Turn
  <2> QED BY <2>6, <2>7
<1> QED BY <1>1, <1>5, <1>6, <1>7, <1>8 DEF FrameInv

\* A call that fails: harmless between messages, and torn inside a size field.
LEMMA RecvFailsStep ==
  ASSUME FrameInv, RecvSizeFails \/ RecvBodyFails
  PROVE  FrameInv'
<1>1. UNCHANGED <<reader, sent, put, open, from, pos, size, have, got>>
  BY DEF RecvSizeFails, RecvBodyFails
<1>2. TypeOK' BY <1>1 DEF FrameInv, TypeOK, RecvSizeFails, RecvBodyFails
<1>3. SenderPlace' /\ NotAhead' BY <1>1 DEF FrameInv, SenderPlace, NotAhead, FrameBytes
<1>4. ReadBegan' BY DEF ReadBegan, RecvSizeFails, RecvBodyFails
<1>5. ASSUME ~torn' PROVE InStep' /\ ReaderPlace'
  <2>1. CASE RecvSizeFails
    <3>1. pc = "size" /\ pc' = "idle" /\ ~torn /\ have = 0
      <4>1. pc = "size" /\ pc' = "idle" /\ torn' = (torn \/ have > 0)
        BY <2>1 DEF RecvSizeFails
      <4>2. ~torn /\ ~(have > 0) BY <1>5, <4>1
      <4>3. have \in Nat BY DEF FrameInv, TypeOK
      <4> QED BY <4>1, <4>2, <4>3
    <3>2. pos = [frame |-> Turn, byte |-> 1] BY <3>1 DEF FrameInv, ReaderPlace
    <3> QED BY <1>1, <3>1, <3>2 DEF FrameInv, InStep, ReaderPlace, Turn
  <2>2. CASE RecvBodyFails
    BY <1>1, <1>5, <2>2 DEF RecvBodyFails, FrameInv, InStep, ReaderPlace
  <2> QED BY <2>1, <2>2
<1> QED BY <1>2, <1>3, <1>4, <1>5 DEF FrameInv

\* Every step keeps the frame invariant.
LEMMA FrameStep ==
  ASSUME FrameInv, [Next]_vars
  PROVE  FrameInv'
<1>1. CASE SendClose
  <2>1. /\ open' \in BOOLEAN
        /\ UNCHANGED <<reader, sent, put, pc, from, pos, have, size, got, said, torn>>
    BY <1>1 DEF SendClose
  <2>2. TypeOK' BY <2>1 DEF FrameInv, TypeOK
  <2> QED
    BY <2>1, <2>2 DEF FrameInv, SenderPlace, NotAhead, FrameBytes, ReadBegan, InStep,
                      ReaderPlace, Turn
<1>2. CASE UNCHANGED vars
  BY <1>2 DEF vars, FrameInv, TypeOK, SenderPlace, NotAhead, FrameBytes, ReadBegan,
              InStep, ReaderPlace, Turn
<1> QED
  BY <1>1, <1>2, SendBeginStep, SendByteStep, RecvByteStep, RecvCallStep, RecvSizeStep,
     RecvBodyStep, RecvFailsStep
  DEF Next, Recv

\* The reader is never ahead of the sender and, until a size field is torn, is
\* exactly where the number of its messages says.
THEOREM FrameInvariant == Spec => []FrameInv
<1>1. Init => FrameInv
  <2> SUFFICES ASSUME Init PROVE FrameInv
    OBVIOUS
  <2>1. TypeOK
    <3>1. First \in Place BY DEF First, Place
    <3>2. sent \in Seq(Sizes) /\ got \in Seq(Nat) BY DEF Init
    <3> QED BY <3>1, <3>2 DEF Init, TypeOK
  <2>2. SenderPlace /\ NotAhead BY DEF Init, First, SenderPlace, NotAhead
  <2>3. ReadBegan /\ InStep /\ ReaderPlace
    BY DEF Init, First, ReadBegan, InStep, ReaderPlace, Turn
  <2> QED BY <2>1, <2>2, <2>3 DEF FrameInv
<1>2. FrameInv /\ [Next]_vars => FrameInv' BY FrameStep
<1> QED BY <1>1, <1>2, PTL DEF Spec

\* The places of sender and reader are bytes of frames, and counts are naturals.
THEOREM TypeCorrect == Spec => []TypeOK
<1>1. FrameInv => TypeOK BY DEF FrameInv
<1> QED BY <1>1, FrameInvariant, PTL

\* Between two calls the reader is at the start of the next message, so that a
\* call that ended in a timeout can be repeated.
THEOREM RetryIsSafe == Spec => []RetryLosesNothing
<1>1. FrameInv => RetryLosesNothing
  BY DEF FrameInv, ReaderPlace, Turn, RetryLosesNothing
<1> QED BY <1>1, FrameInvariant, PTL

\* No reader in step allocates more than the sender announced.
THEOREM AllocatesOnlyAnnounced == Spec => []AllocatesAnnounced
<1>1. FrameInv => AllocatesAnnounced
  BY DEF FrameInv, ReaderPlace, Turn, AllocatesAnnounced
<1> QED BY <1>1, FrameInvariant, PTL

\* A reader that no call has torn from the frames gets exactly the messages sent.
THEOREM StaysInStep == Spec => []InStep
<1>1. FrameInv => InStep BY DEF FrameInv, InStep
<1> QED BY <1>1, FrameInvariant, PTL

\* Such a reader dies only inside the body of the message whose turn it is.
THEOREM DiesOnlyInsideBody == Spec => DiesInsideBody
<1>1. FrameInv /\ [Next]_vars =>
        [pc # "dead" /\ pc' = "dead" /\ ~torn =>
           /\ pos = put
           /\ pos.frame = Len(got) + 1 /\ pos.frame \in DOMAIN sent
           /\ pos.byte \in (SizeBytes + 1)..FrameBytes(pos.frame)]_vars
  <2> SUFFICES ASSUME FrameInv, Next, pc # "dead", pc' = "dead", ~torn
               PROVE  /\ pos = put
                      /\ pos.frame = Len(got) + 1 /\ pos.frame \in DOMAIN sent
                      /\ pos.byte \in (SizeBytes + 1)..FrameBytes(pos.frame)
    BY DEF vars
  <2>1. ReaderPlace /\ have \in Nat /\ Len(got) \in Nat BY DEF FrameInv, TypeOK
  <2>2. CASE RecvBody
    <3>1. pc = "body" /\ have = size /\ ~AtBody BY <2>2 DEF RecvBody, Wanted
    <3>2. AtBody BY <2>1, <3>1 DEF ReaderPlace, AtBody
    <3> QED BY <3>1, <3>2
  <2>3. CASE RecvBodyFails
    <3>1. pc = "body" /\ have < size /\ pos = put
      BY <2>3 DEF RecvBodyFails, Wanted, ReadEnds, Arrived
    <3>2. /\ Turn \in DOMAIN sent /\ size = sent[Turn]
          /\ pos = [frame |-> Turn, byte |-> SizeBytes + have + 1]
      BY <2>1, <3>1 DEF ReaderPlace
    <3>3. sent[Turn] \in Nat BY <3>2, FrameSize DEF FrameInv
    <3> QED BY <2>1, <3>1, <3>2, <3>3, SizeBytesPositive DEF Turn, FrameBytes
  <2> QED
    BY <2>2, <2>3
    DEF Next, Recv, SendBegin, SendByte, SendClose, RecvCall, RecvByte, RecvSize,
        RecvSizeFails, Begin
<1> QED BY <1>1, FrameInvariant, PTL DEF Spec, DiesInsideBody
=============================================================================
