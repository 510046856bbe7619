--------------------------- MODULE RtuLink_proofs ---------------------------
(***************************************************************************)
(* Theorems about RtuLink for every set of units, every fault of the bus,  *)
(* and answers that may or may not outlive their request.                  *)
(***************************************************************************)
EXTENDS RtuLink, TLAPS

(* The head and the tail of a sequence that is not empty. *)
LEMMA Front ==
  ASSUME NEW S, NEW q \in Seq(S), q # <<>>
  PROVE  /\ Len(q) \in Nat \ {0} /\ Head(q) = q[1] /\ Head(q) \in S
         /\ Tail(q) \in Seq(S) /\ Len(Tail(q)) = Len(q) - 1
         /\ \A i \in 1 .. Len(q) - 1 : Tail(q)[i] = q[i + 1]
  OBVIOUS

(* Appending to a sequence. *)
LEMMA Back ==
  ASSUME NEW S, NEW q \in Seq(S), NEW e \in S
  PROVE  /\ Append(q, e) \in Seq(S) /\ Len(Append(q, e)) = Len(q) + 1 /\ Len(q) \in Nat
         /\ \A i \in 1 .. Len(q) : Append(q, e)[i] = q[i]
         /\ Append(q, e)[Len(q) + 1] = e
  OBVIOUS

(* What a device sends next is part of the same answer. *)
LEMMA AfterType ==
  ASSUME NEW d \in Answers
  PROVE  After(d) \subseteq Answers /\ \A e \in After(d) : e.for = d.for
<1>1. /\ d.for \in Nat /\ d.unit \in Units /\ d.pos \in 1 .. AnswerSize /\ d.copies \in {1, 2}
      /\ d = [for |-> d.for, unit |-> d.unit, pos |-> d.pos, copies |-> d.copies]
  BY DEF Answers
<1>2. CASE d.pos < AnswerSize
  BY <1>1, <1>2 DEF After, Answers, AnswerSize
<1>3. CASE ~ (d.pos < AnswerSize) /\ d.copies > 1
  <2>1. ASSUME NEW c \in {1, 2}, NEW pos \in 1 .. AnswerSize
        PROVE  /\ [d EXCEPT !.pos = pos, !.copies = c] \in Answers
               /\ [d EXCEPT !.pos = pos, !.copies = c].for = d.for
    BY DEF Answers
  <2>2. d.copies - 1 \in {1, 2}
    BY <1>1, <1>3
  <2>3. 1 \in 1 .. AnswerSize
    BY DEF AnswerSize
  <2>4. After(d) = {[d EXCEPT !.pos = 1, !.copies = d.copies - 1]}
    BY <1>3 DEF After
  <2> QED
    BY <2>1, <2>2, <2>3, <2>4
<1>4. CASE ~ (d.pos < AnswerSize) /\ ~ (d.copies > 1)
  BY <1>4 DEF After
<1> QED
  BY <1>2, <1>3, <1>4

(* A byte is sent: what the driver receives is that byte, noise or nothing.*)
LEMMA ByteIsSent ==
  ASSUME TypeOK, DeviceSends
  PROVE  \E d \in devices :
           /\ devices' = (devices \ {d}) \cup After(d)
           /\ \E byte \in Bytes :
                /\ byte = Noise \/ byte.for = d.for
                /\ line' \in {line, Append(line, byte)}
<1>1. PICK d \in devices :
        /\ devices' = (devices \ {d}) \cup After(d)
        /\ LET byte == [for |-> d.for, pos |-> d.pos, unit |-> d.unit]
           IN  \/ /\ line' = IF fd_ THEN Append(line, byte) ELSE line
                  /\ UNCHANGED harm
               \/ /\ faults < MaxFaults /\ faults' = faults + 1
                  /\ \/ "noise" \in Faults /\ line' = (IF fd_ THEN Append(line, Noise) ELSE line)
                     \/ "lost" \in Faults /\ UNCHANGED line
  BY DEF DeviceSends
<1> DEFINE byte == [for |-> d.for, pos |-> d.pos, unit |-> d.unit]
<1>2. byte \in Bytes /\ byte.for = d.for
  BY DEF TypeOK, Answers, Bytes, AnswerSize
<1>3. Noise \in Bytes
  BY DEF Noise, Bytes, AnswerSize
<1>4. line' \in {line, Append(line, byte), Append(line, Noise)}
  BY <1>1
<1> QED
  BY <1>1, <1>2, <1>3, <1>4

(* What the parts of an invariant say of the bytes. *)
LEMMA BytesFit ==
  ASSUME TypeOK
  PROVE  /\ line \in Seq(Bytes) /\ resp \in Seq(Bytes) /\ <<>> \in Seq(Bytes)
         /\ Len(line) \in Nat /\ Len(resp) \in Nat
         /\ \A i \in 1 .. Len(line) : line[i] \in Bytes
         /\ \A i \in 1 .. Len(resp) : resp[i] \in Bytes
         /\ transacts \in Nat /\ devices \subseteq Answers /\ unitId \in Units
  BY DEF TypeOK

(* Each step keeps the types. *)
LEMMA TypesStep ==
  ASSUME TypeOK, PortIsHeldOnce, [Next]_vars
  PROVE  TypeOK'
<1> USE DEF results, counts, harm, Return, Fail, close, Opening, Exchanging, TypeOK
<1>0. /\ (IF fd_ THEN ports - 1 ELSE ports) \in Nat /\ <<>> \in Seq(Bytes)
      /\ (IF fd_ THEN <<>> ELSE line) \in Seq(Bytes)
  BY DEF PortIsHeldOnce, isOpen
<1>1. CASE CallOpen
  BY <1>1, <1>0 DEF CallOpen
<1>2. CASE CallTransact
  BY <1>2 DEF CallTransact, NoReply
<1>3. CASE Close
  BY <1>3, <1>0 DEF Close
<1>4. CASE Reopen
  BY <1>4, <1>0 DEF Reopen
<1>5. CASE NoDevice
  BY <1>5, <1>0 DEF NoDevice
<1>6. CASE Device
  BY <1>6, <1>0 DEF Device
<1>7. CASE NotConfigured
  BY <1>7, <1>0 DEF NotConfigured
<1>8. CASE Configured
  BY <1>8, <1>0 DEF Configured
<1>9. CASE NotOpen
  BY <1>9, <1>0 DEF NotOpen
<1>10. CASE Silence
  BY <1>10, <1>0 DEF Silence
<1>11. CASE Flush
  BY <1>11, <1>0 DEF Flush
<1>12. CASE Send
  <2>1. PICK unit \in Units, copies \in {1, 2} :
          /\ devices' = devices \cup {[for |-> transacts, unit |-> unit, pos |-> 1, copies |-> copies]}
          /\ disturbed' = (unit # unitId \/ copies > 1)
    BY <1>12 DEF Send
  <2>2. [for |-> transacts, unit |-> unit, pos |-> 1, copies |-> copies] \in Answers
    BY DEF Answers, AnswerSize
  <2>3. devices' \subseteq Answers
    BY <2>1, <2>2
  <2>4. disturbed' \in BOOLEAN
    BY <2>1
  <2> QED
    BY <1>12, <2>3, <2>4 DEF Send
<1>13. CASE SendFails
  BY <1>13, <1>0 DEF SendFails
<1>14. CASE TimesOut
  BY <1>14, <1>0 DEF TimesOut
<1>15. CASE Receive
  <2>1. Head(line) \in Bytes /\ Tail(line) \in Seq(Bytes)
    BY <1>15, Front DEF Receive
  <2>2. Append(resp, Head(line)) \in Seq(Bytes)
    BY <2>1, Back
  <2> QED
    BY <1>15, <2>1, <2>2 DEF Receive
<1>16. CASE EndOfFrame
  BY <1>16, <1>0 DEF EndOfFrame
<1>17. CASE TooShort
  BY <1>17, <1>0 DEF TooShort
<1>18. CASE Reject
  BY <1>18, <1>0 DEF Reject
<1>19. CASE Answered
  <2>1. resp[1] \in Bytes
    BY <1>19 DEF Answered, MinSize
  <2>2. resp[1].for \in Nat
    BY <2>1 DEF Bytes
  <2> QED
    BY <1>19, <2>2 DEF Answered
<1>20. CASE DeviceSends
  <2>1. PICK d \in devices, byte \in Bytes : /\ devices' = (devices \ {d}) \cup After(d)
                                            /\ line' \in {line, Append(line, byte)}
    BY <1>20, ByteIsSent
  <2>2. After(d) \subseteq Answers
    BY AfterType
  <2>3. line' \in Seq(Bytes)
    <3>1. Append(line, byte) \in Seq(Bytes)
      BY Back
    <3> QED
      BY <2>1, <3>1
  <2>4. faults' \in Nat
    BY <1>20 DEF DeviceSends
  <2>5. devices' \subseteq Answers
    BY <2>1, <2>2
  <2>6. disturbed' \in BOOLEAN
    BY <1>20 DEF DeviceSends
  <2> QED
    BY <1>20, <2>3, <2>4, <2>5, <2>6 DEF DeviceSends
<1>21. CASE DeviceIsSilent
  BY <1>21, <1>0 DEF DeviceIsSilent
<1>22. CASE UNCHANGED vars
  BY <1>22, <1>0 DEF vars
<1> QED
  BY <1>1, <1>2, <1>3, <1>4, <1>5, <1>6, <1>7, <1>8, <1>9, <1>10, <1>11, <1>12, <1>13,
     <1>14, <1>15, <1>16, <1>17, <1>18, <1>19, <1>20, <1>21, <1>22
     DEF Next, OpenStep, TransactStep

(* Each step keeps the account of the port, and has the port open where it *)
(* uses it.                                                                *)
LEMMA PortStep ==
  ASSUME TypeOK, PortIsHeldOnce, PlaceFitsThePort, [Next]_vars
  PROVE  PortIsHeldOnce' /\ PlaceFitsThePort'
<1> USE DEF results, counts, harm, Return, Fail, close, Opening, Exchanging, Connected,
      PortIsHeldOnce, PlaceFitsThePort, isOpen
<1>0. fd_ \in BOOLEAN /\ pc \in {"idle"} \cup Opening \cup Exchanging
  BY DEF TypeOK
<1>1. CASE CallOpen
  BY <1>1, <1>0 DEF CallOpen
<1>2. CASE CallTransact
  BY <1>2, <1>0 DEF CallTransact
<1>3. CASE Close
  BY <1>3, <1>0 DEF Close
<1>4. CASE Reopen
  BY <1>4, <1>0 DEF Reopen
<1>5. CASE NoDevice
  BY <1>5, <1>0 DEF NoDevice
<1>6. CASE Device
  BY <1>6, <1>0 DEF Device
<1>7. CASE NotConfigured
  BY <1>7, <1>0 DEF NotConfigured
<1>8. CASE Configured
  BY <1>8, <1>0 DEF Configured
<1>9. CASE NotOpen
  BY <1>9, <1>0 DEF NotOpen
<1>10. CASE Silence
  BY <1>10, <1>0 DEF Silence
<1>11. CASE Flush
  BY <1>11, <1>0 DEF Flush
<1>12. CASE Send
  BY <1>12, <1>0 DEF Send
<1>13. CASE SendFails
  BY <1>13, <1>0 DEF SendFails
<1>14. CASE TimesOut
  BY <1>14, <1>0 DEF TimesOut
<1>15. CASE Receive
  BY <1>15, <1>0 DEF Receive
<1>16. CASE EndOfFrame
  BY <1>16, <1>0 DEF EndOfFrame
<1>17. CASE TooShort
  BY <1>17, <1>0 DEF TooShort
<1>18. CASE Reject
  BY <1>18, <1>0 DEF Reject
<1>19. CASE Answered
  BY <1>19, <1>0 DEF Answered
<1>20. CASE DeviceSends
  BY <1>20, <1>0 DEF DeviceSends
<1>21. CASE DeviceIsSilent
  BY <1>21, <1>0 DEF DeviceIsSilent
<1>22. CASE UNCHANGED vars
  BY <1>22, <1>0 DEF vars
<1> QED
  BY <1>1, <1>2, <1>3, <1>4, <1>5, <1>6, <1>7, <1>8, <1>9, <1>10, <1>11, <1>12, <1>13,
     <1>14, <1>15, <1>16, <1>17, <1>18, <1>19, <1>20, <1>21, <1>22
     DEF Next, OpenStep, TransactStep

(* When no answer outlives its request, what is received is of this        *)
(* request.                                                                *)
LEMMA LateStep ==
  ASSUME TypeOK, PlaceFitsThePort, NothingIsLate, [Next]_vars
  PROVE  NothingIsLate'
<1> USE DEF results, counts, harm, Return, Fail, close, Awaiting, Connected, IsFresh
<1>0. ~AnswersLate /\ pc \in Awaiting =>
        /\ \A d \in devices : d.for = transacts
        /\ \A i \in 1 .. Len(line) : IsFresh(line[i])
        /\ \A i \in 1 .. Len(resp) : IsFresh(resp[i])
  BY DEF NothingIsLate
<1>1. CASE CallOpen
  BY <1>1, <1>0 DEF CallOpen, NothingIsLate
<1>2. CASE CallTransact
  BY <1>2, <1>0 DEF CallTransact, NothingIsLate
<1>3. CASE Close
  BY <1>3, <1>0 DEF Close, NothingIsLate
<1>4. CASE Reopen
  BY <1>4, <1>0 DEF Reopen, NothingIsLate
<1>5. CASE NoDevice
  BY <1>5, <1>0 DEF NoDevice, NothingIsLate
<1>6. CASE Device
  BY <1>6, <1>0 DEF Device, NothingIsLate
<1>7. CASE NotConfigured
  BY <1>7, <1>0 DEF NotConfigured, NothingIsLate
<1>8. CASE Configured
  BY <1>8, <1>0 DEF Configured, NothingIsLate
<1>9. CASE NotOpen
  BY <1>9, <1>0 DEF NotOpen, NothingIsLate
<1>10. CASE Silence
  BY <1>10, <1>0 DEF Silence, NothingIsLate
<1>11. CASE Flush
  <2>1. resp = <<>> /\ resp' = <<>> /\ line' = <<>> /\ (~AnswersLate => devices' = {})
    BY <1>11 DEF Flush, PlaceFitsThePort
  <2> QED
    BY <2>1 DEF NothingIsLate
<1>12. CASE Send
  <2>1. PICK unit \in Units, copies \in {1, 2} :
          devices' = devices \cup {[for |-> transacts, unit |-> unit, pos |-> 1, copies |-> copies]}
    BY <1>12, BytesFit DEF Send
  <2>2. UNCHANGED <<transacts, line, resp>> /\ pc \in Awaiting
    BY <1>12 DEF Send
  <2> QED
    BY <1>0, <2>1, <2>2 DEF NothingIsLate
<1>13. CASE SendFails
  BY <1>13, <1>0 DEF SendFails, NothingIsLate
<1>14. CASE TimesOut
  BY <1>14, <1>0 DEF TimesOut, NothingIsLate
<1>15. CASE Receive
  <2>1. UNCHANGED <<transacts, devices>> /\ pc \in Awaiting /\ line # <<>>
        /\ resp' = Append(resp, Head(line)) /\ line' = Tail(line)
    BY <1>15 DEF Receive
  <2>2. Len(line) \in Nat \ {0} /\ Head(line) = line[1] /\ Head(line) \in Bytes
        /\ Len(line') = Len(line) - 1 /\ \A i \in 1 .. Len(line') : line'[i] = line[i + 1]
    BY <2>1, BytesFit, Front
  <2>3. Len(resp) \in Nat /\ Len(resp') = Len(resp) + 1 /\ resp'[Len(resp) + 1] = line[1]
        /\ \A i \in 1 .. Len(resp) : resp'[i] = resp[i]
    BY <2>1, <2>2, BytesFit, Back
  <2> SUFFICES ASSUME ~AnswersLate
               PROVE  /\ \A i \in 1 .. Len(line') : IsFresh(line[i])'
                      /\ \A i \in 1 .. Len(resp') : IsFresh(resp[i])'
    BY <1>0, <2>1 DEF NothingIsLate
  <2>4. /\ \A i \in 1 .. Len(line) : IsFresh(line[i])
        /\ \A i \in 1 .. Len(resp) : IsFresh(resp[i])
    BY <1>0, <2>1
  <2>5. \A i \in 1 .. Len(line') : IsFresh(line[i])'
    BY <2>1, <2>2, <2>4
  <2>6. \A i \in 1 .. Len(resp') : IsFresh(resp[i])'
    <3> TAKE i \in 1 .. Len(resp')
    <3>1. CASE i \in 1 .. Len(resp)
      BY <2>1, <2>3, <2>4, <3>1
    <3>2. CASE i = Len(resp) + 1
      BY <2>1, <2>2, <2>3, <2>4, <3>2
    <3> QED
      BY <2>3, <3>1, <3>2
  <2> QED
    BY <2>5, <2>6
<1>16. CASE EndOfFrame
  BY <1>16, <1>0 DEF EndOfFrame, NothingIsLate
<1>17. CASE TooShort
  BY <1>17, <1>0 DEF TooShort, NothingIsLate
<1>18. CASE Reject
  BY <1>18, <1>0 DEF Reject, NothingIsLate
<1>19. CASE Answered
  BY <1>19, <1>0 DEF Answered, NothingIsLate
<1>20. CASE DeviceSends
  <2>0. UNCHANGED <<transacts, resp, pc>>
    BY <1>20 DEF DeviceSends
  <2> SUFFICES ASSUME ~AnswersLate, pc \in Awaiting
               PROVE  /\ \A e \in devices' : e.for = transacts
                      /\ \A i \in 1 .. Len(line') : IsFresh(line[i])'
    BY <1>0, <2>0 DEF NothingIsLate
  <2>1. PICK d \in devices : /\ devices' = (devices \ {d}) \cup After(d)
                             /\ \E byte \in Bytes :
                                  /\ byte = Noise \/ byte.for = d.for
                                  /\ line' \in {line, Append(line, byte)}
    BY <1>20, ByteIsSent
  <2>2. d \in Answers /\ d.for = transacts
    BY <1>0, BytesFit
  <2>3. \A e \in devices' : e.for = transacts
    BY <1>0, <2>1, <2>2, AfterType
  <2>4. PICK byte \in Bytes : IsFresh(byte) /\ line' \in {line, Append(line, byte)}
    BY <2>1, <2>2
  <2>5. \A i \in 1 .. Len(line) : IsFresh(line[i])
    BY <1>0
  <2>6. \A i \in 1 .. Len(line') : IsFresh(line[i])'
    <3>1. CASE line' = line
      BY <2>0, <2>5, <3>1
    <3>2. CASE line' = Append(line, byte)
      <4>1. Len(line) \in Nat /\ Len(line') = Len(line) + 1 /\ line'[Len(line) + 1] = byte
            /\ \A i \in 1 .. Len(line) : line'[i] = line[i]
        BY <3>2, BytesFit, Back
      <4> TAKE i \in 1 .. Len(line')
      <4>2. CASE i \in 1 .. Len(line)
        BY <2>0, <2>5, <4>1, <4>2
      <4>3. CASE i = Len(line) + 1
        BY <2>0, <2>4, <4>1, <4>3
      <4> QED
        BY <4>1, <4>2, <4>3
    <3> QED
      BY <2>4, <3>1, <3>2
  <2> QED
    BY <2>3, <2>6
<1>21. CASE DeviceIsSilent
  BY <1>21, <1>0 DEF DeviceIsSilent, NothingIsLate
<1>22. CASE UNCHANGED vars
  BY <1>22, <1>0 DEF vars, NothingIsLate
<1> QED
  BY <1>1, <1>2, <1>3, <1>4, <1>5, <1>6, <1>7, <1>8, <1>9, <1>10, <1>11, <1>12, <1>13,
     <1>14, <1>15, <1>16, <1>17, <1>18, <1>19, <1>20, <1>21, <1>22
     DEF Next, OpenStep, TransactStep

(* A byte that is sent in peace arrives as it was sent. *)
LEMMA ByteArrives ==
  ASSUME DeviceSends, fd_, ~disturbed'
  PROVE  /\ ~disturbed
         /\ \E d \in devices :
              /\ devices' = (devices \ {d}) \cup After(d)
              /\ line' = Append(line, [for |-> d.for, pos |-> d.pos, unit |-> d.unit])
  BY DEF DeviceSends, harm

(* The one device that answers in peace: there is no other, and it ends    *)
(* with the last byte.                                                     *)
LEMMA OneDevice ==
  ASSUME TypeOK, NEW d \in devices, NEW n \in Nat,
         \A e \in devices : IsRest(e, n)
  PROVE  /\ n \in 1 .. AnswerSize
         /\ \A e \in (devices \ {d}) \cup After(d) : IsRest(e, n + 1)
         /\ (devices \ {d}) \cup After(d) = {} => n = AnswerSize
<1>1. \A e \in devices : e = [for |-> e.for, unit |-> e.unit, pos |-> e.pos, copies |-> e.copies]
                         /\ e.pos \in 1 .. AnswerSize
  BY DEF TypeOK, Answers
<1>2. \A e \in devices : e = [for |-> transacts, unit |-> unitId, pos |-> n, copies |-> 1]
  BY <1>1 DEF IsRest
<1>3. devices = {d} /\ d.pos = n /\ d.copies = 1 /\ n \in 1 .. AnswerSize /\ IsRest(d, n)
  BY <1>1, <1>2
<1>4. CASE n < AnswerSize
  <2>1. After(d) = {[d EXCEPT !.pos = n + 1]}
    BY <1>3, <1>4 DEF After
  <2>2. IsRest([d EXCEPT !.pos = n + 1], n + 1)
    BY <1>1, <1>3 DEF IsRest
  <2> QED
    BY <1>3, <2>1, <2>2
<1>5. CASE ~(n < AnswerSize)
  <2>1. After(d) = {}
    BY <1>3, <1>5 DEF After
  <2> QED
    BY <1>3, <1>5, <2>1 DEF AnswerSize
<1> QED
  BY <1>4, <1>5

(* What has come of an answer in peace stays part of it. *)
LEMMA PeaceStep ==
  ASSUME TypeOK, PlaceFitsThePort, NothingIsInTheWay, [Next]_vars
  PROVE  NothingIsInTheWay'
<1> DEFINE Peace == ~AnswersLate /\ ~disturbed /\ pc \in {"first", "rest", "check"}
<1> USE DEF results, counts, harm, Return, Fail, close
<1>0. Peace =>
        /\ fd_
        /\ \A i \in 1 .. Len(resp) : IsByte(resp[i], i)
        /\ \A i \in 1 .. Len(line) : IsByte(line[i], Len(resp) + i)
        /\ \A d \in devices : IsRest(d, Len(resp) + Len(line) + 1)
        /\ devices = {} => Len(resp) + Len(line) = AnswerSize
        /\ pc = "check" => line = <<>> /\ devices = {}
  BY DEF NothingIsInTheWay, PlaceFitsThePort, Connected
<1>1. CASE CallOpen
  BY <1>1 DEF CallOpen, NothingIsInTheWay
<1>2. CASE CallTransact
  BY <1>2 DEF CallTransact, NothingIsInTheWay
<1>3. CASE Close
  BY <1>3 DEF Close, NothingIsInTheWay
<1>4. CASE Reopen
  BY <1>4 DEF Reopen, NothingIsInTheWay
<1>5. CASE NoDevice
  BY <1>5 DEF NoDevice, NothingIsInTheWay
<1>6. CASE Device
  BY <1>6 DEF Device, NothingIsInTheWay
<1>7. CASE NotConfigured
  BY <1>7 DEF NotConfigured, NothingIsInTheWay
<1>8. CASE Configured
  BY <1>8 DEF Configured, NothingIsInTheWay
<1>9. CASE NotOpen
  BY <1>9 DEF NotOpen, NothingIsInTheWay
<1>10. CASE Silence
  BY <1>10 DEF Silence, NothingIsInTheWay
<1>11. CASE Flush
  BY <1>11 DEF Flush, NothingIsInTheWay
<1>12. CASE Send
  <2> SUFFICES ASSUME ~AnswersLate, ~disturbed'
               PROVE  /\ resp' = <<>> /\ line' = <<>> /\ devices' # {}
                      /\ \A d \in devices' : IsRest(d, 1)'
    BY <1>12 DEF Send, NothingIsInTheWay
  <2>1. resp' = <<>> /\ line' = <<>> /\ devices = {} /\ UNCHANGED <<transacts, unitId>>
    BY <1>12 DEF Send, NothingIsInTheWay, PlaceFitsThePort
  <2>2. PICK unit \in Units, copies \in {1, 2} :
          /\ devices' = devices \cup {[for |-> transacts, unit |-> unit, pos |-> 1, copies |-> copies]}
          /\ disturbed' = (unit # unitId \/ copies > 1)
    BY <1>12, BytesFit DEF Send
  <2>3. unit = unitId /\ ~ (copies > 1)
    BY <2>2, Zenon
  <2>4. copies = 1
    BY <2>3
  <2>5. devices' = {[for |-> transacts, unit |-> unitId, pos |-> 1, copies |-> 1]}
    BY <2>1, <2>2, <2>3, <2>4
  <2> QED
    BY <2>1, <2>5 DEF IsRest
<1>13. CASE SendFails
  BY <1>13 DEF SendFails, NothingIsInTheWay
<1>14. CASE TimesOut
  BY <1>14 DEF TimesOut, NothingIsInTheWay
<1>15. CASE Receive
  <2>1. /\ UNCHANGED <<transacts, unitId, devices, disturbed>> /\ line # <<>>
        /\ pc \in {"first", "rest"} /\ pc' = "rest"
        /\ resp' = Append(resp, Head(line)) /\ line' = Tail(line)
    BY <1>15 DEF Receive
  <2>2. Len(line) \in Nat \ {0} /\ Head(line) = line[1] /\ Head(line) \in Bytes
        /\ Len(line') = Len(line) - 1 /\ \A i \in 1 .. Len(line') : line'[i] = line[i + 1]
    BY <2>1, BytesFit, Front
  <2>3. Len(resp) \in Nat /\ Len(resp') = Len(resp) + 1 /\ resp'[Len(resp) + 1] = line[1]
        /\ \A i \in 1 .. Len(resp) : resp'[i] = resp[i]
    BY <2>1, <2>2, BytesFit, Back
  <2> SUFFICES ASSUME Peace
               PROVE  /\ \A i \in 1 .. Len(resp') : IsByte(resp'[i], i)
                      /\ \A i \in 1 .. Len(line') : IsByte(line'[i], Len(resp') + i)
                      /\ \A d \in devices : IsRest(d, Len(resp') + Len(line') + 1)
                      /\ devices = {} => Len(resp') + Len(line') = AnswerSize
    BY <2>1 DEF NothingIsInTheWay, IsByte, IsRest
  <2>4. Len(resp') + Len(line') = Len(resp) + Len(line)
    BY <2>2, <2>3
  <2>5. \A i \in 1 .. Len(resp') : IsByte(resp'[i], i)
    <3> TAKE i \in 1 .. Len(resp')
    <3>1. CASE i \in 1 .. Len(resp)
      BY <1>0, <2>3, <3>1
    <3>2. CASE i = Len(resp) + 1
      <4>1. 1 \in 1 .. Len(line) /\ IsByte(line[1], Len(resp) + 1)
        BY <1>0, <2>2
      <4> QED
        BY <2>3, <3>2, <4>1
    <3> QED
      BY <2>3, <3>1, <3>2
  <2>6. \A i \in 1 .. Len(line') : IsByte(line'[i], Len(resp') + i)
    <3> TAKE i \in 1 .. Len(line')
    <3>1. i + 1 \in 1 .. Len(line) /\ Len(resp') + i = Len(resp) + (i + 1)
      BY <2>2, <2>3
    <3>2. IsByte(line[i + 1], Len(resp) + (i + 1))
      BY <1>0, <3>1
    <3> QED
      BY <2>2, <3>1, <3>2
  <2> QED
    BY <1>0, <2>4, <2>5, <2>6
<1>16. CASE EndOfFrame
  BY <1>16, <1>0 DEF EndOfFrame, NothingIsInTheWay, IsByte, IsRest
<1>17. CASE TooShort
  BY <1>17 DEF TooShort, NothingIsInTheWay
<1>18. CASE Reject
  BY <1>18 DEF Reject, NothingIsInTheWay
<1>19. CASE Answered
  BY <1>19 DEF Answered, NothingIsInTheWay
<1>20. CASE DeviceSends
  <2>0. UNCHANGED <<transacts, unitId, resp, pc>>
    BY <1>20 DEF DeviceSends
  <2>1. devices # {}
    BY <1>20 DEF DeviceSends
  <2>2. ~AnswersLate => pc # "send"
    BY <2>1 DEF NothingIsInTheWay
  <2> SUFFICES ASSUME ~AnswersLate, ~disturbed', pc \in {"first", "rest", "check"}
               PROVE  /\ \A i \in 1 .. Len(resp) : IsByte(resp[i], i)
                      /\ \A i \in 1 .. Len(line') : IsByte(line'[i], Len(resp) + i)
                      /\ \A d \in devices' : IsRest(d, Len(resp) + Len(line') + 1)
                      /\ devices' = {} => Len(resp) + Len(line') = AnswerSize
                      /\ pc # "check"
    BY <2>0, <2>2 DEF NothingIsInTheWay, IsByte, IsRest
  <2>3. fd_ /\ ~disturbed /\ Peace
    BY <1>20, ByteArrives DEF PlaceFitsThePort, Connected
  <2>4. PICK d \in devices :
          /\ devices' = (devices \ {d}) \cup After(d)
          /\ line' = Append(line, [for |-> d.for, pos |-> d.pos, unit |-> d.unit])
    BY <1>20, <2>3, ByteArrives
  <2>5. PICK n \in Nat : n = Len(resp) + Len(line) + 1
    BY BytesFit
  <2>6. /\ \A e \in devices : IsRest(e, n)
        /\ \A i \in 1 .. Len(resp) : IsByte(resp[i], i)
        /\ \A i \in 1 .. Len(line) : IsByte(line[i], Len(resp) + i)
        /\ pc # "check"
    BY <1>0, <2>1, <2>3, <2>5
  <2>7. /\ \A e \in devices' : IsRest(e, n + 1)
        /\ devices' = {} => n = AnswerSize
    BY <2>4, <2>6, OneDevice
  <2>8. PICK byte : byte = [for |-> d.for, pos |-> d.pos, unit |-> d.unit]
    OBVIOUS
  <2>9. byte \in Bytes /\ IsByte(byte, n)
    <3>1. d \in Answers /\ IsRest(d, n)
      BY <2>6, BytesFit
    <3> QED
      BY <2>8, <3>1 DEF IsRest, IsByte, Answers, Bytes
  <2>10. /\ Len(line) \in Nat /\ Len(resp) \in Nat
         /\ Len(line') = Len(line) + 1 /\ line'[Len(line) + 1] = byte
         /\ \A i \in 1 .. Len(line) : line'[i] = line[i]
    BY <2>4, <2>8, <2>9, BytesFit, Back
  <2>11. n = Len(resp) + Len(line') /\ n = Len(resp) + (Len(line) + 1)
    BY <2>5, <2>10
  <2>12. \A i \in 1 .. Len(line') : IsByte(line'[i], Len(resp) + i)
    <3> TAKE i \in 1 .. Len(line')
    <3>1. CASE i \in 1 .. Len(line)
      BY <2>6, <2>10, <3>1
    <3>2. CASE i = Len(line) + 1
      BY <2>9, <2>10, <2>11, <3>2
    <3> QED
      BY <2>10, <3>1, <3>2
  <2> QED
    BY <2>6, <2>7, <2>11, <2>12
<1>21. CASE DeviceIsSilent
  <2>1. UNCHANGED <<pc, line>> /\ disturbed' = TRUE /\ devices # {}
    BY <1>21 DEF DeviceIsSilent
  <2> QED
    BY <2>1 DEF NothingIsInTheWay
<1>22. CASE UNCHANGED vars
  BY <1>22 DEF vars, NothingIsInTheWay, IsByte, IsRest
<1> QED
  BY <1>1, <1>2, <1>3, <1>4, <1>5, <1>6, <1>7, <1>8, <1>9, <1>10, <1>11, <1>12, <1>13,
     <1>14, <1>15, <1>16, <1>17, <1>18, <1>19, <1>20, <1>21, <1>22
     DEF Next, OpenStep, TransactStep

(* If no answer is late, a reply is for this request.                      *)
LEMMA ReplyStep ==
  ASSUME TypeOK, NothingIsLate, ReplyFits, [Next]_vars
  PROVE  ReplyFits'
<1> USE DEF results, counts, harm, Return, Fail, close, NoReply, ReplyFits
<1>1. CASE CallOpen
  BY <1>1 DEF CallOpen
<1>2. CASE CallTransact
  BY <1>2 DEF CallTransact
<1>3. CASE Close
  BY <1>3 DEF Close
<1>4. CASE Reopen
  BY <1>4 DEF Reopen
<1>5. CASE NoDevice
  BY <1>5 DEF NoDevice
<1>6. CASE Device
  BY <1>6 DEF Device
<1>7. CASE NotConfigured
  BY <1>7 DEF NotConfigured
<1>8. CASE Configured
  BY <1>8 DEF Configured
<1>9. CASE NotOpen
  BY <1>9 DEF NotOpen
<1>10. CASE Silence
  BY <1>10 DEF Silence
<1>11. CASE Flush
  BY <1>11 DEF Flush
<1>12. CASE Send
  BY <1>12 DEF Send
<1>13. CASE SendFails
  BY <1>13 DEF SendFails
<1>14. CASE TimesOut
  BY <1>14 DEF TimesOut
<1>15. CASE Receive
  BY <1>15 DEF Receive
<1>16. CASE EndOfFrame
  BY <1>16 DEF EndOfFrame
<1>17. CASE TooShort
  BY <1>17 DEF TooShort
<1>18. CASE Reject
  BY <1>18 DEF Reject
<1>19. CASE Answered
  <2>1. resp[1] \in Bytes /\ resp[1].pos = 1 /\ 1 \in 1 .. Len(resp)
    BY <1>19, BytesFit DEF Answered, Intact, AnswerSize, MinSize
  <2>2. ~AnswersLate => IsFresh(resp[1])
    BY <1>19, <2>1 DEF Answered, NothingIsLate, Awaiting
  <2>3. ~AnswersLate => resp[1].for = transacts
    BY <2>1, <2>2 DEF IsFresh, Noise
  <2> QED
    BY <1>19, <2>1, <2>3 DEF Answered
<1>20. CASE DeviceSends
  BY <1>20 DEF DeviceSends
<1>21. CASE DeviceIsSilent
  BY <1>21 DEF DeviceIsSilent
<1>22. CASE UNCHANGED vars
  BY <1>22 DEF vars
<1> QED
  BY <1>1, <1>2, <1>3, <1>4, <1>5, <1>6, <1>7, <1>8, <1>9, <1>10, <1>11, <1>12, <1>13,
     <1>14, <1>15, <1>16, <1>17, <1>18, <1>19, <1>20, <1>21, <1>22
     DEF Next, OpenStep, TransactStep

(* The link begins in the invariant. *)
LEMMA InitialInv == Init => IInv
<1> SUFFICES ASSUME Init PROVE IInv
  OBVIOUS
<1>0. <<>> \in Seq(Bytes) /\ NoReply \in Nat
  BY DEF NoReply
<1>1. TypeOK
  BY <1>0 DEF Init, TypeOK
<1>2. PortIsHeldOnce /\ PlaceFitsThePort
  BY DEF Init, PortIsHeldOnce, isOpen, PlaceFitsThePort, Connected
<1>3. NothingIsLate /\ NothingIsInTheWay /\ ReplyFits
  BY DEF Init, NothingIsLate, Awaiting, NothingIsInTheWay, ReplyFits
<1> QED
  BY <1>1, <1>2, <1>3 DEF IInv

(* Each step keeps the invariant. *)
LEMMA NextInv == IInv /\ [Next]_vars => IInv'
  BY TypesStep, PortStep, LateStep, PeaceStep, ReplyStep DEF IInv

(* The inductive invariant holds in every reachable state. *)
THEOREM Invariance == Safety => []IInv
  BY InitialInv, NextInv, PTL DEF Safety

(* Every variable of the link keeps its type. *)
THEOREM TypeCorrectness == Safety => []TypeOK
<1>1. IInv => TypeOK
  BY DEF IInv
<1> QED
  BY <1>1, Invariance, PTL

(* No path through open(), close() or a failed transact() leaves the port  *)
(* held or closes it twice (rtu_link.cpp:84-133).                          *)
THEOREM PortIsSafe == Safety => []PortIsHeldOnce
<1>1. IInv => PortIsHeldOnce
  BY DEF IInv
<1> QED
  BY <1>1, Invariance, PTL

(* When no answer outlives its request, none is taken for the answer to    *)
(* another one: the flush before a request is enough (rtu_link.cpp:276).   *)
THEOREM RepliesAreForTheRequest ==
  ASSUME ~AnswersLate
  PROVE  Safety => []ReplyIsForThisRequest
<1>1. IInv => ReplyIsForThisRequest
  BY DEF IInv, ReplyFits, ReplyIsForThisRequest
<1> QED
  BY <1>1, Invariance, PTL

(* A frame that is looked at in peace is whole and from the unit asked.    *)
LEMMA PeacefulFrame ==
  ASSUME IInv, ~AnswersLate, pc = "check", ~disturbed
  PROVE  Len(resp) = AnswerSize /\ Intact /\ Addressed
<1>1. /\ \A i \in 1 .. Len(resp) : IsByte(resp[i], i)
      /\ devices = {} => Len(resp) + Len(line) = AnswerSize
      /\ line = <<>> /\ devices = {}
  BY DEF IInv, NothingIsInTheWay
<1>2. Len(resp) = AnswerSize
  BY <1>1, BytesFit DEF IInv
<1>3. \A i \in 1 .. AnswerSize : IsByte(resp[i], i)
  BY <1>1, <1>2
<1>4. 1 \in 1 .. AnswerSize
  BY DEF AnswerSize
<1> QED
  BY <1>2, <1>3, <1>4 DEF IsByte, Intact, Addressed

(* When no answer outlives its request, an exchange that is left in peace  *)
(* succeeds, whatever noise, cuts and repetitions have spoilt before it    *)
(* (rtu_link.cpp:276-281, 300-332).                                        *)
THEOREM PeaceIsEnough ==
  ASSUME ~AnswersLate
  PROVE  Safety => PeacefulExchangesSucceed
<1>1. ASSUME IInv, [Next]_vars, pc = "check", pc' = "idle", ~disturbed
      PROVE  outcome' = "None"
  <2>1. Len(resp) = AnswerSize /\ Intact /\ Addressed
    BY <1>1, PeacefulFrame
  <2>2. ~TooShort /\ ~Reject
    BY <2>1 DEF TooShort, Reject, AnswerSize, MinSize
  <2>3. Answered
    <3> USE DEF results, counts, harm, Return, Fail
    <3>1. pc # "open" /\ pc # "device" /\ pc # "configure" /\ pc # "idle" /\ pc # "port"
          /\ pc # "flush" /\ pc # "send" /\ pc \notin {"first", "rest"} /\ pc' # pc
      BY <1>1
    <3>2. ~OpenStep /\ ~CallOpen /\ ~CallTransact /\ ~Close
      BY <3>1 DEF OpenStep, Reopen, NoDevice, Device, NotConfigured, Configured,
                  CallOpen, CallTransact, Close
    <3>3. ~(NotOpen \/ Silence \/ Flush \/ Send \/ SendFails \/ TimesOut \/ Receive \/ EndOfFrame)
      BY <3>1 DEF NotOpen, Silence, Flush, Send, SendFails, TimesOut, Receive, EndOfFrame
    <3>4. ~DeviceSends /\ ~DeviceIsSilent /\ ~UNCHANGED vars
      BY <3>1 DEF DeviceSends, DeviceIsSilent, vars
    <3> QED
      BY <1>1, <2>2, <3>2, <3>3, <3>4 DEF Next, TransactStep
  <2> QED
    BY <2>3 DEF Answered, Return
<1>2. IInv /\ [Next]_vars
      => [pc = "check" /\ pc' = "idle" /\ ~disturbed => outcome' = "None"]_vars
  BY <1>1
<1> QED
  BY <1>2, Invariance, PTL DEF Safety, PeacefulExchangesSucceed

(* A step of RtuLink is a step of Link, or none of its variables changes.  *)
LEMMA LinkStep == IInv /\ [Next]_vars => [L!LinkNext]_L!linkVars
<1> SUFFICES ASSUME IInv, [Next]_vars PROVE [L!LinkNext]_L!linkVars
  OBVIOUS
<1> DEFINE callOf(p) == CASE p = "idle"       -> "none"
                          [] p \in Opening    -> "open"
                          [] p \in Exchanging -> "transact"
<1>c. /\ callOf("idle") = "none"
      /\ \A p \in Opening : callOf(p) = "open"
      /\ \A p \in Exchanging : callOf(p) = "transact"
  BY DEF Opening, Exchanging
<1>o. /\ fd_ \in BOOLEAN /\ (pc = "device" => ~fd_) /\ (pc \in Connected => fd_)
  BY DEF IInv, TypeOK, PlaceFitsThePort
<1> HIDE DEF callOf
<1>l. /\ L!linkVars = <<fd_, callOf(pc), outcome>>
      /\ L!linkVars' = <<fd_', callOf(pc'), outcome'>>
  BY DEF L!linkVars, callOf, isOpen
<1> DEFINE Stutters == fd_' = fd_ /\ callOf(pc') = callOf(pc) /\ outcome' = outcome
<1>s. Stutters => L!linkVars' = L!linkVars
  BY <1>l
<1> USE DEF Opening, Exchanging, Connected, isOpen, close, Return, results, counts, harm
<1>1. CASE CallOpen
  <2>1. callOf(pc) = "none" /\ callOf(pc') = "open" /\ fd_' = fd_ /\ outcome' = outcome
    BY <1>1, <1>c DEF CallOpen
  <2> QED
    BY <2>1 DEF L!LinkNext, L!BeginOpen, callOf
<1>2. CASE CallTransact
  <2>1. callOf(pc) = "none" /\ callOf(pc') = "transact" /\ fd_' = fd_ /\ outcome' = outcome
    BY <1>2, <1>c DEF CallTransact
  <2> QED
    BY <2>1 DEF L!LinkNext, L!BeginTransact, callOf
<1>3. CASE Close
  <2>1. callOf(pc) = "none" /\ callOf(pc') = "none" /\ fd_' = FALSE /\ outcome' = outcome
    BY <1>3, <1>c DEF Close
  <2> QED
    BY <2>1 DEF L!LinkNext, L!Close, callOf
<1>4. CASE Reopen \/ Device
  <2>1. callOf(pc) = "open" /\ callOf(pc') = "open" /\ fd_' \in BOOLEAN /\ outcome' = outcome
    BY <1>4, <1>c DEF Reopen, Device
  <2> QED
    BY <2>1 DEF L!LinkNext, L!OpenProceeds, callOf
<1>5. CASE NoDevice \/ NotConfigured \/ Configured
  <2>1. /\ callOf(pc) = "open" /\ callOf(pc') = "none" /\ outcome' \in {"None", "Transport"}
        /\ fd_' = (outcome' = "None")
    BY <1>5, <1>c, <1>o DEF NoDevice, NotConfigured, Configured
  <2>2. L!EndOpen(outcome')
    BY <2>1 DEF L!EndOpen, callOf
  <2> QED
    BY <2>1, <2>2 DEF L!LinkNext
<1>6. CASE Silence \/ Flush \/ Send \/ Receive \/ EndOfFrame
  <2>1. Stutters
    BY <1>6, <1>c DEF Silence, Flush, Send, Receive, EndOfFrame
  <2> QED
    BY <2>1, <1>s
<1>7. CASE NotOpen \/ SendFails \/ TimesOut \/ TooShort \/ Reject \/ Answered
  <2>1. /\ callOf(pc) = "transact" /\ callOf(pc') = "none"
        /\ outcome' \in {"None", "Transport", "Protocol"}
        /\ ~fd_ => outcome' = "Transport"
        /\ fd_' = (fd_ /\ outcome' \in {"None", "Protocol"})
    BY <1>7, <1>c, <1>o DEF NotOpen, SendFails, TimesOut, TooShort, Reject, Answered, Fail
  <2>2. L!EndTransact(outcome')
    BY <2>1 DEF L!EndTransact, callOf
  <2> QED
    BY <2>1, <2>2 DEF L!LinkNext
<1>8. CASE DeviceSends \/ DeviceIsSilent
  <2>1. Stutters
    BY <1>8 DEF DeviceSends, DeviceIsSilent
  <2> QED
    BY <2>1, <1>s
<1>9. CASE UNCHANGED vars
  <2>1. Stutters
    BY <1>9 DEF vars
  <2> QED
    BY <2>1, <1>s
<1> QED
  BY <1>1, <1>2, <1>3, <1>4, <1>5, <1>6, <1>7, <1>8, <1>9 DEF Next, OpenStep, TransactStep

(* RtuLink keeps what ModbusClient relies on in a link: its calls follow   *)
(* one another, and only a Protocol error leaves a failed link open.       *)
THEOREM RtuLinkIsALink == Safety => L!LinkSafety
<1>1. Init => L!LinkInit
  BY DEF Init, L!LinkInit, isOpen, Opening, Exchanging
<1> QED
  BY <1>1, LinkStep, Invariance, PTL DEF Safety, L!LinkSafety
=============================================================================
