------------------------------ MODULE RtuLink ------------------------------
(***************************************************************************)
(* RtuLink (src/rtu_link.cpp): a serial port, frames closed by a CRC and   *)
(* told apart by silence, with a sequential caller on one side and the     *)
(* devices of a bus on the other.                                          *)
(*                                                                         *)
(* A byte is what the code can make of it: byte number pos of the answer   *)
(* to transact() number for, or noise.  The CRC of a response is right     *)
(* when it is one whole answer without noise: that CRC-16 finds the errors *)
(* a line makes is taken from the code of crc16.  RTU has no transaction   *)
(* id, so an answer shows only which unit sent it.                         *)
(*                                                                         *)
(* Silences and deadlines pass whenever the code waits for them.  A device *)
(* sends its bytes one at a time, once or twice, may have another address  *)
(* than the one asked for and, with AnswersLate, may still be answering    *)
(* when the next request goes out.                                         *)
(***************************************************************************)
EXTENDS Integers, Sequences

CONSTANTS
  Units,           \* unit addresses
  Faults,          \* what goes wrong: "noise", "lost", "repeat", "stranger"
  AnswersLate,     \* whether an answer may outlive its transact()
  MaxTransacts, MaxOpens, MaxFaults       \* bounds

ASSUME RtuAssumption ==
  /\ AnswersLate \in BOOLEAN
  /\ MaxTransacts \in Nat /\ MaxOpens \in Nat /\ MaxFaults \in Nat

VARIABLES
  fd_,             \* whether the link has a descriptor
  pc,
  unitId, resp,    \* argument and local of transact()
  outcome,         \* what the last call returned
  reply,           \* number of the transact() whose answer it returned, or 0
  ports,           \* how many descriptors of the device the process holds
  line,            \* the bytes the driver has received
  devices,         \* the answers under way: [for, unit, pos, copies]
  transacts, opens, faults,
  disturbed        \* history: whether this exchange was not left in peace

results == <<outcome, reply>>
counts  == <<transacts, opens>>
harm    == <<faults, disturbed>>
vars    == <<fd_, pc, unitId, resp, results, ports, line, devices, counts, harm>>

AnswerSize == 5          \* address, function code, one byte, CRC
MinSize    == 4          \* a response shorter than that is not looked at

NoReply == 0
Noise   == [for |-> 0, pos |-> 0, unit |-> 0]

Opening    == {"open", "device", "configure"}
Exchanging == {"port", "flush", "send", "first", "rest", "check"}

isOpen == fd_

Init ==
  /\ fd_ = FALSE /\ pc = "idle"
  /\ unitId \in Units /\ resp = <<>>
  /\ outcome = "None" /\ reply = NoReply
  /\ ports = 0 /\ line = <<>> /\ devices = {}
  /\ transacts = 0 /\ opens = 0 /\ faults = 0
  /\ disturbed = FALSE

-----------------------------------------------------------------------------
Return(category) ==
  /\ pc' = "idle"
  /\ outcome' = category
  /\ resp' = <<>>

(* close(); the driver drops what it has received. *)
close ==
  /\ fd_' = FALSE
  /\ ports' = IF fd_ THEN ports - 1 ELSE ports
  /\ line' = IF fd_ THEN <<>> ELSE line

-----------------------------------------------------------------------------
(* open() *)
CallOpen ==
  /\ pc = "idle" /\ opens < MaxOpens
  /\ opens' = opens + 1
  /\ pc' = "open"
  /\ UNCHANGED <<fd_, unitId, resp, results, ports, line, devices, transacts, harm>>

(* Mutant: a port that is open already is not closed first. *)
Reopen_KeepsPort ==
  /\ pc = "open"
  /\ pc' = "device"
  /\ UNCHANGED <<fd_, unitId, resp, results, ports, line, devices, counts, harm>>

Reopen ==
  /\ pc = "open"
  /\ close
  /\ pc' = "device"
  /\ UNCHANGED <<unitId, resp, results, devices, counts, harm>>

NoDevice ==
  /\ pc = "device"
  /\ fd_' = FALSE
  /\ Return("Transport")
  /\ UNCHANGED <<unitId, reply, ports, line, devices, counts, harm>>

Device ==
  /\ pc = "device"
  /\ fd_' = TRUE
  /\ ports' = ports + 1
  /\ pc' = "configure"
  /\ UNCHANGED <<unitId, resp, results, line, devices, counts, harm>>

NotConfigured ==
  /\ pc = "configure"
  /\ close
  /\ Return("Transport")
  /\ UNCHANGED <<unitId, reply, devices, counts, harm>>

Configured ==
  /\ pc = "configure"
  /\ Return("None")
  /\ UNCHANGED <<fd_, unitId, reply, ports, line, devices, counts, harm>>

Close ==
  /\ pc = "idle"
  /\ close
  /\ UNCHANGED <<pc, unitId, resp, results, devices, counts, harm>>

-----------------------------------------------------------------------------
(* transact() *)
CallTransact ==
  /\ pc = "idle" /\ transacts < MaxTransacts
  /\ transacts' = transacts + 1
  /\ unitId' \in Units
  /\ reply' = NoReply
  /\ pc' = "port"
  /\ UNCHANGED <<fd_, resp, outcome, ports, line, devices, opens, harm>>

NotOpen ==
  /\ pc = "port" /\ ~fd_
  /\ Return("Transport")
  /\ UNCHANGED <<fd_, unitId, reply, ports, line, devices, counts, harm>>

(* The frame is built and t3.5 of silence kept. *)
Silence ==
  /\ pc = "port" /\ fd_
  /\ pc' = "flush"
  /\ UNCHANGED <<fd_, unitId, resp, results, ports, line, devices, counts, harm>>

(* Mutant: what the driver had received stays. *)
Flush_Nothing ==
  /\ pc = "flush"
  /\ devices' = IF AnswersLate THEN devices ELSE {}
  /\ pc' = "send"
  /\ UNCHANGED <<fd_, unitId, resp, results, ports, line, counts, harm>>

(* Both buffers of the driver are emptied.  Without AnswersLate, a device  *)
(* that has not answered by now never will.                                *)
Flush ==
  /\ pc = "flush"
  /\ line' = <<>>
  /\ devices' = IF AnswersLate THEN devices ELSE {}
  /\ pc' = "send"
  /\ UNCHANGED <<fd_, unitId, resp, results, ports, counts, harm>>

(* Every device that will answer has the request. *)
Send ==
  /\ pc = "send"
  /\ \E unit \in IF "stranger" \in Faults THEN Units ELSE {unitId} :
     \E copies \in IF "repeat" \in Faults THEN {1, 2} ELSE {1} :
       /\ devices' = devices \cup {[for |-> transacts, unit |-> unit, pos |-> 1,
                                    copies |-> copies]}
       /\ disturbed' = (unit # unitId \/ copies > 1)
  /\ pc' = "first"
  /\ UNCHANGED <<fd_, unitId, resp, results, ports, line, counts, faults>>

(* An error of the port closes it: write() fails, nothing comes before the *)
(* deadline, or fewer than four bytes do.                                  *)
Fail(place) ==
  /\ pc = place
  /\ close
  /\ Return("Transport")
  /\ UNCHANGED <<unitId, reply, devices, counts, harm>>

SendFails == Fail("send")

TimesOut == Fail("first")

Receive ==
  /\ pc \in {"first", "rest"}
  /\ line # <<>>
  /\ resp' = Append(resp, Head(line))
  /\ line' = Tail(line)
  /\ pc' = "rest"
  /\ UNCHANGED <<fd_, unitId, results, ports, devices, counts, harm>>

(* No byte for t1.5, or the deadline passes: what has come is the response,*)
(* and it is cut when there is more to come.                               *)
EndOfFrame ==
  /\ pc = "rest"
  /\ pc' = "check"
  /\ disturbed' = (disturbed \/ line # <<>> \/ devices # {})
  /\ UNCHANGED <<fd_, unitId, resp, results, ports, line, devices, counts, faults>>

TooShort == Fail("check") /\ Len(resp) < MinSize

(* crc16() over the response gives the CRC at its end. *)
Intact == /\ Len(resp) = AnswerSize
          /\ \A i \in 1 .. AnswerSize : resp[i].for = resp[1].for /\ resp[i].pos = i

Addressed == resp[1].unit = unitId

(* Mutant: a bad CRC closes the port. *)
Reject_Closes ==
  /\ pc = "check" /\ Len(resp) >= MinSize
  /\ ~Intact \/ ~Addressed
  /\ close
  /\ Return("Protocol")
  /\ UNCHANGED <<unitId, reply, devices, counts, harm>>

(* A wrong CRC or a wrong address leaves the port open. *)
Reject ==
  /\ pc = "check" /\ Len(resp) >= MinSize
  /\ ~Intact \/ ~Addressed
  /\ Return("Protocol")
  /\ UNCHANGED <<fd_, unitId, reply, ports, line, devices, counts, harm>>

Answered ==
  /\ pc = "check" /\ Len(resp) >= MinSize
  /\ Intact /\ Addressed
  /\ reply' = resp[1].for
  /\ Return("None")
  /\ UNCHANGED <<fd_, unitId, ports, line, devices, counts, harm>>

-----------------------------------------------------------------------------
(* The bus: a device sends a byte, which the driver gets if the port is    *)
(* open and which noise may change or swallow.                             *)
After(d) ==
  IF d.pos < AnswerSize THEN {[d EXCEPT !.pos = @ + 1]}
  ELSE IF d.copies > 1 THEN {[d EXCEPT !.pos = 1, !.copies = @ - 1]}
  ELSE {}

DeviceSends ==
  \E d \in devices :
    /\ devices' = (devices \ {d}) \cup After(d)
    /\ LET byte == [for |-> d.for, pos |-> d.pos, unit |-> d.unit]
       IN  \/ /\ line' = IF fd_ THEN Append(line, byte) ELSE line
              /\ UNCHANGED harm
           \/ /\ faults < MaxFaults /\ faults' = faults + 1
              /\ disturbed' = TRUE
              /\ \/ "noise" \in Faults /\ line' = (IF fd_ THEN Append(line, Noise) ELSE line)
                 \/ "lost" \in Faults /\ UNCHANGED line
    /\ UNCHANGED <<fd_, pc, unitId, resp, results, ports, counts>>

DeviceIsSilent ==
  \E d \in devices :
    /\ devices' = devices \ {d}
    /\ disturbed' = TRUE
    /\ UNCHANGED <<fd_, pc, unitId, resp, results, ports, line, counts, faults>>

OpenStep     == Reopen \/ NoDevice \/ Device \/ NotConfigured \/ Configured
TransactStep == NotOpen \/ Silence \/ Flush \/ Send \/ SendFails \/ TimesOut \/ Receive
                \/ EndOfFrame \/ TooShort \/ Reject \/ Answered

Next == CallOpen \/ CallTransact \/ Close \/ OpenStep \/ TransactStep
        \/ DeviceSends \/ DeviceIsSilent

Safety == Init /\ [][Next]_vars

(* The code runs on, write() makes progress, and its silences end.         *)
Spec == Safety /\ WF_vars(OpenStep) /\ WF_vars(TransactStep)

-----------------------------------------------------------------------------
Bytes   == [for : Nat, pos : 0 .. AnswerSize, unit : Units \cup {0}]
Answers == [for : Nat, unit : Units, pos : 1 .. AnswerSize, copies : {1, 2}]

TypeOK ==
  /\ fd_ \in BOOLEAN
  /\ pc \in {"idle"} \cup Opening \cup Exchanging
  /\ unitId \in Units
  /\ resp \in Seq(Bytes) /\ line \in Seq(Bytes)
  /\ outcome \in {"None", "Transport", "Protocol"}
  /\ reply \in Nat
  /\ ports \in Nat
  /\ devices \subseteq Answers
  /\ transacts \in Nat /\ opens \in Nat /\ faults \in Nat
  /\ disturbed \in BOOLEAN

(* The process holds the port once while the link is open and not at all   *)
(* when it is closed, whatever open() finds: open already, no device,      *)
(* settings refused.  (rtu_link.cpp:84-133.)                               *)
PortIsHeldOnce == ports = IF isOpen THEN 1 ELSE 0

(* An exchange that is left in peace succeeds whatever became of those     *)
(* before it: when a device that answers is the one asked, answers once,   *)
(* is garbled nowhere and is not cut off by the pause or the deadline, its *)
(* answer is accepted.  Nothing that noise, a cut or a repeated answer has *)
(* left in the driver is in its way.  That no answer comes in time is no   *)
(* concern of this property.  (rtu_link.cpp:276-281, 300-332.)             *)
PeacefulExchangesSucceed ==
  [][pc = "check" /\ pc' = "idle" /\ ~disturbed => outcome' = "None"]_vars

(* link.hpp:19, "wait for and return the response PDU": what transact()    *)
(* returns answers the request it sent.  The flush of rtu_link.cpp:276-281 *)
(* sees to that as long as no answer outlives the silence before it.       *)
ReplyIsForThisRequest == pc = "idle" /\ reply # NoReply => reply = transacts

(* RtuLink is a Link that stays open after a Protocol error and closes     *)
(* after a Transport error, and each of its calls ends.                    *)
L == INSTANCE Link WITH
       KeepsOpen   <- {"Protocol"},
       linkOpen    <- isOpen,
       linkCall    <- CASE pc = "idle"        -> "none"
                        [] pc \in Opening     -> "open"
                        [] pc \in Exchanging  -> "transact",
       linkOutcome <- outcome

ImplementsLink == L!LinkSpec

-----------------------------------------------------------------------------
(* The strengthening that makes the invariants above inductive.            *)
Connected == {"configure", "flush", "send", "first", "rest", "check"}
Awaiting  == {"send", "first", "rest", "check"}

PlaceFitsThePort ==
  /\ pc = "device" => ~fd_
  /\ pc \in Connected => fd_
  /\ pc \notin {"rest", "check"} => resp = <<>>

(* What is received is this request's, or was made by noise.               *)
IsFresh(byte) == byte = Noise \/ byte.for = transacts

NothingIsLate ==
  ~AnswersLate /\ pc \in Awaiting =>
    /\ \A d \in devices : d.for = transacts
    /\ \A i \in 1 .. Len(line) : IsFresh(line[i])
    /\ \A i \in 1 .. Len(resp) : IsFresh(resp[i])

(* As long as it is in peace, what has come of the answer and what the     *)
(* device is still to send are the answer, each byte in its place.         *)
IsByte(byte, i) == byte.for = transacts /\ byte.pos = i /\ byte.unit = unitId

IsRest(d, i) == d.for = transacts /\ d.unit = unitId /\ d.pos = i /\ d.copies = 1

NothingIsInTheWay ==
  /\ ~AnswersLate /\ pc = "send" => line = <<>> /\ devices = {}
  /\ ~AnswersLate /\ ~disturbed /\ pc \in {"first", "rest", "check"} =>
       /\ \A i \in 1 .. Len(resp) : IsByte(resp[i], i)
       /\ \A i \in 1 .. Len(line) : IsByte(line[i], Len(resp) + i)
       /\ \A d \in devices : IsRest(d, Len(resp) + Len(line) + 1)
       /\ devices = {} => Len(resp) + Len(line) = AnswerSize
       /\ pc = "check" => line = <<>> /\ devices = {}

ReplyFits == ~AnswersLate /\ reply # NoReply => reply = transacts

IInv == /\ TypeOK /\ PortIsHeldOnce /\ PlaceFitsThePort /\ NothingIsLate
        /\ NothingIsInTheWay /\ ReplyFits
=============================================================================
