---------------------------- MODULE PduExchange ----------------------------
(***************************************************************************)
(* One client operation after another against the test server, with a      *)
(* link that delivers every byte: the request builders, the server and the *)
(* response parsers have to agree on byte order, bit order, counts and     *)
(* addresses.  memory is the server's, last the operation the caller just  *)
(* finished, the reply to it and the Result the caller was handed, until   *)
(* it has used the Result.                                                 *)
(*                                                                         *)
(* Another device may be there in place of the server and reply what it    *)
(* likes: too little, too much, or to another function.                    *)
(***************************************************************************)
EXTENDS ClientOps, TestServer

CONSTANTS
  Operations,        \* the operations callers may ask for
  Replies            \* what a device that is not the server may reply

ASSUME ReplyAssumption ==
  \A resp \in Replies : resp.functionCode \in Byte /\ resp.data \in Seq(Byte)

(* The parameters of the eight operations; a caller's list has any length. *)
ASSUME OperationAssumption ==
  \A o \in Operations :
    /\ o.start \in Word
    /\ \/ o.name \in BitReads \cup RegisterReads /\ o.arg \in Word
       \/ o.name = "writeSingleCoil" /\ o.arg \in BOOLEAN
       \/ o.name = "writeSingleRegister" /\ o.arg \in Word
       \/ o.name = "writeMultipleCoils" /\ o.arg \in Seq(BOOLEAN)
       \/ o.name = "writeMultipleRegisters" /\ o.arg \in Seq(Word)

VARIABLES memory, last

exchangeVars == <<memory, last>>

Handed(from, o, reply, result) ==
  [from |-> from, op |-> o, reply |-> reply, result |-> result]

NoReply  == Pdu(0, <<>>)
NoResult == Handed("none", [name |-> "none", start |-> 0, arg |-> 0], NoReply, ok(<<>>))

(* The tables of a new server, or none when another device is there. *)
NewMemory == [coils |-> [i \in 0 .. Size - 1 |-> i < 10],
              holding_regs |-> [i \in 0 .. Size - 1 |->
                 CASE i = 0 -> 555 [] i = 1 -> 1 [] i = 2 -> 100 [] OTHER -> 0]]
NoMemory  == <<>>

ExchangeInit ==
  /\ memory \in {NewMemory, NoMemory}
  /\ last = NoResult

(* An operation the builder refuses ends there. *)
Refused(o) ==
  /\ last = NoResult
  /\ ~isOk(build(o))
  /\ last' = Handed("builder", o, NoReply, build(o))
  /\ UNCHANGED memory

(* What is built from a list of 2^16 entries or more does not fit a PDU:   *)
(* what the framing makes of it is left out.                               *)
FitsPdu(req) == Len(req.data) <= kMaxPduDataSize

BuiltTooLong(o) ==
  /\ last = NoResult
  /\ isOk(build(o)) /\ ~FitsPdu(build(o).value)
  /\ last' = Handed("builder", o, NoReply, build(o))
  /\ UNCHANGED memory

Exchanged(o) ==
  LET built  == build(o)
      answer == _process(memory, built.value)
  IN  /\ last = NoResult /\ memory # NoMemory
      /\ isOk(built) /\ FitsPdu(built.value)
      /\ memory' = answer.memory
      /\ last' = Handed("server", o, answer.reply, finish(o, built.value, answer.reply))

(* External: another device replies.  A caller that reads learns nothing   *)
(* from the reply but what is in it.                                       *)
Strange(o, resp) ==
  /\ last = NoResult /\ memory = NoMemory
  /\ o.name \in BitReads \cup RegisterReads /\ isOk(build(o))
  /\ last' = Handed("device", o, resp, finish(o, build(o).value, resp))
  /\ UNCHANGED memory

(* The caller has used the Result and may ask for the next operation. *)
Used == last # NoResult /\ last' = NoResult /\ UNCHANGED memory

ExchangeNext ==
  \/ Used
  \/ \E o \in Operations : Refused(o) \/ BuiltTooLong(o) \/ Exchanged(o)
  \/ \E o \in Operations, resp \in Replies : Strange(o, resp)

ExchangeSpec == ExchangeInit /\ [][ExchangeNext]_exchangeVars

-----------------------------------------------------------------------------
(* The table a caller expects after a successful operation, from the       *)
(* operation's own arguments and without any encoding.                     *)
Expected(o, m) ==
  CASE o.name = "writeSingleCoil" -> [m EXCEPT !.coils[o.start] = o.arg]
    [] o.name = "writeSingleRegister" -> [m EXCEPT !.holding_regs[o.start] = o.arg]
    [] o.name = "writeMultipleCoils" ->
         [m EXCEPT !.coils = [i \in DOMAIN @ |->
            IF i - o.start + 1 \in DOMAIN o.arg THEN o.arg[i - o.start + 1] ELSE @[i]]]
    [] o.name = "writeMultipleRegisters" ->
         [m EXCEPT !.holding_regs = [i \in DOMAIN @ |->
            IF i - o.start + 1 \in DOMAIN o.arg THEN o.arg[i - o.start + 1] ELSE @[i]]]
    [] OTHER -> m

(* The multiple-value operations, the quantity each was asked for and the  *)
(* largest that pdu.hpp:48-70 documents for it.                            *)
Multiple == BitReads \cup RegisterReads \cup {"writeMultipleCoils", "writeMultipleRegisters"}

Asked(o) == IF o.name \in Writes THEN Len(o.arg) ELSE o.arg

Documented(o) ==
  CASE o.name \in BitReads                   -> 2000
    [] o.name \in RegisterReads              -> 125
    [] o.name = "writeMultipleCoils"         -> 1968
    [] o.name = "writeMultipleRegisters"     -> 123

(* What the caller passed to a write is what the device holds afterwards,  *)
(* entry by entry, and nothing else changed; an operation that failed      *)
(* changed nothing.  (buildWrite* of pdu.cpp against the server.)          *)
WritesLand ==
  [][memory' = IF last'.from = "server" /\ isOk(last'.result) THEN Expected(last'.op, memory) ELSE memory]_exchangeVars

(* A successful read hands the caller the device's entries from start on,  *)
(* in order, at least as many as were asked for, and for coils the rest of *)
(* the last byte only.  (buildRead* and parseRead*Response of pdu.cpp.)    *)
ReadsReturnTheTable ==
  LET o == last.op
      v == last.result.value
  IN  last.from = "server" /\ isOk(last.result) =>
        /\ o.name = "readCoils" =>
             /\ Len(v) = 8 * ((o.arg + 7) \div 8)
             /\ \A k \in 1 .. o.arg : v[k] = memory.coils[o.start + k - 1]
        /\ o.name = "readHoldingRegisters" =>
             /\ Len(v) = o.arg
             /\ \A k \in 1 .. o.arg : v[k] = memory.holding_regs[o.start + k - 1]

(* The caller is told Usage exactly when the quantity, modulo 2^16, is not *)
(* one that pdu.hpp:48-70 documents ("Error on bad args"), and nothing is  *)
(* sent then.  An accepted request holds bytes, and its quantity field is  *)
(* that quantity.  A list shorter than 2^16 is meant as it stands: its     *)
(* request fits the PDU of pdu.hpp:41 ("0..252 bytes"), and its byte count *)
(* field is the number of bytes that follow, enough for every value and no *)
(* byte more.  A longer list should be refused and is not always, because  *)
(* the size is narrowed before the check (117, 138): 65537 coils make a    *)
(* request for one.  Such a request never fits a PDU.  (pdu.cpp:28-149.)   *)
RequestsDescribeThemselves ==
  LET o        == last.op
      built    == build(o)
      data     == built.value.data
      quantity == uint16(Asked(o))
  IN  o.name \in Multiple =>
        /\ quantity \in 1 .. Documented(o) <=> isOk(built)
        /\ last.result.category = "Usage" <=> ~isOk(built)
        /\ isOk(built) =>
             /\ \A k \in DOMAIN data : data[k] \in Byte
             /\ readU16(data, 2) = quantity
             /\ FitsPdu(built.value) <=> Asked(o) = quantity
             /\ Asked(o) = quantity =>
                  /\ o.name \in Writes => data[5] = Len(data) - 5
                  /\ o.name = "writeMultipleCoils" => 8 * data[5] \in Asked(o) .. Asked(o) + 7
                  /\ o.name = "writeMultipleRegisters" => data[5] = 2 * Asked(o)

(* The bytes a list of values stands for, from values to bytes as the      *)
(* device would encode them.                                               *)
Encoded(o, v) ==
  IF o.name \in BitReads
  THEN [i \in 1 .. Len(v) \div 8 |-> PackedByte(v, i - 1)]
  ELSE WordBytes(v)

(* Whatever a device replies to a read, short, long or to another          *)
(* function, the caller is handed what the device sent and nothing else:   *)
(* an exception's own code, or the bytes the reply counts, all of them and *)
(* no byte past its end, or Protocol.  A reply to the function that was    *)
(* asked for is not refused when it holds all it counts, in pairs for      *)
(* registers.  Nothing is claimed of what becomes of a whole reply to      *)
(* another function, or with another number of values than were asked for: *)
(* the parsers do not look at the request, although error.hpp:13 lists     *)
(* "unexpected FC" and "bad length".  (pdu.cpp:155-196, 222-232;           *)
(* client.cpp:95-97.)                                                      *)
OnlyWhatTheDeviceSent ==
  LET o      == last.op
      fc     == last.reply.functionCode
      data   == last.reply.data
      result == last.result
      whole  == Len(data) >= 1 /\ Len(data) >= 1 + data[1]
  IN  last.from \in {"server", "device"} /\ o.name \in BitReads \cup RegisterReads =>
        IF isExceptionResponse(last.reply)
        THEN result = (IF Len(data) >= 1 THEN Error("Device", data[1])
                                         ELSE Error("Protocol", 0))
        ELSE /\ isOk(result) => whole /\ Encoded(o, result.value) = SubSeq(data, 2, 1 + data[1])
             /\ ~isOk(result) => result.category = "Protocol"
             /\ fc = build(o).value.functionCode /\ whole
                /\ (o.name \in RegisterReads => data[1] % 2 = 0) => isOk(result)
=============================================================================
