-------------------------------- MODULE Pdu --------------------------------
(***************************************************************************)
(* The application protocol data units of include/modbuscpp/pdu.hpp and    *)
(* src/pdu.cpp: the quantity checks, the eight request builders and the    *)
(* response parsers, as pure operators.                                    *)
(*                                                                         *)
(* A Result<T> is the record [category, code, value]; it is an Error when  *)
(* its category is not "None".  A Pdu is [functionCode, data] with data a  *)
(* sequence of bytes.  Message texts are left out.  Arguments of type      *)
(* uint16_t and uint8_t are numbers of that range; the builders of the     *)
(* multiple writes receive a std::vector, whose size() is any number.      *)
(***************************************************************************)
EXTENDS Integers, Sequences

Byte == 0 .. 255
Word == 0 .. 2 ^ 16 - 1

Categories == {"None", "Usage", "Transport", "Protocol", "Device"}

ok(v) == [category |-> "None", code |-> 0, value |-> v]
Error(category, code) == [category |-> category, code |-> code, value |-> <<>>]
isOk(result) == result.category = "None"

ReadCoils              == 1
ReadDiscreteInputs     == 2
ReadHoldingRegisters   == 3
ReadInputRegisters     == 4
WriteSingleCoil        == 5
WriteSingleRegister    == 6
WriteMultipleCoils     == 15
WriteMultipleRegisters == 16

kMaxPduDataSize == 252

Pdu(fc, data) == [functionCode |-> fc, data |-> data]

(* The two conversions of a static_cast to a narrower unsigned type. *)
uint16(n) == n % 65536
uint8(n)  == n % 256

(* Big-endian, as everything on the wire. *)
writeU16(buf, val) == buf \o << val \div 256, val % 256 >>
readU16(data, offset) == 256 * data[offset + 1] + data[offset + 2]

(* What writeU16 appends to an empty buffer for one word after the other. *)
WordBytes(words) ==
  [k \in 1 .. 2 * Len(words) |->
     IF k % 2 = 1 THEN words[(k + 1) \div 2] \div 256 ELSE words[k \div 2] % 256]

-----------------------------------------------------------------------------
(* Mutant: a quantity of zero passes. *)
InRange_AllowsZero(quantity, last) ==
  IF quantity > last THEN Error("Usage", 0) ELSE ok(<<>>)

(* Quantity checks. *)
InRange(quantity, last) ==
  IF quantity < 1 \/ quantity > last THEN Error("Usage", 0) ELSE ok(<<>>)

validateCoilQuantity(quantity)                  == InRange(quantity, 2000)
validateRegisterQuantity(quantity)              == InRange(quantity, 125)
validateWriteMultipleCoilQuantity(quantity)     == InRange(quantity, 1968)
validateWriteMultipleRegisterQuantity(quantity) == InRange(quantity, 123)

-----------------------------------------------------------------------------
(* Request builders. *)
Checked(check, pdu) == IF isOk(check) THEN ok(pdu) ELSE check

TwoWords(fc, first, second) == Pdu(fc, writeU16(writeU16(<<>>, first), second))

buildReadCoils(start, quantity) ==
  Checked(validateCoilQuantity(quantity), TwoWords(ReadCoils, start, quantity))

buildReadDiscreteInputs(start, quantity) ==
  Checked(validateCoilQuantity(quantity), TwoWords(ReadDiscreteInputs, start, quantity))

buildReadHoldingRegisters(start, quantity) ==
  Checked(validateRegisterQuantity(quantity), TwoWords(ReadHoldingRegisters, start, quantity))

buildReadInputRegisters(start, quantity) ==
  Checked(validateRegisterQuantity(quantity), TwoWords(ReadInputRegisters, start, quantity))

buildWriteSingleCoil(address, on) ==
  ok(TwoWords(WriteSingleCoil, address, IF on THEN 65280 ELSE 0))

buildWriteSingleRegister(address, val) ==
  ok(TwoWords(WriteSingleRegister, address, val))

(* The byte whose bit b is bits[b], for b in 0 .. 7. *)
ByteOf(bits) ==
  LET weigh(b) == IF bits[b] THEN 2 ^ b ELSE 0
  IN  weigh(0) + weigh(1) + weigh(2) + weigh(3) + weigh(4) + weigh(5) + weigh(6) + weigh(7)

(* Mutant: the first bit of a byte is its highest. *)
PackedByte_HighFirst(values, i) ==
  ByteOf([b \in 0 .. 7 |-> i * 8 + (7 - b) < Len(values) /\ values[i * 8 + (7 - b) + 1]])

(* Byte i (from 0) of a list of bits: bit b of it is the list's i * 8 + b. *)
PackedByte(values, i) ==
  ByteOf([b \in 0 .. 7 |-> i * 8 + b < Len(values) /\ values[i * 8 + b + 1]])

CoilsPdu(start, values) ==
  LET byteCount == (Len(values) + 7) \div 8
      header    == TwoWords(WriteMultipleCoils, start, uint16(Len(values))).data
  IN  Pdu(WriteMultipleCoils,
          header \o <<uint8(byteCount)>>
                 \o [i \in 1 .. byteCount |-> PackedByte(values, i - 1)])

(* size() is narrowed to a uint16_t before it is checked. *)
buildWriteMultipleCoils(start, values) ==
  Checked(validateWriteMultipleCoilQuantity(uint16(Len(values))), CoilsPdu(start, values))

RegistersPdu(start, values) ==
  LET header == TwoWords(WriteMultipleRegisters, start, uint16(Len(values))).data
  IN  Pdu(WriteMultipleRegisters,
          header \o <<uint8(2 * Len(values))>> \o WordBytes(values))

buildWriteMultipleRegisters(start, values) ==
  Checked(validateWriteMultipleRegisterQuantity(uint16(Len(values))),
          RegistersPdu(start, values))

-----------------------------------------------------------------------------
(* Response parsers.  None of them looks at the request it is handed. *)
BitOf(byte, b) == (byte \div 2 ^ b) % 2 = 1

parseReadBitsResponse(req, resp) ==
  LET data == resp.data
  IN  IF Len(data) < 1 \/ Len(data) < 1 + data[1]
      THEN Error("Protocol", 0)
      ELSE ok([k \in 1 .. 8 * data[1] |-> BitOf(data[2 + (k - 1) \div 8], (k - 1) % 8)])

(* Mutant: the registers are read from the byte count on. *)
parseReadRegistersResponse_FromCount(req, resp) ==
  LET data == resp.data
  IN  IF Len(data) < 1 \/ data[1] % 2 # 0 \/ Len(data) < 1 + data[1]
      THEN Error("Protocol", 0)
      ELSE ok([k \in 1 .. data[1] \div 2 |-> readU16(data, (k - 1) * 2)])

(* Mutant: a byte count that is odd is not noticed. *)
parseReadRegistersResponse_Odd(req, resp) ==
  LET data == resp.data
  IN  IF Len(data) < 1 \/ Len(data) < 1 + data[1]
      THEN Error("Protocol", 0)
      ELSE ok([k \in 1 .. data[1] \div 2 |-> readU16(data, 1 + (k - 1) * 2)])

parseReadRegistersResponse(req, resp) ==
  LET data == resp.data
  IN  IF Len(data) < 1 \/ data[1] % 2 # 0 \/ Len(data) < 1 + data[1]
      THEN Error("Protocol", 0)
      ELSE ok([k \in 1 .. data[1] \div 2 |-> readU16(data, 1 + (k - 1) * 2)])

EchoOf(resp) ==
  IF Len(resp.data) < 4
  THEN Error("Protocol", 0)
  ELSE ok(<<readU16(resp.data, 0), readU16(resp.data, 2)>>)

parseWriteSingleResponse(req, resp)            == EchoOf(resp)
parseWriteMultipleCoilsResponse(req, resp)     == EchoOf(resp)
parseWriteMultipleRegistersResponse(req, resp) == EchoOf(resp)

(* An exception reply has the high bit of the function code set. *)
isExceptionResponse(pdu) == pdu.functionCode >= 128

parseException(pdu) ==
  IF Len(pdu.data) < 1 THEN Error("Protocol", 0) ELSE Error("Device", pdu.data[1])
=============================================================================
