----------------------------- MODULE TestServer -----------------------------
(***************************************************************************)
(* The device of the integration tests, tests/modbus_test_server.py: what  *)
(* _process and the handlers behind it do with one request.  The server's  *)
(* tables have Size entries (256 in the code).  A handler returns the new  *)
(* memory and the reply; that each refuses a request whose data are shorter*)
(* than it needs is left out, since requests come from the builders of Pdu.*)
(***************************************************************************)
EXTENDS Pdu

CONSTANT Size

ASSUME SizeAssumption == Size \in 1 .. 256

Memory == [coils : [0 .. Size - 1 -> BOOLEAN], holding_regs : [0 .. Size - 1 -> Word]]

Answer(memory, fc, data) == [memory |-> memory, reply |-> Pdu(fc, data)]
Refuse(memory, fc, code) == Answer(memory, fc + 128, <<code>>)

_read_hr(memory, data) ==
  LET start == readU16(data, 0)
      qty   == readU16(data, 2)
      regs  == [k \in 1 .. qty |-> memory.holding_regs[start + k - 1]]
  IN  IF qty < 1 \/ qty > 125 \/ start + qty > Size
      THEN Refuse(memory, ReadHoldingRegisters, 2)
      ELSE Answer(memory, ReadHoldingRegisters, <<2 * qty>> \o WordBytes(regs))

(* The last byte of the reply also carries the coils that follow the range. *)
_read_co(memory, data) ==
  LET start == readU16(data, 0)
      qty   == readU16(data, 2)
      bc    == (qty + 7) \div 8
      on(i) == i < Size /\ memory.coils[i]
      byte(b) == ByteOf([bit \in 0 .. 7 |-> on(start + b * 8 + bit)])
  IN  IF qty < 1 \/ qty > 2000 \/ start + qty > Size
      THEN Refuse(memory, ReadCoils, 2)
      ELSE Answer(memory, ReadCoils, <<bc>> \o [b \in 1 .. bc |-> byte(b - 1)])

(* Single writes outside the table are acknowledged and dropped. *)
_write_sr(memory, data) ==
  LET addr == readU16(data, 0)
  IN  Answer(IF addr < Size
             THEN [memory EXCEPT !.holding_regs[addr] = readU16(data, 2)]
             ELSE memory, WriteSingleRegister, data)

_write_sc(memory, data) ==
  LET addr == readU16(data, 0)
  IN  Answer(IF addr < Size
             THEN [memory EXCEPT !.coils[addr] = (readU16(data, 2) = 65280)]
             ELSE memory, WriteSingleCoil, data)

_write_mr(memory, data) ==
  LET start == readU16(data, 0)
      qty   == readU16(data, 2)
      written(i) == i \in start .. start + qty - 1
  IN  IF data[5] # 2 * qty \/ start + qty > Size
      THEN Refuse(memory, WriteMultipleRegisters, 2)
      ELSE Answer([memory EXCEPT !.holding_regs =
                     [i \in 0 .. Size - 1 |->
                        IF written(i) THEN readU16(data, 5 + 2 * (i - start)) ELSE @[i]]],
                  WriteMultipleRegisters, SubSeq(data, 1, 4))

_write_mc(memory, data) ==
  LET start == readU16(data, 0)
      qty   == readU16(data, 2)
      written(i) == i \in start .. start + qty - 1
      bit(k) == BitOf(data[6 + k \div 8], k % 8)
  IN  Answer([memory EXCEPT !.coils =
                [i \in 0 .. Size - 1 |-> IF written(i) THEN bit(i - start) ELSE @[i]]],
             WriteMultipleCoils, SubSeq(data, 1, 4))

_process(memory, pdu) ==
  CASE pdu.functionCode = ReadHoldingRegisters   -> _read_hr(memory, pdu.data)
    [] pdu.functionCode = WriteSingleRegister    -> _write_sr(memory, pdu.data)
    [] pdu.functionCode = ReadCoils              -> _read_co(memory, pdu.data)
    [] pdu.functionCode = WriteSingleCoil        -> _write_sc(memory, pdu.data)
    [] pdu.functionCode = WriteMultipleRegisters -> _write_mr(memory, pdu.data)
    [] pdu.functionCode = WriteMultipleCoils     -> _write_mc(memory, pdu.data)
    [] OTHER -> Refuse(memory, pdu.functionCode, 1)
=============================================================================
