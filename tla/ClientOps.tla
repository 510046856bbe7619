----------------------------- MODULE ClientOps -----------------------------
(***************************************************************************)
(* The eight data operations of ModbusClient (src/client.cpp, readCoils to *)
(* writeMultipleRegisters) without the link: which request an operation    *)
(* builds and what it makes of the response.  An operation is a record     *)
(* [name, start, arg]; arg is the count of a read and the value or the     *)
(* list of values of a write.                                              *)
(***************************************************************************)
EXTENDS Pdu

BitReads      == {"readCoils", "readDiscreteInputs"}
RegisterReads == {"readHoldingRegisters", "readInputRegisters"}
Writes        == {"writeSingleCoil", "writeSingleRegister",
                  "writeMultipleCoils", "writeMultipleRegisters"}

build(o) ==
  CASE o.name = "readCoils"              -> buildReadCoils(o.start, o.arg)
    [] o.name = "readDiscreteInputs"     -> buildReadDiscreteInputs(o.start, o.arg)
    [] o.name = "readHoldingRegisters"   -> buildReadHoldingRegisters(o.start, o.arg)
    [] o.name = "readInputRegisters"     -> buildReadInputRegisters(o.start, o.arg)
    [] o.name = "writeSingleCoil"        -> buildWriteSingleCoil(o.start, o.arg)
    [] o.name = "writeSingleRegister"    -> buildWriteSingleRegister(o.start, o.arg)
    [] o.name = "writeMultipleCoils"     -> buildWriteMultipleCoils(o.start, o.arg)
    [] o.name = "writeMultipleRegisters" -> buildWriteMultipleRegisters(o.start, o.arg)

(* A write does not look at the echo: any answer that is no exception is   *)
(* success.  Nothing compares the function codes of request and response.  *)
finish(o, req, resp) ==
  CASE isExceptionResponse(resp) -> parseException(resp)
    [] ~isExceptionResponse(resp) /\ o.name \in BitReads ->
         parseReadBitsResponse(req, resp)
    [] ~isExceptionResponse(resp) /\ o.name \in RegisterReads ->
         parseReadRegistersResponse(req, resp)
    [] ~isExceptionResponse(resp) /\ o.name \in Writes -> ok(<<>>)
=============================================================================
