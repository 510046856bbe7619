--------------------------- MODULE MCModbusClient ---------------------------
(***************************************************************************)
(* An instance of ModbusClient: two threads that share a client.           *)
(***************************************************************************)
EXTENDS ModbusClient

CONSTANTS t1, t2

Read(n) == [name |-> "readHoldingRegisters", start |-> 0, arg |-> n]

(* A read and a refused read, beside everything that moves the link or the *)
(* settings under them.  A write takes the same way as a read.             *)
AllCalls ==
  {Read(1), Read(126), [name |-> "connect"], [name |-> "disconnect"],
   [name |-> "setUnitId", unitId |-> 2],
   [name |-> "setTimeout", timeout |-> 1000],
   [name |-> "setRetries", retries |-> 2],
   [name |-> "setAutoReconnect", on |-> FALSE],
   [name |-> "setReconnectBackoff", backoff |-> <<3, 2>>]}

(* An answer to Read(1), one with an odd byte count and an exception. *)
SomeReplies == {Pdu(3, <<2, 1, 2>>), Pdu(3, <<1, 1>>), Pdu(131, <<2>>)}

(* No attempt at all, and enough for a third one. *)
SomeRetries == {-1, 2}

(* The second has its minimum above its maximum. *)
SomeBackoffs == {<<2, 3>>, <<3, 2>>}
=============================================================================
