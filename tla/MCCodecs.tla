------------------------------ MODULE MCCodecs ------------------------------
(***************************************************************************)
(* An instance of Codecs.  Exchanges: tables of Size entries that do not   *)
(* end on a byte boundary, writes that straddle the boundary between two   *)
(* packed bytes, values whose two bytes differ, quantities at and past     *)
(* every limit up to the largest a uint16_t can say, lists longer than     *)
(* that, and replies that say more or less than they hold.  Crc: every     *)
(* byte is fed, so that every entry of the table is read.                  *)
(***************************************************************************)
EXTENDS Codecs, MCPortSettings

Op(name, start, arg) == [name |-> name, start |-> start, arg |-> arg]

(* As a tuple, whose length TLC need not count. *)
Bits(n, S) == [i \in 1 .. n |-> i \in S] \o <<>>

CoilOperations ==
  {Op("writeSingleCoil", 8, on) : on \in BOOLEAN}
  \cup {Op("writeMultipleCoils", 0, Bits(Size, {1, 9})),
        Op("writeMultipleCoils", 1, Bits(Size - 1, {2, 8, 9})),
        Op("writeMultipleCoils", 2, Bits(3, {1, 2}))}
  \cup {Op("readCoils", a, n) : a \in {0, 1, 5}, n \in {1, 8, 9}}

RegisterOperations ==
  {Op("writeSingleRegister", Size - 1, v) : v \in {258, 65280}}
  \cup {Op("writeMultipleRegisters", a, vs) :
          a \in {1, Size - 1}, vs \in {<<513, 255>>, <<65535, 258, 1>>}}
  \cup {Op("readHoldingRegisters", a, n) : a \in {0, 1}, n \in {1, 3, Size}}

ReadSizes      == {0, 125, 126, 2000, 2001, 65535}
CoilSizes      == {0, 16, 17, 1968, 1969, 65537}
RegisterSizes  == {0, 123, 124, 65536}

LimitOperations ==
  {Op(name, 0, n) : name \in BitReads \cup RegisterReads, n \in ReadSizes}
  \cup {Op("writeMultipleCoils", 0, Bits(n, {})) : n \in CoilSizes}
  \cup {Op("writeMultipleRegisters", 0, [i \in 1 .. n |-> 258] \o <<>>) : n \in RegisterSizes}

AllOperations == CoilOperations \cup RegisterOperations \cup LimitOperations

OddReplies ==
  {Pdu(fc, d) : fc \in {ReadCoils, ReadHoldingRegisters},
                d \in {<<>>, <<0>>, <<1, 165>>, <<2, 1>>, <<2, 1, 2>>,
                        <<3, 1, 2, 3>>, <<2, 1, 2, 9>>}}
  \cup {Pdu(ReadHoldingRegisters + 128, d) : d \in {<<>>, <<2, 9>>}}

AllBytes == SUBSET ByteBits

(* None, each bit alone, all of them, and some in between. *)
SomeFlips     == {{}, ByteBits, {0, 2, 5, 7}} \cup {{k} : k \in ByteBits}
SomeNextFlips == {{}, ByteBits, {0}, {7}}
=============================================================================
