---------------------------- MODULE MCTcpSession ----------------------------
(***************************************************************************)
(* An instance of TcpSession: a table of one register, a write, a read     *)
(* past the end of the table, which the server refuses, and a disconnect   *)
(* with the connect after it.  One value is enough: the history tells the  *)
(* writes apart by call and try.                                           *)
(***************************************************************************)
EXTENDS TcpSession

Write   == [name |-> "writeSingleRegister", start |-> 0, arg |-> 258]
BadRead == [name |-> "readHoldingRegisters", start |-> 0, arg |-> 2]

SomeCalls == {Write, BadRead, [name |-> "connect"], [name |-> "disconnect"]}

(* What the server answers to them. *)
TheReplies == {Pdu(6, <<0, 0, 1, 2>>), Pdu(131, <<2>>)}

SomeRetries == {0, 1}
OneBackoff  == {<<1, 1>>}
=============================================================================
