------------------------------ MODULE Convert ------------------------------
(***************************************************************************)
(* src/convert.cpp: numbers and strings to registers and back.             *)
(*                                                                         *)
(* The code only moves bytes, so a byte is any value.  A number is the     *)
(* sequence of its bytes, the most significant first, and a register the   *)
(* pair <<high byte, low byte>>.  memcpy between an integer and a number   *)
(* of the same width changes nothing; memcpy between a double and an array *)
(* of bytes goes through the memory of the host, whose byte order is host. *)
(*                                                                         *)
(* One conversion: a caller picks a form, an order and a value, makes      *)
(* registers of it (written to a device) and a value of the registers      *)
(* (read back).                                                            *)
(***************************************************************************)
EXTENDS Integers, Sequences, SequencesExt

CONSTANTS Bytes,           \* the values a byte may have
          Zero,            \* the padding byte
          MaxString        \* bound on the length of a string

ASSUME BytesAssumption == Zero \in Bytes /\ MaxString \in Nat

VARIABLES form, wo, bo, host, value, regs, back

convertVars == <<form, wo, bo, host, value, regs, back>>

WordOrder == {"HighWordFirst", "LowWordFirst"}
ByteOrder == {"BigEndian", "LittleEndian"}
Hosts     == {"little", "big"}

Nothing == <<>>

(* The bytes of registers, one register after the other. *)
BytesOf(rs) == [k \in 1 .. 2 * Len(rs) |-> rs[(k + 1) \div 2][2 - (k % 2)]]

(* The two bytes of a register in the order bo, and back. *)
InOrder(reg, order) == IF order = "BigEndian" THEN reg ELSE <<reg[2], reg[1]>>

-----------------------------------------------------------------------------
(* 32-bit numbers *)
regsToU32Internal(reg0, reg1, word, byte) ==
  IF word = "HighWordFirst" THEN InOrder(reg0, byte) \o InOrder(reg1, byte)
                            ELSE InOrder(reg1, byte) \o InOrder(reg0, byte)

(* Mutant: the words change places whatever the order. *)
u32ToRegsInternal_LowFirst(val, word, byte) ==
  <<InOrder(SubSeq(val, 3, 4), byte), InOrder(SubSeq(val, 1, 2), byte)>>

u32ToRegsInternal(val, word, byte) ==
  LET high == InOrder(SubSeq(val, 1, 2), byte)
      low  == InOrder(SubSeq(val, 3, 4), byte)
  IN  IF word = "HighWordFirst" THEN <<high, low>> ELSE <<low, high>>

(* 64-bit numbers: the halves change places, the words of a half do not. *)
Halves(s, word) == IF word = "HighWordFirst" THEN s ELSE SubSeq(s, 5, 8) \o SubSeq(s, 1, 4)

HostMemory(val, h) == IF h = "little" THEN Reverse(val) ELSE val

(* Mutant: the word order is not looked at. *)
regsToFloat64_HighFirst(rs, word, byte, h) ==
  HostMemory(BytesOf([i \in 1 .. 4 |-> InOrder(rs[i], byte)]), h)

regsToFloat64(rs, word, byte, h) ==
  HostMemory(Halves(BytesOf([i \in 1 .. 4 |-> InOrder(rs[i], byte)]), word), h)

float64ToRegs(val, word, byte, h) ==
  LET bytes == Halves(HostMemory(val, h), word)
  IN  [i \in 1 .. 4 |-> InOrder(SubSeq(bytes, 2 * i - 1, 2 * i), byte)]

(* Strings *)
regsToString(rs) == BytesOf(rs)

stringToRegs(str) ==
  [i \in 1 .. (Len(str) + 1) \div 2 |->
     <<str[2 * i - 1], IF 2 * i <= Len(str) THEN str[2 * i] ELSE Zero>>]

-----------------------------------------------------------------------------
Values == [int32   |-> [1 .. 4 -> Bytes],
           float64 |-> [1 .. 8 -> Bytes],
           string  |-> UNION {[1 .. n -> Bytes] : n \in 1 .. MaxString}]

Forms == DOMAIN Values     \* uint32 and float32 are converted like int32

ConvertInit ==
  /\ form \in Forms
  /\ value \in Values[form]
  /\ wo \in WordOrder /\ bo \in ByteOrder /\ host \in Hosts
  /\ regs = Nothing /\ back = Nothing

ToRegs ==
  /\ regs = Nothing
  /\ regs' = CASE form = "int32"   -> u32ToRegsInternal(value, wo, bo)
               [] form = "float64" -> float64ToRegs(value, wo, bo, host)
               [] form = "string"  -> stringToRegs(value)
  /\ UNCHANGED <<form, wo, bo, host, value, back>>

FromRegs ==
  /\ regs # Nothing /\ back = Nothing
  /\ back' = CASE form = "int32"   -> regsToU32Internal(regs[1], regs[2], wo, bo)
               [] form = "float64" -> regsToFloat64(regs, wo, bo, host)
               [] form = "string"  -> regsToString(regs)
  /\ UNCHANGED <<form, wo, bo, host, value, regs>>

ConvertNext == ToRegs \/ FromRegs

ConvertSpec == ConvertInit /\ [][ConvertNext]_convertVars

-----------------------------------------------------------------------------
(* A value that went to registers and back is the same value, in each of   *)
(* the four orders and on either host; a string comes back with the        *)
(* padding of its last register, so that only strings that end in zeros    *)
(* are ambiguous.  (convert.cpp:6-166.)                                    *)
ValuesComeBack ==
  back # Nothing =>
    \/ back = value
    \/ form = "string" /\ Len(value) % 2 = 1 /\ back = Append(value, Zero)

(* The registers of a number as convert.hpp:10-19 documents them: words    *)
(* from the most or from the least significant one, and in a word the high *)
(* or the low byte first.                                                  *)
DocumentedRegs ==
  LET n == Len(value) \div 2
      word(i) == SubSeq(value, 2 * i - 1, 2 * i)
  IN  [i \in 1 .. n |-> InOrder(word(IF wo = "HighWordFirst" THEN i ELSE n + 1 - i), bo)]

(* A device that expects a 32-bit number in the chosen order gets it, on   *)
(* either host.  (convert.cpp:33-56.)                                      *)
Int32InDocumentedOrder == form = "int32" /\ regs # Nothing => regs = DocumentedRegs

(* Both: what goes to the device is in its order, and what comes back is   *)
(* what went.                                                              *)
NumbersTravel == ValuesComeBack /\ Int32InDocumentedOrder

(* convert.hpp:12 of HighWordFirst: "most significant word at lowest       *)
(* register address".                                                      *)
Float64InDocumentedOrder ==
  form = "float64" /\ wo = "HighWordFirst" /\ regs # Nothing => regs = DocumentedRegs
=============================================================================
