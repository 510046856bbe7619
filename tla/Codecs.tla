------------------------------- MODULE Codecs -------------------------------
(***************************************************************************)
(* The parts of the library that compute and keep no state, for TLC to     *)
(* check in one go: requests and replies against the test server, the      *)
(* conversions of numbers and strings, the crc of RTU frames, and the      *)
(* settings and silences of a serial port.  They do not interact: part     *)
(* says which of them is at work, the variables of the others keep one     *)
(* value.                                                                  *)
(***************************************************************************)
EXTENDS PduExchange, Convert, Crc, PortSettings

VARIABLE part

vars == <<part, exchangeVars, convertVars, crcVars, settingsVars>>

ExchangeIdle == memory = NoMemory /\ last = NoResult

ConvertIdle ==
  /\ form = "string" /\ value = <<Zero>> /\ wo = "HighWordFirst" /\ bo = "BigEndian"
  /\ host = "little" /\ regs = Nothing /\ back = Nothing

SettingsIdle ==
  /\ cfg_ = [baud |-> 9600, dataBits |-> 8, parity |-> "None", stopBits |-> 1]
  /\ tty = [speed |-> 9600, c_cflag |-> {}] /\ configured = FALSE

Init ==
  /\ part \in {"exchange", "convert", "crc", "settings"}
  /\ CrcInit
  /\ IF part = "exchange" THEN ExchangeInit ELSE ExchangeIdle
  /\ IF part = "convert" THEN ConvertInit ELSE ConvertIdle
  /\ IF part = "settings" THEN SettingsInit ELSE SettingsIdle

Next ==
  /\ UNCHANGED part
  /\ \/ /\ part = "exchange" /\ ExchangeNext
        /\ UNCHANGED <<convertVars, crcVars, settingsVars>>
     \/ /\ part = "convert" /\ ConvertNext
        /\ UNCHANGED <<exchangeVars, crcVars, settingsVars>>
     \/ /\ part = "crc" /\ CrcNext
        /\ UNCHANGED <<exchangeVars, convertVars, settingsVars>>
     \/ /\ part = "settings" /\ SettingsNext
        /\ UNCHANGED <<exchangeVars, convertVars, crcVars>>

Spec == Init /\ [][Next]_vars
=============================================================================
