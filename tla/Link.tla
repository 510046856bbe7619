-------------------------------- MODULE Link --------------------------------
(***************************************************************************)
(* What ModbusClient relies on in an IModbusLink (include/modbuscpp/       *)
(* link.hpp): open() and transact() take time and end, they and close()    *)
(* are never called while another call is in progress, and the call's      *)
(* outcome says whether the link is open afterwards.                       *)
(*                                                                         *)
(*   linkOpen     what isOpen() returns                                    *)
(*   linkCall     the call in progress, "none" when there is none          *)
(*   linkOutcome  the category of the last call's result                   *)
(*                                                                         *)
(* KeepsOpen is the set of categories after which a failed transact()      *)
(* leaves the link open: {} for TcpLink, {"Protocol"} for RtuLink.         *)
(***************************************************************************)
EXTENDS Naturals

CONSTANT KeepsOpen

VARIABLES linkOpen, linkCall, linkOutcome

linkVars == <<linkOpen, linkCall, linkOutcome>>

LinkTypeOK ==
  /\ linkOpen \in BOOLEAN
  /\ linkCall \in {"none", "open", "transact"}
  /\ linkOutcome \in {"None", "Transport", "Protocol"}

LinkInit ==
  /\ linkOpen = FALSE
  /\ linkCall = "none"
  /\ linkOutcome = "None"

BeginOpen ==
  /\ linkCall = "none"
  /\ linkCall' = "open"
  /\ UNCHANGED <<linkOpen, linkOutcome>>

(* isOpen() may change while open() runs: a serial port that is open is    *)
(* closed first, and has a descriptor before it is configured.             *)
OpenProceeds ==
  /\ linkCall = "open"
  /\ linkOpen' \in BOOLEAN
  /\ UNCHANGED <<linkCall, linkOutcome>>

(* A link that is open already succeeds or is opened anew. *)
EndOpen(outcome) ==
  /\ linkCall = "open"
  /\ linkCall' = "none"
  /\ linkOutcome' = outcome
  /\ linkOpen' = (outcome = "None")

Close ==
  /\ linkCall = "none"
  /\ linkOpen' = FALSE
  /\ UNCHANGED <<linkCall, linkOutcome>>

BeginTransact ==
  /\ linkCall = "none"
  /\ linkCall' = "transact"
  /\ UNCHANGED <<linkOpen, linkOutcome>>

(* A closed link answers with a Transport error without sending anything. *)
EndTransact(outcome) ==
  /\ linkCall = "transact"
  /\ linkCall' = "none"
  /\ ~linkOpen => outcome = "Transport"
  /\ linkOutcome' = outcome
  /\ linkOpen' = (linkOpen /\ outcome \in {"None"} \cup KeepsOpen)

LinkNext ==
  \/ BeginOpen \/ OpenProceeds
  \/ \E outcome \in {"None", "Transport"} : EndOpen(outcome)
  \/ Close
  \/ BeginTransact
  \/ \E outcome \in {"None", "Transport", "Protocol"} : EndTransact(outcome)

(* A call that has begun ends: open() and transact() wait with timeouts. *)
LinkCallEnds ==
  \/ \E outcome \in {"None", "Transport"} : EndOpen(outcome)
  \/ \E outcome \in {"None", "Transport", "Protocol"} : EndTransact(outcome)

LinkSafety == LinkInit /\ [][LinkNext]_linkVars

LinkSpec == LinkSafety /\ WF_linkVars(LinkCallEnds)
=============================================================================
