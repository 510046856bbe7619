--------------------------- MODULE MCPortSettings ---------------------------
(***************************************************************************)
(* Values for PortSettings: every rate the code knows, some it does not,   *)
(* and ports that were left with parity, two stop bits, seven bits or flow *)
(* control.                                                                *)
(***************************************************************************)
EXTENDS PortSettings

SomeBauds == Speeds \cup {300, 7200, 14400, 230400, 921600}

SomeForeign ==
  {[speed |-> 38400, c_cflag |-> flags] :
     flags \in {{"CS7"}, {"CS7", "PARENB", "PARODD", "CSTOPB"}, {"CS8", "CREAD", "CSTOPB", "CRTSCTS"}}}
=============================================================================
