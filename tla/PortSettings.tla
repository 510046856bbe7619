---------------------------- MODULE PortSettings ----------------------------
(***************************************************************************)
(* The settings of a serial port on POSIX (configurePort of                *)
(* src/rtu_link.cpp) and the silences RtuLink derives from them (t35_ and  *)
(* t15).                                                                   *)
(*                                                                         *)
(* A port keeps the settings of its last user, so open() starts from any.  *)
(* c_cflag is the set of its flags that the code or cfmakeraw() looks at,  *)
(* the size of a character among them, and CRTSCTS, which neither does.    *)
(* Times are milliseconds; the floating point of computeT35 is exact for   *)
(* these numbers.                                                          *)
(*                                                                         *)
(* dataBits and stopBits are bytes that the code does not check; here they *)
(* are sizes of a character.  Five data bits are left out: the pause would *)
(* be 2 ms at 4800 baud, and a character, of eight bits all the same, takes*)
(* a little more.                                                          *)
(***************************************************************************)
EXTENDS Integers, FiniteSetsExt

CONSTANTS
  Bauds,       \* values of RtuConfig::baud
  Foreign      \* settings that other programs leave on the port

Speeds   == {1200, 2400, 4800, 9600, 19200, 38400, 57600, 115200}
Sizes    == {"CS5", "CS6", "CS7", "CS8"}
Flags    == Sizes \cup {"CREAD", "CLOCAL", "PARENB", "PARODD", "CSTOPB", "CRTSCTS"}
Settings == [speed : Nat, c_cflag : SUBSET Flags]
RtuConfigs == [baud : Bauds, dataBits : 6 .. 8, parity : {"None", "Even", "Odd"},
               stopBits : {1, 2}]

ASSUME SettingsAssumption == Bauds \subseteq Nat \ {0} /\ Foreign \subseteq Settings

VARIABLES
  cfg_,         \* RtuLink's configuration
  tty,          \* the settings of the port
  configured    \* whether the last to set them was configurePort

settingsVars == <<cfg_, tty, configured>>

-----------------------------------------------------------------------------
bitsPerChar(c) == 1 + c.dataBits + c.stopBits + (IF c.parity = "None" THEN 0 ELSE 1)

(* Mutant: rounded down instead of to the nearest. *)
computeT35_Down(c) == Max({1, (3500 * bitsPerChar(c)) \div c.baud})

(* 3.5 characters, to the nearest millisecond and at least 1. *)
computeT35(c) == Max({1, (7000 * bitsPerChar(c) + c.baud) \div (2 * c.baud)})

t35_ == computeT35(cfg_)

HalfOf(t35) == Max({2, t35 \div 2})

(* The pause that ends a response. *)
t15 == HalfOf(t35_)

(* A rate that is not in the list becomes 9600. *)
SpeedOf(baud) == IF baud \in Speeds THEN baud ELSE 9600

WithParity(flags, parity) ==
  CASE parity = "Even" -> (flags \cup {"PARENB"}) \ {"PARODD"}
    [] parity = "Odd"  -> flags \cup {"PARENB", "PARODD"}
    [] parity = "None" -> flags \ {"PARENB"}

(* Mutant: two stop bits stay when one is configured. *)
WithStopBits_OnlySets(flags, stopBits) ==
  IF stopBits = 2 THEN flags \cup {"CSTOPB"} ELSE flags

WithStopBits(flags, stopBits) ==
  IF stopBits = 2 THEN flags \cup {"CSTOPB"} ELSE flags \ {"CSTOPB"}

(* External: cfmakeraw() of termios turns off parity and sets eight bits.  *)
cfmakeraw(flags) == (flags \ (Sizes \cup {"PARENB"})) \cup {"CS8"}

(* dataBits is not looked at. *)
configurePort(c, old) ==
  LET eightBits == (old.c_cflag \ Sizes) \cup {"CS8", "CREAD", "CLOCAL"}
  IN  [speed   |-> SpeedOf(c.baud),
       c_cflag |-> cfmakeraw(WithStopBits(WithParity(eightBits, c.parity), c.stopBits))]

-----------------------------------------------------------------------------
SettingsInit ==
  /\ cfg_ \in RtuConfigs
  /\ tty \in Foreign
  /\ configured = FALSE

(* open() of a port that can be configured. *)
Configure ==
  /\ tty' = configurePort(cfg_, tty)
  /\ configured' = TRUE
  /\ UNCHANGED cfg_

(* External: between close() and open() another program uses the port. *)
OthersConfigure ==
  /\ configured
  /\ tty' \in Foreign
  /\ configured' = FALSE
  /\ UNCHANGED cfg_

SettingsNext == Configure \/ OthersConfigure

SettingsSpec == SettingsInit /\ [][SettingsNext]_settingsVars

-----------------------------------------------------------------------------
(* The bits a character takes on the line. *)
BitsOnTheLine ==
  1 + 8 + (IF "PARENB" \in tty.c_cflag THEN 1 ELSE 0)
        + (IF "CSTOPB" \in tty.c_cflag THEN 2 ELSE 1)

(* The format of a character is written by open() and not inherited from   *)
(* the port's last user.  The rate is the configured one, or 9600 for one  *)
(* that the code does not know; the stop bits are the configured ones; a   *)
(* character has eight bits, whatever dataBits is; parity is not checked   *)
(* where none is configured; the port can receive.  It is not claimed of   *)
(* CRTSCTS, which nothing clears: flow control of the last user stays.     *)
(* (rtu_link.cpp:166-190.)                                                 *)
OldFormatDoesNotStay ==
  configured =>
    /\ tty.speed = SpeedOf(cfg_.baud)
    /\ "CSTOPB" \in tty.c_cflag <=> cfg_.stopBits = 2
    /\ tty.c_cflag \cap Sizes = {"CS8"}
    /\ "PARENB" \in tty.c_cflag => cfg_.parity # "None"
    /\ {"CREAD", "CLOCAL"} \subseteq tty.c_cflag

(* A response is not cut between two bytes that follow each other: the     *)
(* pause that ends it, half of a rounded silence, is longer than a         *)
(* character takes on the line, also when the configured rate is not the   *)
(* one the port got.  (rtu_link.cpp:31-43, 168-176, 303-304.)              *)
PauseOutlastsACharacter ==
  configured => t15 * tty.speed >= 1000 * BitsOnTheLine

(* The silence is 3.5 characters of the configured rate and format, as     *)
(* rtu_link.hpp:25 documents, for every rate: half a millisecond short at  *)
(* most, and half a millisecond long at most unless it is the least of 1.  *)
(* (rtu_link.cpp:31-43.)                                                   *)
SilenceIsOfTheConfiguration ==
  /\ (2 * t35_ + 1) * cfg_.baud >= 7000 * bitsPerChar(cfg_)
  /\ t35_ > 1 => (2 * t35_ - 1) * cfg_.baud <= 7000 * bitsPerChar(cfg_)

(* It is 3.5 characters of the line as well, up to the same half           *)
(* millisecond, when the port is no slower than configured and its         *)
(* characters are no longer.  It is not otherwise: a rate above 9600 that  *)
(* is not in the list runs at 9600, and seven data bits without parity are *)
(* eight on the line.  (rtu_link.cpp:31-43, 168-180, 274.)                 *)
SilenceIsLongEnough ==
  configured /\ tty.speed >= cfg_.baud /\ BitsOnTheLine <= bitsPerChar(cfg_) =>
    (2 * t35_ + 1) * tty.speed >= 7000 * BitsOnTheLine

(* What the code derives from its configuration: the silence is that of    *)
(* the configuration, and that of the line where the line is as quick as   *)
(* configured; the pause is long enough on every line.                     *)
SilencesFitTheLine ==
  /\ PauseOutlastsACharacter
  /\ SilenceIsOfTheConfiguration
  /\ SilenceIsLongEnough

(* The port checks parity exactly when it is configured to: the character  *)
(* format, of which rtu_link.hpp:25 documents t3.5 as "for the configured  *)
(* baud rate and character format", is the one the port is given.          *)
(* (rtu_link.cpp:182-189.)                                                 *)
ParityIsAsConfigured ==
  configured => ("PARENB" \in tty.c_cflag <=> cfg_.parity # "None")
=============================================================================
