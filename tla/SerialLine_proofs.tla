-------------------------- MODULE SerialLine_proofs --------------------------
(***************************************************************************)
(* Theorems about what RtuLink puts on a serial line: the settings and     *)
(* silences of PortSettings, for every rate a caller may configure and     *)
(* every state another program may leave a port in, and the crc of Crc,    *)
(* for frames of every length.                                             *)
(*                                                                         *)
(* The second half goes from one shift of the crc to eight, from there to  *)
(* a turn of its loop, and by induction over the turns to a frame.  An     *)
(* induction is over a set of numbers (InductiveSetIsNat).                 *)
(***************************************************************************)
EXTENDS PortSettings, Crc, SequenceTheorems, WellFoundedInduction, TLAPS

(* Of two integers, Max picks one, and neither exceeds it.                 *)
LEMMA MaxOfTwo ==
  ASSUME NEW a \in Int, NEW b \in Int
  PROVE  Max({a, b}) \in {a, b} /\ a <= Max({a, b}) /\ b <= Max({a, b})
BY DEF Max

(* What configurePort() writes of the format does not depend on what it    *)
(* finds: eight bits, both directions, the configured stop bits, and no    *)
(* parity.                                                                 *)
LEMMA FlagsWritten ==
  ASSUME NEW c \in RtuConfigs, NEW old \in Settings
  PROVE  LET flags == configurePort(c, old).c_cflag
         IN  /\ flags \in SUBSET Flags /\ flags \cap Sizes = {"CS8"}
             /\ "CSTOPB" \in flags <=> c.stopBits = 2
             /\ {"CREAD", "CLOCAL"} \subseteq flags /\ "PARENB" \notin flags
<1> DEFINE eightBits == (old.c_cflag \ Sizes) \cup {"CS8", "CREAD", "CLOCAL"}
           parity    == WithParity(eightBits, c.parity)
           stop      == WithStopBits(parity, c.stopBits)
<1>1. eightBits \subseteq Flags
  BY DEF Settings, Flags, Sizes
<1>2. {"CREAD", "CLOCAL"} \subseteq parity /\ parity \subseteq Flags
  <2>1. c.parity \in {"None", "Even", "Odd"}
    BY DEF RtuConfigs
  <2> QED
    BY <1>1, <2>1 DEF WithParity, Flags, Sizes
<1>3. /\ {"CREAD", "CLOCAL"} \subseteq stop /\ stop \subseteq Flags
      /\ "CSTOPB" \in stop <=> c.stopBits = 2
  <2> HIDE DEF parity
  <2> QED
    BY <1>2 DEF WithStopBits, Flags, Sizes
<1>4. configurePort(c, old).c_cflag = (stop \ (Sizes \cup {"PARENB"})) \cup {"CS8"}
  BY DEF configurePort, cfmakeraw
<1> HIDE DEF stop
<1> QED
  BY <1>3, <1>4 DEF Flags, Sizes

(* A rate that is configured is the rate of the port, or the port has 9600.*)
LEMMA SpeedWritten ==
  ASSUME NEW c \in RtuConfigs, NEW old \in Settings
  PROVE  /\ configurePort(c, old).speed = SpeedOf(c.baud)
         /\ SpeedOf(c.baud) \in Speeds /\ (c.baud \in Speeds => SpeedOf(c.baud) = c.baud)
BY DEF configurePort, SpeedOf, Speeds

-----------------------------------------------------------------------------
(* A rate is a positive number, and a character has eight bits at least.   *)
LEMMA ConfigTypes ==
  ASSUME NEW c \in RtuConfigs
  PROVE  /\ c.baud \in Nat \ {0} /\ bitsPerChar(c) \in 8 .. 12
         /\ c.stopBits \in {1, 2} /\ bitsPerChar(c) >= 7 + c.stopBits
<1>1. /\ c.baud \in Bauds /\ c.dataBits \in 6 .. 8 /\ c.parity \in {"None", "Even", "Odd"}
      /\ c.stopBits \in {1, 2}
  BY DEF RtuConfigs
<1>2. c.baud \in Nat \ {0}
  BY <1>1, SettingsAssumption DEF SettingsAssumption
<1>3. bitsPerChar(c) = 1 + c.dataBits + c.stopBits + (IF c.parity = "None" THEN 0 ELSE 1)
  BY DEF bitsPerChar
<1>4. bitsPerChar(c) \in 8 .. 12 /\ bitsPerChar(c) >= 7 + c.stopBits
  <2>1. CASE c.parity = "None"
    BY <1>1, <1>3, <2>1
  <2>2. CASE c.parity # "None"
    BY <1>1, <1>3, <2>2
  <2> QED
    BY <2>1, <2>2
<1> QED
  BY <1>1, <1>2, <1>4

(* A quotient to the nearest integer is off by a half at most.             *)
LEMMA Nearest ==
  ASSUME NEW a \in Nat, NEW b \in Nat, b > 0
  PROVE  LET q == (a + b) \div (2 * b)
         IN  q \in Nat /\ (2 * q + 1) * b >= a /\ (2 * q - 1) * b <= a
<1>1. PICK d \in Nat : d = 2 * b /\ d > 0
  OBVIOUS
<1>2. PICK n \in Nat : n = a + b
  OBVIOUS
<1>3. PICK q \in Int : q = n \div d
  BY <1>1
<1>4. n = d * q + (n % d) /\ n % d \in 0 .. d - 1
  BY <1>1, <1>3
<1>5. PICK rest \in 0 .. d - 1 : n = d * q + rest
  BY <1>4
<1>6. d * q = 2 * b * q /\ (2 * q + 1) * b = 2 * b * q + b /\ (2 * q - 1) * b = 2 * b * q - b
  BY <1>1
<1>7. PICK product \in Int : product = 2 * b * q
  OBVIOUS
<1>8. (2 * q + 1) * b >= a /\ (2 * q - 1) * b <= a
  <2>1. product + rest = a + b /\ rest \in 0 .. 2 * b - 1
    BY <1>1, <1>2, <1>5, <1>6, <1>7
  <2>2. product + b >= a /\ product - b <= a
    BY <2>1
  <2>. QED  BY <1>6, <1>7, <2>2
<1>9. q \in Nat
  BY <1>1, <1>3
<1> QED
  BY <1>1, <1>2, <1>3, <1>8, <1>9

(* The silence of any rate is 3.5 characters to the nearest millisecond,   *)
(* or the least of one.                                                    *)
LEMMA SilenceRounds ==
  ASSUME NEW c \in RtuConfigs
  PROVE  /\ computeT35(c) \in Nat
         /\ (2 * computeT35(c) + 1) * c.baud >= 7000 * bitsPerChar(c)
         /\ computeT35(c) > 1 => (2 * computeT35(c) - 1) * c.baud <= 7000 * bitsPerChar(c)
<1>1. c.baud \in Nat /\ c.baud > 0 /\ bitsPerChar(c) \in Nat
  BY ConfigTypes
<1>2. PICK a \in Nat : a = 7000 * bitsPerChar(c)
  BY <1>1
<1>3. PICK b \in Nat : b = c.baud /\ b > 0
  BY <1>1
<1>4. PICK q : q = (a + b) \div (2 * b)
  OBVIOUS
<1>5. q \in Nat /\ (2 * q + 1) * b >= a /\ (2 * q - 1) * b <= a
  BY <1>3, <1>4, Nearest
<1>6. PICK t : t = computeT35(c)
  OBVIOUS
<1>7. t = Max({1, q})
  BY <1>2, <1>3, <1>4, <1>6 DEF computeT35
<1>8. t \in {1, q} /\ t >= 1 /\ t >= q
  <2>1. PICK least \in Int : least = 1
    OBVIOUS
  <2>2. q \in Int /\ t = Max({least, q})
    BY <1>5, <1>7, <2>1
  <2>3. t \in {least, q} /\ least <= t /\ q <= t
    BY <2>2, MaxOfTwo
  <2>. QED  BY <2>1, <2>2, <2>3
<1>9. (2 * t + 1) * b >= a
  <2>1. 2 * t + 1 >= 2 * q + 1 /\ t \in Nat
    BY <1>5, <1>8
  <2>2. (2 * t + 1) * b >= (2 * q + 1) * b
    BY <1>3, <1>5, <2>1
  <2>. QED  BY <1>2, <1>3, <1>5, <2>1, <2>2
<1>10. t > 1 => (2 * t - 1) * b <= a
  BY <1>5, <1>8
<1>. QED  BY <1>2, <1>3, <1>5, <1>6, <1>8, <1>9, <1>10

(* Half of the silence is two milliseconds or more, which are a character  *)
(* at 9600 and above; below it is counted in characters.                   *)
LEMMA HalfIsAPause ==
  ASSUME NEW t35 \in Nat
  PROVE  HalfOf(t35) \in Nat /\ HalfOf(t35) >= 2 /\ 2 * HalfOf(t35) >= t35 - 1
<1>1. t35 \div 2 \in Nat /\ 2 * (t35 \div 2) >= t35 - 1
  OBVIOUS
<1>2. HalfOf(t35) \in {2, t35 \div 2} /\ HalfOf(t35) >= 2 /\ HalfOf(t35) >= t35 \div 2
  <2> DEFINE half == t35 \div 2
  <2>1. half \in Int
    BY <1>1
  <2>2. HalfOf(t35) = Max({2, half})
    BY DEF HalfOf
  <2> HIDE DEF half
  <2>3. Max({2, half}) \in {2, half} /\ 2 <= Max({2, half}) /\ half <= Max({2, half})
    BY <2>1, MaxOfTwo
  <2>4. HalfOf(t35) \in {2, half} /\ HalfOf(t35) >= 2 /\ HalfOf(t35) >= half
    BY <2>1, <2>2, <2>3
  <2> QED
    BY <2>4 DEF half
<1> QED
  BY <1>1, <1>2

-----------------------------------------------------------------------------
(* What is true of a port and its user in every state; of a port that      *)
(* configurePort() was the last to set, what it has written.               *)
SettingsInv ==
  /\ cfg_ \in RtuConfigs /\ tty \in Settings /\ configured \in BOOLEAN
  /\ configured =>
       /\ tty.speed = SpeedOf(cfg_.baud)
       /\ tty.c_cflag \cap Sizes = {"CS8"}
       /\ "CSTOPB" \in tty.c_cflag <=> cfg_.stopBits = 2
       /\ {"CREAD", "CLOCAL"} \subseteq tty.c_cflag /\ "PARENB" \notin tty.c_cflag

(* Whoever used the port before, and however often.                        *)
THEOREM SettingsInvariance == SettingsSpec => []SettingsInv
<1>1. SettingsInit => SettingsInv
  BY SettingsAssumption DEF SettingsInit, SettingsInv, SettingsAssumption
<1>2. SettingsInv /\ [SettingsNext]_settingsVars => SettingsInv'
  <2> SUFFICES ASSUME SettingsInv, [SettingsNext]_settingsVars PROVE SettingsInv'
    OBVIOUS
  <2>1. CASE UNCHANGED settingsVars
    BY <2>1 DEF SettingsInv, settingsVars
  <2>2. CASE Configure
    <3>1. tty' = configurePort(cfg_, tty) /\ cfg_' = cfg_ /\ configured' = TRUE
      BY <2>2 DEF Configure
    <3>2. configurePort(cfg_, tty) \in Settings
      <4>1. /\ configurePort(cfg_, tty).c_cflag \in SUBSET Flags
            /\ configurePort(cfg_, tty).speed \in Nat
        BY FlagsWritten, SpeedWritten DEF SettingsInv, Speeds
      <4>2. configurePort(cfg_, tty) = [speed   |-> configurePort(cfg_, tty).speed,
                                        c_cflag |-> configurePort(cfg_, tty).c_cflag]
        BY DEF configurePort
      <4> QED
        BY <4>1, <4>2 DEF Settings
    <3> QED
      BY <3>1, <3>2, FlagsWritten, SpeedWritten DEF SettingsInv
  <2>3. CASE OthersConfigure
    BY <2>3, SettingsAssumption DEF SettingsInv, OthersConfigure, SettingsAssumption
  <2> QED
    BY <2>1, <2>2, <2>3 DEF SettingsNext
<1> QED
  BY <1>1, <1>2, PTL DEF SettingsSpec

(* The format of a configured port is written and not inherited, whatever  *)
(* another program has left on it: the rate that goes with the configured  *)
(* one, its stop bits, eight data bits, no parity where none is configured *)
(* (rtu_link.cpp:166-190).                                                 *)
THEOREM FormatIsWritten == SettingsSpec => []OldFormatDoesNotStay
<1>1. SettingsInv => OldFormatDoesNotStay
  BY DEF SettingsInv, OldFormatDoesNotStay
<1> QED
  BY <1>1, SettingsInvariance, PTL

(* For every rate a caller may configure, known to the code or not, the    *)
(* pause that ends a response outlasts a character on the line, and the    *)
(* silence before a request is, to the nearest millisecond, 3.5 characters *)
(* of the configured rate and format; of the line's it is so when the port *)
(* is no slower and its characters no longer than configured               *)
(* (rtu_link.cpp:31-43, 168-180, 274, 303-304).                            *)
THEOREM SilencesFit == SettingsSpec => []SilencesFitTheLine
<1>1. ASSUME SettingsInv, configured
      PROVE  /\ cfg_ \in RtuConfigs
             /\ tty.speed = SpeedOf(cfg_.baud) /\ SpeedOf(cfg_.baud) \in Speeds
             /\ BitsOnTheLine = 9 + cfg_.stopBits /\ cfg_.stopBits \in {1, 2}
  BY <1>1, SpeedWritten, ConfigTypes DEF SettingsInv, BitsOnTheLine
<1>2. SettingsInv => PauseOutlastsACharacter
  <2>. SUFFICES ASSUME SettingsInv, configured
                PROVE  t15 * tty.speed >= 1000 * BitsOnTheLine
    BY DEF PauseOutlastsACharacter
  <2>1. t15 = HalfOf(computeT35(cfg_)) /\ computeT35(cfg_) \in Nat
    BY <1>1, SilenceRounds DEF t15, t35_
  <2>2. t15 \in Nat /\ t15 >= 2 /\ 2 * t15 >= computeT35(cfg_) - 1
    BY <2>1, HalfIsAPause
  <2>3. CASE tty.speed \in {1200, 2400, 4800}
    <3>1. cfg_.baud = tty.speed
      BY <1>1, <2>3 DEF SpeedOf
    <3>2. (2 * computeT35(cfg_) + 1) * cfg_.baud >= 7000 * bitsPerChar(cfg_)
      BY <1>1, SilenceRounds
    <3>3. bitsPerChar(cfg_) \in 8 .. 12 /\ bitsPerChar(cfg_) >= 7 + cfg_.stopBits
      BY <1>1, ConfigTypes
    <3>. QED  BY <1>1, <2>1, <2>2, <2>3, <3>1, <3>2, <3>3
  <2>4. CASE tty.speed \notin {1200, 2400, 4800}
    <3>1. tty.speed \in Nat /\ tty.speed >= 9600
      BY <1>1, <2>4 DEF Speeds
    <3>2. t15 * tty.speed \in Int /\ t15 * tty.speed >= 2 * 9600
      BY <2>2, <3>1
    <3>3. 1000 * BitsOnTheLine <= 11000 /\ BitsOnTheLine \in Int
      BY <1>1
    <3>. QED  BY <3>2, <3>3
  <2>. QED  BY <2>3, <2>4
<1>3. SettingsInv => SilenceIsOfTheConfiguration
  BY SilenceRounds DEF SettingsInv, SilenceIsOfTheConfiguration, t35_
<1>4. SettingsInv => SilenceIsLongEnough
  <2>. SUFFICES ASSUME SettingsInv, configured, tty.speed >= cfg_.baud,
                       BitsOnTheLine <= bitsPerChar(cfg_)
                PROVE  (2 * t35_ + 1) * tty.speed >= 7000 * BitsOnTheLine
    BY DEF SilenceIsLongEnough
  <2>1. PICK steps \in Nat : steps = 2 * t35_ + 1
    BY <1>1, SilenceRounds DEF t35_
  <2>2. steps * cfg_.baud >= 7000 * bitsPerChar(cfg_)
    BY <1>1, <2>1, SilenceRounds DEF t35_
  <2>3. cfg_.baud \in Nat /\ tty.speed \in Nat /\ bitsPerChar(cfg_) \in Nat /\ BitsOnTheLine \in Nat
    BY <1>1, ConfigTypes DEF Speeds
  <2>4. /\ steps * tty.speed >= steps * cfg_.baud
        /\ steps * tty.speed \in Nat /\ steps * cfg_.baud \in Nat
    BY <2>3
  <2>. QED  BY <2>1, <2>2, <2>3, <2>4
<1>5. SettingsInv => SilencesFitTheLine
  BY <1>2, <1>3, <1>4 DEF SilencesFitTheLine
<1> QED
  BY <1>5, SettingsInvariance, PTL

-----------------------------------------------------------------------------
(* The crc of a frame *)

(* A set of natural numbers that is not empty has a least element.         *)
LEMMA LeastNumber ==
  ASSUME NEW T \in SUBSET Nat, T # {}
  PROVE  \E n \in T : \A m \in T : n <= m
<1> DEFINE R == OpToRel(<, Nat)
<1>1. IsWellFoundedOn(R, Nat)
  BY NatLessThanWellFounded
<1>2. \A m, n \in Nat : m < n => <<m, n>> \in R
  BY DEF OpToRel
<1> HIDE DEF R
<1>3. PICK n \in T : \A m \in T : ~(<<m, n>> \in R)
  BY <1>1, WFMin
<1>4. ASSUME NEW m \in T PROVE n <= m
  <2>1. ~(m < n) /\ m \in Nat /\ n \in Nat
    BY <1>2, <1>3
  <2> QED
    BY <2>1
<1> QED
  BY <1>4

(* Induction over the natural numbers, with a set for the predicate.       *)
LEMMA InductiveSetIsNat ==
  ASSUME NEW S \in SUBSET Nat, 0 \in S, \A n \in S : n + 1 \in S
  PROVE  S = Nat
<1> SUFFICES ASSUME Nat \ S # {} PROVE FALSE
  OBVIOUS
<1>1. PICK n \in Nat \ S : \A m \in Nat \ S : n <= m
  BY LeastNumber
<1>2. n - 1 \in Nat /\ n - 1 \notin Nat \ S
  BY <1>1
<1> QED
  BY <1>1, <1>2

-----------------------------------------------------------------------------
(* The values of a uint8_t and of a uint16_t.                              *)
Bytes8 == SUBSET ByteBits
Words  == SUBSET WordBits

(* Exclusive or is a group in which each element is its own inverse.       *)
LEMMA XorLaws ==
  ASSUME NEW a, NEW b, NEW c
  PROVE  /\ Xor(a, b) = Xor(b, a)
         /\ Xor(a, Xor(b, c)) = Xor(Xor(a, b), c)
         /\ Xor(a, {}) = a
         /\ Xor(a, a) = {}
         /\ Xor(a, b) = {} <=> a = b
         /\ Xor(a, b) = a <=> b = {}
BY DEF Xor

(* A word exclusive or a word is a word.                                   *)
LEMMA XorIsWord ==
  ASSUME NEW a \in Words, NEW b \in Words
  PROVE  Xor(a, b) \in Words
BY DEF Xor, Words

(* A byte is a word, as uint16_t(byte) is in C++.                          *)
LEMMA BytesAreWords ==
  ASSUME NEW b \in Bytes8
  PROVE  b \in Words
BY DEF Bytes8, Words, ByteBits, WordBits

(* The bits of a shifted word.                                             *)
LEMMA BitAfterShift ==
  ASSUME NEW c \in Words
  PROVE  /\ ShiftBit(c) \in Words
         /\ \A k \in WordBits :
              k \in ShiftBit(c) <=> ~(k + 1 \in c <=> (0 \in c /\ k \in Poly))
<1>1. Poly \in Words
  BY DEF Poly, Words, WordBits
<1>2. {k - 1 : k \in c \ {0}} \in Words
  BY DEF Words, WordBits
<1>3. \A k \in WordBits : k \in {j - 1 : j \in c \ {0}} <=> k + 1 \in c
  <2> SUFFICES ASSUME NEW k \in WordBits
               PROVE  k \in {j - 1 : j \in c \ {0}} <=> k + 1 \in c
    OBVIOUS
  <2>1. ASSUME k + 1 \in c PROVE k \in {j - 1 : j \in c \ {0}}
    <3>1. k + 1 \in c \ {0} /\ k = (k + 1) - 1
      BY <2>1 DEF WordBits
    <3> QED
      BY <3>1
  <2>2. ASSUME NEW j \in c \ {0}, k = j - 1 PROVE k + 1 \in c
    BY <2>2 DEF Words, WordBits
  <2> QED
    BY <2>1, <2>2
<1> DEFINE Moved == {k - 1 : k \in c \ {0}}
<1> HIDE DEF Moved
<1>4. ShiftBit(c) = Xor(Moved, IF 0 \in c THEN Poly ELSE {})
  BY DEF ShiftBit, Moved
<1>5. Moved \in Words /\ \A k \in WordBits : k \in Moved <=> k + 1 \in c
  BY <1>2, <1>3 DEF Moved
<1>6. CASE 0 \in c
  BY <1>1, <1>4, <1>5, <1>6 DEF Xor, Words
<1>7. CASE 0 \notin c
  BY <1>4, <1>5, <1>7 DEF Xor, Words
<1> QED
  BY <1>6, <1>7

(* Shifting is linear.                                                     *)
LEMMA ShiftBitIsLinear ==
  ASSUME NEW c \in Words, NEW d \in Words
  PROVE  ShiftBit(Xor(c, d)) = Xor(ShiftBit(c), ShiftBit(d))
<1>1. Xor(c, d) \in Words
  BY XorIsWord
<1>2. ShiftBit(c) \in Words /\ ShiftBit(d) \in Words /\ ShiftBit(Xor(c, d)) \in Words
  BY <1>1, BitAfterShift
<1>3. Xor(ShiftBit(c), ShiftBit(d)) \in Words
  BY <1>2, XorIsWord
<1>4. \A k \in WordBits :
        /\ k \in ShiftBit(c) <=> ~(k + 1 \in c <=> (0 \in c /\ k \in Poly))
        /\ k \in ShiftBit(d) <=> ~(k + 1 \in d <=> (0 \in d /\ k \in Poly))
        /\ k \in ShiftBit(Xor(c, d)) <=>
             ~(k + 1 \in Xor(c, d) <=> (0 \in Xor(c, d) /\ k \in Poly))
  BY <1>1, BitAfterShift
<1>5. \A a, b, k : k \in Xor(a, b) <=> ~(k \in a <=> k \in b)
  BY DEF Xor
<1>6. ASSUME NEW k \in WordBits
      PROVE  k \in ShiftBit(Xor(c, d)) <=> k \in Xor(ShiftBit(c), ShiftBit(d))
  BY <1>4, <1>5
<1> QED
  BY <1>2, <1>3, <1>6 DEF Words

(* And loses nothing: bit 15 shows whether bit 0 was shifted out.          *)
LEMMA ShiftBitIsInjective ==
  ASSUME NEW c \in Words, NEW d \in Words, ShiftBit(c) = ShiftBit(d)
  PROVE  c = d
<1>1. \A k \in WordBits :
        (~(k + 1 \in c <=> (0 \in c /\ k \in Poly))) <=>
        (~(k + 1 \in d <=> (0 \in d /\ k \in Poly)))
  BY BitAfterShift
<1>2. 15 \in WordBits /\ 15 \in Poly /\ 15 + 1 \notin c /\ 15 + 1 \notin d
  BY DEF WordBits, Poly, Words
<1>3. 0 \in c <=> 0 \in d
  BY <1>1, <1>2
<1>4. \A k \in WordBits : k + 1 \in c <=> k + 1 \in d
  BY <1>1, <1>3
<1>5. ASSUME NEW k \in WordBits PROVE k \in c <=> k \in d
  <2>1. CASE k = 0
    BY <1>3, <2>1
  <2>2. CASE k # 0
    <3>1. k - 1 \in WordBits /\ (k - 1) + 1 = k
      BY <2>2 DEF WordBits
    <3> QED
      BY <1>4, <3>1
  <2> QED
    BY <2>1, <2>2
<1> QED
  BY <1>5 DEF Words

(* Two shifts are linear and lose nothing either.                          *)
LEMMA ShiftTwoLaws ==
  ASSUME NEW c \in Words, NEW d \in Words
  PROVE  /\ ShiftTwo(c) \in Words
         /\ ShiftTwo(Xor(c, d)) = Xor(ShiftTwo(c), ShiftTwo(d))
         /\ ShiftTwo(c) = ShiftTwo(d) => c = d
<1>1. ShiftBit(c) \in Words /\ ShiftBit(d) \in Words
  BY BitAfterShift
<1>2. ShiftBit(ShiftBit(c)) \in Words
  BY <1>1, BitAfterShift
<1>3. ShiftBit(Xor(c, d)) = Xor(ShiftBit(c), ShiftBit(d))
  BY ShiftBitIsLinear
<1>4. ShiftBit(Xor(ShiftBit(c), ShiftBit(d))) = Xor(ShiftBit(ShiftBit(c)), ShiftBit(ShiftBit(d)))
  BY <1>1, ShiftBitIsLinear
<1>5. ShiftBit(ShiftBit(c)) = ShiftBit(ShiftBit(d)) => c = d
  BY <1>1, ShiftBitIsInjective
<1> QED
  BY <1>2, <1>3, <1>4, <1>5 DEF ShiftTwo

(* What holds of one shift holds of eight.                                 *)
LEMMA ShiftByteLaws ==
  ASSUME NEW c \in Words, NEW d \in Words
  PROVE  /\ ShiftByte(c) \in Words
         /\ ShiftByte(Xor(c, d)) = Xor(ShiftByte(c), ShiftByte(d))
         /\ ShiftByte(c) = ShiftByte(d) => c = d
<1> DEFINE c2 == ShiftTwo(c)   c4 == ShiftTwo(c2)   c6 == ShiftTwo(c4)
           d2 == ShiftTwo(d)   d4 == ShiftTwo(d2)   d6 == ShiftTwo(d4)
<1> HIDE DEF c2, d2, c4, d4, c6, d6
<1>1. /\ c2 \in Words /\ d2 \in Words
      /\ ShiftTwo(Xor(c, d)) = Xor(c2, d2) /\ (c2 = d2 => c = d)
  BY ShiftTwoLaws DEF c2, d2
<1>2. /\ c4 \in Words /\ d4 \in Words
      /\ ShiftTwo(Xor(c2, d2)) = Xor(c4, d4) /\ (c4 = d4 => c2 = d2)
  BY <1>1, ShiftTwoLaws DEF c4, d4
<1>3. /\ c6 \in Words /\ d6 \in Words
      /\ ShiftTwo(Xor(c4, d4)) = Xor(c6, d6) /\ (c6 = d6 => c4 = d4)
  BY <1>2, ShiftTwoLaws DEF c6, d6
<1>4. /\ ShiftTwo(c6) \in Words
      /\ ShiftTwo(Xor(c6, d6)) = Xor(ShiftTwo(c6), ShiftTwo(d6))
      /\ ShiftTwo(c6) = ShiftTwo(d6) => c6 = d6
  BY <1>3, ShiftTwoLaws
<1>5. ShiftByte(c) = ShiftTwo(c6) /\ ShiftByte(d) = ShiftTwo(d6)
  BY DEF ShiftByte, c2, d2, c4, d4, c6, d6
<1>6. ShiftByte(Xor(c, d)) = ShiftTwo(Xor(c6, d6))
  BY <1>1, <1>2, <1>3 DEF ShiftByte
<1> QED
  BY <1>1, <1>2, <1>3, <1>4, <1>5, <1>6

(* A byte further up in a word.                                            *)
Up(byte, n) == {k + n : k \in byte}

(* What is not in the low byte is only shifted.                            *)
LEMMA ShiftDown ==
  ASSUME NEW b \in Bytes8, NEW n \in 0 .. 7
  PROVE  ShiftBit(Up(b, n + 1)) = Up(b, n)
<1>1. 0 \notin Up(b, n + 1)
  BY DEF Up, Bytes8, ByteBits
<1>2. {k - 1 : k \in Up(b, n + 1) \ {0}} = Up(b, n)
  <2>1. ASSUME NEW k \in Up(b, n + 1) PROVE k - 1 \in Up(b, n)
    BY DEF Up, Bytes8, ByteBits
  <2>2. ASSUME NEW j \in Up(b, n) PROVE j + 1 \in Up(b, n + 1) \ {0} /\ j = (j + 1) - 1
    BY DEF Up, Bytes8, ByteBits
  <2> QED
    BY <2>1, <2>2
<1> QED
  BY <1>1, <1>2, XorLaws DEF ShiftBit

(* Eight shifts bring what is in the high byte down to the low one.        *)
LEMMA ShiftByteDown ==
  ASSUME NEW b \in Bytes8
  PROVE  ShiftByte(Up(b, 8)) = b /\ Up(b, 8) \in Words
<1>1. /\ ShiftBit(Up(b, 7 + 1)) = Up(b, 7) /\ ShiftBit(Up(b, 6 + 1)) = Up(b, 6)
      /\ ShiftBit(Up(b, 5 + 1)) = Up(b, 5) /\ ShiftBit(Up(b, 4 + 1)) = Up(b, 4)
      /\ ShiftBit(Up(b, 3 + 1)) = Up(b, 3) /\ ShiftBit(Up(b, 2 + 1)) = Up(b, 2)
      /\ ShiftBit(Up(b, 1 + 1)) = Up(b, 1) /\ ShiftBit(Up(b, 0 + 1)) = Up(b, 0)
  BY ShiftDown
<1>2. Up(b, 0) = b
  <2>1. \A k \in b : k + 0 = k
    BY DEF Bytes8, ByteBits
  <2> QED
    BY <2>1 DEF Up
<1>3. ShiftTwo(Up(b, 8)) = Up(b, 6)
  BY <1>1 DEF ShiftTwo
<1>4. ShiftTwo(Up(b, 6)) = Up(b, 4)
  BY <1>1 DEF ShiftTwo
<1>5. ShiftTwo(Up(b, 4)) = Up(b, 2)
  BY <1>1 DEF ShiftTwo
<1>6. ShiftTwo(Up(b, 2)) = b
  BY <1>1, <1>2 DEF ShiftTwo
<1>7. Up(b, 8) \in Words
  BY DEF Up, Bytes8, ByteBits, Words, WordBits
<1> QED
  BY <1>3, <1>4, <1>5, <1>6, <1>7 DEF ShiftByte

(* A word is its low and its high byte.                                    *)
LEMMA WordIsTwoBytes ==
  ASSUME NEW w \in Words
  PROVE  /\ Low(w) \in Bytes8 /\ High(w) \in Bytes8
         /\ w = Xor(Low(w), Up(High(w), 8))
<1>1. Low(w) \in Bytes8 /\ High(w) \in Bytes8
  BY DEF Low, High, Bytes8, ByteBits, Words, WordBits
<1>2. Up(High(w), 8) = w \ ByteBits
  <2>1. ASSUME NEW k \in w \ ByteBits PROVE k \in Up(High(w), 8)
    <3>1. k - 8 \in High(w) /\ k = (k - 8) + 8
      BY DEF High, Words, WordBits
    <3> QED
      BY <3>1 DEF Up
  <2>2. ASSUME NEW j \in High(w) PROVE j + 8 \in w \ ByteBits
    <3>1. PICK k \in w \ ByteBits : j = k - 8
      BY DEF High
    <3>2. j + 8 = k
      BY <3>1 DEF Words, WordBits
    <3> QED
      BY <3>2
  <2> QED
    BY <2>1, <2>2 DEF Up
<1>3. w = Xor(Low(w), w \ ByteBits)
  BY DEF Xor, Low
<1> QED
  BY <1>1, <1>2, <1>3

(* One turn of the loop is eight shifts: the entry of the table is what    *)
(* the polynomial makes of the low byte, and the high byte moves down.     *)
LEMMA TurnIsEightShifts ==
  ASSUME NEW c \in Words, NEW b \in Bytes8
  PROVE  NextCrc(c, b) = ShiftByte(Xor(c, b)) /\ ShiftByte(Xor(c, b)) \in Words
<1> DEFINE x == Xor(c, b)
<1>1. x \in Words
  BY BytesAreWords, XorIsWord
<1>2. Low(x) \in Bytes8 /\ High(x) \in Bytes8 /\ x = Xor(Low(x), Up(High(x), 8))
  BY <1>1, WordIsTwoBytes
<1>3. High(x) = High(c)
  <2>1. x \ ByteBits = c \ ByteBits
    BY DEF Xor, Bytes8
  <2> QED
    BY <2>1 DEF High
<1> HIDE DEF x
<1>4. Low(x) \in Words /\ Up(High(x), 8) \in Words /\ ShiftByte(Up(High(x), 8)) = High(x)
  BY <1>2, BytesAreWords, ShiftByteDown
<1>5. ShiftByte(Xor(Low(x), Up(High(x), 8))) = Xor(ShiftByte(Low(x)), High(x))
  BY <1>4, ShiftByteLaws
<1>6. crcEntry[Low(x)] = ShiftByte(Low(x))
  BY <1>2, TableAssumption DEF Bytes8
<1>7. ShiftByte(x) = Xor(ShiftByte(Low(x)), High(x))
  BY <1>2, <1>5
<1>8. NextCrc(c, b) = Xor(High(x), ShiftByte(Low(x)))
  BY <1>3, <1>6 DEF NextCrc, x
<1>9. NextCrc(c, b) = ShiftByte(x)
  BY <1>7, <1>8, XorLaws
<1>10. ShiftByte(x) \in Words
  BY <1>1, ShiftByteLaws
<1> QED
  BY <1>9, <1>10 DEF x
-----------------------------------------------------------------------------
(* g holds what the loop of crc16 has computed after each turn.            *)
Turns(g, s) ==
  /\ g \in [0 .. Len(s) -> Words]
  /\ g[0] = WordBits
  /\ \A n \in 1 .. Len(s) : g[n] = ShiftByte(Xor(g[n - 1], s[n]))

(* The loop can run over any bytes.                                        *)
LEMMA TurnsExist ==
  ASSUME NEW s \in Seq(Bytes8)
  PROVE  \E g : Turns(g, s)
<1> DEFINE First(g, n) == /\ g \in [0 .. n -> Words] /\ g[0] = WordBits
                          /\ \A k \in 1 .. n : g[k] = ShiftByte(Xor(g[k - 1], s[k]))
           S == {n \in Nat : n <= Len(s) => \E g : First(g, n)}
<1>0. Len(s) \in Nat /\ S \in SUBSET Nat
  OBVIOUS
<1>1. 0 \in S
  <2> DEFINE g == [n \in 0 .. 0 |-> WordBits]
  <2>1. First(g, 0)
    BY DEF Words
  <2> QED
    BY <2>1
<1>2. ASSUME NEW n \in S PROVE n + 1 \in S
  <2> HIDE DEF First
  <2>0. n \in Nat /\ (n <= Len(s) => \E g : First(g, n))
    OBVIOUS
  <2> SUFFICES ASSUME n + 1 <= Len(s) PROVE \E g : First(g, n + 1)
    BY <2>0
  <2> HIDE DEF S
  <2> USE DEF First
  <2>1. n \in Nat /\ Len(s) \in Nat /\ n <= Len(s)
    BY <1>0, <2>0
  <2>2. PICK g : First(g, n)
    BY <2>0, <2>1
  <2>3. s[n + 1] \in Bytes8
    BY <2>1
  <2> DEFINE last == ShiftByte(Xor(g[n], s[n + 1]))
             h == [k \in 0 .. n + 1 |-> IF k = n + 1 THEN last ELSE g[k]]
  <2>4. last \in Words
    BY <2>1, <2>2, <2>3, TurnIsEightShifts
  <2> HIDE DEF last
  <2>5. h \in [0 .. n + 1 -> Words]
    BY <2>1, <2>2, <2>4
  <2>6. h[0] = WordBits
    BY <2>1, <2>2
  <2>7. ASSUME NEW k \in 1 .. n + 1 PROVE h[k] = ShiftByte(Xor(h[k - 1], s[k]))
    <3>1. CASE k = n + 1
      <4>1. h[k] = last /\ h[k - 1] = g[n]
        BY <2>1, <3>1
      <4> QED
        BY <3>1, <4>1 DEF last
    <3>2. CASE k # n + 1
      <4>1. k \in 1 .. n /\ h[k] = g[k] /\ h[k - 1] = g[k - 1]
        BY <2>1, <3>2
      <4> QED
        BY <2>2, <4>1
    <3> QED
      BY <3>1, <3>2
  <2> HIDE DEF h
  <2> QED
    BY <2>5, <2>6, <2>7
<1> HIDE DEF First
<1>3. S = Nat
  <2> HIDE DEF S
  <2> QED
    BY <1>0, <1>1, <1>2, InductiveSetIsNat
<1>4. \E g : First(g, Len(s))
  <2>1. Len(s) \in S
    BY <1>0, <1>3
  <2> QED
    BY <1>0, <2>1
<1> QED
  BY <1>4 DEF First, Turns

(* The recursions of the model.                                            *)
TableLoop(c, s) ==
  c = [n \in 0 .. Len(s) |-> IF n = 0 THEN WordBits ELSE NextCrc(c[n - 1], s[n])]
BitLoop(c, s) ==
  c = [n \in 0 .. Len(s) |-> IF n = 0 THEN WordBits ELSE ShiftByte(Xor(c[n - 1], s[n]))]

(* Both have one solution, and it is the same.                             *)
LEMMA TurnsSolve ==
  ASSUME NEW s \in Seq(Bytes8), NEW g, Turns(g, s)
  PROVE  TableLoop(g, s) /\ BitLoop(g, s)
<1>1. \A n \in 0 .. Len(s) : n # 0 => n \in 1 .. Len(s) /\ n - 1 \in 0 .. Len(s)
  OBVIOUS
<1>2. \A n \in 1 .. Len(s) : NextCrc(g[n - 1], s[n]) = ShiftByte(Xor(g[n - 1], s[n]))
  <2> SUFFICES ASSUME NEW n \in 1 .. Len(s)
               PROVE  NextCrc(g[n - 1], s[n]) = ShiftByte(Xor(g[n - 1], s[n]))
    OBVIOUS
  <2>1. g[n - 1] \in Words /\ s[n] \in Bytes8
    BY DEF Turns
  <2> QED
    BY <2>1, TurnIsEightShifts
<1>3. g = [n \in 0 .. Len(s) |-> g[n]]
  BY DEF Turns
<1>4. \A n \in 0 .. Len(s) :
        /\ g[n] = IF n = 0 THEN WordBits ELSE NextCrc(g[n - 1], s[n])
        /\ g[n] = IF n = 0 THEN WordBits ELSE ShiftByte(Xor(g[n - 1], s[n]))
  BY <1>1, <1>2 DEF Turns
<1> QED
  BY <1>3, <1>4 DEF TableLoop, BitLoop

(* What solves either recursion is what Turns describes.                   *)
LEMMA OneSolution ==
  ASSUME NEW s \in Seq(Bytes8), NEW g, Turns(g, s),
         NEW c, TableLoop(c, s) \/ BitLoop(c, s)
  PROVE  c[Len(s)] = g[Len(s)]
<1> DEFINE S == {n \in Nat : n <= Len(s) => c[n] = g[n]}
<1>1. /\ c[0] = WordBits
      /\ \A n \in 1 .. Len(s) : \/ c[n] = NextCrc(c[n - 1], s[n])
                               \/ c[n] = ShiftByte(Xor(c[n - 1], s[n]))
  <2>1. 0 \in 0 .. Len(s) /\ \A n \in 1 .. Len(s) : n \in 0 .. Len(s) /\ n # 0
    OBVIOUS
  <2>2. CASE TableLoop(c, s)
    BY <2>1, <2>2 DEF TableLoop
  <2>3. CASE BitLoop(c, s)
    BY <2>1, <2>3 DEF BitLoop
  <2> QED
    BY <2>2, <2>3
<1>2. 0 \in S
  BY <1>1 DEF Turns
<1>3. ASSUME NEW n \in S PROVE n + 1 \in S
  <2> SUFFICES ASSUME n + 1 <= Len(s) PROVE c[n + 1] = g[n + 1]
    OBVIOUS
  <2>1. n + 1 \in 1 .. Len(s) /\ n \in 0 .. Len(s) /\ (n + 1) - 1 = n /\ c[n] = g[n]
    OBVIOUS
  <2>2. g[n] \in Words /\ s[n + 1] \in Bytes8
    BY <2>1 DEF Turns
  <2>3. NextCrc(g[n], s[n + 1]) = ShiftByte(Xor(g[n], s[n + 1]))
    BY <2>2, TurnIsEightShifts
  <2>4. g[n + 1] = ShiftByte(Xor(g[n], s[n + 1]))
    BY <2>1 DEF Turns
  <2>5. \/ c[n + 1] = NextCrc(c[n], s[n + 1])
        \/ c[n + 1] = ShiftByte(Xor(c[n], s[n + 1]))
    BY <1>1, <2>1
  <2> QED
    BY <2>1, <2>3, <2>4, <2>5
<1>4. S = Nat
  <2>1. S \in SUBSET Nat
    OBVIOUS
  <2> HIDE DEF S
  <2> QED
    BY <1>2, <1>3, <2>1, InductiveSetIsNat
<1>5. Len(s) \in S
  BY <1>4
<1> QED
  BY <1>5

(* crc16() and the definition of the crc both return what the last turn    *)
(* leaves.                                                                 *)
LEMMA CrcIsTheLastTurn ==
  ASSUME NEW s \in Seq(Bytes8), NEW g, Turns(g, s)
  PROVE  crc16(s) = g[Len(s)] /\ ByDefinition(s) = g[Len(s)]
<1> DEFINE t == CHOOSE c : TableLoop(c, s)
           d == CHOOSE c : BitLoop(c, s)
<1>1. TableLoop(t, s)
  BY TurnsSolve
<1>2. BitLoop(d, s)
  BY TurnsSolve
<1>3. crc16(s) = t[Len(s)]
  BY DEF crc16, TableLoop
<1>4. ByDefinition(s) = d[Len(s)]
  BY DEF ByDefinition, BitLoop
<1> HIDE DEF t, d
<1> QED
  BY <1>1, <1>2, <1>3, <1>4, OneSolution

-----------------------------------------------------------------------------
(* The crc of no bytes, and of one byte more.                              *)
LEMMA CrcOfNothing == crc16(<<>>) = WordBits /\ ByDefinition(<<>>) = WordBits
<1>1. <<>> \in Seq(Bytes8) /\ Len(<<>>) = 0
  OBVIOUS
<1>2. PICK g : Turns(g, <<>>)
  BY <1>1, TurnsExist
<1>3. g[Len(<<>>)] = WordBits
  BY <1>1, <1>2 DEF Turns
<1> QED
  BY <1>1, <1>2, <1>3, CrcIsTheLastTurn

(* Both ways to compute it agree on any bytes, and one byte more is one    *)
(* turn of the loop more.                                                  *)
LEMMA CrcOfOneMore ==
  ASSUME NEW s \in Seq(Bytes8), NEW b \in Bytes8
  PROVE  /\ crc16(s) \in Words
         /\ ByDefinition(s) = crc16(s)
         /\ crc16(Append(s, b)) = ShiftByte(Xor(crc16(s), b))
<1> DEFINE t == Append(s, b)
<1>1. /\ t \in Seq(Bytes8) /\ Len(t) = Len(s) + 1 /\ Len(s) \in Nat
      /\ t[Len(s) + 1] = b /\ \A k \in 1 .. Len(s) : t[k] = s[k]
  OBVIOUS
<1> HIDE DEF t
<1>2. PICK g : Turns(g, t)
  BY <1>1, TurnsExist
<1> DEFINE h == [n \in 0 .. Len(s) |-> g[n]]
<1>3. Turns(h, s)
  <2>1. h \in [0 .. Len(s) -> Words] /\ h[0] = WordBits
    BY <1>1, <1>2 DEF Turns
  <2>2. ASSUME NEW n \in 1 .. Len(s) PROVE h[n] = ShiftByte(Xor(h[n - 1], s[n]))
    <3>1. n \in 1 .. Len(t) /\ h[n] = g[n] /\ h[n - 1] = g[n - 1] /\ t[n] = s[n]
      BY <1>1
    <3> QED
      BY <1>2, <3>1 DEF Turns
  <2> HIDE DEF h
  <2> QED
    BY <2>1, <2>2 DEF Turns
<1>4. crc16(s) = h[Len(s)] /\ ByDefinition(s) = h[Len(s)] /\ h[Len(s)] = g[Len(s)]
  <2>1. h[Len(s)] = g[Len(s)]
    BY <1>1
  <2> HIDE DEF h
  <2> QED
    BY <1>3, <2>1, CrcIsTheLastTurn
<1>5. crc16(t) = g[Len(t)]
  BY <1>1, <1>2, CrcIsTheLastTurn
<1>6. g[Len(t)] = ShiftByte(Xor(g[Len(s)], b)) /\ g[Len(s)] \in Words
  <2>1. Len(t) \in 1 .. Len(t) /\ Len(t) - 1 = Len(s) /\ t[Len(t)] = b /\ Len(s) \in 0 .. Len(t)
    BY <1>1
  <2> QED
    BY <1>2, <2>1 DEF Turns
<1> QED
  BY <1>4, <1>5, <1>6 DEF t

(* The crc over a frame with two bytes at its end is 0 when they are the   *)
(* crc of the rest, and only then.                                         *)
LEMMA ResidueIsZero ==
  ASSUME NEW s \in Seq(Bytes8), NEW lo \in Bytes8, NEW hi \in Bytes8
  PROVE  crc16(s \o <<lo, hi>>) = {} <=> Word16(lo, hi) = crc16(s)
<1> DEFINE c == crc16(s)
           x == Xor(c, lo)
           y == Xor(x, Up(hi, 8))
<1>1. s \o <<lo, hi>> = Append(Append(s, lo), hi) /\ Append(s, lo) \in Seq(Bytes8)
  OBVIOUS
<1>2. c \in Words
  BY CrcOfOneMore
<1>3. crc16(Append(s, lo)) = ShiftByte(x)
  BY CrcOfOneMore
<1>4. crc16(s \o <<lo, hi>>) = ShiftByte(Xor(ShiftByte(x), hi))
  BY <1>1, <1>3, CrcOfOneMore
<1>5. x \in Words /\ Up(hi, 8) \in Words /\ ShiftByte(Up(hi, 8)) = hi
  BY <1>2, BytesAreWords, XorIsWord, ShiftByteDown
<1>6. y \in Words
  BY <1>5, XorIsWord
<1>7. Xor(ShiftByte(x), hi) = ShiftByte(y)
  BY <1>5, ShiftByteLaws
<1>8. {} \in Words /\ ShiftByte({}) = {}
  <2>1. {} \in Words
    BY DEF Words
  <2>2. ShiftByte(Xor({}, {})) = Xor(ShiftByte({}), ShiftByte({}))
    BY <2>1, ShiftByteLaws
  <2>3. Xor({}, {}) = {} /\ Xor(ShiftByte({}), ShiftByte({})) = {}
    BY XorLaws
  <2> QED
    BY <2>1, <2>2, <2>3
<1>9. ShiftByte(ShiftByte(y)) = {} <=> y = {}
  <2>1. ShiftByte(y) \in Words
    BY <1>6, ShiftByteLaws
  <2>2. ShiftByte(ShiftByte(y)) = {} => ShiftByte(y) = {}
    BY <1>8, <2>1, ShiftByteLaws
  <2>3. ShiftByte(y) = {} => y = {}
    BY <1>6, <1>8, ShiftByteLaws
  <2> HIDE DEF y
  <2> QED
    BY <1>8, <2>2, <2>3
<1>10. y = {} <=> c = Word16(lo, hi)
  <2>1. lo \cap Up(hi, 8) = {}
    BY DEF Up, Bytes8, ByteBits
  <2>2. Word16(lo, hi) = Xor(lo, Up(hi, 8))
    BY <2>1 DEF Word16, Xor, Up
  <2>3. y = Xor(c, Xor(lo, Up(hi, 8)))
    BY XorLaws
  <2>4. \A a, b : Xor(a, b) = {} <=> a = b
    BY DEF Xor
  <2> HIDE DEF y, c
  <2> QED
    BY <2>2, <2>3, <2>4
<1> HIDE DEF c, x, y
<1>11. crc16(s \o <<lo, hi>>) = ShiftByte(ShiftByte(y))
  BY <1>4, <1>7
<1>12. y = {} <=> Word16(lo, hi) = crc16(s)
  BY <1>10 DEF c
<1> QED
  BY <1>9, <1>11, <1>12

(* So RtuLink's check of an answer is that its crc is 0.                   *)
LEMMA AcceptedIsZero ==
  ASSUME NEW f \in Seq(Bytes8), Len(f) >= 2
  PROVE  Accepted(f) <=> crc16(f) = {}
<1> DEFINE n == Len(f)
           s == SubSeq(f, 1, n - 2)
<1>1. /\ n \in Nat /\ n >= 2 /\ Len(f) = n
      /\ f[n - 1] \in Bytes8 /\ f[n] \in Bytes8
  OBVIOUS
<1> HIDE DEF n
<1>2. s \in Seq(Bytes8) /\ Len(s) = n - 2 /\ \A k \in 1 .. n - 2 : s[k] = f[k]
  <2>1. \A k \in 1 .. n - 2 : f[k] \in Bytes8
    BY <1>1
  <2>2. \A k \in 1 .. n - 2 : 1 + k - 1 = k
    BY <1>1
  <2>3. n - 2 \in Int /\ 1 \in Int /\ (n - 2) - 1 + 1 = n - 2
    BY <1>1
  <2>4. /\ s \in Seq(Bytes8)
        /\ Len(s) = IF 1 <= n - 2 THEN (n - 2) - 1 + 1 ELSE 0
        /\ \A k \in 1 .. (n - 2) - 1 + 1 : s[k] = f[1 + k - 1]
    BY <2>1, <2>3, SubSeqProperties
  <2> HIDE DEF s
  <2> QED
    BY <1>1, <2>2, <2>3, <2>4
<1>3. f = s \o <<f[n - 1], f[n]>>
  <2> DEFINE e == <<f[n - 1], f[n]>>
             t == s \o e
  <2>1. e \in Seq(Bytes8) /\ Len(e) = 2 /\ e[1] = f[n - 1] /\ e[2] = f[n]
    BY <1>1
  <2> HIDE DEF s, e
  <2>2. /\ t \in Seq(Bytes8) /\ Len(t) = (n - 2) + 2
        /\ \A k \in 1 .. (n - 2) + 2 : t[k] = IF k <= n - 2 THEN s[k] ELSE e[k - (n - 2)]
    <3>1. /\ t \in Seq(Bytes8) /\ Len(t) = Len(s) + Len(e)
          /\ \A k \in 1 .. Len(s) + Len(e) : t[k] = IF k <= Len(s) THEN s[k] ELSE e[k - Len(s)]
      BY <1>2, <2>1, ConcatProperties
    <3> HIDE DEF t
    <3> QED
      BY <1>2, <2>1, <3>1
  <2> HIDE DEF t
  <2>3. ASSUME NEW k \in 1 .. n PROVE t[k] = f[k]
    <3>1. (n - 2) + 2 = n /\ (n - 1) - (n - 2) = 1 /\ n - (n - 2) = 2
      BY <1>1
    <3>2. k \in 1 .. n - 2 \/ k = n - 1 \/ k = n
      BY <1>1
    <3>3. CASE k \in 1 .. n - 2
      BY <1>1, <1>2, <2>2, <3>1, <3>3
    <3>4. CASE k = n - 1
      <4>1. ~(k <= n - 2) /\ k - (n - 2) = 1 /\ k \in 1 .. (n - 2) + 2
        BY <1>1, <3>1, <3>4
      <4>2. t[k] = e[1]
        BY <2>2, <4>1
      <4> QED
        BY <2>1, <3>4, <4>2
    <3>5. CASE k = n
      <4>1. ~(k <= n - 2) /\ k - (n - 2) = 2 /\ k \in 1 .. (n - 2) + 2
        BY <1>1, <3>1, <3>5
      <4>2. t[k] = e[2]
        BY <2>2, <4>1
      <4> QED
        BY <2>1, <3>5, <4>2
    <3> QED
      BY <3>2, <3>3, <3>4, <3>5
  <2>4. t = f
    <3>1. Len(t) = n
      BY <1>1, <2>2
    <3> QED
      BY <1>1, <2>2, <2>3, <3>1, SeqEqual
  <2> QED
    BY <2>4 DEF t, e
<1> HIDE DEF s
<1>4. crc16(s \o <<f[n - 1], f[n]>>) = {} <=> Word16(f[n - 1], f[n]) = crc16(s)
  BY <1>1, <1>2, ResidueIsZero
<1>5. Accepted(f) <=> Word16(f[n - 1], f[n]) = crc16(s)
  BY DEF Accepted, s, n
<1> QED
  BY <1>3, <1>4, <1>5

-----------------------------------------------------------------------------
(* After two bytes the loop tells any two pairs of bytes apart: a byte     *)
(* that is shifted through reaches the upper half, where the next byte     *)
(* cannot make up for it.                                                  *)
LEMMA PairsAreToldApart ==
  ASSUME NEW c \in Words, NEW x \in Bytes8, NEW y \in Bytes8,
         NEW u \in Bytes8, NEW v \in Bytes8,
         ShiftByte(Xor(ShiftByte(Xor(c, x)), y)) = ShiftByte(Xor(ShiftByte(Xor(c, u)), v))
  PROVE  x = u /\ y = v
<1> DEFINE p == ShiftByte(Xor(c, x))
           q == ShiftByte(Xor(c, u))
           a == Xor(x, u)
           b == Xor(y, v)
<1>1. p \in Words /\ q \in Words
  BY TurnIsEightShifts
<1>2. a \in Bytes8 /\ b \in Bytes8
  BY DEF Xor, Bytes8
<1>3. Xor(p, y) = Xor(q, v)
  <2>1. Xor(p, y) \in Words /\ Xor(q, v) \in Words
    BY <1>1, BytesAreWords, XorIsWord
  <2> QED
    BY <2>1, ShiftByteLaws
<1>4. Xor(p, q) = b
  <2> HIDE DEF p, q
  <2> QED
    BY <1>3 DEF Xor
<1>5. Xor(p, q) = ShiftByte(a)
  <2>1. Xor(c, x) \in Words /\ Xor(c, u) \in Words
    BY BytesAreWords, XorIsWord
  <2>2. Xor(Xor(c, x), Xor(c, u)) = a
    BY DEF Xor
  <2>3. ShiftByte(Xor(Xor(c, x), Xor(c, u))) = Xor(p, q)
    BY <2>1, ShiftByteLaws
  <2> QED
    BY <2>2, <2>3
<1> HIDE DEF p, q
<1>6. a = Up(b, 8)
  <2> HIDE DEF a, b
  <2>1. a \in Words /\ Up(b, 8) \in Words /\ ShiftByte(Up(b, 8)) = b
    BY <1>2, BytesAreWords, ShiftByteDown
  <2> QED
    BY <1>4, <1>5, <2>1, ShiftByteLaws
<1>7. a = {} /\ b = {}
  <2> HIDE DEF a, b
  <2>1. \A k \in b : k + 8 \in Up(b, 8) /\ k + 8 \notin ByteBits
    BY <1>2 DEF Up, Bytes8, ByteBits
  <2>2. b = {}
    BY <1>2, <1>6, <2>1 DEF Bytes8
  <2> QED
    BY <1>6, <2>2 DEF Up
<1>8. \A r, t : r \subseteq Nat /\ t \subseteq Nat /\ Xor(r, t) = {} => r = t
  BY DEF Xor
<1> QED
  BY <1>7, <1>8, BytesAreWords DEF Words, WordBits

(* g is f but for two neighbouring bytes.                                  *)
NearTo(g, f) ==
  /\ g \in Seq(Bytes8) /\ Len(g) = Len(f)
  /\ \E i \in 1 .. Len(f) - 1 :
       \A k \in 1 .. Len(f) : k \in {i, i + 1} \/ g[k] = f[k]

(* Frames of any length that differ in a byte or in two neighbouring ones  *)
(* have different crcs: the loop is the same up to there, apart after it,  *)
(* and never comes together again.                                         *)
LEMMA NearFramesDiffer ==
  ASSUME NEW f \in Seq(Bytes8), NEW g, NearTo(g, f), crc16(g) = crc16(f)
  PROVE  g = f
<1>1. g \in Seq(Bytes8) /\ Len(g) = Len(f) /\ Len(f) \in Nat
  BY DEF NearTo
<1>2. PICK i \in 1 .. Len(f) - 1 : \A k \in 1 .. Len(f) : k \in {i, i + 1} \/ g[k] = f[k]
  BY DEF NearTo
<1>3. PICK p : Turns(p, f)
  BY TurnsExist
<1>4. PICK q : Turns(q, g)
  BY <1>1, TurnsExist
<1>5. /\ \A n \in 1 .. Len(f) : /\ p[n] = ShiftByte(Xor(p[n - 1], f[n]))
                               /\ q[n] = ShiftByte(Xor(q[n - 1], g[n]))
      /\ \A n \in 0 .. Len(f) : p[n] \in Words /\ q[n] \in Words
      /\ p[0] = q[0]
  BY <1>1, <1>3, <1>4 DEF Turns
<1>6. \A n \in 1 .. Len(f) : f[n] \in Bytes8 /\ g[n] \in Bytes8
  BY <1>1
<1>7. p[Len(f)] = q[Len(f)]
  BY <1>1, <1>3, <1>4, CrcIsTheLastTurn
<1>8. p[i - 1] = q[i - 1]
  <2> DEFINE S == {n \in Nat : n <= i - 1 => p[n] = q[n]}
  <2>1. S \in SUBSET Nat /\ 0 \in S
    BY <1>5
  <2>2. ASSUME NEW n \in S PROVE n + 1 \in S
    <3>1. n \in Nat /\ (n <= i - 1 => p[n] = q[n])
      OBVIOUS
    <3>2. ASSUME n + 1 <= i - 1 PROVE p[n + 1] = q[n + 1]
      <4>1. n + 1 \in 1 .. Len(f) /\ (n + 1) - 1 = n /\ n + 1 \notin {i, i + 1} /\ n <= i - 1
        BY <1>1, <3>1, <3>2
      <4>2. g[n + 1] = f[n + 1] /\ p[n] = q[n]
        BY <1>2, <3>1, <4>1
      <4>3. /\ p[n + 1] = ShiftByte(Xor(p[n], f[n + 1]))
            /\ q[n + 1] = ShiftByte(Xor(q[n], g[n + 1]))
        BY <1>5, <4>1
      <4> QED
        BY <4>2, <4>3
    <3> QED
      BY <3>1, <3>2
  <2> HIDE DEF S
  <2>3. S = Nat
    BY <2>1, <2>2, InductiveSetIsNat
  <2>4. i - 1 \in S
    BY <1>1, <2>3
  <2> QED
    BY <2>4 DEF S
<1>9. p[i + 1] = q[i + 1]
  <2> DEFINE S == {n \in Nat : i + 1 <= Len(f) - n => p[Len(f) - n] = q[Len(f) - n]}
  <2>1. S \in SUBSET Nat /\ 0 \in S
    BY <1>1, <1>7
  <2>2. ASSUME NEW n \in S PROVE n + 1 \in S
    <3>1. n \in Nat /\ (i + 1 <= Len(f) - n => p[Len(f) - n] = q[Len(f) - n])
      OBVIOUS
    <3>2. ASSUME i + 1 <= Len(f) - (n + 1)
          PROVE  p[Len(f) - (n + 1)] = q[Len(f) - (n + 1)]
      <4> DEFINE m == Len(f) - n
      <4>1. /\ m \in 1 .. Len(f) /\ m - 1 = Len(f) - (n + 1) /\ m \notin {i, i + 1}
            /\ m - 1 \in 0 .. Len(f) /\ i + 1 <= m
        BY <1>1, <3>1, <3>2
      <4> HIDE DEF m
      <4>2. g[m] = f[m] /\ f[m] \in Bytes8
        BY <1>2, <1>6, <4>1
      <4>3. p[m] = q[m]
        BY <3>1, <4>1 DEF m
      <4>4. ShiftByte(Xor(p[m - 1], f[m])) = ShiftByte(Xor(q[m - 1], f[m]))
        BY <1>5, <4>1, <4>2, <4>3
      <4>5. p[m - 1] \in Words /\ q[m - 1] \in Words
        BY <1>5, <4>1
      <4>6. Xor(p[m - 1], f[m]) \in Words /\ Xor(q[m - 1], f[m]) \in Words
        BY <4>2, <4>5, BytesAreWords, XorIsWord
      <4>7. Xor(p[m - 1], f[m]) = Xor(q[m - 1], f[m])
        BY <4>4, <4>6, ShiftByteLaws
      <4>8. p[m - 1] = q[m - 1]
        BY <4>7 DEF Xor
      <4> QED
        BY <4>1, <4>8
    <3> QED
      BY <3>1, <3>2
  <2> HIDE DEF S
  <2>3. S = Nat
    BY <2>1, <2>2, InductiveSetIsNat
  <2>4. Len(f) - (i + 1) \in S /\ Len(f) - (Len(f) - (i + 1)) = i + 1
    BY <1>1, <2>3
  <2> QED
    BY <2>4 DEF S
<1>10. g[i] = f[i] /\ g[i + 1] = f[i + 1]
  <2>1. /\ i \in 1 .. Len(f) /\ i + 1 \in 1 .. Len(f) /\ (i + 1) - 1 = i
        /\ i - 1 \in 0 .. Len(f)
    BY <1>1
  <2>2. /\ p[i + 1] = ShiftByte(Xor(p[i], f[i + 1])) /\ p[i] = ShiftByte(Xor(p[i - 1], f[i]))
        /\ q[i + 1] = ShiftByte(Xor(q[i], g[i + 1])) /\ q[i] = ShiftByte(Xor(q[i - 1], g[i]))
        /\ p[i - 1] \in Words
    BY <1>5, <2>1
  <2>3. /\ f[i] \in Bytes8 /\ g[i] \in Bytes8
        /\ f[i + 1] \in Bytes8 /\ g[i + 1] \in Bytes8
    BY <1>6, <2>1
  <2>4. ShiftByte(Xor(ShiftByte(Xor(p[i - 1], f[i])), f[i + 1])) =
        ShiftByte(Xor(ShiftByte(Xor(p[i - 1], g[i])), g[i + 1]))
    BY <1>8, <1>9, <2>2
  <2> QED
    BY <2>2, <2>3, <2>4, PairsAreToldApart
<1>11. \A k \in 1 .. Len(f) : g[k] = f[k]
  BY <1>2, <1>10
<1> QED
  BY <1>1, <1>11, SeqEqual

-----------------------------------------------------------------------------
(* A frame is at least its crc, and its crc is 0.                          *)
LEMMA FrameIsValid ==
  ASSUME NEW s \in Seq(Bytes8)
  PROVE  /\ Frame(s) \in Seq(Bytes8) /\ Len(Frame(s)) >= 2
         /\ crc16(Frame(s)) = {}
<1> DEFINE c == crc16(s)
<1>1. c \in Words
  <2>1. {} \in Bytes8
    BY DEF Bytes8
  <2> QED
    BY <2>1, CrcOfOneMore
<1> HIDE DEF c
<1>2. Low(c) \in Bytes8 /\ High(c) \in Bytes8
  BY <1>1, WordIsTwoBytes
<1>3. Word16(Low(c), High(c)) = c
  <2>1. c = Xor(Low(c), Up(High(c), 8))
    BY <1>1, WordIsTwoBytes
  <2>2. Low(c) \cap Up(High(c), 8) = {}
    BY <1>2 DEF Up, Bytes8, ByteBits
  <2> QED
    BY <2>1, <2>2 DEF Word16, Xor, Up
<1>4. crc16(s \o <<Low(c), High(c)>>) = {}
  BY <1>2, <1>3, ResidueIsZero DEF c
<1>5. /\ s \o <<Low(c), High(c)>> \in Seq(Bytes8)
      /\ Len(s \o <<Low(c), High(c)>>) >= 2
  <2> DEFINE e == <<Low(c), High(c)>>
  <2>1. e \in Seq(Bytes8) /\ Len(e) = 2
    BY <1>2
  <2> HIDE DEF e
  <2>2. s \o e \in Seq(Bytes8) /\ Len(s \o e) = Len(s) + Len(e)
    BY <2>1, ConcatProperties
  <2>3. Len(s) \in Nat
    BY LenProperties
  <2>4. Len(s \o e) >= 2
    BY <2>1, <2>2, <2>3
  <2> QED
    BY <2>2, <2>4 DEF e
<1> QED
  BY <1>4, <1>5 DEF Frame, c

(* The variable crc is the crc of what was fed, and what arrives is the    *)
(* frame but for two neighbouring bytes.                                   *)
CrcInv ==
  /\ data \in Seq(Bytes8)
  /\ crc = crc16(data)
  /\ wire = <<>> \/ NearTo(wire, Frame(data))

(* A frame is near to itself.                                              *)
LEMMA NearToItself ==
  ASSUME NEW f \in Seq(Bytes8), Len(f) >= 2
  PROVE  NearTo(f, f)
<1>1. 1 \in 1 .. Len(f) - 1
  OBVIOUS
<1> QED
  BY <1>1 DEF NearTo

(* What the line makes of a frame is near to it.                           *)
LEMMA GarbledIsNear ==
  ASSUME NEW f \in Seq(Bytes8), NEW i \in 1 .. Len(f) - 1,
         NEW first \in Bytes8, NEW second \in Bytes8
  PROVE  NearTo([f EXCEPT ![i] = Xor(@, first), ![i + 1] = Xor(@, second)], f)
<1> DEFINE g == [f EXCEPT ![i] = Xor(@, first), ![i + 1] = Xor(@, second)]
<1>1. /\ i \in 1 .. Len(f) /\ i + 1 \in 1 .. Len(f) /\ i # i + 1 /\ Len(f) \in Nat
      /\ f \in [1 .. Len(f) -> Bytes8]
  OBVIOUS
<1>2. Xor(f[i], first) \in Bytes8 /\ Xor(f[i + 1], second) \in Bytes8
  BY <1>1 DEF Xor, Bytes8
<1>3. /\ g \in [1 .. Len(f) -> Bytes8]
      /\ \A k \in 1 .. Len(f) : k \in {i, i + 1} \/ g[k] = f[k]
  BY <1>1, <1>2
<1> HIDE DEF g
<1>4. g \in Seq(Bytes8) /\ Len(g) = Len(f)
  BY <1>1, <1>3
<1> QED
  BY <1>3, <1>4 DEF NearTo, g

(* The invariant of the crc holds, for any bytes and frames of any length. *)
LEMMA CrcInvHolds == CrcSpec => []CrcInv
<1>1. CrcInit => CrcInv
  BY CrcOfNothing DEF CrcInit, CrcInv
<1>2. CrcInv /\ [CrcNext]_crcVars => CrcInv'
  <2> SUFFICES ASSUME CrcInv, [CrcNext]_crcVars PROVE CrcInv'
    OBVIOUS
  <2>1. ASSUME NEW byte \in DataBytes, Feed(byte) PROVE CrcInv'
    <3>1. byte \in Bytes8
      BY CrcAssumption DEF CrcAssumption, Bytes8
    <3>2. data \in Seq(Bytes8) /\ crc = crc16(data) /\ wire = <<>>
      BY <2>1 DEF CrcInv, Feed
    <3>3. data' = Append(data, byte) /\ crc' = NextCrc(crc, byte) /\ wire' = wire
      BY <2>1 DEF Feed
    <3>4. data' \in Seq(Bytes8)
      BY <3>1, <3>2, <3>3
    <3>5. crc' = crc16(data')
      <4>1. crc16(data) \in Words /\ crc16(Append(data, byte)) = ShiftByte(Xor(crc16(data), byte))
        BY <3>1, <3>2, CrcOfOneMore
      <4>2. NextCrc(crc16(data), byte) = ShiftByte(Xor(crc16(data), byte))
        BY <3>1, <4>1, TurnIsEightShifts
      <4> QED
        BY <3>2, <3>3, <4>1, <4>2
    <3> QED
      BY <3>2, <3>3, <3>4, <3>5 DEF CrcInv
  <2>2. CASE Send
    <3>1. data \in Seq(Bytes8) /\ data' = data /\ crc' = crc /\ wire' = Frame(data)
      BY <2>2 DEF CrcInv, Send
    <3>2. NearTo(Frame(data), Frame(data))
      BY <3>1, FrameIsValid, NearToItself
    <3> QED
      BY <3>1, <3>2 DEF CrcInv
  <2>3. CASE Garble
    <3>1. /\ data \in Seq(Bytes8) /\ data' = data /\ crc' = crc /\ wire = Frame(data)
          /\ Frame(data) \in Seq(Bytes8)
      BY <2>3, FrameIsValid DEF CrcInv, Garble
    <3>2. PICK i \in 1 .. Len(wire) - 1, first \in Flips, second \in NextFlips :
            wire' = [wire EXCEPT ![i] = Xor(@, first), ![i + 1] = Xor(@, second)]
      BY <2>3 DEF Garble
    <3>3. first \in Bytes8 /\ second \in Bytes8
      BY CrcAssumption DEF CrcAssumption, Bytes8
    <3>4. NearTo([wire EXCEPT ![i] = Xor(@, first), ![i + 1] = Xor(@, second)], wire)
      BY <3>1, <3>3, GarbledIsNear
    <3> QED
      BY <3>1, <3>2, <3>4 DEF CrcInv
  <2>4. CASE UNCHANGED crcVars
    BY <2>4 DEF CrcInv, crcVars
  <2> QED
    BY <2>1, <2>2, <2>3, <2>4 DEF CrcNext
<1> QED
  BY <1>1, <1>2, PTL DEF CrcSpec

(* The table driven loop computes the crc that its header defines, over    *)
(* any bytes (crc.cpp:41-50, crc.hpp:11).                                  *)
THEOREM LoopIsTheDefinition == CrcSpec => []TableIsThePolynomial
<1>1. CrcInv => TableIsThePolynomial
  <2>1. {} \in Bytes8
    BY DEF Bytes8
  <2> QED
    BY <2>1, CrcOfOneMore DEF CrcInv, TableIsThePolynomial
<1> QED
  BY <1>1, CrcInvHolds, PTL

(* RtuLink accepts a frame as it was sent and none in which the line       *)
(* garbled a byte or two neighbouring ones, however long it is and         *)
(* whatever it made of them (rtu_link.cpp:263-274, 322-328).               *)
THEOREM GarblingIsSeen == CrcSpec => []FramesAreToldApart
<1>1. CrcInv => FramesAreToldApart
  <2> SUFFICES ASSUME CrcInv, wire # <<>>
               PROVE  /\ Accepted(wire) <=> wire = Frame(data)
                      /\ Accepted(wire) => crc16(wire) = {}
    BY DEF FramesAreToldApart
  <2>1. NearTo(wire, Frame(data)) /\ data \in Seq(Bytes8)
    BY DEF CrcInv
  <2>2. /\ Frame(data) \in Seq(Bytes8) /\ Len(Frame(data)) >= 2
        /\ crc16(Frame(data)) = {}
    BY <2>1, FrameIsValid
  <2>3. wire \in Seq(Bytes8) /\ Len(wire) >= 2
    BY <2>1, <2>2 DEF NearTo
  <2>4. Accepted(wire) <=> crc16(wire) = {}
    BY <2>3, AcceptedIsZero
  <2>5. crc16(wire) = {} <=> wire = Frame(data)
    BY <2>1, <2>2, NearFramesDiffer
  <2> QED
    BY <2>4, <2>5
<1> QED
  BY <1>1, CrcInvHolds, PTL
=============================================================================
