------------------------- MODULE Encoding_proofs -------------------------
(***************************************************************************)
(* Theorems about what goes over the wire: the requests and replies of     *)
(* PduExchange, for tables of every size, every operation and every reply, *)
(* and the conversions of Convert, for every value.                        *)
(*                                                                         *)
(* First the arithmetic of bits, bytes and words; then one lemma for each  *)
(* builder, parser and handler of the server; then the exchanges, whose    *)
(* inductive invariant says which operation the Result at hand is of; then *)
(* the conversions.  Where a lemma has several conclusions about one term  *)
(* they are gathered in an operator (IsHeaded, IsCounted, ...).            *)
(***************************************************************************)
EXTENDS PduExchange, Convert, SequenceTheorems, TLAPS

-----------------------------------------------------------------------------
(* Bits and bytes *)

(* The number whose binary digits are a[7] .. a[0]. *)
Number(a) == a[0] + 2 * a[1] + 4 * a[2] + 8 * a[3]
             + 16 * a[4] + 32 * a[5] + 64 * a[6] + 128 * a[7]

(* The weights of the bits of a byte. *)
LEMMA Weights ==
  /\ 2 ^ 0 = 1 /\ 2 ^ 1 = 2 /\ 2 ^ 2 = 4 /\ 2 ^ 3 = 8
  /\ 2 ^ 4 = 16 /\ 2 ^ 5 = 32 /\ 2 ^ 6 = 64 /\ 2 ^ 7 = 128
  BY SMT

(* Digit b of a number is what it was put together from. *)
LEMMA DigitsOfNumber ==
  ASSUME NEW a, \A b \in 0 .. 7 : a[b] \in 0 .. 1, NEW b \in 0 .. 7
  PROVE  (Number(a) \div 2 ^ b) % 2 = a[b]
<1>1. PICK a0 \in 0 .. 1, a1 \in 0 .. 1, a2 \in 0 .. 1, a3 \in 0 .. 1,
           a4 \in 0 .. 1, a5 \in 0 .. 1, a6 \in 0 .. 1, a7 \in 0 .. 1 :
        /\ a0 = a[0] /\ a1 = a[1] /\ a2 = a[2] /\ a3 = a[3]
        /\ a4 = a[4] /\ a5 = a[5] /\ a6 = a[6] /\ a7 = a[7]
  OBVIOUS
<1>2. PICK s : s = Number(a)
  OBVIOUS
<1>3. s = a0 + 2 * a1 + 4 * a2 + 8 * a3 + 16 * a4 + 32 * a5 + 64 * a6 + 128 * a7
  BY <1>1, <1>2 DEF Number
<1>4. /\ (s \div 1) % 2 = a0 /\ (s \div 2) % 2 = a1 /\ (s \div 4) % 2 = a2 /\ (s \div 8) % 2 = a3
      /\ (s \div 16) % 2 = a4 /\ (s \div 32) % 2 = a5 /\ (s \div 64) % 2 = a6 /\ (s \div 128) % 2 = a7
  BY <1>3
<1>5. b = 0 \/ b = 1 \/ b = 2 \/ b = 3 \/ b = 4 \/ b = 5 \/ b = 6 \/ b = 7
  OBVIOUS
<1>6. (s \div 2 ^ b) % 2 = a[b]
  <2>1. CASE b = 0  BY <1>1, <1>4, <2>1, Weights
  <2>2. CASE b = 1  BY <1>1, <1>4, <2>2, Weights
  <2>3. CASE b = 2  BY <1>1, <1>4, <2>3, Weights
  <2>4. CASE b = 3  BY <1>1, <1>4, <2>4, Weights
  <2>5. CASE b = 4  BY <1>1, <1>4, <2>5, Weights
  <2>6. CASE b = 5  BY <1>1, <1>4, <2>6, Weights
  <2>7. CASE b = 6  BY <1>1, <1>4, <2>7, Weights
  <2>8. CASE b = 7  BY <1>1, <1>4, <2>8, Weights
  <2>. QED  BY <1>5, <2>1, <2>2, <2>3, <2>4, <2>5, <2>6, <2>7, <2>8
<1>. QED  BY <1>2, <1>6

(* A byte is the number of its digits. *)
LEMMA NumberOfDigits ==
  ASSUME NEW x \in 0 .. 255
  PROVE  Number([b \in 0 .. 7 |-> (x \div 2 ^ b) % 2]) = x
<1>1. x = ((x \div 1) % 2) + 2 * ((x \div 2) % 2) + 4 * ((x \div 4) % 2) + 8 * ((x \div 8) % 2)
     + 16 * ((x \div 16) % 2) + 32 * ((x \div 32) % 2) + 64 * ((x \div 64) % 2) + 128 * ((x \div 128) % 2)
  OBVIOUS
<1>. QED  BY <1>1, Weights DEF Number

(* ByteOf puts the digits of its bits together. *)
LEMMA ByteOfNumber ==
  ASSUME NEW bits, NEW a, \A b \in 0 .. 7 : a[b] = IF bits[b] THEN 1 ELSE 0
  PROVE  ByteOf(bits) = Number(a)
BY Weights DEF ByteOf, Number

(* What was packed into a byte comes out of it, bit by bit. *)
LEMMA BitOfByteOf ==
  ASSUME NEW bits \in [0 .. 7 -> BOOLEAN], NEW b \in 0 .. 7
  PROVE  BitOf(ByteOf(bits), b) = bits[b]
<1>1. PICK a : a = [i \in 0 .. 7 |-> IF bits[i] THEN 1 ELSE 0]
  OBVIOUS
<1>2. \A i \in 0 .. 7 : a[i] \in 0 .. 1 /\ a[i] = IF bits[i] THEN 1 ELSE 0
  BY <1>1
<1>3. ByteOf(bits) = Number(a)
  BY <1>2, ByteOfNumber
<1>4. (Number(a) \div 2 ^ b) % 2 = a[b]
  BY <1>2, DigitsOfNumber
<1>5. bits[b] \in BOOLEAN /\ a[b] = IF bits[b] THEN 1 ELSE 0
  BY <1>2
<1>. QED  BY <1>3, <1>4, <1>5 DEF BitOf

(* The bits of a byte, packed again, are that byte. *)
LEMMA ByteOfBitsOf ==
  ASSUME NEW x \in 0 .. 255
  PROVE  ByteOf([b \in 0 .. 7 |-> BitOf(x, b)]) = x
<1>1. PICK a : a = [b \in 0 .. 7 |-> (x \div 2 ^ b) % 2]
  OBVIOUS
<1>2. Number(a) = x
  BY <1>1, NumberOfDigits
<1>3. PICK bits : bits = [b \in 0 .. 7 |-> BitOf(x, b)]
  OBVIOUS
<1>4. ASSUME NEW b \in 0 .. 7
      PROVE  a[b] = IF bits[b] THEN 1 ELSE 0
  <2>1. b \in {0, 1, 2, 3, 4, 5, 6, 7}
    OBVIOUS
  <2>2. (x \div 2 ^ b) % 2 \in {0, 1}
    BY <2>1, Weights
  <2>. QED  BY <1>1, <1>3, <2>2 DEF BitOf
<1>. QED  BY <1>2, <1>3, <1>4, ByteOfNumber

(* And it is a byte. *)
LEMMA ByteOfIsByte ==
  ASSUME NEW bits
  PROVE  ByteOf(bits) \in Byte
  BY Weights DEF ByteOf, Byte

-----------------------------------------------------------------------------
(* Words and sequences of bytes *)

(* A byte as bounds. *)
LEMMA ByteRange == \A x : x \in Byte <=> x \in Int /\ 0 <= x /\ x <= 255
  BY DEF Byte

(* A word as bounds. *)
LEMMA WordRange == \A w : w \in Word <=> w \in Int /\ 0 <= w /\ w <= 65535
<1>1. 2 ^ 16 = 65536
  BY SMT
<1>. QED  BY <1>1 DEF Word

(* The two bytes of a word are bytes, and make the word again. *)
LEMMA WordInBytes ==
  ASSUME NEW w \in Word
  PROVE  w \div 256 \in Byte /\ w % 256 \in Byte /\ 256 * (w \div 256) + (w % 256) = w
<1>1. w \in Int /\ 0 <= w /\ w <= 65535
  BY WordRange
<1>2. w \div 256 \in Int /\ 0 <= w \div 256 /\ w \div 256 <= 255
  BY <1>1
<1>3. w % 256 \in Int /\ 0 <= w % 256 /\ w % 256 <= 255
  BY <1>1
<1>4. 256 * (w \div 256) + (w % 256) = w
  BY <1>1
<1>. QED  BY <1>1, <1>2, <1>3, <1>4 DEF Byte

(* Two bytes make a word, and are its two bytes again. *)
LEMMA BytesMakeAWord ==
  ASSUME NEW high \in Byte, NEW low \in Byte, NEW w, w = 256 * high + low
  PROVE  w \in Word /\ w \div 256 = high /\ w % 256 = low
<1>1. high \in Int /\ 0 <= high /\ high <= 255 /\ low \in Int /\ 0 <= low /\ low <= 255
  BY DEF Byte
<1>2. w \in Int /\ 0 <= w /\ w <= 65535
  BY <1>1
<1>3. w \div 256 = high /\ w % 256 = low
  BY <1>1, <1>2
<1>. QED  BY <1>2, <1>3, WordRange

(* Where the entries of two joined sequences are. *)
LEMMA Joined ==
  ASSUME NEW S, NEW s \in Seq(S), NEW t \in Seq(S)
  PROVE  /\ s \o t \in Seq(S)
         /\ Len(s \o t) = Len(s) + Len(t)
         /\ \A i \in 1 .. Len(s) : (s \o t)[i] = s[i]
         /\ \A i \in 1 .. Len(t) : (s \o t)[Len(s) + i] = t[i]
  BY SMT

(* The first of two joined sequences is their beginning. *)
LEMMA Prefix ==
  ASSUME NEW S, NEW s \in Seq(S), NEW t \in Seq(S)
  PROVE  SubSeq(s \o t, 1, Len(s)) = s
<1>1. PICK u : u = s \o t
  OBVIOUS
<1>2. Len(s) \in Nat /\ (\A i \in 1 .. Len(s) : u[i] = s[i] /\ s[i] \in S)
  BY <1>1, Joined
<1>3. PICK v : v = SubSeq(u, 1, Len(s))
  OBVIOUS
<1>4. v \in Seq(S) /\ Len(v) = Len(s) /\ \A i \in 1 .. Len(s) : v[i] = u[i]
  BY <1>2, <1>3
<1>. QED  BY <1>1, <1>2, <1>3, <1>4, SeqEqual

(* Two pairs make four. *)
LEMMA TwoAndTwo ==
  ASSUME NEW S, NEW a \in S, NEW b \in S, NEW c \in S, NEW d \in S
  PROVE  <<a, b>> \o <<c, d>> = <<a, b, c, d>>
<1>1. PICK s : s = <<a, b>>
  OBVIOUS
<1>2. PICK t : t = <<c, d>>
  OBVIOUS
<1>3. PICK u : u = <<a, b, c, d>>
  OBVIOUS
<1>4. s \in Seq(S)
  BY <1>1
<1>5. t \in Seq(S)
  BY <1>2
<1>6. u \in Seq(S)
  BY <1>3
<1>7. PICK v : v = s \o t
  OBVIOUS
<1>8. /\ v \in Seq(S) /\ Len(v) = Len(s) + Len(t)
      /\ \A i \in 1 .. Len(s) : v[i] = s[i]
      /\ \A i \in 1 .. Len(t) : v[Len(s) + i] = t[i]
  BY <1>4, <1>5, <1>7, Joined
<1>9. Len(s) = 2 /\ s[1] = a /\ s[2] = b
  BY <1>1
<1>10. Len(t) = 2 /\ t[1] = c /\ t[2] = d
  BY <1>2
<1>11. Len(v) = 4 /\ v[1] = a /\ v[2] = b /\ v[3] = c /\ v[4] = d
  <2>1. 1 \in 1 .. Len(s) /\ 2 \in 1 .. Len(s) /\ 1 \in 1 .. Len(t) /\ 2 \in 1 .. Len(t)
    BY <1>9, <1>10
  <2>2. v[1] = s[1] /\ v[2] = s[2] /\ v[Len(s) + 1] = t[1] /\ v[Len(s) + 2] = t[2]
    BY <1>8, <2>1
  <2>. QED  BY <1>8, <1>9, <1>10, <2>2
<1>12. Len(u) = 4 /\ u[1] = a /\ u[2] = b /\ u[3] = c /\ u[4] = d
  BY <1>3
<1>13. \A i \in 1 .. Len(v) : v[i] = u[i]
  BY <1>11, <1>12
<1>14. v = u
  BY <1>6, <1>8, <1>11, <1>12, <1>13, SeqEqual
<1>. QED  BY <1>1, <1>2, <1>3, <1>7, <1>14

(* The data of the requests that are two words long. *)
LEMMA TwoWordsData ==
  ASSUME NEW fc, NEW first \in Word, NEW second \in Word
  PROVE  /\ TwoWords(fc, first, second).functionCode = fc
         /\ TwoWords(fc, first, second).data =
               <<first \div 256, first % 256, second \div 256, second % 256>>
<1>1. writeU16(<<>>, first) = <<first \div 256, first % 256>>
  BY DEF writeU16
<1>2. writeU16(<<first \div 256, first % 256>>, second) =
        <<first \div 256, first % 256, second \div 256, second % 256>>
  BY WordInBytes, TwoAndTwo DEF writeU16
<1>. QED  BY <1>1, <1>2 DEF TwoWords, Pdu

(* Two words followed by anything: both are read back. *)
Headed(fc, first, second, rest) == TwoWords(fc, first, second).data \o rest

IsHeaded(data, first, second, rest) ==
  /\ data \in Seq(Byte) /\ Len(data) = 4 + Len(rest)
  /\ readU16(data, 0) = first /\ readU16(data, 2) = second
  /\ \A i \in 1 .. Len(rest) : data[4 + i] = rest[i]

(* Both words are read back, and what follows them is where it was put.    *)
LEMMA HeaderIsRead ==
  ASSUME NEW fc, NEW first \in Word, NEW second \in Word, NEW rest \in Seq(Byte)
  PROVE  /\ IsHeaded(Headed(fc, first, second, rest), first, second, rest)
         /\ SubSeq(Headed(fc, first, second, rest), 1, 4) = TwoWords(fc, first, second).data
<1>1. PICK data : data = Headed(fc, first, second, rest)
  OBVIOUS
<1>2. PICK head : head = <<first \div 256, first % 256, second \div 256, second % 256>>
  OBVIOUS
<1>3. /\ first \div 256 \in Byte /\ first % 256 \in Byte
      /\ second \div 256 \in Byte /\ second % 256 \in Byte
  BY WordInBytes
<1>4. head \in Seq(Byte)
  BY <1>2, <1>3
<1>5. head = TwoWords(fc, first, second).data
  <2>1. TwoWords(fc, first, second).data =
          <<first \div 256, first % 256, second \div 256, second % 256>>
    BY TwoWordsData
  <2>. QED  BY <1>2, <2>1
<1>6. data = head \o rest
  BY <1>1, <1>5 DEF Headed
<1>7. /\ data \in Seq(Byte) /\ Len(data) = Len(head) + Len(rest)
      /\ \A i \in 1 .. Len(head) : data[i] = head[i]
      /\ \A i \in 1 .. Len(rest) : data[Len(head) + i] = rest[i]
  BY <1>4, <1>6, Joined
<1>8. /\ Len(head) = 4
      /\ head[1] = first \div 256 /\ head[2] = first % 256
      /\ head[3] = second \div 256 /\ head[4] = second % 256
  BY <1>2
<1>9. /\ data[1] = first \div 256 /\ data[2] = first % 256
      /\ data[3] = second \div 256 /\ data[4] = second % 256
  <2>1. 1 \in 1 .. Len(head) /\ 2 \in 1 .. Len(head) /\ 3 \in 1 .. Len(head) /\ 4 \in 1 .. Len(head)
    BY <1>8
  <2>. QED  BY <1>7, <1>8, <2>1
<1>10. readU16(data, 0) = first /\ readU16(data, 2) = second
  <2>1. readU16(data, 0) = 256 * data[1] + data[2] /\ readU16(data, 2) = 256 * data[3] + data[4]
    BY DEF readU16
  <2>. QED  BY <1>9, <2>1, WordInBytes
<1>11. SubSeq(data, 1, Len(head)) = head
  BY <1>4, <1>6, Prefix
<1>. QED  BY <1>1, <1>5, <1>7, <1>8, <1>10, <1>11 DEF IsHeaded

(* The bytes of a list of words, and the words in them. *)
LEMMA WordBytesOf ==
  ASSUME NEW words \in Seq(Word)
  PROVE  /\ WordBytes(words) \in Seq(Byte) /\ Len(WordBytes(words)) = 2 * Len(words)
         /\ \A k \in 1 .. Len(words) :
              256 * WordBytes(words)[2 * k - 1] + WordBytes(words)[2 * k] = words[k]
<1>1. \A k \in 1 .. 2 * Len(words) :
        (IF k % 2 = 1 THEN words[(k + 1) \div 2] \div 256 ELSE words[k \div 2] % 256) \in Byte
  <2>. TAKE k \in 1 .. 2 * Len(words)
  <2>1. CASE k % 2 = 1
    <3>1. (k + 1) \div 2 \in 1 .. Len(words)
      BY <2>1
    <3>. QED  BY <2>1, <3>1, WordInBytes
  <2>2. CASE k % 2 # 1
    <3>1. k \div 2 \in 1 .. Len(words)
      BY <2>2
    <3>. QED  BY <2>2, <3>1, WordInBytes
  <2>. QED  BY <2>1, <2>2
<1>2. WordBytes(words) \in Seq(Byte) /\ Len(WordBytes(words)) = 2 * Len(words)
  BY <1>1 DEF WordBytes
<1>3. ASSUME NEW k \in 1 .. Len(words)
      PROVE  256 * WordBytes(words)[2 * k - 1] + WordBytes(words)[2 * k] = words[k]
  <2>1. /\ 2 * k - 1 \in 1 .. 2 * Len(words) /\ 2 * k \in 1 .. 2 * Len(words)
        /\ (2 * k - 1) % 2 = 1 /\ (2 * k) % 2 = 0
        /\ (2 * k - 1 + 1) \div 2 = k /\ (2 * k) \div 2 = k
    OBVIOUS
  <2>2. WordBytes(words)[2 * k - 1] = words[k] \div 256 /\ WordBytes(words)[2 * k] = words[k] % 256
    BY <2>1 DEF WordBytes
  <2>. QED  BY <2>2, WordInBytes
<1>. QED  BY <1>2, <1>3

(* A sequence is the function of its entries. *)
LEMMA SequenceIs ==
  ASSUME NEW S, NEW s \in Seq(S)
  PROVE  s = [k \in 1 .. Len(s) |-> s[k]]
  OBVIOUS

(* Words put together from bytes give back those bytes. *)
LEMMA BytesOfWords ==
  ASSUME NEW bytes \in Seq(Byte), NEW words, NEW n \in Nat, Len(bytes) = 2 * n,
         words = [k \in 1 .. n |-> 256 * bytes[2 * k - 1] + bytes[2 * k]]
  PROVE  WordBytes(words) = bytes
<1>1. Len(words) = n
  OBVIOUS
<1>2. ASSUME NEW k \in 1 .. 2 * n
      PROVE  WordBytes(words)[k] = bytes[k]
  <2>1. CASE k % 2 = 1
    <3>1. k \in Int /\ 1 <= k /\ k <= 2 * n
      OBVIOUS
    <3>2. (k + 1) \div 2 \in 1 .. n /\ 2 * ((k + 1) \div 2) - 1 = k /\ 2 * ((k + 1) \div 2) \in 1 .. 2 * n
      <4>1. PICK m \in Int : m = (k + 1) \div 2
        BY <3>1
      <4>2. 2 * m - 1 = k
        BY <2>1, <3>1, <4>1
      <4>3. 1 <= m /\ m <= n
        BY <3>1, <4>2
      <4>. QED  BY <4>1, <4>2, <4>3
    <3>3. bytes[k] \in Byte /\ bytes[2 * ((k + 1) \div 2)] \in Byte
      BY <3>2
    <3>4. words[(k + 1) \div 2] = 256 * bytes[k] + bytes[2 * ((k + 1) \div 2)]
      BY <3>2
    <3>5. words[(k + 1) \div 2] \div 256 = bytes[k]
      BY <3>3, <3>4, BytesMakeAWord
    <3>. QED  BY <1>1, <2>1, <3>5 DEF WordBytes
  <2>2. CASE k % 2 # 1
    <3>1. k \in Int /\ 1 <= k /\ k <= 2 * n
      OBVIOUS
    <3>2. k \div 2 \in 1 .. n /\ 2 * (k \div 2) = k /\ 2 * (k \div 2) - 1 \in 1 .. 2 * n
      BY <3>1, <2>2
    <3>3. bytes[k] \in Byte /\ bytes[2 * (k \div 2) - 1] \in Byte
      BY <3>2
    <3>4. words[k \div 2] = 256 * bytes[2 * (k \div 2) - 1] + bytes[k]
      BY <3>2
    <3>5. words[k \div 2] % 256 = bytes[k]
      BY <3>3, <3>4, BytesMakeAWord
    <3>. QED  BY <1>1, <2>2, <3>5 DEF WordBytes
  <2>. QED  BY <2>1, <2>2
<1>3. PICK u : u = WordBytes(words)
  OBVIOUS
<1>4. u = [k \in 1 .. 2 * n |-> u[k]]
  BY <1>1, <1>3 DEF WordBytes
<1>5. [k \in 1 .. 2 * n |-> u[k]] = [k \in 1 .. 2 * n |-> bytes[k]]
  <2>1. \A k \in 1 .. 2 * n : u[k] = bytes[k]
    BY <1>2, <1>3
  <2>. QED  BY <2>1, Zenon
<1>6. bytes = [k \in 1 .. Len(bytes) |-> bytes[k]]
  BY SequenceIs
<1>7. u = [k \in 1 .. Len(bytes) |-> bytes[k]]
  BY <1>4, <1>5, Zenon
<1>. QED  BY <1>3, <1>6, <1>7, Zenon

-----------------------------------------------------------------------------
(* Requests *)

(* A checked builder succeeds exactly for the quantities in its range, and *)
(* fails with Usage otherwise.                                             *)
LEMMA CheckedQuantity ==
  ASSUME NEW quantity \in Int, NEW limit \in Int, NEW pdu
  PROVE  /\ 1 <= quantity /\ quantity <= limit => Checked(InRange(quantity, limit), pdu) = ok(pdu)
         /\ ~(1 <= quantity /\ quantity <= limit) =>
              Checked(InRange(quantity, limit), pdu) = Error("Usage", 0)
<1>1. CASE 1 <= quantity /\ quantity <= limit
  <2>1. ~(quantity < 1 \/ quantity > limit)
    BY <1>1
  <2>. QED  BY <1>1, <2>1 DEF Checked, InRange, isOk, ok
<1>2. CASE ~(1 <= quantity /\ quantity <= limit)
  <2>1. quantity < 1 \/ quantity > limit
    BY <1>2
  <2>. QED  BY <1>2, <2>1 DEF Checked, InRange, isOk, ok, Error
<1>. QED  BY <1>1, <1>2

(* The verdicts of the results the code makes. *)
LEMMA Results ==
  /\ \A v : isOk(ok(v)) /\ ok(v).value = v /\ ok(v).category = "None"
  /\ \A code : /\ ~isOk(Error("Usage", code)) /\ Error("Usage", code).category = "Usage"
               /\ ~isOk(Error("Protocol", code)) /\ Error("Protocol", code).category = "Protocol"
               /\ ~isOk(Error("Device", code)) /\ Error("Device", code).category = "Device"
  BY DEF isOk, ok, Error

(* The documented limits, by operation. *)
LEMMA Limits ==
  ASSUME NEW o, o.name \in Multiple
  PROVE  /\ Documented(o) \in Int
         /\ o.name \in BitReads => Documented(o) = 2000
         /\ o.name \in RegisterReads => Documented(o) = 125
         /\ o.name = "writeMultipleCoils" => Documented(o) = 1968
         /\ o.name = "writeMultipleRegisters" => Documented(o) = 123
  BY DEF Documented, Multiple, BitReads, RegisterReads

(* The PDU of an accepted request. *)
Request(o) ==
  CASE o.name = "readCoils"              -> TwoWords(ReadCoils, o.start, o.arg)
    [] o.name = "readDiscreteInputs"     -> TwoWords(ReadDiscreteInputs, o.start, o.arg)
    [] o.name = "readHoldingRegisters"   -> TwoWords(ReadHoldingRegisters, o.start, o.arg)
    [] o.name = "readInputRegisters"     -> TwoWords(ReadInputRegisters, o.start, o.arg)
    [] o.name = "writeSingleCoil"        ->
         TwoWords(WriteSingleCoil, o.start, IF o.arg THEN 65280 ELSE 0)
    [] o.name = "writeSingleRegister"    -> TwoWords(WriteSingleRegister, o.start, o.arg)
    [] o.name = "writeMultipleCoils"     -> CoilsPdu(o.start, o.arg)
    [] o.name = "writeMultipleRegisters" -> RegistersPdu(o.start, o.arg)

InDocumentedRange(o) == 1 <= Asked(o) /\ Asked(o) <= Documented(o)

(* A number narrowed to sixteen bits is one of them, and is the number     *)
(* itself exactly when that fits.                                          *)
LEMMA Narrowed ==
  ASSUME NEW n \in Nat
  PROVE  uint16(n) \in Word /\ (n \in Word <=> n = uint16(n))
<1>1. n % 65536 \in Int /\ 0 <= n % 65536 /\ n % 65536 <= 65535
  OBVIOUS
<1>2. n <= 65535 => n % 65536 = n
  OBVIOUS
<1>. QED  BY <1>1, <1>2, WordRange DEF uint16

(* The operations that carry a quantity are accepted when it is, narrowed, *)
(* one of the documented ones and refused with Usage when it is not.       *)
LEMMA BuildMultiple ==
  ASSUME NEW o, o.name \in Multiple, Asked(o) \in Nat, o.name \in Writes \/ Asked(o) \in Word,
         NEW quantity, quantity = uint16(Asked(o))
  PROVE  /\ 1 <= quantity /\ quantity <= Documented(o) => build(o) = ok(Request(o))
         /\ ~(1 <= quantity /\ quantity <= Documented(o)) => build(o) = Error("Usage", 0)
<1>1. quantity \in Int /\ (o.name \notin Writes => quantity = Asked(o))
  BY Narrowed, WordRange
<1>2. Documented(o) \in Int
  BY Limits
<1>3. build(o) = Checked(InRange(quantity, Documented(o)), Request(o))
  <2>1. CASE o.name = "readCoils"
    <3>1. Documented(o) = 2000 /\ Asked(o) = o.arg /\ o.name \notin Writes
      BY <2>1, Limits DEF BitReads, Asked, Writes
    <3>. QED  BY <1>1, <2>1, <3>1 DEF build, Request, buildReadCoils, validateCoilQuantity
  <2>2. CASE o.name = "readDiscreteInputs"
    <3>1. Documented(o) = 2000 /\ Asked(o) = o.arg /\ o.name \notin Writes
      BY <2>2, Limits DEF BitReads, Asked, Writes
    <3>. QED  BY <1>1, <2>2, <3>1 DEF build, Request, buildReadDiscreteInputs, validateCoilQuantity
  <2>3. CASE o.name = "readHoldingRegisters"
    <3>1. Documented(o) = 125 /\ Asked(o) = o.arg /\ o.name \notin Writes
      BY <2>3, Limits DEF RegisterReads, Asked, Writes
    <3>. QED  BY <1>1, <2>3, <3>1 DEF build, Request, buildReadHoldingRegisters, validateRegisterQuantity
  <2>4. CASE o.name = "readInputRegisters"
    <3>1. Documented(o) = 125 /\ Asked(o) = o.arg /\ o.name \notin Writes
      BY <2>4, Limits DEF RegisterReads, Asked, Writes
    <3>. QED  BY <1>1, <2>4, <3>1 DEF build, Request, buildReadInputRegisters, validateRegisterQuantity
  <2>5. CASE o.name = "writeMultipleCoils"
    <3>1. Documented(o) = 1968 /\ Asked(o) = Len(o.arg)
      BY <2>5, Limits DEF Asked, Writes
    <3>. QED  BY <1>1, <2>5, <3>1
              DEF build, Request, buildWriteMultipleCoils, validateWriteMultipleCoilQuantity
  <2>6. CASE o.name = "writeMultipleRegisters"
    <3>1. Documented(o) = 123 /\ Asked(o) = Len(o.arg)
      BY <2>6, Limits DEF Asked, Writes
    <3>. QED  BY <1>1, <2>6, <3>1
              DEF build, Request, buildWriteMultipleRegisters, validateWriteMultipleRegisterQuantity
  <2>. QED  BY <2>1, <2>2, <2>3, <2>4, <2>5, <2>6 DEF Multiple, BitReads, RegisterReads
<1>. QED  BY <1>1, <1>2, <1>3, CheckedQuantity

(* The single writes are never refused. *)
LEMMA BuildSingle ==
  ASSUME NEW o, o.name \in {"writeSingleCoil", "writeSingleRegister"}
  PROVE  build(o) = ok(Request(o))
  BY DEF build, Request, buildWriteSingleCoil, buildWriteSingleRegister

(* Two words, a byte that counts and what it counts. *)
Counted(fc, first, second, count, rest) ==
  TwoWords(fc, first, second).data \o <<count>> \o rest

IsCounted(data, first, second, count, rest) ==
  /\ data \in Seq(Byte) /\ Len(data) = 5 + Len(rest)
  /\ readU16(data, 0) = first /\ readU16(data, 2) = second /\ data[5] = count
  /\ \A i \in 1 .. Len(rest) : data[5 + i] = rest[i]

(* All of it is read back. *)
LEMMA CountedIsRead ==
  ASSUME NEW fc, NEW first \in Word, NEW second \in Word, NEW count \in Byte, NEW rest \in Seq(Byte)
  PROVE  /\ IsCounted(Counted(fc, first, second, count, rest), first, second, count, rest)
         /\ SubSeq(Counted(fc, first, second, count, rest), 1, 4) = TwoWords(fc, first, second).data
<1>1. PICK data : data = Counted(fc, first, second, count, rest)
  OBVIOUS
<1>2. PICK head : head = TwoWords(fc, first, second).data
  OBVIOUS
<1>3. head \in Seq(Byte)
  <2>1. head = <<first \div 256, first % 256, second \div 256, second % 256>>
    BY <1>2, TwoWordsData, SMTT(20)
  <2>2. /\ first \div 256 \in Byte /\ first % 256 \in Byte
        /\ second \div 256 \in Byte /\ second % 256 \in Byte
    BY WordInBytes
  <2>. QED  BY <2>1, <2>2
<1>4. PICK one : one = <<count>>
  OBVIOUS
<1>5. one \in Seq(Byte)
  BY <1>4
<1>6. PICK tail : tail = one \o rest
  OBVIOUS
<1>7. /\ tail \in Seq(Byte) /\ Len(tail) = Len(one) + Len(rest)
      /\ \A i \in 1 .. Len(one) : tail[i] = one[i]
      /\ \A i \in 1 .. Len(rest) : tail[Len(one) + i] = rest[i]
  BY <1>5, <1>6, Joined
<1>8. tail \in Seq(Byte)
  BY <1>7
<1>9. data = Headed(fc, first, second, tail)
  <2>1. data = (head \o one) \o rest
    BY <1>1, <1>2, <1>4 DEF Counted
  <2>2. (head \o one) \o rest = head \o (one \o rest)
    BY <1>3, <1>5, ConcatAssociative
  <2>. QED  BY <1>2, <1>6, <2>1, <2>2 DEF Headed
<1>10. IsHeaded(data, first, second, tail) /\ SubSeq(data, 1, 4) = TwoWords(fc, first, second).data
  BY <1>8, <1>9, HeaderIsRead
<1>11. /\ data \in Seq(Byte) /\ Len(data) = 4 + Len(tail)
      /\ readU16(data, 0) = first /\ readU16(data, 2) = second
      /\ \A i \in 1 .. Len(tail) : data[4 + i] = tail[i]
  BY <1>10 DEF IsHeaded
<1>12. Len(one) = 1 /\ one[1] = count
  BY <1>4
<1>13. Len(rest) \in Nat
  OBVIOUS
<1>14. Len(tail) = 1 + Len(rest) /\ tail[1] = count /\ \A i \in 1 .. Len(rest) : tail[1 + i] = rest[i]
  <2>1. 1 \in 1 .. Len(one)
    BY <1>12
  <2>. QED  BY <1>7, <1>12, <2>1
<1>15. data[5] = count
  <2>1. 1 \in 1 .. Len(tail) /\ 4 + 1 = 5
    BY <1>13, <1>14
  <2>2. data[4 + 1] = tail[1]
    BY <1>11, <2>1
  <2>. QED  BY <1>14, <2>1, <2>2
<1>16. ASSUME NEW i \in 1 .. Len(rest)
       PROVE  data[5 + i] = rest[i]
  <2>1. 1 + i \in 1 .. Len(tail) /\ 4 + (1 + i) = 5 + i
    BY <1>13, <1>14
  <2>2. data[4 + (1 + i)] = tail[1 + i]
    BY <1>11, <2>1
  <2>. QED  BY <1>14, <2>1, <2>2
<1>17. Len(data) = 5 + Len(rest)
  BY <1>11, <1>13, <1>14
<1>. QED  BY <1>1, <1>11, <1>10, <1>15, <1>16, <1>17 DEF IsCounted

(* The PDU of a list of coils. *)
CoilsFit(values)     == 1 <= Len(values) /\ Len(values) <= 1968
RegistersFit(values) == 1 <= Len(values) /\ Len(values) <= 123

Packed(values, count) == [i \in 1 .. count |-> PackedByte(values, i - 1)]

IsCoilsPdu(pdu, start, values) ==
  LET data  == pdu.data
      count == (Len(values) + 7) \div 8
  IN  /\ pdu.functionCode = WriteMultipleCoils
      /\ data \in Seq(Byte) /\ Len(data) = 5 + count
      /\ readU16(data, 0) = start /\ readU16(data, 2) = Len(values) /\ data[5] = count
      /\ count \in Nat /\ count <= 246
      /\ Len(values) <= 8 * count /\ 8 * count <= Len(values) + 7
      /\ \A i \in 1 .. count : data[5 + i] = PackedByte(values, i - 1)

(* The builder packs the coils after a header that says how many.          *)
LEMMA CoilsPduData ==
  ASSUME NEW start \in Word, NEW values \in Seq(BOOLEAN), CoilsFit(values)
  PROVE  IsCoilsPdu(CoilsPdu(start, values), start, values)
<1>1. PICK n : n = Len(values)
  OBVIOUS
<1>2. n \in Int /\ 1 <= n /\ n <= 1968
  BY <1>1 DEF CoilsFit
<1>3. PICK count : count = (n + 7) \div 8
  OBVIOUS
<1>4. count \in Nat /\ count <= 246 /\ n <= 8 * count /\ 8 * count <= n + 7
  BY <1>2, <1>3
<1>5. n \in Word
  BY <1>2, WordRange
<1>6. count \in Byte
  BY <1>4 DEF Byte
<1>7. uint16(n) = n /\ uint8(count) = count
  BY <1>2, <1>4 DEF uint16, uint8
<1>8. PICK rest : rest = Packed(values, count)
  OBVIOUS
<1>9. \A i \in 1 .. count : PackedByte(values, i - 1) \in Byte
  BY ByteOfIsByte DEF PackedByte
<1>10. rest \in Seq(Byte)
  BY <1>4, <1>8, <1>9 DEF Packed
<1>11. Len(rest) = count /\ \A i \in 1 .. count : rest[i] = PackedByte(values, i - 1)
  BY <1>4, <1>8 DEF Packed
<1>12. CoilsPdu(start, values).data = Counted(WriteMultipleCoils, start, n, count, rest)
  BY <1>1, <1>3, <1>7, <1>8 DEF CoilsPdu, Pdu, Counted, Packed
<1>13. CoilsPdu(start, values).functionCode = WriteMultipleCoils
  BY DEF CoilsPdu, Pdu
<1>14. PICK data : data = Counted(WriteMultipleCoils, start, n, count, rest)
  OBVIOUS
<1>15. IsCounted(data, start, n, count, rest)
  BY <1>5, <1>6, <1>10, <1>14, CountedIsRead
<1>. QED  BY <1>1, <1>3, <1>4, <1>11, <1>12, <1>13, <1>14, <1>15 DEF IsCounted, IsCoilsPdu

(* The PDU of a list of registers. *)
IsRegistersPdu(pdu, start, values) ==
  LET data == pdu.data
      n    == Len(values)
  IN  /\ pdu.functionCode = WriteMultipleRegisters
      /\ data \in Seq(Byte) /\ Len(data) = 5 + 2 * n
      /\ readU16(data, 0) = start /\ readU16(data, 2) = n /\ data[5] = 2 * n
      /\ \A k \in 1 .. n : 256 * data[5 + (2 * k - 1)] + data[5 + 2 * k] = values[k]

(* The builder writes the registers after a header that says how many.     *)
LEMMA RegistersPduData ==
  ASSUME NEW start \in Word, NEW values \in Seq(Word), RegistersFit(values)
  PROVE  IsRegistersPdu(RegistersPdu(start, values), start, values)
<1>1. PICK n : n = Len(values)
  OBVIOUS
<1>2. n \in Int /\ 1 <= n /\ n <= 123
  BY <1>1 DEF RegistersFit
<1>3. n \in Word
  BY <1>2, WordRange
<1>4. uint16(n) = n /\ uint8(2 * n) = 2 * n
  BY <1>2 DEF uint16, uint8
<1>5. 2 * n \in Byte
  BY <1>2 DEF Byte
<1>6. PICK rest : rest = WordBytes(values)
  OBVIOUS
<1>7. rest \in Seq(Byte)
  BY <1>6, WordBytesOf
<1>8. Len(rest) = 2 * n /\ \A k \in 1 .. n : 256 * rest[2 * k - 1] + rest[2 * k] = values[k]
  BY <1>1, <1>6, WordBytesOf
<1>9. RegistersPdu(start, values).data = Counted(WriteMultipleRegisters, start, n, 2 * n, rest)
  BY <1>1, <1>4, <1>6 DEF RegistersPdu, Pdu, Counted
<1>10. RegistersPdu(start, values).functionCode = WriteMultipleRegisters
  BY DEF RegistersPdu, Pdu
<1>11. PICK data : data = Counted(WriteMultipleRegisters, start, n, 2 * n, rest)
  OBVIOUS
<1>12. IsCounted(data, start, n, 2 * n, rest)
  BY <1>3, <1>5, <1>7, <1>11, CountedIsRead
<1>13. /\ data \in Seq(Byte) /\ Len(data) = 5 + Len(rest)
       /\ readU16(data, 0) = start /\ readU16(data, 2) = n /\ data[5] = 2 * n
       /\ \A i \in 1 .. Len(rest) : data[5 + i] = rest[i]
  BY <1>12 DEF IsCounted
<1>14. ASSUME NEW k \in 1 .. n
       PROVE  256 * data[5 + (2 * k - 1)] + data[5 + 2 * k] = values[k]
  <2>1. 2 * k - 1 \in 1 .. Len(rest) /\ 2 * k \in 1 .. Len(rest)
    BY <1>2, <1>8
  <2>2. data[5 + (2 * k - 1)] = rest[2 * k - 1] /\ data[5 + 2 * k] = rest[2 * k]
    BY <1>13, <2>1
  <2>. QED  BY <1>8, <2>2
<1>. QED  BY <1>1, <1>8, <1>9, <1>10, <1>11, <1>13, <1>14 DEF IsRegistersPdu

-----------------------------------------------------------------------------
(* Responses *)

(* The bytes a reply to a read counts, the bits and the words in them. *)
Payload(data) == SubSeq(data, 2, 1 + data[1])
Whole(data)   == Len(data) >= 1 /\ Len(data) >= 1 + data[1]

BitsIn(bytes)  == [k \in 1 .. 8 * Len(bytes) |-> BitOf(bytes[1 + (k - 1) \div 8], (k - 1) % 8)]
WordsIn(bytes) == [k \in 1 .. Len(bytes) \div 2 |-> 256 * bytes[2 * k - 1] + bytes[2 * k]]

(* The payload of a whole reply is the bytes after the count. *)
LEMMA PayloadIs ==
  ASSUME NEW data \in Seq(Byte), Whole(data)
  PROVE  /\ data[1] \in Byte
         /\ Payload(data) \in Seq(Byte) /\ Len(Payload(data)) = data[1]
         /\ \A i \in 1 .. data[1] : Payload(data)[i] = data[1 + i] /\ data[1 + i] \in Byte
<1>1. data[1] \in Byte
  BY DEF Whole
<1>2. PICK c : c = data[1]
  OBVIOUS
<1>3. c \in Int /\ 0 <= c /\ c <= 255 /\ Len(data) >= 1 + c /\ Len(data) \in Nat
  <2>1. c \in Int /\ 0 <= c /\ c <= 255
    BY <1>1, <1>2, ByteRange
  <2>2. Len(data) >= 1 + c /\ Len(data) \in Nat
    BY <1>2 DEF Whole
  <2>. QED  BY <2>1, <2>2
<1>4. /\ SubSeq(data, 2, 1 + c) \in Seq(Byte)
      /\ Len(SubSeq(data, 2, 1 + c)) = c
      /\ \A i \in 1 .. c : SubSeq(data, 2, 1 + c)[i] = data[1 + i] /\ data[1 + i] \in Byte
  BY <1>3
<1>. QED  BY <1>1, <1>2, <1>4 DEF Payload

(* A read of bits hands the caller the bits of the payload. *)
LEMMA ParsedBits ==
  ASSUME NEW req, NEW resp, resp.data \in Seq(Byte)
  PROVE  /\ Whole(resp.data) => parseReadBitsResponse(req, resp) = ok(BitsIn(Payload(resp.data)))
         /\ ~Whole(resp.data) => parseReadBitsResponse(req, resp) = Error("Protocol", 0)
<1>1. PICK data \in Seq(Byte) : data = resp.data
  OBVIOUS
<1>2. CASE ~Whole(data)
  <2>1. CASE Len(data) >= 1
    <3>1. data[1] \in Int /\ Len(data) \in Int
      <4>1. data[1] \in Byte /\ Len(data) \in Int
        BY <2>1
      <4>. QED  BY <4>1, ByteRange
    <3>. QED  BY <1>1, <1>2, <2>1, <3>1 DEF parseReadBitsResponse, Whole
  <2>2. CASE ~(Len(data) >= 1)
    <3>1. Len(data) < 1
      BY <2>2
    <3>. QED  BY <1>1, <1>2, <2>2, <3>1 DEF parseReadBitsResponse, Whole
  <2>. QED  BY <2>1, <2>2
<1>3. CASE Whole(data)
  <2>1. PICK p : p = Payload(data)
    OBVIOUS
  <2>2. PICK c : c = data[1]
    OBVIOUS
  <2>3. c \in Byte /\ Len(p) = c /\ \A i \in 1 .. c : p[i] = data[1 + i]
    BY <1>3, <2>1, <2>2, PayloadIs
  <2>4. ASSUME NEW k \in 1 .. 8 * c
        PROVE  BitOf(data[2 + (k - 1) \div 8], (k - 1) % 8) = BitOf(p[1 + (k - 1) \div 8], (k - 1) % 8)
    <3>1. c \in Int
      BY <2>3 DEF Byte
    <3>2. 1 + (k - 1) \div 8 \in 1 .. c /\ 1 + (1 + (k - 1) \div 8) = 2 + (k - 1) \div 8
      BY <3>1
    <3>3. p[1 + (k - 1) \div 8] = data[1 + (1 + (k - 1) \div 8)]
      BY <2>3, <3>2
    <3>. QED  BY <3>2, <3>3
  <2>5. BitsIn(p) = [k \in 1 .. 8 * c |-> BitOf(data[2 + (k - 1) \div 8], (k - 1) % 8)]
    BY <2>3, <2>4 DEF BitsIn
  <2>6. ~(Len(data) < 1 \/ Len(data) < 1 + c)
    <3>1. Len(data) \in Int /\ c \in Int
      BY <2>3 DEF Byte
    <3>. QED  BY <1>3, <2>2, <3>1 DEF Whole
  <2>. QED  BY <1>1, <1>3, <2>1, <2>2, <2>5, <2>6 DEF parseReadBitsResponse
<1>. QED  BY <1>1, <1>2, <1>3

(* A read of registers hands the caller the words of the payload, when it  *)
(* has an even number of bytes.                                            *)
LEMMA ParsedRegisters ==
  ASSUME NEW req, NEW resp, resp.data \in Seq(Byte)
  PROVE  /\ Whole(resp.data) /\ resp.data[1] % 2 = 0 =>
              parseReadRegistersResponse(req, resp) = ok(WordsIn(Payload(resp.data)))
         /\ ~(Whole(resp.data) /\ resp.data[1] % 2 = 0) =>
              parseReadRegistersResponse(req, resp) = Error("Protocol", 0)
<1>1. PICK data \in Seq(Byte) : data = resp.data
  OBVIOUS
<1>2. CASE ~Whole(data)
  <2>1. CASE Len(data) >= 1
    <3>1. data[1] \in Int /\ Len(data) \in Int
      <4>1. data[1] \in Byte /\ Len(data) \in Int
        BY <2>1
      <4>. QED  BY <4>1, ByteRange
    <3>. QED  BY <1>1, <1>2, <2>1, <3>1 DEF parseReadRegistersResponse, Whole
  <2>2. CASE ~(Len(data) >= 1)
    <3>1. Len(data) < 1
      BY <2>2
    <3>. QED  BY <1>1, <1>2, <2>2, <3>1 DEF parseReadRegistersResponse, Whole
  <2>. QED  BY <2>1, <2>2
<1>3. CASE Whole(data) /\ data[1] % 2 # 0
  BY <1>1, <1>3 DEF parseReadRegistersResponse
<1>4. CASE Whole(data) /\ data[1] % 2 = 0
  <2>1. PICK p : p = Payload(data)
    OBVIOUS
  <2>2. PICK c : c = data[1]
    OBVIOUS
  <2>3. c \in Byte /\ Len(p) = c /\ \A i \in 1 .. c : p[i] = data[1 + i]
    BY <1>4, <2>1, <2>2, PayloadIs
  <2>4. c \in Int /\ 0 <= c
    BY <2>3 DEF Byte
  <2>5. ASSUME NEW k \in 1 .. c \div 2
        PROVE  readU16(data, 1 + (k - 1) * 2) = 256 * p[2 * k - 1] + p[2 * k]
    <3>1. 2 * k - 1 \in 1 .. c /\ 2 * k \in 1 .. c
      BY <2>4
    <3>2. p[2 * k - 1] = data[1 + (2 * k - 1)] /\ p[2 * k] = data[1 + 2 * k]
      BY <2>3, <3>1
    <3>3. 1 + (2 * k - 1) = 1 + (k - 1) * 2 + 1 /\ 1 + 2 * k = 1 + (k - 1) * 2 + 2
      OBVIOUS
    <3>. QED  BY <3>2, <3>3 DEF readU16
  <2>6. WordsIn(p) = [k \in 1 .. c \div 2 |-> readU16(data, 1 + (k - 1) * 2)]
    BY <2>3, <2>5 DEF WordsIn
  <2>7. ~(Len(data) < 1 \/ c % 2 # 0 \/ Len(data) < 1 + c)
    <3>1. Len(data) \in Int
      OBVIOUS
    <3>. QED  BY <1>4, <2>2, <2>4, <3>1 DEF Whole
  <2>. QED  BY <1>1, <1>4, <2>1, <2>2, <2>6, <2>7 DEF parseReadRegistersResponse
<1>. QED  BY <1>1, <1>2, <1>3, <1>4

(* The bits of bytes, packed again, are those bytes; and so for words. *)
LEMMA BitsInBytes ==
  ASSUME NEW bytes \in Seq(Byte)
  PROVE  [i \in 1 .. Len(BitsIn(bytes)) \div 8 |-> PackedByte(BitsIn(bytes), i - 1)] = bytes
<1>1. PICK n : n = Len(bytes)
  OBVIOUS
<1>2. n \in Nat
  BY <1>1
<1>3. PICK v : v = BitsIn(bytes)
  OBVIOUS
<1>4. Len(v) = 8 * n /\ \A k \in 1 .. 8 * n : v[k] = BitOf(bytes[1 + (k - 1) \div 8], (k - 1) % 8)
  BY <1>1, <1>2, <1>3 DEF BitsIn
<1>5. ASSUME NEW i \in 1 .. n
      PROVE  PackedByte(v, i - 1) = bytes[i]
  <2>1. bytes[i] \in 0 .. 255
    BY <1>1 DEF Byte
  <2>2. ASSUME NEW b \in 0 .. 7
        PROVE  ((i - 1) * 8 + b < Len(v) /\ v[(i - 1) * 8 + b + 1]) = BitOf(bytes[i], b)
    <3>1. /\ (i - 1) * 8 + b + 1 \in 1 .. 8 * n
          /\ 1 + ((i - 1) * 8 + b + 1 - 1) \div 8 = i
          /\ ((i - 1) * 8 + b + 1 - 1) % 8 = b
      BY <1>2
    <3>2. v[(i - 1) * 8 + b + 1] = BitOf(bytes[i], b)
      BY <1>4, <3>1
    <3>3. (i - 1) * 8 + b < Len(v)
      BY <1>2, <1>4, <3>1
    <3>4. BitOf(bytes[i], b) \in BOOLEAN
      BY DEF BitOf
    <3>. QED  BY <3>2, <3>3, <3>4
  <2>3. [b \in 0 .. 7 |-> (i - 1) * 8 + b < Len(v) /\ v[(i - 1) * 8 + b + 1]]
          = [b \in 0 .. 7 |-> BitOf(bytes[i], b)]
    BY <2>2
  <2>. QED  BY <2>1, <2>3, ByteOfBitsOf DEF PackedByte
<1>6. Len(v) \div 8 = n
  BY <1>2, <1>4
<1>. QED  BY <1>1, <1>2, <1>3, <1>5, <1>6

(* The words in an even number of bytes, as bytes again, are those bytes.  *)
LEMMA WordsInBytes ==
  ASSUME NEW bytes \in Seq(Byte), Len(bytes) % 2 = 0
  PROVE  WordBytes(WordsIn(bytes)) = bytes
<1>1. PICK n \in Nat : n = Len(bytes) \div 2
  OBVIOUS
<1>2. Len(bytes) = 2 * n
  BY <1>1
<1>3. WordsIn(bytes) = [k \in 1 .. n |-> 256 * bytes[2 * k - 1] + bytes[2 * k]]
  BY <1>1 DEF WordsIn
<1>. QED  BY <1>2, <1>3, BytesOfWords

(* The words of the bytes of words are those words. *)
LEMMA WordsInWordBytes ==
  ASSUME NEW words \in Seq(Word)
  PROVE  WordsIn(WordBytes(words)) = words
<1>1. PICK n \in Nat : n = Len(words)
  OBVIOUS
<1>2. PICK bytes : bytes = WordBytes(words)
  OBVIOUS
<1>3. Len(bytes) = 2 * n /\ \A k \in 1 .. n : 256 * bytes[2 * k - 1] + bytes[2 * k] = words[k]
  BY <1>1, <1>2, WordBytesOf
<1>4. Len(bytes) \div 2 = n
  BY <1>3
<1>5. WordsIn(bytes) = [k \in 1 .. n |-> words[k]]
  BY <1>3, <1>4 DEF WordsIn
<1>6. words = [k \in 1 .. n |-> words[k]]
  BY <1>1
<1>. QED  BY <1>2, <1>5, <1>6

(* A reply of one byte that counts what follows. *)
OneAnd(count, rest) == <<count>> \o rest

(* Such a reply is whole, and its payload is what follows the count.       *)
LEMMA OneAndIs ==
  ASSUME NEW count \in Byte, NEW rest \in Seq(Byte), count = Len(rest)
  PROVE  /\ OneAnd(count, rest) \in Seq(Byte) /\ Whole(OneAnd(count, rest))
         /\ OneAnd(count, rest)[1] = count /\ Payload(OneAnd(count, rest)) = rest
<1>1. PICK one : one = <<count>>
  OBVIOUS
<1>2. one \in Seq(Byte)
  BY <1>1
<1>3. Len(one) = 1 /\ one[1] = count
  BY <1>1
<1>4. PICK data : data = one \o rest
  OBVIOUS
<1>5. /\ data \in Seq(Byte) /\ Len(data) = Len(one) + Len(rest)
      /\ \A i \in 1 .. Len(one) : data[i] = one[i]
      /\ \A i \in 1 .. Len(rest) : data[Len(one) + i] = rest[i]
  BY <1>2, <1>4, Joined
<1>6. data[1] = count
  BY <1>3, <1>5
<1>7. Len(rest) \in Nat
  OBVIOUS
<1>8. Whole(data)
  BY <1>3, <1>5, <1>6, <1>7 DEF Whole
<1>9. data \in Seq(Byte)
  BY <1>5
<1>10. PICK p : p = Payload(data)
  OBVIOUS
<1>11. p \in Seq(Byte) /\ Len(p) = data[1] /\ \A i \in 1 .. data[1] : p[i] = data[1 + i]
  BY <1>8, <1>9, <1>10, PayloadIs
<1>12. Len(p) = Len(rest) /\ \A i \in 1 .. Len(p) : p[i] = rest[i]
  BY <1>3, <1>5, <1>6, <1>11
<1>13. p = rest
  BY <1>11, <1>12, SeqEqual
<1>. QED  BY <1>1, <1>4, <1>6, <1>8, <1>9, <1>10, <1>13 DEF OneAnd

-----------------------------------------------------------------------------
(* What the client makes of a response *)

(* Which parser decides, by the response and the operation. *)
LEMMA Finished ==
  ASSUME NEW o, NEW req, NEW resp
  PROVE  /\ isExceptionResponse(resp) => finish(o, req, resp) = parseException(resp)
         /\ ~isExceptionResponse(resp) /\ o.name \in BitReads =>
              finish(o, req, resp) = parseReadBitsResponse(req, resp)
         /\ ~isExceptionResponse(resp) /\ o.name \in RegisterReads =>
              finish(o, req, resp) = parseReadRegistersResponse(req, resp)
         /\ ~isExceptionResponse(resp) /\ o.name \in Writes => finish(o, req, resp) = ok(<<>>)
<1>1. CASE isExceptionResponse(resp)
  BY <1>1 DEF finish
<1>2. CASE ~isExceptionResponse(resp) /\ o.name \in BitReads
  BY <1>2 DEF finish, BitReads, RegisterReads, Writes
<1>3. CASE ~isExceptionResponse(resp) /\ o.name \in RegisterReads
  BY <1>3 DEF finish, BitReads, RegisterReads, Writes
<1>4. CASE ~isExceptionResponse(resp) /\ o.name \in Writes
  BY <1>4 DEF finish, BitReads, RegisterReads, Writes
<1>. QED  BY <1>1, <1>2, <1>3, <1>4

(* An exception without a code is Protocol, one with a code is Device.     *)
LEMMA ExceptionParsed ==
  ASSUME NEW resp
  PROVE  parseException(resp) = (IF Len(resp.data) < 1 THEN Error("Protocol", 0)
                                                       ELSE Error("Device", resp.data[1]))
  BY DEF parseException

(* No response makes an operation fail with Usage. *)
LEMMA NotUsage ==
  ASSUME NEW o, o.name \in BitReads \cup RegisterReads \cup Writes, NEW req, NEW resp
  PROVE  finish(o, req, resp).category # "Usage"
<1>1. parseException(resp).category # "Usage"
  BY DEF parseException, Error
<1>2. parseReadBitsResponse(req, resp).category # "Usage"
  BY DEF parseReadBitsResponse, Error, ok
<1>3. parseReadRegistersResponse(req, resp).category # "Usage"
  BY DEF parseReadRegistersResponse, Error, ok
<1>4. ok(<<>>).category # "Usage"
  BY DEF ok
<1>. QED  BY <1>1, <1>2, <1>3, <1>4, Finished

-----------------------------------------------------------------------------
(* The server *)

IsTwoWords(pdu, fc, first, second) ==
  /\ pdu.functionCode = fc
  /\ pdu.data \in Seq(Byte) /\ Len(pdu.data) = 4
  /\ readU16(pdu.data, 0) = first /\ readU16(pdu.data, 2) = second

(* The server reads both words of such a request. *)
LEMMA TwoWordsIsRead ==
  ASSUME NEW fc, NEW first \in Word, NEW second \in Word
  PROVE  IsTwoWords(TwoWords(fc, first, second), fc, first, second)
<1>1. PICK data : data = <<first \div 256, first % 256, second \div 256, second % 256>>
  OBVIOUS
<1>2. TwoWords(fc, first, second).functionCode = fc /\ TwoWords(fc, first, second).data = data
  BY <1>1, TwoWordsData
<1>3. /\ first \div 256 \in Byte /\ first % 256 \in Byte
      /\ 256 * (first \div 256) + (first % 256) = first
      /\ second \div 256 \in Byte /\ second % 256 \in Byte
      /\ 256 * (second \div 256) + (second % 256) = second
  BY WordInBytes
<1>4. data \in Seq(Byte)
  BY <1>1, <1>3
<1>5. Len(data) = 4 /\ data[1] = first \div 256 /\ data[2] = first % 256
      /\ data[3] = second \div 256 /\ data[4] = second % 256
  BY <1>1
<1>6. readU16(data, 0) = 256 * data[1] + data[2] /\ readU16(data, 2) = 256 * data[3] + data[4]
  BY DEF readU16
<1>. QED  BY <1>2, <1>3, <1>4, <1>5, <1>6 DEF IsTwoWords

(* Which handler answers a request. *)
LEMMA Dispatch ==
  ASSUME NEW m, NEW pdu
  PROVE  /\ pdu.functionCode = ReadCoils => _process(m, pdu) = _read_co(m, pdu.data)
         /\ pdu.functionCode = ReadHoldingRegisters => _process(m, pdu) = _read_hr(m, pdu.data)
         /\ pdu.functionCode = WriteSingleCoil => _process(m, pdu) = _write_sc(m, pdu.data)
         /\ pdu.functionCode = WriteSingleRegister => _process(m, pdu) = _write_sr(m, pdu.data)
         /\ pdu.functionCode = WriteMultipleCoils => _process(m, pdu) = _write_mc(m, pdu.data)
         /\ pdu.functionCode = WriteMultipleRegisters => _process(m, pdu) = _write_mr(m, pdu.data)
         /\ pdu.functionCode = ReadDiscreteInputs => _process(m, pdu) = Refuse(m, ReadDiscreteInputs, 1)
         /\ pdu.functionCode = ReadInputRegisters => _process(m, pdu) = Refuse(m, ReadInputRegisters, 1)
  BY DEF _process, ReadCoils, ReadHoldingRegisters, WriteSingleCoil, WriteSingleRegister,
         WriteMultipleCoils, WriteMultipleRegisters, ReadDiscreteInputs, ReadInputRegisters

(* The parts of an answer. *)
LEMMA Answered ==
  ASSUME NEW m, NEW fc, NEW data
  PROVE  /\ Answer(m, fc, data).memory = m
         /\ Answer(m, fc, data).reply.functionCode = fc /\ Answer(m, fc, data).reply.data = data
         /\ Answer(m, fc, data).reply = Pdu(fc, data)
  BY DEF Answer, Pdu

(* A refusal is an exception with its code, and leaves the tables.         *)
LEMMA RefusalIs ==
  ASSUME NEW m, NEW fc \in {1, 2, 3, 4, 5, 6, 15, 16}, NEW code \in {1, 2}
  PROVE  /\ Refuse(m, fc, code).memory = m
         /\ isExceptionResponse(Refuse(m, fc, code).reply)
         /\ Refuse(m, fc, code).reply.data \in Seq(Byte)
         /\ Refuse(m, fc, code).reply.data = <<code>>
<1>1. PICK data : data = <<code>>
  OBVIOUS
<1>2. code \in Byte
  BY DEF Byte
<1>3. data \in Seq(Byte)
  BY <1>1, <1>2
<1>4. Refuse(m, fc, code) = Answer(m, fc + 128, data)
  BY <1>1 DEF Refuse
<1>5. fc + 128 >= 128
  OBVIOUS
<1>6. /\ Refuse(m, fc, code).memory = m /\ Refuse(m, fc, code).reply.data = data
      /\ Refuse(m, fc, code).reply.functionCode = fc + 128
  BY <1>4, Answered
<1>7. isExceptionResponse(Refuse(m, fc, code).reply)
  BY <1>5, <1>6 DEF isExceptionResponse
<1>. QED  BY <1>1, <1>3, <1>6, <1>7

(* The types of the two tables. *)
LEMMA Tables ==
  ASSUME NEW m \in Memory
  PROVE  /\ \A i \in 0 .. Size - 1 : m.coils[i] \in BOOLEAN /\ m.holding_regs[i] \in Word
         /\ m.coils \in [0 .. Size - 1 -> BOOLEAN] /\ m.holding_regs \in [0 .. Size - 1 -> Word]
         /\ m = [coils |-> m.coils, holding_regs |-> m.holding_regs]
<1>1. m.coils \in [0 .. Size - 1 -> BOOLEAN] /\ m.holding_regs \in [0 .. Size - 1 -> Word]
      /\ m = [coils |-> m.coils, holding_regs |-> m.holding_regs]
  BY DEF Memory
<1>. QED  BY <1>1

(* The reply to a read of coils. *)
CoilBits(m, from) == [bit \in 0 .. 7 |-> from + bit < Size /\ m.coils[from + bit]]

CoilBytes(m, start, n) == [b \in 1 .. (n + 7) \div 8 |-> ByteOf(CoilBits(m, start + (b - 1) * 8))]

CoilsAnswer(m, start, n) ==
  IF n < 1 \/ n > 2000 \/ start + n > Size THEN Refuse(m, ReadCoils, 2)
  ELSE Answer(m, ReadCoils, OneAnd((n + 7) \div 8, CoilBytes(m, start, n)))

(* The server refuses a range past its table and answers any other.        *)
LEMMA CoilsReply ==
  ASSUME NEW m \in Memory, NEW start \in Word, NEW n \in Word, 1 <= n, ~(n > 2000)
  PROVE  LET a == _process(m, TwoWords(ReadCoils, start, n))
         IN  IF start + n > Size THEN a = Refuse(m, ReadCoils, 2)
             ELSE a = Answer(m, ReadCoils, OneAnd((n + 7) \div 8, CoilBytes(m, start, n)))
<1>1. PICK pdu : pdu = TwoWords(ReadCoils, start, n)
  OBVIOUS
<1>2. IsTwoWords(pdu, ReadCoils, start, n)
  BY <1>1, TwoWordsIsRead
<1>3. _process(m, pdu) = _read_co(m, pdu.data)
  BY <1>2, Dispatch DEF IsTwoWords
<1>4. readU16(pdu.data, 0) = start /\ readU16(pdu.data, 2) = n
  BY <1>2 DEF IsTwoWords
<1>5. n \in Int /\ ~(n < 1)
  BY WordRange
<1>6. _read_co(m, pdu.data) = CoilsAnswer(m, readU16(pdu.data, 0), readU16(pdu.data, 2))
  BY DEF _read_co, CoilsAnswer, OneAnd, CoilBytes, CoilBits
<1>7. _process(m, pdu) = CoilsAnswer(m, start, n)
  BY <1>3, <1>4, <1>6
<1>. QED  BY <1>1, <1>5, <1>7 DEF CoilsAnswer

(* The bytes of the coils fit the count byte of the reply. *)
LEMMA CoilBytesAre ==
  ASSUME NEW m \in Memory, NEW start \in Word, NEW n \in Word, 1 <= n, ~(n > 2000)
  PROVE  /\ CoilBytes(m, start, n) \in Seq(Byte)
         /\ Len(CoilBytes(m, start, n)) = (n + 7) \div 8 /\ (n + 7) \div 8 \in Byte
<1>1. PICK c : c = (n + 7) \div 8
  OBVIOUS
<1>2. n \in Int
  BY WordRange
<1>3. c \in Int /\ 0 <= c /\ c <= 255
  BY <1>1, <1>2
<1>4. \A b \in 1 .. c : ByteOf(CoilBits(m, start + (b - 1) * 8)) \in Byte
  BY ByteOfIsByte
<1>5. CoilBytes(m, start, n) = [b \in 1 .. c |-> ByteOf(CoilBits(m, start + (b - 1) * 8))]
  BY <1>1 DEF CoilBytes
<1>. QED  BY <1>1, <1>3, <1>4, <1>5, ByteRange

(* The coils that were asked for are the first bits of those bytes. *)
LEMMA CoilBytesHold ==
  ASSUME NEW m \in Memory, NEW start \in Word, NEW n \in Word, start + n <= Size,
         NEW k \in 1 .. n
  PROVE  BitOf(CoilBytes(m, start, n)[1 + (k - 1) \div 8], (k - 1) % 8) = m.coils[start + k - 1]
<1>1. /\ start \in Int /\ 0 <= start /\ n \in Int /\ Size \in Int
  BY WordRange, SizeAssumption
<1>2. PICK q, r : q = (k - 1) \div 8 /\ r = (k - 1) % 8
  OBVIOUS
<1>3. k - 1 = 8 * q + r /\ q \in Nat /\ r \in 0 .. 7 /\ 1 + q \in 1 .. (n + 7) \div 8
  BY <1>1, <1>2
<1>4. CoilBytes(m, start, n)[1 + q] = ByteOf(CoilBits(m, start + q * 8))
  <2>1. 1 + q - 1 = q
    BY <1>3
  <2>. QED  BY <1>3, <2>1 DEF CoilBytes
<1>5. CoilBits(m, start + q * 8) \in [0 .. 7 -> BOOLEAN]
  <2>1. ASSUME NEW b \in 0 .. 7
        PROVE  (start + q * 8 + b < Size /\ m.coils[start + q * 8 + b]) \in BOOLEAN
    <3>1. CASE start + q * 8 + b < Size
      <4>1. start + q * 8 + b \in 0 .. Size - 1
        BY <1>1, <1>3, <3>1
      <4>2. m.coils[start + q * 8 + b] \in BOOLEAN
        BY <4>1, Tables
      <4>. QED  BY <4>2
    <3>2. CASE ~(start + q * 8 + b < Size)
      BY <3>2
    <3>. QED  BY <3>1, <3>2
  <2>. QED  BY <2>1 DEF CoilBits
<1>6. BitOf(ByteOf(CoilBits(m, start + q * 8)), r) = CoilBits(m, start + q * 8)[r]
  BY <1>3, <1>5, BitOfByteOf
<1>7. start + q * 8 + r = start + k - 1 /\ start + k - 1 < Size /\ start + k - 1 \in 0 .. Size - 1
  BY <1>1, <1>3
<1>8. CoilBits(m, start + q * 8)[r] = m.coils[start + k - 1]
  <2>1. m.coils[start + k - 1] \in BOOLEAN
    BY <1>7, Tables
  <2>. QED  BY <1>3, <1>7, <2>1 DEF CoilBits
<1>. QED  BY <1>2, <1>4, <1>6, <1>8

(* The reply to a read of registers. *)
RegistersFrom(m, start, n) == [k \in 1 .. n |-> m.holding_regs[start + k - 1]]

(* The server refuses a range past its table and answers any other.        *)
LEMMA RegistersReply ==
  ASSUME NEW m \in Memory, NEW start \in Word, NEW n \in Word, 1 <= n, ~(n > 125)
  PROVE  LET a == _process(m, TwoWords(ReadHoldingRegisters, start, n))
         IN  IF start + n > Size THEN a = Refuse(m, ReadHoldingRegisters, 2)
             ELSE a = Answer(m, ReadHoldingRegisters,
                             OneAnd(2 * n, WordBytes(RegistersFrom(m, start, n))))
<1>1. PICK pdu : pdu = TwoWords(ReadHoldingRegisters, start, n)
  OBVIOUS
<1>2. IsTwoWords(pdu, ReadHoldingRegisters, start, n)
  BY <1>1, TwoWordsIsRead
<1>3. _process(m, pdu) = _read_hr(m, pdu.data)
  BY <1>2, Dispatch DEF IsTwoWords
<1>4. readU16(pdu.data, 0) = start /\ readU16(pdu.data, 2) = n
  BY <1>2 DEF IsTwoWords
<1>5. n \in Int /\ ~(n < 1)
  BY WordRange
<1>6. _read_hr(m, pdu.data) = IF start + n > Size THEN Refuse(m, ReadHoldingRegisters, 2)
                              ELSE Answer(m, ReadHoldingRegisters,
                                          OneAnd(2 * n, WordBytes(RegistersFrom(m, start, n))))
  BY <1>4, <1>5 DEF _read_hr, OneAnd, RegistersFrom
<1>. QED  BY <1>1, <1>3, <1>6

(* A range inside the table is a list of words. *)
LEMMA RegistersFromAre ==
  ASSUME NEW m \in Memory, NEW start \in Word, NEW n \in Word, start + n <= Size
  PROVE  RegistersFrom(m, start, n) \in Seq(Word) /\ Len(RegistersFrom(m, start, n)) = n
<1>1. start \in Int /\ 0 <= start /\ n \in Nat /\ Size \in Int
  BY WordRange, SizeAssumption
<1>2. ASSUME NEW k \in 1 .. n
      PROVE  m.holding_regs[start + k - 1] \in Word
  <2>1. start + k - 1 \in 0 .. Size - 1
    BY <1>1
  <2>. QED  BY <2>1, Tables
<1>. QED  BY <1>1, <1>2 DEF RegistersFrom

-----------------------------------------------------------------------------
(* Writes to the server *)

(* An entry of a table is replaced; one past its end is not there.         *)
LEMMA CoilReplaced ==
  ASSUME NEW m \in Memory, NEW a \in Word, NEW v \in BOOLEAN
  PROVE  /\ [m EXCEPT !.coils[a] = v] \in Memory
         /\ ~(a < Size) => [m EXCEPT !.coils[a] = v] = m
<1>1. m.coils \in [0 .. Size - 1 -> BOOLEAN] /\ m.holding_regs \in [0 .. Size - 1 -> Word]
      /\ m = [coils |-> m.coils, holding_regs |-> m.holding_regs]
  BY Tables
<1>2. [m EXCEPT !.coils[a] = v] = [coils |-> [m.coils EXCEPT ![a] = v], holding_regs |-> m.holding_regs]
  BY <1>1
<1>3. [m.coils EXCEPT ![a] = v] \in [0 .. Size - 1 -> BOOLEAN]
  BY <1>1
<1>4. ASSUME ~(a < Size)
      PROVE  [m.coils EXCEPT ![a] = v] = m.coils
  <2>1. a \notin 0 .. Size - 1
    BY <1>4, WordRange, SizeAssumption
  <2>. QED  BY <1>1, <2>1
<1>. QED  BY <1>1, <1>2, <1>3, <1>4 DEF Memory

(* And so for the registers. *)
LEMMA RegisterReplaced ==
  ASSUME NEW m \in Memory, NEW a \in Word, NEW v \in Word
  PROVE  /\ [m EXCEPT !.holding_regs[a] = v] \in Memory
         /\ ~(a < Size) => [m EXCEPT !.holding_regs[a] = v] = m
<1>1. m.coils \in [0 .. Size - 1 -> BOOLEAN] /\ m.holding_regs \in [0 .. Size - 1 -> Word]
      /\ m = [coils |-> m.coils, holding_regs |-> m.holding_regs]
  BY Tables
<1>2. [m EXCEPT !.holding_regs[a] = v] = [coils |-> m.coils, holding_regs |-> [m.holding_regs EXCEPT ![a] = v]]
  BY <1>1
<1>3. [m.holding_regs EXCEPT ![a] = v] \in [0 .. Size - 1 -> Word]
  BY <1>1
<1>4. ASSUME ~(a < Size)
      PROVE  [m.holding_regs EXCEPT ![a] = v] = m.holding_regs
  <2>1. a \notin 0 .. Size - 1
    BY <1>4, WordRange, SizeAssumption
  <2>. QED  BY <1>1, <2>1
<1>. QED  BY <1>1, <1>2, <1>3, <1>4 DEF Memory

(* A write ended: either the server did what the caller meant and said so, *)
(* or it did nothing and refused.                                          *)
Done(o, m, a) ==
  \/ a.memory = Expected(o, m) /\ Expected(o, m) \in Memory /\ ~isExceptionResponse(a.reply)
  \/ a.memory = m /\ isExceptionResponse(a.reply)

(* A single coil: 65280 on the wire is on, anything else off. *)
LEMMA SingleCoilDone ==
  ASSUME NEW m \in Memory, NEW o, o.name = "writeSingleCoil", o.start \in Word, o.arg \in BOOLEAN
  PROVE  Done(o, m, _process(m, Request(o)))
<1>1. PICK set : set = 65280
  OBVIOUS
<1>2. PICK second : second = IF o.arg THEN set ELSE 0
  OBVIOUS
<1>3. o.arg = TRUE \/ o.arg = FALSE
  OBVIOUS
<1>4. second \in Word /\ set # 0
  BY <1>1, <1>2, WordRange
<1>5. (second = set) = o.arg
  <2>1. CASE o.arg = TRUE
    BY <1>2, <2>1
  <2>2. CASE o.arg = FALSE
    BY <1>2, <1>4, <2>2
  <2>. QED  BY <1>3, <2>1, <2>2
<1>6. PICK pdu : pdu = TwoWords(WriteSingleCoil, o.start, second)
  OBVIOUS
<1>7. Request(o) = pdu
  BY <1>1, <1>2, <1>6 DEF Request
<1>8. IsTwoWords(pdu, WriteSingleCoil, o.start, second)
  BY <1>4, <1>6, TwoWordsIsRead
<1>9. _process(m, pdu) = _write_sc(m, pdu.data)
  BY <1>8, Dispatch DEF IsTwoWords
<1>10. PICK written : written = [m EXCEPT !.coils[o.start] = o.arg]
  OBVIOUS
<1>11. written \in Memory /\ (~(o.start < Size) => written = m)
  BY <1>10, CoilReplaced
<1>12. Expected(o, m) = written
  BY <1>10 DEF Expected
<1>13. _write_sc(m, pdu.data) = Answer(IF o.start < Size THEN written ELSE m, WriteSingleCoil, pdu.data)
  BY <1>1, <1>5, <1>8, <1>10 DEF _write_sc, IsTwoWords
<1>14. ~isExceptionResponse(_write_sc(m, pdu.data).reply)
  BY <1>13, Answered DEF isExceptionResponse, WriteSingleCoil
<1>15. _write_sc(m, pdu.data).memory = written
  BY <1>11, <1>13, Answered
<1>. QED  BY <1>7, <1>9, <1>11, <1>12, <1>14, <1>15 DEF Done

(* A single register. *)
LEMMA SingleRegisterDone ==
  ASSUME NEW m \in Memory, NEW o, o.name = "writeSingleRegister", o.start \in Word, o.arg \in Word
  PROVE  Done(o, m, _process(m, Request(o)))
<1>1. PICK pdu : pdu = TwoWords(WriteSingleRegister, o.start, o.arg)
  OBVIOUS
<1>2. Request(o) = pdu
  BY <1>1 DEF Request
<1>3. IsTwoWords(pdu, WriteSingleRegister, o.start, o.arg)
  BY <1>1, TwoWordsIsRead
<1>4. _process(m, pdu) = _write_sr(m, pdu.data)
  BY <1>3, Dispatch DEF IsTwoWords
<1>5. PICK written : written = [m EXCEPT !.holding_regs[o.start] = o.arg]
  OBVIOUS
<1>6. written \in Memory /\ (~(o.start < Size) => written = m)
  BY <1>5, RegisterReplaced
<1>7. Expected(o, m) = written
  BY <1>5 DEF Expected
<1>8. _write_sr(m, pdu.data) = Answer(IF o.start < Size THEN written ELSE m, WriteSingleRegister, pdu.data)
  BY <1>3, <1>5 DEF _write_sr, IsTwoWords
<1>9. ~isExceptionResponse(_write_sr(m, pdu.data).reply)
  BY <1>8, Answered DEF isExceptionResponse, WriteSingleRegister
<1>10. _write_sr(m, pdu.data).memory = written
  BY <1>6, <1>8, Answered
<1>. QED  BY <1>2, <1>4, <1>6, <1>7, <1>9, <1>10 DEF Done

(* The tables with the entries of a list from start on. *)
CoilsWith(m, start, values) ==
  [i \in 0 .. Size - 1 |-> IF i - start + 1 \in DOMAIN values THEN values[i - start + 1] ELSE m.coils[i]]

RegistersWith(m, start, values) ==
  [i \in 0 .. Size - 1 |->
     IF i - start + 1 \in DOMAIN values THEN values[i - start + 1] ELSE m.holding_regs[i]]

(* The table a caller expects of a list of coils. *)
LEMMA CoilsExpected ==
  ASSUME NEW m \in Memory, NEW o, o.name = "writeMultipleCoils", o.arg \in Seq(BOOLEAN)
  PROVE  /\ Expected(o, m) = [m EXCEPT !.coils = CoilsWith(m, o.start, o.arg)]
         /\ Expected(o, m) \in Memory
<1>1. m.coils \in [0 .. Size - 1 -> BOOLEAN] /\ m.holding_regs \in [0 .. Size - 1 -> Word]
      /\ m = [coils |-> m.coils, holding_regs |-> m.holding_regs]
  BY Tables
<1>2. DOMAIN m.coils = 0 .. Size - 1
  BY <1>1
<1>3. Expected(o, m) = [m EXCEPT !.coils = [i \in DOMAIN @ |->
            IF i - o.start + 1 \in DOMAIN o.arg THEN o.arg[i - o.start + 1] ELSE @[i]]]
  BY DEF Expected
<1>4. Expected(o, m) = [m EXCEPT !.coils = CoilsWith(m, o.start, o.arg)]
  BY <1>2, <1>3 DEF CoilsWith
<1>5. CoilsWith(m, o.start, o.arg) \in [0 .. Size - 1 -> BOOLEAN]
  <2>1. ASSUME NEW i \in 0 .. Size - 1
        PROVE  (IF i - o.start + 1 \in DOMAIN o.arg THEN o.arg[i - o.start + 1] ELSE m.coils[i]) \in BOOLEAN
    <3>1. CASE i - o.start + 1 \in DOMAIN o.arg
      <4>1. o.arg[i - o.start + 1] \in BOOLEAN
        BY <3>1
      <4>. QED  BY <3>1, <4>1
    <3>2. CASE ~(i - o.start + 1 \in DOMAIN o.arg)
      <4>1. m.coils[i] \in BOOLEAN
        BY Tables
      <4>. QED  BY <3>2, <4>1
    <3>. QED  BY <3>1, <3>2
  <2>. QED  BY <2>1 DEF CoilsWith
<1>. QED  BY <1>1, <1>4, <1>5 DEF Memory

(* The table a caller expects of a list of registers. *)
LEMMA RegistersExpected ==
  ASSUME NEW m \in Memory, NEW o, o.name = "writeMultipleRegisters", o.arg \in Seq(Word)
  PROVE  /\ Expected(o, m) = [m EXCEPT !.holding_regs = RegistersWith(m, o.start, o.arg)]
         /\ Expected(o, m) \in Memory
<1>1. m.coils \in [0 .. Size - 1 -> BOOLEAN] /\ m.holding_regs \in [0 .. Size - 1 -> Word]
      /\ m = [coils |-> m.coils, holding_regs |-> m.holding_regs]
  BY Tables
<1>2. DOMAIN m.holding_regs = 0 .. Size - 1
  BY <1>1
<1>3. Expected(o, m) = [m EXCEPT !.holding_regs = [i \in DOMAIN @ |->
            IF i - o.start + 1 \in DOMAIN o.arg THEN o.arg[i - o.start + 1] ELSE @[i]]]
  BY DEF Expected
<1>4. Expected(o, m) = [m EXCEPT !.holding_regs = RegistersWith(m, o.start, o.arg)]
  BY <1>2, <1>3 DEF RegistersWith
<1>5. RegistersWith(m, o.start, o.arg) \in [0 .. Size - 1 -> Word]
  <2>1. ASSUME NEW i \in 0 .. Size - 1
        PROVE  (IF i - o.start + 1 \in DOMAIN o.arg THEN o.arg[i - o.start + 1] ELSE m.holding_regs[i]) \in Word
    <3>1. CASE i - o.start + 1 \in DOMAIN o.arg
      BY <3>1
    <3>2. CASE ~(i - o.start + 1 \in DOMAIN o.arg)
      BY <3>2, Tables
    <3>. QED  BY <3>1, <3>2
  <2>. QED  BY <2>1 DEF RegistersWith
<1>. QED  BY <1>1, <1>4, <1>5 DEF Memory

(* A list of coils: the bits the server unpacks are those of the list.     *)
LEMMA MultipleCoilsDone ==
  ASSUME NEW m \in Memory, NEW o, o.name = "writeMultipleCoils", o.start \in Word,
         o.arg \in Seq(BOOLEAN), CoilsFit(o.arg)
  PROVE  Done(o, m, _process(m, Request(o)))
<1>1. PICK values \in Seq(BOOLEAN) : values = o.arg
  OBVIOUS
<1>2. PICK start \in Word : start = o.start
  OBVIOUS
<1>3. PICK pdu : pdu = CoilsPdu(start, values)
  OBVIOUS
<1>4. Request(o) = pdu
  BY <1>1, <1>2, <1>3 DEF Request
<1>5. PICK data : data = pdu.data
  OBVIOUS
<1>6. PICK n \in Nat : n = Len(values)
  BY <1>1
<1>7. PICK count : count = (n + 7) \div 8
  OBVIOUS
<1>8. CoilsFit(values)
  BY <1>1
<1>9. IsCoilsPdu(pdu, start, values)
  BY <1>3, <1>8, CoilsPduData
<1>10. /\ pdu.functionCode = WriteMultipleCoils
      /\ readU16(data, 0) = start /\ readU16(data, 2) = n
      /\ \A i \in 1 .. count : data[5 + i] = PackedByte(values, i - 1)
  BY <1>5, <1>6, <1>7, <1>9 DEF IsCoilsPdu
<1>11. start \in Int /\ 0 <= start
  BY WordRange
<1>12. ASSUME NEW k \in 0 .. n - 1
       PROVE  BitOf(data[6 + k \div 8], k % 8) = values[k + 1]
  <2>1. PICK q, r : q = k \div 8 /\ r = k % 8
    OBVIOUS
  <2>2. /\ q \in Nat /\ r \in 0 .. 7 /\ k = q * 8 + r
        /\ q + 1 \in 1 .. count /\ 5 + (q + 1) = 6 + q /\ q + 1 - 1 = q
    BY <1>7, <2>1
  <2>3. data[6 + q] = PackedByte(values, q)
    BY <1>10, <2>2
  <2>4. PICK bits : bits = [b \in 0 .. 7 |-> q * 8 + b < Len(values) /\ values[q * 8 + b + 1]]
    OBVIOUS
  <2>5. bits \in [0 .. 7 -> BOOLEAN]
    <3>1. ASSUME NEW b \in 0 .. 7
          PROVE  (q * 8 + b < Len(values) /\ values[q * 8 + b + 1]) \in BOOLEAN
      <4>1. CASE q * 8 + b < Len(values)
        <5>1. q * 8 + b + 1 \in 1 .. Len(values)
          BY <1>6, <2>2, <4>1
        <5>2. values[q * 8 + b + 1] \in BOOLEAN
          BY <5>1
        <5>. QED  BY <5>2
      <4>2. CASE ~(q * 8 + b < Len(values))
        BY <4>2
      <4>. QED  BY <4>1, <4>2
    <3>. QED  BY <2>4, <3>1
  <2>6. BitOf(ByteOf(bits), r) = bits[r]
    BY <2>2, <2>5, BitOfByteOf
  <2>7. PackedByte(values, q) = ByteOf(bits)
    BY <2>4 DEF PackedByte
  <2>8. bits[r] = values[k + 1]
    <3>1. q * 8 + r < Len(values) /\ q * 8 + r + 1 = k + 1 /\ k + 1 \in 1 .. Len(values)
      BY <1>6, <2>2
    <3>2. values[k + 1] \in BOOLEAN
      BY <3>1
    <3>. QED  BY <2>2, <2>4, <3>1, <3>2
  <2>. QED  BY <2>1, <2>3, <2>6, <2>7, <2>8
<1>13. PICK bit : bit = [i \in 0 .. Size - 1 |->
        IF i \in start .. start + n - 1 THEN BitOf(data[6 + (i - start) \div 8], (i - start) % 8) ELSE m.coils[i]]
  OBVIOUS
<1>14. bit = CoilsWith(m, start, values)
  <2>1. ASSUME NEW i \in 0 .. Size - 1
        PROVE  (IF i \in start .. start + n - 1 THEN BitOf(data[6 + (i - start) \div 8], (i - start) % 8) ELSE m.coils[i])
                 = (IF i - start + 1 \in DOMAIN values THEN values[i - start + 1] ELSE m.coils[i])
    <3>1. DOMAIN values = 1 .. n
      BY <1>6
    <3>2. CASE i \in start .. start + n - 1
      <4>1. i - start \in 0 .. n - 1 /\ i - start + 1 \in 1 .. n
        BY <1>11, <3>2
      <4>2. BitOf(data[6 + (i - start) \div 8], (i - start) % 8) = values[i - start + 1]
        BY <1>12, <4>1
      <4>. QED  BY <3>1, <3>2, <4>1, <4>2
    <3>3. CASE ~(i \in start .. start + n - 1)
      <4>1. ~(i - start + 1 \in 1 .. n)
        BY <1>11, <3>3
      <4>. QED  BY <3>1, <3>3, <4>1
    <3>. QED  BY <3>2, <3>3
  <2>. QED  BY <1>13, <2>1 DEF CoilsWith
<1>15. PICK written : written = [m EXCEPT !.coils = bit]
  OBVIOUS
<1>16. PICK echo : echo = SubSeq(data, 1, 4)
  OBVIOUS
<1>17. _write_mc(m, data) = Answer(written, WriteMultipleCoils, echo)
  BY <1>10, <1>13, <1>15, <1>16 DEF _write_mc
<1>18. _process(m, pdu) = _write_mc(m, data)
  BY <1>5, <1>10, Dispatch
<1>19. Expected(o, m) = written /\ Expected(o, m) \in Memory
  BY <1>1, <1>2, <1>14, <1>15, CoilsExpected
<1>20. ~isExceptionResponse(_process(m, pdu).reply) /\ _process(m, pdu).memory = written
  BY <1>17, <1>18, Answered DEF isExceptionResponse, WriteMultipleCoils
<1>. QED  BY <1>4, <1>19, <1>20 DEF Done

(* A list of registers: the words the server reads are those of the list.  *)
LEMMA MultipleRegistersDone ==
  ASSUME NEW m \in Memory, NEW o, o.name = "writeMultipleRegisters", o.start \in Word,
         o.arg \in Seq(Word), RegistersFit(o.arg)
  PROVE  Done(o, m, _process(m, Request(o)))
<1>1. PICK values \in Seq(Word) : values = o.arg
  OBVIOUS
<1>2. PICK start \in Word : start = o.start
  OBVIOUS
<1>3. PICK pdu : pdu = RegistersPdu(start, values)
  OBVIOUS
<1>4. Request(o) = pdu
  BY <1>1, <1>2, <1>3 DEF Request
<1>5. PICK data : data = pdu.data
  OBVIOUS
<1>6. PICK n \in Nat : n = Len(values)
  BY <1>1
<1>7. RegistersFit(values)
  BY <1>1
<1>8. IsRegistersPdu(pdu, start, values)
  BY <1>3, <1>7, RegistersPduData
<1>9. /\ pdu.functionCode = WriteMultipleRegisters
      /\ readU16(data, 0) = start /\ readU16(data, 2) = n /\ data[5] = 2 * n
      /\ \A k \in 1 .. n : 256 * data[5 + (2 * k - 1)] + data[5 + 2 * k] = values[k]
  BY <1>5, <1>6, <1>8 DEF IsRegistersPdu
<1>10. start \in Int /\ 0 <= start
  BY WordRange
<1>11. ASSUME NEW k \in 0 .. n - 1
       PROVE  readU16(data, 5 + 2 * k) = values[k + 1]
  <2>1. k + 1 \in 1 .. n /\ 5 + (2 * (k + 1) - 1) = 5 + 2 * k + 1 /\ 5 + 2 * (k + 1) = 5 + 2 * k + 2
    OBVIOUS
  <2>2. 256 * data[5 + (2 * (k + 1) - 1)] + data[5 + 2 * (k + 1)] = values[k + 1]
    BY <1>9, <2>1
  <2>. QED  BY <2>1, <2>2 DEF readU16
<1>12. PICK table : table = [i \in 0 .. Size - 1 |->
        IF i \in start .. start + n - 1 THEN readU16(data, 5 + 2 * (i - start)) ELSE m.holding_regs[i]]
  OBVIOUS
<1>13. table = RegistersWith(m, start, values)
  <2>1. ASSUME NEW i \in 0 .. Size - 1
        PROVE  (IF i \in start .. start + n - 1 THEN readU16(data, 5 + 2 * (i - start)) ELSE m.holding_regs[i])
                 = (IF i - start + 1 \in DOMAIN values THEN values[i - start + 1] ELSE m.holding_regs[i])
    <3>1. DOMAIN values = 1 .. n
      BY <1>6
    <3>2. CASE i \in start .. start + n - 1
      <4>1. i - start \in 0 .. n - 1 /\ i - start + 1 \in 1 .. n
        BY <1>10, <3>2
      <4>2. readU16(data, 5 + 2 * (i - start)) = values[i - start + 1]
        BY <1>11, <4>1
      <4>. QED  BY <3>1, <3>2, <4>1, <4>2
    <3>3. CASE ~(i \in start .. start + n - 1)
      <4>1. ~(i - start + 1 \in 1 .. n)
        BY <1>10, <3>3
      <4>. QED  BY <3>1, <3>3, <4>1
    <3>. QED  BY <3>2, <3>3
  <2>. QED  BY <1>12, <2>1 DEF RegistersWith
<1>14. PICK written : written = [m EXCEPT !.holding_regs = table]
  OBVIOUS
<1>15. PICK echo : echo = SubSeq(data, 1, 4)
  OBVIOUS
<1>16. _write_mr(m, data) = IF start + n > Size THEN Refuse(m, WriteMultipleRegisters, 2)
                            ELSE Answer(written, WriteMultipleRegisters, echo)
  BY <1>9, <1>12, <1>14, <1>15 DEF _write_mr
<1>17. _process(m, pdu) = _write_mr(m, data)
  BY <1>5, <1>9, Dispatch
<1>18. Expected(o, m) = written /\ Expected(o, m) \in Memory
  BY <1>1, <1>2, <1>13, <1>14, RegistersExpected
<1>19. CASE start + n > Size
  <2>1. _process(m, pdu).memory = m /\ isExceptionResponse(_process(m, pdu).reply)
    BY <1>16, <1>17, <1>19, RefusalIs DEF WriteMultipleRegisters
  <2>. QED  BY <1>4, <2>1 DEF Done
<1>20. CASE ~(start + n > Size)
  <2>1. ~isExceptionResponse(_process(m, pdu).reply) /\ _process(m, pdu).memory = written
    BY <1>16, <1>17, <1>20, Answered DEF isExceptionResponse, WriteMultipleRegisters
  <2>. QED  BY <1>4, <1>18, <2>1 DEF Done
<1>. QED  BY <1>19, <1>20

-----------------------------------------------------------------------------
(* Operations *)

(* An operation whose quantity a uint16_t can say. *)
Typed(o) ==
  /\ o.start \in Word
  /\ \/ o.name \in BitReads \cup RegisterReads /\ o.arg \in Word
     \/ o.name = "writeSingleCoil" /\ o.arg \in BOOLEAN
     \/ o.name = "writeSingleRegister" /\ o.arg \in Word
     \/ o.name = "writeMultipleCoils" /\ o.arg \in Seq(BOOLEAN) /\ Len(o.arg) \in Word
     \/ o.name = "writeMultipleRegisters" /\ o.arg \in Seq(Word) /\ Len(o.arg) \in Word

(* An operation with a longer list. *)
TooMany(o) ==
  /\ o.start \in Word
  /\ \/ o.name = "writeMultipleCoils" /\ o.arg \in Seq(BOOLEAN) /\ Len(o.arg) \notin Word
     \/ o.name = "writeMultipleRegisters" /\ o.arg \in Seq(Word) /\ Len(o.arg) \notin Word

(* Every operation a caller asks for is one or the other; reads are typed. *)
LEMMA OperationsAre ==
  ASSUME NEW o \in Operations
  PROVE  /\ Typed(o) \/ TooMany(o)
         /\ o.name \in BitReads \cup RegisterReads => Typed(o)
  BY OperationAssumption DEF Typed, TooMany, BitReads, RegisterReads

(* The type of the argument, by operation. *)
LEMMA TypedNames ==
  ASSUME NEW o, Typed(o)
  PROVE  /\ o.start \in Word
         /\ o.name \in BitReads \cup RegisterReads \cup Writes
         /\ o.name \in BitReads \cup RegisterReads => o.arg \in Word /\ Asked(o) = o.arg
         /\ o.name = "writeSingleCoil" => o.arg \in BOOLEAN
         /\ o.name = "writeSingleRegister" => o.arg \in Word
         /\ o.name = "writeMultipleCoils" => o.arg \in Seq(BOOLEAN) /\ Asked(o) = Len(o.arg)
         /\ o.name = "writeMultipleRegisters" => o.arg \in Seq(Word) /\ Asked(o) = Len(o.arg)
         /\ o.name \in Multiple => Asked(o) \in Word
         /\ o.name \in Multiple => Asked(o) \in Nat /\ Asked(o) = uint16(Asked(o))
<1>1. /\ o.start \in Word
      /\ o.name \in BitReads \cup RegisterReads \cup Writes
      /\ o.name \in BitReads \cup RegisterReads => o.arg \in Word /\ Asked(o) = o.arg
      /\ o.name = "writeSingleCoil" => o.arg \in BOOLEAN
      /\ o.name = "writeSingleRegister" => o.arg \in Word
      /\ o.name = "writeMultipleCoils" => o.arg \in Seq(BOOLEAN) /\ Asked(o) = Len(o.arg)
      /\ o.name = "writeMultipleRegisters" => o.arg \in Seq(Word) /\ Asked(o) = Len(o.arg)
      /\ o.name \in Multiple => Asked(o) \in Word
  BY DEF Typed, BitReads, RegisterReads, Writes, Asked, Multiple
<1>2. Asked(o) \in Word => Asked(o) \in Nat /\ Asked(o) = uint16(Asked(o))
  <2>1. Asked(o) \in Word => Asked(o) \in Nat
    BY WordRange
  <2>. QED  BY <2>1, Narrowed
<1>. QED  BY <1>1, <1>2

(* What is sent for an operation that the builder accepts. *)
LEMMA BuildValue ==
  ASSUME NEW o, Typed(o)
  PROVE  /\ o.name \in Multiple => (isOk(build(o)) <=> InDocumentedRange(o))
         /\ isOk(build(o)) => build(o).value = Request(o)
<1>1. CASE o.name \in Multiple
  <2>1. Asked(o) \in Word /\ Asked(o) \in Nat /\ Asked(o) = uint16(Asked(o))
    BY <1>1, TypedNames
  <2>2. /\ InDocumentedRange(o) => build(o) = ok(Request(o))
        /\ ~InDocumentedRange(o) => build(o) = Error("Usage", 0)
    BY <1>1, <2>1, BuildMultiple DEF InDocumentedRange
  <2>. QED  BY <2>2, Results
<1>2. CASE o.name \notin Multiple
  <2>1. o.name \in {"writeSingleCoil", "writeSingleRegister"}
    BY <1>2, TypedNames DEF Multiple, Writes
  <2>2. build(o) = ok(Request(o))
    BY <2>1, BuildSingle
  <2>. QED  BY <1>2, <2>2, Results
<1>. QED  BY <1>1, <1>2

-----------------------------------------------------------------------------
(* What a request says of itself *)

(* The list is meant as it stands when its size is not changed by the      *)
(* narrowing.                                                              *)
CountsItself(o, data) ==
  /\ o.name \in Writes => data[5] = Len(data) - 5
  /\ o.name = "writeMultipleCoils" => 8 * data[5] \in Asked(o) .. Asked(o) + 7
  /\ o.name = "writeMultipleRegisters" => data[5] = 2 * Asked(o)

DescribesItself(o) ==
  LET data     == build(o).value.data
      quantity == uint16(Asked(o))
  IN  /\ quantity \in 1 .. Documented(o) <=> isOk(build(o))
      /\ isOk(build(o)) =>
           /\ \A k \in DOMAIN data : data[k] \in Byte
           /\ readU16(data, 2) = quantity
           /\ FitsPdu(build(o).value) <=> Asked(o) = quantity
           /\ Asked(o) = quantity => CountsItself(o, data)

(* Every request made for a quantity that fits describes itself.           *)
LEMMA RequestDescribes ==
  ASSUME NEW o, Typed(o), o.name \in Multiple
  PROVE  DescribesItself(o)
<1>1. PICK n : n = Asked(o)
  OBVIOUS
<1>2. PICK limit : limit = Documented(o)
  OBVIOUS
<1>3. n \in Int /\ limit \in Int
  BY <1>1, <1>2, TypedNames, Limits, WordRange
<1>4. Asked(o) \in 1 .. Documented(o) <=> isOk(build(o))
  <2>1. InDocumentedRange(o) <=> 1 <= n /\ n <= limit
    BY <1>1, <1>2 DEF InDocumentedRange
  <2>2. n \in 1 .. limit <=> 1 <= n /\ n <= limit
    BY <1>3
  <2>. QED  BY <1>1, <1>2, <2>1, <2>2, BuildValue
<1>5. ASSUME isOk(build(o)), NEW data, data = build(o).value.data
      PROVE  /\ Len(data) <= kMaxPduDataSize
             /\ data \in Seq(Byte)
             /\ readU16(data, 2) = Asked(o)
             /\ o.name \in Writes => data[5] = Len(data) - 5
             /\ o.name = "writeMultipleCoils" => 8 * data[5] \in Asked(o) .. Asked(o) + 7
             /\ o.name = "writeMultipleRegisters" => data[5] = 2 * Asked(o)
  <2>1. InDocumentedRange(o) /\ data = Request(o).data
    BY <1>5, BuildValue
  <2>2. 1 <= n /\ n <= limit
    BY <1>1, <1>2, <2>1 DEF InDocumentedRange
  <2>3. CASE o.name \in BitReads \cup RegisterReads
    <3>1. o.start \in Word /\ o.arg \in Word /\ Asked(o) = o.arg /\ o.name \notin Writes
      BY <2>3, TypedNames DEF BitReads, RegisterReads, Writes
    <3>2. \E fc : Request(o) = TwoWords(fc, o.start, o.arg)
      BY <2>3 DEF Request, BitReads, RegisterReads
    <3>3. PICK fc : IsTwoWords(Request(o), fc, o.start, o.arg)
      BY <3>1, <3>2, TwoWordsIsRead
    <3>4. data \in Seq(Byte) /\ Len(data) = 4 /\ readU16(data, 2) = o.arg
      BY <2>1, <3>3 DEF IsTwoWords
    <3>. QED  BY <3>1, <3>4 DEF kMaxPduDataSize, Writes
  <2>4. CASE o.name = "writeMultipleCoils"
    <3>1. o.start \in Word /\ o.arg \in Seq(BOOLEAN) /\ Asked(o) = Len(o.arg)
      BY <2>4, TypedNames
    <3>2. limit = 1968
      BY <1>2, <2>4, Limits
    <3>3. CoilsFit(o.arg)
      BY <1>1, <2>2, <3>1, <3>2 DEF CoilsFit
    <3>4. IsCoilsPdu(CoilsPdu(o.start, o.arg), o.start, o.arg)
      BY <3>1, <3>3, CoilsPduData
    <3>5. data = CoilsPdu(o.start, o.arg).data
      BY <2>1, <2>4 DEF Request
    <3>6. PICK c \in Nat : /\ c <= 246 /\ n <= 8 * c /\ 8 * c <= n + 7
                           /\ data \in Seq(Byte) /\ Len(data) = 5 + c
                           /\ readU16(data, 2) = n /\ data[5] = c
      BY <1>1, <3>1, <3>4, <3>5 DEF IsCoilsPdu
    <3>7. 8 * data[5] \in n .. n + 7 /\ data[5] = Len(data) - 5 /\ Len(data) <= 252
      BY <1>3, <3>6
    <3>. QED  BY <1>1, <2>4, <3>6, <3>7 DEF kMaxPduDataSize
  <2>5. CASE o.name = "writeMultipleRegisters"
    <3>1. o.start \in Word /\ o.arg \in Seq(Word) /\ Asked(o) = Len(o.arg)
      BY <2>5, TypedNames
    <3>2. limit = 123
      BY <1>2, <2>5, Limits
    <3>3. RegistersFit(o.arg)
      BY <1>1, <2>2, <3>1, <3>2 DEF RegistersFit
    <3>4. IsRegistersPdu(RegistersPdu(o.start, o.arg), o.start, o.arg)
      BY <3>1, <3>3, RegistersPduData
    <3>5. data = RegistersPdu(o.start, o.arg).data
      BY <2>1, <2>5 DEF Request
    <3>6. /\ data \in Seq(Byte) /\ Len(data) = 5 + 2 * n
          /\ readU16(data, 2) = n /\ data[5] = 2 * n
      BY <1>1, <3>1, <3>4, <3>5 DEF IsRegistersPdu
    <3>7. data[5] = Len(data) - 5 /\ Len(data) <= 252
      BY <1>3, <2>2, <3>2, <3>6
    <3>. QED  BY <1>1, <2>5, <3>6, <3>7 DEF kMaxPduDataSize
  <2>. QED  BY <2>3, <2>4, <2>5 DEF Multiple
<1>6. PICK data : data = build(o).value.data
  OBVIOUS
<1>7. data \in Seq(Byte) => \A k \in DOMAIN data : data[k] \in Byte
  OBVIOUS
<1>8. Asked(o) = uint16(Asked(o))
  BY TypedNames
<1>9. isOk(build(o)) => /\ FitsPdu(build(o).value) /\ CountsItself(o, data)
                        /\ data \in Seq(Byte) /\ readU16(data, 2) = Asked(o)
  BY <1>5, <1>6 DEF FitsPdu, CountsItself
<1>. QED  BY <1>4, <1>6, <1>7, <1>8, <1>9 DEF DescribesItself

(* A request with more than 300 bytes behind its header does not fit.      *)
LEMMA LongCounted ==
  ASSUME NEW fc, NEW start \in Word, NEW q \in Word, NEW c \in Byte, NEW rest \in Seq(Byte),
         Len(rest) > 300, NEW data, data = Counted(fc, start, q, c, rest)
  PROVE  data \in Seq(Byte) /\ readU16(data, 2) = q /\ ~(Len(data) <= 252)
<1>1. IsCounted(data, start, q, c, rest)
  BY CountedIsRead
<1>2. Len(rest) \in Nat
  OBVIOUS
<1>. QED  BY <1>1, <1>2 DEF IsCounted

(* What is accepted of a longer list never fits a PDU.                     *)
LongRequest(o) ==
  LET data == Request(o).data
  IN  data \in Seq(Byte) /\ readU16(data, 2) = uint16(Asked(o)) /\ ~FitsPdu(Request(o))

LEMMA LongRequests ==
  ASSUME NEW o, TooMany(o)
  PROVE  /\ o.name \in Multiple /\ o.name \in Writes
         /\ Asked(o) \in Nat /\ Asked(o) # uint16(Asked(o))
         /\ LongRequest(o)
<1>1. o.name \in Multiple /\ o.name \in Writes /\ Asked(o) = Len(o.arg)
  BY DEF TooMany, Multiple, Writes, Asked
<1>2. PICK n \in Nat : n = Len(o.arg)
  BY DEF TooMany
<1>3. n >= 65536 /\ uint16(n) \in Word /\ n # uint16(n) /\ o.start \in Word
  <2>1. n \notin Word /\ o.start \in Word
    BY <1>2 DEF TooMany
  <2>2. ~(n <= 65535)
    BY <2>1, WordRange
  <2>. QED  BY <2>1, <2>2, Narrowed
<1>4. PICK start \in Word, q \in Word : start = o.start /\ q = uint16(n)
  BY <1>3
<1>5. ASSUME o.name = "writeMultipleCoils" PROVE LongRequest(o)
  <2>1. PICK count \in Nat : count = (n + 7) \div 8
    OBVIOUS
  <2>2. PICK values, c : values = o.arg /\ c = uint8(count)
    OBVIOUS
  <2>3. count > 300 /\ c \in Byte
    BY <1>3, <2>1, <2>2 DEF uint8, Byte
  <2>4. PICK rest : rest = Packed(values, count)
    OBVIOUS
  <2>5. rest \in Seq(Byte) /\ Len(rest) = count
    <3>1. \A i \in 1 .. count : PackedByte(values, i - 1) \in Byte
      BY ByteOfIsByte DEF PackedByte
    <3>. QED  BY <2>4, <3>1 DEF Packed
  <2>6. Request(o) = CoilsPdu(start, values)
    BY <1>4, <1>5, <2>2 DEF Request
  <2>7. CoilsPdu(start, values).data = Counted(WriteMultipleCoils, start, q, c, rest)
    BY <1>2, <1>4, <2>1, <2>2, <2>4 DEF CoilsPdu, Pdu, Counted, Packed
  <2>8. PICK data : data = Counted(WriteMultipleCoils, start, q, c, rest)
    OBVIOUS
  <2>9. data \in Seq(Byte) /\ readU16(data, 2) = q /\ ~(Len(data) <= 252)
    BY <2>3, <2>5, <2>8, LongCounted
  <2>10. Request(o).data = data /\ uint16(Asked(o)) = q
    BY <1>1, <1>2, <1>4, <2>6, <2>7, <2>8
  <2>. QED  BY <2>9, <2>10 DEF LongRequest, FitsPdu, kMaxPduDataSize
<1>6. ASSUME o.name = "writeMultipleRegisters" PROVE LongRequest(o)
  <2>1. PICK values, c : values = o.arg /\ c = uint8(2 * n)
    OBVIOUS
  <2>2. values \in Seq(Word) /\ c \in Byte /\ 2 * n > 300
    BY <1>3, <1>6, <2>1 DEF TooMany, uint8, Byte
  <2>3. PICK rest : rest = WordBytes(values)
    OBVIOUS
  <2>4. rest \in Seq(Byte) /\ Len(rest) = 2 * n
    BY <1>2, <2>1, <2>2, <2>3, WordBytesOf
  <2>5. Request(o) = RegistersPdu(start, values)
    BY <1>4, <1>6, <2>1 DEF Request
  <2>6. RegistersPdu(start, values).data = Counted(WriteMultipleRegisters, start, q, c, rest)
    BY <1>2, <1>4, <2>1, <2>3 DEF RegistersPdu, Pdu, Counted
  <2>7. PICK data : data = Counted(WriteMultipleRegisters, start, q, c, rest)
    OBVIOUS
  <2>8. data \in Seq(Byte) /\ readU16(data, 2) = q /\ ~(Len(data) <= 252)
    BY <2>2, <2>4, <2>7, LongCounted
  <2>9. Request(o).data = data /\ uint16(Asked(o)) = q
    BY <1>1, <1>2, <1>4, <2>5, <2>6, <2>7
  <2>. QED  BY <2>8, <2>9 DEF LongRequest, FitsPdu, kMaxPduDataSize
<1>. QED  BY <1>1, <1>2, <1>3, <1>5, <1>6 DEF TooMany

(* A request that is built and fits a PDU is one for a list that fits.     *)
LEMMA FittingIsTyped ==
  ASSUME NEW o \in Operations, isOk(build(o)), FitsPdu(build(o).value)
  PROVE  Typed(o)
<1>1. SUFFICES ASSUME TooMany(o) PROVE FALSE
  BY OperationsAre
<1>2. build(o) = ok(Request(o)) \/ build(o) = Error("Usage", 0)
  BY <1>1, LongRequests, BuildMultiple
<1>3. build(o).value = Request(o)
  BY <1>2, Results
<1>. QED  BY <1>1, <1>3, LongRequests DEF LongRequest

(* Every request describes itself. *)
LEMMA EveryRequestDescribes ==
  ASSUME NEW o \in Operations, o.name \in Multiple
  PROVE  /\ DescribesItself(o)
         /\ ~isOk(build(o)) => build(o) = Error("Usage", 0)
<1>1. CASE Typed(o)
  <2>1. Asked(o) \in Nat /\ Asked(o) \in Word
    BY <1>1, TypedNames
  <2>. QED  BY <1>1, <2>1, RequestDescribes, BuildMultiple, Results
<1>2. CASE TooMany(o)
  <2>1. PICK quantity, limit : quantity = uint16(Asked(o)) /\ limit = Documented(o)
    OBVIOUS
  <2>2. Asked(o) \in Nat /\ o.name \in Writes /\ quantity # Asked(o)
    BY <1>2, <2>1, LongRequests
  <2>3. quantity \in Int /\ limit \in Int
    BY <2>1, <2>2, Narrowed, WordRange, Limits
  <2>4. /\ 1 <= quantity /\ quantity <= limit => build(o) = ok(Request(o))
        /\ ~(1 <= quantity /\ quantity <= limit) => build(o) = Error("Usage", 0)
    BY <2>1, <2>2, BuildMultiple
  <2>5. quantity \in 1 .. limit <=> 1 <= quantity /\ quantity <= limit
    BY <2>3
  <2>6. /\ quantity \in 1 .. limit <=> isOk(build(o))
        /\ ~isOk(build(o)) => build(o) = Error("Usage", 0)
        /\ isOk(build(o)) => build(o).value = Request(o)
    BY <2>4, <2>5, Results
  <2>7. PICK data : data = Request(o).data
    OBVIOUS
  <2>8. data \in Seq(Byte) /\ readU16(data, 2) = quantity /\ ~FitsPdu(Request(o))
    BY <1>2, <2>1, <2>7, LongRequests DEF LongRequest
  <2>9. \A k \in DOMAIN data : data[k] \in Byte
    BY <2>8
  <2>. QED  BY <2>1, <2>2, <2>6, <2>7, <2>8, <2>9 DEF DescribesItself
<1>. QED  BY <1>1, <1>2, OperationsAre

-----------------------------------------------------------------------------
(* What a response is worth *)

OnlyWhatWasSent(o, reply, result) ==
  LET data  == reply.data
      whole == Len(data) >= 1 /\ Len(data) >= 1 + data[1]
  IN  IF isExceptionResponse(reply)
      THEN result = (IF Len(data) >= 1 THEN Error("Device", data[1]) ELSE Error("Protocol", 0))
      ELSE /\ isOk(result) => whole /\ Encoded(o, result.value) = SubSeq(data, 2, 1 + data[1])
           /\ ~isOk(result) => result.category = "Protocol"
           /\ whole /\ (o.name \in RegisterReads => data[1] % 2 = 0) => isOk(result)

(* The caller of a read gets what was sent, whatever it was. *)
LEMMA FinishedRead ==
  ASSUME NEW o, o.name \in BitReads \cup RegisterReads, NEW req, NEW resp, resp.data \in Seq(Byte)
  PROVE  OnlyWhatWasSent(o, resp, finish(o, req, resp))
<1>1. PICK data \in Seq(Byte) : data = resp.data
  OBVIOUS
<1>2. PICK result : result = finish(o, req, resp)
  OBVIOUS
<1>3. CASE isExceptionResponse(resp)
  <2>1. result = (IF Len(data) < 1 THEN Error("Protocol", 0) ELSE Error("Device", data[1]))
    BY <1>1, <1>2, <1>3, Finished, ExceptionParsed
  <2>2. Len(data) >= 1 <=> ~(Len(data) < 1)
    OBVIOUS
  <2>. QED  BY <1>1, <1>2, <1>3, <2>1, <2>2 DEF OnlyWhatWasSent
<1>4. CASE ~isExceptionResponse(resp) /\ ~Whole(data)
  <2>1. result = Error("Protocol", 0)
    BY <1>1, <1>2, <1>4, Finished, ParsedBits, ParsedRegisters
  <2>2. ~isOk(result) /\ result.category = "Protocol"
    BY <2>1, Results
  <2>. QED  BY <1>1, <1>2, <1>4, <2>2 DEF OnlyWhatWasSent, Whole
<1>5. CASE ~isExceptionResponse(resp) /\ Whole(data) /\ o.name \in BitReads
  <2>1. result = ok(BitsIn(Payload(data)))
    BY <1>1, <1>2, <1>5, Finished, ParsedBits
  <2>2. isOk(result) /\ result.value = BitsIn(Payload(data))
    BY <2>1, Results
  <2>3. Payload(data) \in Seq(Byte)
    BY <1>5, PayloadIs
  <2>4. Encoded(o, result.value) = Payload(data)
    BY <1>5, <2>2, <2>3, BitsInBytes DEF Encoded
  <2>. QED  BY <1>1, <1>2, <1>5, <2>2, <2>4 DEF OnlyWhatWasSent, Whole, Payload
<1>6. CASE ~isExceptionResponse(resp) /\ Whole(data) /\ o.name \in RegisterReads
  <2>1. o.name \notin BitReads
    BY <1>6 DEF BitReads, RegisterReads
  <2>2. CASE data[1] % 2 = 0
    <3>1. result = ok(WordsIn(Payload(data)))
      BY <1>1, <1>2, <1>6, <2>2, Finished, ParsedRegisters
    <3>2. isOk(result) /\ result.value = WordsIn(Payload(data))
      BY <3>1, Results
    <3>3. Payload(data) \in Seq(Byte) /\ Len(Payload(data)) % 2 = 0
      BY <1>6, <2>2, PayloadIs
    <3>4. Encoded(o, result.value) = Payload(data)
      BY <2>1, <3>2, <3>3, WordsInBytes DEF Encoded
    <3>. QED  BY <1>1, <1>2, <1>6, <3>2, <3>4 DEF OnlyWhatWasSent, Whole, Payload
  <2>3. CASE data[1] % 2 # 0
    <3>1. result = Error("Protocol", 0)
      BY <1>1, <1>2, <1>6, <2>3, Finished, ParsedRegisters
    <3>2. ~isOk(result) /\ result.category = "Protocol"
      BY <3>1, Results
    <3>. QED  BY <1>1, <1>2, <1>6, <2>3, <3>2 DEF OnlyWhatWasSent, Whole
  <2>. QED  BY <2>2, <2>3
<1>. QED  BY <1>3, <1>4, <1>5, <1>6

-----------------------------------------------------------------------------
(* The operations against the server *)

(* A read leaves the tables alone, whatever it is answered. *)
LEMMA ReadServed ==
  ASSUME NEW m \in Memory, NEW o, Typed(o), o.name \in BitReads \cup RegisterReads, isOk(build(o))
  PROVE  /\ _process(m, Request(o)).memory = m
         /\ _process(m, Request(o)).reply.data \in Seq(Byte)
<1>1. o.start \in Word /\ o.arg \in Word /\ Asked(o) = o.arg
  BY TypedNames
<1>2. PICK n \in Word : n = o.arg
  BY <1>1
<1>3. PICK start \in Word : start = o.start
  BY <1>1
<1>4. 1 <= n /\ n <= Documented(o)
  <2>1. o.name \in Multiple
    BY DEF Multiple
  <2>. QED  BY <1>1, <1>2, <2>1, BuildValue DEF InDocumentedRange
<1>5. n \in Int
  BY WordRange
<1>6. CASE o.name = "readCoils"
  <2>1. ~(n > 2000)
    BY <1>4, <1>5, <1>6, Limits DEF Multiple, BitReads
  <2>2. PICK rest, c : rest = CoilBytes(m, start, n) /\ c = (n + 7) \div 8
    OBVIOUS
  <2>3. rest \in Seq(Byte) /\ c = Len(rest) /\ c \in Byte
    BY <1>4, <2>1, <2>2, CoilBytesAre
  <2>4. OneAnd(c, rest) \in Seq(Byte)
    BY <2>3, OneAndIs
  <2>5. \/ _process(m, Request(o)) = Refuse(m, ReadCoils, 2)
        \/ _process(m, Request(o)) = Answer(m, ReadCoils, OneAnd(c, rest))
    BY <1>2, <1>3, <1>4, <1>6, <2>1, <2>2, CoilsReply DEF Request
  <2>. QED  BY <2>4, <2>5, RefusalIs, Answered DEF ReadCoils
<1>7. CASE o.name = "readHoldingRegisters"
  <2>1. ~(n > 125)
    BY <1>4, <1>5, <1>7, Limits DEF Multiple, RegisterReads
  <2>2. PICK rest : rest = WordBytes(RegistersFrom(m, start, n))
    OBVIOUS
  <2>3. \/ _process(m, Request(o)) = Refuse(m, ReadHoldingRegisters, 2)
        \/ /\ start + n <= Size
           /\ _process(m, Request(o)) = Answer(m, ReadHoldingRegisters, OneAnd(2 * n, rest))
    <3>1. start \in Int /\ Size \in Int
      BY WordRange, SizeAssumption
    <3>. QED  BY <1>2, <1>3, <1>4, <1>5, <1>7, <2>1, <2>2, <3>1, RegistersReply DEF Request
  <2>4. ASSUME start + n <= Size
        PROVE  OneAnd(2 * n, rest) \in Seq(Byte)
    <3>1. RegistersFrom(m, start, n) \in Seq(Word) /\ Len(RegistersFrom(m, start, n)) = n
      BY <2>4, RegistersFromAre
    <3>2. rest \in Seq(Byte) /\ 2 * n = Len(rest)
      BY <2>2, <3>1, WordBytesOf
    <3>3. 2 * n \in Byte
      BY <1>4, <1>5, <2>1, ByteRange
    <3>. QED  BY <3>2, <3>3, OneAndIs
  <2>. QED  BY <2>3, <2>4, RefusalIs, Answered DEF ReadHoldingRegisters
<1>8. CASE o.name = "readDiscreteInputs"
  <2>1. Request(o).functionCode = ReadDiscreteInputs
    <3>1. Request(o) = TwoWords(ReadDiscreteInputs, start, n)
      BY <1>2, <1>3, <1>8 DEF Request
    <3>. QED  BY <3>1, TwoWordsIsRead DEF IsTwoWords
  <2>. QED  BY <2>1, Dispatch, RefusalIs DEF ReadDiscreteInputs
<1>9. CASE o.name = "readInputRegisters"
  <2>1. Request(o).functionCode = ReadInputRegisters
    <3>1. Request(o) = TwoWords(ReadInputRegisters, start, n)
      BY <1>2, <1>3, <1>9 DEF Request
    <3>. QED  BY <3>1, TwoWordsIsRead DEF IsTwoWords
  <2>. QED  BY <2>1, Dispatch, RefusalIs DEF ReadInputRegisters
<1>. QED  BY <1>6, <1>7, <1>8, <1>9 DEF BitReads, RegisterReads

(* A write is done, or refused and nothing happens. *)
LEMMA WriteServed ==
  ASSUME NEW m \in Memory, NEW o, Typed(o), o.name \in Writes, isOk(build(o))
  PROVE  Done(o, m, _process(m, Request(o)))
<1>1. o.start \in Word
  BY TypedNames
<1>2. o.name \in Multiple => 1 <= Asked(o) /\ Asked(o) <= Documented(o)
  BY BuildValue DEF InDocumentedRange
<1>3. CASE o.name = "writeSingleCoil"
  BY <1>1, <1>3, TypedNames, SingleCoilDone
<1>4. CASE o.name = "writeSingleRegister"
  BY <1>1, <1>4, TypedNames, SingleRegisterDone
<1>5. CASE o.name = "writeMultipleCoils"
  <2>1. o.name \in Multiple
    BY <1>5 DEF Multiple
  <2>2. o.arg \in Seq(BOOLEAN) /\ Asked(o) = Len(o.arg)
    BY <1>5, TypedNames
  <2>3. Documented(o) = 1968
    BY <1>5, <2>1, Limits
  <2>4. CoilsFit(o.arg)
    BY <1>2, <2>1, <2>2, <2>3 DEF CoilsFit
  <2>. QED  BY <1>1, <1>5, <2>2, <2>4, MultipleCoilsDone
<1>6. CASE o.name = "writeMultipleRegisters"
  <2>1. o.name \in Multiple
    BY <1>6 DEF Multiple
  <2>2. o.arg \in Seq(Word) /\ Asked(o) = Len(o.arg)
    BY <1>6, TypedNames
  <2>3. Documented(o) = 123
    BY <1>6, <2>1, Limits
  <2>4. RegistersFit(o.arg)
    BY <1>2, <2>1, <2>2, <2>3 DEF RegistersFit
  <2>. QED  BY <1>1, <1>6, <2>2, <2>4, MultipleRegistersDone
<1>. QED  BY <1>3, <1>4, <1>5, <1>6 DEF Writes

(* What the caller of a read is handed, from the tables it was read from.  *)
ReturnsTheTable(o, m, result) ==
  LET v == result.value
  IN  isOk(result) =>
        /\ o.name = "readCoils" =>
             /\ Len(v) = 8 * ((o.arg + 7) \div 8)
             /\ \A k \in 1 .. o.arg : v[k] = m.coils[o.start + k - 1]
        /\ o.name = "readHoldingRegisters" =>
             /\ Len(v) = o.arg
             /\ \A k \in 1 .. o.arg : v[k] = m.holding_regs[o.start + k - 1]

(* An operation that was refused is not successful. *)
LEMMA RefusedIsNotOk ==
  ASSUME NEW o, NEW req, NEW resp, isExceptionResponse(resp)
  PROVE  ~isOk(finish(o, req, resp))
<1>1. finish(o, req, resp) = parseException(resp)
  BY Finished
<1>. QED  BY <1>1, ExceptionParsed, Results

(* The coils of the table come back. *)
LEMMA CoilsReturned ==
  ASSUME NEW m \in Memory, NEW o, Typed(o), o.name = "readCoils", isOk(build(o))
  PROVE  ReturnsTheTable(o, m, finish(o, Request(o), _process(m, Request(o)).reply))
<1>1. o.start \in Word /\ o.arg \in Word /\ Asked(o) = o.arg
  BY TypedNames DEF BitReads
<1>2. PICK n \in Word : n = o.arg
  BY <1>1
<1>3. PICK start \in Word : start = o.start
  BY <1>1
<1>4. 1 <= n /\ ~(n > 2000) /\ n \in Int /\ start \in Int /\ Size \in Int
  <2>1. o.name \in Multiple /\ o.name \in BitReads
    BY DEF Multiple, BitReads
  <2>2. 1 <= n /\ n <= Documented(o)
    BY <1>1, <1>2, <2>1, BuildValue DEF InDocumentedRange
  <2>3. Documented(o) = 2000
    BY <2>1, Limits
  <2>. QED  BY <2>2, <2>3, WordRange, SizeAssumption
<1>5. PICK req : req = Request(o)
  OBVIOUS
<1>6. req = TwoWords(ReadCoils, start, n)
  BY <1>2, <1>3, <1>5 DEF Request
<1>7. PICK reply : reply = _process(m, req).reply
  OBVIOUS
<1>8. PICK result : result = finish(o, req, reply)
  OBVIOUS
<1>9. CASE start + n > Size
  <2>1. _process(m, req) = Refuse(m, ReadCoils, 2)
    BY <1>4, <1>6, <1>9, CoilsReply
  <2>2. isExceptionResponse(reply)
    BY <1>7, <2>1, RefusalIs DEF ReadCoils
  <2>. QED  BY <1>5, <1>7, <1>8, <2>2, RefusedIsNotOk DEF ReturnsTheTable
<1>10. CASE ~(start + n > Size)
  <2>1. PICK rest, c : rest = CoilBytes(m, start, n) /\ c = (n + 7) \div 8
    OBVIOUS
  <2>2. rest \in Seq(Byte) /\ c = Len(rest) /\ c \in Byte
    BY <1>4, <2>1, CoilBytesAre
  <2>3. PICK data : data = OneAnd(c, rest)
    OBVIOUS
  <2>4. data \in Seq(Byte) /\ Whole(data) /\ Payload(data) = rest
    BY <2>2, <2>3, OneAndIs
  <2>5. _process(m, req) = Answer(m, ReadCoils, data)
    BY <1>4, <1>6, <1>10, <2>1, <2>3, CoilsReply
  <2>6. reply.data = data /\ ~isExceptionResponse(reply)
    BY <1>7, <2>5, Answered DEF isExceptionResponse, ReadCoils
  <2>7. result = ok(BitsIn(rest))
    <3>1. o.name \in BitReads
      BY DEF BitReads
    <3>. QED  BY <1>8, <2>4, <2>6, <3>1, Finished, ParsedBits
  <2>8. PICK v : v = result.value
    OBVIOUS
  <2>9. v = BitsIn(rest)
    BY <2>7, <2>8, Results
  <2>10. Len(v) = 8 * c /\ \A k \in 1 .. 8 * c : v[k] = BitOf(rest[1 + (k - 1) \div 8], (k - 1) % 8)
    <3>1. c \in Nat
      BY <2>2
    <3>. QED  BY <2>2, <2>9, <3>1 DEF BitsIn
  <2>11. ASSUME NEW k \in 1 .. n
         PROVE  v[k] = m.coils[start + k - 1]
    <3>1. k \in 1 .. 8 * c
      BY <1>4, <2>1
    <3>2. BitOf(rest[1 + (k - 1) \div 8], (k - 1) % 8) = m.coils[start + k - 1]
      <4>1. start + n <= Size
        BY <1>4, <1>10
      <4>. QED  BY <2>1, <4>1, CoilBytesHold
    <3>. QED  BY <2>10, <3>1, <3>2
  <2>12. o.name # "readHoldingRegisters"
    OBVIOUS
  <2>13. ReturnsTheTable(o, m, result)
    BY <1>2, <1>3, <2>1, <2>8, <2>10, <2>11, <2>12 DEF ReturnsTheTable
  <2>. QED  BY <1>5, <1>7, <1>8, <2>13
<1>. QED  BY <1>9, <1>10

(* The registers of the table come back. *)
LEMMA RegistersReturned ==
  ASSUME NEW m \in Memory, NEW o, Typed(o), o.name = "readHoldingRegisters", isOk(build(o))
  PROVE  ReturnsTheTable(o, m, finish(o, Request(o), _process(m, Request(o)).reply))
<1>1. o.start \in Word /\ o.arg \in Word /\ Asked(o) = o.arg
  BY TypedNames DEF RegisterReads
<1>2. PICK n \in Word : n = o.arg
  BY <1>1
<1>3. PICK start \in Word : start = o.start
  BY <1>1
<1>4. 1 <= n /\ ~(n > 125) /\ n \in Int /\ start \in Int /\ Size \in Int
  <2>1. o.name \in Multiple /\ o.name \in RegisterReads
    BY DEF Multiple, RegisterReads
  <2>2. 1 <= n /\ n <= Documented(o)
    BY <1>1, <1>2, <2>1, BuildValue DEF InDocumentedRange
  <2>3. Documented(o) = 125
    BY <2>1, Limits
  <2>. QED  BY <2>2, <2>3, WordRange, SizeAssumption
<1>5. PICK req : req = Request(o)
  OBVIOUS
<1>6. req = TwoWords(ReadHoldingRegisters, start, n)
  BY <1>2, <1>3, <1>5 DEF Request
<1>7. PICK reply : reply = _process(m, req).reply
  OBVIOUS
<1>8. PICK result : result = finish(o, req, reply)
  OBVIOUS
<1>9. CASE start + n > Size
  <2>1. _process(m, req) = Refuse(m, ReadHoldingRegisters, 2)
    BY <1>4, <1>6, <1>9, RegistersReply
  <2>2. isExceptionResponse(reply)
    BY <1>7, <2>1, RefusalIs DEF ReadHoldingRegisters
  <2>. QED  BY <1>5, <1>7, <1>8, <2>2, RefusedIsNotOk DEF ReturnsTheTable
<1>10. CASE ~(start + n > Size)
  <2>1. start + n <= Size
    BY <1>4, <1>10
  <2>2. PICK words : words = RegistersFrom(m, start, n)
    OBVIOUS
  <2>3. words \in Seq(Word) /\ Len(words) = n
    BY <2>1, <2>2, RegistersFromAre
  <2>4. PICK rest : rest = WordBytes(words)
    OBVIOUS
  <2>5. rest \in Seq(Byte) /\ 2 * n = Len(rest)
    BY <2>3, <2>4, WordBytesOf
  <2>6. 2 * n \in Byte
    BY <1>4, ByteRange
  <2>7. PICK data, c : c = 2 * n /\ data = OneAnd(c, rest)
    OBVIOUS
  <2>8. data \in Seq(Byte) /\ Whole(data) /\ Payload(data) = rest /\ data[1] = c
    BY <2>5, <2>6, <2>7, OneAndIs
  <2>9. _process(m, req) = Answer(m, ReadHoldingRegisters, data)
    BY <1>4, <1>6, <1>10, <2>2, <2>4, <2>7, RegistersReply
  <2>10. reply.data = data /\ ~isExceptionResponse(reply)
    BY <1>7, <2>9, Answered DEF isExceptionResponse, ReadHoldingRegisters
  <2>11. result = ok(WordsIn(rest))
    <3>1. o.name \in RegisterReads
      BY DEF RegisterReads
    <3>2. data[1] % 2 = 0
      BY <1>4, <2>7, <2>8
    <3>. QED  BY <1>8, <2>8, <2>10, <3>1, <3>2, Finished, ParsedRegisters
  <2>12. PICK v : v = result.value
    OBVIOUS
  <2>13. v = words
    BY <2>3, <2>4, <2>11, <2>12, Results, WordsInWordBytes
  <2>14. Len(v) = n /\ \A k \in 1 .. n : v[k] = m.holding_regs[start + k - 1]
    BY <2>2, <2>3, <2>13 DEF RegistersFrom
  <2>15. o.name # "readCoils"
    OBVIOUS
  <2>16. ReturnsTheTable(o, m, result)
    BY <1>2, <1>3, <2>12, <2>14, <2>15 DEF ReturnsTheTable
  <2>. QED  BY <1>5, <1>7, <1>8, <2>16
<1>. QED  BY <1>9, <1>10

-----------------------------------------------------------------------------
(* The exchanges *)

(* Where the last Result came from, and what the tables were then. *)
FromBuilder(o) == last = Handed("builder", o, NoReply, build(o))

FromServer(o) ==
  /\ isOk(build(o)) /\ Typed(o)
  /\ \E m \in Memory :
       LET a == _process(m, Request(o))
       IN  memory = a.memory /\ last = Handed("server", o, a.reply, finish(o, Request(o), a.reply))

FromDevice(o) ==
  /\ o.name \in BitReads \cup RegisterReads /\ isOk(build(o))
  /\ \E resp \in Replies : last = Handed("device", o, resp, finish(o, Request(o), resp))

(* The inductive invariant: the Result at hand is the one of some          *)
(* operation, and the tables are tables.  The properties of PduExchange    *)
(* look at last alone, which does not say how it came about.               *)
ExchangeInv ==
  /\ memory \in Memory \cup {NoMemory}
  /\ \/ last = NoResult
     \/ \E o \in Operations : FromBuilder(o) \/ FromServer(o) \/ FromDevice(o)

(* The parts of what is handed to the caller. *)
LEMMA HandedIs ==
  ASSUME NEW from, NEW o, NEW reply, NEW result
  PROVE  LET h == Handed(from, o, reply, result)
         IN  h.from = from /\ h.op = o /\ h.reply = reply /\ h.result = result
  BY DEF Handed

(* Nothing is handed over at the start. *)
LEMMA NothingHanded == NoResult.from = "none" /\ NoResult.op.name = "none"
  BY DEF NoResult, Handed

(* An operation against the server leaves tables. *)
LEMMA TablesStay ==
  ASSUME NEW m \in Memory, NEW o, Typed(o), isOk(build(o))
  PROVE  _process(m, Request(o)).memory \in Memory
<1>1. CASE o.name \in BitReads \cup RegisterReads
  BY <1>1, ReadServed
<1>2. CASE o.name \in Writes
  BY <1>2, WriteServed DEF Done
<1>. QED  BY <1>1, <1>2, TypedNames

(* Every step keeps the invariant. *)
LEMMA ExchangeInvHolds == ExchangeSpec => []ExchangeInv
<1>1. ExchangeInit => ExchangeInv
  <2>1. NewMemory \in Memory
    <3>1. 0 \in Word /\ 1 \in Word /\ 100 \in Word /\ 555 \in Word
      BY WordRange
    <3>2. [i \in 0 .. Size - 1 |-> i < 10] \in [0 .. Size - 1 -> BOOLEAN]
      OBVIOUS
    <3>3. [i \in 0 .. Size - 1 |-> CASE i = 0 -> 555 [] i = 1 -> 1 [] i = 2 -> 100 [] OTHER -> 0]
            \in [0 .. Size - 1 -> Word]
      BY <3>1
    <3>. QED  BY <3>2, <3>3 DEF NewMemory, Memory
  <2>. QED  BY <2>1 DEF ExchangeInit, ExchangeInv
<1>2. ExchangeInv /\ [ExchangeNext]_exchangeVars => ExchangeInv'
  <2>. SUFFICES ASSUME ExchangeInv, [ExchangeNext]_exchangeVars
                PROVE  ExchangeInv'
    OBVIOUS
  <2>1. CASE Used
    BY <2>1 DEF Used, ExchangeInv
  <2>2. ASSUME NEW o \in Operations, Refused(o)
        PROVE  ExchangeInv'
    <3>1. FromBuilder(o)'
      BY <2>2 DEF Refused, FromBuilder
    <3>2. memory' \in Memory \cup {NoMemory}
      BY <2>2 DEF Refused, ExchangeInv
    <3>. QED  BY <3>1, <3>2 DEF ExchangeInv
  <2>6. ASSUME NEW o \in Operations, BuiltTooLong(o)
        PROVE  ExchangeInv'
    <3>1. FromBuilder(o)'
      BY <2>6 DEF BuiltTooLong, FromBuilder
    <3>2. memory' \in Memory \cup {NoMemory}
      BY <2>6 DEF BuiltTooLong, ExchangeInv
    <3>. QED  BY <3>1, <3>2 DEF ExchangeInv
  <2>3. ASSUME NEW o \in Operations, Exchanged(o)
        PROVE  ExchangeInv'
    <3>1. memory \in Memory /\ isOk(build(o)) /\ Typed(o)
      BY <2>3, FittingIsTyped DEF Exchanged, ExchangeInv
    <3>2. build(o).value = Request(o)
      BY <3>1, BuildValue
    <3>3. /\ memory' = _process(memory, Request(o)).memory
          /\ last' = Handed("server", o, _process(memory, Request(o)).reply,
                            finish(o, Request(o), _process(memory, Request(o)).reply))
      BY <2>3, <3>2 DEF Exchanged
    <3>4. FromServer(o)'
      BY <3>1, <3>3 DEF FromServer
    <3>5. memory' \in Memory
      BY <3>1, <3>3, TablesStay
    <3>. QED  BY <3>4, <3>5 DEF ExchangeInv
  <2>4. ASSUME NEW o \in Operations, NEW resp \in Replies, Strange(o, resp)
        PROVE  ExchangeInv'
    <3>1. isOk(build(o)) /\ build(o).value = Request(o) /\ o.name \in BitReads \cup RegisterReads
      BY <2>4, OperationsAre, BuildValue DEF Strange
    <3>2. last' = Handed("device", o, resp, finish(o, Request(o), resp))
      BY <2>4, <3>1 DEF Strange
    <3>3. FromDevice(o)'
      BY <3>1, <3>2 DEF FromDevice
    <3>4. memory' \in Memory \cup {NoMemory}
      BY <2>4 DEF Strange, ExchangeInv
    <3>. QED  BY <3>3, <3>4 DEF ExchangeInv
  <2>5. CASE UNCHANGED exchangeVars
    BY <2>5 DEF exchangeVars, ExchangeInv, FromBuilder, FromServer, FromDevice
  <2>. QED  BY <2>1, <2>2, <2>3, <2>4, <2>5, <2>6 DEF ExchangeNext
<1>. QED  BY <1>1, <1>2, PTL DEF ExchangeSpec

(* What each of the three origins means for the Result. *)
ResultOf(o) ==
  /\ last.op = o
  /\ \/ /\ last.from = "builder" /\ last.result = build(o)
     \/ /\ last.from = "server" /\ isOk(build(o)) /\ Typed(o) /\ FromServer(o)
        /\ last.result = finish(o, Request(o), last.reply)
     \/ /\ last.from = "device" /\ isOk(build(o)) /\ Typed(o)
        /\ o.name \in BitReads \cup RegisterReads /\ last.reply \in Replies
        /\ last.result = finish(o, Request(o), last.reply)

(* Under the invariant the Result is that of an operation. *)
LEMMA Origins ==
  ASSUME ExchangeInv
  PROVE  last = NoResult \/ \E o \in Operations : ResultOf(o)
<1>1. SUFFICES ASSUME NEW o \in Operations, FromBuilder(o) \/ FromServer(o) \/ FromDevice(o)
               PROVE  ResultOf(o)
  BY DEF ExchangeInv
<1>3. CASE FromBuilder(o)
  <2>1. last.op = o /\ last.from = "builder" /\ last.result = build(o)
    BY <1>3, HandedIs DEF FromBuilder
  <2>. QED  BY <2>1 DEF ResultOf
<1>4. CASE FromServer(o)
  <2>1. PICK m \in Memory : last = Handed("server", o, _process(m, Request(o)).reply,
                                          finish(o, Request(o), _process(m, Request(o)).reply))
    BY <1>4 DEF FromServer
  <2>2. last.op = o /\ last.from = "server" /\ last.result = finish(o, Request(o), last.reply)
    BY <2>1, HandedIs
  <2>3. isOk(build(o)) /\ Typed(o)
    BY <1>4 DEF FromServer
  <2>. QED  BY <1>4, <2>2, <2>3 DEF ResultOf
<1>5. CASE FromDevice(o)
  <2>1. PICK resp \in Replies : last = Handed("device", o, resp, finish(o, Request(o), resp))
    BY <1>5 DEF FromDevice
  <2>2. /\ last.op = o /\ last.from = "device" /\ last.reply \in Replies
        /\ last.result = finish(o, Request(o), last.reply)
    BY <2>1, HandedIs
  <2>3. isOk(build(o)) /\ o.name \in BitReads \cup RegisterReads /\ Typed(o)
    BY <1>5, OperationsAre DEF FromDevice
  <2>. QED  BY <2>2, <2>3 DEF ResultOf
<1>. QED  BY <1>1, <1>3, <1>4, <1>5

(* A builder accepts exactly the operations whose quantity, narrowed, is   *)
(* documented.  What it builds from a list shorter than 2^16 fits a PDU    *)
(* and describes itself; what it builds from a longer one never fits.      *)
(* (pdu.cpp:28-149.)                                                       *)
THEOREM ExchangeRequests == ExchangeSpec => []RequestsDescribeThemselves
<1>1. ExchangeInv => RequestsDescribeThemselves
  <2>. SUFFICES ASSUME ExchangeInv, last.op.name \in Multiple
                PROVE  RequestsDescribeThemselves
    BY DEF RequestsDescribeThemselves
  <2>1. last # NoResult
    BY NothingHanded DEF Multiple, BitReads, RegisterReads
  <2>2. PICK o \in Operations :
              /\ last.op = o
              /\ \/ last.result = build(o)
                 \/ isOk(build(o)) /\ Typed(o) /\ last.result = finish(o, Request(o), last.reply)
    BY <2>1, Origins DEF ResultOf
  <2>3. DescribesItself(o) /\ (~isOk(build(o)) => build(o) = Error("Usage", 0))
    BY <2>2, EveryRequestDescribes
  <2>4. last.result.category = "Usage" <=> ~isOk(build(o))
    <3>1. CASE last.result = build(o)
      <4>1. isOk(build(o)) => build(o).category # "Usage"
        BY DEF isOk
      <4>. QED  BY <2>3, <3>1, <4>1, Results
    <3>2. CASE isOk(build(o)) /\ Typed(o) /\ last.result = finish(o, Request(o), last.reply)
      <4>1. o.name \in BitReads \cup RegisterReads \cup Writes
        BY <3>2, TypedNames
      <4>. QED  BY <3>2, <4>1, NotUsage
    <3>. QED  BY <2>2, <3>1, <3>2
  <2>. QED  BY <2>2, <2>3, <2>4 DEF RequestsDescribeThemselves, DescribesItself, CountsItself
<1>. QED  BY <1>1, ExchangeInvHolds, PTL

(* A successful read hands the caller the device's entries, in order, for  *)
(* tables of every size up to 256 and whatever they hold.                  *)
(* (parseReadBitsResponse and parseReadRegistersResponse of pdu.cpp.)      *)
THEOREM ExchangeReads == ExchangeSpec => []ReadsReturnTheTable
<1>1. ExchangeInv => ReadsReturnTheTable
  <2>. SUFFICES ASSUME ExchangeInv, last.from = "server"
                PROVE  ReadsReturnTheTable
    BY DEF ReadsReturnTheTable
  <2>1. PICK o \in Operations : Typed(o) /\ last.op = o /\ isOk(build(o)) /\ FromServer(o)
    BY Origins, NothingHanded DEF ResultOf
  <2>2. PICK m \in Memory :
          /\ memory = _process(m, Request(o)).memory
          /\ last = Handed("server", o, _process(m, Request(o)).reply,
                           finish(o, Request(o), _process(m, Request(o)).reply))
    BY <2>1 DEF FromServer
  <2>3. last.result = finish(o, Request(o), _process(m, Request(o)).reply)
    BY <2>2, HandedIs
  <2>4. CASE o.name \in {"readCoils", "readHoldingRegisters"}
    <3>1. memory = m
      BY <2>1, <2>2, <2>4, ReadServed DEF BitReads, RegisterReads
    <3>2. ReturnsTheTable(o, m, last.result)
      BY <2>1, <2>3, <2>4, CoilsReturned, RegistersReturned
    <3>. QED  BY <2>1, <3>1, <3>2 DEF ReadsReturnTheTable, ReturnsTheTable
  <2>5. CASE o.name \notin {"readCoils", "readHoldingRegisters"}
    BY <2>1, <2>5 DEF ReadsReturnTheTable
  <2>. QED  BY <2>4, <2>5
<1>. QED  BY <1>1, ExchangeInvHolds, PTL

(* Whatever a device replies to a read, the caller is handed the bytes the *)
(* reply counts and nothing else, or an error that says why not; a whole   *)
(* reply to its own function is not refused.                               *)
(* (pdu.cpp:155-196, 222-232; client.cpp:95-97.)                           *)
THEOREM ExchangeReplies == ExchangeSpec => []OnlyWhatTheDeviceSent
<1>1. ExchangeInv => OnlyWhatTheDeviceSent
  <2>. SUFFICES ASSUME ExchangeInv, last.from \in {"server", "device"},
                       last.op.name \in BitReads \cup RegisterReads
                PROVE  OnlyWhatTheDeviceSent
    BY DEF OnlyWhatTheDeviceSent
  <2>1. PICK o \in Operations :
          /\ Typed(o) /\ last.op = o /\ isOk(build(o))
          /\ last.result = finish(o, Request(o), last.reply)
          /\ FromServer(o) \/ last.reply \in Replies
    BY Origins, NothingHanded DEF ResultOf
  <2>2. last.reply.data \in Seq(Byte)
    <3>1. CASE last.reply \in Replies
      BY <3>1, ReplyAssumption
    <3>2. CASE FromServer(o)
      <4>1. PICK m \in Memory : last = Handed("server", o, _process(m, Request(o)).reply,
                                              finish(o, Request(o), _process(m, Request(o)).reply))
        BY <3>2 DEF FromServer
      <4>2. last.reply = _process(m, Request(o)).reply
        BY <4>1, HandedIs
      <4>. QED  BY <2>1, <4>2, ReadServed
    <3>. QED  BY <2>1, <3>1, <3>2
  <2>3. OnlyWhatWasSent(o, last.reply, last.result)
    BY <2>1, <2>2, FinishedRead
  <2>. QED  BY <2>1, <2>3 DEF OnlyWhatTheDeviceSent, OnlyWhatWasSent
<1>. QED  BY <1>1, ExchangeInvHolds, PTL

(* A successful write leaves exactly what the caller passed, entry by      *)
(* entry, and an operation that failed, or read, changes nothing.          *)
(* (buildWrite* of pdu.cpp against the server.)                            *)
THEOREM ExchangeWrites == ExchangeSpec => WritesLand
<1>1. ExchangeInv /\ [ExchangeNext]_exchangeVars =>
        [memory' = IF last'.from = "server" /\ isOk(last'.result)
                   THEN Expected(last'.op, memory) ELSE memory]_exchangeVars
  <2>. SUFFICES ASSUME ExchangeInv, ExchangeNext
                PROVE  memory' = IF last'.from = "server" /\ isOk(last'.result)
                                 THEN Expected(last'.op, memory) ELSE memory
    OBVIOUS
  <2>1. CASE Used
    <3>1. last'.from = "none" /\ memory' = memory
      BY <2>1, NothingHanded DEF Used
    <3>. QED  BY <3>1
  <2>2. ASSUME NEW o \in Operations, Refused(o) \/ BuiltTooLong(o)
        PROVE  memory' = IF last'.from = "server" /\ isOk(last'.result)
                         THEN Expected(last'.op, memory) ELSE memory
    <3>1. last'.from = "builder" /\ memory' = memory
      BY <2>2, HandedIs DEF Refused, BuiltTooLong
    <3>. QED  BY <3>1
  <2>3. ASSUME NEW o \in Operations, NEW resp \in Replies, Strange(o, resp)
        PROVE  memory' = IF last'.from = "server" /\ isOk(last'.result)
                         THEN Expected(last'.op, memory) ELSE memory
    <3>1. last'.from = "device" /\ memory' = memory
      BY <2>3, HandedIs DEF Strange
    <3>. QED  BY <3>1
  <2>4. ASSUME NEW o \in Operations, Exchanged(o)
        PROVE  memory' = IF last'.from = "server" /\ isOk(last'.result)
                         THEN Expected(last'.op, memory) ELSE memory
    <3>1. memory \in Memory /\ isOk(build(o)) /\ Typed(o)
      BY <2>4, FittingIsTyped DEF Exchanged, ExchangeInv
    <3>2. build(o).value = Request(o)
      BY <3>1, BuildValue
    <3>3. PICK a : a = _process(memory, Request(o))
      OBVIOUS
    <3>4. memory' = a.memory /\ last' = Handed("server", o, a.reply, finish(o, Request(o), a.reply))
      BY <2>4, <3>2, <3>3 DEF Exchanged
    <3>5. /\ last'.from = "server" /\ last'.op = o
          /\ last'.result = finish(o, Request(o), a.reply)
      BY <3>4, HandedIs
    <3>6. CASE o.name \in BitReads \cup RegisterReads
      <4>1. a.memory = memory
        BY <3>1, <3>3, <3>6, ReadServed
      <4>2. Expected(o, memory) = memory
        BY <3>6 DEF Expected, BitReads, RegisterReads
      <4>. QED  BY <3>4, <3>5, <4>1, <4>2
    <3>7. CASE o.name \in Writes
      <4>1. Done(o, memory, a)
        BY <3>1, <3>3, <3>7, WriteServed
      <4>2. CASE isExceptionResponse(a.reply)
        <5>1. ~isOk(last'.result) /\ memory' = memory
          BY <3>4, <3>5, <4>1, <4>2, RefusedIsNotOk DEF Done
        <5>. QED  BY <5>1
      <4>3. CASE ~isExceptionResponse(a.reply)
        <5>1. isOk(last'.result) /\ memory' = Expected(o, memory)
          BY <3>4, <3>5, <3>7, <4>1, <4>3, Finished, Results DEF Done
        <5>. QED  BY <3>5, <5>1
      <4>. QED  BY <4>2, <4>3
    <3>. QED  BY <3>1, <3>6, <3>7, TypedNames
  <2>. QED  BY <2>1, <2>2, <2>3, <2>4 DEF ExchangeNext
<1>. QED  BY <1>1, ExchangeInvHolds, PTL DEF ExchangeSpec, WritesLand

-----------------------------------------------------------------------------
(* Conversions *)

(* A register, in either order, and back. *)
LEMMA OrderedTwice ==
  ASSUME NEW a, NEW b, NEW order
  PROVE  /\ InOrder(InOrder(<<a, b>>, order), order) = <<a, b>>
         /\ \/ InOrder(<<a, b>>, order) = <<a, b>>
            \/ InOrder(<<a, b>>, order) = <<b, a>>
  BY DEF InOrder

(* A function on 1 .. n is a sequence. *)
LEMMA IsSequence ==
  ASSUME NEW S, NEW n \in Nat, NEW s \in [1 .. n -> S]
  PROVE  s \in Seq(S) /\ Len(s) = n
  OBVIOUS

(* Two neighbours in a sequence. *)
LEMMA Pair ==
  ASSUME NEW S, NEW s \in Seq(S), NEW i \in Nat, 1 <= i, i + 1 <= Len(s)
  PROVE  SubSeq(s, i, i + 1) = <<s[i], s[i + 1]>> /\ s[i] \in S /\ s[i + 1] \in S
<1>1. PICK t : t = SubSeq(s, i, i + 1)
  OBVIOUS
<1>2. PICK u : u = <<s[i], s[i + 1]>>
  OBVIOUS
<1>3. s[i] \in S /\ s[i + 1] \in S
  <2>1. i \in 1 .. Len(s) /\ i + 1 \in 1 .. Len(s)
    OBVIOUS
  <2>. QED  BY <2>1
<1>4. t \in Seq(S) /\ Len(t) = 2 /\ t[1] = s[i] /\ t[2] = s[i + 1]
  <2>1. t = [k \in 1 .. 2 |-> s[i + k - 1]]
    BY <1>1
  <2>. QED  BY <1>3, <2>1
<1>5. u \in Seq(S) /\ Len(u) = 2 /\ u[1] = s[i] /\ u[2] = s[i + 1]
  BY <1>2, <1>3
<1>6. \A k \in 1 .. Len(t) : t[k] = u[k]
  BY <1>4, <1>5
<1>7. t = u
  BY <1>4, <1>5, <1>6, SeqEqual
<1>. QED  BY <1>1, <1>2, <1>3, <1>7

(* 32-bit numbers *)
LEMMA Int32Regs ==
  ASSUME NEW val \in [1 .. 4 -> Bytes], NEW word, NEW byte
  PROVE  LET high == InOrder(<<val[1], val[2]>>, byte)
             low  == InOrder(<<val[3], val[4]>>, byte)
         IN  /\ SubSeq(val, 1, 2) = <<val[1], val[2]>> /\ SubSeq(val, 3, 4) = <<val[3], val[4]>>
             /\ u32ToRegsInternal(val, word, byte) =
                  IF word = "HighWordFirst" THEN <<high, low>> ELSE <<low, high>>
<1>1. val \in Seq(Bytes) /\ Len(val) = 4
  BY IsSequence
<1>2. SubSeq(val, 1, 1 + 1) = <<val[1], val[1 + 1]>>
  BY <1>1, Pair
<1>3. SubSeq(val, 3, 3 + 1) = <<val[3], val[3 + 1]>>
  BY <1>1, Pair
<1>4. 1 + 1 = 2 /\ 3 + 1 = 4
  OBVIOUS
<1>5. SubSeq(val, 1, 2) = <<val[1], val[2]>> /\ SubSeq(val, 3, 4) = <<val[3], val[4]>>
  BY <1>2, <1>3, <1>4, Zenon
<1>. QED  BY <1>5, Zenon DEF u32ToRegsInternal

(* A 32-bit number comes back, whatever the orders. *)
LEMMA Int32ComesBack ==
  ASSUME NEW val \in [1 .. 4 -> Bytes], NEW word, NEW byte, NEW rs,
         rs = u32ToRegsInternal(val, word, byte)
  PROVE  regsToU32Internal(rs[1], rs[2], word, byte) = val
<1>1. PICK a, b, c, d : a = val[1] /\ b = val[2] /\ c = val[3] /\ d = val[4]
  OBVIOUS
<1>2. a \in Bytes /\ b \in Bytes /\ c \in Bytes /\ d \in Bytes
  BY <1>1
<1>3. PICK high, low : high = InOrder(<<a, b>>, byte) /\ low = InOrder(<<c, d>>, byte)
  OBVIOUS
<1>4. InOrder(high, byte) = <<a, b>> /\ InOrder(low, byte) = <<c, d>>
  BY <1>3, OrderedTwice
<1>5. rs = IF word = "HighWordFirst" THEN <<high, low>> ELSE <<low, high>>
  BY <1>1, <1>3, Int32Regs
<1>6. regsToU32Internal(rs[1], rs[2], word, byte) = <<a, b>> \o <<c, d>>
  <2>1. CASE word = "HighWordFirst"
    <3>1. rs[1] = high /\ rs[2] = low
      BY <1>5, <2>1
    <3>. QED  BY <1>4, <2>1, <3>1 DEF regsToU32Internal
  <2>2. CASE word # "HighWordFirst"
    <3>1. rs[1] = low /\ rs[2] = high
      BY <1>5, <2>2
    <3>. QED  BY <1>4, <2>2, <3>1 DEF regsToU32Internal
  <2>. QED  BY <2>1, <2>2
<1>7. <<a, b>> \o <<c, d>> = <<a, b, c, d>>
  BY <1>2, TwoAndTwo
<1>8. <<a, b, c, d>> = val
  BY <1>1
<1>. QED  BY <1>6, <1>7, <1>8

(* 64-bit numbers: each of the three rearrangements undoes itself. *)
LEMMA HostTwice ==
  ASSUME NEW val \in [1 .. 8 -> Bytes], NEW h
  PROVE  /\ HostMemory(val, h) \in [1 .. 8 -> Bytes]
         /\ HostMemory(HostMemory(val, h), h) = val
<1>1. \A s \in [1 .. 8 -> Bytes] : Reverse(s) = [i \in 1 .. 8 |-> s[9 - i]]
  <2>. TAKE s \in [1 .. 8 -> Bytes]
  <2>1. Len(s) = 8
    OBVIOUS
  <2>2. \A i \in 1 .. 8 : (8 - i) + 1 = 9 - i
    OBVIOUS
  <2>. QED  BY <2>1, <2>2 DEF Reverse
<1>2. PICK u : u = [i \in 1 .. 8 |-> val[9 - i]]
  OBVIOUS
<1>3. u \in [1 .. 8 -> Bytes]
  BY <1>2
<1>4. [i \in 1 .. 8 |-> u[9 - i]] = val
  <2>1. \A i \in 1 .. 8 : u[9 - i] = val[i]
    BY <1>2
  <2>. QED  BY <2>1
<1>. QED  BY <1>1, <1>2, <1>3, <1>4 DEF HostMemory

(* The halves of eight bytes in the other order. *)
LEMMA HalvesAre ==
  ASSUME NEW s \in [1 .. 8 -> Bytes]
  PROVE  SubSeq(s, 5, 8) \o SubSeq(s, 1, 4) =
           <<s[5], s[6], s[7], s[8], s[1], s[2], s[3], s[4]>>
<1>1. s \in Seq(Bytes) /\ Len(s) = 8
  BY IsSequence
<1>2. PICK high, low : high = SubSeq(s, 5, 8) /\ low = SubSeq(s, 1, 4)
  OBVIOUS
<1>3. high \in Seq(Bytes) /\ Len(high) = 4 /\ \A k \in 1 .. 4 : high[k] = s[4 + k]
  <2>1. high = [k \in 1 .. 4 |-> s[4 + k]]
    BY <1>2
  <2>2. \A k \in 1 .. 4 : s[4 + k] \in Bytes
    OBVIOUS
  <2>. QED  BY <2>1, <2>2
<1>4. low \in Seq(Bytes) /\ Len(low) = 4 /\ \A k \in 1 .. 4 : low[k] = s[k]
  <2>1. low = [k \in 1 .. 4 |-> s[k]]
    BY <1>2
  <2>2. \A k \in 1 .. 4 : s[k] \in Bytes
    OBVIOUS
  <2>. QED  BY <2>1, <2>2
<1>5. PICK t : t = high \o low
  OBVIOUS
<1>6. high \in Seq(Bytes) /\ low \in Seq(Bytes)
  BY <1>3, <1>4
<1>7. /\ t \in Seq(Bytes) /\ Len(t) = Len(high) + Len(low)
      /\ \A i \in 1 .. Len(high) : t[i] = high[i]
      /\ \A i \in 1 .. Len(low) : t[Len(high) + i] = low[i]
  BY <1>5, <1>6, Joined
<1>8. PICK u : u = <<s[5], s[6], s[7], s[8], s[1], s[2], s[3], s[4]>>
  OBVIOUS
<1>9. u \in Seq(Bytes) /\ Len(u) = 8
  BY <1>8
<1>10. Len(t) = 8 /\ (\A i \in 1 .. 4 : t[i] = s[4 + i]) /\ (\A i \in 1 .. 4 : t[4 + i] = s[i])
  BY <1>3, <1>4, <1>7
<1>11. /\ t[1] = s[5] /\ t[2] = s[6] /\ t[3] = s[7] /\ t[4] = s[8]
       /\ t[5] = s[1] /\ t[6] = s[2] /\ t[7] = s[3] /\ t[8] = s[4]
  BY <1>10
<1>12. \A i \in 1 .. Len(t) : t[i] = u[i]
  BY <1>8, <1>10, <1>11
<1>13. t = u
  BY <1>7, <1>9, <1>10, <1>12, SeqEqual
<1>. QED  BY <1>2, <1>5, <1>8, <1>13

(* Exchanging the halves twice changes nothing. *)
LEMMA HalvesTwice ==
  ASSUME NEW s \in [1 .. 8 -> Bytes], NEW word
  PROVE  Halves(s, word) \in [1 .. 8 -> Bytes] /\ Halves(Halves(s, word), word) = s
<1>1. CASE word = "HighWordFirst"
  BY <1>1 DEF Halves
<1>2. CASE word # "HighWordFirst"
  <2>1. PICK t : t = <<s[5], s[6], s[7], s[8], s[1], s[2], s[3], s[4]>>
    OBVIOUS
  <2>2. /\ t \in [1 .. 8 -> Bytes]
        /\ t[1] = s[5] /\ t[2] = s[6] /\ t[3] = s[7] /\ t[4] = s[8]
        /\ t[5] = s[1] /\ t[6] = s[2] /\ t[7] = s[3] /\ t[8] = s[4]
    BY <2>1
  <2>3. Halves(s, word) = t
    BY <1>2, <2>1, HalvesAre DEF Halves
  <2>4. Halves(t, word) = <<t[5], t[6], t[7], t[8], t[1], t[2], t[3], t[4]>>
    BY <1>2, <2>2, HalvesAre DEF Halves
  <2>5. <<t[5], t[6], t[7], t[8], t[1], t[2], t[3], t[4]>> = s
    BY <2>2
  <2>. QED  BY <2>2, <2>3, <2>4, <2>5
<1>. QED  BY <1>1, <1>2

(* The bytes of the registers of bytes are those bytes, in either order.   *)
LEMMA RegsOfBytes ==
  ASSUME NEW bytes \in [1 .. 8 -> Bytes], NEW byte, NEW rs,
         rs = [i \in 1 .. 4 |-> InOrder(SubSeq(bytes, 2 * i - 1, 2 * i), byte)]
  PROVE  BytesOf([i \in 1 .. 4 |-> InOrder(rs[i], byte)]) = bytes
<1>1. bytes \in Seq(Bytes) /\ Len(bytes) = 8
  BY IsSequence
<1>2. ASSUME NEW i \in 1 .. 4
      PROVE  InOrder(rs[i], byte) = <<bytes[2 * i - 1], bytes[2 * i]>>
  <2>1. 2 * i - 1 \in Nat /\ 1 <= 2 * i - 1 /\ (2 * i - 1) + 1 <= 8 /\ (2 * i - 1) + 1 = 2 * i
    OBVIOUS
  <2>2. SubSeq(bytes, 2 * i - 1, (2 * i - 1) + 1) = <<bytes[2 * i - 1], bytes[(2 * i - 1) + 1]>>
    BY <1>1, <2>1, Pair
  <2>3. rs[i] = InOrder(<<bytes[2 * i - 1], bytes[2 * i]>>, byte)
    BY <2>1, <2>2
  <2>. QED  BY <2>3, OrderedTwice
<1>3. PICK pairs : pairs = [i \in 1 .. 4 |-> InOrder(rs[i], byte)]
  OBVIOUS
<1>4. Len(pairs) = 4 /\ \A i \in 1 .. 4 : pairs[i] = <<bytes[2 * i - 1], bytes[2 * i]>>
  BY <1>2, <1>3
<1>5. ASSUME NEW k \in 1 .. 8
      PROVE  pairs[(k + 1) \div 2][2 - (k % 2)] = bytes[k]
  <2>1. PICK i \in 1 .. 4 : i = (k + 1) \div 2
    OBVIOUS
  <2>2. pairs[i] = <<bytes[2 * i - 1], bytes[2 * i]>>
    BY <1>4
  <2>3. CASE k % 2 = 1
    <3>1. 2 * i - 1 = k /\ 2 - (k % 2) = 1
      BY <2>1, <2>3
    <3>. QED  BY <2>1, <2>2, <3>1
  <2>4. CASE k % 2 = 0
    <3>1. 2 * i = k /\ 2 - (k % 2) = 2
      BY <2>1, <2>4
    <3>. QED  BY <2>1, <2>2, <3>1
  <2>. QED  BY <2>3, <2>4
<1>6. BytesOf(pairs) = [k \in 1 .. 8 |-> bytes[k]]
  BY <1>4, <1>5 DEF BytesOf
<1>. QED  BY <1>3, <1>6

(* A 64-bit number comes back, whatever the orders and the host.           *)
LEMMA Float64ComesBack ==
  ASSUME NEW val \in [1 .. 8 -> Bytes], NEW word, NEW byte, NEW h
  PROVE  regsToFloat64(float64ToRegs(val, word, byte, h), word, byte, h) = val
<1>1. PICK mem : mem = HostMemory(val, h)
  OBVIOUS
<1>2. mem \in [1 .. 8 -> Bytes] /\ HostMemory(mem, h) = val
  BY <1>1, HostTwice
<1>3. PICK bytes : bytes = Halves(mem, word)
  OBVIOUS
<1>4. bytes \in [1 .. 8 -> Bytes] /\ Halves(bytes, word) = mem
  BY <1>2, <1>3, HalvesTwice
<1>5. PICK rs : rs = [i \in 1 .. 4 |-> InOrder(SubSeq(bytes, 2 * i - 1, 2 * i), byte)]
  OBVIOUS
<1>6. float64ToRegs(val, word, byte, h) = rs
  BY <1>1, <1>3, <1>5 DEF float64ToRegs
<1>7. BytesOf([i \in 1 .. 4 |-> InOrder(rs[i], byte)]) = bytes
  BY <1>4, <1>5, RegsOfBytes
<1>. QED  BY <1>2, <1>4, <1>6, <1>7 DEF regsToFloat64

(* Strings: the last register of one with an odd length is padded. *)
LEMMA StringComesBack ==
  ASSUME NEW n \in Nat, NEW str \in [1 .. n -> Bytes]
  PROVE  \/ regsToString(stringToRegs(str)) = str
         \/ n % 2 = 1 /\ regsToString(stringToRegs(str)) = Append(str, Zero)
<1>1. Len(str) = n /\ str \in Seq(Bytes)
  OBVIOUS
<1>2. PICK c \in Nat : c = (n + 1) \div 2
  OBVIOUS
<1>3. PICK rs : rs = stringToRegs(str)
  OBVIOUS
<1>4. Len(rs) = c /\ \A i \in 1 .. c : rs[i] = <<str[2 * i - 1], IF 2 * i <= n THEN str[2 * i] ELSE Zero>>
  BY <1>1, <1>2, <1>3 DEF stringToRegs
<1>5. ASSUME NEW k \in 1 .. 2 * c
      PROVE  rs[(k + 1) \div 2][2 - (k % 2)] = IF k <= n THEN str[k] ELSE Zero
  <2>1. PICK i \in 1 .. c : i = (k + 1) \div 2
    OBVIOUS
  <2>2. rs[i] = <<str[2 * i - 1], IF 2 * i <= n THEN str[2 * i] ELSE Zero>>
    BY <1>4
  <2>3. CASE k % 2 = 1
    <3>1. 2 * i - 1 = k /\ 2 - (k % 2) = 1 /\ k <= n
      BY <1>2, <2>1, <2>3
    <3>2. rs[i][1] = str[2 * i - 1]
      BY <2>2
    <3>. QED  BY <2>1, <3>1, <3>2
  <2>4. CASE k % 2 = 0
    <3>1. 2 * i = k /\ 2 - (k % 2) = 2
      BY <2>1, <2>4
    <3>2. rs[i][2] = IF 2 * i <= n THEN str[2 * i] ELSE Zero
      BY <2>2
    <3>. QED  BY <2>1, <3>1, <3>2
  <2>. QED  BY <2>3, <2>4
<1>6. regsToString(rs) = [k \in 1 .. 2 * c |-> IF k <= n THEN str[k] ELSE Zero]
  BY <1>4, <1>5 DEF regsToString, BytesOf
<1>7. CASE n % 2 = 0
  <2>1. 2 * c = n
    BY <1>2, <1>7
  <2>2. [k \in 1 .. n |-> IF k <= n THEN str[k] ELSE Zero] = str
    OBVIOUS
  <2>. QED  BY <1>3, <1>6, <2>1, <2>2
<1>8. CASE n % 2 = 1
  <2>1. 2 * c = n + 1
    BY <1>2, <1>8
  <2>2. PICK padded : padded = Append(str, Zero)
    OBVIOUS
  <2>3. Zero \in Bytes
    BY BytesAssumption
  <2>4. padded \in Seq(Bytes) /\ Len(padded) = n + 1
    BY <1>1, <2>2, <2>3
  <2>5. \A k \in 1 .. n + 1 : padded[k] = IF k <= n THEN str[k] ELSE Zero
    BY <1>1, <2>2, <2>3
  <2>6. padded = [k \in 1 .. n + 1 |-> padded[k]]
    BY <2>4
  <2>7. padded = [k \in 1 .. n + 1 |-> IF k <= n THEN str[k] ELSE Zero]
    BY <2>5, <2>6
  <2>. QED  BY <1>3, <1>6, <1>8, <2>1, <2>2, <2>7
<1>. QED  BY <1>7, <1>8

(* The inductive invariant: the registers are those of the value, and what *)
(* came back came from those registers.                                    *)
RegsOf(f, val) ==
  CASE f = "int32"   -> u32ToRegsInternal(val, wo, bo)
    [] f = "float64" -> float64ToRegs(val, wo, bo, host)
    [] f = "string"  -> stringToRegs(val)

ValueOf(f, rs) ==
  CASE f = "int32"   -> regsToU32Internal(rs[1], rs[2], wo, bo)
    [] f = "float64" -> regsToFloat64(rs, wo, bo, host)
    [] f = "string"  -> regsToString(rs)

ConvertInv ==
  /\ form \in Forms /\ value \in Values[form]
  /\ regs # Nothing => regs = RegsOf(form, value)
  /\ back # Nothing => regs # Nothing /\ back = ValueOf(form, regs)

(* The inductive invariant holds. *)
LEMMA ConvertInvHolds == ConvertSpec => []ConvertInv
<1>1. ConvertInit => ConvertInv
  BY DEF ConvertInit, ConvertInv
<1>2. ConvertInv /\ [ConvertNext]_convertVars => ConvertInv'
  <2>. SUFFICES ASSUME ConvertInv, [ConvertNext]_convertVars
                PROVE  ConvertInv'
    OBVIOUS
  <2>1. CASE ToRegs
    <3>1. /\ regs' = RegsOf(form, value) /\ back = Nothing
          /\ UNCHANGED <<form, wo, bo, host, value, back>>
      BY <2>1 DEF ToRegs, RegsOf, ConvertInv
    <3>. QED  BY <3>1 DEF ConvertInv, RegsOf, ValueOf
  <2>2. CASE FromRegs
    <3>1. /\ back' = ValueOf(form, regs) /\ regs # Nothing
          /\ UNCHANGED <<form, wo, bo, host, value, regs>>
      BY <2>2 DEF FromRegs, ValueOf
    <3>. QED  BY <3>1 DEF ConvertInv, RegsOf, ValueOf
  <2>3. CASE UNCHANGED convertVars
    BY <2>3 DEF convertVars, ConvertInv, RegsOf, ValueOf
  <2>. QED  BY <2>1, <2>2, <2>3 DEF ConvertNext
<1>. QED  BY <1>1, <1>2, PTL DEF ConvertSpec

(* Numbers and strings go to the device in the documented order and come   *)
(* back as they went, for every value of every byte and strings of every   *)
(* length.  (convert.cpp:6-166.)                                           *)
THEOREM Conversions == ConvertSpec => []NumbersTravel
<1>1. /\ Values["int32"] = [1 .. 4 -> Bytes] /\ Values["float64"] = [1 .. 8 -> Bytes]
      /\ Values["string"] = UNION {[1 .. n -> Bytes] : n \in 1 .. MaxString}
      /\ Forms = {"int32", "float64", "string"}
  BY DEF Values, Forms
<1>2. ConvertInv => ValuesComeBack
  <2>. SUFFICES ASSUME ConvertInv, back # Nothing
                PROVE  \/ back = value
                       \/ form = "string" /\ Len(value) % 2 = 1 /\ back = Append(value, Zero)
    BY DEF ValuesComeBack
  <2>1. regs = RegsOf(form, value) /\ back = ValueOf(form, regs) /\ value \in Values[form]
    BY DEF ConvertInv
  <2>2. CASE form = "int32"
    <3>1. value \in [1 .. 4 -> Bytes]
      BY <1>1, <2>1, <2>2
    <3>. QED  BY <2>1, <2>2, <3>1, Int32ComesBack DEF RegsOf, ValueOf
  <2>3. CASE form = "float64"
    <3>1. value \in [1 .. 8 -> Bytes]
      BY <1>1, <2>1, <2>3
    <3>. QED  BY <2>1, <2>3, <3>1, Float64ComesBack DEF RegsOf, ValueOf
  <2>4. CASE form = "string"
    <3>1. PICK n \in Nat : value \in [1 .. n -> Bytes]
      BY <1>1, <2>1, <2>4, BytesAssumption
    <3>2. back = regsToString(stringToRegs(value)) /\ Len(value) = n
      BY <2>1, <2>4, <3>1 DEF RegsOf, ValueOf
    <3>. QED  BY <2>4, <3>1, <3>2, StringComesBack
  <2>. QED  BY <1>1, <2>2, <2>3, <2>4 DEF ConvertInv
<1>3. ConvertInv => Int32InDocumentedOrder
  <2>. SUFFICES ASSUME ConvertInv, form = "int32", regs # Nothing
                PROVE  regs = DocumentedRegs
    BY DEF Int32InDocumentedOrder
  <2>1. regs = u32ToRegsInternal(value, wo, bo) /\ value \in [1 .. 4 -> Bytes]
    BY <1>1 DEF ConvertInv, RegsOf
  <2>2. PICK high, low : /\ high = InOrder(SubSeq(value, 1, 2), bo)
                         /\ low = InOrder(SubSeq(value, 3, 4), bo)
    OBVIOUS
  <2>3. regs = IF wo = "HighWordFirst" THEN <<high, low>> ELSE <<low, high>>
    BY <2>1, <2>2 DEF u32ToRegsInternal
  <2>4. Len(value) \div 2 = 2
    <3>1. Len(value) = 4
      BY <2>1, IsSequence
    <3>. QED  BY <3>1
  <2>5. DocumentedRegs = [i \in 1 .. 2 |->
          InOrder(SubSeq(value, 2 * (IF wo = "HighWordFirst" THEN i ELSE 3 - i) - 1,
                                2 * (IF wo = "HighWordFirst" THEN i ELSE 3 - i)), bo)]
    BY <2>4 DEF DocumentedRegs
  <2>6. DocumentedRegs = IF wo = "HighWordFirst" THEN <<high, low>> ELSE <<low, high>>
    <3>1. CASE wo = "HighWordFirst"
      <4>1. DocumentedRegs = [i \in 1 .. 2 |-> InOrder(SubSeq(value, 2 * i - 1, 2 * i), bo)]
        BY <2>5, <3>1
      <4>2. DocumentedRegs = <<high, low>>
        BY <2>2, <4>1
      <4>. QED  BY <3>1, <4>2
    <3>2. CASE wo # "HighWordFirst"
      <4>1. DocumentedRegs = [i \in 1 .. 2 |-> InOrder(SubSeq(value, 2 * (3 - i) - 1, 2 * (3 - i)), bo)]
        BY <2>5, <3>2
      <4>2. DocumentedRegs = <<low, high>>
        BY <2>2, <4>1
      <4>. QED  BY <3>2, <4>2
    <3>. QED  BY <3>1, <3>2
  <2>. QED  BY <2>3, <2>6
<1>. QED  BY <1>2, <1>3, ConvertInvHolds, PTL DEF NumbersTravel
=============================================================================
