------------------------------ MODULE HexTime ------------------------------
(* The converters that print the stamp of a recording, eight bytes with the  *)
(* seconds and the nanoseconds in little-endian order, as seconds with two   *)
(* decimals: src/hex_to_time.cpp (the bytes are an argument), hex_to_int2.cpp *)
(* (a line of a file) and read_hex_string.cpp (behind "time=" in a line of a *)
(* file).  The bytes become hexadecimal digits, pairs of which are put in    *)
(* the opposite order and parsed.                                            *)
EXTENDS Integers, Sequences, SequencesExt, FiniteSetsExt

Tool == {"hex_to_time", "hex_to_int2", "read_hex_string"}

\* An argument ends at a 0, a line at a newline, and hex_to_int2 copies the
\* line by way of a C string.
Terminator(tool) ==
  CASE tool = "hex_to_time" -> {0} [] tool = "hex_to_int2" -> {0, 10} [] tool = "read_hex_string" -> {10}

Received(tool, bytes) ==
  LET ends == {i \in DOMAIN bytes : bytes[i] \in Terminator(tool)}
  IN  IF ends = {} THEN bytes ELSE SubSeq(bytes, 1, Min(ends) - 1)

\* Mutant of Digits: no tool puts a 0 in front.
DigitsUnpadded(tool, b) == IF b < 16 THEN <<b>> ELSE <<b \div 16, b % 16>>
\* A byte below 16 has one digit; read_hex_string puts a 0 in front of it.
Digits(tool, b) ==
  IF b < 16 /\ tool # "read_hex_string" THEN <<b>> ELSE <<b \div 16, b % 16>>

string_to_hex(tool, bytes) == FlattenSeq([i \in DOMAIN bytes |-> Digits(tool, bytes[i])])

\* The eight digits from `from`, the last pair first, in base 16.  The sign
\* bit is left out of the model: stamps after 2038 are not considered.
Parsed(digits, from) ==
  LET pair(i) == digits[from + 2 * i] * 16 + digits[from + 2 * i + 1]
  IN  ((pair(3) * 256 + pair(2)) * 256 + pair(1)) * 256 + pair(0)

\* round(100 * ns / 10^len), len the number of digits of ns, by way of its
\* first three digits; a half may be rounded down by the doubles of the code,
\* and is left out.
Scales == {1, 10, 100, 1000, 10000, 100000, 1000000, 10000000}
FirstDigits(ns) == ns \div (CHOOSE scale \in Scales : ns \div scale \in 100..999)
Fraction(ns) ==
  IF ns < 10 THEN 10 * ns ELSE IF ns < 100 THEN ns ELSE (FirstDigits(ns) + 5) \div 10

Seconds(s, hundredths) == IF hundredths = 100 THEN <<s + 1, 0>> ELSE <<s, hundredths>>

\* With less than 16 digits the digits behind the end are read: undefined.
Garbled == <<>>
Printed(tool, bytes) ==
  LET digits == string_to_hex(tool, Received(tool, bytes))
  IN  IF Len(digits) < 16 THEN Garbled
      ELSE Seconds(Parsed(digits, 1), Fraction(Parsed(digits, 9)))

-----------------------------------------------------------------------------
Word(bytes) == bytes[1] + 256 * bytes[2] + 65536 * bytes[3] + 16777216 * bytes[4]

\* The stamp is printed as it is just if the program got all its digits and
\* the fraction has no leading zero: the nanoseconds are divided by the power
\* of ten of their own length, so 0.05 s is printed as .50, and a byte that
\* ends the input, or one below 16 where it is not padded, loses the digits
\* behind it.
PrintedTime(tool, bytes) ==
  LET s == Word(bytes)
      ns == Word(SubSeq(bytes, 5, 8))
      lost == IF tool = "read_hex_string" THEN {10} ELSE 0..15
  IN  Printed(tool, bytes) = Seconds(s, (ns + 5000000) \div 10000000) <=>
        /\ Range(bytes) \cap lost = {}
        /\ ns = 0 \/ ns >= 100000000
=============================================================================
