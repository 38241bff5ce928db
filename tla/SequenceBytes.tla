---------------------------- MODULE SequenceBytes ----------------------------
(***************************************************************************)
(* How numbers are written into packets, and how the start of the sequence *)
(* numbers is sent to the client: as two values, one of them chosen at     *)
(* random, of which the client computes it.                                *)
(***************************************************************************)
EXTENDS Integers

Max1 == 253
Max2 == 64009
Max3 == 16194277

\* What stands for a digit that is not there.
NoDigit == 254

\* PacketProcessor::ENumber: four digits to the base of 253, each one more than it is;
\* the last is a byte that larger numbers do not fit.
ENumber(n) ==
    <<(n % Max1) + 1,
      IF n < Max1 THEN NoDigit ELSE ((n % Max2) \div Max1) + 1,
      IF n < Max2 THEN NoDigit ELSE ((n % Max3) \div Max2) + 1,
      IF n < Max3 THEN NoDigit ELSE ((n \div Max3) + 1) % 256>>

Digit(byte) == CASE byte = NoDigit -> 0 [] byte = 0 -> 127 [] OTHER -> byte - 1

\* PacketProcessor::Number
Number(b) == Digit(b[4]) * Max3 + Digit(b[3]) * Max2 + Digit(b[2]) * Max1 + Digit(b[1])

\* What PacketReader::GetNumber reads of a number written with AddChar, or AddShort.
CharRead(n) == Number(<<ENumber(n)[1], NoDigit, NoDigit, NoDigit>>)
ShortRead(n) == Number(<<ENumber(n)[1], ENumber(n)[2], NoDigit, NoDigit>>)

-----------------------------------------------------------------------------
\* EOClient::InitNewSequence and PingNewSequence choose a start from these.
AllStarts == 0..1757

\* The parts to choose from.  Division in C rounds to zero, which the maximum hides.
Quotient(n) == IF n >= 0 THEN n \div 7 ELSE -((-n) \div 7)
Larger(m, n) == IF m >= n THEN m ELSE n

InitParts(start) == Larger(0, Quotient(start - 252 + 13 + 6))..Quotient(start + 13)

\* EOClient::GetSeqInitBytes, the second value of it, an unsigned char.
InitRest(start, s1) == (start - s1 * 7 + 13) % 256

\* What the client computes of the two bytes of Init_Init's reply.
InitStart(start, s1) == s1 * 7 + InitRest(start, s1) - 13

\* Mutant: a char is taken to hold 255.
UpdateParts_255(start) == start..(start + 255)

\* EOClient::GetSeqUpdateBytes.
UpdateParts(start) == start..(start + 252)
UpdateRest(start, s1) == (s1 - start) % 256

\* What the client computes of a ping's short and char.
UpdateStart(start, s1) == ShortRead(s1) - CharRead(UpdateRest(start, s1))
=============================================================================
