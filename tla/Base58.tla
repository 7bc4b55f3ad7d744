-------------------------------- MODULE Base58 --------------------------------
(***************************************************************************)
(* The three base58 conversions of the repository: b58encode and b58decode *)
(* of lib/solana.mjs, and the decodeBase58 of backend/src/signer/keys.mjs  *)
(* that reads a secret key.  A character is its index in the alphabet, so  *)
(* '1' is 0; -1 stands for any character outside it.  Lists of digits are  *)
(* kept as the code keeps them, the least significant first.               *)
(***************************************************************************)
EXTENDS Integers, SequencesExt

\* An exception: no list of digits holds -1.
Throws == <<-1>>

\* The last loop of each conversion: what is left of the carry, digit by digit.
Carry(base) ==
  LET limbs[c \in Nat] == IF c = 0 THEN <<>> ELSE <<c % base>> \o limbs[c \div base]
  IN  limbs

\* limbs := limbs * times + value, in the given base: the inner loop, then the last one.
AddLimb(acc, limb, times, base) ==
  LET c == acc.carry + limb * times
  IN  [carry |-> c \div base, out |-> Append(acc.out, c % base)]

MulAdd(limbs, times, base, value) ==
  LET Step(acc, limb) == AddLimb(acc, limb, times, base)
      done == FoldLeft(Step, [carry |-> value, out |-> <<>>], limbs)
  IN  done.out \o Carry(base)[done.carry]

\* The outer loop, over digits of one base to limbs of the other.
Limbs(start, digits, from, to) ==
  LET Step(limbs, digit) == MulAdd(limbs, from, to, digit) IN FoldLeft(Step, start, digits)

LeadingZeros(s) ==
  CHOOSE n \in 0 .. Len(s) : /\ \A i \in 1 .. n : s[i] = 0
                             /\ n < Len(s) => s[n + 1] # 0

Zeros(n) == [i \in 1 .. n |-> 0]

-----------------------------------------------------------------------------
\* Both conversions of the library: the digits after the leading zeros, in the other base.
Convert(start, s, from, to) ==
  LET zeros == LeadingZeros(s)
  IN  Zeros(zeros) \o Reverse(Limbs(start, SubSeq(s, zeros + 1, Len(s)), from, to))

b58encode(bytes) == Convert(<<>>, bytes, 256, 58)

DecodeFrom(start, str) == IF -1 \in ToSet(str) THEN Throws ELSE Convert(start, str, 58, 256)

\* A bug the comment at solana.mjs:41 warns of: one zero byte too many.
DecodeFromZero(str) == DecodeFrom(<<0>>, str)

b58decode(str) == DecodeFrom(<<>>, str)

\* The signer's decoder starts from one zero byte, so it reads the leading
\* ones up to the last character but one.
decodeBase58(s) ==
  IF s = <<>> \/ -1 \in ToSet(s) THEN Throws
  ELSE Zeros(LeadingZeros(SubSeq(s, 1, Len(s) - 1))) \o Reverse(Limbs(<<0>>, s, 58, 256))

=============================================================================
