-------------------------------- MODULE Solana --------------------------------
(***************************************************************************)
(* Addresses without the Solana SDK (lib/solana.mjs): base58, the ed25519  *)
(* on-curve test, and the search for a program-derived address, together   *)
(* with the base58 reader of the signer (backend/src/signer/keys.mjs).     *)
(*                                                                         *)
(* The code's prime is 2^255 - 19.  Here it is any p with p % 8 = 5, as    *)
(* the code's square root needs, d is any number, and a digest any number  *)
(* of bytes, of which the last bit is the sign of x.  SHA-256 is an        *)
(* unknown function: each bump asks for a digest that may be any.          *)
(***************************************************************************)
EXTENDS Base58

CONSTANTS
  Bytes, MaxBytes,   \* the byte strings encoded
  Chars, MaxChars,   \* the base58 strings decoded; -1 is an invalid character
  Curves,            \* records [p, d, size]: a field, the curve's d, the bytes of a digest
  MaxBump            \* 255 in the code

ASSUME DigitsAssumption == Bytes \subseteq 0 .. 255 /\ Chars \subseteq -1 .. 57

ASSUME CurvesAssumption ==
  /\ MaxBump \in Nat
  /\ \A c \in Curves : /\ c.p \in Nat /\ c.p % 8 = 5 /\ \A n \in 2 .. c.p - 1 : c.p % n # 0
                       /\ c.d \in Nat /\ c.size \in Nat \ {0}

VARIABLES
  job,      \* what is being run: "encode", "decode" or "find"
  bytes,    \* the bytes to encode
  text,     \* the base58 string to decode
  curve,
  valid,    \* whether the seeds are short enough and the program id is base58
  bump,     \* the bump about to be tried
  digests,  \* the digests of the bumps tried so far
  found    \* what findProgramAddress returned

addressVars == <<job, bytes, text, curve, valid, bump, digests, found>>

-----------------------------------------------------------------------------
(***************************************************************************)
(* The on-curve test.  % of TLA+ is never negative: it is the code's mod.  *)
(***************************************************************************)
PowLoop(p) ==
  LET loop[s \in [result : Nat, b : Nat, e : Nat]] ==
        IF s.e = 0 THEN s.result
        ELSE loop[[result |-> IF s.e % 2 = 1 THEN (s.result * s.b) % p ELSE s.result,
                   b |-> (s.b * s.b) % p, e |-> s.e \div 2]]
  IN  loop

Pow(p, base, exp) == PowLoop(p)[[result |-> 1, b |-> base % p, e |-> exp]]

SQRT_M1(p) == Pow(p, 2, (p - 1) \div 4)

\* The candidate root of u / v: u v^3 (u v^7)^((p - 5) / 8).
Root(p, u, v) ==
  LET v3 == (v * v * v) % p
      v7 == (v3 * v3 * v) % p
  IN  (((u * v3) % p) * Pow(p, u * v7, (p - 5) \div 8)) % p

IsRoot(p, x, u, v) == (((v * x) % p) * x) % p = u % p

\* The number a list of digits stands for, the most significant first.
Value(base, digits) ==
  LET Step(n, digit) == n * base + digit IN FoldLeft(Step, 0, digits)

\* A digest without its last bit, the least significant byte first.
Encoded(digest) == Value(256, Reverse([digest EXCEPT ![Len(digest)] = @ % 128]))

\* A bug: the second square root is forgotten.
FirstRootOnly(c, digest) ==
  LET y == Encoded(digest)
      u == (y * y - 1) % c.p
      v == (c.d * ((y * y) % c.p) + 1) % c.p
  IN  y < c.p /\ IsRoot(c.p, Root(c.p, u, v), u, v)

isOnCurve(c, digest) ==
  LET y == Encoded(digest)
      u == (y * y - 1) % c.p
      v == (c.d * ((y * y) % c.p) + 1) % c.p
      x == Root(c.p, u, v)
  IN  /\ y < c.p
      /\ \/ IsRoot(c.p, x, u, v)
         \/ /\ IsRoot(c.p, x, -u, v)
            /\ IsRoot(c.p, (x * SQRT_M1(c.p)) % c.p, u, v)

-----------------------------------------------------------------------------
(***************************************************************************)
(* The search for an address.  findProgramAddress takes every exception    *)
(* for an address on the curve, bad arguments too.                         *)
(***************************************************************************)
\* In found.is: "pending", "address" or "none" (no off-curve address found).
Pending == [is |-> "pending", address |-> <<>>, bump |-> MaxBump]

createProgramAddress(digest) ==
  IF ~valid \/ isOnCurve(curve, digest) THEN Throws ELSE b58encode(digest)

TryBump ==
  /\ job = "find" /\ found.is = "pending"
  /\ bump >= 0
  /\ \E digest \in [1 .. curve.size -> 0 .. 255] :
       LET address == createProgramAddress(digest)
       IN  /\ digests' = Append(digests, digest)
           /\ IF address = Throws
                THEN bump' = bump - 1 /\ UNCHANGED found
                ELSE found' = [is |-> "address", address |-> address, bump |-> bump] /\ UNCHANGED bump
  /\ UNCHANGED <<job, bytes, text, curve, valid>>

GiveUp ==
  /\ job = "find" /\ found.is = "pending"
  /\ bump < 0
  /\ found' = [found EXCEPT !.is = "none"]
  /\ UNCHANGED <<job, bytes, text, curve, valid, bump, digests>>

ReadByte ==
  /\ job = "encode" /\ Len(bytes) < MaxBytes
  /\ \E b \in Bytes : bytes' = Append(bytes, b)
  /\ UNCHANGED <<job, text, curve, valid, bump, digests, found>>

ReadChar ==
  /\ job = "decode" /\ Len(text) < MaxChars
  /\ \E ch \in Chars : text' = Append(text, ch)
  /\ UNCHANGED <<job, bytes, curve, valid, bump, digests, found>>

AddressInit ==
  /\ job \in {"encode", "decode", "find"}
  /\ bytes = <<>> /\ text = <<>>
  /\ curve \in Curves
  /\ valid \in BOOLEAN /\ (job # "find" => valid)
  /\ bump = MaxBump /\ digests = <<>> /\ found = Pending

AddressNext == TryBump \/ GiveUp \/ ReadByte \/ ReadChar

AddressSpec == AddressInit /\ [][AddressNext]_addressVars

-----------------------------------------------------------------------------
(***************************************************************************)
(* A byte string and its base58 text are the same number with the same     *)
(* leading zeros, each conversion undoes the other, and the reader of the  *)
(* signer's secret key agrees with the library on every string that is not *)
(* empty (solana.mjs:16-58, keys.mjs:47-66).                               *)
(***************************************************************************)
SameNumber(key, str) ==
  /\ Value(256, key) = Value(58, str)
  /\ LeadingZeros(key) = LeadingZeros(str)

ConversionsAgree ==
  /\ b58decode(b58encode(bytes)) = bytes
  /\ SameNumber(bytes, b58encode(bytes))
  /\ text # <<>> => decodeBase58(text) = b58decode(text)
  /\ -1 \notin ToSet(text) => /\ b58encode(b58decode(text)) = text
                              /\ SameNumber(b58decode(text), text)

(***************************************************************************)
(* The address found for a program is the y of no point of the curve, so   *)
(* no private key signs for it, and it is the first such bump from the     *)
(* top; with good arguments the search gives up only when every bump gives *)
(* a point (solana.mjs:61-62, 129-138).                                    *)
(***************************************************************************)
HasPoint(c, y) ==
  \E x \in 0 .. c.p - 1 : (y * y - x * x - 1 - c.d * x * x * y * y) % c.p = 0

IsKey(c, digest) ==
  Encoded(digest) < c.p /\ HasPoint(c, Encoded(digest))

PdaHasNoKey ==
  /\ found.is = "address" =>
       /\ b58decode(found.address) = Last(digests)
       /\ ~IsKey(curve, Last(digests))
       /\ found.bump = MaxBump - Len(Front(digests))
       /\ \A i \in DOMAIN Front(digests) : IsKey(curve, digests[i])
  /\ found.is = "none" /\ valid =>
       /\ Len(digests) = MaxBump + 1
       /\ \A i \in DOMAIN digests : IsKey(curve, digests[i])

=============================================================================
