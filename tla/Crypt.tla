-------------------------------- MODULE Crypt --------------------------------
(***************************************************************************)
(* encrypt() and decrypt(): a text is cyphered with a random AES key and a *)
(* random initial vector in CFB mode; both go in front of it, each as the  *)
(* RSA-cyphered integer that it stands for, with its length.  decrypt()    *)
(* also meets texts that are not of this form, as a message is marked as   *)
(* cyphered whatever became of it, and keys of others.                     *)
(*                                                                         *)
(* Everything is scaled down: a byte has Base values, a block (and an AES  *)
(* key) BlockSize bytes, a length takes one byte, which it is cut to, and  *)
(* RSA is textbook RSA with a small modulus.                               *)
(***************************************************************************)
EXTENDS Integers, Sequences, FiniteSets

CONSTANTS
  Base,        \* how many values a byte has
  BlockSize,   \* AES::BLOCKSIZE and AES::DEFAULT_KEYLENGTH, which are equal
  N, E, D,     \* RSA: modulus, public and private exponent
  MsgBytes,    \* bound: the bytes that texts are made of
  MaxMsg,      \* bound: the length of a text
  MaxWire      \* bound: the length of something that is not a cyphered text

Byte     == 0..(Base - 1)
Block    == [1..BlockSize -> Byte]
Upto(set, n) == UNION {[1..len -> set] : len \in 0..n}
Texts    == Upto(MsgBytes, MaxMsg) \ {<<>>}
NoText   == <<>>

\* x^e mod n
Power(x, e) == LET p[i \in 0..e] == IF i = 0 THEN 1 % N ELSE (p[i - 1] * x) % N IN p[e]

\* RSA works: the inverse undoes the function, below the modulus.
ASSUME CryptAssumption ==
  /\ Base \in Nat \ {0, 1} /\ BlockSize \in Nat \ {0}
  /\ N \in Nat \ {0, 1} /\ E \in Nat /\ D \in Nat
  /\ MsgBytes \subseteq Byte /\ MaxMsg \in Nat /\ MaxWire \in Nat
  /\ \A x \in 0..(N - 1) : Power(Power(x, E), D) = x

VARIABLES
  pc,      \* where decrypt() stands
  sent,    \* what encrypt() was given and has drawn, if it made the text
  cmsg,    \* the text that decrypt() is given
  pin,     \* how many bytes of it have been consumed
  caesk,   \* the cyphered AES key
  civ,     \* the cyphered initial vector
  msg      \* what decrypt() yields

vars == <<pc, sent, cmsg, pin, caesk, civ, msg>>

-----------------------------------------------------------------------------
(* CryptoPP::Integer *)

Value(bytes) ==
  LET v[i \in 0..Len(bytes)] == IF i = 0 THEN 0 ELSE v[i - 1] * Base + bytes[i]
  IN  v[Len(bytes)]

\* Base to the n-th: what a byte counts for that has n bytes behind it.
Weight(n) == LET w[i \in 0..n] == IF i = 0 THEN 1 ELSE w[i - 1] * Base IN w[n]

\* The bytes that an integer needs: no leading zeros, but at least one byte.
MinEncodedSize(x) ==
  CHOOSE n \in 1..(x + 1) : x < Weight(n) /\ \A k \in 1..(n - 1) : x >= Weight(k)

Encoded(x) ==
  LET size == MinEncodedSize(x)
  IN  [i \in 1..size |-> (x \div Weight(size - i)) % Base]

-----------------------------------------------------------------------------
(* AES in CFB mode, a toy cipher in place of AES *)

Aes(key, block) == [i \in 1..BlockSize |-> (key[i] + Base - block[i]) % Base]

\* Mutated form: every block is chained to the initial vector, none to the
\* block before.
ChainedToVector(c, iv, i) == iv

\* What byte i is cyphered with: the block of cyphered text before its own, or
\* the initial vector.
Chained(c, iv, i) ==
  LET before == ((i - 1) \div BlockSize) * BlockSize
  IN  IF before = 0 THEN iv
      ELSE [j \in 1..BlockSize |-> c[before - BlockSize + j]]

Keystream(c, key, iv, i) == Aes(key, Chained(c, iv, i))[1 + ((i - 1) % BlockSize)]

CfbEncrypt(m, key, iv) ==
  LET c[i \in 1..Len(m)] == (m[i] + Keystream(c, key, iv, i)) % Base
  IN  [i \in 1..Len(m) |-> c[i]]

CfbDecrypt(c, key, iv) ==
  [i \in 1..Len(c) |-> (c[i] + Base - Keystream(c, key, iv, i)) % Base]

-----------------------------------------------------------------------------
(* encrypt() *)

\* push_integer(): all the bytes, after their number, which push_size() takes as
\* an integer of one byte.
Pushed(bytes) == <<Len(bytes) % Base>> \o bytes

\* Mutated form: the vector goes first.
WireVectorFirst(m, key, iv) ==
  LET ckey == Encoded(Power(Value(key), E))
      cvec == Encoded(Power(Value(iv), E))
  IN  Pushed(cvec) \o Pushed(ckey) \o CfbEncrypt(m, key, iv)

\* The integers are not compared with the modulus: ApplyFunction() reduces.
Wire(m, key, iv) ==
  LET ckey == Encoded(Power(Value(key), E))
      cvec == Encoded(Power(Value(iv), E))
  IN  Pushed(ckey) \o Pushed(cvec) \o CfbEncrypt(m, key, iv)

NotOurs == [text |-> NoText, key |-> <<>>, iv |-> <<>>]

Init ==
  /\ pc = "start"
  /\ sent = NotOurs
  /\ cmsg = NoText
  /\ pin = 0
  /\ caesk = 0
  /\ civ = 0
  /\ msg = NoText

Encrypt ==
  /\ pc = "start"
  /\ \E m \in Texts, key, iv \in Block :
       /\ sent' = [text |-> m, key |-> key, iv |-> iv]
       /\ cmsg' = Wire(m, key, iv)
  /\ pc' = "key"
  /\ UNCHANGED <<pin, caesk, civ, msg>>

\* A text that encrypt() did not make.
Receive ==
  /\ pc = "start"
  /\ cmsg' \in Upto(Byte, MaxWire)
  /\ pc' = "key"
  /\ UNCHANGED <<sent, pin, caesk, civ, msg>>

-----------------------------------------------------------------------------
(* decrypt() *)

Left == Len(cmsg) - pin

\* Behind the end of a buffer there may be anything, and here are zeros.
BytesAt(from, size) ==
  [i \in 1..size |-> IF from + i <= Len(cmsg) THEN cmsg[from + i] ELSE 0]

\* An exception: Inbox::decrypt() shows an empty text.
Throw ==
  /\ pc' = "thrown"
  /\ msg' = NoText
  /\ UNCHANGED <<sent, cmsg, pin, caesk, civ>>

\* Mutated form: pop_integer() trusts the length.
PoppableAlways == Left >= 1

\* The length is there, and as many bytes as it says.
Poppable == Left >= 1 /\ Left - 1 >= cmsg[pin + 1]

Popped == Value(BytesAt(pin + 1, cmsg[pin + 1]))

PopKey ==
  /\ pc = "key"
  /\ IF Poppable
     THEN /\ caesk' = Popped
          /\ pin' = pin + 1 + cmsg[pin + 1]
          /\ pc' = "vector"
          /\ UNCHANGED <<sent, cmsg, civ, msg>>
     ELSE Throw

PopVector ==
  /\ pc = "vector"
  /\ IF Poppable
     THEN /\ civ' = Popped
          /\ pin' = pin + 1 + cmsg[pin + 1]
          /\ pc' = "text"
          /\ UNCHANGED <<sent, cmsg, caesk, msg>>
     ELSE Throw

\* Nothing follows: the private key is not even tried.
NothingToDecrypt ==
  /\ pc = "text"
  /\ Left = 0
  /\ pc' = "done"
  /\ UNCHANGED <<sent, cmsg, pin, caesk, civ, msg>>

\* Mutated form: the bytes go to the front of a block of zeros.
PaddedBehind(x) ==
  LET bytes == Encoded(Power(x, D))
  IN  [i \in 1..(IF Len(bytes) < BlockSize THEN BlockSize ELSE Len(bytes)) |->
         IF i <= Len(bytes) THEN bytes[i] ELSE 0]

\* inv_byte_block(): the bytes of the integer, which are fewer than those that
\* went in if those began with zeros.
InvByteBlock(x) == Encoded(Power(x, D))

\* CalculateInverse() throws unless the integer is below the modulus, and AES
\* does unless its key has the right length.  (Its other two lengths, of 24 and
\* 32 bytes, are left out: no block is that long.)
DecryptFails ==
  /\ pc = "text"
  /\ Left > 0
  /\ caesk >= N \/ civ >= N \/ Len(InvByteBlock(caesk)) # BlockSize
  /\ Throw

\* The mode reads a whole block at the vector's address, however short it is.
VectorsRead(bytes) ==
  {block \in Block : \A i \in 1..BlockSize : i <= Len(bytes) => block[i] = bytes[i]}

Decrypt ==
  /\ pc = "text"
  /\ Left > 0
  /\ caesk < N /\ civ < N /\ Len(InvByteBlock(caesk)) = BlockSize
  /\ \E iv \in VectorsRead(InvByteBlock(civ)) :
       msg' = CfbDecrypt(BytesAt(pin, Left), InvByteBlock(caesk), iv)
  /\ pc' = "done"
  /\ UNCHANGED <<sent, cmsg, pin, caesk, civ>>

Next ==
  Encrypt \/ Receive \/ PopKey \/ PopVector \/ NothingToDecrypt \/ DecryptFails \/ Decrypt

Spec == Init /\ [][Next]_vars

-----------------------------------------------------------------------------
(* Properties *)

Ended     == pc \in {"done", "thrown"}
Ours      == sent # NotOurs
Full(blk) == blk[1] # 0         \* it does not begin with a zero byte
Fits(blk) == Value(blk) < N     \* RSA takes it as it is

\* No integer below the modulus has more bytes than a length can tell.  The code
\* sets no upper limit; it takes a modulus of over 524,280 bits to exceed it.
LengthsFit == N <= Weight(Base - 1)

\* What was encrypted comes out of decrypt() again.  (The code fails here: a
\* key or a vector may begin with a zero byte.)
RoundTrip == Ended /\ Ours => msg = sent.text

\* It does when neither the key nor the vector happens to begin with a zero
\* byte or not to be below the modulus, which keygen allows to be as short as
\* they are.
RoundTripOfFullBlocks ==
  Ended /\ Ours /\ Full(sent.key) /\ Fits(sent.key) /\ Full(sent.iv) /\ Fits(sent.iv) =>
    pc = "done" /\ msg = sent.text

RightBehindFirstBlock ==
  /\ Len(msg) = Len(sent.text)
  /\ \A i \in 1..Len(msg) : i > BlockSize => msg[i] = sent.text[i]

\* A vector for which this is not so spoils the first block and no other, and
\* never the length of the text.
DamageInFirstBlock ==
  Ended /\ Ours /\ Full(sent.key) /\ Fits(sent.key) => RightBehindFirstBlock

\* A key that does not come back as it was is refused, and never decyphers the
\* text to something else, as long as it is below the modulus.
RefusedOrRight ==
  Ended /\ Ours /\ Fits(sent.key) => pc = "thrown" \/ RightBehindFirstBlock

\* decrypt() never reads behind the end of the text, whatever it is given.
ReadsWithin == pin <= Len(cmsg)
=============================================================================
