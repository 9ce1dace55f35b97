------------------------------- MODULE Sha256 -------------------------------
(***************************************************************************)
(* The streaming part of user/sha256.c, a byte a step: bytes are gathered  *)
(* into blocks of BLOCK bytes, a full block is compressed, and             *)
(* sha256_finalize pads with 0x80, zeros and LENGTH bytes of the bit       *)
(* count.  The chaining value is abstracted to the sequence of blocks      *)
(* compressed so far, so that two digests agree exactly when the           *)
(* compression function (Sha256Block) was fed the same blocks.             *)
(***************************************************************************)
EXTENDS Integers, Sequences

CONSTANTS BLOCK, LENGTH,      \* 64 and 8 in the code
          Bytes, MaxMessage   \* bound: the messages considered

ASSUME Sha256Assumption ==
  /\ BLOCK \in Nat /\ LENGTH \in Nat /\ 0 < LENGTH /\ LENGTH < BLOCK
  /\ Bytes \subseteq 0 .. 255

VARIABLES
  data, datalen, bitlen, state,   \* the context
  message,                        \* the bytes given to sha256_update so far
  n_bits, owed,                   \* sha256_finalize: the bit count, the bytes of it still to append
  phase                           \* "update", "zeros", "length", "done"

shaVars == <<data, datalen, bitlen, state, message, n_bits, owed, phase>>

sha256_append_byte(byte) ==
  LET filled == [data EXCEPT ![datalen] = byte]
      full == datalen + 1 = BLOCK
  IN /\ data' = filled
     /\ datalen' = IF full THEN 0 ELSE datalen + 1
     /\ bitlen' = bitlen + 8
     /\ state' = IF full THEN Append(state, filled) ELSE state

sha256_init ==
  /\ data = [o \in 0 .. BLOCK - 1 |-> 0]
  /\ datalen = 0
  /\ bitlen = 0
  /\ state = << >>
  /\ message = << >>
  /\ n_bits = 0 /\ owed = 0
  /\ phase = "update"

\* One round of the loop: nothing in the context tells where one call of
\* sha256_update ends and the next begins.
sha256_update(byte) ==
  /\ phase = "update"
  /\ Len(message) < MaxMessage
  /\ sha256_append_byte(byte)
  /\ message' = Append(message, byte)
  /\ UNCHANGED <<n_bits, owed, phase>>

\* Mutant: n_bits is taken after the byte 0x80.
sha256_finalLate ==
  /\ phase = "update"
  /\ sha256_append_byte(128)
  /\ n_bits' = bitlen'
  /\ phase' = "zeros"
  /\ UNCHANGED <<message, owed>>

\* n_bits is taken before the padding moves bitlen.
sha256_final ==
  /\ phase = "update"
  /\ sha256_append_byte(128)
  /\ n_bits' = bitlen
  /\ phase' = "zeros"
  /\ UNCHANGED <<message, owed>>

ZeroPad ==
  /\ phase = "zeros"
  /\ \/ datalen # BLOCK - LENGTH /\ sha256_append_byte(0) /\ UNCHANGED <<owed, phase>>
     \/ datalen = BLOCK - LENGTH /\ owed' = LENGTH /\ phase' = "length" /\ UNCHANGED <<data, datalen, bitlen, state>>
  /\ UNCHANGED <<message, n_bits>>

\* Byte k of a bit count, from the least significant one.
CountByte(bits, k) == (bits \div 256 ^ k) % 256

AppendLength ==
  /\ phase = "length"
  /\ sha256_append_byte(CountByte(n_bits, owed - 1))
  /\ owed' = owed - 1
  /\ phase' = IF owed = 1 THEN "done" ELSE "length"
  /\ UNCHANGED <<message, n_bits>>

ShaNext == (\E byte \in Bytes : sha256_update(byte)) \/ sha256_final \/ ZeroPad \/ AppendLength

ShaSpec == sha256_init /\ [][ShaNext]_shaVars

-----------------------------------------------------------------------------
\* FIPS 180-4, 5.1.1: byte k, from 0, of a message padded to total bytes.
Padded(msg, total, k) ==
  IF k < Len(msg) THEN msg[k + 1]
  ELSE IF k = Len(msg) THEN 128
  ELSE IF k < total - LENGTH THEN 0
  ELSE CountByte(8 * Len(msg), total - 1 - k)

\* sha256_final: the compression function sees the message padded to the least
\* number of blocks that hold it, each block once and in order, wherever a block
\* ends in the message or in its padding.
DigestOfMessage ==
  phase = "done" =>
    LET total == BLOCK * Len(state)
        least == Len(message) + 1 + LENGTH
    IN /\ datalen = 0 /\ least <= total /\ total < least + BLOCK
       /\ \A b \in DOMAIN state : \A o \in 0 .. BLOCK - 1 :
            state[b][o] = Padded(message, total, BLOCK * (b - 1) + o)
=============================================================================
