------------------------------- MODULE Cipher -------------------------------
(***************************************************************************)
(* The byte cipher of the Orion frames.  A byte is the set of its 1 bits,  *)
(* so that XOR is the symmetric difference.  The sender combines the       *)
(* global key and a message key; the receiver knows its own global key     *)
(* and takes the message key from the frame.                               *)
(***************************************************************************)

Bits == {0, 1, 2, 3, 4, 5, 6, 7}
Byte == SUBSET Bits

Xor(a, b) == (a \ b) \cup (b \ a)

\* The first payload byte of an encrypted frame, and each byte after it.
KeyXor(global, message) == Xor(global, message)
Encrypt(byte, message)  == Xor(byte, message)

\* The receiver's side.
MessageKey(keyXor, global) == Xor(keyXor, global)
Decrypt(byte, message)     == Xor(byte, message)

\* What a receiver with key "mine" reads of a byte sent under "global" and "message".
Received(byte, global, message, mine) ==
    Decrypt(Encrypt(byte, message), MessageKey(KeyXor(global, message), mine))
=============================================================================
