------------------------------- MODULE VoxCrypt -------------------------------
(***************************************************************************)
(* Ext/voxcrypt.h: Base64.  Bytes are numbers; a character of the alphabet *)
(* is its place in it, Pad stands for "=".                                 *)
(***************************************************************************)
EXTENDS Integers, Sequences, SequencesExt

Pad  == 64
npos == 255   \* what find returns for a character that is not in the alphabet,
              \* as the unsigned char it is stored in

(* Three bytes as four characters, and back; sums of bytes wrap around.    *)
Quad_Swapped(b) == <<b[1] \div 4, (b[1] % 4) * 16 + b[2] \div 16, (b[2] % 16) * 4 + (b[3] % 4), b[3] \div 4>>

Quad(b) == <<b[1] \div 4, (b[1] % 4) * 16 + b[2] \div 16, (b[2] % 16) * 4 + b[3] \div 64, b[3] % 64>>

Triple(q) ==
  << (q[1] * 4 + ((q[2] \div 16) % 4)) % 256,
     ((q[2] % 16) * 16 + ((q[3] \div 4) % 16)) % 256,
     ((q[3] % 4) * 64 + q[4]) % 256 >>

(* The groups of n, and what is left over.                                 *)
Groups(s, n) == [i \in 1 .. Len(s) \div n |-> SubSeq(s, n * (i - 1) + 1, n * i)]
Rest(s, n)   == SubSeq(s, n * (Len(s) \div n) + 1, Len(s))
Filled(s, n, c) == s \o [i \in 1 .. n - Len(s) |-> c]

Base64Encode(bytes) ==
  LET whole == Groups(bytes, 3)
      rest  == Rest(bytes, 3)
  IN  FlattenSeq([i \in DOMAIN whole |-> Quad(whole[i])])
        \o (IF rest = <<>> THEN <<>>
            ELSE Filled(SubSeq(Quad(Filled(rest, 3, 0)), 1, Len(rest) + 1), 4, Pad))

Base64Decode(text) ==
  LET stop  == SelectInSeq(text, LAMBDA c : c = Pad)
      chars == IF stop = 0 THEN text ELSE SubSeq(text, 1, stop - 1)
      whole == Groups(chars, 4)
      rest  == Rest(chars, 4)
  IN  FlattenSeq([i \in DOMAIN whole |-> Triple(whole[i])])
        \o (IF rest = <<>> THEN <<>> ELSE SubSeq(Triple(Filled(rest, 4, npos)), 1, Len(rest) - 1))
===============================================================================
