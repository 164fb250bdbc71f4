---------------------------- MODULE WebSocketFrame ----------------------------
(***************************************************************************)
(* RequestTypes/WebSocket.cpp: the frames a page sends (SendStatic) and    *)
(* receives (Decode), as bytes; and what the browser at the other end does *)
(* with frames, which is not the server's code.                            *)
(***************************************************************************)
EXTENDS Integers, Sequences, SequencesExt

CONSTANT MAX_WS_PACKET

(* Bytes, bit by bit: char ^ char.                                         *)
Byte == 0 .. 255

Xor(a, b) ==
  LET bit(v, n) == (v \div n) % 2
      sum(n)    == n * ((bit(a, n) + bit(b, n)) % 2)
  IN  sum(1) + sum(2) + sum(4) + sum(8) + sum(16) + sum(32) + sum(64) + sum(128)

(* An unsigned long long.                                                  *)
Long(n) == n \in Nat /\ ((n \div 65536) \div 65536) \div 65536 < 65536

(* The k bytes of an integer in memory, the lowest first.                  *)
LowFirst(n, k) ==
  LET rest[i \in 1 .. k] == IF i = 1 THEN n ELSE rest[i - 1] \div 256
  IN  [i \in 1 .. k |-> rest[i] % 256]

(* The integer these bytes are, or one above the greatest length allowed.  *)
FromMemory(bytes) ==
  FoldRight(LAMBDA b, n : IF n > MAX_WS_PACKET THEN n ELSE 256 * n + b, bytes, 0)

(* SendStatic: what goes out before sz bytes of data.                      *)
SendStatic(sz) ==
  <<129>> \o (IF sz <= 125 THEN <<sz>>
              ELSE IF sz <= 65535 THEN <<126>> \o Reverse(LowFirst(sz, 2))
              ELSE <<127>> \o Reverse(LowFirst(sz, 8)))

(* Decode: what has arrived has a 0 behind it, which sz counts.  Lengths   *)
(* of two and of eight bytes are read as they stand in memory.             *)
PacketSize(data) ==
  LET sz_v == data[2] - 128
  IN  IF sz_v <= 125 THEN sz_v
      ELSE FromMemory(SubSeq(data, 3, IF sz_v = 126 THEN 4 ELSE 10))

KeyOffset(data) == IF data[2] - 128 <= 125 THEN 2 ELSE IF data[2] - 128 = 126 THEN 4 ELSE 10

Unmask_OneKey(data, off, n) == [i \in 1 .. n |-> Xor(data[off + 4 + i], data[off + 1])]

Unmask(data, off, n) == [i \in 1 .. n |-> Xor(data[off + 4 + i], data[off + ((i - 1) % 4) + 1])]

Bad     == [type |-> "WS_BAD_PACKET", data |-> <<>>]
NotFull == [type |-> "WS_NOTFULL_PACKET", data |-> <<>>]

Decode(received) ==
  LET data == Append(received, 0)
      sz   == Len(data)
      got  == sz - KeyOffset(data) - 4
  IN  IF sz < 7 \/ data[1] < 128 \/ data[2] < 128 THEN Bad
      ELSE IF PacketSize(data) = 0 \/ PacketSize(data) > MAX_WS_PACKET THEN Bad
      ELSE IF PacketSize(data) # got THEN NotFull
      ELSE [type |-> "WS_DATA_PACKET", data |-> Unmask(data, KeyOffset(data), got)]

-----------------------------------------------------------------------------
(* A masked frame of a browser, and how a browser reads the length of one  *)
(* of the server's.                                                        *)
Frame(data, key) ==
  <<129>> \o (IF Len(data) < 126 THEN <<128 + Len(data)>>
              ELSE <<254, Len(data) \div 256, Len(data) % 256>>)
    \o key \o [i \in DOMAIN data |-> Xor(data[i], key[((i - 1) % 4) + 1])]

BigEndian(bytes) == FoldLeft(LAMBDA n, b : 256 * n + b, 0, bytes)

FrameLength(b) == BigEndian(SubSeq(b, IF b[2] < 126 THEN 2 ELSE 3, Len(b)))
===============================================================================
