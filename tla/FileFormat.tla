----------------------------- MODULE FileFormat -----------------------------
(***************************************************************************)
(* The numbers of a database file: which metadata readMetadata accepts,    *)
(* the two records packed into a node (readNode), the sizes and pointers   *)
(* of the data section (decodeSize, decodePointer), and integers.          *)
(*                                                                         *)
(* Bytes are numbers below 256 and b[1] is the first of them.  What a      *)
(* writer of the format puts there (the Encoded operators) is the MaxMind  *)
(* DB format itself, which the code refers to.                             *)
(***************************************************************************)
EXTENDS Integers

Byte == 0..255
Big2(x, y) == x * 256 + y
Big3(x, y, z) == Big2(x, y) * 256 + z
Big4(w, x, y, z) == Big3(w, x, y) * 256 + z

-----------------------------------------------------------------------------
(* readMetadata: what it derives and what it rejects. *)
nodeSize(meta) == (meta.recordSize * 2) \div 8
treeSize(meta) == meta.nodeCount * nodeSize(meta)
dataBase(meta) == treeSize(meta) + 16

Metadata == [recordSize : Nat, nodeCount : Nat, ipVersion : Nat,
             majorVersion : Nat]

Accepted(meta, total) ==
    /\ meta.recordSize \in {24, 28, 32}
    /\ meta.nodeCount # 0
    /\ meta.ipVersion \in {4, 6}
    /\ meta.majorVersion = 2
    /\ dataBase(meta) <= total

(* The bytes of the file that readNode asks for: from, and up to before. *)
NodeFrom(meta, node) == node * nodeSize(meta)
NodeTo(meta, node) == NodeFrom(meta, node) + nodeSize(meta)

(* readNode: in 28-bit records the middle byte has four bits of each. *)
Left(recordSize, b) ==
    CASE recordSize = 24 -> Big3(b[1], b[2], b[3])
      [] recordSize = 28 -> (b[4] \div 16) * 16777216 + Big3(b[1], b[2], b[3])
      [] recordSize = 32 -> Big4(b[1], b[2], b[3], b[4])

Right(recordSize, b) ==
    CASE recordSize = 24 -> Big3(b[4], b[5], b[6])
      [] recordSize = 28 -> (b[4] % 16) * 16777216 + Big3(b[5], b[6], b[7])
      [] recordSize = 32 -> Big4(b[5], b[6], b[7], b[8])

-----------------------------------------------------------------------------
(* decodeSize: the five bits of the control byte, and the bytes after it. *)
decodeSize(size, b) ==
    CASE size < 29 -> size
      [] size = 29 -> 29 + b[1]
      [] size = 30 -> 285 + Big2(b[1], b[2])
      [] size = 31 -> 65821 + Big3(b[1], b[2], b[3])

(* decodePointer: a control byte of 001SSVVV and SS + 1 more bytes; VVV are
   the high bits of all but the longest form. *)
decodePointer(ctrl, b) ==
    LET pointerSize == ((ctrl \div 8) % 4) + 1
        prefix == ctrl % 8
    IN CASE pointerSize = 1 -> Big2(prefix, b[1])
         [] pointerSize = 2 -> 2048 + Big3(prefix, b[1], b[2])
         [] pointerSize = 3 -> 526336 + Big4(prefix, b[1], b[2], b[3])
         [] pointerSize = 4 -> Big4(b[1], b[2], b[3], b[4])

(* int64(int32(v)) of the unsigned number that readUint returned. *)
int32(v) ==
    LET low == v % 4294967296
    IN IF low < 2147483648 THEN low ELSE low - 4294967296

-----------------------------------------------------------------------------
(* What a writer of the format puts into the file. *)
Low(v) == v % 256
Mid(v) == (v \div 256) % 256
High(v) == (v \div 65536) % 256
Top(v) == v \div 16777216

EncodedNode(recordSize, l, r) ==
    CASE recordSize = 24 -> <<High(l), Mid(l), Low(l), High(r), Mid(r), Low(r)>>
      [] recordSize = 28 -> <<High(l), Mid(l), Low(l), Top(l) * 16 + Top(r),
                              High(r), Mid(r), Low(r)>>
      [] recordSize = 32 -> <<Top(l), High(l), Mid(l), Low(l),
                              Top(r), High(r), Mid(r), Low(r)>>

(* The size bits of the control byte with the bytes that follow it. *)
EncodedSize(n) ==
    CASE n < 29 -> [bits |-> n, bytes |-> <<>>]
      [] n >= 29 /\ n < 285 -> [bits |-> 29, bytes |-> <<n - 29>>]
      [] n >= 285 /\ n < 65821 -> [bits |-> 30, bytes |-> <<Mid(n - 285), Low(n - 285)>>]
      [] n >= 65821 -> [bits |-> 31, bytes |-> <<High(n - 65821), Mid(n - 65821),
                                                Low(n - 65821)>>]

(* The control byte of a pointer with the bytes that follow it. *)
EncodedPointer(n) ==
    CASE n < 2048 -> [ctrl |-> 32 + n \div 256, bytes |-> <<Low(n)>>]
      [] n >= 2048 /\ n < 526336 ->
            LET m == n - 2048
            IN [ctrl |-> 40 + m \div 65536, bytes |-> <<Mid(m), Low(m)>>]
      [] n >= 526336 /\ n < 134744064 ->
            LET m == n - 526336
            IN [ctrl |-> 48 + Top(m), bytes |-> <<High(m), Mid(m), Low(m)>>]
      [] n >= 134744064 -> [ctrl |-> 56, bytes |-> <<Top(n), High(n), Mid(n), Low(n)>>]
=============================================================================
