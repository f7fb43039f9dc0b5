---------------------------- MODULE DataSection ----------------------------
(***************************************************************************)
(* The data section of a database file and the three ways to walk it:      *)
(* decode materializes a value, skip steps over one, seek finds the value  *)
(* at a path.                                                              *)
(*                                                                         *)
(* The section is a sequence of cells, at the offsets 0, 1, ...  A cell is *)
(* a control byte with the type and size bytes that belong to it, and what *)
(* of the payload fits: a scalar takes `size` more cells.  Any offset may  *)
(* be read as the start of a value, also one in the middle of another.  A  *)
(* string is the sequence of the words of its cells.  The type "broken"    *)
(* stands for what decode rejects and skip steps over: unknown types and   *)
(* scalars of a size that their type does not allow.                       *)
(*                                                                         *)
(* Decoded values are pairs of a tag and a content.  The recursion of the  *)
(* code stops at a depth, so it is written level by level: a function that *)
(* reads values with so many levels left, from the one with a level less.  *)
(***************************************************************************)
EXTENDS Integers, Sequences

CONSTANTS
    MaxDepth,   \* maxDecodeDepth, 64
    WindowSize  \* recordWindow, the cells read up front in file mode

ASSUME SectionAssumption == MaxDepth \in Nat /\ WindowSize \in Nat

Nil == <<"nil", 0>>
Missing == <<"missing", 0>>  \* the two-value results' `false`
Error == <<"error", 0>>

(* A pointer leads to an offset; the type "broken" is described above. *)
CellTypes == {"pointer", "map", "array", "string", "bytes", "bool", "uint", "int",
              "float", "container", "broken"}
Cells == {c \in [type : CellTypes, size : Nat, num : Int, word : STRING] :
             c.type = "pointer" => c.num >= 0}
Sections == Seq(Cells)

NoOffset == -1  \* the offset after a value that cannot be read
Places == Nat \cup {NoOffset}

-----------------------------------------------------------------------------
(* A source gives out cells: those in memory or in the file, or a window of
   them with the file to fall back on (buf is empty without a window). *)
memSource(data) == [data |-> data, base |-> 0, buf |-> <<>>]

(* The window is what the file holds from off on, at most WindowSize of it. *)
readerSource(data, off) ==
    IF off >= Len(data) THEN memSource(data)
    ELSE [data |-> data, base |-> off,
          buf |-> SubSeq(data, off + 1,
                         IF off + WindowSize < Len(data) THEN off + WindowSize
                                                         ELSE Len(data))]

(* Whether n cells at off can be read at all: from the window, else from the
   file.  Where they cannot, at returns an error. *)
InWindow(src, off, n) == off - src.base >= 0 /\ off - src.base + n <= Len(src.buf)
Readable(src, off, n) == InWindow(src, off, n) \/ (off >= 0 /\ off + n <= Len(src.data))

at(src, off, n) ==
    IF InWindow(src, off, n)
    THEN SubSeq(src.buf, off - src.base + 1, off - src.base + n)
    ELSE SubSeq(src.data, off + 1, off + n)

(* decodePointer's target, relative to the section; a pointer is one cell. *)
PointerTarget(cell) == cell.num

Result(value, next) == [value |-> value, next |-> next]
Failure == Result(Error, NoOffset)
Failed(r) == r.value = Error

(* Where values that follow each other start: step leads from one to the
   next. *)
Run(step, start) ==
    LET run[k \in Nat] == IF k = 0 THEN start ELSE step[run[k - 1]] IN run

Starts(read, off) == Run([o \in Places |-> read[o].next], off)

-----------------------------------------------------------------------------
Scalar(cell, payload) ==
    CASE cell.type \in {"string", "bytes"} ->
            <<cell.type, <<cell.word>> \o [j \in DOMAIN payload |-> payload[j].word]>>
      [] cell.type \in {"uint", "int", "float"} -> <<cell.type, cell.num>>

(* out[key] = value for each pair of items, a key and its value: a key that
   comes twice keeps its last value.  A map is the function from its keys. *)
MapOfItems(items, size) ==
    LET Key(k) == items[2 * k].value[2]
        Last(key) == CHOOSE k \in 0..(size - 1) :
                        Key(k) = key /\ \A l \in (k + 1)..(size - 1) : Key(l) # key
    IN [key \in {Key(k) : k \in 0..(size - 1)} |-> items[2 * Last(key) + 1].value]

decodeMap(read, off, size) ==
    LET starts == Starts(read, off)
        items == [k \in 0..(2 * size - 1) |-> read[starts[k]]]
    IN IF \E k \in 0..(size - 1) : \/ Failed(items[2 * k])
                                   \/ items[2 * k].value[1] # "string"
                                   \/ Failed(items[2 * k + 1])
       THEN Failure
       ELSE Result(<<"map", MapOfItems(items, size)>>, starts[2 * size])

decodeArray(read, off, size) ==
    LET starts == Starts(read, off)
        items == [k \in 0..(size - 1) |-> read[starts[k]]]
    IN IF \E k \in 0..(size - 1) : Failed(items[k]) THEN Failure
       ELSE Result(<<"array", [k \in 1..size |-> items[k - 1].value]>>, starts[size])

(* The value at off and the offset of the next one, where `read` decodes the
   values one level deeper. *)
DecodeOne(src, read, off) ==
    LET cell == at(src, off, 1)[1]
        next == off + 1
    IN IF ~Readable(src, off, 1) THEN Failure
       ELSE CASE cell.type = "pointer" -> Result(read[PointerTarget(cell)].value, next)
              [] cell.type = "bool" -> Result(<<"bool", cell.size # 0>>, next)
              [] cell.type = "container" -> Result(Nil, next)
              [] cell.type = "map" -> decodeMap(read, next, cell.size)
              [] cell.type = "array" -> decodeArray(read, next, cell.size)
              [] cell.type = "broken" -> Failure
              [] OTHER -> IF ~Readable(src, next, cell.size) THEN Failure
                          ELSE Result(Scalar(cell, at(src, next, cell.size)),
                                      next + cell.size)

(* Nothing is decoded beyond MaxDepth, where no level is left. *)
Decoder(src) ==
    LET decoder[left \in Nat] ==
            IF left = 0 THEN [off \in Places |-> Failure]
            ELSE [off \in Places |-> DecodeOne(src, decoder[left - 1], off)]
    IN decoder

LevelsAt(depth) == MaxDepth + 1 - depth
decode(src, off, depth) == Decoder(src)[LevelsAt(depth)][off]

-----------------------------------------------------------------------------
SkipBoolPayload(src, jump, off) ==  \* as a bug: a payload after a boolean
    LET cell == at(src, off, 1)[1]
    IN IF ~Readable(src, off, 1) THEN NoOffset
       ELSE CASE cell.type \in {"pointer", "container"} -> off + 1
              [] cell.type = "map" -> Run(jump, off + 1)[2 * cell.size]
              [] cell.type = "array" -> Run(jump, off + 1)[cell.size]
              [] OTHER -> off + 1 + cell.size

(* The offset just past the value at off: a pointer is not followed, and a
   payload is not read. *)
SkipOne(src, jump, off) ==
    LET cell == at(src, off, 1)[1]
    IN IF ~Readable(src, off, 1) THEN NoOffset
       ELSE CASE cell.type \in {"pointer", "bool", "container"} -> off + 1
              [] cell.type = "map" -> Run(jump, off + 1)[2 * cell.size]
              [] cell.type = "array" -> Run(jump, off + 1)[cell.size]
              [] OTHER -> off + 1 + cell.size

Skipper(src) ==
    LET skipper[left \in Nat] ==
            IF left = 0 THEN [off \in Places |-> NoOffset]
            ELSE [off \in Places |-> SkipOne(src, skipper[left - 1], off)]
    IN skipper

-----------------------------------------------------------------------------
(* The loop over the keys of a map, each of which `read` decodes.  It skips
   the values of the keys that do not match, and stops at the first that
   matches or that cannot be read. *)
seekKey(read, jump, off, size, name) ==
    LET starts == Run([o \in Places |-> IF Failed(read[o]) THEN NoOffset
                                        ELSE jump[read[o].next]], off)
        keys == [k \in 0..(size - 1) |-> read[starts[k]]]
        Bad(k) == Failed(keys[k]) \/ keys[k].value[1] # "string"
        Stop(k) == Bad(k) \/ keys[k].value[2] = name
    IN IF \A k \in 0..(size - 1) : ~Stop(k)
       THEN IF starts[size] = NoOffset THEN Error ELSE Missing
       ELSE LET k == CHOOSE k \in 0..(size - 1) : Stop(k) /\ \A l \in 0..(k - 1) : ~Stop(l)
            IN IF Bad(k) THEN Error ELSE <<"offset", keys[k].next>>

(* The offset of the value at a path, below the value at off, after j parts of
   the path; `find` seeks one level deeper. *)
SeekOne(src, path, left, find, off, j) ==
    LET cell == at(src, off, 1)[1]
        entry == seekKey(Decoder(src)[left], Skipper(src)[left],
                         off + 1, cell.size, path[j + 1])
    IN IF j = Len(path) THEN <<"offset", off>>
       ELSE IF ~Readable(src, off, 1) THEN Error
       ELSE CASE cell.type = "pointer" -> find[PointerTarget(cell)][j]
              [] cell.type = "map" -> IF entry[1] = "offset" THEN find[entry[2]][j + 1]
                                      ELSE entry
              [] OTHER -> Missing

SeekFrom(src, path, left, find, off) ==
    [j \in 0..Len(path) |-> SeekOne(src, path, left, find, off, j)]

Seeker(src, path) ==
    LET seeker[left \in Nat] ==
            IF left = 0 THEN [off \in Places |-> [j \in 0..Len(path) |-> Error]]
            ELSE [off \in Places |->
                     SeekFrom(src, path, left - 1, seeker[left - 1], off)]
    IN seeker

seek(src, off, path) == Seeker(src, path)[LevelsAt(0)][off][0]

-----------------------------------------------------------------------------
(* m[part], where m is a map that has it. *)
Into(m, part) ==
    IF m[1] # "map" THEN Missing
    ELSE IF part \in DOMAIN m[2] THEN m[2][part] ELSE Missing

(* A path through nested maps of a decoded value, part by part; nil at its end
   is nothing. *)
Walk(record, path) ==
    LET reached[j \in Nat] ==
            IF j = 0 THEN record ELSE Into(reached[j - 1], path[j])
    IN reached

resolvePath(record, path) ==
    LET end == Walk(record, path)[Len(path)] IN IF end = Nil THEN Missing ELSE end

Source(data, off, inMemory) ==
    IF inMemory THEN memSource(data) ELSE readerSource(data, off)

(* Reader.lookupRecordAt and Reader.Value: the two strategies. *)
lookupRecordAt(data, off, inMemory) ==
    decode(Source(data, off, inMemory), off, 0).value

FoundValue(src, target) ==
    IF target[1] = "offset" THEN decode(src, target[2], 0).value ELSE target

Value(data, off, path, inMemory) ==
    LET src == Source(data, off, inMemory) IN FoundValue(src, seek(src, off, path))

(* mmdbRecord.value: every failure is a missing value, where no path leads on. *)
UnlessFailed(result) == IF result = Error THEN Missing ELSE result

value(data, off, path, seekOnly, inMemory) ==
    IF seekOnly THEN UnlessFailed(Value(data, off, path, inMemory))
    ELSE resolvePath(UnlessFailed(lookupRecordAt(data, off, inMemory)), path)
=============================================================================
