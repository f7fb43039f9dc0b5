--------------------------- MODULE DatabaseProofs ---------------------------
(***************************************************************************)
(* Proofs about the database file, from its bytes to the fields: the       *)
(* numbers of the format come back as they were written; the walk of the   *)
(* tree is a longest prefix match; seeking a field and decoding its record *)
(* whole give the same text, from memory and through a window; and a flag  *)
(* keeps its meaning whichever way booleans are written.                   *)
(*                                                                         *)
(* What is recursive in the model is a function of the number of levels,   *)
(* which an instance of Recursion unfolds; what holds for every number of  *)
(* levels, items, keys or parts is proved by induction over that number.   *)
(***************************************************************************)
EXTENDS DatabaseRecord, FileFormat, SequenceTheorems, TLAPS

-----------------------------------------------------------------------------
(* Recursive functions, each the first value and the step from one to the next. *)

(* Records nest at least one level. *)
LEMMA NestingNat == Nesting \in Nat /\ Nesting - 1 \in Nat
BY SectionAssumption DEF Nesting, LevelsAt

RunBase(c) == c[2]
RunStep(c, before, n) ==
    c[1][before]
RunRec == INSTANCE Recursion WITH Base <- RunBase, Step <- RunStep

(* Values that follow each other start where the step from the one before
   leads. *)
LEMMA RunSteps ==
    ASSUME NEW step, NEW start
    PROVE  /\ Run(step, start)[0] = start
           /\ \A n \in Nat : Run(step, start)[n + 1] = step[Run(step, start)[n]]
<1> DEFINE c == <<step, start>>
           g == Run(step, start)
<1>1. g = CHOOSE x : x = [n \in Nat |-> IF n = 0 THEN RunBase(c)
                                      ELSE RunStep(c, x[n - 1], n)]
  BY DEF Run, RunBase, RunStep
<1> HIDE DEF c, g
<1>2. g[0] = RunBase(c) /\ \A n \in Nat : g[n + 1] = RunStep(c, g[n], n + 1)
  BY <1>1, RunRec!RecursionSteps
<1> QED BY <1>2 DEF RunBase, RunStep, c, g

DecoderBase(c) == [off \in Places |-> Failure]
DecoderStep(c, before, n) ==
    [off \in Places |-> DecodeOne(c[1], before, off)]
DecoderRec == INSTANCE Recursion WITH Base <- DecoderBase, Step <- DecoderStep

(* With a level more, values are decoded from what is decoded with the level
   less. *)
LEMMA DecoderSteps ==
    ASSUME NEW src
    PROVE  /\ Decoder(src)[0] = [off \in Places |-> Failure]
           /\ \A n \in Nat : Decoder(src)[n + 1]
                 = [off \in Places |-> DecodeOne(src, Decoder(src)[n], off)]
<1> DEFINE c == <<src>>
           g == Decoder(src)
<1>1. g = CHOOSE x : x = [n \in Nat |-> IF n = 0 THEN DecoderBase(c)
                                      ELSE DecoderStep(c, x[n - 1], n)]
  BY DEF Decoder, DecoderBase, DecoderStep
<1> HIDE DEF c, g
<1>2. g[0] = DecoderBase(c) /\ \A n \in Nat : g[n + 1] = DecoderStep(c, g[n], n + 1)
  BY <1>1, DecoderRec!RecursionSteps
<1> QED BY <1>2 DEF DecoderBase, DecoderStep, c, g

SkipperBase(c) == [off \in Places |-> NoOffset]
SkipperStep(c, before, n) ==
    [off \in Places |-> SkipOne(c[1], before, off)]
SkipperRec == INSTANCE Recursion WITH Base <- SkipperBase, Step <- SkipperStep

(* The same for skipping ... *)
LEMMA SkipperSteps ==
    ASSUME NEW src
    PROVE  /\ Skipper(src)[0] = [off \in Places |-> NoOffset]
           /\ \A n \in Nat : Skipper(src)[n + 1]
                 = [off \in Places |-> SkipOne(src, Skipper(src)[n], off)]
<1> DEFINE c == <<src>>
           g == Skipper(src)
<1>1. g = CHOOSE x : x = [n \in Nat |-> IF n = 0 THEN SkipperBase(c)
                                      ELSE SkipperStep(c, x[n - 1], n)]
  BY DEF Skipper, SkipperBase, SkipperStep
<1> HIDE DEF c, g
<1>2. g[0] = SkipperBase(c) /\ \A n \in Nat : g[n + 1] = SkipperStep(c, g[n], n + 1)
  BY <1>1, SkipperRec!RecursionSteps
<1> QED BY <1>2 DEF SkipperBase, SkipperStep, c, g

SeekerBase(c) == [off \in Places |-> [j \in 0..Len(c[2]) |-> Error]]
SeekerStep(c, before, n) ==
    [off \in Places |-> SeekFrom(c[1], c[2], n - 1, before, off)]
SeekerRec == INSTANCE Recursion WITH Base <- SeekerBase, Step <- SeekerStep

(* ... and seeking, ... *)
LEMMA SeekerRun ==
    ASSUME NEW src, NEW path
    PROVE  /\ Seeker(src, path)[0] = SeekerBase(<<src, path>>)
           /\ \A n \in Nat : Seeker(src, path)[n + 1]
                 = SeekerStep(<<src, path>>, Seeker(src, path)[n], n + 1)
<1> DEFINE c == <<src, path>>
           g == Seeker(src, path)
<1>1. g = CHOOSE x : x = [n \in Nat |-> IF n = 0 THEN SeekerBase(c)
                                      ELSE SeekerStep(c, x[n - 1], n)]
  BY DEF Seeker, SeekerBase, SeekerStep
<1> HIDE DEF c, g
<1>2. g[0] = SeekerBase(c) /\ \A n \in Nat : g[n + 1] = SeekerStep(c, g[n], n + 1)
  BY <1>1, SeekerRec!RecursionSteps
<1> QED BY <1>2 DEF c, g

(* ... which with no level left finds nothing ... *)
LEMMA SeekerZero ==
    ASSUME NEW src, NEW path, NEW off \in Places, NEW j \in 0..Len(path)
    PROVE  Seeker(src, path)[0][off][j] = Error
<1> DEFINE g == Seeker(src, path)
<1>1. g[0] = SeekerBase(<<src, path>>)
  BY SeekerRun
<1> HIDE DEF g
<1>2. g[0][off] = [m \in 0..Len(path) |-> Error]
  BY <1>1 DEF SeekerBase
<1> QED BY <1>2 DEF g

(* ... and otherwise does what one call of seek does. *)
LEMMA SeekerSteps ==
    ASSUME NEW src, NEW path, NEW n \in Nat
    PROVE  Seeker(src, path)[n + 1]
              = [off \in Places |-> SeekFrom(src, path, n, Seeker(src, path)[n], off)]
<1> DEFINE g == Seeker(src, path)
<1>1. g[n + 1] = SeekerStep(<<src, path>>, g[n], n + 1)
  BY SeekerRun
<1>2. (n + 1) - 1 = n
  OBVIOUS
<1> HIDE DEF g
<1> QED BY <1>1, <1>2 DEF SeekerStep, g

WalkBase(c) == c[1]
WalkStep(c, before, n) ==
    Into(before, c[2][n])
WalkRec == INSTANCE Recursion WITH Base <- WalkBase, Step <- WalkStep

(* A path is walked part by part. *)
LEMMA WalkSteps ==
    ASSUME NEW record, NEW path
    PROVE  /\ Walk(record, path)[0] = record
           /\ \A n \in Nat : Walk(record, path)[n + 1]
                 = Into(Walk(record, path)[n], path[n + 1])
<1> DEFINE c == <<record, path>>
           g == Walk(record, path)
<1>1. g = CHOOSE x : x = [n \in Nat |-> IF n = 0 THEN WalkBase(c)
                                      ELSE WalkStep(c, x[n - 1], n)]
  BY DEF Walk, WalkBase, WalkStep
<1> HIDE DEF c, g
<1>2. g[0] = WalkBase(c) /\ \A n \in Nat : g[n + 1] = WalkStep(c, g[n], n + 1)
  BY <1>1, WalkRec!RecursionSteps
<1> QED BY <1>2 DEF WalkBase, WalkStep, c, g

KeysDistinctBase(c) == [off \in Places |-> TRUE]
KeysDistinctStep(c, before, n) ==
    [off \in Places |-> DistinctOne(c[1], before, off)]
KeysDistinctRec ==
    INSTANCE Recursion WITH Base <- KeysDistinctBase, Step <- KeysDistinctStep

(* Distinct keys, level by level. *)
LEMMA KeysDistinctSteps ==
    ASSUME NEW data
    PROVE  /\ KeysDistinct(data)[0] = [off \in Places |-> TRUE]
           /\ \A n \in Nat : KeysDistinct(data)[n + 1]
                 = [off \in Places |-> DistinctOne(data, KeysDistinct(data)[n], off)]
<1> DEFINE c == <<data>>
           g == KeysDistinct(data)
<1>1. g = CHOOSE x : x = [n \in Nat |-> IF n = 0 THEN KeysDistinctBase(c)
                                      ELSE KeysDistinctStep(c, x[n - 1], n)]
  BY DEF KeysDistinct, KeysDistinctBase, KeysDistinctStep
<1> HIDE DEF c, g
<1>2. /\ g[0] = KeysDistinctBase(c)
      /\ \A n \in Nat : g[n + 1] = KeysDistinctStep(c, g[n], n + 1)
  BY <1>1, KeysDistinctRec!RecursionSteps
<1> QED BY <1>2 DEF KeysDistinctBase, KeysDistinctStep, c, g

JoinedBase(c) == <<>>
JoinedStep(c, before, n) ==
    JoinOne(before, c[2], c[1][n])
JoinedRec == INSTANCE Recursion WITH Base <- JoinedBase, Step <- JoinedStep

(* Texts are joined one by one. *)
LEMMA JoinedSteps ==
    ASSUME NEW texts, NEW separator
    PROVE  /\ Joined(texts, separator)[0] = <<>>
           /\ \A n \in Nat : Joined(texts, separator)[n + 1]
                 = JoinOne(Joined(texts, separator)[n], separator, texts[n + 1])
<1> DEFINE c == <<texts, separator>>
           g == Joined(texts, separator)
<1>1. g = CHOOSE x : x = [n \in Nat |-> IF n = 0 THEN JoinedBase(c)
                                      ELSE JoinedStep(c, x[n - 1], n)]
  BY DEF Joined, JoinedBase, JoinedStep
<1> HIDE DEF c, g
<1>2. g[0] = JoinedBase(c) /\ \A n \in Nat : g[n + 1] = JoinedStep(c, g[n], n + 1)
  BY <1>1, JoinedRec!RecursionSteps
<1> QED BY <1>2 DEF JoinedBase, JoinedStep, c, g

PartsBase(c) == {c[1]}
PartsStep(c, before, n) ==
    UNION {Inside(v) : v \in before}
PartsRec == INSTANCE Recursion WITH Base <- PartsBase, Step <- PartsStep

(* The parts of a value are what is inside the parts a level above. *)
LEMMA PartsSteps ==
    ASSUME NEW raw
    PROVE  /\ Parts(raw)[0] = {raw}
           /\ \A n \in Nat : Parts(raw)[n + 1]
                 = UNION {Inside(v) : v \in Parts(raw)[n]}
<1> DEFINE c == <<raw>>
           g == Parts(raw)
<1>1. g = CHOOSE x : x = [n \in Nat |-> IF n = 0 THEN PartsBase(c)
                                      ELSE PartsStep(c, x[n - 1], n)]
  BY DEF Parts, PartsBase, PartsStep
<1> HIDE DEF c, g
<1>2. g[0] = PartsBase(c) /\ \A n \in Nat : g[n + 1] = PartsStep(c, g[n], n + 1)
  BY <1>1, PartsRec!RecursionSteps
<1> QED BY <1>2 DEF PartsBase, PartsStep, c, g

TextsBase(c) == [v \in Parts(c[2])[Nesting] |-> [k \in {c[3], "string"} |-> <<>>]]
TextsStep(c, before, n) ==
    [v \in Parts(c[2])[Nesting - n] |-> FormatAs(c[1], before, v, {c[3], "string"})]
TextsRec == INSTANCE Recursion WITH Base <- TextsBase, Step <- TextsStep

(* The texts of parts with a level more, from those with the level less. *)
LEMMA TextsRun ==
    ASSUME NEW f, NEW raw, NEW kind
    PROVE  /\ Texts(f, raw, kind)[0] = TextsBase(<<f, raw, kind>>)
           /\ \A n \in Nat : Texts(f, raw, kind)[n + 1]
                 = TextsStep(<<f, raw, kind>>, Texts(f, raw, kind)[n], n + 1)
<1> DEFINE c == <<f, raw, kind>>
           g == Texts(f, raw, kind)
<1>1. g = CHOOSE x : x = [n \in Nat |-> IF n = 0 THEN TextsBase(c)
                                      ELSE TextsStep(c, x[n - 1], n)]
  BY DEF Texts, TextsBase, TextsStep
<1> HIDE DEF c, g
<1>2. g[0] = TextsBase(c) /\ \A n \in Nat : g[n + 1] = TextsStep(c, g[n], n + 1)
  BY <1>1, TextsRec!RecursionSteps
<1> QED BY <1>2 DEF c, g

(* Parts that nest deeper than every record have no text. *)
LEMMA TextsZero ==
    ASSUME NEW f, NEW raw, NEW kind,
           NEW v \in Parts(raw)[Nesting], NEW k \in {kind, "string"}
    PROVE  Texts(f, raw, kind)[0][v][k] = <<>>
<1> DEFINE g == Texts(f, raw, kind)
<1>1. g[0] = TextsBase(<<f, raw, kind>>)
  BY TextsRun
<1> HIDE DEF g
<1>2. g[0][v] = [m \in {kind, "string"} |-> <<>>]
  BY <1>1 DEF TextsBase
<1> QED BY <1>2 DEF g

(* The others have the texts made from those of their parts. *)
LEMMA TextsSteps ==
    ASSUME NEW f, NEW raw, NEW kind, NEW n \in Nat,
           NEW v \in Parts(raw)[Nesting - (n + 1)], NEW k \in {kind, "string"}
    PROVE  Texts(f, raw, kind)[n + 1][v][k] = FormatOne(f, Texts(f, raw, kind)[n], v, k)
<1> DEFINE g == Texts(f, raw, kind)
<1>1. g[n + 1] = TextsStep(<<f, raw, kind>>, g[n], n + 1)
  BY TextsRun
<1> HIDE DEF g
<1>2. g[n + 1][v] = FormatAs(f, g[n], v, {kind, "string"})
  BY <1>1 DEF TextsStep
<1> QED BY <1>2 DEF FormatAs, g

-----------------------------------------------------------------------------
(* Reading cells: from memory, or through a window of the file. *)

(* Induction over the numbers, for a set of them. *)
LEMMA Induction ==
    ASSUME NEW S, 0 \in S, \A n \in Nat : n \in S => n + 1 \in S
    PROVE  Nat \subseteq S
BY RunRec!SetInduction

(* A set of numbers has a least one ... *)
LEMMA Least ==
    ASSUME NEW T, T \subseteq Nat, T # {}
    PROVE  \E x \in T : \A y \in T : x <= y
BY RunRec!LeastNumber

(* ... and a greatest one, when it is bounded. *)
LEMMA Greatest ==
    ASSUME NEW T, NEW m \in Nat, T \subseteq 0..m, T # {}
    PROVE  \E x \in T : \A y \in T : y <= x
<1> DEFINE U == {u \in 0..m : m - u \in T}
<1>1. U \subseteq Nat /\ U # {}
  <2>1. PICK x \in T : TRUE
    OBVIOUS
  <2>2. x \in 0..m /\ m - x \in 0..m /\ m - (m - x) = x
    OBVIOUS
  <2> QED BY <2>1, <2>2
<1>2. PICK u \in U : \A y \in U : u <= y
  BY <1>1, Least
<1>3. ASSUME NEW y \in T PROVE y <= m - u
  <2>1. y \in 0..m /\ m - y \in 0..m /\ m - (m - y) = y
    OBVIOUS
  <2>2. m - y \in U
    BY <2>1
  <2>3. u \in 0..m /\ u <= m - y
    BY <1>2, <2>2
  <2> QED BY <2>1, <2>3
<1> QED BY <1>3

-----------------------------------------------------------------------------
(* A source that reads as the data in memory does. *)
ReadsAs(src, data) ==
    \A o \in Places, n \in Nat :
        /\ Readable(src, o, n) <=> o >= 0 /\ o + n <= Len(data)
        /\ Readable(src, o, n) => at(src, o, n) = SubSeq(data, o + 1, o + n)

(* Every offset is a place, and so is the lack of one. *)
LEMMA PlaceInt == Places \subseteq Int /\ NoOffset \in Places /\ Nat \subseteq Places
BY DEF Places, NoOffset

(* The section in memory is read as it is ... *)
LEMMA MemoryReads == ASSUME NEW data \in Sections PROVE ReadsAs(memSource(data), data)
<1> SUFFICES ASSUME NEW o \in Places, NEW n \in Nat
             PROVE  LET src == memSource(data)
                    IN /\ Readable(src, o, n) <=> o >= 0 /\ o + n <= Len(data)
                       /\ Readable(src, o, n) => at(src, o, n) = SubSeq(data, o + 1, o + n)
  BY DEF ReadsAs
<1> DEFINE src == memSource(data)
<1>1. data \in Seq(Cells) /\ Len(data) \in Nat /\ o \in Int
  BY PlaceInt DEF Sections
<1>2. src.data = data /\ src.base = 0 /\ src.buf = <<>> /\ Len(src.buf) = 0
  BY DEF memSource
<1> HIDE DEF src
<1>3. InWindow(src, o, n) <=> o = 0 /\ n = 0
  BY <1>1, <1>2 DEF InWindow
<1>4. Readable(src, o, n) <=> o >= 0 /\ o + n <= Len(data)
  BY <1>1, <1>2, <1>3 DEF Readable
<1>5. CASE InWindow(src, o, n)
  <2>1. at(src, o, n) = SubSeq(src.buf, 1, 0)
    BY <1>1, <1>2, <1>3, <1>5 DEF at
  <2>2. SubSeq(src.buf, 1, 0) = <<>> /\ SubSeq(data, 1, 0) = <<>>
    BY <1>1, <1>2, SubSeqEmpty
  <2> QED BY <1>3, <1>4, <1>5, <2>1, <2>2 DEF src
<1>6. CASE ~InWindow(src, o, n)
  BY <1>2, <1>4, <1>6 DEF at, src
<1> QED BY <1>5, <1>6

(* ... and so is the file through a window that starts at any offset: what is
   not in the window is read from the file. *)
LEMMA WindowReads ==
    ASSUME NEW data \in Sections, NEW off \in Nat
    PROVE  ReadsAs(readerSource(data, off), data)
<1>1. data \in Seq(Cells) /\ Len(data) \in Nat /\ WindowSize \in Nat
  BY SectionAssumption DEF Sections
<1>2. CASE off >= Len(data)
  BY <1>2, MemoryReads DEF readerSource
<1>3. CASE off < Len(data)
  <2> DEFINE src == readerSource(data, off)
             end == IF off + WindowSize < Len(data) THEN off + WindowSize ELSE Len(data)
  <2>1. end \in Nat /\ end <= Len(data) /\ end >= off
    BY <1>1, <1>3
  <2> HIDE DEF end
  <2>2. src.data = data /\ src.base = off /\ src.buf = SubSeq(data, off + 1, end)
    BY <1>1, <1>3 DEF readerSource, end
  <2>3. \A j \in (off + 1)..end : data[j] \in Cells
    BY <1>1, <2>1
  <2>4. /\ src.buf \in Seq(Cells)
        /\ Len(src.buf) = end - off
        /\ \A j \in 1..(end - off) : src.buf[j] = data[off + j]
    <3>1. off + 1 \in Int /\ end \in Int /\ end - (off + 1) + 1 = end - off
      BY <2>1
    <3>2. /\ SubSeq(data, off + 1, end) \in Seq(Cells)
          /\ Len(SubSeq(data, off + 1, end))
              = IF off + 1 <= end THEN end - (off + 1) + 1 ELSE 0
          /\ \A j \in 1..(end - (off + 1) + 1) :
                SubSeq(data, off + 1, end)[j] = data[(off + 1) + j - 1]
      BY <2>3, <3>1, SubSeqProperties
    <3> QED BY <2>1, <2>2, <3>1, <3>2
  <2> HIDE DEF src
  <2> SUFFICES ASSUME NEW o \in Places, NEW n \in Nat
               PROVE  /\ Readable(src, o, n) <=> o >= 0 /\ o + n <= Len(data)
                      /\ Readable(src, o, n) => at(src, o, n) = SubSeq(data, o + 1, o + n)
    BY DEF ReadsAs, src
  <2>5. o \in Int
    BY PlaceInt
  <2>6. InWindow(src, o, n) <=> o >= off /\ o + n <= end
    BY <2>1, <2>2, <2>4, <2>5 DEF InWindow
  <2>7. Readable(src, o, n) <=> o >= 0 /\ o + n <= Len(data)
    BY <1>1, <2>1, <2>2, <2>5, <2>6 DEF Readable
  <2>8. CASE ~InWindow(src, o, n)
    BY <2>2, <2>7, <2>8 DEF at
  <2>9. CASE InWindow(src, o, n)
    <3> DEFINE m == o - off
    <3>1. m \in Nat /\ m + n <= end - off /\ o = off + m
      BY <2>1, <2>5, <2>6, <2>9
    <3> HIDE DEF m
    <3>2. at(src, o, n) = SubSeq(src.buf, m + 1, m + n)
      BY <2>2, <2>9 DEF at, m
    <3>3. \A j \in (m + 1)..(m + n) : src.buf[j] = data[off + j] /\ data[off + j] \in Cells
      BY <1>1, <2>1, <2>4, <3>1
    <3>4. \A j \in (o + 1)..(o + n) : data[j] \in Cells
      BY <1>1, <2>1, <3>1
    <3>5. /\ SubSeq(src.buf, m + 1, m + n) \in Seq(Cells)
          /\ Len(SubSeq(src.buf, m + 1, m + n)) = n
          /\ \A j \in 1..n : SubSeq(src.buf, m + 1, m + n)[j] = src.buf[m + j]
      <4>1. m + 1 \in Int /\ m + n \in Int /\ (m + n) - (m + 1) + 1 = n
        BY <3>1
      <4>2. /\ SubSeq(src.buf, m + 1, m + n) \in Seq(Cells)
            /\ Len(SubSeq(src.buf, m + 1, m + n))
                  = IF m + 1 <= m + n THEN (m + n) - (m + 1) + 1 ELSE 0
            /\ \A j \in 1..((m + n) - (m + 1) + 1) :
                  SubSeq(src.buf, m + 1, m + n)[j] = src.buf[(m + 1) + j - 1]
        BY <3>3, <4>1, SubSeqProperties
      <4> QED BY <3>1, <4>1, <4>2
    <3>6. /\ SubSeq(data, o + 1, o + n) \in Seq(Cells)
          /\ Len(SubSeq(data, o + 1, o + n)) = n
          /\ \A j \in 1..n : SubSeq(data, o + 1, o + n)[j] = data[o + j]
      <4>1. o + 1 \in Int /\ o + n \in Int /\ (o + n) - (o + 1) + 1 = n
        BY <2>5
      <4>2. /\ SubSeq(data, o + 1, o + n) \in Seq(Cells)
            /\ Len(SubSeq(data, o + 1, o + n))
                  = IF o + 1 <= o + n THEN (o + n) - (o + 1) + 1 ELSE 0
            /\ \A j \in 1..((o + n) - (o + 1) + 1) :
                  SubSeq(data, o + 1, o + n)[j] = data[(o + 1) + j - 1]
        BY <3>4, <4>1, SubSeqProperties
      <4> QED BY <2>5, <4>1, <4>2
    <3>7. \A j \in 1..n : src.buf[m + j] = data[o + j]
      BY <2>1, <2>4, <3>1
    <3>8. SubSeq(src.buf, m + 1, m + n) = SubSeq(data, o + 1, o + n)
      BY <3>5, <3>6, <3>7, SeqEqual
    <3> QED BY <2>7, <3>2, <3>8
  <2> QED BY <2>8, <2>9
<1> QED BY <1>1, <1>2, <1>3

(* What a source reads at a place that the data has. *)
LEMMA CellRead ==
    ASSUME NEW data \in Sections, NEW src, ReadsAs(src, data), NEW o \in Places
    PROVE  /\ Readable(src, o, 1) <=> o \in Nat /\ o < Len(data)
           /\ o \in Nat /\ o < Len(data) => /\ at(src, o, 1)[1] = data[o + 1]
                                           /\ data[o + 1] \in Cells
<1>1. data \in Seq(Cells) /\ Len(data) \in Nat /\ o \in Int
  BY PlaceInt DEF Sections
<1>2. Readable(src, o, 1) <=> o >= 0 /\ o + 1 <= Len(data)
  BY DEF ReadsAs
<1>3. Readable(src, o, 1) <=> o \in Nat /\ o < Len(data)
  BY <1>1, <1>2
<1>4. ASSUME o \in Nat, o < Len(data)
      PROVE  at(src, o, 1)[1] = data[o + 1] /\ data[o + 1] \in Cells
  <2>1. at(src, o, 1) = SubSeq(data, o + 1, o + 1)
    BY <1>3, <1>4 DEF ReadsAs
  <2>2. o + 1 \in 1..Len(data)
    BY <1>1, <1>4
  <2>3. data[o + 1] \in Cells
    BY <1>1, <2>2
  <2>4. SubSeq(data, o + 1, o + 1)[1] = data[o + 1]
    BY <1>1, <2>2, HeadTailOfSubSeq
  <2> QED BY <2>1, <2>3, <2>4
<1> QED BY <1>3, <1>4

(* DecodeOne, SkipOne and SeekOne, in terms of the data. *)
ScalarAt(data, off) ==
    LET cell == data[off + 1]
        end == off + 1 + cell.size
    IN IF end > Len(data) THEN Failure
       ELSE Result(Scalar(cell, SubSeq(data, off + 1 + 1, end)), end)

Decoded(data, read, off) ==
    LET cell == data[off + 1]
    IN IF ~(off \in Nat /\ off < Len(data)) THEN Failure
       ELSE CASE cell.type = "pointer" -> Result(read[cell.num].value, off + 1)
              [] cell.type = "bool" -> Result(<<"bool", cell.size # 0>>, off + 1)
              [] cell.type = "container" -> Result(Nil, off + 1)
              [] cell.type = "map" -> decodeMap(read, off + 1, cell.size)
              [] cell.type = "array" -> decodeArray(read, off + 1, cell.size)
              [] cell.type = "broken" -> Failure
              [] OTHER -> ScalarAt(data, off)

Skipped(data, jump, off) ==
    LET cell == data[off + 1]
    IN IF ~(off \in Nat /\ off < Len(data)) THEN NoOffset
       ELSE CASE cell.type \in {"pointer", "bool", "container"} -> off + 1
              [] cell.type = "map" -> Run(jump, off + 1)[2 * cell.size]
              [] cell.type = "array" -> Run(jump, off + 1)[cell.size]
              [] OTHER -> off + 1 + cell.size

Sought(data, path, read, jump, find, off, j) ==
    LET cell == data[off + 1]
        entry == seekKey(read, jump, off + 1, cell.size, path[j + 1])
    IN IF j = Len(path) THEN <<"offset", off>>
       ELSE IF ~(off \in Nat /\ off < Len(data)) THEN Error
       ELSE CASE cell.type = "pointer" -> find[cell.num][j]
              [] cell.type = "map" -> IF entry[1] = "offset" THEN find[entry[2]][j + 1]
                                      ELSE entry
              [] OTHER -> Missing

(* A source that reads as the section is decoded as the section is ... *)
LEMMA DecodeIs ==
    ASSUME NEW data \in Sections, NEW src, ReadsAs(src, data), NEW o \in Places, NEW read
    PROVE  DecodeOne(src, read, o) = Decoded(data, read, o)
<1>1. CASE ~(o \in Nat /\ o < Len(data))
  BY <1>1, CellRead DEF DecodeOne, Decoded
<1>2. CASE o \in Nat /\ o < Len(data)
  <2> DEFINE cell == data[o + 1]
  <2>1. Readable(src, o, 1) /\ at(src, o, 1)[1] = cell /\ cell \in Cells
    BY <1>2, CellRead
  <2>2. Len(data) \in Nat /\ cell.size \in Nat /\ o + 1 \in Places
    BY <1>2, <2>1, PlaceInt DEF Cells, Sections
  <2>3. Readable(src, o + 1, cell.size) <=> ~(o + 1 + cell.size > Len(data))
    BY <1>2, <2>2 DEF ReadsAs
  <2>4. Readable(src, o + 1, cell.size) =>
            at(src, o + 1, cell.size) = SubSeq(data, o + 1 + 1, o + 1 + cell.size)
    BY <1>2, <2>2 DEF ReadsAs
  <2> HIDE DEF cell
  <2>5. ScalarAt(data, o) = IF ~Readable(src, o + 1, cell.size) THEN Failure
             ELSE Result(Scalar(cell, at(src, o + 1, cell.size)), o + 1 + cell.size)
    BY <2>3, <2>4 DEF ScalarAt, cell
  <2> QED BY <1>2, <2>1, <2>5 DEF DecodeOne, Decoded, PointerTarget, cell
<1> QED BY <1>1, <1>2

(* ... skipped over ... *)
LEMMA SkipIs ==
    ASSUME NEW data \in Sections, NEW src, ReadsAs(src, data), NEW o \in Places, NEW jump
    PROVE  SkipOne(src, jump, o) = Skipped(data, jump, o)
<1>1. CASE ~(o \in Nat /\ o < Len(data))
  BY <1>1, CellRead DEF SkipOne, Skipped
<1>2. CASE o \in Nat /\ o < Len(data)
  BY <1>2, CellRead DEF SkipOne, Skipped
<1> QED BY <1>1, <1>2

(* ... and sought in. *)
LEMMA SeekIs ==
    ASSUME NEW data \in Sections, NEW src, ReadsAs(src, data), NEW o \in Places,
           NEW path, NEW left, NEW find, NEW j
    PROVE  SeekOne(src, path, left, find, o, j)
              = Sought(data, path, Decoder(src)[left], Skipper(src)[left], find, o, j)
<1>1. CASE ~(o \in Nat /\ o < Len(data))
  BY <1>1, CellRead DEF SeekOne, Sought
<1>2. CASE o \in Nat /\ o < Len(data)
  BY <1>2, CellRead DEF SeekOne, Sought, PointerTarget
<1> QED BY <1>1, <1>2

-----------------------------------------------------------------------------
(* The readers of a section: what decodes and skips in memory. *)
Dec(data) == Decoder(memSource(data))
Skp(data) == Skipper(memSource(data))

(* Decoding with one level more, in terms of the section. *)
LEMMA DecLevels ==
    ASSUME NEW data \in Sections, NEW src, ReadsAs(src, data)
    PROVE  /\ Decoder(src)[0] = [o \in Places |-> Failure]
           /\ \A n \in Nat : Decoder(src)[n + 1]
                 = [o \in Places |-> Decoded(data, Decoder(src)[n], o)]
<1>1. ASSUME NEW n \in Nat
      PROVE  Decoder(src)[n + 1] = [o \in Places |-> Decoded(data, Decoder(src)[n], o)]
  <2>1. Decoder(src)[n + 1] = [o \in Places |-> DecodeOne(src, Decoder(src)[n], o)]
    BY DecoderSteps
  <2>2. \A o \in Places :
           DecodeOne(src, Decoder(src)[n], o) = Decoded(data, Decoder(src)[n], o)
    BY DecodeIs
  <2> QED BY <2>1, <2>2
<1> QED BY <1>1, DecoderSteps

(* Skipping with one level more, in terms of the section. *)
LEMMA SkpLevels ==
    ASSUME NEW data \in Sections, NEW src, ReadsAs(src, data)
    PROVE  /\ Skipper(src)[0] = [o \in Places |-> NoOffset]
           /\ \A n \in Nat : Skipper(src)[n + 1]
                 = [o \in Places |-> Skipped(data, Skipper(src)[n], o)]
<1>1. ASSUME NEW n \in Nat
      PROVE  Skipper(src)[n + 1] = [o \in Places |-> Skipped(data, Skipper(src)[n], o)]
  <2>1. Skipper(src)[n + 1] = [o \in Places |-> SkipOne(src, Skipper(src)[n], o)]
    BY SkipperSteps
  <2>2. \A o \in Places :
           SkipOne(src, Skipper(src)[n], o) = Skipped(data, Skipper(src)[n], o)
    BY SkipIs
  <2> QED BY <2>1, <2>2
<1> QED BY <1>1, SkipperSteps

(* A window of the file changes nothing: what is decoded and skipped through
   it is what is decoded and skipped in memory. *)
LEMMA SameReaders ==
    ASSUME NEW data \in Sections, NEW src, ReadsAs(src, data)
    PROVE  \A n \in Nat : Decoder(src)[n] = Dec(data)[n] /\ Skipper(src)[n] = Skp(data)[n]
<1> DEFINE Same(n) == Decoder(src)[n] = Dec(data)[n] /\ Skipper(src)[n] = Skp(data)[n]
           S == {n \in Nat : Same(n)}
<1>1. ReadsAs(memSource(data), data)
  BY MemoryReads
<1>2. 0 \in S
  <2>1. Decoder(src)[0] = Dec(data)[0]
    BY <1>1, DecLevels, Zenon DEF Dec
  <2>2. Skipper(src)[0] = Skp(data)[0]
    BY <1>1, SkpLevels, Zenon DEF Skp
  <2> QED BY <2>1, <2>2
<1>3. ASSUME NEW n \in Nat, n \in S PROVE n + 1 \in S
  <2>1. Decoder(src)[n + 1] = Dec(data)[n + 1]
    <3>1. Decoder(src)[n + 1] = [o \in Places |-> Decoded(data, Decoder(src)[n], o)]
      BY DecLevels
    <3>2. Dec(data)[n + 1] = [o \in Places |-> Decoded(data, Dec(data)[n], o)]
      BY <1>1, DecLevels DEF Dec
    <3> QED BY <1>3, <3>1, <3>2
  <2>2. Skipper(src)[n + 1] = Skp(data)[n + 1]
    <3>1. Skipper(src)[n + 1] = [o \in Places |-> Skipped(data, Skipper(src)[n], o)]
      BY SkpLevels
    <3>2. Skp(data)[n + 1] = [o \in Places |-> Skipped(data, Skp(data)[n], o)]
      BY <1>1, SkpLevels DEF Skp
    <3> QED BY <1>3, <3>1, <3>2
  <2> QED BY <2>1, <2>2
<1> HIDE DEF S
<1>4. Nat \subseteq S
  BY <1>2, <1>3, Induction
<1> QED BY <1>4 DEF S

(* Seeking with one level more ... *)
LEMMA SeekerNext ==
    ASSUME NEW src, NEW path, NEW n \in Nat
    PROVE  \A o \in Places : \A j \in 0..Len(path) :
              Seeker(src, path)[n + 1][o][j]
                 = SeekOne(src, path, n, Seeker(src, path)[n], o, j)
<1>1. Seeker(src, path)[n + 1]
         = [off \in Places |-> SeekFrom(src, path, n, Seeker(src, path)[n], off)]
  BY SeekerSteps
<1> QED BY <1>1 DEF SeekFrom

(* ... in terms of the section. *)
LEMMA SekLevels ==
    ASSUME NEW data \in Sections, NEW src, ReadsAs(src, data), NEW path, NEW n \in Nat,
           NEW o \in Places, NEW j \in 0..Len(path)
    PROVE  Seeker(src, path)[n + 1][o][j]
              = Sought(data, path, Dec(data)[n], Skp(data)[n], Seeker(src, path)[n], o, j)
<1>1. Decoder(src)[n] = Dec(data)[n] /\ Skipper(src)[n] = Skp(data)[n]
  BY SameReaders
<1>2. SeekOne(src, path, n, Seeker(src, path)[n], o, j)
         = Sought(data, path, Decoder(src)[n], Skipper(src)[n], Seeker(src, path)[n], o, j)
  BY SeekIs
<1>3. Seeker(src, path)[n + 1][o][j] = SeekOne(src, path, n, Seeker(src, path)[n], o, j)
  BY SeekerNext
<1> QED BY <1>1, <1>2, <1>3

-----------------------------------------------------------------------------
(* Values that follow each other, in maps and arrays. *)

(* A reader that leads from a place to a place, or to none. *)
Reading(read) == \A o \in Places : read[o].next \in Places

(* `step` leads on as `read` does, wherever that reads a value. *)
Follows(step, read) == \A o \in Places : ~Failed(read[o]) => step[o] = read[o].next

(* Steps from place to place stay among the places. *)
LEMMA RunPlaces ==
    ASSUME NEW step, \A o \in Places : step[o] \in Places, NEW start \in Places
    PROVE  \A k \in Nat : Run(step, start)[k] \in Places
<1> DEFINE S == {k \in Nat : Run(step, start)[k] \in Places}
<1>1. 0 \in S
  BY RunSteps
<1>2. ASSUME NEW n \in Nat, n \in S PROVE n + 1 \in S
  BY <1>2, RunSteps
<1> HIDE DEF S
<1>3. Nat \subseteq S
  BY <1>1, <1>2, Induction
<1> QED BY <1>3 DEF S

(* Each value starts where the one before ends. *)
LEMMA StartsSteps ==
    ASSUME NEW read, Reading(read), NEW off \in Places
    PROVE  /\ Starts(read, off)[0] = off
           /\ \A k \in Nat : /\ Starts(read, off)[k] \in Places
                             /\ Starts(read, off)[k + 1] = read[Starts(read, off)[k]].next
<1> DEFINE step == [o \in Places |-> read[o].next]
<1>1. \A o \in Places : step[o] \in Places
  BY DEF Reading
<1>2. Starts(read, off) = Run(step, off)
  BY DEF Starts
<1> HIDE DEF step
<1>3. \A k \in Nat : Starts(read, off)[k] \in Places
  BY <1>1, <1>2, RunPlaces
<1>4. /\ Starts(read, off)[0] = off
      /\ \A k \in Nat : Starts(read, off)[k + 1] = step[Starts(read, off)[k]]
  BY <1>2, RunSteps
<1> QED BY <1>3, <1>4 DEF step

(* As long as values can be read, both go the same way. *)
LEMMA SameRun ==
    ASSUME NEW read, Reading(read), NEW step, Follows(step, read), NEW off \in Places,
           NEW m \in Nat, \A k \in 0..(m - 1) : ~Failed(read[Starts(read, off)[k]])
    PROVE  \A k \in 0..m : Run(step, off)[k] = Starts(read, off)[k]
<1> DEFINE starts == Starts(read, off)
           run == Run(step, off)
           S == {k \in Nat : k <= m => run[k] = starts[k]}
<1>1. 0 \in S
  BY RunSteps, StartsSteps
<1>2. ASSUME NEW n \in Nat, n \in S PROVE n + 1 \in S
  <2> SUFFICES ASSUME n + 1 <= m PROVE run[n + 1] = starts[n + 1]
    OBVIOUS
  <2>1. run[n] = starts[n] /\ ~Failed(read[starts[n]])
    BY <1>2
  <2>2. starts[n] \in Places /\ starts[n + 1] = read[starts[n]].next
    BY StartsSteps
  <2>3. run[n + 1] = step[run[n]]
    BY RunSteps
  <2> QED BY <2>1, <2>2, <2>3 DEF Follows
<1> HIDE DEF S
<1>3. Nat \subseteq S
  BY <1>1, <1>2, Induction
<1> QED BY <1>3 DEF S

-----------------------------------------------------------------------------
(* The keys and values of a map, and the elements of an array. *)
MapItems(read, off, size) ==
    [k \in 0..(2 * size - 1) |-> read[Starts(read, off)[k]]]
Elements(read, off, size) ==
    [k \in 1..size |-> read[Starts(read, off)[k - 1]].value]

(* A map that can be decoded: so can its keys, which are strings, and its
   values. *)
LEMMA MapRead ==
    ASSUME NEW read, NEW off, NEW size \in Nat, ~Failed(decodeMap(read, off, size))
    PROVE  /\ decodeMap(read, off, size)
                 = Result(<<"map", MapOfItems(MapItems(read, off, size), size)>>,
                          Starts(read, off)[2 * size])
           /\ \A k \in 0..(2 * size - 1) : ~Failed(read[Starts(read, off)[k]])
           /\ \A k \in 0..(size - 1) : read[Starts(read, off)[2 * k]].value[1] = "string"
<1> DEFINE starts == Starts(read, off)
           items == [k \in 0..(2 * size - 1) |-> read[starts[k]]]
           Bad(k) == \/ Failed(items[2 * k])
                     \/ items[2 * k].value[1] # "string"
                     \/ Failed(items[2 * k + 1])
<1>1. decodeMap(read, off, size)
         = IF \E k \in 0..(size - 1) : Bad(k) THEN Failure
           ELSE Result(<<"map", MapOfItems(items, size)>>, starts[2 * size])
  BY Zenon DEF decodeMap
<1>2. Failed(Failure)
  BY DEF Failed, Failure, Result
<1> HIDE DEF Bad, items
<1>3. /\ \A k \in 0..(size - 1) : ~Bad(k)
      /\ decodeMap(read, off, size)
            = Result(<<"map", MapOfItems(items, size)>>, starts[2 * size])
  BY <1>1, <1>2
<1>4. ASSUME NEW k \in 0..(2 * size - 1) PROVE ~Failed(read[starts[k]])
  <2>1. PICK l \in 0..(size - 1) : k = 2 * l \/ k = 2 * l + 1
    <3>1. k \div 2 \in 0..(size - 1) /\ (k = 2 * (k \div 2) \/ k = 2 * (k \div 2) + 1)
      OBVIOUS
    <3> QED BY <3>1
  <2>2. items[k] = read[starts[k]]
    BY DEF items
  <2> QED BY <1>3, <2>1, <2>2 DEF Bad
<1>5. ASSUME NEW k \in 0..(size - 1) PROVE read[starts[2 * k]].value[1] = "string"
  <2>1. 2 * k \in 0..(2 * size - 1)
    OBVIOUS
  <2>2. items[2 * k] = read[starts[2 * k]]
    BY <2>1 DEF items
  <2> QED BY <1>3, <2>2 DEF Bad
<1> QED BY <1>3, <1>4, <1>5 DEF items, MapItems

(* An array that can be decoded: so can its elements. *)
LEMMA ArrayRead ==
    ASSUME NEW read, NEW off, NEW size \in Nat, ~Failed(decodeArray(read, off, size))
    PROVE  /\ decodeArray(read, off, size)
                 = Result(<<"array", Elements(read, off, size)>>, Starts(read, off)[size])
           /\ \A k \in 0..(size - 1) : ~Failed(read[Starts(read, off)[k]])
<1> DEFINE starts == Starts(read, off)
           items == [k \in 0..(size - 1) |-> read[starts[k]]]
<1>1. decodeArray(read, off, size)
         = IF \E k \in 0..(size - 1) : Failed(items[k]) THEN Failure
           ELSE Result(<<"array", [k \in 1..size |-> items[k - 1].value]>>, starts[size])
  BY Zenon DEF decodeArray
<1>2. Failed(Failure)
  BY DEF Failed, Failure, Result
<1>3. \A k \in 0..(size - 1) : ~Failed(items[k])
  BY <1>1, <1>2
<1>4. [k \in 1..size |-> items[k - 1].value]
         = [k \in 1..size |-> read[starts[k - 1]].value]
  OBVIOUS
<1> QED BY <1>1, <1>3, <1>4 DEF Elements

(* A reader that reads whatever another reads, as that does. *)
Extends(more, read) == \A o \in Places : ~Failed(read[o]) => more[o] = read[o]

(* A map that one level can decode is the same for any that decodes more ... *)
LEMMA SameMap ==
    ASSUME NEW read, Reading(read), NEW more, Reading(more), Extends(more, read),
           NEW off \in Places, NEW size \in Nat, ~Failed(decodeMap(read, off, size))
    PROVE  /\ \A k \in 0..(2 * size) : Starts(more, off)[k] = Starts(read, off)[k]
           /\ decodeMap(more, off, size) = decodeMap(read, off, size)
<1> DEFINE starts == Starts(read, off)
           step == [o \in Places |-> more[o].next]
           items == [k \in 0..(2 * size - 1) |-> read[starts[k]]]
<1>1. \A k \in 0..(2 * size - 1) : ~Failed(read[starts[k]])
  BY MapRead
<1>2. Follows(step, read)
  BY DEF Follows, Extends
<1>3. 2 * size \in Nat
  OBVIOUS
<1>4. Starts(more, off) = Run(step, off)
  BY DEF Starts
<1> HIDE DEF step
<1>5. \A k \in 0..(2 * size) : Run(step, off)[k] = starts[k]
  BY <1>1, <1>2, <1>3, SameRun
<1>6. \A k \in 0..(2 * size) : Starts(more, off)[k] = starts[k]
  BY <1>4, <1>5
<1>7. \A k \in 0..(2 * size - 1) : more[Starts(more, off)[k]] = read[starts[k]]
  BY <1>1, <1>6, StartsSteps DEF Extends
<1>8. [k \in 0..(2 * size - 1) |-> more[Starts(more, off)[k]]] = items
  BY <1>7
<1>9. Starts(more, off)[2 * size] = starts[2 * size]
  BY <1>6
<1> HIDE DEF items
<1>10. decodeMap(more, off, size) = decodeMap(read, off, size)
  BY <1>8, <1>9, Zenon DEF decodeMap, items
<1> QED BY <1>6, <1>10

(* ... and so is an array. *)
LEMMA SameArray ==
    ASSUME NEW read, Reading(read), NEW more, Reading(more), Extends(more, read),
           NEW off \in Places, NEW size \in Nat, ~Failed(decodeArray(read, off, size))
    PROVE  decodeArray(more, off, size) = decodeArray(read, off, size)
<1> DEFINE starts == Starts(read, off)
           step == [o \in Places |-> more[o].next]
           items == [k \in 0..(size - 1) |-> read[starts[k]]]
<1>1. \A k \in 0..(size - 1) : ~Failed(read[starts[k]])
  BY ArrayRead
<1>2. Follows(step, read)
  BY DEF Follows, Extends
<1>3. Starts(more, off) = Run(step, off)
  BY DEF Starts
<1> HIDE DEF step
<1>4. \A k \in 0..size : Run(step, off)[k] = starts[k]
  BY <1>1, <1>2, SameRun
<1>5. \A k \in 0..size : Starts(more, off)[k] = starts[k]
  BY <1>3, <1>4
<1>6. \A k \in 0..(size - 1) : more[Starts(more, off)[k]] = read[starts[k]]
  BY <1>1, <1>5, StartsSteps DEF Extends
<1>7. [k \in 0..(size - 1) |-> more[Starts(more, off)[k]]] = items
  BY <1>6
<1>8. Starts(more, off)[size] = starts[size]
  BY <1>5
<1> DEFINE Made(its, end) ==
             IF \E k \in 0..(size - 1) : Failed(its[k]) THEN Failure
             ELSE Result(<<"array", [k \in 1..size |-> its[k - 1].value]>>, end)
           others == [k \in 0..(size - 1) |-> more[Starts(more, off)[k]]]
<1>9. decodeArray(read, off, size) = Made(items, starts[size])
  BY Zenon DEF decodeArray
<1>10. decodeArray(more, off, size) = Made(others, Starts(more, off)[size])
  BY Zenon DEF decodeArray
<1> HIDE DEF items, others, Made
<1> QED BY <1>7, <1>8, <1>9, <1>10 DEF others

ScalarTypes == {"string", "bytes", "uint", "int", "float"}

(* What a value that can be read is, by the type of its cell. *)
LEMMA DecodedCases ==
    ASSUME NEW data \in Sections, NEW o \in Places, NEW read,
           ~Failed(Decoded(data, read, o))
    PROVE  LET cell == data[o + 1]
               it == Decoded(data, read, o)
           IN /\ o \in Nat /\ o < Len(data) /\ cell \in Cells
              /\ \/ /\ cell.type = "pointer" /\ cell.num \in Nat
                    /\ ~Failed(read[cell.num])
                    /\ it = Result(read[cell.num].value, o + 1)
                 \/ cell.type = "bool" /\ it = Result(<<"bool", cell.size # 0>>, o + 1)
                 \/ cell.type = "container" /\ it = Result(Nil, o + 1)
                 \/ cell.type = "map" /\ it = decodeMap(read, o + 1, cell.size)
                 \/ cell.type = "array" /\ it = decodeArray(read, o + 1, cell.size)
                 \/ /\ cell.type \in ScalarTypes
                    /\ o + 1 + cell.size <= Len(data)
                    /\ it = Result(Scalar(cell, SubSeq(data, o + 1 + 1, o + 1 + cell.size)),
                                   o + 1 + cell.size)
<1> DEFINE cell == data[o + 1]
           it == Decoded(data, read, o)
<1>1. Failed(Failure)
  BY DEF Failed, Failure, Result
<1>2. o \in Nat /\ o < Len(data)
  BY <1>1 DEF Decoded
<1>3. cell \in Cells
  <2>1. data \in Seq(Cells) /\ Len(data) \in Nat
    BY DEF Sections
  <2>2. o + 1 \in 1..Len(data)
    BY <1>2, <2>1
  <2> QED BY <2>1, <2>2
<1>4. /\ cell.type \in CellTypes /\ cell.size \in Nat
      /\ cell.type = "pointer" => cell.num \in Nat
  BY <1>3 DEF Cells
<1> HIDE DEF cell
<1>5. CASE cell.type = "pointer"
  <2>1. it = Result(read[cell.num].value, o + 1)
    BY <1>2, <1>5 DEF Decoded, cell
  <2>2. ~Failed(read[cell.num])
    BY <2>1 DEF Failed, Result
  <2> QED BY <1>2, <1>3, <1>4, <1>5, <2>1, <2>2 DEF cell
<1>6. CASE cell.type = "bool"
  BY <1>2, <1>3, <1>6 DEF Decoded, cell
<1>7. CASE cell.type = "container"
  BY <1>2, <1>3, <1>7 DEF Decoded, cell
<1>8. CASE cell.type = "map"
  BY <1>2, <1>3, <1>8 DEF Decoded, cell
<1>9. CASE cell.type = "array"
  BY <1>2, <1>3, <1>9 DEF Decoded, cell
<1>10. CASE cell.type = "broken"
  BY <1>1, <1>2, <1>10 DEF Decoded, cell
<1>11. CASE cell.type \in ScalarTypes
  <2>1. it = ScalarAt(data, o)
    BY <1>2, <1>11 DEF Decoded, cell, ScalarTypes
  <2>2. ~(o + 1 + cell.size > Len(data))
    BY <1>1, <2>1 DEF ScalarAt, cell
  <2>3. it = Result(Scalar(cell, SubSeq(data, o + 1 + 1, o + 1 + cell.size)),
                    o + 1 + cell.size)
    BY <2>1, <2>2 DEF ScalarAt, cell
  <2>4. Len(data) \in Nat
    BY DEF Sections
  <2> QED BY <1>2, <1>3, <1>4, <1>11, <2>2, <2>3, <2>4 DEF cell
<1> QED BY <1>4, <1>5, <1>6, <1>7, <1>8, <1>9, <1>10, <1>11 DEF CellTypes, ScalarTypes

(* A value that can be read is at an offset, and so is the next one. *)
Onward(read) == \A o \in Places : ~Failed(read[o]) => read[o].next \in Nat

(* After values that can be read comes an offset. *)
LEMMA RunOnward ==
    ASSUME NEW read, Reading(read), Onward(read), NEW off \in Nat, NEW m \in Nat,
           \A k \in 0..(m - 1) : ~Failed(read[Starts(read, off)[k]])
    PROVE  Starts(read, off)[m] \in Nat
<1>1. off \in Places
  BY PlaceInt
<1>2. CASE m = 0
  BY <1>1, <1>2, StartsSteps
<1>3. CASE m # 0
  <2>1. m - 1 \in Nat /\ m - 1 \in 0..(m - 1) /\ (m - 1) + 1 = m
    BY <1>3
  <2>2. /\ Starts(read, off)[m - 1] \in Places
        /\ Starts(read, off)[(m - 1) + 1] = read[Starts(read, off)[m - 1]].next
    BY <1>1, <2>1, StartsSteps
  <2> QED BY <2>1, <2>2 DEF Onward
<1> QED BY <1>2, <1>3

(* What follows a value is a place, an offset if it can be read. *)
LEMMA DecodedNext ==
    ASSUME NEW data \in Sections, NEW read, Reading(read), Onward(read), NEW o \in Places
    PROVE  /\ Decoded(data, read, o).next \in Places
           /\ ~Failed(Decoded(data, read, o)) => Decoded(data, read, o).next \in Nat
<1> DEFINE cell == data[o + 1]
           it == Decoded(data, read, o)
<1>1. ASSUME Failed(it) PROVE it = Failure \/ (cell.type = "pointer" /\ it.next \in Nat)
  <2>1. CASE ~(o \in Nat /\ o < Len(data))
    BY <2>1 DEF Decoded
  <2>2. CASE o \in Nat /\ o < Len(data)
    <3>1. cell \in Cells
      <4>1. data \in Seq(Cells) /\ Len(data) \in Nat
        BY DEF Sections
      <4>2. o + 1 \in 1..Len(data)
        BY <2>2, <4>1
      <4> QED BY <4>1, <4>2
    <3>2. cell.type \in CellTypes
      BY <3>1 DEF Cells
    <3> HIDE DEF cell
    <3>3. CASE cell.type = "pointer"
      <4>1. it = Result(read[cell.num].value, o + 1)
        BY <2>2, <3>3 DEF Decoded, cell
      <4> QED BY <2>2, <3>3, <4>1 DEF Result
    <3>4. CASE cell.type \in {"bool", "container"}
      BY <1>1, <2>2, <3>4 DEF Decoded, cell, Failed, Result, Error, Nil
    <3>5. CASE cell.type = "map"
      <4>1. it = decodeMap(read, o + 1, cell.size)
        BY <2>2, <3>5 DEF Decoded, cell
      <4> HIDE DEF it
      <4> QED BY <1>1, <4>1 DEF decodeMap, Failed, Result, Error
    <3>6. CASE cell.type = "array"
      <4>1. it = decodeArray(read, o + 1, cell.size)
        BY <2>2, <3>6 DEF Decoded, cell
      <4> HIDE DEF it
      <4> QED BY <1>1, <4>1 DEF decodeArray, Failed, Result, Error
    <3>7. CASE cell.type = "broken"
      BY <2>2, <3>7 DEF Decoded, cell
    <3>8. CASE cell.type \in ScalarTypes
      <4>1. it = ScalarAt(data, o)
        BY <2>2, <3>8 DEF Decoded, cell, ScalarTypes
      <4>2. \A payload : Scalar(cell, payload) # Error
        BY <3>8 DEF Scalar, Error, ScalarTypes
      <4> HIDE DEF it
      <4> QED BY <1>1, <4>1, <4>2 DEF ScalarAt, Failed, Result, cell
    <3> QED BY <3>2, <3>3, <3>4, <3>5, <3>6, <3>7, <3>8 DEF CellTypes, ScalarTypes
  <2> QED BY <2>1, <2>2
<1>2. ASSUME ~Failed(it) PROVE it.next \in Nat
  <2>0. o \in Nat /\ cell \in Cells
    BY <1>2, DecodedCases, Zenon
  <2> HIDE DEF cell, it
  <2>1. o \in Nat /\ o + 1 \in Nat /\ o + 1 \in Places /\ cell.size \in Nat
    BY <2>0, PlaceInt DEF Cells
  <2>2. CASE cell.type = "map" /\ it = decodeMap(read, o + 1, cell.size)
    <3>0. ~Failed(decodeMap(read, o + 1, cell.size))
      BY <1>2, <2>2
    <3>1. /\ it.next = Starts(read, o + 1)[2 * cell.size]
          /\ \A k \in 0..(2 * cell.size - 1) : ~Failed(read[Starts(read, o + 1)[k]])
      BY <2>1, <2>2, <3>0, MapRead DEF Result
    <3>2. 2 * cell.size \in Nat
      BY <2>1
    <3> QED BY <2>1, <3>1, <3>2, RunOnward
  <2>3. CASE cell.type = "array" /\ it = decodeArray(read, o + 1, cell.size)
    <3>1. /\ it.next = Starts(read, o + 1)[cell.size]
          /\ \A k \in 0..(cell.size - 1) : ~Failed(read[Starts(read, o + 1)[k]])
      BY <1>2, <2>1, <2>3, ArrayRead DEF Result
    <3> QED BY <2>1, <3>1, RunOnward
  <2>4. CASE \E v : it = Result(v, o + 1) \/ it = Result(v, o + 1 + cell.size)
    BY <2>1, <2>4 DEF Result
  <2> QED BY <1>2, <2>2, <2>3, <2>4, DecodedCases DEF it, cell
<1>3. Failure.next \in Places
  BY PlaceInt DEF Failure, Result
<1> QED BY <1>1, <1>2, <1>3, PlaceInt

-----------------------------------------------------------------------------
(* decode and skip, level by level. *)

(* Decoding leads on, with any number of levels. *)
LEMMA DecSound ==
    ASSUME NEW data \in Sections
    PROVE  \A n \in Nat : Reading(Dec(data)[n]) /\ Onward(Dec(data)[n])
<1> DEFINE S == {n \in Nat : Reading(Dec(data)[n]) /\ Onward(Dec(data)[n])}
<1>1. ReadsAs(memSource(data), data)
  BY MemoryReads
<1>2. 0 \in S
  <2>1. Dec(data)[0] = [o \in Places |-> Failure]
    BY <1>1, DecLevels, Zenon DEF Dec
  <2> QED BY <2>1, PlaceInt DEF Reading, Onward, Failed, Failure, Result
<1>3. ASSUME NEW n \in Nat, n \in S PROVE n + 1 \in S
  <2>1. Dec(data)[n + 1] = [o \in Places |-> Decoded(data, Dec(data)[n], o)]
    BY <1>1, DecLevels DEF Dec
  <2>2. \A o \in Places :
           /\ Decoded(data, Dec(data)[n], o).next \in Places
           /\ ~Failed(Decoded(data, Dec(data)[n], o)) =>
                 Decoded(data, Dec(data)[n], o).next \in Nat
    BY <1>3, DecodedNext
  <2> QED BY <2>1, <2>2 DEF Reading, Onward
<1> HIDE DEF S
<1>4. Nat \subseteq S
  BY <1>2, <1>3, Induction
<1> QED BY <1>4 DEF S

(* Decoding with one level more, at a place. *)
LEMMA DecNext ==
    ASSUME NEW data \in Sections, NEW n \in Nat, NEW o \in Places
    PROVE  Dec(data)[n + 1][o] = Decoded(data, Dec(data)[n], o)
<1>1. ReadsAs(memSource(data), data)
  BY MemoryReads
<1>2. Dec(data)[n + 1] = [p \in Places |-> Decoded(data, Dec(data)[n], p)]
  BY <1>1, DecLevels DEF Dec
<1> QED BY <1>2

(* With no level left nothing is decoded. *)
LEMMA DecZero ==
    ASSUME NEW data \in Sections, NEW o \in Places
    PROVE  Failed(Dec(data)[0][o])
<1>1. ReadsAs(memSource(data), data)
  BY MemoryReads
<1>2. Dec(data)[0] = [p \in Places |-> Failure]
  BY <1>1, DecLevels, Zenon DEF Dec
<1> QED BY <1>2 DEF Failed, Failure, Result

(* Skipping with one level more, at a place. *)
LEMMA SkpNext ==
    ASSUME NEW data \in Sections, NEW n \in Nat, NEW o \in Places
    PROVE  Skp(data)[n + 1][o] = Skipped(data, Skp(data)[n], o)
<1>1. ReadsAs(memSource(data), data)
  BY MemoryReads
<1>2. Skp(data)[n + 1] = [p \in Places |-> Skipped(data, Skp(data)[n], p)]
  BY <1>1, SkpLevels DEF Skp
<1> QED BY <1>2

(* What is read with some levels left is read the same with more. *)
LEMMA DecodedKept ==
    ASSUME NEW data \in Sections, NEW read, Reading(read), NEW more, Reading(more),
           Extends(more, read), NEW o \in Places, ~Failed(Decoded(data, read, o))
    PROVE  Decoded(data, more, o) = Decoded(data, read, o)
<1> DEFINE cell == data[o + 1]
           it == Decoded(data, read, o)
<1>1. o \in Nat /\ o < Len(data) /\ cell \in Cells
  BY DecodedCases, Zenon
<1>2. \/ /\ cell.type = "pointer" /\ cell.num \in Nat
         /\ ~Failed(read[cell.num])
         /\ it = Result(read[cell.num].value, o + 1)
      \/ cell.type = "map" /\ it = decodeMap(read, o + 1, cell.size)
      \/ cell.type = "array" /\ it = decodeArray(read, o + 1, cell.size)
      \/ cell.type \in ScalarTypes \cup {"bool", "container"}
  BY DecodedCases, Zenon
<1> HIDE DEF cell
<1>3. o + 1 \in Places /\ cell.size \in Nat /\ Nat \subseteq Places
  BY <1>1, PlaceInt DEF Cells
<1>4. CASE cell.type = "pointer" /\ cell.num \in Nat /\ ~Failed(read[cell.num])
  <2>1. more[cell.num] = read[cell.num]
    BY <1>3, <1>4 DEF Extends
  <2> QED BY <1>1, <1>4, <2>1 DEF Decoded, cell
<1>5. CASE cell.type = "map" /\ it = decodeMap(read, o + 1, cell.size)
  <2>1. decodeMap(more, o + 1, cell.size) = decodeMap(read, o + 1, cell.size)
    BY <1>3, <1>5, SameMap
  <2> QED BY <1>1, <1>5, <2>1 DEF Decoded, cell
<1>6. CASE cell.type = "array" /\ it = decodeArray(read, o + 1, cell.size)
  <2>1. decodeArray(more, o + 1, cell.size) = decodeArray(read, o + 1, cell.size)
    BY <1>3, <1>6, SameArray
  <2> QED BY <1>1, <1>6, <2>1 DEF Decoded, cell
<1>7. CASE cell.type \in ScalarTypes \cup {"bool", "container"}
  BY <1>1, <1>7 DEF Decoded, cell, ScalarTypes
<1> QED BY <1>2, <1>4, <1>5, <1>6, <1>7

(* A level more decodes what the levels before did, to the same values ... *)
LEMMA DecExtends ==
    ASSUME NEW data \in Sections
    PROVE  \A n \in Nat : Extends(Dec(data)[n + 1], Dec(data)[n])
<1> DEFINE S == {n \in Nat : Extends(Dec(data)[n + 1], Dec(data)[n])}
<1>1. 0 \in S
  BY DecZero DEF Extends
<1>2. ASSUME NEW n \in Nat, n \in S PROVE n + 1 \in S
  <2>1. /\ Reading(Dec(data)[n]) /\ Reading(Dec(data)[n + 1])
        /\ Extends(Dec(data)[n + 1], Dec(data)[n])
    BY <1>2, DecSound
  <2>2. ASSUME NEW o \in Places, ~Failed(Dec(data)[n + 1][o])
        PROVE  Dec(data)[(n + 1) + 1][o] = Dec(data)[n + 1][o]
    <3>1. Dec(data)[n + 1][o] = Decoded(data, Dec(data)[n], o)
      BY DecNext
    <3>2. Dec(data)[(n + 1) + 1][o] = Decoded(data, Dec(data)[n + 1], o)
      BY DecNext
    <3>3. Decoded(data, Dec(data)[n + 1], o) = Decoded(data, Dec(data)[n], o)
      BY <2>1, <2>2, <3>1, DecodedKept
    <3> QED BY <3>1, <3>2, <3>3
  <2> QED BY <2>2 DEF Extends
<1> HIDE DEF S
<1>3. Nat \subseteq S
  BY <1>1, <1>2, Induction
<1> QED BY <1>3 DEF S

(* ... and so do any number of levels more. *)
LEMMA DecKept ==
    ASSUME NEW data \in Sections, NEW n \in Nat, NEW m \in Nat, n <= m
    PROVE  Extends(Dec(data)[m], Dec(data)[n])
<1> DEFINE S == {k \in Nat : Extends(Dec(data)[n + k], Dec(data)[n])}
<1>1. 0 \in S
  BY DEF Extends
<1>2. ASSUME NEW k \in Nat, k \in S PROVE k + 1 \in S
  <2>1. Extends(Dec(data)[(n + k) + 1], Dec(data)[n + k])
    BY DecExtends
  <2>2. n + (k + 1) = (n + k) + 1
    OBVIOUS
  <2> QED BY <1>2, <2>1, <2>2 DEF Extends
<1> HIDE DEF S
<1>3. Nat \subseteq S
  BY <1>1, <1>2, Induction
<1>4. m - n \in Nat /\ n + (m - n) = m
  OBVIOUS
<1> QED BY <1>3, <1>4 DEF S

(* Skipping a value that can be read leads where reading it does. *)
LEMMA SkippedFollows ==
    ASSUME NEW data \in Sections, NEW read, Reading(read), NEW jump,
           Follows(jump, read), NEW o \in Places, ~Failed(Decoded(data, read, o))
    PROVE  Skipped(data, jump, o) = Decoded(data, read, o).next
<1> DEFINE cell == data[o + 1]
           it == Decoded(data, read, o)
<1>1. o \in Nat /\ o < Len(data) /\ cell \in Cells
  BY DecodedCases, Zenon
<1>2. \/ cell.type = "pointer" /\ it = Result(read[cell.num].value, o + 1)
      \/ cell.type = "bool" /\ it = Result(<<"bool", cell.size # 0>>, o + 1)
      \/ cell.type = "container" /\ it = Result(Nil, o + 1)
      \/ cell.type = "map" /\ it = decodeMap(read, o + 1, cell.size)
      \/ cell.type = "array" /\ it = decodeArray(read, o + 1, cell.size)
      \/ /\ cell.type \in ScalarTypes
         /\ it = Result(Scalar(cell, SubSeq(data, o + 1 + 1, o + 1 + cell.size)),
                        o + 1 + cell.size)
  BY DecodedCases, Zenon
<1> HIDE DEF cell, it
<1>3. o + 1 \in Places /\ cell.size \in Nat
  BY <1>1, PlaceInt DEF Cells
<1>4. CASE cell.type \in {"pointer", "bool", "container"}
  <2>1. Skipped(data, jump, o) = o + 1
    BY <1>1, <1>4 DEF Skipped, cell
  <2> QED BY <1>2, <1>4, <2>1 DEF Result, ScalarTypes, it
<1>5. CASE cell.type = "map"
  <2>1. /\ it = decodeMap(read, o + 1, cell.size)
        /\ ~Failed(decodeMap(read, o + 1, cell.size))
    BY <1>2, <1>5 DEF ScalarTypes, it
  <2>2. 2 * cell.size \in Nat
    BY <1>3
  <2>3. /\ it.next = Starts(read, o + 1)[2 * cell.size]
        /\ \A k \in 0..(2 * cell.size - 1) : ~Failed(read[Starts(read, o + 1)[k]])
    BY <1>3, <2>1, MapRead DEF Result
  <2>4. Run(jump, o + 1)[2 * cell.size] = Starts(read, o + 1)[2 * cell.size]
    BY <1>3, <2>2, <2>3, SameRun
  <2>5. Skipped(data, jump, o) = Run(jump, o + 1)[2 * cell.size]
    BY <1>1, <1>5 DEF Skipped, cell
  <2> QED BY <2>3, <2>4, <2>5 DEF it
<1>6. CASE cell.type = "array"
  <2>1. /\ it = decodeArray(read, o + 1, cell.size)
        /\ ~Failed(decodeArray(read, o + 1, cell.size))
    BY <1>2, <1>6 DEF ScalarTypes, it
  <2>2. /\ it.next = Starts(read, o + 1)[cell.size]
        /\ \A k \in 0..(cell.size - 1) : ~Failed(read[Starts(read, o + 1)[k]])
    BY <1>3, <2>1, ArrayRead DEF Result
  <2>3. Run(jump, o + 1)[cell.size] = Starts(read, o + 1)[cell.size]
    BY <1>3, <2>2, SameRun
  <2>4. Skipped(data, jump, o) = Run(jump, o + 1)[cell.size]
    BY <1>1, <1>6 DEF Skipped, cell
  <2> QED BY <2>2, <2>3, <2>4 DEF it
<1>7. CASE cell.type \in ScalarTypes
  <2>1. Skipped(data, jump, o) = o + 1 + cell.size
    BY <1>1, <1>7 DEF Skipped, cell, ScalarTypes
  <2> QED BY <1>2, <1>7, <2>1 DEF Result, ScalarTypes, it
<1> QED BY <1>2, <1>4, <1>5, <1>6, <1>7

(* skip leads to where decode does, for every value that decode can read. *)
LEMMA SkpFollows ==
    ASSUME NEW data \in Sections
    PROVE  \A n \in Nat : Follows(Skp(data)[n], Dec(data)[n])
<1> DEFINE S == {n \in Nat : Follows(Skp(data)[n], Dec(data)[n])}
<1>1. 0 \in S
  BY DecZero DEF Follows
<1>2. ASSUME NEW n \in Nat, n \in S PROVE n + 1 \in S
  <2>1. ASSUME NEW o \in Places, ~Failed(Dec(data)[n + 1][o])
        PROVE  Skp(data)[n + 1][o] = Dec(data)[n + 1][o].next
    BY <1>2, <2>1, DecNext, SkpNext, DecSound, SkippedFollows
  <2> QED BY <2>1 DEF Follows
<1> HIDE DEF S
<1>3. Nat \subseteq S
  BY <1>1, <1>2, Induction
<1> QED BY <1>3 DEF S

(* skip leads from place to place. *)
LEMMA SkpPlaces ==
    ASSUME NEW data \in Sections
    PROVE  \A n \in Nat : \A o \in Places : Skp(data)[n][o] \in Places
<1> DEFINE S == {n \in Nat : \A o \in Places : Skp(data)[n][o] \in Places}
<1>1. 0 \in S
  <2>1. Skp(data)[0] = [o \in Places |-> NoOffset]
    BY MemoryReads, SkpLevels, Zenon DEF Skp
  <2> QED BY <2>1, PlaceInt
<1>2. ASSUME NEW n \in Nat, n \in S PROVE n + 1 \in S
  <2> SUFFICES ASSUME NEW o \in Places PROVE Skipped(data, Skp(data)[n], o) \in Places
    BY SkpNext
  <2> DEFINE cell == data[o + 1]
             jump == Skp(data)[n]
  <2>1. CASE ~(o \in Nat /\ o < Len(data))
    BY <2>1, PlaceInt DEF Skipped
  <2>2. CASE o \in Nat /\ o < Len(data)
    <3>1. cell \in Cells
      <4>1. data \in Seq(Cells) /\ Len(data) \in Nat
        BY DEF Sections
      <4>2. o + 1 \in 1..Len(data)
        BY <2>2, <4>1
      <4> QED BY <4>1, <4>2
    <3> HIDE DEF cell, jump
    <3>2. cell.size \in Nat /\ o + 1 \in Places /\ 2 * cell.size \in Nat
      BY <2>2, <3>1, PlaceInt DEF Cells
    <3>3. \A k \in Nat : Run(jump, o + 1)[k] \in Places
      BY <1>2, <3>2, RunPlaces DEF jump
    <3>4. o + 1 + cell.size \in Places
      BY <2>2, <3>2, PlaceInt
    <3> QED BY <2>2, <3>2, <3>3, <3>4 DEF Skipped, cell, jump
  <2> QED BY <2>1, <2>2
<1> HIDE DEF S
<1>3. Nat \subseteq S
  BY <1>1, <1>2, Induction
<1> QED BY <1>3 DEF S

-----------------------------------------------------------------------------
(* seek. *)

(* An entry whose key comes once is what a map has at that key. *)
LEMMA MapEntry ==
    ASSUME NEW items, NEW size \in Nat, NEW k \in 0..(size - 1),
           \A l \in 0..(size - 1) : items[2 * l].value[2] = items[2 * k].value[2] => l = k
    PROVE  /\ items[2 * k].value[2] \in DOMAIN MapOfItems(items, size)
           /\ MapOfItems(items, size)[items[2 * k].value[2]] = items[2 * k + 1].value
<1> DEFINE Key(l) == items[2 * l].value[2]
           Last(key) == CHOOSE l \in 0..(size - 1) :
                           Key(l) = key /\ \A m \in (l + 1)..(size - 1) : Key(m) # key
<1>1. MapOfItems(items, size)
         = [key \in {Key(l) : l \in 0..(size - 1)} |-> items[2 * Last(key) + 1].value]
  BY Zenon DEF MapOfItems
<1>2. Last(Key(k)) = k
  <2>1. \A m \in (k + 1)..(size - 1) : Key(m) # Key(k)
    OBVIOUS
  <2>2. \A l \in 0..(size - 1) :
           (Key(l) = Key(k) /\ \A m \in (l + 1)..(size - 1) : Key(m) # Key(k)) => l = k
    OBVIOUS
  <2> HIDE DEF Key
  <2> QED BY <2>1, <2>2
<1> HIDE DEF Last
<1>3. Key(k) \in {Key(l) : l \in 0..(size - 1)}
  OBVIOUS
<1> HIDE DEF Key
<1>4. Key(k) \in DOMAIN MapOfItems(items, size)
  BY <1>1, <1>3
<1>5. MapOfItems(items, size)[Key(k)] = items[2 * Last(Key(k)) + 1].value
  BY <1>1, <1>3
<1> QED BY <1>2, <1>4, <1>5 DEF Key

(* The keys of a map are those of its items. *)
LEMMA MapKeys ==
    ASSUME NEW items, NEW size
    PROVE  \A key : key \in DOMAIN MapOfItems(items, size)
                       <=> \E k \in 0..(size - 1) : key = items[2 * k].value[2]
BY DEF MapOfItems

(* The key loop of seek, over a map that can be decoded, finds the first
   entry with the name, or nothing. *)
LEMMA KeySought ==
    ASSUME NEW read, Reading(read), Onward(read), NEW jump, Follows(jump, read),
           \A o \in Places : jump[o] \in Places,
           NEW off \in Nat, NEW size \in Nat, NEW name,
           ~Failed(decodeMap(read, off, size))
    PROVE  \/ /\ \A k \in 0..(size - 1) : read[Starts(read, off)[2 * k]].value[2] # name
              /\ seekKey(read, jump, off, size, name) = Missing
           \/ \E k \in 0..(size - 1) :
                 /\ read[Starts(read, off)[2 * k]].value[2] = name
                 /\ seekKey(read, jump, off, size, name)
                       = <<"offset", Starts(read, off)[2 * k + 1]>>
<1> DEFINE At(k) == Starts(read, off)[k]
           Named(k) == read[At(2 * k)].value[2] = name
           step == [o \in Places |-> IF Failed(read[o]) THEN NoOffset
                                     ELSE jump[read[o].next]]
           starts == Run(step, off)
           keys == [k \in 0..(size - 1) |-> read[starts[k]]]
           Bad(k) == Failed(keys[k]) \/ keys[k].value[1] # "string"
           Stop(k) == Bad(k) \/ keys[k].value[2] = name
           First == CHOOSE k \in 0..(size - 1) : Stop(k) /\ \A l \in 0..(k - 1) : ~Stop(l)
<1>1. seekKey(read, jump, off, size, name)
         = IF \A k \in 0..(size - 1) : ~Stop(k)
           THEN IF starts[size] = NoOffset THEN Error ELSE Missing
           ELSE IF Bad(First) THEN Error ELSE <<"offset", keys[First].next>>
  BY Zenon DEF seekKey
<1>2. /\ off \in Places
      /\ At(0) = off
      /\ \A k \in Nat : At(k) \in Places /\ At(k + 1) = read[At(k)].next
  BY PlaceInt, StartsSteps
<1>3. /\ \A k \in 0..(2 * size - 1) : ~Failed(read[At(k)])
      /\ \A k \in 0..(size - 1) : read[At(2 * k)].value[1] = "string"
  BY MapRead
<1> HIDE DEF At
<1>4. \A k \in 0..size : starts[k] = At(2 * k)
  <2> DEFINE S == {k \in Nat : k <= size => starts[k] = At(2 * k)}
  <2> HIDE DEF step
  <2>1. 0 \in S
    BY <1>2, RunSteps
  <2>2. ASSUME NEW k \in Nat, k \in S PROVE k + 1 \in S
    <3> SUFFICES ASSUME k + 1 <= size PROVE starts[k + 1] = At(2 * (k + 1))
      OBVIOUS
    <3>1. /\ 2 * k \in Nat /\ 2 * k + 1 \in Nat /\ 2 * (k + 1) = (2 * k + 1) + 1
          /\ 2 * k \in 0..(2 * size - 1) /\ 2 * k + 1 \in 0..(2 * size - 1)
      OBVIOUS
    <3>2. starts[k] = At(2 * k) /\ starts[k + 1] = step[starts[k]]
      BY <2>2, RunSteps
    <3>3. /\ At(2 * k) \in Places /\ At(2 * k + 1) \in Places
          /\ ~Failed(read[At(2 * k)]) /\ ~Failed(read[At(2 * k + 1)])
          /\ At(2 * k + 1) = read[At(2 * k)].next
          /\ At(2 * (k + 1)) = read[At(2 * k + 1)].next
      BY <1>2, <1>3, <3>1
    <3>4. step[At(2 * k)] = jump[At(2 * k + 1)]
      BY <3>3 DEF step
    <3>5. jump[At(2 * k + 1)] = read[At(2 * k + 1)].next
      BY <3>3 DEF Follows
    <3> QED BY <3>2, <3>3, <3>4, <3>5
  <2> HIDE DEF S
  <2>3. Nat \subseteq S
    BY <2>1, <2>2, Induction
  <2> QED BY <2>3 DEF S
<1> HIDE DEF step
<1>5. \A k \in 0..(size - 1) : keys[k] = read[At(2 * k)]
  BY <1>4
<1>6. \A k \in 0..(size - 1) : ~Bad(k) /\ (Stop(k) <=> Named(k))
  <2> SUFFICES ASSUME NEW k \in 0..(size - 1) PROVE ~Bad(k) /\ (Stop(k) <=> Named(k))
    OBVIOUS
  <2>1. 2 * k \in 0..(2 * size - 1)
    OBVIOUS
  <2> QED BY <1>3, <1>5, <2>1
<1>7. starts[size] \in Nat
  <2>1. 2 * size \in Nat
    OBVIOUS
  <2>2. Starts(read, off)[2 * size] \in Nat
    BY <1>3, <2>1, RunOnward DEF At
  <2> QED BY <1>4, <2>2 DEF At
<1> HIDE DEF keys
<1>8. CASE \A k \in 0..(size - 1) : ~Named(k)
  <2>1. \A k \in 0..(size - 1) : ~Stop(k)
    BY <1>6, <1>8
  <2>2. starts[size] # NoOffset
    BY <1>7 DEF NoOffset
  <2> HIDE DEF Stop, Bad, First
  <2>3. seekKey(read, jump, off, size, name) = Missing
    BY <1>1, <2>1, <2>2
  <2> QED BY <1>8, <2>3 DEF At
<1>9. CASE \E k \in 0..(size - 1) : Named(k)
  <2> DEFINE T == {k \in 0..(size - 1) : Stop(k)}
  <2>1. T \subseteq Nat /\ T # {}
    BY <1>6, <1>9
  <2>2. PICK k \in T : \A l \in T : k <= l
    BY <2>1, Least
  <2>3. k \in 0..(size - 1) /\ Stop(k) /\ \A l \in 0..(k - 1) : ~Stop(l)
    BY <2>2
  <2> HIDE DEF T, Stop
  <2>4. First \in 0..(size - 1) /\ Stop(First)
    BY <2>3
  <2> HIDE DEF First
  <2>5. ~Bad(First) /\ Named(First)
    BY <1>6, <2>4
  <2>6. seekKey(read, jump, off, size, name) = <<"offset", keys[First].next>>
    BY <1>1, <2>4, <2>5
  <2>7. 2 * First \in Nat
    BY <2>4
  <2>8. keys[First].next = At(2 * First + 1)
    BY <1>2, <1>5, <2>4, <2>7
  <2> QED BY <2>4, <2>5, <2>6, <2>8 DEF At
<1> QED BY <1>8, <1>9 DEF At

All == LevelsAt(0)  \* the levels of a whole record

(* The levels that a lookup has are a number of them. *)
LEMMA AllNat == All \in Nat
BY SectionAssumption DEF All, LevelsAt

(* A path that has left the maps leads nowhere. *)
LEMMA WalkStops ==
    ASSUME NEW record, NEW path, NEW j \in Nat, Walk(record, path)[j] = Missing
    PROVE  \A m \in Nat : j <= m => Walk(record, path)[m] = Missing
<1> DEFINE S == {m \in Nat : Walk(record, path)[j + m] = Missing}
<1>1. 0 \in S
  OBVIOUS
<1>2. ASSUME NEW m \in Nat, m \in S PROVE m + 1 \in S
  <2>1. Walk(record, path)[(j + m) + 1]
           = Into(Walk(record, path)[j + m], path[(j + m) + 1])
    BY WalkSteps
  <2>2. \A p : Into(Missing, p) = Missing
    BY DEF Into, Missing
  <2>3. j + (m + 1) = (j + m) + 1
    OBVIOUS
  <2> QED BY <1>2, <2>1, <2>2, <2>3
<1> HIDE DEF S
<1>3. Nat \subseteq S
  BY <1>1, <1>2, Induction
<1>4. ASSUME NEW m \in Nat, j <= m PROVE m - j \in Nat /\ j + (m - j) = m
  BY <1>4
<1> QED BY <1>3, <1>4 DEF S

(* What the keys of a map being distinct means for its entries. *)
LEMMA DistinctNext ==
    ASSUME NEW data \in Sections, NEW n \in Nat, NEW o \in Nat, o < Len(data),
           KeysDistinct(data)[n + 1][o]
    PROVE  LET cell == data[o + 1]
               Item(k) == Starts(Dec(data)[All], o + 1)[k]
           IN /\ cell.type = "pointer" => KeysDistinct(data)[n][cell.num]
              /\ cell.type = "map" => \A k, l \in 0..(cell.size - 1) :
                    /\ KeysDistinct(data)[n][Item(2 * k + 1)]
                    /\ Dec(data)[All][Item(2 * k)].value[2]
                          = Dec(data)[All][Item(2 * l)].value[2] => k = l
<1> DEFINE cell == data[o + 1]
           Item(k) == Starts(Dec(data)[All], o + 1)[k]
<1>1. o \in Places
  BY PlaceInt
<1>2. DistinctOne(data, KeysDistinct(data)[n], o)
  <2>1. KeysDistinct(data)[n + 1]
           = [off \in Places |-> DistinctOne(data, KeysDistinct(data)[n], off)]
    BY KeysDistinctSteps
  <2> QED BY <1>1, <2>1
<1>3. at(memSource(data), o, 1)[1] = cell
  BY <1>1, MemoryReads, CellRead
<1> HIDE DEF cell
<1>4. ASSUME cell.type = "pointer" PROVE KeysDistinct(data)[n][cell.num]
  BY <1>2, <1>3, <1>4 DEF DistinctOne, PointerTarget
<1>5. ASSUME cell.type = "map", NEW k \in 0..(cell.size - 1), NEW l \in 0..(cell.size - 1)
      PROVE  /\ KeysDistinct(data)[n][Item(2 * k + 1)]
             /\ Dec(data)[All][Item(2 * k)].value[2]
                   = Dec(data)[All][Item(2 * l)].value[2] => k = l
  BY <1>2, <1>3, <1>5 DEF DistinctOne, Dec, All
<1> QED BY <1>4, <1>5 DEF cell

(* What seeking promises: the offset of the value that the path leads to in
   the decoded record, or nothing where the path does not lead to one. *)
Finds(data, answer, found) ==
    \/ answer = Missing /\ found = Missing
    \/ \E p \in Places : /\ answer = <<"offset", p>>
                         /\ ~Failed(Dec(data)[All][p])
                         /\ Dec(data)[All][p].value = found

(* Where a record decodes, with keys that are distinct, seek finds the value
   that the path leads to in the decoded record: through pointers, past the
   values that skip steps over, from each part of the path to the next. *)
LEMMA SeekFinds ==
    ASSUME NEW data \in Sections, NEW src, ReadsAs(src, data), NEW path, Len(path) \in Nat,
           NEW record
    PROVE  \A n \in Nat : n <= All =>
              \A o \in Places : \A j \in 0..Len(path) :
                 /\ ~Failed(Dec(data)[n][o]) /\ KeysDistinct(data)[n][o]
                 /\ Walk(record, path)[j] = Dec(data)[n][o].value
                 => Finds(data, Seeker(src, path)[n][o][j], Walk(record, path)[Len(path)])
<1> DEFINE w == Walk(record, path)
           end == w[Len(path)]
           Claim(n) == \A o \in Places : \A j \in 0..Len(path) :
                 /\ ~Failed(Dec(data)[n][o]) /\ KeysDistinct(data)[n][o]
                 /\ w[j] = Dec(data)[n][o].value
                 => Finds(data, Seeker(src, path)[n][o][j], end)
           S == {n \in Nat : n <= All => Claim(n)}
<1>0. \A m \in Nat : w[m + 1] = Into(w[m], path[m + 1])
  BY WalkSteps
<1>1. 0 \in S
  BY DecZero
<1>2. ASSUME NEW n \in Nat, n \in S PROVE n + 1 \in S
  <2> SUFFICES ASSUME n + 1 <= All, NEW o \in Places, NEW j \in 0..Len(path),
                      ~Failed(Dec(data)[n + 1][o]), KeysDistinct(data)[n + 1][o],
                      w[j] = Dec(data)[n + 1][o].value
               PROVE  Finds(data, Seeker(src, path)[n + 1][o][j], end)
    OBVIOUS
  <2>1. Claim(n)
    BY <1>2, AllNat
  <2> HIDE DEF S, Claim
  <2> DEFINE read == Dec(data)[n]
             full == Dec(data)[All]
             cell == data[o + 1]
             it == Decoded(data, read, o)
             answer == Seeker(src, path)[n + 1][o][j]
             find == Seeker(src, path)[n]
             entry == seekKey(read, Skp(data)[n], o + 1, cell.size, path[j + 1])
  <2>2. Dec(data)[n + 1][o] = it
    BY DecNext
  <2>3. /\ o \in Nat /\ o < Len(data) /\ cell \in Cells
        /\ \/ /\ cell.type = "pointer" /\ cell.num \in Nat
              /\ ~Failed(read[cell.num])
              /\ it = Result(read[cell.num].value, o + 1)
           \/ cell.type = "bool" /\ it = Result(<<"bool", cell.size # 0>>, o + 1)
           \/ cell.type = "container" /\ it = Result(Nil, o + 1)
           \/ cell.type = "map" /\ it = decodeMap(read, o + 1, cell.size)
           \/ cell.type = "array" /\ it = decodeArray(read, o + 1, cell.size)
           \/ /\ cell.type \in ScalarTypes
              /\ o + 1 + cell.size <= Len(data)
              /\ it = Result(Scalar(cell, SubSeq(data, o + 1 + 1, o + 1 + cell.size)),
                             o + 1 + cell.size)
    BY <2>2, DecodedCases, Zenon
  <2>4. answer = Sought(data, path, read, Skp(data)[n], find, o, j)
    BY SekLevels
  <2>5. /\ Reading(read) /\ Onward(read) /\ Reading(full) /\ Extends(full, read)
        /\ Follows(Skp(data)[n], read)
        /\ \A p \in Places : Skp(data)[n][p] \in Places
    BY AllNat, DecSound, DecKept, SkpFollows, SkpPlaces
  <2>6. o + 1 \in Nat /\ cell.size \in Nat /\ Nat \subseteq Places
    BY <2>3, PlaceInt DEF Cells
  <2>7. j \in Nat /\ Len(path) \in Nat /\ (j < Len(path) => j + 1 \in 0..Len(path))
    OBVIOUS
  <2>8. CASE j = Len(path)
    <3>1. answer = <<"offset", o>>
      BY <2>4, <2>8 DEF Sought
    <3>2. full[o] = Dec(data)[n + 1][o]
      BY AllNat, DecKept DEF Extends
    <3> QED BY <2>8, <3>1, <3>2 DEF Finds
  <2>9. CASE j < Len(path) /\ cell.type = "pointer"
    <3> HIDE DEF cell, it, answer, read, find
    <3>1. answer = find[cell.num][j]
      BY <2>3, <2>4, <2>9 DEF Sought, cell
    <3>2. cell.num \in Places /\ ~Failed(read[cell.num]) /\ w[j] = read[cell.num].value
      BY <2>2, <2>3, <2>6, <2>9 DEF Result, ScalarTypes
    <3>3. KeysDistinct(data)[n][cell.num]
      BY <2>3, <2>9, DistinctNext DEF cell
    <3> QED BY <2>1, <3>1, <3>2, <3>3 DEF Claim, answer, find, read
  <2>10. CASE j < Len(path) /\ cell.type = "map"
    <3> DEFINE items == MapItems(read, o + 1, cell.size)
               At(k) == Starts(read, o + 1)[k]
               name == path[j + 1]
               m == MapOfItems(items, cell.size)
    <3> HIDE DEF read, full, cell, it, answer, find, w
    <3>1. /\ ~Failed(decodeMap(read, o + 1, cell.size))
          /\ it = decodeMap(read, o + 1, cell.size)
      BY <2>2, <2>3, <2>10 DEF ScalarTypes
    <3>2. answer = IF entry[1] = "offset" THEN find[entry[2]][j + 1] ELSE entry
      BY <2>3, <2>4, <2>10 DEF Sought, cell
    <3>3. w[j] = <<"map", m>>
      BY <2>2, <2>6, <3>1, MapRead DEF Result
    <3>4. w[j + 1] = IF name \in DOMAIN m THEN m[name] ELSE Missing
      <4>1. w[j + 1] = Into(w[j], name)
        BY <1>0, <2>7
      <4> QED BY <3>3, <4>1 DEF Into
    <3>5. \/ /\ \A k \in 0..(cell.size - 1) : read[At(2 * k)].value[2] # name
             /\ entry = Missing
          \/ \E k \in 0..(cell.size - 1) :
                read[At(2 * k)].value[2] = name /\ entry = <<"offset", At(2 * k + 1)>>
      <4> DEFINE jump == Skp(data)[n]
                 off == o + 1
                 size == cell.size
      <4>1. /\ Reading(read) /\ Onward(read) /\ Follows(jump, read)
            /\ \A p \in Places : jump[p] \in Places
            /\ off \in Nat /\ size \in Nat
            /\ ~Failed(decodeMap(read, off, size))
        BY <2>5, <2>6, <3>1
      <4> HIDE DEF jump, off, size, name
      <4>2. \/ /\ \A k \in 0..(size - 1) : read[Starts(read, off)[2 * k]].value[2] # name
               /\ seekKey(read, jump, off, size, name) = Missing
            \/ \E k \in 0..(size - 1) :
                  /\ read[Starts(read, off)[2 * k]].value[2] = name
                  /\ seekKey(read, jump, off, size, name)
                        = <<"offset", Starts(read, off)[2 * k + 1]>>
        BY <4>1, KeySought
      <4> QED BY <4>2 DEF jump, off, size, name
    <3>6. /\ o + 1 \in Places
          /\ \A k \in 0..(2 * cell.size) : Starts(full, o + 1)[k] = At(k)
          /\ \A k \in 0..(2 * cell.size - 1) : ~Failed(read[At(k)])
          /\ \A k \in Nat : At(k) \in Places
      <4>1. o + 1 \in Places
        BY <2>6
      <4>2. \A k \in 0..(2 * cell.size) : Starts(full, o + 1)[k] = At(k)
        BY <2>5, <2>6, <3>1, <4>1, SameMap
      <4>3. \A k \in 0..(2 * cell.size - 1) : ~Failed(read[At(k)])
        BY <2>6, <3>1, MapRead
      <4>4. \A k \in Nat : At(k) \in Places
        BY <2>5, <4>1, StartsSteps
      <4> QED BY <4>1, <4>2, <4>3, <4>4
    <3>7. \A k \in 0..(2 * cell.size - 1) : /\ items[k] = read[At(k)]
                                            /\ full[Starts(full, o + 1)[k]] = read[At(k)]
      <4>1. ASSUME NEW k \in 0..(2 * cell.size - 1) PROVE items[k] = read[At(k)]
        BY DEF MapItems
      <4>2. ASSUME NEW k \in 0..(2 * cell.size - 1)
            PROVE  full[Starts(full, o + 1)[k]] = read[At(k)]
        <5>1. k \in Nat /\ k \in 0..(2 * cell.size)
          BY <2>6
        <5> QED BY <2>5, <3>6, <5>1 DEF Extends
      <4> QED BY <4>1, <4>2
    <3>8. \A k \in 0..(cell.size - 1) : 2 * k \in 0..(2 * cell.size - 1)
                                       /\ 2 * k + 1 \in 0..(2 * cell.size - 1)
      BY <2>6
    <3>9. CASE /\ \A k \in 0..(cell.size - 1) : read[At(2 * k)].value[2] # name
               /\ entry = Missing
      <4>1. name \notin DOMAIN m
        <5>1. \A k \in 0..(cell.size - 1) : items[2 * k].value[2] # name
          BY <3>7, <3>8, <3>9
        <5> HIDE DEF items
        <5> QED BY <5>1, MapKeys
      <4>2. w[j + 1] = Missing
        BY <3>4, <4>1
      <4>3. end = Missing
        BY <2>7, <2>10, <4>2, WalkStops DEF w
      <4>4. answer = Missing
        BY <3>2, <3>9 DEF Missing
      <4> QED BY <4>3, <4>4 DEF Finds, answer
    <3>10. ASSUME NEW k \in 0..(cell.size - 1), read[At(2 * k)].value[2] = name,
                  entry = <<"offset", At(2 * k + 1)>>
           PROVE  Finds(data, answer, end)
      <4> DEFINE place == At(2 * k + 1)
      <4>1. 2 * k \in 0..(2 * cell.size - 1) /\ 2 * k + 1 \in 0..(2 * cell.size - 1)
            /\ 2 * k + 1 \in Nat /\ 2 * k + 1 \in 0..(2 * cell.size)
        BY <2>6
      <4>2. place \in Places /\ ~Failed(read[place]) /\ items[2 * k + 1] = read[place]
        BY <3>6, <3>7, <4>1
      <4>3. \A l \in 0..(cell.size - 1) : items[2 * l] = full[Starts(full, o + 1)[2 * l]]
        BY <3>7, <3>8
      <4>4. /\ KeysDistinct(data)[n][Starts(full, o + 1)[2 * k + 1]]
            /\ \A l \in 0..(cell.size - 1) :
                  full[Starts(full, o + 1)[2 * l]].value[2]
                     = full[Starts(full, o + 1)[2 * k]].value[2] => l = k
        BY <2>3, <2>10, DistinctNext DEF full, cell
      <4>5. KeysDistinct(data)[n][place]
        BY <3>6, <4>1, <4>4
      <4>6. \A l \in 0..(cell.size - 1) :
               items[2 * l].value[2] = items[2 * k].value[2] => l = k
        BY <4>3, <4>4
      <4>7. items[2 * k].value[2] = name
        BY <3>7, <3>10, <4>1
      <4>8. name \in DOMAIN m /\ m[name] = items[2 * k + 1].value
        <5> HIDE DEF items
        <5> QED BY <2>6, <4>6, <4>7, MapEntry
      <4>9. w[j + 1] = read[place].value
        BY <3>4, <4>2, <4>8
      <4>10. answer = find[place][j + 1]
        BY <3>2, <3>10
      <4> HIDE DEF place
      <4> QED BY <2>1, <2>7, <2>10, <4>2, <4>5, <4>9, <4>10 DEF Claim, answer, find, read
    <3> QED BY <3>5, <3>9, <3>10 DEF answer
  <2>11. CASE j < Len(path) /\ cell.type \notin {"pointer", "map"}
    <3>1. answer = Missing
      <4> HIDE DEF answer, find, read, cell
      <4> QED BY <2>3, <2>4, <2>11 DEF Sought, cell
    <3>2. w[j][1] # "map"
      <4>1. CASE cell.type = "bool" /\ it = Result(<<"bool", cell.size # 0>>, o + 1)
        BY <2>2, <4>1 DEF Result
      <4>2. CASE it = Result(Nil, o + 1)
        BY <2>2, <4>2 DEF Result, Nil
      <4>3. CASE cell.type = "array" /\ it = decodeArray(read, o + 1, cell.size)
        <5>1. it.value = <<"array", Elements(read, o + 1, cell.size)>>
          BY <2>2, <2>6, <4>3, ArrayRead DEF Result
        <5> QED BY <2>2, <5>1
      <4>4. CASE cell.type \in ScalarTypes
                 /\ it = Result(Scalar(cell, SubSeq(data, o + 1 + 1, o + 1 + cell.size)),
                                o + 1 + cell.size)
        <5>1. \A payload : Scalar(cell, payload)[1] # "map"
          BY <4>4 DEF Scalar, ScalarTypes
        <5> QED BY <2>2, <4>4, <5>1 DEF Result
      <4> QED BY <2>3, <2>11, <4>1, <4>2, <4>3, <4>4
    <3>3. w[j + 1] = Missing
      <4>1. w[j + 1] = Into(w[j], path[j + 1])
        BY <1>0, <2>7
      <4> QED BY <3>2, <4>1 DEF Into
    <3>4. end = Missing
      BY <2>7, <2>11, <3>3, WalkStops DEF w
    <3> QED BY <3>1, <3>4 DEF Finds
  <2> QED BY <2>7, <2>8, <2>9, <2>10, <2>11
<1> HIDE DEF S
<1>3. Nat \subseteq S
  BY <1>1, <1>2, Induction
<1> QED BY <1>3 DEF S

-----------------------------------------------------------------------------
(* Texts and fields. *)

(* The text of what a record has at a path, none for what it has not. *)
TextOf(f, raw, kind) == IF raw = Missing THEN <<>> ELSE format(f, raw, kind)

(* The minimum of a set of numbers is its least member. *)
LEMMA MinOf ==
    ASSUME NEW T, T \subseteq Nat, T # {}
    PROVE  Min(T) \in T /\ \A y \in T : Min(T) <= y
BY Least DEF Min

(* The text of a value is made from the texts of the values inside it. *)
LEMMA FormatIs ==
    ASSUME NEW f, NEW raw, NEW kind
    PROVE  format(f, raw, kind) = FormatOne(f, Texts(f, raw, kind)[Nesting - 1], raw, kind)
<1> DEFINE n == Nesting - 1
           text == Texts(f, raw, kind)
<1>1. n \in Nat /\ n + 1 = Nesting /\ Nesting - (n + 1) = 0
  BY NestingNat
<1>2. Parts(raw)[0] = {raw}
  BY PartsSteps
<1> HIDE DEF n, text
<1>3. raw \in Parts(raw)[Nesting - (n + 1)]
  BY <1>1, <1>2
<1>4. text[n + 1][raw][kind] = FormatOne(f, text[n], raw, kind)
  BY <1>1, <1>3, TextsSteps DEF text
<1> QED BY <1>1, <1>4 DEF format, n, text

(* Null has no text, so it is as good as missing. *)
LEMMA NilText == ASSUME NEW f, NEW kind PROVE format(f, Nil, kind) = <<>>
BY FormatIs DEF FormatOne, Nil

(* extract asks for no more than the texts at its paths. *)
LEMMA ExtractIs ==
    ASSUME NEW f, NEW record, NEW def
    PROVE  extract(f, record, def) =
              LET hits == {j \in DOMAIN def.paths :
                              TextOf(f, record[def.paths[j]], def.kind) # <<>>}
              IN IF hits # {} THEN TextOf(f, record[def.paths[Min(hits)]], def.kind)
                 ELSE IF \E j \in DOMAIN def.presence :
                            TextOf(f, record[def.presence[j]], "string") # <<>>
                 THEN f.trueValue ELSE <<>>
BY Zenon DEF extract, TextOf, NonEmpty

(* The paths of a definition are those its record is asked for. *)
LEMMA DefinitionPaths ==
    ASSUME NEW def \in Definitions
    PROVE  /\ DOMAIN def.paths \subseteq Nat
           /\ \A j \in DOMAIN def.paths : def.paths[j] \in PathsOf(def)
           /\ \A j \in DOMAIN def.presence : def.presence[j] \in PathsOf(def)
           /\ PathsOf(def) \subseteq Paths
<1>1. def.paths \in Seq(Paths) /\ def.presence \in Seq(Paths)
  BY DEF Definitions
<1>2. /\ DOMAIN def.paths = 1..Len(def.paths) /\ Len(def.paths) \in Nat
      /\ DOMAIN def.presence = 1..Len(def.presence)
      /\ \A j \in DOMAIN def.paths : def.paths[j] \in Paths
      /\ \A j \in DOMAIN def.presence : def.presence[j] \in Paths
  BY <1>1, LenProperties, ElementOfSeq
<1> QED BY <1>2 DEF PathsOf, Range

(* Records with the same texts give the same field. *)
LEMMA SameExtract ==
    ASSUME NEW f, NEW record, NEW other, NEW def \in Definitions,
           \A path \in PathsOf(def) : \A kind :
              TextOf(f, record[path], kind) = TextOf(f, other[path], kind)
    PROVE  extract(f, record, def) = extract(f, other, def)
<1> DEFINE Text(r, path, kind) == TextOf(f, r[path], kind)
           Hits(r) == {j \in DOMAIN def.paths : Text(r, def.paths[j], def.kind) # <<>>}
           Present(r) == \E j \in DOMAIN def.presence :
                            Text(r, def.presence[j], "string") # <<>>
           Answer(r) == IF Hits(r) # {} THEN Text(r, def.paths[Min(Hits(r))], def.kind)
                        ELSE IF Present(r) THEN f.trueValue ELSE <<>>
<1>1. extract(f, record, def) = Answer(record) /\ extract(f, other, def) = Answer(other)
  BY ExtractIs, Zenon
<1>2. Hits(record) = Hits(other) /\ (Present(record) <=> Present(other))
  BY DefinitionPaths
<1>3. ASSUME Hits(record) # {}
      PROVE  Text(record, def.paths[Min(Hits(record))], def.kind)
                = Text(other, def.paths[Min(Hits(record))], def.kind)
  <2>1. Min(Hits(record)) \in DOMAIN def.paths
    BY <1>3, MinOf, DefinitionPaths
  <2> QED BY <2>1, DefinitionPaths
<1> HIDE DEF Hits, Present, Text
<1> QED BY <1>1, <1>2, <1>3

-----------------------------------------------------------------------------
(* A record that decodes, with distinct keys, has the same text at a path
   whichever way the path is followed, through a window or in memory. *)
LEMMA SourceReads ==
    ASSUME NEW data \in Sections, NEW off \in Nat, NEW memory \in BOOLEAN
    PROVE  ReadsAs(Source(data, off, memory), data)
BY MemoryReads, WindowReads DEF Source

(* The text at a path of a record that decodes, with distinct keys, is the one
   in the decoded record, whichever way the path is followed. *)
LEMMA SameText ==
    ASSUME NEW data \in Sections, NEW off \in Nat, Intact(data, off),
           NEW path \in Paths, NEW f, NEW kind,
           NEW seekOnly \in BOOLEAN, NEW memory \in BOOLEAN
    PROVE  TextOf(f, value(data, off, path, seekOnly, memory), kind)
              = TextOf(f, Walk(Dec(data)[All][off].value, path)[Len(path)], kind)
<1> DEFINE src == Source(data, off, memory)
           record == Dec(data)[All][off].value
           end == Walk(record, path)[Len(path)]
<1>1. ReadsAs(src, data)
  BY SourceReads
<1>2. off \in Places /\ Len(path) \in Nat /\ 0 \in 0..Len(path)
  BY PlaceInt DEF Paths
<1>3. \A p : decode(src, p, 0).value = Dec(data)[All][p].value
  BY <1>1, AllNat, SameReaders DEF decode, All
<1>4. ~Failed(Dec(data)[All][off]) /\ KeysDistinct(data)[All][off]
  BY DEF Intact, lookupRecordAt, decode, Source, Dec, All, Failed
<1> HIDE DEF src
<1>5. CASE ~seekOnly
  <2>1. lookupRecordAt(data, off, memory) = record /\ record # Error
    BY <1>3, <1>4 DEF lookupRecordAt, src, Failed
  <2>2. value(data, off, path, seekOnly, memory) = resolvePath(record, path)
    BY <1>5, <2>1 DEF value, UnlessFailed
  <2>3. resolvePath(record, path) = IF end = Nil THEN Missing ELSE end
    BY DEF resolvePath
  <2> QED BY <2>2, <2>3, NilText DEF TextOf, Nil, Missing
<1>6. CASE seekOnly
  <2> DEFINE target == Seeker(src, path)[All][off][0]
  <2>1. Walk(record, path)[0] = record
    BY WalkSteps
  <2>2. Finds(data, target, end)
    BY <1>1, <1>2, <1>4, <2>1, AllNat, SeekFinds
  <2>3. seek(src, off, path) = target
    BY DEF seek, All
  <2> HIDE DEF target
  <2>4. Value(data, off, path, memory)
           = IF target[1] = "offset" THEN decode(src, target[2], 0).value ELSE target
    BY <2>3 DEF Value, FoundValue, src
  <2>5. Value(data, off, path, memory) = end /\ end # Error
    BY <1>3, <2>2, <2>4 DEF Finds, Failed, Missing, Error
  <2> QED BY <1>6, <2>5 DEF value, UnlessFailed
<1> QED BY <1>5, <1>6

-----------------------------------------------------------------------------
(* The values that a section holds. *)

(* A value of a map is that of one of its items. *)
LEMMA MapValues ==
    ASSUME NEW items, NEW size \in Nat,
           NEW key \in DOMAIN MapOfItems(items, size)
    PROVE  \E k \in 0..(size - 1) : MapOfItems(items, size)[key] = items[2 * k + 1].value
<1> DEFINE Key(l) == items[2 * l].value[2]
           Ends(l, name) == Key(l) = name /\ \A m \in (l + 1)..(size - 1) : Key(m) # name
           Last(name) == CHOOSE l \in 0..(size - 1) : Ends(l, name)
           T == {l \in 0..(size - 1) : Key(l) = key}
<1>1. MapOfItems(items, size)
         = [name \in {Key(l) : l \in 0..(size - 1)} |-> items[2 * Last(name) + 1].value]
  BY Zenon DEF MapOfItems
<1>2. PICK l \in 0..(size - 1) : Key(l) = key
  BY MapKeys
<1>3. T \subseteq 0..size /\ T # {}
  <2>1. l \in T
    BY <1>2
  <2>2. ASSUME NEW y \in T PROVE y \in 0..size
    <3>1. y \in 0..(size - 1)
      OBVIOUS
    <3> QED BY <3>1
  <2> QED BY <2>1, <2>2
<1>4. PICK x \in T : \A y \in T : y <= x
  BY <1>3, Greatest
<1>5. Ends(x, key)
  BY <1>4
<1> HIDE DEF Ends
<1>6. Last(key) \in 0..(size - 1)
  BY <1>5
<1> HIDE DEF Last, Key
<1>7. MapOfItems(items, size)[key] = items[2 * Last(key) + 1].value
  BY <1>1
<1> QED BY <1>6, <1>7

(* The values that can be read from a section, at any depth. *)
IsValue(data, x) ==
    \E n \in Nat : \E o \in Places :
        ~Failed(Dec(data)[n][o]) /\ x = Dec(data)[n][o].value

(* A set of no more than so many keys. *)
Keyed(K, size) ==
    /\ K \subseteq Seq(STRING)
    /\ \E key : \A name \in K : \E k \in 0..(size - 1) : name = key[k]

(* What the content of a value is, by its tag. *)
Sound(x) ==
    /\ x[1] \in {"string", "bytes"} => x[2] \in Seq(STRING)
    /\ x[1] \in {"uint", "int", "float"} => x[2] \in Int
    /\ x[1] = "bool" => x[2] \in BOOLEAN
    /\ x[1] = "array" => x[2] \in Seq(Inside(x))
    /\ x[1] = "map" => \E size \in Nat : Keyed(DOMAIN x[2], size)

(* A list of elements is a sequence of them. *)
LEMMA ListIsSeq ==
    ASSUME NEW T, NEW m \in Nat, NEW list \in [1..m -> T]
    PROVE  list \in Seq(T)
OBVIOUS

(* A scalar has the content that its tag says. *)
LEMMA ScalarSound ==
    ASSUME NEW cell \in Cells, cell.type \in ScalarTypes, NEW payload \in Seq(Cells)
    PROVE  Sound(Scalar(cell, payload)) /\ Scalar(cell, payload)[1] \in ScalarTypes
<1>1. cell.word \in STRING /\ cell.num \in Int
  BY DEF Cells
<1>2. [j \in DOMAIN payload |-> payload[j].word] \in Seq(STRING)
  <2>1. Len(payload) \in Nat /\ DOMAIN payload = 1..Len(payload)
        /\ \A j \in DOMAIN payload : payload[j] \in Cells
    BY LenProperties, ElementOfSeq
  <2>2. \A j \in DOMAIN payload : payload[j].word \in STRING
    BY <2>1 DEF Cells
  <2> QED BY <2>1, <2>2
<1> DEFINE words == [j \in DOMAIN payload |-> payload[j].word]
<1> HIDE DEF words
<1>3. <<cell.word>> \o words \in Seq(STRING)
  BY <1>1, <1>2, ConcatProperties DEF words
<1>4. CASE cell.type \in {"string", "bytes"}
  <2>1. Scalar(cell, payload) = <<cell.type, <<cell.word>> \o words>>
    BY <1>4 DEF Scalar, words
  <2> DEFINE text == <<cell.word>> \o words
  <2> HIDE DEF text
  <2> QED BY <1>3, <1>4, <2>1 DEF Sound, ScalarTypes, text
<1>5. CASE cell.type \in {"uint", "int", "float"}
  <2>1. Scalar(cell, payload) = <<cell.type, cell.num>>
    BY <1>5 DEF Scalar
  <2> QED BY <1>1, <1>5, <2>1 DEF Sound, ScalarTypes
<1> QED BY <1>4, <1>5 DEF ScalarTypes

(* So has every value that a section holds, and what is inside it the section
   holds too. *)
LEMMA ValuesSound ==
    ASSUME NEW data \in Sections
    PROVE  \A n \in Nat : \A o \in Places : ~Failed(Dec(data)[n][o]) =>
              /\ Sound(Dec(data)[n][o].value)
              /\ \A y \in Inside(Dec(data)[n][o].value) : IsValue(data, y)
<1> DEFINE Good(x) == Sound(x) /\ \A y \in Inside(x) : IsValue(data, y)
           S == {n \in Nat : \A o \in Places :
                    ~Failed(Dec(data)[n][o]) => Good(Dec(data)[n][o].value)}
<1>1. 0 \in S
  BY DecZero
<1>2. ASSUME NEW n \in Nat, n \in S PROVE n + 1 \in S
  <2> SUFFICES ASSUME NEW o \in Places, ~Failed(Dec(data)[n + 1][o])
               PROVE  Good(Dec(data)[n + 1][o].value)
    OBVIOUS
  <2> DEFINE read == Dec(data)[n]
             cell == data[o + 1]
             it == Decoded(data, read, o)
  <2>1. Dec(data)[n + 1][o] = it
    BY DecNext
  <2>2. /\ o \in Nat /\ o < Len(data) /\ cell \in Cells
        /\ \/ /\ cell.type = "pointer" /\ cell.num \in Nat
              /\ ~Failed(read[cell.num])
              /\ it = Result(read[cell.num].value, o + 1)
           \/ cell.type = "bool" /\ it = Result(<<"bool", cell.size # 0>>, o + 1)
           \/ cell.type = "container" /\ it = Result(Nil, o + 1)
           \/ cell.type = "map" /\ it = decodeMap(read, o + 1, cell.size)
           \/ cell.type = "array" /\ it = decodeArray(read, o + 1, cell.size)
           \/ /\ cell.type \in ScalarTypes
              /\ o + 1 + cell.size <= Len(data)
              /\ it = Result(Scalar(cell, SubSeq(data, o + 1 + 1, o + 1 + cell.size)),
                             o + 1 + cell.size)
    BY <2>1, DecodedCases, Zenon
  <2>3. \A p \in Places : ~Failed(read[p]) => IsValue(data, read[p].value)
    BY DEF IsValue
  <2>4. o + 1 \in Places /\ cell.size \in Nat /\ Nat \subseteq Places
    BY <2>2, PlaceInt DEF Cells
  <2>5. \A k \in Nat : Starts(read, o + 1)[k] \in Places
    BY <2>4, DecSound, StartsSteps
  <2> HIDE DEF cell, it
  <2>6. CASE cell.type = "pointer" /\ cell.num \in Nat /\ ~Failed(read[cell.num])
             /\ it = Result(read[cell.num].value, o + 1)
    <3>1. Good(read[cell.num].value)
      BY <1>2, <2>4, <2>6
    <3> QED BY <2>1, <2>6, <3>1 DEF Result
  <2>7. CASE it = Result(<<"bool", cell.size # 0>>, o + 1)
    BY <2>1, <2>7 DEF Result, Sound, Inside
  <2>8. CASE it = Result(Nil, o + 1)
    BY <2>1, <2>8 DEF Result, Sound, Inside, Nil
  <2>9. CASE it = decodeMap(read, o + 1, cell.size)
    <3> DEFINE items == MapItems(read, o + 1, cell.size)
               m == MapOfItems(items, cell.size)
               off == o + 1
               size == cell.size
    <3>1. size \in Nat /\ ~Failed(decodeMap(read, off, size))
      BY <2>1, <2>4, <2>9
    <3> HIDE DEF read, off, size
    <3>2. /\ decodeMap(read, off, size)
                 = Result(<<"map", MapOfItems(MapItems(read, off, size), size)>>,
                          Starts(read, off)[2 * size])
          /\ \A k \in 0..(2 * size - 1) : ~Failed(read[Starts(read, off)[k]])
          /\ \A k \in 0..(size - 1) : read[Starts(read, off)[2 * k]].value[1] = "string"
      BY <3>1, MapRead
    <3>3. it.value = <<"map", m>>
      BY <2>9, <3>2 DEF Result, off, size
    <3>4. ASSUME NEW k \in 0..(size - 1) PROVE IsValue(data, items[2 * k + 1].value)
      <4>1. 2 * k + 1 \in 0..(2 * size - 1) /\ 2 * k + 1 \in Nat
        BY <3>1
      <4>2. items[2 * k + 1] = read[Starts(read, off)[2 * k + 1]]
        BY <4>1 DEF MapItems, off, size
      <4> QED BY <2>3, <2>5, <3>2, <4>1, <4>2 DEF off
    <3>5. ASSUME NEW k \in 0..(size - 1) PROVE items[2 * k].value[2] \in Seq(STRING)
      <4>1. 2 * k \in 0..(2 * size - 1) /\ 2 * k \in Nat
        BY <3>1
      <4>2. items[2 * k] = read[Starts(read, off)[2 * k]]
        BY <4>1 DEF MapItems, off, size
      <4>3. Starts(read, off)[2 * k] \in Places
        BY <2>5, <4>1 DEF off
      <4> QED BY <1>2, <3>2, <4>1, <4>2, <4>3 DEF Sound, read
    <3> HIDE DEF items
    <3>6. Keyed(DOMAIN m, size)
      <4> DEFINE key == [k \in 0..(size - 1) |-> items[2 * k].value[2]]
      <4>1. \A name \in DOMAIN m : \E k \in 0..(size - 1) : name = key[k]
        BY MapKeys DEF size
      <4>2. \A k \in 0..(size - 1) : key[k] \in Seq(STRING)
        BY <3>5
      <4> HIDE DEF key, m
      <4> QED BY <4>1, <4>2 DEF Keyed
    <3>7. ASSUME NEW key \in DOMAIN m PROVE IsValue(data, m[key])
      BY <3>1, <3>4, MapValues DEF size
    <3> HIDE DEF m
    <3> QED BY <2>1, <3>1, <3>3, <3>6, <3>7 DEF Sound, Inside
  <2>10. CASE it = decodeArray(read, o + 1, cell.size)
    <3> DEFINE off == o + 1
               size == cell.size
               list == Elements(read, off, size)
    <3>1. size \in Nat /\ ~Failed(decodeArray(read, off, size))
      BY <2>1, <2>4, <2>10
    <3> HIDE DEF read, off, size
    <3>2. /\ decodeArray(read, off, size)
                 = Result(<<"array", Elements(read, off, size)>>, Starts(read, off)[size])
          /\ \A k \in 0..(size - 1) : ~Failed(read[Starts(read, off)[k]])
      BY <3>1, ArrayRead
    <3>3. it.value = <<"array", list>>
      BY <2>10, <3>2 DEF Result, off, size
    <3>4. DOMAIN list = 1..size
      BY DEF Elements
    <3>5. ASSUME NEW k \in 1..size PROVE IsValue(data, list[k])
      <4>1. k - 1 \in 0..(size - 1) /\ k - 1 \in Nat
        BY <3>1
      <4>2. list[k] = read[Starts(read, off)[k - 1]].value
        BY DEF Elements
      <4> QED BY <2>3, <2>5, <3>2, <4>1, <4>2 DEF off
    <3> DEFINE all == {list[k] : k \in DOMAIN list}
    <3>6. list \in Seq(all)
      <4>1. list \in [1..size -> all]
        BY <3>4 DEF Elements
      <4> HIDE DEF list, all
      <4> QED BY <3>1, <4>1, ListIsSeq
    <3> HIDE DEF list
    <3>7. Inside(it.value) = all /\ \A y \in all : \E k \in DOMAIN list : y = list[k]
      BY <3>3 DEF Inside
    <3> HIDE DEF all
    <3>8. Sound(it.value)
      <4>1. it.value[1] = "array" /\ it.value[2] \in Seq(Inside(it.value))
        BY <3>3, <3>6, <3>7
      <4> HIDE DEF it
      <4> QED BY <4>1 DEF Sound
    <3>9. \A y \in Inside(it.value) : IsValue(data, y)
      BY <3>4, <3>5, <3>7
    <3> QED BY <2>1, <3>8, <3>9
  <2>11. CASE /\ cell.type \in ScalarTypes
              /\ o + 1 + cell.size <= Len(data)
              /\ it = Result(Scalar(cell, SubSeq(data, o + 1 + 1, o + 1 + cell.size)),
                             o + 1 + cell.size)
    <3> DEFINE payload == SubSeq(data, o + 1 + 1, o + 1 + cell.size)
    <3>1. payload \in Seq(Cells)
      BY <2>2, <2>4, <2>11, SubSeqProperties DEF Sections
    <3> HIDE DEF payload
    <3>2. Sound(Scalar(cell, payload)) /\ Scalar(cell, payload)[1] \in ScalarTypes
      BY <2>2, <2>11, <3>1, ScalarSound
    <3>3. it.value = Scalar(cell, payload)
      BY <2>11 DEF Result, payload
    <3> QED BY <2>1, <3>2, <3>3 DEF Inside, ScalarTypes
  <2> QED BY <2>2, <2>6, <2>7, <2>8, <2>9, <2>10, <2>11
<1> HIDE DEF S
<1>3. Nat \subseteq S
  BY <1>1, <1>2, Induction
<1> QED BY <1>3 DEF S

(* All the parts of a value are sound. *)
LEMMA PartsSound ==
    ASSUME NEW data \in Sections, NEW raw, IsValue(data, raw)
    PROVE  \A n \in Nat : \A x \in Parts(raw)[n] : IsValue(data, x) /\ Sound(x)
<1> DEFINE S == {n \in Nat : \A x \in Parts(raw)[n] : IsValue(data, x)}
<1>0. \A x : IsValue(data, x) => Sound(x) /\ \A y \in Inside(x) : IsValue(data, y)
  BY ValuesSound DEF IsValue
<1>1. 0 \in S
  BY PartsSteps
<1>2. ASSUME NEW n \in Nat, n \in S PROVE n + 1 \in S
  <2>1. Parts(raw)[n + 1] = UNION {Inside(v) : v \in Parts(raw)[n]}
    BY PartsSteps
  <2> QED BY <1>0, <1>2, <2>1
<1> HIDE DEF S
<1>3. Nat \subseteq S
  BY <1>1, <1>2, Induction
<1> QED BY <1>0, <1>3 DEF S

-----------------------------------------------------------------------------
(* Flags, whichever way they are written. *)

(* The words of a text: those of the file, and those that formatting adds. *)
TextWords == STRING \cup {ToString(n) : n \in Int}
                    \cup {"1", "0", "true", "false", "AS", Comma}
TextType == Seq(TextWords)

(* Two texts that the rules take for the same flag, and that are both there or
   both not. *)
Alike(s, t) ==
    /\ s \in TextType /\ t \in TextType
    /\ s = <<>> <=> t = <<>>
    /\ truthy(s) <=> truthy(t)

(* The marks that formatting and trimming look for differ from the words of
   flags. *)
LEMMA Marks == /\ Blank # Comma
               /\ \A w \in {"true", "1", "yes", "on"} : w # Comma
               /\ \A w \in {"true", "1", "false", "0"} : w # Blank
               /\ {"1", "0", "true", "false", "AS", Comma} \subseteq TextWords
BY Zenon DEF Blank, Comma, TextWords

(* The maximum of a bounded set of numbers is its greatest member. *)
LEMMA MaxOf ==
    ASSUME NEW T, NEW m \in Nat, T \subseteq 0..m, T # {}
    PROVE  Max(T) \in T /\ \A y \in T : Max(T) >= y
<1>1. PICK x \in T : \A y \in T : y <= x
  BY Greatest
<1>2. \A y \in T : x >= y
  BY <1>1
<1> QED BY <1>2 DEF Max

(* Trimming a text takes nothing out of its middle. *)
LEMMA Trimmed ==
    ASSUME NEW s \in TextType
    PROVE  /\ TrimSpace(s) \in TextType
           /\ \A j \in DOMAIN s : s[j] # Blank =>
                 \E m \in 1..Len(TrimSpace(s)) : TrimSpace(s)[m] = s[j]
<1> DEFINE solid == {j \in DOMAIN s : s[j] # Blank}
           lo == Min(solid)
           hi == Max(solid)
<1>1. DOMAIN s = 1..Len(s) /\ Len(s) \in Nat
  BY DEF TextType
<1>2. CASE solid = {}
  BY <1>2 DEF TrimSpace, TextType
<1>3. CASE solid # {}
  <2>1. solid \subseteq 0..Len(s) /\ solid \subseteq Nat
    BY <1>1
  <2>2. /\ lo \in solid /\ hi \in solid
        /\ \A y \in solid : lo <= y /\ hi >= y
    BY <1>1, <1>3, <2>1, MinOf, MaxOf
  <2>3. TrimSpace(s) = SubSeq(s, lo, hi)
    BY <1>3 DEF TrimSpace
  <2>4. lo \in 1..Len(s) /\ hi \in 1..Len(s) /\ lo <= hi
    BY <1>1, <2>2
  <2> HIDE DEF lo, hi
  <2>5. /\ SubSeq(s, lo, hi) \in TextType
        /\ Len(SubSeq(s, lo, hi)) = hi - lo + 1
        /\ \A m \in 1..(hi - lo + 1) : SubSeq(s, lo, hi)[m] = s[lo + m - 1]
    BY <1>1, <2>4, SubSeqProperties DEF TextType
  <2>6. ASSUME NEW j \in solid
        PROVE  \E m \in 1..Len(TrimSpace(s)) : TrimSpace(s)[m] = s[j]
    <3>1. j \in Nat /\ lo <= j /\ j <= hi /\ lo \in Nat /\ hi \in Nat
      BY <1>1, <2>2, <2>4
    <3>2. j - lo + 1 \in 1..(hi - lo + 1) /\ lo + (j - lo + 1) - 1 = j
      BY <3>1
    <3>3. SubSeq(s, lo, hi)[j - lo + 1] = s[j]
      BY <2>5, <3>2
    <3> QED BY <2>3, <2>5, <3>2, <3>3
  <2> QED BY <2>3, <2>5, <2>6
<1> QED BY <1>2, <1>3

(* A list of more than one text is no flag. *)
LEMMA ListNotTruthy ==
    ASSUME NEW s \in TextType, NEW j \in DOMAIN s, s[j] = Comma
    PROVE  s # <<>> /\ ~truthy(s)
<1>1. PICK m \in 1..Len(TrimSpace(s)) : TrimSpace(s)[m] = Comma
  BY Marks, Trimmed
<1> DEFINE t == TrimSpace(s)
<1>2. s # <<>>
  OBVIOUS
<1> HIDE DEF t
<1>3. ASSUME NEW w, t = <<w>> PROVE w = Comma
  BY <1>1, <1>3 DEF t
<1>4. t \notin {<<"true">>, <<"1">>, <<"yes">>, <<"on">>}
  <2>1. "true" # Comma /\ "1" # Comma /\ "yes" # Comma /\ "on" # Comma
    BY Marks
  <2> QED BY <1>3, <2>1
<1> QED BY <1>2, <1>4 DEF truthy, t

(* The text of one word without space is trimmed already. *)
LEMMA OneWord ==
    ASSUME NEW w \in TextWords, w # Blank
    PROVE  TrimSpace(<<w>>) = <<w>> /\ <<w>> \in TextType /\ <<w>> # <<>>
<1> DEFINE s == <<w>>
           solid == {j \in DOMAIN s : s[j] # Blank}
<1>1. /\ Len(s) = 1 /\ s[1] = w /\ s # <<>>
      /\ DOMAIN s = 1..1 /\ 1 \in DOMAIN s /\ \A j \in DOMAIN s : j = 1
  OBVIOUS
<1>3. s \in TextType
  BY DEF TextType
<1> HIDE DEF s
<1>4. solid = {1}
  BY <1>1
<1>5. Min({1}) = 1
  BY MinOf
<1>6. Max({1}) = 1
  <2>1. {1} \subseteq 0..1 /\ {1} # {} /\ 1 \in Nat
    OBVIOUS
  <2>2. Max({1}) \in {1}
    BY <2>1, MaxOf
  <2> QED BY <2>2
<1>7. TrimSpace(s) = SubSeq(s, 1, 1)
  BY <1>4, <1>5, <1>6 DEF TrimSpace
<1>8. SubSeq(s, 1, 1) = s
  BY <1>1, <1>3, SubSeqProperties DEF TextType
<1> QED BY <1>1, <1>3, <1>7, <1>8 DEF s

WithDigits(language) == Formatter(language, TRUE)
WithWords(language) == Formatter(language, FALSE)

(* Both ways to write a boolean are the same flag. *)
LEMMA BooleansAlike ==
    ASSUME NEW language, NEW b \in BOOLEAN
    PROVE  Alike(boolString(WithDigits(language), b), boolString(WithWords(language), b))
<1>1. /\ boolString(WithDigits(language), b) = IF b THEN <<"1">> ELSE <<"0">>
      /\ boolString(WithWords(language), b) = IF b THEN <<"true">> ELSE <<"false">>
  BY DEF boolString, WithDigits, WithWords, Formatter
<1>0. ASSUME NEW w \in {"1", "0", "true", "false"}
      PROVE  TrimSpace(<<w>>) = <<w>> /\ <<w>> \in TextType /\ <<w>> # <<>>
  <2>1. w \in TextWords /\ w # Blank
    BY Marks
  <2> QED BY <2>1, OneWord
<1>2. truthy(<<"1">>) /\ truthy(<<"true">>)
  BY <1>0 DEF truthy
<1>3. ~truthy(<<"0">>) /\ ~truthy(<<"false">>)
  <2>1. TrimSpace(<<"0">>) = <<"0">> /\ TrimSpace(<<"false">>) = <<"false">>
    BY <1>0, Marks, OneWord
  <2> QED BY <2>1 DEF truthy
<1> QED BY <1>0, <1>1, <1>2, <1>3 DEF Alike

(* No text is like no text, ... *)
LEMMA NothingAlike == Alike(<<>>, <<>>)
BY DEF Alike, TextType

(* ... and any text like itself. *)
LEMMA SameAlike == ASSUME NEW s \in TextType PROVE Alike(s, s)
BY DEF Alike

(* Texts that are joined make a text, with the words of one and then the other. *)
LEMMA TextConcat ==
    ASSUME NEW u \in TextType, NEW v \in TextType
    PROVE  /\ u \o v \in TextType /\ Len(u \o v) = Len(u) + Len(v)
           /\ \A j \in 1..(Len(u) + Len(v)) :
                 (u \o v)[j] = IF j <= Len(u) THEN u[j] ELSE v[j - Len(u)]
BY ConcatProperties DEF TextType

(* Joining one more text keeps lists alike: a list with a separator in it is no
   flag, whatever is on either side. *)
LEMMA JoinOneAlike ==
    ASSUME NEW s, NEW t, Alike(s, t), NEW x, NEW y, Alike(x, y)
    PROVE  Alike(JoinOne(s, Comma, x), JoinOne(t, Comma, y))
<1>1. ASSUME NEW u \in TextType, NEW v \in TextType
      PROVE  (u \o <<Comma>>) \o v \in TextType /\ (u \o <<Comma>>) \o v # <<>>
             /\ ~truthy((u \o <<Comma>>) \o v)
  <2>1. Comma \in TextWords
    BY Marks
  <2>2. <<Comma>> \in TextType /\ Len(<<Comma>>) = 1 /\ <<Comma>>[1] = Comma
    BY <2>1 DEF TextType
  <2> DEFINE c == <<Comma>>
             w == u \o c
             z == w \o v
  <2> HIDE DEF c
  <2>3. Len(u) \in Nat /\ Len(v) \in Nat
    BY <1>1 DEF TextType
  <2>4. /\ w \in TextType /\ Len(w) = Len(u) + Len(c)
        /\ \A j \in 1..(Len(u) + Len(c)) :
              w[j] = IF j <= Len(u) THEN u[j] ELSE c[j - Len(u)]
    BY <1>1, <2>2, TextConcat DEF c
  <2>5. w[Len(u) + 1] = Comma /\ Len(w) = Len(u) + 1
    BY <2>2, <2>3, <2>4 DEF c
  <2> HIDE DEF w
  <2>6. /\ z \in TextType /\ Len(z) = Len(w) + Len(v)
        /\ \A j \in 1..(Len(w) + Len(v)) :
              z[j] = IF j <= Len(w) THEN w[j] ELSE v[j - Len(w)]
    BY <1>1, <2>4, TextConcat
  <2> HIDE DEF z
  <2>7. DOMAIN z = 1..Len(z)
    BY <2>6 DEF TextType
  <2>8. Len(u) + 1 \in DOMAIN z /\ z[Len(u) + 1] = Comma
    BY <2>3, <2>5, <2>6, <2>7
  <2>9. z # <<>> /\ ~truthy(z)
    BY <2>6, <2>8, ListNotTruthy
  <2> QED BY <2>6, <2>9 DEF z, w, c
<1>2. CASE x = <<>>
  BY <1>2 DEF JoinOne, Alike
<1>3. CASE x # <<>> /\ s = <<>>
  BY <1>3 DEF JoinOne, Alike
<1>4. CASE x # <<>> /\ s # <<>>
  <2>1. y # <<>> /\ t # <<>>
    BY <1>4 DEF Alike
  <2>2. /\ JoinOne(s, Comma, x) = (s \o <<Comma>>) \o x
        /\ JoinOne(t, Comma, y) = (t \o <<Comma>>) \o y
    BY <1>4, <2>1 DEF JoinOne
  <2>3. s \in TextType /\ t \in TextType /\ x \in TextType /\ y \in TextType
    BY DEF Alike
  <2> QED BY <1>1, <2>2, <2>3 DEF Alike
<1> QED BY <1>2, <1>3, <1>4

(* Lists of texts that are alike, one by one, are joined alike. *)
LEMMA JoinedAlike ==
    ASSUME NEW a, NEW b, NEW m \in Nat, \A j \in 1..m : Alike(a[j], b[j])
    PROVE  Alike(Joined(a, Comma)[m], Joined(b, Comma)[m])
<1> DEFINE S == {n \in Nat : n <= m => Alike(Joined(a, Comma)[n], Joined(b, Comma)[n])}
<1>1. 0 \in S
  BY JoinedSteps, NothingAlike
<1>2. ASSUME NEW n \in Nat, n \in S PROVE n + 1 \in S
  <2> SUFFICES ASSUME n + 1 <= m
               PROVE  Alike(Joined(a, Comma)[n + 1], Joined(b, Comma)[n + 1])
    OBVIOUS
  <2>1. n <= m /\ n + 1 \in 1..m
    OBVIOUS
  <2>2. \A texts : Joined(texts, Comma)[n + 1]
                      = JoinOne(Joined(texts, Comma)[n], Comma, texts[n + 1])
    BY JoinedSteps
  <2>3. Alike(a[n + 1], b[n + 1]) /\ Alike(Joined(a, Comma)[n], Joined(b, Comma)[n])
    BY <1>2, <2>1
  <2> QED BY <2>2, <2>3, JoinOneAlike
<1> HIDE DEF S
<1>3. Nat \subseteq S
  BY <1>1, <1>2, Induction
<1> QED BY <1>3 DEF S

-----------------------------------------------------------------------------
(* Before is an order of texts, like that of their bytes. *)
ByteOrder ==
    \A k, l, m \in Seq(STRING) :
        /\ k = l \/ Before(k, l) \/ Before(l, k)
        /\ Before(k, l) /\ Before(l, m) => Before(k, m)

(* One of finitely many keys comes first in byte order. *)
LEMMA FirstKey ==
    ASSUME ByteOrder, NEW size \in Nat
    PROVE  \A K : Keyed(K, size) /\ K # {} =>
              \E k \in K : \A l \in K : k = l \/ Before(k, l)
<1> DEFINE First(K) == \E k \in K : \A l \in K : k = l \/ Before(k, l)
           S == {n \in Nat : \A K : Keyed(K, n) /\ K # {} => First(K)}
<1>1. 0 \in S
  BY DEF Keyed
<1>2. ASSUME NEW n \in Nat, n \in S PROVE n + 1 \in S
  <2> SUFFICES ASSUME NEW K, Keyed(K, n + 1), K # {} PROVE First(K)
    OBVIOUS
  <2>1. PICK key : \A name \in K : \E k \in 0..n : name = key[k]
    BY DEF Keyed
  <2>2. K \subseteq Seq(STRING)
    BY DEF Keyed
  <2> DEFINE rest == K \ {key[n]}
  <2>3. Keyed(rest, n)
    <3>1. ASSUME NEW name \in rest PROVE \E k \in 0..(n - 1) : name = key[k]
      <4>1. PICK k \in 0..n : name = key[k]
        BY <2>1
      <4>2. k # n
        BY <4>1
      <4> QED BY <4>1, <4>2
    <3> QED BY <2>2, <3>1 DEF Keyed
  <2>4. CASE key[n] \notin K
    <3>1. rest = K
      BY <2>4
    <3> QED BY <1>2, <2>3, <3>1
  <2>5. CASE key[n] \in K /\ rest = {}
    BY <2>5
  <2>6. CASE key[n] \in K /\ rest # {}
    <3>1. First(rest)
      BY <1>2, <2>3, <2>6
    <3>2. PICK k \in rest : \A l \in rest : k = l \/ Before(k, l)
      BY <3>1
    <3> DEFINE z == key[n]
    <3>3. K = rest \cup {z} /\ z \in Seq(STRING) /\ rest \subseteq Seq(STRING)
      BY <2>2, <2>6
    <3> HIDE DEF z, rest
    <3>4. CASE Before(k, z)
      <4>1. k \in K /\ \A l \in K : k = l \/ Before(k, l)
        BY <3>2, <3>3, <3>4
      <4> QED BY <4>1
    <3>5. CASE ~Before(k, z)
      <4>1. k = z \/ Before(z, k)
        BY <3>3, <3>5 DEF ByteOrder
      <4>2. z \in K /\ \A l \in K : z = l \/ Before(z, l)
        BY <3>2, <3>3, <4>1 DEF ByteOrder
      <4> QED BY <4>2
    <3> QED BY <3>4, <3>5
  <2> QED BY <2>4, <2>5, <2>6
<1> HIDE DEF S
<1>3. Nat \subseteq S
  BY <1>1, <1>2, Induction
<1> QED BY <1>3 DEF S

(* What FormatMap picks from the texts of a map, in an order of preference. *)
Picked(order, text) ==
    LET known == {k \in DOMAIN text : NonEmpty(text[k])}
        preferred == {j \in 1..3 : order[j] \in known}
    IN IF known = {} THEN <<>>
       ELSE IF preferred # {} THEN text[order[Min(preferred)]]
       ELSE text[CHOOSE k \in known : \A l \in known : k = l \/ Before(k, l)]

(* FormatMap picks in the order of the configured language, English, "name". *)
LEMMA FormatMapPicks ==
    ASSUME NEW f, NEW text
    PROVE  FormatMap(f, text) = Picked(<<f.language, <<"en">>, <<"name">>>>, text)
BY Zenon DEF FormatMap, Picked

(* Maps whose values have like texts have like texts: the same key is picked. *)
LEMMA MapAlike ==
    ASSUME ByteOrder, NEW language, NEW size \in Nat, NEW a, NEW b,
           DOMAIN a = DOMAIN b, Keyed(DOMAIN a, size),
           \A k \in DOMAIN a : Alike(a[k], b[k])
    PROVE  Alike(FormatMap(WithDigits(language), a), FormatMap(WithWords(language), b))
<1> DEFINE Known(t) == {k \in DOMAIN t : NonEmpty(t[k])}
           known == Known(a)
           order == <<language, <<"en">>, <<"name">>>>
           preferred == {j \in 1..3 : order[j] \in known}
           IsFirst(k) == \A l \in known : k = l \/ Before(k, l)
           first == CHOOSE k \in known : IsFirst(k)
           Chosen(t) == IF known = {} THEN <<>>
                        ELSE IF preferred # {} THEN t[order[Min(preferred)]]
                        ELSE t[first]
<1>1. Known(b) = known
  BY DEF NonEmpty, Alike
<1> HIDE DEF order
<1>2. /\ FormatMap(WithDigits(language), a) = Picked(order, a)
      /\ FormatMap(WithWords(language), b) = Picked(order, b)
  <2>1. WithDigits(language).language = language /\ WithWords(language).language = language
    BY DEF WithDigits, WithWords, Formatter
  <2> QED BY <2>1, FormatMapPicks DEF order
<1>3. Picked(order, a) = Chosen(a)
  BY Zenon DEF Picked
<1>4. Picked(order, b) = Chosen(b)
  <2>1. Picked(order, b)
          = LET ks == Known(b)
                pref == {j \in 1..3 : order[j] \in ks}
            IN IF ks = {} THEN <<>>
               ELSE IF pref # {} THEN b[order[Min(pref)]]
               ELSE b[CHOOSE k \in ks : \A l \in ks : k = l \/ Before(k, l)]
    BY Zenon DEF Picked
  <2> HIDE DEF Known
  <2> QED BY <1>1, <2>1, Zenon
<1>5. known \subseteq DOMAIN a
  OBVIOUS
<1>6. ASSUME known # {}, preferred # {}
      PROVE  order[Min(preferred)] \in known
  <2>1. preferred \subseteq Nat
    OBVIOUS
  <2>2. Min(preferred) \in preferred
    BY <1>6, <2>1, MinOf
  <2> QED BY <2>2
<1>7. ASSUME known # {} PROVE first \in known
  <2>1. Keyed(known, size)
    BY <1>5 DEF Keyed
  <2>2. \E k \in known : IsFirst(k)
    BY <1>7, <2>1, FirstKey
  <2> HIDE DEF known
  <2> QED BY <2>2
<1> HIDE DEF known, preferred, first
<1>8. Alike(Chosen(a), Chosen(b))
  BY <1>5, <1>6, <1>7, NothingAlike
<1> QED BY <1>2, <1>3, <1>4, <1>8

Kinds == {"bool", "string"}

(* A sequence over a set is one over any wider set. *)
LEMMA WiderSeq == ASSUME NEW S, NEW T, S \subseteq T, NEW s \in Seq(S) PROVE s \in Seq(T)
OBVIOUS

(* The texts of the file are texts ... *)
LEMMA FileText == ASSUME NEW s \in Seq(STRING) PROVE s \in TextType
<1>1. STRING \subseteq TextWords
  BY Zenon DEF TextWords
<1> QED BY <1>1, WiderSeq, Zenon DEF TextType

(* ... and those of numbers. *)
LEMMA NumberText == ASSUME NEW n \in Int PROVE <<ToString(n)>> \in TextType
<1> DEFINE w == ToString(n)
<1>1. w \in TextWords
  BY Zenon DEF TextWords
<1> HIDE DEF w
<1>2. <<w>> \in TextType
  BY <1>1 DEF TextType
<1> QED BY <1>2 DEF w

(* Strings, which may spell a flag, have like texts ... *)
LEMMA FormatStringAlike ==
    ASSUME NEW language, NEW s \in Seq(STRING), NEW kind \in Kinds
    PROVE  Alike(FormatString(WithDigits(language), s, kind),
                 FormatString(WithWords(language), s, kind))
<1>1. TrimSpace(s) \in TextType
  BY FileText, Trimmed
<1>2. CASE kind = "bool"
  <2> DEFINE b == TrimSpace(s) \in {<<"true">>, <<"1">>, <<"yes">>}
  <2>1. \A f : FormatString(f, s, kind) = boolString(f, b)
    BY <1>2 DEF FormatString
  <2>2. b \in BOOLEAN
    OBVIOUS
  <2> HIDE DEF b
  <2> QED BY <2>1, <2>2, BooleansAlike
<1>3. CASE kind = "string"
  <2>1. \A f : FormatString(f, s, kind) = TrimSpace(s)
    BY <1>3 DEF FormatString
  <2> QED BY <1>1, <2>1, SameAlike
<1> QED BY <1>2, <1>3 DEF Kinds

(* ... and so do integers, which may stand for one. *)
LEMMA FormatIntegerAlike ==
    ASSUME NEW language, NEW n \in Int, NEW kind \in Kinds
    PROVE  Alike(FormatInteger(WithDigits(language), n, kind),
                 FormatInteger(WithWords(language), n, kind))
<1>1. CASE kind = "bool"
  <2> DEFINE b == n # 0
  <2>1. \A f : FormatInteger(f, n, kind) = boolString(f, b)
    BY <1>1 DEF FormatInteger
  <2>2. b \in BOOLEAN
    OBVIOUS
  <2> HIDE DEF b
  <2> QED BY <2>1, <2>2, BooleansAlike
<1>2. CASE kind = "string"
  <2>1. \A f : FormatInteger(f, n, kind) = <<ToString(n)>>
    BY <1>2 DEF FormatInteger
  <2> QED BY <2>1, NumberText, SameAlike
<1> QED BY <1>1, <1>2 DEF Kinds

(* A value has like texts when the values inside it have. *)
LEMMA FormatOneAlike ==
    ASSUME ByteOrder, NEW language, NEW kind \in Kinds, NEW x, Sound(x),
           NEW a, NEW b,
           \A y \in Inside(x) : \A k \in {kind, "string"} : Alike(a[y][k], b[y][k])
    PROVE  Alike(FormatOne(WithDigits(language), a, x, kind),
                 FormatOne(WithWords(language), b, x, kind))
<1> DEFINE F == WithDigits(language)
           G == WithWords(language)
           v == x[2]
<1> HIDE DEF F, G
<1>1. CASE x[1] = "string"
  <2>1. \A f, text : FormatOne(f, text, x, kind) = FormatString(f, v, kind)
    BY <1>1 DEF FormatOne
  <2>2. v \in Seq(STRING)
    BY <1>1 DEF Sound
  <2> HIDE DEF v
  <2> QED BY <2>1, <2>2, FormatStringAlike
<1>2. CASE x[1] = "bytes"
  <2>1. \A f, text : FormatOne(f, text, x, kind) = v
    BY <1>2 DEF FormatOne
  <2>2. v \in TextType
    BY <1>2, FileText DEF Sound
  <2> HIDE DEF v
  <2> QED BY <2>1, <2>2, SameAlike
<1>3. CASE x[1] = "bool"
  <2>1. \A f, text : FormatOne(f, text, x, kind) = boolString(f, v)
    BY <1>3 DEF FormatOne
  <2>2. v \in BOOLEAN
    BY <1>3 DEF Sound
  <2> HIDE DEF v
  <2> QED BY <2>1, <2>2, BooleansAlike
<1>4. CASE x[1] = "float"
  <2>1. \A f, text : FormatOne(f, text, x, kind) = <<ToString(v)>>
    BY <1>4 DEF FormatOne
  <2>2. v \in Int
    BY <1>4 DEF Sound
  <2> HIDE DEF v
  <2> QED BY <2>1, <2>2, NumberText, SameAlike
<1>5. CASE x[1] \in {"uint", "int"}
  <2>1. \A f, text : FormatOne(f, text, x, kind) = FormatInteger(f, v, kind)
    BY <1>5 DEF FormatOne
  <2>2. v \in Int
    BY <1>5 DEF Sound
  <2> HIDE DEF v
  <2> QED BY <2>1, <2>2, FormatIntegerAlike
<1>6. CASE x[1] = "array"
  <2> DEFINE TextsIn(text) == [j \in 1..Len(v) |-> text[v[j]]["string"]]
  <2>1. \A f, text : FormatOne(f, text, x, kind) = Join(TextsIn(text), f.separator)
    BY <1>6, Zenon DEF FormatOne
  <2>2. F.separator = Comma /\ G.separator = Comma
    BY DEF F, G, WithDigits, WithWords, Formatter
  <2>3. v \in Seq(Inside(x))
    BY <1>6 DEF Sound
  <2> HIDE DEF v
  <2>4. Len(v) \in Nat /\ \A j \in 1..Len(v) : v[j] \in Inside(x)
    BY <2>3
  <2>5. \A text : Len(TextsIn(text)) = Len(v)
    BY <2>4
  <2>6. \A j \in 1..Len(v) : Alike(TextsIn(a)[j], TextsIn(b)[j])
    BY <2>4
  <2> HIDE DEF TextsIn
  <2>7. Alike(Joined(TextsIn(a), Comma)[Len(v)], Joined(TextsIn(b), Comma)[Len(v)])
    BY <2>4, <2>6, JoinedAlike
  <2>8. Alike(FormatOne(F, a, x, kind), FormatOne(G, b, x, kind))
    BY <2>1, <2>2, <2>5, <2>7 DEF Join
  <2> QED BY <2>8 DEF F, G
<1>7. CASE x[1] = "map"
  <2> DEFINE TextsIn(text) == [k \in DOMAIN v |-> text[v[k]][kind]]
  <2>1. \A f, text : FormatOne(f, text, x, kind) = FormatMap(f, TextsIn(text))
    BY <1>7, Zenon DEF FormatOne
  <2>2. PICK size \in Nat : Keyed(DOMAIN v, size)
    BY <1>7 DEF Sound
  <2>3. \A k \in DOMAIN v : v[k] \in Inside(x)
    BY <1>7 DEF Inside
  <2> HIDE DEF v
  <2>4. DOMAIN TextsIn(a) = DOMAIN v /\ DOMAIN TextsIn(b) = DOMAIN v
    OBVIOUS
  <2>5. \A k \in DOMAIN v : Alike(TextsIn(a)[k], TextsIn(b)[k])
    BY <2>3
  <2> HIDE DEF TextsIn
  <2>6. Alike(FormatMap(F, TextsIn(a)), FormatMap(G, TextsIn(b)))
    BY <2>2, <2>4, <2>5, MapAlike DEF F, G
  <2> QED BY <2>1, <2>6 DEF F, G
<1>8. CASE x[1] \notin {"string", "bytes", "bool", "float", "uint", "int", "array", "map"}
  <2>1. \A f, text : FormatOne(f, text, x, kind) = <<>>
    BY <1>8 DEF FormatOne
  <2> QED BY <2>1, NothingAlike
<1> QED BY <1>1, <1>2, <1>3, <1>4, <1>5, <1>6, <1>7, <1>8

(* So has every value that a section holds. *)
LEMMA TextsAlike ==
    ASSUME ByteOrder, NEW data \in Sections, NEW raw, IsValue(data, raw),
           NEW language, NEW kind \in Kinds
    PROVE  Alike(format(WithDigits(language), raw, kind),
                 format(WithWords(language), raw, kind))
<1> DEFINE F == WithDigits(language)
           G == WithWords(language)
           ks == {kind, "string"}
           Like(n) == \A x \in Parts(raw)[Nesting - n] : \A k \in ks :
                         Alike(Texts(F, raw, kind)[n][x][k], Texts(G, raw, kind)[n][x][k])
           S == {n \in Nat : n <= Nesting => Like(n)}
<1> HIDE DEF F, G
<1>1. 0 \in S
  <2>1. Nesting - 0 = Nesting
    BY NestingNat
  <2> QED BY <2>1, TextsZero, NothingAlike
<1>2. ASSUME NEW n \in Nat, n \in S PROVE n + 1 \in S
  <2> SUFFICES ASSUME n + 1 <= Nesting, NEW x \in Parts(raw)[Nesting - (n + 1)],
                      NEW k \in ks
               PROVE  Alike(Texts(F, raw, kind)[n + 1][x][k],
                            Texts(G, raw, kind)[n + 1][x][k])
    OBVIOUS
  <2> DEFINE m == Nesting - (n + 1)
  <2>1. m \in Nat /\ m + 1 = Nesting - n /\ n <= Nesting
    BY NestingNat
  <2>2. Like(n)
    BY <1>2, <2>1
  <2>3. Sound(x)
    BY <2>1, PartsSound
  <2>4. Inside(x) \subseteq Parts(raw)[Nesting - n]
    <3>1. Parts(raw)[m + 1] = UNION {Inside(v) : v \in Parts(raw)[m]}
      BY <2>1, PartsSteps
    <3> QED BY <2>1, <3>1
  <2>5. k \in Kinds /\ {k, "string"} \subseteq ks
    BY DEF Kinds
  <2> DEFINE a == Texts(F, raw, kind)[n]
             b == Texts(G, raw, kind)[n]
  <2>6. /\ Texts(F, raw, kind)[n + 1][x][k] = FormatOne(F, a, x, k)
        /\ Texts(G, raw, kind)[n + 1][x][k] = FormatOne(G, b, x, k)
    BY TextsSteps
  <2>7. \A y \in Inside(x) : \A j \in {k, "string"} : Alike(a[y][j], b[y][j])
    BY <2>2, <2>4, <2>5
  <2> HIDE DEF a, b
  <2>8. Alike(FormatOne(F, a, x, k), FormatOne(G, b, x, k))
    BY <2>3, <2>5, <2>7, FormatOneAlike DEF F, G
  <2> QED BY <2>6, <2>8
<1> HIDE DEF S
<1>3. Nat \subseteq S
  BY <1>1, <1>2, Induction
<1>4. Like(Nesting)
  BY <1>3, NestingNat DEF S
<1>5. Nesting - Nesting = 0 /\ Parts(raw)[0] = {raw}
  BY NestingNat, PartsSteps
<1>6. Alike(Texts(F, raw, kind)[Nesting][raw][kind],
            Texts(G, raw, kind)[Nesting][raw][kind])
  BY <1>4, <1>5
<1> QED BY <1>6 DEF format, F, G

(* What seeking answers: an offset, which some cell may have, or nothing. *)
IsAnswer(a) ==
    \/ a = Missing
    \/ a = Error
    \/ \E p \in Places : a = <<"offset", p>>

(* The key loop answers with an offset, or that there is none ... *)
LEMMA KeyPlace ==
    ASSUME NEW read, Reading(read), NEW jump, NEW off, NEW size \in Nat, NEW name,
           \A o \in Places : jump[o] \in Places, off \in Places
    PROVE  IsAnswer(seekKey(read, jump, off, size, name))
<1> DEFINE step == [o \in Places |-> IF Failed(read[o]) THEN NoOffset
                                     ELSE jump[read[o].next]]
           starts == Run(step, off)
           keys == [k \in 0..(size - 1) |-> read[starts[k]]]
           Bad(k) == Failed(keys[k]) \/ keys[k].value[1] # "string"
           Stop(k) == Bad(k) \/ keys[k].value[2] = name
           IsFirst(k) == Stop(k) /\ \A l \in 0..(k - 1) : ~Stop(l)
           First == CHOOSE k \in 0..(size - 1) : IsFirst(k)
<1>1. seekKey(read, jump, off, size, name)
         = IF \A k \in 0..(size - 1) : ~Stop(k)
           THEN IF starts[size] = NoOffset THEN Error ELSE Missing
           ELSE IF Bad(First) THEN Error ELSE <<"offset", keys[First].next>>
  BY Zenon DEF seekKey
<1>2. \A o \in Places : step[o] \in Places
  BY PlaceInt DEF Reading
<1> HIDE DEF step
<1>3. \A k \in Nat : starts[k] \in Places
  BY <1>2, RunPlaces
<1> HIDE DEF starts
<1>4. ASSUME NEW k \in 0..(size - 1) PROVE keys[k].next \in Places
  BY <1>3 DEF Reading
<1> HIDE DEF keys, Bad, Stop
<1>5. ASSUME \E k \in 0..(size - 1) : Stop(k) PROVE First \in 0..(size - 1)
  <2> DEFINE T == {k \in 0..(size - 1) : Stop(k)}
  <2>1. T \subseteq Nat /\ T # {}
    BY <1>5
  <2>2. PICK k \in T : \A l \in T : k <= l
    BY <2>1, Least
  <2>3. k \in 0..(size - 1) /\ IsFirst(k)
    BY <2>2
  <2> HIDE DEF IsFirst
  <2> QED BY <2>3
<1> HIDE DEF First
<1> QED BY <1>1, <1>4, <1>5 DEF IsAnswer

(* ... and so does seek. *)
LEMMA SeekPlace ==
    ASSUME NEW data \in Sections, NEW src, ReadsAs(src, data), NEW path, Len(path) \in Nat
    PROVE  \A n \in Nat : \A o \in Places : \A j \in 0..Len(path) :
              IsAnswer(Seeker(src, path)[n][o][j])
<1> DEFINE S == {n \in Nat : \A o \in Places : \A j \in 0..Len(path) :
                    IsAnswer(Seeker(src, path)[n][o][j])}
<1>1. 0 \in S
  BY SeekerZero DEF IsAnswer
<1>2. ASSUME NEW n \in Nat, n \in S PROVE n + 1 \in S
  <2> SUFFICES ASSUME NEW o \in Places, NEW j \in 0..Len(path)
               PROVE  IsAnswer(Seeker(src, path)[n + 1][o][j])
    OBVIOUS
  <2> DEFINE find == Seeker(src, path)[n]
             read == Dec(data)[n]
             jump == Skp(data)[n]
             cell == data[o + 1]
             entry == seekKey(read, jump, o + 1, cell.size, path[j + 1])
             answer == Seeker(src, path)[n + 1][o][j]
  <2>1. answer = Sought(data, path, read, jump, find, o, j)
    BY SekLevels
  <2>2. Reading(read) /\ \A p \in Places : jump[p] \in Places
    BY DecSound, SkpPlaces
  <2>3. \A p \in Places : \A k \in 0..Len(path) : IsAnswer(find[p][k])
    BY <1>2
  <2> HIDE DEF find, read, jump, answer
  <2>4. CASE j = Len(path) \/ ~(o \in Nat /\ o < Len(data))
    <3>1. answer = <<"offset", o>> \/ answer = Error
      BY <2>1, <2>4 DEF Sought
    <3> QED BY <3>1 DEF IsAnswer, answer
  <2>5. CASE j < Len(path) /\ o \in Nat /\ o < Len(data)
    <3>1. cell \in Cells /\ o + 1 \in Places
      BY <2>5, PlaceInt DEF Sections
    <3> HIDE DEF cell
    <3>2. cell.size \in Nat /\ (cell.type = "pointer" => cell.num \in Places)
      BY <3>1, PlaceInt DEF Cells
    <3>3. IsAnswer(entry)
      <4> DEFINE off == o + 1
                 name == path[j + 1]
                 size == cell.size
      <4>1. off \in Places /\ size \in Nat
        BY <3>1, <3>2
      <4> HIDE DEF off, name, size
      <4>2. IsAnswer(seekKey(read, jump, off, size, name))
        BY <2>2, <4>1, KeyPlace
      <4> QED BY <4>2 DEF off, name, size
    <3>4. j + 1 \in 0..Len(path)
      BY <2>5
    <3>5. entry[1] = "offset" => entry[2] \in Places
      <4> HIDE DEF entry
      <4> QED BY <3>3 DEF IsAnswer, Missing, Error
    <3>6. \/ cell.type = "pointer" /\ answer = find[cell.num][j]
          \/ cell.type = "map" /\ entry[1] = "offset" /\ answer = find[entry[2]][j + 1]
          \/ answer = entry
          \/ answer = Missing
      <4> HIDE DEF entry
      <4>1. answer = IF j = Len(path) THEN <<"offset", o>>
                     ELSE IF ~(o \in Nat /\ o < Len(data)) THEN Error
                     ELSE CASE cell.type = "pointer" -> find[cell.num][j]
                            [] cell.type = "map" -> IF entry[1] = "offset"
                                                    THEN find[entry[2]][j + 1] ELSE entry
                            [] OTHER -> Missing
        BY <2>1, Zenon DEF Sought, entry, cell
      <4> QED BY <2>5, <4>1
    <3> HIDE DEF entry
    <3>7. IsAnswer(Missing)
      BY DEF IsAnswer
    <3>8. cell.type = "pointer" => IsAnswer(find[cell.num][j])
      BY <2>3, <3>2
    <3>9. entry[1] = "offset" => IsAnswer(find[entry[2]][j + 1])
      BY <2>3, <3>4, <3>5
    <3> QED BY <3>3, <3>6, <3>7, <3>8, <3>9 DEF answer
  <2> QED BY <2>4, <2>5
<1> HIDE DEF S
<1>3. Nat \subseteq S
  BY <1>1, <1>2, Induction
<1> QED BY <1>3 DEF S

(* Seeking reads nothing that the section does not hold. *)
LEMMA SoughtValues ==
    ASSUME NEW data \in Sections, NEW off \in Nat, NEW path \in Paths,
           NEW memory \in BOOLEAN
    PROVE  \/ value(data, off, path, TRUE, memory) = Missing
           \/ IsValue(data, value(data, off, path, TRUE, memory))
<1> DEFINE src == Source(data, off, memory)
           target == Seeker(src, path)[All][off][0]
<1>1. ReadsAs(src, data)
  BY SourceReads
<1>2. off \in Places /\ Len(path) \in Nat /\ 0 \in 0..Len(path)
  BY PlaceInt DEF Paths
<1>3. \A p : decode(src, p, 0).value = Dec(data)[All][p].value
  BY <1>1, AllNat, SameReaders DEF decode, All
<1> HIDE DEF src
<1>4. IsAnswer(target)
  BY <1>1, <1>2, AllNat, SeekPlace
<1>5. seek(src, off, path) = target
  BY DEF seek, All
<1> HIDE DEF target
<1>6. Value(data, off, path, memory)
         = IF target[1] = "offset" THEN decode(src, target[2], 0).value ELSE target
  BY <1>5 DEF Value, FoundValue, src
<1> DEFINE result == Value(data, off, path, memory)
<1>7. result \in {Missing, Error} \/ \E p \in Places : result = Dec(data)[All][p].value
  BY <1>3, <1>4, <1>6 DEF IsAnswer, Missing, Error
<1> HIDE DEF result
<1>8. value(data, off, path, TRUE, memory) = IF result = Error THEN Missing ELSE result
  BY DEF value, UnlessFailed, result
<1> QED BY <1>7, <1>8, AllNat DEF IsValue, Failed

(* What is sought at a path has like texts, also when it is missing. *)
LEMMA TextOfAlike ==
    ASSUME ByteOrder, NEW data \in Sections, NEW raw, raw = Missing \/ IsValue(data, raw),
           NEW language, NEW kind \in Kinds
    PROVE  Alike(TextOf(WithDigits(language), raw, kind),
                 TextOf(WithWords(language), raw, kind))
<1>1. CASE raw = Missing
  BY <1>1, NothingAlike DEF TextOf
<1>2. CASE raw # Missing
  BY <1>2, TextsAlike DEF TextOf
<1> QED BY <1>1, <1>2

(* A flag that is extracted has one meaning, whichever way booleans are written. *)
LEMMA ExtractAlike ==
    ASSUME NEW language, NEW record, NEW def \in Definitions, def.kind = "bool",
           \A path \in PathsOf(def) : \A kind \in Kinds :
              Alike(TextOf(WithDigits(language), record[path], kind),
                    TextOf(WithWords(language), record[path], kind))
    PROVE  truthy(extract(WithDigits(language), record, def))
              <=> truthy(extract(WithWords(language), record, def))
<1> DEFINE F == WithDigits(language)
           G == WithWords(language)
           Text(f, path, kind) == TextOf(f, record[path], kind)
           Hits(f) == {j \in DOMAIN def.paths : Text(f, def.paths[j], "bool") # <<>>}
           Present(f) == \E j \in DOMAIN def.presence :
                            Text(f, def.presence[j], "string") # <<>>
           Answer(f) == IF Hits(f) # {} THEN Text(f, def.paths[Min(Hits(f))], "bool")
                        ELSE IF Present(f) THEN f.trueValue ELSE <<>>
<1>1. extract(F, record, def) = Answer(F) /\ extract(G, record, def) = Answer(G)
  BY ExtractIs, Zenon
<1>2. /\ "bool" \in Kinds /\ "string" \in Kinds
      /\ \A path \in PathsOf(def) : \A kind \in Kinds :
            Alike(Text(F, path, kind), Text(G, path, kind))
  BY DEF Kinds
<1> HIDE DEF Text, F, G
<1>3. Hits(F) = Hits(G) /\ (Present(F) <=> Present(G))
  BY <1>2, DefinitionPaths DEF Alike
<1>4. ASSUME Hits(F) # {}
      PROVE  truthy(Text(F, def.paths[Min(Hits(F))], "bool"))
                <=> truthy(Text(G, def.paths[Min(Hits(F))], "bool"))
  <2>1. Min(Hits(F)) \in DOMAIN def.paths
    BY <1>4, MinOf, DefinitionPaths
  <2> QED BY <1>2, <2>1, DefinitionPaths DEF Alike
<1>5. truthy(F.trueValue) <=> truthy(G.trueValue)
  <2>1. boolString(F, TRUE) = F.trueValue /\ boolString(G, TRUE) = G.trueValue
    BY DEF boolString
  <2> QED BY <2>1, BooleansAlike DEF Alike, F, G
<1> HIDE DEF Hits, Present
<1>6. truthy(Answer(F)) <=> truthy(Answer(G))
  BY <1>3, <1>4, <1>5
<1> HIDE DEF Answer
<1> QED BY <1>1, <1>6 DEF F, G

-----------------------------------------------------------------------------
(* Flags from proxy types. *)

(* The proxy type of a payload names flag t. *)
Names(security, t) ==
    /\ <<"proxy_type">> \in DOMAIN security
    /\ security[<<"proxy_type">>][1] = "string"
    /\ TrimSpace(security[<<"proxy_type">>][2]) = <<t>>

(* Setting a flag changes no other, and not the flag itself when it is there. *)
LEMMA SetIs ==
    ASSUME NEW security, NEW flag
    PROVE  LET set == setIfAbsent(security, flag)
           IN /\ DOMAIN set = DOMAIN security \cup {<<flag>>}
              /\ \A k \in DOMAIN security : set[k] = security[k]
              /\ <<flag>> \notin DOMAIN security => set[<<flag>>] = <<"bool", TRUE>>
<1> DEFINE key == <<flag>>
           true == <<"bool", TRUE>>
           out == SetKey(security, key, true)
<1>1. CASE key \in DOMAIN security
  BY <1>1 DEF setIfAbsent
<1>2. CASE key \notin DOMAIN security
  <2>1. setIfAbsent(security, flag) = out
    BY <1>2 DEF setIfAbsent
  <2> HIDE DEF key, true
  <2>2. /\ DOMAIN out = DOMAIN security \cup {key}
        /\ \A k \in DOMAIN security : out[k] = security[k]
        /\ out[key] = true
    BY <1>2 DEF SetKey
  <2> HIDE DEF out
  <2> QED BY <1>2, <2>1, <2>2 DEF key, true
<1> QED BY <1>1, <1>2

(* A flag that a service's answer states, null included, is never overwritten
   by one derived from the proxy type; a flag is added only if the proxy type
   names it, and then it is there (deriveAPIFlags, setIfAbsent). *)
THEOREM DerivedFlags ==
    ASSUME NEW payload, payload = [k \in DOMAIN payload |-> payload[k]],
           NEW security, <<"security">> \in DOMAIN payload,
           payload[<<"security">>] = <<"map", security>>
    PROVE  \E out :
              /\ deriveAPIFlags(payload) = [payload EXCEPT ![<<"security">>] = <<"map", out>>]
              /\ \A key \in DOMAIN security : key \in DOMAIN out /\ out[key] = security[key]
              /\ \A key \in DOMAIN out \ DOMAIN security :
                    /\ out[key] = <<"bool", TRUE>>
                    /\ \E t \in DOMAIN FlagOfType :
                          Names(security, t) /\ key = <<FlagOfType[t]>>
              /\ \A t \in DOMAIN FlagOfType :
                    Names(security, t) => <<FlagOfType[t]>> \in DOMAIN out
<1> DEFINE s == <<"security">>
           type == security[<<"proxy_type">>]
           named == {t \in DOMAIN FlagOfType : TrimSpace(type[2]) = <<t>>}
           Typed == <<"proxy_type">> \in DOMAIN security /\ type[1] = "string"
           set == setIfAbsent(security, FlagOfType[CHOOSE t \in named : TRUE])
           With(out) == [payload EXCEPT ![s] = <<"map", out>>]
<1>1. deriveAPIFlags(payload) = IF Typed /\ named # {} THEN With(set) ELSE payload
  <2>1. payload[s][1] = "map" /\ payload[s][2] = security /\ s \in DOMAIN payload
    OBVIOUS
  <2> DEFINE sec == payload[s][2]
             ty == sec[<<"proxy_type">>]
             nm == {t \in DOMAIN FlagOfType : TrimSpace(ty[2]) = <<t>>}
  <2>2. deriveAPIFlags(payload)
          = IF s \notin DOMAIN payload THEN payload
            ELSE IF payload[s][1] # "map" THEN payload
            ELSE IF <<"proxy_type">> \notin DOMAIN sec THEN payload
            ELSE IF ty[1] # "string" THEN payload
            ELSE IF nm = {} THEN payload
            ELSE With(setIfAbsent(sec, FlagOfType[CHOOSE t \in nm : TRUE]))
    BY Zenon DEF deriveAPIFlags
  <2>3. sec = security
    BY <2>1
  <2> HIDE DEF With, sec
  <2> QED BY <2>1, <2>2, <2>3
<1>2. With(security) = payload
  <2> HIDE DEF s
  <2> QED BY DEF s
<1>3. CASE Typed /\ named # {}
  <2> DEFINE u == CHOOSE t \in named : TRUE
  <2>1. u \in named
    BY <1>3
  <2>2. /\ DOMAIN set = DOMAIN security \cup {<<FlagOfType[u]>>}
        /\ \A k \in DOMAIN security : set[k] = security[k]
        /\ <<FlagOfType[u]>> \notin DOMAIN security =>
              set[<<FlagOfType[u]>>] = <<"bool", TRUE>>
    BY SetIs
  <2>3. Names(security, u) /\ u \in DOMAIN FlagOfType
    BY <1>3, <2>1 DEF Names
  <2>4. ASSUME NEW t \in DOMAIN FlagOfType, Names(security, t) PROVE t = u
    <3>1. <<t>> = <<u>>
      BY <2>1, <2>4 DEF Names
    <3> QED BY <3>1
  <2>5. deriveAPIFlags(payload) = With(set)
    BY <1>1, <1>3
  <2> HIDE DEF set, u
  <2> QED BY <2>2, <2>3, <2>4, <2>5
<1>4. CASE ~(Typed /\ named # {})
  <2>1. \A t \in DOMAIN FlagOfType : ~Names(security, t)
    BY <1>4 DEF Names
  <2>2. deriveAPIFlags(payload) = With(security)
    BY <1>1, <1>2, <1>4
  <2> QED BY <2>1, <2>2
<1> QED BY <1>3, <1>4

(* The text of a true flag is read as one. *)
LEMMA TrueIsTruthy ==
    ASSUME NEW language, NEW oneZero \in BOOLEAN
    PROVE  LET f == Formatter(language, oneZero)
           IN truthy(f.trueValue) /\ f.trueValue # <<>>
<1> DEFINE f == Formatter(language, oneZero)
<1>0. ASSUME NEW w \in {"1", "true"}
      PROVE  TrimSpace(<<w>>) = <<w>> /\ <<w>> # <<>>
  <2>1. w \in TextWords /\ w # Blank
    BY Marks
  <2> QED BY <2>1, OneWord
<1>1. truthy(<<"1">>) /\ truthy(<<"true">>)
  BY <1>0 DEF truthy
<1>2. f.trueValue = <<"1">> \/ f.trueValue = <<"true">>
  BY DEF Formatter
<1> HIDE DEF f
<1>3. <<"1">> # <<>> /\ <<"true">> # <<>>
  OBVIOUS
<1>4. truthy(f.trueValue) /\ f.trueValue # <<>>
  BY <1>1, <1>2, <1>3
<1> QED BY <1>4 DEF f

(* A path of two parts is walked in two steps. *)
LEMMA TwoParts ==
    ASSUME NEW record, NEW first, NEW second
    PROVE  LET end == Into(Into(record, first), second)
           IN resolvePath(record, <<first, second>>) = IF end = Nil THEN Missing ELSE end
<1> DEFINE path == <<first, second>>
           g == Walk(record, path)
<1>1. /\ g[0] = record
      /\ \A n \in Nat : g[n + 1] = Into(g[n], path[n + 1])
  BY WalkSteps
<1>2. Len(path) = 2 /\ path[1] = first /\ path[2] = second
  OBVIOUS
<1> HIDE DEF path, g
<1>3. g[0 + 1] = Into(g[0], path[0 + 1])
  BY <1>1
<1>4. g[1 + 1] = Into(g[1], path[1 + 1])
  BY <1>1
<1>5. g[2] = Into(Into(record, first), second)
  BY <1>1, <1>2, <1>3, <1>4
<1>6. resolvePath(record, path) = IF g[2] = Nil THEN Missing ELSE g[2]
  BY <1>2 DEF resolvePath, g
<1> QED BY <1>5, <1>6 DEF path

(* A flag that only the proxy type names decides as one that is stated: the rules
   read it as true, whichever way booleans are written, from the field that has
   its path, unless an earlier path of that field has a text (deriveAPIFlags,
   extract, truthy). *)
THEOREM DerivedFlagsDecide ==
    ASSUME NEW payload, payload = [k \in DOMAIN payload |-> payload[k]],
           NEW security, <<"security">> \in DOMAIN payload,
           payload[<<"security">>] = <<"map", security>>,
           NEW t \in DOMAIN FlagOfType, Names(security, t),
           <<FlagOfType[t]>> \notin DOMAIN security,
           NEW language, NEW oneZero \in BOOLEAN,
           NEW def \in Definitions, def.kind = "bool",
           NEW j \in DOMAIN def.paths,
           def.paths[j] = <<<<"security">>, <<FlagOfType[t]>>>>
    PROVE  LET f == Formatter(language, oneZero)
               derived == <<"map", deriveAPIFlags(payload)>>
               record == [path \in PathsOf(def) |-> resolvePath(derived, path)]
               Text(m) == TextOf(f, record[def.paths[m]], "bool")
           IN (\A m \in DOMAIN def.paths : m < j => Text(m) = <<>>)
                 => truthy(extract(f, record, def))
<1> DEFINE f == Formatter(language, oneZero)
           key == <<FlagOfType[t]>>
           s == <<"security">>
           path == <<s, key>>
           true == <<"bool", TRUE>>
           derived == deriveAPIFlags(payload)
           record == [p \in PathsOf(def) |-> resolvePath(<<"map", derived>>, p)]
           Text(m) == TextOf(f, record[def.paths[m]], "bool")
           hits == {m \in DOMAIN def.paths : Text(m) # <<>>}
<1>1. PICK out :
         /\ derived = [payload EXCEPT ![s] = <<"map", out>>]
         /\ key \in DOMAIN out /\ out[key] = true
  <2>1. PICK out :
           /\ derived = [payload EXCEPT ![s] = <<"map", out>>]
           /\ \A k \in DOMAIN out \ DOMAIN security :
                 /\ out[k] = true
                 /\ \E u \in DOMAIN FlagOfType : Names(security, u) /\ k = <<FlagOfType[u]>>
           /\ \A u \in DOMAIN FlagOfType :
                 Names(security, u) => <<FlagOfType[u]>> \in DOMAIN out
    BY DerivedFlags
  <2> HIDE DEF derived, true
  <2>2. key \in DOMAIN out
    BY <2>1
  <2>3. key \notin DOMAIN security
    OBVIOUS
  <2> HIDE DEF key
  <2>4. out[key] = true
    BY <2>1, <2>2, <2>3
  <2> QED BY <2>1, <2>2, <2>4
<1>2. s \in DOMAIN derived /\ derived[s] = <<"map", out>>
  BY <1>1
<1>3. true # Nil /\ true # Missing
  BY DEF Nil, Missing
<1>4. resolvePath(<<"map", derived>>, path) = true
  <2> HIDE DEF derived, s, key, true, path
  <2>1. Into(<<"map", derived>>, s) = <<"map", out>>
    BY <1>2 DEF Into
  <2>2. Into(<<"map", out>>, key) = true
    BY <1>1 DEF Into
  <2> QED BY <1>3, <2>1, <2>2, TwoParts DEF path
<1>5. format(f, true, "bool") = f.trueValue
  <2> HIDE DEF f
  <2>1. \A text : FormatOne(f, text, true, "bool") = f.trueValue
    BY DEF FormatOne, boolString
  <2> QED BY <2>1, FormatIs
<1>6. Text(j) = f.trueValue
  <2>1. path \in PathsOf(def) /\ def.paths[j] = path
    BY DefinitionPaths
  <2>2. record[path] = true
    BY <1>4, <2>1
  <2> HIDE DEF record, path, true, f
  <2> QED BY <1>3, <1>5, <2>1, <2>2 DEF TextOf
<1>7. truthy(f.trueValue) /\ f.trueValue # <<>>
  BY TrueIsTruthy
<1> SUFFICES ASSUME \A m \in DOMAIN def.paths : m < j => Text(m) = <<>>
             PROVE  truthy(extract(f, record, def))
  OBVIOUS
<1> HIDE DEF f, record
<1>8. j \in hits /\ hits \subseteq Nat /\ hits # {}
  BY <1>6, <1>7, DefinitionPaths
<1>9. Min(hits) = j
  <2>1. Min(hits) \in hits /\ Min(hits) <= j
    BY <1>8, MinOf
  <2>2. Min(hits) \in Nat /\ j \in Nat
    BY <1>8, <2>1
  <2>3. ASSUME NEW m \in hits PROVE ~(m < j)
    <3>1. m \in DOMAIN def.paths /\ Text(m) # <<>>
      OBVIOUS
    <3> HIDE DEF Text
    <3> QED BY <3>1
  <2> HIDE DEF hits
  <2> QED BY <2>1, <2>2, <2>3
<1>10. extract(f, record, def) = Text(Min(hits))
  BY <1>8, ExtractIs
<1> QED BY <1>6, <1>7, <1>9, <1>10

-----------------------------------------------------------------------------
(* The numbers of the file format. *)

(* The base-256 digits of a number make it up. *)
LEMMA Digits ==
    ASSUME NEW n \in Nat
    PROVE  /\ Low(n) \in Byte /\ Mid(n) \in Byte /\ High(n) \in Byte
           /\ n < 65536 => n = Big2(Mid(n), Low(n))
           /\ n < 16777216 => n = Big3(High(n), Mid(n), Low(n))
           /\ n = Big4(Top(n), High(n), Mid(n), Low(n))
<1>1. PICK q \in Nat : q = n \div 256 /\ n = q * 256 + Low(n)
  BY DEF Low
<1>2. PICK r \in Nat : r = n \div 65536 /\ q = r * 256 + Mid(n)
  BY <1>1 DEF Mid
<1>3. r = Top(n) * 256 + High(n)
  BY <1>2 DEF High, Top
<1>4. Low(n) \in Byte /\ Mid(n) \in Byte /\ High(n) \in Byte
  BY DEF Low, Mid, High, Byte
<1>5. Top(n) \in Nat /\ (n < 16777216 => Top(n) = 0) /\ (n < 65536 => r = 0)
  BY <1>2 DEF Top
<1>6. Low(n) \in Nat /\ Mid(n) \in Nat /\ High(n) \in Nat
  BY <1>4 DEF Byte
<1> HIDE DEF Low, Mid, High, Top
<1>7. n < 65536 => n = Big2(Mid(n), Low(n))
  BY <1>1, <1>2, <1>5, <1>6 DEF Big2
<1>8. n < 16777216 => n = Big3(High(n), Mid(n), Low(n))
  BY <1>1, <1>2, <1>3, <1>5, <1>6 DEF Big2, Big3
<1>9. n = Big4(Top(n), High(n), Mid(n), Low(n))
  BY <1>1, <1>2, <1>3, <1>5, <1>6 DEF Big2, Big3, Big4
<1> QED BY <1>4, <1>7, <1>8, <1>9

(* The highest digit and the others. *)
LEMMA TopDigit ==
    ASSUME NEW n \in Nat
    PROVE  n = Top(n) * 16777216 + Big3(High(n), Mid(n), Low(n))
<1>1. Low(n) \in Nat /\ Mid(n) \in Nat /\ High(n) \in Nat
  BY DEF Low, Mid, High
<1>2. n = Big4(Top(n), High(n), Mid(n), Low(n)) /\ Top(n) \in Nat
  BY Digits DEF Top
<1> QED BY <1>1, <1>2, SMT DEF Big2, Big3, Big4

-----------------------------------------------------------------------------
(* A file that readMetadata accepts holds every number of its tree, below the
   separator: a walk inside the tree reads nothing else (readNode). *)
THEOREM NodesInFile ==
    ASSUME NEW meta \in Metadata, NEW total \in Nat, Accepted(meta, total),
           NEW number \in Nat, number < meta.nodeCount
    PROVE  /\ NodeFrom(meta, number) \in Nat
           /\ NodeTo(meta, number) <= treeSize(meta)
           /\ treeSize(meta) + 16 <= total
<1>1. nodeSize(meta) \in {6, 7, 8} /\ meta.nodeCount \in Nat
  <2>1. meta.recordSize \in {24, 28, 32} /\ meta.nodeCount \in Nat
    BY DEF Accepted, Metadata
  <2> QED BY <2>1, SMT DEF nodeSize
<1>2. NodeFrom(meta, number) \in Nat /\ NodeTo(meta, number) <= treeSize(meta)
  <2>1. CASE nodeSize(meta) = 6
    BY <1>1, <2>1, SMT DEF NodeFrom, NodeTo, treeSize
  <2>2. CASE nodeSize(meta) = 7
    BY <1>1, <2>2, SMT DEF NodeFrom, NodeTo, treeSize
  <2>3. CASE nodeSize(meta) = 8
    BY <1>1, <2>3, SMT DEF NodeFrom, NodeTo, treeSize
  <2> QED BY <1>1, <2>1, <2>2, <2>3, SMT
<1> QED BY <1>2, SMT DEF Accepted, dataBase

Limit(recordSize) ==
    IF recordSize = 24 THEN 16777216
    ELSE IF recordSize = 28 THEN 268435456 ELSE 4294967296

(* readNode returns the records of a number, for each of the three sizes. *)
THEOREM NodeRoundTrip ==
    ASSUME NEW size \in {24, 28, 32}, NEW l \in Nat, NEW r \in Nat,
           l < Limit(size), r < Limit(size)
    PROVE  /\ Left(size, EncodedNode(size, l, r)) = l
           /\ Right(size, EncodedNode(size, l, r)) = r
<1> DEFINE b == EncodedNode(size, l, r)
<1>1. CASE size = 24
  BY <1>1, Digits, SMT DEF EncodedNode, Left, Right, Limit
<1>2. CASE size = 32
  BY <1>2, Digits, SMT DEF EncodedNode, Left, Right
<1>3. CASE size = 28
  <2>1. Top(l) \in 0..15 /\ Top(r) \in 0..15
    BY <1>3, SMT DEF Limit, Top
  <2>2. (Top(l) * 16 + Top(r)) \div 16 = Top(l) /\ (Top(l) * 16 + Top(r)) % 16 = Top(r)
    BY <2>1, SMT
  <2>3. b = <<High(l), Mid(l), Low(l), Top(l) * 16 + Top(r), High(r), Mid(r), Low(r)>>
    BY <1>3, SMT DEF EncodedNode
  <2>4. Left(size, b) = Top(l) * 16777216 + Big3(High(l), Mid(l), Low(l))
    BY <1>3, <2>2, <2>3, SMT DEF Left
  <2>5. Right(size, b) = Top(r) * 16777216 + Big3(High(r), Mid(r), Low(r))
    BY <1>3, <2>2, <2>3, SMT DEF Right
  <2> QED BY <2>4, <2>5, TopDigit, SMT
<1> QED BY <1>1, <1>2, <1>3, SMT

(* decodeSize returns every size that the format can express, with no gap
   and no overlap where the encodings change: 29, 285, 65821. *)
THEOREM SizeRoundTrip ==
    ASSUME NEW n \in Nat, n < 16843037
    PROVE  decodeSize(EncodedSize(n).bits, EncodedSize(n).bytes) = n
<1>1. CASE n < 29
  BY <1>1, SMT DEF EncodedSize, decodeSize
<1>2. CASE n >= 29 /\ n < 285
  BY <1>2, SMT DEF EncodedSize, decodeSize
<1>3. CASE n >= 285 /\ n < 65821
  <2>1. n - 285 \in Nat /\ n - 285 < 65536
    BY <1>3, SMT
  <2>2. EncodedSize(n) = [bits |-> 30, bytes |-> <<Mid(n - 285), Low(n - 285)>>]
    BY <1>3, SMT DEF EncodedSize
  <2>3. decodeSize(30, <<Mid(n - 285), Low(n - 285)>>)
           = 285 + Big2(Mid(n - 285), Low(n - 285))
    BY SMT DEF decodeSize
  <2> QED BY <2>1, <2>2, <2>3, Digits, SMT
<1>4. CASE n >= 65821
  <2>1. n - 65821 \in Nat /\ n - 65821 < 16777216
    BY <1>4, SMT
  <2>2. EncodedSize(n) = [bits |-> 31, bytes |-> <<High(n - 65821), Mid(n - 65821),
                                                   Low(n - 65821)>>]
    BY <1>4, SMT DEF EncodedSize
  <2>3. decodeSize(31, <<High(n - 65821), Mid(n - 65821), Low(n - 65821)>>)
           = 65821 + Big3(High(n - 65821), Mid(n - 65821), Low(n - 65821))
    BY SMT DEF decodeSize
  <2> QED BY <2>1, <2>2, <2>3, Digits, SMT
<1> QED BY <1>1, <1>2, <1>3, <1>4, SMT

(* decodePointer returns every offset a pointer can express, in the shortest
   of its four forms: 2048, 526336 and 134744064 are where they change. *)
THEOREM PointerRoundTrip ==
    ASSUME NEW n \in Nat, n < 4294967296
    PROVE  decodePointer(EncodedPointer(n).ctrl, EncodedPointer(n).bytes) = n
<1>1. CASE n < 2048
  <2>1. PICK q \in 0..7 : q = n \div 256 /\ n = Big2(q, Low(n))
    BY <1>1, SMT DEF Low, Big2
  <2>2. EncodedPointer(n) = [ctrl |-> 32 + q, bytes |-> <<Low(n)>>]
    BY <1>1, <2>1, SMT DEF EncodedPointer
  <2>3. ((32 + q) \div 8) % 4 = 0 /\ (32 + q) % 8 = q
    BY <2>1, SMT
  <2>4. decodePointer(32 + q, <<Low(n)>>) = Big2(q, Low(n))
    BY <2>3, SMT DEF decodePointer
  <2> QED BY <2>1, <2>2, <2>4, SMT
<1>2. CASE n >= 2048 /\ n < 526336
  <2> DEFINE m == n - 2048
  <2>1. m \in Nat /\ m < 524288
    BY <1>2, SMT
  <2>2. EncodedPointer(n) = [ctrl |-> 40 + m \div 65536, bytes |-> <<Mid(m), Low(m)>>]
    BY <1>2, SMT DEF EncodedPointer
  <2> HIDE DEF m
  <2>3. PICK q \in 0..7 : q = m \div 65536 /\ High(m) = q /\ Top(m) = 0
    BY <2>1, SMT DEF High, Top
  <2>4. ((40 + q) \div 8) % 4 = 1 /\ (40 + q) % 8 = q
    BY <2>3, SMT
  <2>5. decodePointer(40 + q, <<Mid(m), Low(m)>>) = 2048 + Big3(q, Mid(m), Low(m))
    BY <2>4, SMT DEF decodePointer
  <2>6. m = Big3(q, Mid(m), Low(m))
    BY <2>1, <2>3, Digits, SMT
  <2>7. 2048 + m = n
    BY SMT DEF m
  <2> QED BY <2>2, <2>3, <2>5, <2>6, <2>7, SMT
<1>3. CASE n >= 526336 /\ n < 134744064
  <2> DEFINE m == n - 526336
  <2>1. m \in Nat /\ m < 134217728
    BY <1>3, SMT
  <2>2. EncodedPointer(n) = [ctrl |-> 48 + Top(m), bytes |-> <<High(m), Mid(m), Low(m)>>]
    BY <1>3, SMT DEF EncodedPointer
  <2> HIDE DEF m
  <2>3. Top(m) \in 0..7
    BY <2>1, SMT DEF Top
  <2>4. ((48 + Top(m)) \div 8) % 4 = 2 /\ (48 + Top(m)) % 8 = Top(m)
    BY <2>3, SMT
  <2>5. decodePointer(48 + Top(m), <<High(m), Mid(m), Low(m)>>)
           = 526336 + Big4(Top(m), High(m), Mid(m), Low(m))
    BY <2>4, SMT DEF decodePointer
  <2>6. 526336 + m = n
    BY SMT DEF m
  <2> QED BY <2>1, <2>2, <2>5, <2>6, Digits, SMT
<1>4. CASE n >= 134744064
  <2>1. EncodedPointer(n) = [ctrl |-> 56, bytes |-> <<Top(n), High(n), Mid(n), Low(n)>>]
    BY <1>4, SMT DEF EncodedPointer
  <2>2. decodePointer(56, <<Top(n), High(n), Mid(n), Low(n)>>)
           = Big4(Top(n), High(n), Mid(n), Low(n))
    BY SMT DEF decodePointer
  <2> QED BY <2>1, <2>2, Digits, SMT
<1> QED BY <1>1, <1>2, <1>3, <1>4, SMT

(* A signed 32-bit number comes back from its two's complement, negative ones
   too (decode's int32 case). *)
THEOREM SignedRoundTrip ==
    ASSUME NEW n \in Int, -2147483648 <= n, n < 2147483648
    PROVE  int32(n % 4294967296) = n
<1>1. CASE n >= 0
  BY <1>1, SMT DEF int32
<1>2. CASE n < 0
  <2>1. n % 4294967296 = n + 4294967296
    BY <1>2, SMT
  <2> QED BY <1>2, <2>1, SMT DEF int32
<1> QED BY <1>1, <1>2, SMT

-----------------------------------------------------------------------------
(* The search tree. *)

-----------------------------------------------------------------------------
(* An address is a sequence of bits with the length of its version. *)
LEMMA AddressLen ==
    ASSUME NEW a \in Addresses
    PROVE  /\ a \in Seq(0..1)
           /\ Len(a) \in {V4Width, Width}
           /\ \A j \in 1..Len(a) : a[j] \in 0..1
<1>1. CASE a \in [1..V4Width -> 0..1]
  BY <1>1, TreeAssumption
<1>2. CASE a \in [1..Width -> 0..1]
  BY <1>2, TreeAssumption
<1> QED BY <1>1, <1>2 DEF Addresses

(* What a database files an address under has the address as its end and
   nothing but zero bits before. *)
LEMMA FiledBits ==
    ASSUME NEW a \in Addresses, NEW v \in {4, 6}
    PROVE  LET bits == FiledUnder(a, v)
               zeros == IF IsV4(a) /\ v = 6 THEN ZeroBits ELSE 0
           IN /\ Len(bits) = zeros + Len(a)
              /\ \A j \in 1..zeros : bits[j] = 0
              /\ \A j \in 1..Len(a) : bits[zeros + j] = a[j]
<1> DEFINE Z == [j \in 1..(Width - V4Width) |-> 0]
<1>1. a \in Seq(0..1) /\ Len(a) \in Nat
  BY AddressLen, TreeAssumption
<1>2. Width - V4Width \in Nat
  BY TreeAssumption
<1>3. Z \in Seq(0..1) /\ Len(Z) = ZeroBits /\ \A j \in 1..ZeroBits : Z[j] = 0
  BY <1>2 DEF ZeroBits
<1>4. CASE IsV4(a) /\ v = 6
  <2>1. FiledUnder(a, v) = Z \o a
    BY <1>4 DEF FiledUnder
  <2> HIDE DEF Z
  <2>2. /\ Len(Z \o a) = Len(Z) + Len(a)
        /\ \A j \in 1..(Len(Z) + Len(a)) :
              (Z \o a)[j] = IF j <= Len(Z) THEN Z[j] ELSE a[j - Len(Z)]
    BY <1>1, <1>3, ConcatProperties
  <2>3. \A j \in 1..ZeroBits : (Z \o a)[j] = 0
    BY <2>2, <1>1, <1>2, <1>3 DEF ZeroBits
  <2>4. \A j \in 1..Len(a) : (Z \o a)[ZeroBits + j] = a[j]
    BY <2>2, <1>1, <1>2, <1>3 DEF ZeroBits
  <2> QED BY <1>3, <1>4, <2>1, <2>2, <2>3, <2>4
<1>5. CASE ~(IsV4(a) /\ v = 6)
  BY <1>1, <1>5 DEF FiledUnder
<1> QED BY <1>4, <1>5

-----------------------------------------------------------------------------
(* The empty path leads to the root. *)
LEMMA LeadsToRoot ==
    ASSUME NEW t, NEW bits
    PROVE  Leads(t, bits, 0, 0)
<1>1. 0 \in Records
  BY TreeAssumption DEF Records
<1>2. [j \in 0..0 |-> 0] \in [0..0 -> Records]
  BY <1>1
<1>3. IsPath(t, [j \in 0..0 |-> 0], bits, 0, 0)
  BY DEF IsPath
<1> QED BY <1>2, <1>3 DEF Leads

(* A path that ends inside the tree goes on with the next bit. *)
LEMMA LeadsOn ==
    ASSUME NEW t \in Trees, NEW bits, NEW n \in Nat, NEW r \in Records,
           Leads(t, bits, n, r), InsideTree(r), bits[n + 1] \in 0..1
    PROVE  /\ t[r][bits[n + 1]] \in Records
           /\ Leads(t, bits, n + 1, t[r][bits[n + 1]])
<1> DEFINE s == t[r][bits[n + 1]]
<1>1. r \in Nodes
  BY TreeAssumption DEF InsideTree, Records, Nodes
<1>2. s \in Records
  BY <1>1 DEF Trees
<1>3. PICK path \in [0..n -> Records] : IsPath(t, path, bits, n, r)
  BY DEF Leads
<1> DEFINE longer == [j \in 0..(n + 1) |-> IF j = n + 1 THEN s ELSE path[j]]
<1>4. longer \in [0..(n + 1) -> Records]
  BY <1>2, <1>3
<1>5. longer[0] = 0 /\ longer[n + 1] = s
  BY <1>3 DEF IsPath
<1>6. ASSUME NEW j \in 1..(n + 1)
      PROVE  InsideTree(longer[j - 1]) /\ longer[j] = t[longer[j - 1]][bits[j]]
  <2>1. CASE j = n + 1
    BY <1>3, <2>1 DEF IsPath
  <2>2. CASE j \in 1..n
    BY <1>3, <2>2 DEF IsPath
  <2> QED BY <2>1, <2>2
<1>7. IsPath(t, longer, bits, n + 1, s)
  BY <1>5, <1>6 DEF IsPath
<1> QED BY <1>2, <1>4, <1>7 DEF Leads

(* A path depends on the bits it follows only. *)
LEMMA LeadsAlike ==
    ASSUME NEW t, NEW bits, NEW other, NEW n \in Nat, NEW r,
           Leads(t, bits, n, r), \A j \in 1..n : bits[j] = other[j]
    PROVE  Leads(t, other, n, r)
BY DEF Leads, IsPath

-----------------------------------------------------------------------------
AllZeros == [j \in 1..ZeroBits |-> 0]

(* The IPv4 subtree begins where zero bits lead, all of them or as many as
   the tree has. *)
StartReached(start, n) ==
    /\ Leads(tree, AllZeros, n, start)
    /\ InsideTree(start) => n = ZeroBits

(* Having consumed i bits of the address, the walk is where a prefix of the
   bits it is filed under leads: the one with i bits of the address, as long
   as the tree goes on. *)
WalkReached(n) ==
    /\ Leads(tree, FiledUnder(ip, version), n, node)
    /\ InsideTree(node) => n = Len(FiledUnder(ip, version)) - Len(ip) + i

OpenInv ==
    pc = "open" => version = 6 /\ i <= ZeroBits /\ Leads(tree, AllZeros, i, node)
StartInv ==
    version = 6 /\ pc # "open" =>
        ipv4Start \in Records /\ \E n \in 0..ZeroBits : StartReached(ipv4Start, n)
WalkInv ==
    pc = "walk" => /\ i <= Len(ip)
                   /\ version = 6 \/ IsV4(ip)
                   /\ \E n \in 0..Len(FiledUnder(ip, version)) : WalkReached(n)

TreeInv == TreeTypeOK /\ OpenInv /\ StartInv /\ WalkInv /\ LongestPrefixMatch

USE TreeAssumption

(* The invariant of the walk holds at first. *)
LEMMA TreeInitInv == TreeInit => TreeInv
<1> SUFFICES ASSUME TreeInit PROVE TreeInv
  OBVIOUS
<1>1. TreeTypeOK
  BY DEF TreeInit, TreeTypeOK, Records, Outcomes
<1>2. OpenInv
  BY LeadsToRoot DEF TreeInit, OpenInv, ZeroBits
<1>3. StartInv /\ WalkInv /\ LongestPrefixMatch
  BY DEF TreeInit, StartInv, WalkInv, LongestPrefixMatch
<1> QED BY <1>1, <1>2, <1>3 DEF TreeInv

(* The bits that were followed to the IPv4 subtree are counted. *)
LEMMA ZeroBitsNat == ZeroBits \in Nat
BY DEF ZeroBits

(* Each action keeps it: following a zero bit, *)
LEMMA FollowZeroBitInv == ASSUME TreeInv, FollowZeroBit PROVE TreeInv'
<1>1. /\ AllZeros[i + 1] \in 0..1
      /\ i \in Nat /\ i + 1 <= ZeroBits /\ node \in Records /\ tree \in Trees
      /\ Leads(tree, AllZeros, i, node) /\ InsideTree(node)
      /\ AllZeros[i + 1] = 0
  BY ZeroBitsNat DEF TreeInv, TreeTypeOK, OpenInv, FollowZeroBit, AllZeros
<1>2. node' \in Records /\ Leads(tree, AllZeros, i + 1, node')
  BY <1>1, LeadsOn DEF FollowZeroBit
<1>3. TreeTypeOK'
  BY <1>1, <1>2 DEF TreeInv, TreeTypeOK, FollowZeroBit, ZeroBits
<1>4. OpenInv'
  BY <1>1, <1>2 DEF TreeInv, OpenInv, FollowZeroBit
<1>5. StartInv' /\ WalkInv' /\ LongestPrefixMatch'
  BY DEF FollowZeroBit, StartInv, WalkInv, LongestPrefixMatch
<1> QED BY <1>3, <1>4, <1>5 DEF TreeInv

(* ... fixing where IPv4 addresses start, *)
LEMMA FixIPv4StartInv == ASSUME TreeInv, FixIPv4Start PROVE TreeInv'
<1>1. /\ i \in 0..ZeroBits /\ node \in Records
      /\ InsideTree(node) => i = ZeroBits
      /\ Leads(tree, AllZeros, i, node)
  BY ZeroBitsNat DEF TreeInv, TreeTypeOK, OpenInv, FixIPv4Start
<1>2. TreeTypeOK'
  BY <1>1 DEF TreeInv, TreeTypeOK, FixIPv4Start, Records
<1>3. StartInv'
  BY <1>1, ZeroBitsNat DEF FixIPv4Start, StartInv, StartReached, InsideTree
<1>4. OpenInv' /\ WalkInv' /\ LongestPrefixMatch'
  BY DEF FixIPv4Start, OpenInv, WalkInv, LongestPrefixMatch
<1> QED BY <1>2, <1>3, <1>4 DEF TreeInv

(* ... starting a walk, *)
LEMMA StartWalkInv == ASSUME TreeInv, StartWalk PROVE TreeInv'
<1> DEFINE bits == FiledUnder(ip, version)
<1>1. /\ ip \in Addresses /\ version \in {4, 6} /\ Len(ip) \in Nat
      /\ tree' = tree /\ ip' = ip /\ version' = version /\ i' = 0
  BY AddressLen DEF TreeInv, TreeTypeOK, StartWalk
<1>2. CASE IsV4(ip) /\ version = 6
  <2>1. PICK n \in 0..ZeroBits : StartReached(ipv4Start, n)
    BY <1>2 DEF TreeInv, StartInv, StartWalk
  <2>2. /\ Len(bits) = ZeroBits + Len(ip)
        /\ \A j \in 1..ZeroBits : bits[j] = 0
    BY <1>1, <1>2, FiledBits
  <2>3. \A j \in 1..n : AllZeros[j] = bits[j]
    BY <2>1, <2>2, ZeroBitsNat DEF AllZeros
  <2>4. Leads(tree, bits, n, ipv4Start)
    BY <2>1, <2>3, ZeroBitsNat, LeadsAlike DEF StartReached
  <2>5. /\ node' = ipv4Start /\ ipv4Start \in Records /\ pc' = "walk"
        /\ InsideTree(node') => n = Len(bits) - Len(ip) + 0
    BY <1>1, <1>2, <2>1, <2>2, ZeroBitsNat
    DEF TreeInv, StartInv, StartWalk, StartReached
  <2>6. n \in 0..Len(bits)
    BY <1>1, <2>1, <2>2, ZeroBitsNat
  <2> HIDE DEF bits
  <2>7. WalkReached(n)'
    BY <1>1, <2>4, <2>5 DEF WalkReached, InsideTree, bits
  <2>8. WalkInv'
    BY <1>1, <1>2, <2>5, <2>6, <2>7 DEF WalkInv, bits
  <2>9. TreeTypeOK' /\ OpenInv' /\ StartInv' /\ LongestPrefixMatch'
    BY <1>2, <2>5 DEF TreeInv, TreeTypeOK, OpenInv, StartInv, LongestPrefixMatch,
                      StartWalk, StartReached, InsideTree
  <2> QED BY <2>8, <2>9 DEF TreeInv
<1>3. CASE ~(IsV4(ip) /\ version = 6)
  <2>1. bits = ip
    BY <1>3 DEF FiledUnder
  <2>2. node' = 0 /\ 0 \in Records
    BY <1>3 DEF StartWalk, Records
  <2> HIDE DEF bits
  <2>3. WalkReached(0)'
    BY <1>1, <2>1, <2>2, LeadsToRoot DEF WalkReached, bits
  <2>4. WalkInv'
    BY <1>1, <1>3, <2>1, <2>3 DEF WalkInv, bits, StartWalk, IsV4
  <2>5. TreeTypeOK' /\ OpenInv' /\ StartInv'
    BY <1>3, <2>2 DEF TreeInv, TreeTypeOK, OpenInv, StartInv, Outcomes,
                      StartWalk, StartReached, InsideTree
  <2>6. LongestPrefixMatch'
    BY <1>1 DEF LongestPrefixMatch, StartWalk, IsV4
  <2> QED BY <2>4, <2>5, <2>6 DEF TreeInv
<1> QED BY <1>2, <1>3

(* ... following a bit of the address, *)
LEMMA WalkBitInv == ASSUME TreeInv, WalkBit PROVE TreeInv'
<1> DEFINE bits == FiledUnder(ip, version)
<1>1. /\ ip \in Addresses /\ version \in {4, 6} /\ tree \in Trees
      /\ node \in Records /\ InsideTree(node)
      /\ i \in Nat /\ Len(ip) \in Nat /\ i < Len(ip) /\ Len(ip) <= Width
      /\ tree' = tree /\ ip' = ip /\ version' = version /\ i' = i + 1
      /\ ip[i + 1] \in 0..1 /\ node' = tree[node][ip[i + 1]]
  BY AddressLen DEF TreeInv, TreeTypeOK, WalkBit
<1>2. PICK n \in 0..Len(bits) : WalkReached(n)
  BY DEF TreeInv, WalkInv, WalkBit
<1>3. PICK zeros \in Nat : /\ Len(bits) = zeros + Len(ip)
                          /\ \A j \in 1..Len(ip) : bits[zeros + j] = ip[j]
  BY <1>1, FiledBits, ZeroBitsNat
<1> HIDE DEF bits
<1>4. n = zeros + i /\ n + 1 \in 0..Len(bits)
  BY <1>1, <1>2, <1>3 DEF WalkReached, bits
<1>5. bits[n + 1] = ip[i + 1]
  <2>1. i + 1 \in 1..Len(ip) /\ n + 1 = zeros + (i + 1)
    BY <1>1, <1>3, <1>4
  <2> QED BY <1>3, <2>1
<1>6. node' \in Records /\ Leads(tree, bits, n + 1, node')
  <2>1. n \in Nat /\ bits[n + 1] \in 0..1 /\ Leads(tree, bits, n, node)
    BY <1>1, <1>2, <1>3, <1>4, <1>5 DEF WalkReached, bits
  <2> QED BY <1>1, <1>5, <2>1, LeadsOn
<1>7. WalkReached(n + 1)'
  BY <1>1, <1>3, <1>4, <1>6 DEF WalkReached, bits
<1>8. WalkInv'
  BY <1>1, <1>4, <1>7 DEF TreeInv, WalkInv, WalkBit, bits, IsV4
<1>9. TreeTypeOK' /\ OpenInv' /\ StartInv' /\ LongestPrefixMatch'
  BY <1>1, <1>6 DEF TreeInv, TreeTypeOK, OpenInv, StartInv, StartReached,
                    LongestPrefixMatch, WalkBit, InsideTree
<1> QED BY <1>8, <1>9 DEF TreeInv

(* ... judging the record that was reached, *)
LEMMA JudgeRecordInv == ASSUME TreeInv, JudgeRecord PROVE TreeInv'
<1> DEFINE bits == FiledUnder(ip, version)
<1>1. /\ ip \in Addresses /\ version \in {4, 6} /\ node \in Records
      /\ i \in Nat /\ Len(ip) \in Nat /\ i <= Len(ip)
      /\ ~(i < Len(ip) /\ InsideTree(node))
      /\ tree' = tree /\ ip' = ip /\ version' = version
  BY AddressLen DEF TreeInv, TreeTypeOK, WalkInv, JudgeRecord
<1>2. PICK n \in 0..Len(bits) : WalkReached(n)
  BY DEF TreeInv, WalkInv, JudgeRecord
<1>3. Len(bits) \in Nat
  BY <1>1, FiledBits, ZeroBitsNat
<1>4. Leads(tree, bits, n, node)
  BY <1>2 DEF WalkReached
<1>5. /\ node < NodeCount => node \in Nodes /\ n = Len(bits)
      /\ node > NodeCount => /\ node - NodeCount - Separator \in Offsets
                            /\ NodeCount + Separator + (node - NodeCount - Separator) = node
  BY <1>1, <1>2, <1>3 DEF WalkReached, InsideTree, Records, Nodes
<1> HIDE DEF bits
<1>6. LongestPrefixMatch'
  <2>1. CASE node = NodeCount
    BY <1>1, <1>4, <2>1 DEF JudgeRecord, LongestPrefixMatch, bits
  <2>2. CASE node > NodeCount
    BY <1>1, <1>4, <1>5, <2>2 DEF JudgeRecord, LongestPrefixMatch, DataOffset, bits, Records
  <2>3. CASE node < NodeCount
    BY <1>1, <1>4, <1>5, <2>3 DEF JudgeRecord, LongestPrefixMatch, bits, Records
  <2> QED BY <1>1, <2>1, <2>2, <2>3 DEF Records
<1>7. TreeTypeOK' /\ OpenInv' /\ StartInv' /\ WalkInv'
  BY <1>1, <1>5 DEF TreeInv, TreeTypeOK, OpenInv, StartInv, StartReached, WalkInv,
                    JudgeRecord, DataOffset, InsideTree, Outcomes
<1> QED BY <1>6, <1>7 DEF TreeInv

(* ... and by doing nothing. *)
LEMMA TreeStutterInv == ASSUME TreeInv, UNCHANGED treeVars PROVE TreeInv'
BY DEF TreeInv, TreeTypeOK, OpenInv, StartInv, StartReached, WalkInv, WalkReached,
       LongestPrefixMatch, InsideTree, treeVars

(* So it always holds. *)
LEMMA TreeInvHolds == TreeSpec => []TreeInv
<1>1. TreeInv /\ [TreeNext]_treeVars => TreeInv'
  BY FollowZeroBitInv, FixIPv4StartInv, StartWalkInv, WalkBitInv, JudgeRecordInv,
     TreeStutterInv DEF TreeNext
<1> QED BY TreeInitInv, <1>1, PTL DEF TreeSpec

-----------------------------------------------------------------------------
(* The walk stays within the file's records, and its result within the
   offsets they hold: no lookup reads outside the tree. *)
THEOREM TreeTypeCorrect == TreeSpec => []TreeTypeOK
<1>1. TreeInv => TreeTypeOK
  BY DEF TreeInv
<1> QED BY TreeInvHolds, <1>1, PTL

(* A lookup is a longest prefix match over the bits an address is filed
   under, whatever tree the file holds (findIPv4Start, LookupOffset). *)
THEOREM LookupIsLongestPrefixMatch == TreeSpec => []LongestPrefixMatch
<1>1. TreeInv => LongestPrefixMatch
  BY DEF TreeInv
<1> QED BY TreeInvHolds, <1>1, PTL

-----------------------------------------------------------------------------
(* The record of an address. *)

(* The field of a record by the strategy that the number of fields selects. *)
Answered(name) ==
    ExtractedBy(name, offset, SeekOnly(Cardinality(DOMAIN FieldDefs)), inMemory, formatter)

Given == {name \in DOMAIN FieldDefs : Answered(name) # <<>>}

(* The walk of the tree, until it is over; then what was read at its end. *)
RecordInv ==
    /\ pc # "answered" => TreeInv
    /\ section \in Sections /\ inMemory \in BOOLEAN
    /\ pc \in {"found", "answered"} => offset \in Nat
    /\ pc = "answered" => fields = [name \in Given |-> Answered(name)]

(* The invariant of a lookup in the file holds at first ... *)
LEMMA RecordInit == Init => RecordInv
<1> SUFFICES ASSUME Init PROVE RecordInv
  OBVIOUS
<1>1. TreeInv /\ pc \in {"open", "ready"}
  BY TreeInitInv DEF Init, TreeInit
<1>2. tree \in Trees /\ ip \in Addresses
  BY DEF Init, TreeInit
<1>3. section \in Sections /\ inMemory \in BOOLEAN
  BY <1>2, RecordAssumption DEF Init
<1> QED BY <1>1, <1>3 DEF RecordInv

(* ... is kept by the steps in the tree, *)
LEMMA TreeNextInv ==
    ASSUME RecordInv, TreeNext, UNCHANGED <<readerVars, fields>>
    PROVE  RecordInv'
<1>1. TreeInv /\ pc # "answered"
  BY DEF RecordInv, TreeNext, FollowZeroBit, FixIPv4Start, StartWalk, WalkBit, JudgeRecord
<1>2. TreeInv'
  BY <1>1, FollowZeroBitInv, FixIPv4StartInv, StartWalkInv, WalkBitInv, JudgeRecordInv
  DEF TreeNext
<1>3. pc' # "answered"
  BY <1>2 DEF TreeInv, TreeTypeOK, Outcomes
<1>4. section' \in Sections /\ inMemory' \in BOOLEAN
  BY DEF RecordInv, readerVars
<1>5. pc' = "found" => offset' \in Nat
  <2>1. CASE JudgeRecord
    <3>1. node \in Records
      BY <1>1 DEF TreeInv, TreeTypeOK
    <3>2. node > NodeCount => DataOffset(node) \in Nat
      BY <3>1, TreeAssumption DEF Records, DataOffset
    <3>3. pc' = "found" => node > NodeCount /\ offset' = DataOffset(node)
      BY <2>1 DEF JudgeRecord
    <3> QED BY <3>2, <3>3
  <2>2. CASE ~JudgeRecord
    BY <1>1, <2>2 DEF TreeNext, FollowZeroBit, FixIPv4Start, StartWalk, WalkBit
  <2> QED BY <2>1, <2>2
<1> QED BY <1>2, <1>3, <1>4, <1>5 DEF RecordInv

(* ... by the extraction of the fields, *)
LEMMA ExtractRecordInv == ASSUME RecordInv, ExtractRecord PROVE RecordInv'
<1>1. /\ pc = "found" /\ pc' = "answered" /\ offset' = offset
      /\ section' = section /\ inMemory' = inMemory /\ formatter' = formatter
      /\ fields' = [name \in Given |-> Answered(name)]
  BY DEF ExtractRecord, Given, Answered, readerVars
<1>2. [name \in Given |-> Answered(name)]' = [name \in Given |-> Answered(name)]
  BY <1>1 DEF Given, Answered, ExtractedBy
<1> QED BY <1>1, <1>2 DEF RecordInv

(* ... and by doing nothing. *)
LEMMA RecordStutters == ASSUME RecordInv, UNCHANGED recordVars PROVE RecordInv'
<1>1. /\ treeVars' = treeVars /\ pc' = pc /\ offset' = offset /\ fields' = fields
      /\ section' = section /\ inMemory' = inMemory /\ formatter' = formatter
  BY DEF recordVars, readerVars, treeVars
<1>2. [name \in Given |-> Answered(name)]' = [name \in Given |-> Answered(name)]
  BY <1>1 DEF Given, Answered, ExtractedBy
<1>3. TreeInv => TreeInv'
  BY <1>1, TreeStutterInv
<1> QED BY <1>1, <1>2, <1>3 DEF RecordInv

(* So it always holds. *)
LEMMA RecordInvHolds == Spec => []RecordInv
<1>1. RecordInv /\ [Next]_recordVars => RecordInv'
  BY TreeNextInv, ExtractRecordInv, RecordStutters DEF Next
<1> QED BY RecordInit, <1>1, PTL DEF Spec

-----------------------------------------------------------------------------
(* A decodable record with distinct keys gives the same field by either
   strategy, from memory and through a window. *)
LEMMA SameField ==
    ASSUME section \in Sections, NEW off \in Nat, Intact(section, off),
           NEW name \in DOMAIN FieldDefs, NEW f,
           NEW seekOnly \in BOOLEAN, NEW memory \in BOOLEAN,
           NEW other \in BOOLEAN, NEW elsewhere \in BOOLEAN
    PROVE  ExtractedBy(name, off, seekOnly, memory, f)
              = ExtractedBy(name, off, other, elsewhere, f)
<1> DEFINE def == FieldDefs[name]
           Read(s, m) == [path \in PathsOf(def) |-> value(section, off, path, s, m)]
<1>1. def \in Definitions
  BY RecordAssumption
<1>2. PathsOf(def) \subseteq Paths
  BY <1>1, DefinitionPaths
<1>3. ASSUME NEW path \in PathsOf(def), NEW kind
      PROVE  TextOf(f, value(section, off, path, seekOnly, memory), kind)
                = TextOf(f, value(section, off, path, other, elsewhere), kind)
  BY <1>2, SameText
<1>4. \A path \in PathsOf(def) : \A kind :
         TextOf(f, Read(seekOnly, memory)[path], kind)
            = TextOf(f, Read(other, elsewhere)[path], kind)
  BY <1>3
<1> HIDE DEF Read, def
<1>5. extract(f, Read(seekOnly, memory), def) = extract(f, Read(other, elsewhere), def)
  BY <1>1, <1>4, SameExtract
<1> QED BY <1>5 DEF ExtractedBy, Read, def

(* "Every field in the catalog must resolve identically": whatever section the
   file holds, a record that decodes and repeats no key gives each field the
   same text by seeking and by decoding it whole, from memory and through a
   window (decode, skip, seek, at). *)
THEOREM FieldsAgree == Spec => []StrategiesAgree
<1>1. RecordInv => StrategiesAgree
  <2> SUFFICES ASSUME RecordInv, pc = "answered", Intact(section, offset),
                      NEW name \in DOMAIN FieldDefs,
                      NEW seekOnly \in BOOLEAN, NEW memory \in BOOLEAN
               PROVE  ExtractedBy(name, offset, seekOnly, memory, formatter)
                         = IF name \in DOMAIN fields THEN fields[name] ELSE <<>>
    BY DEF StrategiesAgree
  <2>1. section \in Sections /\ offset \in Nat /\ inMemory \in BOOLEAN
    BY DEF RecordInv
  <2>2. SeekOnly(Cardinality(DOMAIN FieldDefs)) \in BOOLEAN
    BY DEF SeekOnly
  <2>3. ExtractedBy(name, offset, seekOnly, memory, formatter) = Answered(name)
    BY <2>1, <2>2, SameField DEF Answered
  <2>4. fields = [n \in Given |-> Answered(n)]
    BY DEF RecordInv
  <2>5. name \in Given <=> Answered(name) # <<>>
    BY DEF Given
  <2> HIDE DEF Given
  <2> QED BY <2>3, <2>4, <2>5
<1> QED BY RecordInvHolds, <1>1, PTL

(* The record that the fields are extracted from is that of the longest prefix
   (lookupRecordAt at LookupOffset's result). *)
THEOREM RecordOfLongestPrefix == Spec => []LongestPrefixMatch
<1>1. RecordInv => LongestPrefixMatch
  BY DEF RecordInv, TreeInv, LongestPrefixMatch
<1> QED BY RecordInvHolds, <1>1, PTL

(* booleanFormat changes how flags are written and not what the rules read from
   them, for any section, the ones with repeated keys, endless pointers or
   values that cannot be decoded included (format, truthy). *)
THEOREM FlagsAgree == ASSUME ByteOrder PROVE Spec => []FlagsKeepMeaning
<1>1. RecordInv => FlagsKeepMeaning
  <2> SUFFICES ASSUME RecordInv, pc = "answered",
                      NEW name \in DOMAIN FieldDefs, FieldDefs[name].kind = "bool"
               PROVE  LET Flag(oneZero) == truthy(ExtractedBy(name, offset, TRUE, inMemory,
                                                   Formatter(formatter.language, oneZero)))
                      IN Flag(TRUE) = Flag(FALSE)
    BY DEF FlagsKeepMeaning
  <2> DEFINE def == FieldDefs[name]
             record == [path \in PathsOf(def) |->
                           value(section, offset, path, TRUE, inMemory)]
             language == formatter.language
  <2>1. section \in Sections /\ offset \in Nat /\ inMemory \in BOOLEAN
    BY DEF RecordInv
  <2>2. def \in Definitions
    BY RecordAssumption
  <2>3. PathsOf(def) \subseteq Paths
    BY <2>2, DefinitionPaths
  <2>4. ASSUME NEW path \in PathsOf(def), NEW kind \in Kinds
        PROVE  Alike(TextOf(WithDigits(language), record[path], kind),
                     TextOf(WithWords(language), record[path], kind))
    <3> DEFINE raw == value(section, offset, path, TRUE, inMemory)
    <3>1. record[path] = raw
      OBVIOUS
    <3>2. raw = Missing \/ IsValue(section, raw)
      BY <2>1, <2>3, SoughtValues
    <3> HIDE DEF raw, record, language
    <3> QED BY <2>1, <3>1, <3>2, TextOfAlike
  <2>5. /\ ExtractedBy(name, offset, TRUE, inMemory, WithDigits(language))
              = extract(WithDigits(language), record, def)
        /\ ExtractedBy(name, offset, TRUE, inMemory, WithWords(language))
              = extract(WithWords(language), record, def)
    BY DEF ExtractedBy
  <2> HIDE DEF record, def
  <2>6. truthy(extract(WithDigits(language), record, def))
           <=> truthy(extract(WithWords(language), record, def))
    BY <2>2, <2>4, ExtractAlike DEF def
  <2>7. truthy(extract(WithDigits(language), record, def)) \in BOOLEAN
        /\ truthy(extract(WithWords(language), record, def)) \in BOOLEAN
    BY DEF truthy
  <2> QED BY <2>5, <2>6, <2>7 DEF WithDigits, WithWords
<1> QED BY RecordInvHolds, <1>1, PTL
=============================================================================
