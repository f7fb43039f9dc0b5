-------------------------- MODULE MCDatabaseRecord --------------------------
(* All trees of two nodes with one data section; all sections of a length
   over an alphabet of cells, behind some prefixes, with one tree. *)
EXTENDS DatabaseRecord

CONSTANTS TailLength

Cell(type, size, num, word) ==
    [type |-> type, size |-> size, num |-> num, word |-> word]

MapOf(n) == Cell("map", n, 0, " ")
ArrayOf(n) == Cell("array", n, 0, " ")
Word(w) == Cell("string", 0, 0, w)
LongWord(w) == Cell("string", 1, 0, w)
Flag(b) == Cell("bool", b, 0, " ")
Pointer(n) == Cell("pointer", 0, n, " ")
Broken == Cell("broken", 1, 0, "a")
Container == Cell("container", 0, 0, " ")

Alphabet == {MapOf(1), MapOf(2), ArrayOf(1), Word("a"), Word("b"), LongWord("a"),
             Flag(1), Pointer(0), Pointer(3), Broken}

(* Records whose first key leads to the free tail, directly, below another
   map, or behind a pointer. *)
RecordHeads == {<<>>, <<MapOf(2), Word("a")>>, <<MapOf(1), Word("a"), MapOf(2)>>,
             <<MapOf(2), Pointer(5), Container>>}

OneSection == <<MapOf(1), Word("a"), Word("AS")>>
AllSections == {p \o s : p \in RecordHeads, s \in [1..TailLength -> Alphabet]}

StraightTree == [n \in Nodes |-> [b \in 0..1 |-> NodeCount + Separator]]
MCSectionsOf(t, a) ==
    IF t = StraightTree /\ a = [j \in 1..V4Width |-> 0]
    THEN AllSections ELSE {OneSection}

a == <<"a">>
b == <<"b">>
MCFieldDefs ==
    "name" :> FieldDef("string", <<<<a, b>>, <<a>>>>, <<>>)
    @@ "flag" :> FieldDef("bool", <<<<a>>, <<b, a>>>>, <<<<b>>>>)
    @@ "asn" :> FieldDef("asn", <<<<b>>>>, <<>>)

MCBefore(k, l) == k = a /\ l = b

MCSettings == {[inMemory |-> FALSE, formatter |-> Formatter(b, FALSE)]}
=============================================================================
