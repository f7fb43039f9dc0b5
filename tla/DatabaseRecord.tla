--------------------------- MODULE DatabaseRecord ---------------------------
(***************************************************************************)
(* One database file and one lookup in it, end to end: the reader finds    *)
(* the IPv4 subtree when it opens the file, the lookup walks the tree, and *)
(* the fields are extracted from the record in the data section, by        *)
(* seeking or by decoding it whole, from memory or through a window of the *)
(* file.                                                                   *)
(***************************************************************************)
EXTENDS SearchTree, FieldCatalog

CONSTANTS
    SectionsOf(_, _),    \* the data sections tried with a tree and an address
    FieldDefs,           \* the fields the configuration asks for, by name
    Settings,            \* loadInMemory with a formatter, as configured
    SeekFieldThreshold   \* seekFieldThreshold, 8

ASSUME RecordAssumption ==
    /\ \A t \in Trees, a \in Addresses : SectionsOf(t, a) \subseteq Sections
    /\ \A s \in Settings : s.inMemory \in BOOLEAN
    /\ \A n \in DOMAIN FieldDefs : FieldDefs[n] \in Definitions

VARIABLES
    section,    \* the file's data section
    inMemory,   \* provider.inMemory
    formatter,  \* provider.formatter
    fields      \* the answer, once the lookup is done

readerVars == <<section, inMemory, formatter>>
recordVars == <<treeVars, readerVars, fields>>

Init ==
    /\ TreeInit
    /\ section \in SectionsOf(tree, ip)
    /\ \E s \in Settings : inMemory = s.inMemory /\ formatter = s.formatter
    /\ fields = <<>>

(* newMMDBProvider picks the strategy by the number of fields. *)
SeekOnly(count) == count > 0 /\ count <= SeekFieldThreshold

(* Field name of the record at off, by one strategy. *)
ExtractedBy(name, off, seekOnly, memory, f) ==
    extract(f, [path \in PathsOf(FieldDefs[name]) |->
                   value(section, off, path, seekOnly, memory)], FieldDefs[name])

(* lookup's call of extractFields with the one record. *)
ExtractRecord ==
    /\ pc = "found"
    /\ pc' = "answered"
    /\ LET Text(name) == ExtractedBy(name, offset,
                           SeekOnly(Cardinality(DOMAIN FieldDefs)), inMemory, formatter)
       IN fields' = [name \in {n \in DOMAIN FieldDefs : Text(n) # <<>>} |-> Text(name)]
    /\ UNCHANGED <<tree, version, ip, ipv4Start, node, i, offset, readerVars>>

Next ==
    \/ TreeNext /\ UNCHANGED <<readerVars, fields>>
    \/ ExtractRecord

Spec == Init /\ [][Next]_recordVars

-----------------------------------------------------------------------------
(* No map at off, or below it where a path may lead, has a key twice. *)
DistinctOne(data, below, off) ==
    LET src == memSource(data)
        read == Decoder(src)[LevelsAt(0)]
        cell == at(src, off, 1)[1]
        Item(k) == Starts(read, off + 1)[k]
        Key(k) == read[Item(2 * k)].value[2]
        Entries == 0..(cell.size - 1)
    IN CASE cell.type = "pointer" -> below[PointerTarget(cell)]
         [] cell.type = "map" -> \A k, l \in Entries :
               below[Item(2 * k + 1)] /\ (Key(k) = Key(l) => k = l)
         [] OTHER -> TRUE

KeysDistinct(data) ==
    LET distinct[left \in Nat] ==
            IF left = 0 THEN [off \in Places |-> TRUE]
            ELSE [off \in Places |-> DistinctOne(data, distinct[left - 1], off)]
    IN distinct

(* What a sound file has: records that decode, with distinct keys. *)
Intact(data, off) ==
    /\ lookupRecordAt(data, off, TRUE) # Error
    /\ KeysDistinct(data)[LevelsAt(0)][off]

(* "Every field in the catalog must resolve identically" (mmdb_test.go
   335-337): for a record that can be decoded and repeats no key, the fields
   that are sought are the fields that are decoded, with the tree's pointers
   wherever they lead, whether the file is in memory or read through a window
   that ends in the middle of the record (decode.go 151-163, 179-536). *)
StrategiesAgree ==
    pc = "answered" /\ Intact(section, offset) =>
        \A name \in DOMAIN FieldDefs : \A seekOnly, memory \in BOOLEAN :
            ExtractedBy(name, offset, seekOnly, memory, formatter)
                = IF name \in DOMAIN fields THEN fields[name] ELSE <<>>

(* booleanFormat "changes header values only" (OPTIONS.md 217): the rules read
   the same flag from a record whichever way booleans are written. *)
FlagsKeepMeaning ==
    pc = "answered" =>
        \A name \in {n \in DOMAIN FieldDefs : FieldDefs[n].kind = "bool"} :
            LET Flag(oneZero) == truthy(ExtractedBy(name, offset, TRUE, inMemory,
                                          Formatter(formatter.language, oneZero)))
            IN Flag(TRUE) = Flag(FALSE)
=============================================================================
