---------------------------- MODULE FieldCatalog ----------------------------
(***************************************************************************)
(* From decoded values to the fields of an answer: the candidate and       *)
(* presence paths of a field (extract), the layering of records            *)
(* (extractFields), the rendering of values as text (format), and the      *)
(* flags that an API answer expresses indirectly (deriveAPIFlags).         *)
(*                                                                         *)
(* A text is a sequence of words; Blank is white space, "AS" the prefix of *)
(* an AS number.  The empty text stands for the empty string.              *)
(***************************************************************************)
EXTENDS DataSection, FiniteSetsExt, Functions, TLC

CONSTANT Before(_, _)  \* the byte order of map keys

(* A definition binds a field to its kind, its candidate paths, and the paths
   whose presence proves it. *)
FieldDef(kind, paths, presence) ==
    [kind |-> kind, paths |-> paths, presence |-> presence]

(* A path is a sequence of keys, which are texts. *)
Paths == Seq(Seq(STRING))
Definitions == [kind : STRING, paths : Seq(Paths), presence : Seq(Paths)]

Blank == " "
Comma == ","

(* New's formatter for a language and a booleanFormat. *)
Formatter(language, oneZero) ==
    [language |-> language, separator |-> Comma,
     trueValue |-> IF oneZero THEN <<"1">> ELSE <<"true">>,
     falseValue |-> IF oneZero THEN <<"0">> ELSE <<"false">>]

TrimSpace(s) ==
    LET solid == {j \in DOMAIN s : s[j] # Blank}
    IN IF solid = {} THEN <<>> ELSE SubSeq(s, Min(solid), Max(solid))

boolString(f, b) == IF b THEN f.trueValue ELSE f.falseValue

HasASPrefix(s) == s # <<>> /\ Head(s) = "AS"

formatASN(s) ==
    IF s \in {<<>>, <<"0">>, <<"AS", "0">>} THEN <<>>
    ELSE IF HasASPrefix(s) THEN s ELSE <<"AS">> \o s

FormatString(f, v, kind) ==
    LET s == TrimSpace(v)
    IN CASE kind = "asn" -> formatASN(s)
         [] kind = "bool" -> boolString(f, s \in {<<"true">>, <<"1">>, <<"yes">>})
         [] kind = "number" /\ HasASPrefix(s) -> Tail(s)
         [] OTHER -> s

FormatInteger(f, n, kind) ==
    CASE kind = "asn" -> formatASN(<<ToString(n)>>)
      [] kind = "bool" -> boolString(f, n # 0)
      [] OTHER -> <<ToString(n)>>

NonEmpty(s) == s # <<>>

(* The texts that are not empty, with separators between them. *)
JoinOne(joined, separator, text) ==
    IF text = <<>> THEN joined
    ELSE IF joined = <<>> THEN text ELSE joined \o <<separator>> \o text

Joined(texts, separator) ==
    LET joined[n \in Nat] ==
            IF n = 0 THEN <<>> ELSE JoinOne(joined[n - 1], separator, texts[n])
    IN joined

Join(texts, separator) == Joined(texts, separator)[Len(texts)]

(* A map is a localized name or a wrapper: the configured language, English
   and "name" come first, then the keys in order.  `text` has the texts of
   the map's values. *)
FormatMap(f, text) ==
    LET known == {k \in DOMAIN text : NonEmpty(text[k])}
        order == <<f.language, <<"en">>, <<"name">>>>
        preferred == {j \in 1..3 : order[j] \in known}
    IN IF known = {} THEN <<>>
       ELSE IF preferred # {} THEN text[order[Min(preferred)]]
       ELSE text[CHOOSE k \in known : \A l \in known : k = l \/ Before(k, l)]

(* The text of a value, where `text` has those of the values inside it.  A
   float is rendered as it is, whatever kind of field it is for. *)
FormatOne(f, text, raw, kind) ==
    LET v == raw[2]
    IN CASE raw[1] = "string" -> FormatString(f, v, kind)
         [] raw[1] = "bytes" -> v
         [] raw[1] = "bool" -> boolString(f, v)
         [] raw[1] = "float" -> <<ToString(v)>>
         [] raw[1] \in {"uint", "int"} -> FormatInteger(f, v, kind)
         [] raw[1] = "array" ->
               Join([j \in 1..Len(v) |-> text[v[j]]["string"]], f.separator)
         [] raw[1] = "map" -> FormatMap(f, [k \in DOMAIN v |-> text[v[k]][kind]])
         [] OTHER -> <<>>

(* The values inside a value, so many levels deep. *)
Inside(v) == IF v[1] \in {"array", "map"} THEN {v[2][k] : k \in DOMAIN v[2]} ELSE {}

Parts(raw) ==
    LET parts[n \in Nat] ==
            IF n = 0 THEN {raw} ELSE UNION {Inside(v) : v \in parts[n - 1]}
    IN parts

(* No record nests deeper than it is decoded. *)
Nesting == LevelsAt(0)

FormatAs(f, text, raw, kinds) == [k \in kinds |-> FormatOne(f, text, raw, k)]

(* The texts of the parts of a value that nest at most n levels. *)
Texts(f, raw, kind) ==
    LET kinds == {kind, "string"}
        text[n \in Nat] ==
            IF n = 0 THEN [v \in Parts(raw)[Nesting] |-> [k \in kinds |-> <<>>]]
            ELSE [v \in Parts(raw)[Nesting - n] |-> FormatAs(f, text[n - 1], v, kinds)]
    IN text

format(f, raw, kind) == Texts(f, raw, kind)[Nesting][raw][kind]

-----------------------------------------------------------------------------
(* The paths that a definition may ask a record for. *)
PathsOf(def) == Range(def.paths) \cup Range(def.presence)

(* The first candidate path with a non-empty text; failing them all, a
   presence path.  A record is the function from paths to its values; the
   empty text is none. *)
extract(f, record, def) ==
    LET Text(path, kind) ==
            IF record[path] = Missing THEN <<>> ELSE format(f, record[path], kind)
        hits == {j \in DOMAIN def.paths : NonEmpty(Text(def.paths[j], def.kind))}
    IN IF hits # {} THEN Text(def.paths[Min(hits)], def.kind)
       ELSE IF \E j \in DOMAIN def.presence :
                  NonEmpty(Text(def.presence[j], "string"))
       THEN f.trueValue ELSE <<>>

(* The first of the records, here decoded ones, that has the field wins. *)
extractFields(records, defs, f) ==
    LET From(r, d) ==
            extract(f, [path \in PathsOf(defs[d]) |-> resolvePath(r, path)], defs[d])
        Suppliers(d) == {j \in DOMAIN records : NonEmpty(From(records[j], d))}
    IN [d \in {e \in DOMAIN defs : Suppliers(e) # {}} |->
           From(records[Min(Suppliers(d))], d)]

truthyWord(s) == TrimSpace(s) \in {<<"true">>, <<"yes">>, <<"on">>}  \* as a bug

(* rules.go reads flags with truthy. *)
truthy(s) == TrimSpace(s) \in {<<"true">>, <<"1">>, <<"yes">>, <<"on">>}

-----------------------------------------------------------------------------
(* The flag that a proxy type, in upper case, stands for. *)
FlagOfType ==
    ("VPN" :> "is_vpn") @@ ("TOR" :> "is_tor") @@ ("RELAY" :> "is_relay")
    @@ ("RESIDENTIAL" :> "is_residential_proxy")

SetKey(out, key, v) ==
    [k \in DOMAIN out \cup {key} |-> IF k = key THEN v ELSE out[k]]

setAlways(security, flag) ==  \* as a bug: a stated flag is overwritten
    SetKey(security, <<flag>>, <<"bool", TRUE>>)

(* A flag that is there is left alone, whatever its value, null included. *)
setIfAbsent(security, flag) ==
    IF <<flag>> \in DOMAIN security THEN security
    ELSE SetKey(security, <<flag>>, <<"bool", TRUE>>)

deriveAPIFlags(payload) ==
    LET s == <<"security">>
        security == payload[s][2]
        type == security[<<"proxy_type">>]
    IN IF s \notin DOMAIN payload THEN payload
       ELSE IF payload[s][1] # "map" THEN payload
       ELSE IF <<"proxy_type">> \notin DOMAIN security THEN payload
       ELSE IF type[1] # "string" THEN payload
       ELSE LET named == {t \in DOMAIN FlagOfType : TrimSpace(type[2]) = <<t>>}
            IN IF named = {} THEN payload
               ELSE [payload EXCEPT ![s] =
                        <<"map", setIfAbsent(security,
                                   FlagOfType[CHOOSE t \in named : TRUE])>>]
=============================================================================
