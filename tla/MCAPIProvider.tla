--------------------------- MODULE MCAPIProvider ---------------------------
(* Two addresses: the service names the first one's proxy type without a
   flag, and the second one's with a flag that says otherwise.  Both flags
   are stated outright in the records of a database. *)
EXTENDS APIProvider, TLC

CONSTANTS k1, k2, p1, p2

(* One address is missed once more than there are requests. *)
MCMaxCalls == (k1 :> 3) @@ (k2 :> 1)

Catalog == INSTANCE FieldCatalog
    WITH MaxDepth <- 64, WindowSize <- 1, Before <- LAMBDA k, l : FALSE

Text(w) == <<"string", <<w>>>>
Security(entries) == (<<"security">> :> <<"map", entries>>)

PayloadOf(k) ==
    IF k = k1 THEN Security(<<"proxy_type">> :> Text("VPN"))
    ELSE Security((<<"proxy_type">> :> Text("TOR")) @@ (<<"is_tor">> :> <<"bool", FALSE>>))

DatabaseRecordOf(k) ==
    IF k = k1 THEN <<"is_vpn">> :> <<"bool", TRUE>>
    ELSE <<"is_tor">> :> <<"bool", FALSE>>

FieldDefs ==
    [flag \in {"is_vpn", "is_tor"} |->
        Catalog!FieldDef("bool", <<<<<<"security">>, <<flag>>>>, <<<<flag>>>>>>, <<>>)]

FieldsOf(record) ==
    Catalog!extractFields(<<<<"map", record>>>>, FieldDefs,
                          Catalog!Formatter(<<"en">>, FALSE))

MCExtract(k) == FieldsOf(Catalog!deriveAPIFlags(PayloadOf(k)))

(* "Rules written against the database schema behave the same way in API mode"
   (provider.go 403-404): an address the service knows has the flags that the
   database states, also when they are only in the proxy type. *)
FlagsMatchDatabase ==
    \A p \in Requests : req[p].pc = "answered" /\ req[p].result.found =>
        \A flag \in DOMAIN FieldDefs :
            LET Flag(fields) == flag \in DOMAIN fields /\ Catalog!truthy(fields[flag])
            IN Flag(req[p].result.fields) = Flag(FieldsOf(DatabaseRecordOf(req[p].key)))
=============================================================================
