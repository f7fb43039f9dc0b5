---------------------------- MODULE AccessRules ----------------------------
(***************************************************************************)
(* The access rules (src/rules.go): how the configuration is compiled into *)
(* a rule set, which fields the rules need, and the decision on a resolved *)
(* set of fields.  Operators only; RequestPipeline is the program around   *)
(* them.                                                                   *)
(*                                                                         *)
(* Data.  Countries, continents and AS numbers reach the rules as texts,   *)
(* from the configuration and from the databases: a code, spelt in its     *)
(* normal form or another one (lower case, an AS number with or without    *)
(* the prefix).  The code "0" is the AS number that means none.  "" is the *)
(* empty string that a Go map yields for a field it does not have.  The    *)
(* text of a refusal's reason is left out, and with it the order in which  *)
(* the checks run.                                                         *)
(***************************************************************************)
EXTENDS Integers

CONSTANT Codes    \* normalized codes

ASSUME CodesAssumption == "" \notin Codes /\ "0" \notin Codes

Texts == [code : Codes \cup {"0"}, spelling : {"normal", "other"}]

ListFields == {"country_code", "continent_code", "asn"}

(* strings.ToUpper and normalizeASN: the spelling goes, and so does AS 0. *)
Normalized(field, text) ==
    IF field = "asn" /\ text.code = "0" THEN "" ELSE text.code

(* upperSet and asnSet drop what normalizes to the empty string. *)
CodeSet(field, texts) == {Normalized(field, t) : t \in texts} \ {""}

(* withDefaults: a threshold of zero is one that was not set. *)
ThreatScoreAbove(n) == IF n = 0 THEN -1 ELSE n

(* Search engine crawlers are spared by blockBot unless asked for. *)
SecurityRules(cfg) ==
    {[field |-> f,
      unless |-> IF f = "is_bot" /\ ~cfg.blockKnownGoodBots
                 THEN {"is_known_good_bot"} ELSE {}] : f \in cfg.block}

newRuleSet(cfg) ==
    [allowed |-> [f \in ListFields |-> CodeSet(f, cfg.allowed[f])],
     blocked |-> [f \in ListFields |-> CodeSet(f, cfg.blocked[f])],
     securityRules |-> SecurityRules(cfg),
     threatScoreAbove |-> ThreatScoreAbove(cfg.blockThreatScoreAbove),
     allowUnknown |-> cfg.allowUnknown]

(* newRuleSet refuses a configuration with both lists for one field. *)
ValidRuleSet(rs) ==
    \A f \in ListFields : rs.allowed[f] = {} \/ rs.blocked[f] = {}

requiredFieldsWithoutGuards(rs) ==  \* as a bug: rule.unless left out
    {f \in ListFields : rs.allowed[f] \cup rs.blocked[f] # {}}
      \cup (IF rs.threatScoreAbove >= 0 THEN {"threat_score"} ELSE {})
      \cup {r.field : r \in rs.securityRules}

requiredFields(rs) ==
    {f \in ListFields : rs.allowed[f] \cup rs.blocked[f] # {}}
      \cup (IF rs.threatScoreAbove >= 0 THEN {"threat_score"} ELSE {})
      \cup {r.field : r \in rs.securityRules}
      \cup UNION {r.unless : r \in rs.securityRules}

-----------------------------------------------------------------------------
(* A set of resolved fields is a function from some field names: to a text,
   to a number for "threat_score", to a Boolean for the flags. *)

CodeOf(field, fields) ==
    IF field \in DOMAIN fields THEN Normalized(field, fields[field]) ELSE ""

truthy(field, fields) == field \in DOMAIN fields /\ fields[field] = TRUE

PassesListsIfEmpty(rs, field, fields) ==  \* as a bug: unknown is always allowed
    LET code == CodeOf(field, fields)
    IN code = "" \/ /\ rs.allowed[field] # {} => code \in rs.allowed[field]
                    /\ code \notin rs.blocked[field]

(* Being empty is up to allowUnknown where there is an allow list; a block
   list never holds the empty code. *)
PassesLists(rs, field, fields) ==
    LET code == CodeOf(field, fields)
    IN /\ rs.allowed[field] # {} =>
             IF code = "" THEN rs.allowUnknown ELSE code \in rs.allowed[field]
       /\ code = "" \/ code \notin rs.blocked[field]

Flagged(rs, fields) ==
    \E r \in rs.securityRules :
        truthy(r.field, fields) /\ \A u \in r.unless : ~truthy(u, fields)

ThreatNotLow(rs, fields) ==  \* as a bug: a missing score taken for a high one
    /\ rs.threatScoreAbove >= 0
    /\ "threat_score" \in DOMAIN fields => fields["threat_score"] > rs.threatScoreAbove

ThreatTooHigh(rs, fields) ==
    /\ rs.threatScoreAbove >= 0
    /\ "threat_score" \in DOMAIN fields
    /\ fields["threat_score"] > rs.threatScoreAbove

(* TRUE when the request is allowed. *)
evaluate(rs, fields, found) ==
    IF ~found THEN rs.allowUnknown
    ELSE /\ \A f \in ListFields : PassesLists(rs, f, fields)
         /\ ~Flagged(rs, fields)
         /\ ~ThreatTooHigh(rs, fields)
=============================================================================
