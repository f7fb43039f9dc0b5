--------------------------- MODULE MCLookupService ---------------------------
(* Two layered databases: both cover k1, only the second covers k2; the first
   carries field 1, the second both fields.  A single database covers k1 and
   carries every field. *)
EXTENDS LookupService, TLC

CONSTANTS k1, k2

MCCovers == {<<1, k1>>, <<2, k1>>, <<2, k2>>} \cap (Databases \X Keys)
MCCarries == IF NumDatabases = 1 THEN Databases \X Fields
             ELSE {<<1, 1>>, <<2, 1>>, <<2, 2>>} \cap (Databases \X Fields)

RequestSymmetry == Permutations(Requests)
=============================================================================
