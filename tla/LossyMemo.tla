----------------------------- MODULE LossyMemo -----------------------------
(***************************************************************************)
(* What a memo that may forget promises: an entry it shows for a key is    *)
(* the one stored last under that key, and an entry once forgotten comes   *)
(* back only through a new store.  How much it remembers is not promised.  *)
(* CacheClients shows the two-generation cache of src/cache.go to          *)
(* implement this.                                                         *)
(***************************************************************************)
CONSTANTS Keys, Entries, NoEntry

VARIABLE memo

Init == memo = [k \in Keys |-> NoEntry]

(* Storing under a key may make the memo forget any of the others. *)
Store(key, entry) ==
    /\ memo' \in [Keys -> Entries \cup {NoEntry}]
    /\ memo'[key] = entry
    /\ \A k \in Keys \ {key} : memo'[k] \in {memo[k], NoEntry}

Wipe == memo' = [k \in Keys |-> NoEntry]

Next == Wipe \/ \E k \in Keys, e \in Entries : Store(k, e)

Spec == Init /\ [][Next]_memo
=============================================================================
