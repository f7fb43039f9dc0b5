--------------------------- MODULE ProviderProofs ---------------------------
(***************************************************************************)
(* Proofs about requests, watcher and teardown (LookupService), for any    *)
(* number of databases, requests, addresses, fields and writes, and, but   *)
(* for the last two theorems, with or without grace, faults and teardown.  *)
(*                                                                         *)
(* Readers (ProviderInv).  The watcher opens a file only when its stamp    *)
(* differs from the stamp of the reader in use, and stamps of a file only  *)
(* grow.  So every replaced reader is older than the one in its slot and   *)
(* every replacement is newer, and closing the former can hit neither.     *)
(*                                                                         *)
(* Requests (RequestInv).  Whatever the array holds by now, the readers    *)
(* that a request has loaded are of different databases, in their order,   *)
(* and its values are theirs; so values of one database are of one         *)
(* reader.  A covering database that the loop has passed without an error  *)
(* has a record.                                                           *)
(*                                                                         *)
(* Staleness (PromptInv).  Outside the swap and the reset, requests and    *)
(* entries that are not marked late are of the releases in use.            *)
(*                                                                         *)
(* Reloads (Undisturbed, LayerInv).  If the 5 seconds cover every lookup   *)
(* and nothing is torn down, the readers that requests hold stay open;     *)
(* then records and fields are those that the layering prescribes.         *)
(***************************************************************************)
EXTENDS LookupService, TLAPS

(* The part of the type invariant the argument needs. *)
ProviderTypes ==
    /\ disk \in [Databases -> [rel : 0..MaxWrites,
                               state : {"good", "bad", "missing"}]]
    /\ array \in [Databases -> Readers]
    /\ DOMAIN fresh \subseteq Databases
    /\ \A i \in DOMAIN fresh : fresh[i] \in Readers
    /\ retired \subseteq Readers /\ sleeping \subseteq Readers
    /\ slot \in Databases
    /\ seen \in 0..MaxWrites
    /\ dropped \in BOOLEAN

(* A reader sits in the slot of its database. *)
SlotsMatch ==
    /\ \A d \in Databases : array[d].db = d
    /\ \A i \in DOMAIN fresh : fresh[i].db = i

(* p.mu, from the side of its two writers. *)
Mutex ==
    /\ wpc = "swap" <=> writer = "watch"
    /\ cpc = "closing" <=> writer = "close"
    /\ dropped <=> cpc = "down"

(* What refreshChanged copied is what is in use: nobody else writes it. *)
CopyCurrent == wpc \in {"check", "stat", "read"} => copy = array

(* No stamp is ahead of its file, and a file about to be read has moved on
   from the reader in use. *)
StampsBounded ==
    /\ \A d \in Databases : array[d].stamp <= disk[d].rel
    /\ \A i \in DOMAIN fresh : fresh[i].stamp <= disk[i].rel
    /\ wpc = "stat" => array[slot].stamp < disk[slot].rel
    /\ wpc = "read" => array[slot].stamp < seen /\ seen <= disk[slot].rel

ReplacementsNewer ==
    \A i \in DOMAIN fresh : array[i].stamp < fresh[i].stamp /\ fresh[i] \in open

RetiredOlder ==
    \A r \in retired \cup sleeping : r.stamp < array[r.db].stamp

ProviderInv ==
    /\ ProviderTypes
    /\ SlotsMatch
    /\ Mutex
    /\ CopyCurrent
    /\ StampsBounded
    /\ ReplacementsNewer
    /\ RetiredOlder
    /\ InstalledOpen
    /\ DownReleasesInstalled

-----------------------------------------------------------------------------
LEMMA InitProvider == Init => ProviderInv
<1> SUFFICES ASSUME Init PROVE ProviderInv
  OBVIOUS
<1> USE DEF Init
<1>1. ProviderTypes
  <2>1. 1 \in Databases /\ 0 \in 0..MaxWrites
    BY ServiceAssumption DEF Databases
  <2>2. \A d \in Databases : [db |-> d, stamp |-> 0, rel |-> 0] \in Readers
    BY <2>1 DEF Readers
  <2>3. DOMAIN fresh = {}
    BY DEF Empty
  <2>4. disk \in [Databases -> [rel : 0..MaxWrites,
                                state : {"good", "bad", "missing"}]]
    BY <2>1
  <2>5. array \in [Databases -> Readers]
    BY <2>2
  <2> QED
    BY <2>1, <2>3, <2>4, <2>5 DEF ProviderTypes
<1>2. SlotsMatch /\ Mutex /\ CopyCurrent
  BY DEF SlotsMatch, Mutex, CopyCurrent, Empty
<1>3. StampsBounded /\ ReplacementsNewer /\ RetiredOlder
  BY DEF StampsBounded, ReplacementsNewer, RetiredOlder, Empty
<1>4. InstalledOpen /\ DownReleasesInstalled
  BY DEF InstalledOpen, DownReleasesInstalled
<1> QED
  BY <1>1, <1>2, <1>3, <1>4 DEF ProviderInv

(* Most steps leave the readers alone: the invariant only sees these. *)
ReaderState ==
    <<disk, array, dropped, writer, open, wpc, copy, slot, seen, fresh,
      retired, sleeping, cpc>>

LEMMA Untouched == ProviderInv /\ UNCHANGED ReaderState => ProviderInv'
BY DEF ReaderState, ProviderInv, ProviderTypes, SlotsMatch, Mutex, CopyCurrent,
       StampsBounded, ReplacementsNewer, RetiredOlder, InstalledOpen,
       DownReleasesInstalled

(* A write of a file or its removal never takes its stamp back. *)
LEMMA FileStepProvider == ProviderInv /\ FileStep => ProviderInv'
<1> SUFFICES ASSUME ProviderInv, NEW d \in Databases,
                    WriteFile(d) \/ RemoveFile(d)
             PROVE  ProviderInv'
  BY DEF FileStep
<1> USE ServiceAssumption DEF ProviderInv, WriteFile, RemoveFile, providerVars,
        watchVars
<1>1. /\ disk' \in [Databases -> [rel : 0..MaxWrites,
                                  state : {"good", "bad", "missing"}]]
      /\ \A e \in Databases : disk[e].rel <= disk'[e].rel
  BY DEF ProviderTypes
<1>2. ProviderTypes'
  BY <1>1 DEF ProviderTypes
<1>3. SlotsMatch' /\ Mutex' /\ CopyCurrent'
  BY DEF SlotsMatch, Mutex, CopyCurrent
<1>4. StampsBounded'
  BY <1>1 DEF StampsBounded, ProviderTypes, Readers
<1>5. ReplacementsNewer' /\ RetiredOlder'
  BY DEF ReplacementsNewer, RetiredOlder
<1>6. InstalledOpen' /\ DownReleasesInstalled'
  BY DEF InstalledOpen, DownReleasesInstalled
<1> QED
  BY <1>2, <1>3, <1>4, <1>5, <1>6

(* The steps of the watcher that only move its loop along. *)
LEMMA AdvanceProvider ==
    ASSUME ProviderInv, wpc \in {"check", "stat", "read"}, AdvanceWith(fresh),
           UNCHANGED <<disk, array, dropped, writer, open, fresh, retired,
                       sleeping, cpc>>
    PROVE  ProviderInv'
<1> USE ServiceAssumption DEF ProviderInv
<1>1. /\ slot' \in Databases
      /\ seen' \in 0..MaxWrites
      /\ wpc' \in {"check", "wait", "lock"}
      /\ wpc' = "check" => copy' = copy
  BY DEF AdvanceWith, ProviderTypes, Databases
<1>2. ProviderTypes' /\ SlotsMatch' /\ Mutex' /\ CopyCurrent'
  BY <1>1 DEF ProviderTypes, SlotsMatch, Mutex, CopyCurrent
<1>3. StampsBounded'
  BY <1>1 DEF StampsBounded
<1>4. ReplacementsNewer' /\ RetiredOlder' /\ InstalledOpen' /\ DownReleasesInstalled'
  BY DEF ReplacementsNewer, RetiredOlder, InstalledOpen, DownReleasesInstalled
<1> QED
  BY <1>2, <1>3, <1>4

LEMMA CheckProvider == ProviderInv /\ CheckReader => ProviderInv'
<1> SUFFICES ASSUME ProviderInv, CheckReader PROVE ProviderInv'
  OBVIOUS
<1>1. CASE Changed(copy[slot])
  <2> USE <1>1, ServiceAssumption DEF ProviderInv, CheckReader, providerVars
  <2>1. /\ wpc = "check" /\ wpc' = "stat"
        /\ UNCHANGED <<disk, array, dropped, writer, open, copy, slot, seen,
                       fresh, retired, sleeping, cpc>>
    OBVIOUS
  <2>2. array[slot].stamp < disk[slot].rel
    <3>1. copy[slot] = array[slot] /\ slot \in Databases /\ array[slot].db = slot
      BY <2>1 DEF CopyCurrent, ProviderTypes, SlotsMatch
    <3>2. disk[slot].rel # array[slot].stamp
      BY <3>1 DEF Changed
    <3>3. array[slot].stamp \in Nat /\ disk[slot].rel \in Nat
      BY <3>1 DEF ProviderTypes, Readers
    <3> QED
      BY <3>1, <3>2, <3>3 DEF StampsBounded
  <2>3. ProviderTypes' /\ SlotsMatch' /\ Mutex' /\ CopyCurrent'
    BY <2>1 DEF ProviderTypes, SlotsMatch, Mutex, CopyCurrent
  <2>4. StampsBounded'
    BY <2>1, <2>2 DEF StampsBounded
  <2>5. ReplacementsNewer' /\ RetiredOlder' /\ InstalledOpen' /\ DownReleasesInstalled'
    BY <2>1 DEF ReplacementsNewer, RetiredOlder, InstalledOpen, DownReleasesInstalled
  <2> QED
    BY <2>3, <2>4, <2>5
<1>2. CASE ~Changed(copy[slot])
  BY <1>2, AdvanceProvider DEF CheckReader, providerVars
<1> QED
  BY <1>1, <1>2

LEMMA StatProvider == ProviderInv /\ StatFile => ProviderInv'
<1> SUFFICES ASSUME ProviderInv, StatFile PROVE ProviderInv'
  OBVIOUS
<1>1. CASE disk[slot].state = "missing"
  BY <1>1, AdvanceProvider DEF StatFile, providerVars
<1>2. CASE disk[slot].state # "missing"
  <2> USE <1>2, ServiceAssumption DEF ProviderInv, StatFile, providerVars
  <2>1. /\ wpc = "stat" /\ wpc' = "read" /\ seen' = disk[slot].rel
        /\ UNCHANGED <<disk, array, dropped, writer, open, copy, slot, fresh,
                       retired, sleeping, cpc>>
    OBVIOUS
  <2>2. seen' \in 0..MaxWrites /\ seen' <= disk[slot].rel
    BY <2>1 DEF ProviderTypes
  <2>3. ProviderTypes' /\ SlotsMatch' /\ Mutex' /\ CopyCurrent'
    BY <2>1, <2>2 DEF ProviderTypes, SlotsMatch, Mutex, CopyCurrent
  <2>4. StampsBounded'
    BY <2>1, <2>2 DEF StampsBounded
  <2>5. ReplacementsNewer' /\ RetiredOlder' /\ InstalledOpen' /\ DownReleasesInstalled'
    BY <2>1 DEF ReplacementsNewer, RetiredOlder, InstalledOpen, DownReleasesInstalled
  <2> QED
    BY <2>3, <2>4, <2>5
<1> QED
  BY <1>1, <1>2

(* The reader just opened is newer than the one in its slot, so opening it
   cannot reopen a reader that the teardown has closed. *)
LEMMA ReadProvider == ProviderInv /\ ReadFile => ProviderInv'
<1> SUFFICES ASSUME ProviderInv, ReadFile PROVE ProviderInv'
  OBVIOUS
<1>1. CASE disk[slot].state # "good"
  BY <1>1, AdvanceProvider DEF ReadFile
<1>2. CASE disk[slot].state = "good"
  <2> DEFINE reader == Opened(slot, seen)
  <2> USE ServiceAssumption DEF Opened
  <2>1. /\ wpc = "read"
        /\ fresh' = [i \in DOMAIN fresh \cup {slot} |->
                        IF i = slot THEN reader ELSE fresh[i]]
        /\ open' = open \cup {reader}
        /\ seen' = 0
        /\ wpc' \in {"check", "wait", "lock"}
        /\ wpc' = "check" => copy' = copy
        /\ UNCHANGED <<disk, array, dropped, writer, retired, sleeping, cpc>>
    BY <1>2 DEF ReadFile, AdvanceWith
  <2>2. slot' \in Databases
    BY <1>2 DEF ReadFile, AdvanceWith, ProviderInv, ProviderTypes, Databases
  <2>3. /\ reader \in Readers
        /\ array[slot].stamp < reader.stamp
        /\ reader.stamp <= disk[slot].rel
        /\ slot \in Databases
    BY <2>1 DEF ProviderInv, ProviderTypes, StampsBounded, Readers
  <2>4. ProviderTypes'
    BY <2>1, <2>2, <2>3 DEF ProviderInv, ProviderTypes
  <2>5. SlotsMatch' /\ Mutex' /\ CopyCurrent'
    BY <2>1, <2>3 DEF ProviderInv, SlotsMatch, Mutex, CopyCurrent
  <2>6. StampsBounded'
    BY <2>1, <2>3 DEF ProviderInv, StampsBounded
  <2>7. ReplacementsNewer'
    BY <2>1, <2>3 DEF ProviderInv, ReplacementsNewer
  <2>8. RetiredOlder' /\ InstalledOpen'
    BY <2>1 DEF ProviderInv, RetiredOlder, InstalledOpen
  <2>9. DownReleasesInstalled'
    <3>1. ASSUME NEW d \in Databases, array[d] = reader PROVE FALSE
      <4>1. d = slot
        BY <3>1 DEF ProviderInv, SlotsMatch
      <4>2. array[slot].stamp \in Nat
        BY <2>3 DEF ProviderInv, ProviderTypes, Readers
      <4> QED
        BY <2>3, <3>1, <4>1, <4>2
    <3> QED
      BY <2>1, <3>1 DEF ProviderInv, DownReleasesInstalled
  <2> QED
    BY <2>4, <2>5, <2>6, <2>7, <2>8, <2>9 DEF ProviderInv
<1> QED
  BY <1>1, <1>2

(* Both writers take and leave p.mu without touching a reader. *)
LEMMA LockProvider ==
    ProviderInv /\ (LockForSwap \/ UnlockAfterSwap \/ LockForClose) => ProviderInv'
<1> SUFFICES ASSUME ProviderInv, LockForSwap \/ UnlockAfterSwap \/ LockForClose
             PROVE  ProviderInv'
  OBVIOUS
<1> USE DEF ProviderInv, LockForSwap, UnlockAfterSwap, LockForClose, watchVars
<1>1. ProviderTypes' /\ SlotsMatch'
  BY DEF ProviderTypes, SlotsMatch
<1>2. Mutex' /\ CopyCurrent'
  BY DEF Mutex, CopyCurrent
<1>3. StampsBounded'
  BY DEF StampsBounded
<1>4. ReplacementsNewer' /\ RetiredOlder'
  BY DEF ReplacementsNewer, RetiredOlder
<1>5. InstalledOpen' /\ DownReleasesInstalled'
  BY DEF InstalledOpen, DownReleasesInstalled
<1> QED
  BY <1>1, <1>2, <1>3, <1>4, <1>5

(* The swap puts an open, newer reader into the slot; what it takes out
   becomes one of the older ones. *)
LEMMA SwapProvider ==
    ASSUME ProviderInv, NEW i \in Databases, SwapSlot(i)
    PROVE  ProviderInv'
<1>1. /\ wpc = "swap" /\ i \in DOMAIN fresh
      /\ DOMAIN fresh' = DOMAIN fresh \ {i}
      /\ \A j \in DOMAIN fresh' : fresh'[j] = fresh[j]
      /\ UNCHANGED <<disk, dropped, writer, open, sleeping, wpc, copy, slot,
                     seen, cpc>>
  BY DEF SwapSlot
<1>2. CASE dropped
  <2>1. UNCHANGED <<array, retired>>
    BY <1>2 DEF SwapSlot
  <2>2. ProviderTypes' /\ SlotsMatch' /\ Mutex' /\ CopyCurrent'
    BY <1>1, <2>1 DEF ProviderInv, ProviderTypes, SlotsMatch, Mutex, CopyCurrent
  <2>3. StampsBounded' /\ ReplacementsNewer' /\ RetiredOlder'
    BY <1>1, <2>1
       DEF ProviderInv, StampsBounded, ReplacementsNewer, RetiredOlder
  <2>4. InstalledOpen' /\ DownReleasesInstalled'
    BY <1>1, <2>1 DEF ProviderInv, InstalledOpen, DownReleasesInstalled
  <2> QED
    BY <2>2, <2>3, <2>4 DEF ProviderInv
<1>3. CASE ~dropped
  <2>1. /\ retired' = retired \cup {array[i]}
        /\ array' = [array EXCEPT ![i] = fresh[i]]
    BY <1>3 DEF SwapSlot
  <2>2. /\ fresh[i] \in Readers /\ fresh[i].db = i /\ fresh[i] \in open
        /\ array[i] \in Readers /\ array[i].db = i
        /\ array[i].stamp < fresh[i].stamp
        /\ fresh[i].stamp <= disk[i].rel
        /\ array \in [Databases -> Readers]
    BY <1>1 DEF ProviderInv, ProviderTypes, SlotsMatch, ReplacementsNewer,
                StampsBounded
  <2>3. /\ array'[i] = fresh[i]
        /\ \A d \in Databases \ {i} : array'[d] = array[d]
    BY <2>1, <2>2
  <2>4. ProviderTypes'
    BY <1>1, <2>1, <2>2 DEF ProviderInv, ProviderTypes
  <2>5. SlotsMatch' /\ Mutex' /\ CopyCurrent'
    BY <1>1, <2>2, <2>3 DEF ProviderInv, SlotsMatch, Mutex, CopyCurrent
  <2>6. StampsBounded'
    BY <1>1, <2>2, <2>3 DEF ProviderInv, StampsBounded
  <2>7. ReplacementsNewer'
    BY <1>1, <2>3 DEF ProviderInv, ProviderTypes, ReplacementsNewer
  <2>8. RetiredOlder'
    <3> SUFFICES ASSUME NEW r \in retired' \cup sleeping'
                 PROVE  r.stamp < array'[r.db].stamp
      BY DEF RetiredOlder
    <3>1. CASE r = array[i]
      BY <2>2, <2>3, <3>1
    <3>2. CASE r \in retired \cup sleeping
      <4>1. r \in Readers /\ r.stamp < array[r.db].stamp
        BY <3>2 DEF ProviderInv, ProviderTypes, RetiredOlder
      <4>2. r.stamp \in Nat /\ r.db \in Databases
        BY <4>1 DEF Readers
      <4>3. array[i].stamp \in Nat /\ fresh[i].stamp \in Nat
        BY <2>2 DEF Readers
      <4> QED
        BY <2>2, <2>3, <4>1, <4>2, <4>3
    <3> QED
      BY <1>1, <2>1, <3>1, <3>2
  <2>9. InstalledOpen'
    BY <1>1, <2>2, <2>3 DEF ProviderInv, InstalledOpen
  <2>10. DownReleasesInstalled'
    BY <1>1, <1>3 DEF ProviderInv, Mutex, DownReleasesInstalled
  <2> QED
    BY <2>4, <2>5, <2>6, <2>7, <2>8, <2>9, <2>10 DEF ProviderInv
<1> QED
  BY <1>2, <1>3

(* Emptying the cache, or handing the replaced readers to the goroutine that
   will close them, leaves the readers in use alone. *)
LEMMA RetireProvider ==
    ProviderInv /\ (ResetCache \/ RetireReaders) => ProviderInv'
<1> SUFFICES ASSUME ProviderInv, ResetCache \/ RetireReaders PROVE ProviderInv'
  OBVIOUS
<1>1. /\ wpc \in {"reset", "retire"} /\ wpc' \in {"retire", "wait"}
      /\ retired' \cup sleeping' = retired \cup sleeping
      /\ UNCHANGED <<disk, array, dropped, writer, open, slot, seen, fresh, cpc>>
  BY DEF ResetCache, RetireReaders, providerVars
<1>2. ProviderTypes'
  BY <1>1 DEF ProviderInv, ProviderTypes
<1>3. SlotsMatch' /\ Mutex' /\ CopyCurrent'
  BY <1>1 DEF ProviderInv, SlotsMatch, Mutex, CopyCurrent
<1>4. StampsBounded' /\ ReplacementsNewer' /\ RetiredOlder'
  BY <1>1 DEF ProviderInv, StampsBounded, ReplacementsNewer, RetiredOlder
<1>5. InstalledOpen' /\ DownReleasesInstalled'
  BY <1>1 DEF ProviderInv, InstalledOpen, DownReleasesInstalled
<1> QED
  BY <1>2, <1>3, <1>4, <1>5 DEF ProviderInv

(* Closing an older reader hits neither the one in its slot nor a
   replacement. *)
LEMMA CloseRetiredProvider ==
    ASSUME ProviderInv, NEW r \in sleeping, CloseRetired(r)
    PROVE  ProviderInv'
<1>1. /\ open' = open \ {r}
      /\ sleeping' = sleeping \ {r}
      /\ UNCHANGED <<disk, array, dropped, writer, wpc, copy, slot, seen, fresh,
                     retired, cpc>>
  BY DEF CloseRetired, CloseReader, watchVars
<1>2. r \in Readers /\ r.db \in Databases /\ r.stamp < array[r.db].stamp
  BY DEF ProviderInv, ProviderTypes, RetiredOlder, Readers
<1>3. \A d \in Databases : array[d] # r
  <2> SUFFICES ASSUME NEW d \in Databases, array[d] = r PROVE FALSE
    OBVIOUS
  <2>1. d = r.db
    BY DEF ProviderInv, SlotsMatch
  <2>2. r.stamp \in Nat
    BY <1>2 DEF Readers
  <2> QED
    BY <1>2, <2>1, <2>2
<1>4. \A i \in DOMAIN fresh : fresh[i] # r
  <2> SUFFICES ASSUME NEW i \in DOMAIN fresh, fresh[i] = r PROVE FALSE
    OBVIOUS
  <2>1. i = r.db /\ array[i].stamp < r.stamp
    BY DEF ProviderInv, SlotsMatch, ReplacementsNewer
  <2>2. r.stamp \in Nat /\ array[r.db].stamp \in Nat
    BY <1>2 DEF ProviderInv, ProviderTypes, Readers
  <2> QED
    BY <1>2, <2>1, <2>2
<1>5. ProviderTypes' /\ SlotsMatch' /\ Mutex' /\ CopyCurrent'
  BY <1>1 DEF ProviderInv, ProviderTypes, SlotsMatch, Mutex, CopyCurrent
<1>6. StampsBounded' /\ RetiredOlder'
  BY <1>1 DEF ProviderInv, StampsBounded, RetiredOlder
<1>7. ReplacementsNewer'
  BY <1>1, <1>4 DEF ProviderInv, ReplacementsNewer
<1>8. InstalledOpen' /\ DownReleasesInstalled'
  BY <1>1, <1>3 DEF ProviderInv, InstalledOpen, DownReleasesInstalled
<1> QED
  BY <1>5, <1>6, <1>7, <1>8 DEF ProviderInv

(* The teardown closes readers in use, never a replacement: the watcher may
   still swap that in, but finds the slice gone. *)
LEMMA CloseInstalledProvider ==
    ASSUME ProviderInv, NEW d \in Databases, CloseInstalled(d)
    PROVE  ProviderInv'
<1>1. /\ cpc = "closing"
      /\ open' = open \ {array[d]}
      /\ UNCHANGED <<disk, array, dropped, writer, wpc, copy, slot, seen, fresh,
                     retired, sleeping, cpc>>
  BY DEF CloseInstalled, CloseReader, watchVars
<1>2. \A i \in DOMAIN fresh : fresh[i] # array[d]
  <2> SUFFICES ASSUME NEW i \in DOMAIN fresh, fresh[i] = array[d] PROVE FALSE
    OBVIOUS
  <2>1. i = d /\ array[d].stamp < fresh[d].stamp
    BY DEF ProviderInv, SlotsMatch, ReplacementsNewer
  <2>2. array[d].stamp \in Nat
    BY DEF ProviderInv, ProviderTypes, Readers
  <2> QED
    BY <2>1, <2>2
<1>3. ProviderTypes' /\ SlotsMatch' /\ Mutex' /\ CopyCurrent'
  BY <1>1 DEF ProviderInv, ProviderTypes, SlotsMatch, Mutex, CopyCurrent
<1>4. StampsBounded' /\ RetiredOlder'
  BY <1>1 DEF ProviderInv, StampsBounded, RetiredOlder
<1>5. ReplacementsNewer'
  BY <1>1, <1>2 DEF ProviderInv, ReplacementsNewer
<1>6. InstalledOpen' /\ DownReleasesInstalled'
  BY <1>1 DEF ProviderInv, InstalledOpen, DownReleasesInstalled
<1> QED
  BY <1>3, <1>4, <1>5, <1>6 DEF ProviderInv

LEMMA DropProvider == ProviderInv /\ DropReaders => ProviderInv'
<1> SUFFICES ASSUME ProviderInv, DropReaders PROVE ProviderInv'
  OBVIOUS
<1> USE DEF ProviderInv, DropReaders, watchVars
<1>1. ProviderTypes' /\ SlotsMatch' /\ CopyCurrent'
  BY DEF ProviderTypes, SlotsMatch, CopyCurrent
<1>2. Mutex'
  BY DEF Mutex
<1>3. StampsBounded' /\ ReplacementsNewer' /\ RetiredOlder'
  BY DEF StampsBounded, ReplacementsNewer, RetiredOlder
<1>4. InstalledOpen' /\ DownReleasesInstalled'
  BY DEF InstalledOpen, DownReleasesInstalled
<1> QED
  BY <1>1, <1>2, <1>3, <1>4

(* Starting a refresh, ending the watch and cancelling the context. *)
LEMMA ControlProvider ==
    ProviderInv /\ (TickRefresh \/ StopWatching \/ CancelContext) => ProviderInv'
<1> SUFFICES ASSUME ProviderInv, TickRefresh \/ StopWatching \/ CancelContext
             PROVE  ProviderInv'
  OBVIOUS
<1> USE ServiceAssumption
    DEF ProviderInv, TickRefresh, StopWatching, CancelContext, providerVars,
        watchVars
<1>1. ProviderTypes'
  BY DEF ProviderTypes, Databases
<1>2. SlotsMatch' /\ Mutex'
  BY DEF SlotsMatch, Mutex
<1>3. CopyCurrent' /\ StampsBounded'
  BY DEF CopyCurrent, StampsBounded
<1>4. ReplacementsNewer' /\ RetiredOlder'
  BY DEF ReplacementsNewer, RetiredOlder
<1>5. InstalledOpen' /\ DownReleasesInstalled'
  BY DEF InstalledOpen, DownReleasesInstalled
<1> QED
  BY <1>1, <1>2, <1>3, <1>4, <1>5

-----------------------------------------------------------------------------
LEMMA NextProvider == ProviderInv /\ [Next]_vars => ProviderInv'
<1> SUFFICES ASSUME ProviderInv, [Next]_vars PROVE ProviderInv'
  OBVIOUS
<1>1. ASSUME NEW p \in Requests, RequestStep(p) PROVE ProviderInv'
  <2>1. UNCHANGED ReaderState
    BY <1>1
       DEF RequestStep, TakeSnapshot, LoadReader, WalkTree, ExtractValue,
           StoreResult, FinishRequest, ReaderState, providerVars, watchVars
  <2> QED
    BY <2>1, Untouched
<1>2. ASSUME NEW p \in Requests, NEW k \in Keys, GetCached(p, k) PROVE ProviderInv'
  BY <1>2, Untouched DEF GetCached, ReaderState, providerVars, watchVars
<1>3. CASE RefreshStep
  BY <1>3, CheckProvider, StatProvider, ReadProvider, LockProvider, SwapProvider,
     RetireProvider DEF RefreshStep
<1>4. CASE WakeUps
  BY <1>4, CloseRetiredProvider DEF WakeUps
<1>5. CASE CloseStep
  BY <1>5, LockProvider, CloseInstalledProvider, DropProvider DEF CloseStep
<1>6. CASE FileStep
  BY <1>6, FileStepProvider
<1>7. CASE TickRefresh \/ StopWatching \/ CancelContext
  BY <1>7, ControlProvider
<1>8. CASE UNCHANGED vars
  BY <1>8, Untouched DEF vars, ReaderState, providerVars, watchVars
<1> QED
  BY <1>1, <1>2, <1>3, <1>4, <1>5, <1>6, <1>7, <1>8 DEF Next

LEMMA ProviderInvariance == Spec => []ProviderInv
<1> QED
  BY InitProvider, NextProvider, PTL DEF Spec

(* A reload never leaves a closed database where lookup finds it, for any
   interleaving of the watcher, the goroutines that close replaced readers and
   the requests (provider.go 232-280). *)
THEOREM InstalledReadersOpen == Spec => []InstalledOpen
BY ProviderInvariance, PTL DEF ProviderInv

(* close() leaves no reader in use open, a racing swap notwithstanding
   (provider.go 202-210, 255-263). *)
THEOREM TeardownReleases == Spec => []DownReleasesInstalled
BY ProviderInvariance, PTL DEF ProviderInv

-----------------------------------------------------------------------------
(* Requests: their types, and what each step does to a request's record. *)

RequestStates ==
    [pc : {"idle", "snapshot", "load", "tree", "extract", "store", "answered",
           "aborted"},
     key : Keys, pos : Databases, recs : Seq(Records), field : 1..(NumFields + 1),
     out : Results, found : BOOLEAN, err : BOOLEAN, late : BOOLEAN]

(* The loops of lookup and extractFields stay within their bounds. *)
LoopsBounded(r) ==
    /\ Len(r.recs) <= NumDatabases
    /\ r.pc \in {"idle", "snapshot", "answered", "aborted"} => r.recs = <<>>
    /\ r.pc \in {"snapshot", "load", "tree"} => r.field = 1
    /\ r.pc = "snapshot" => r.pos = 1
    /\ r.pc = "load" => Len(r.recs) < r.pos
    /\ r.pc = "tree" => Len(r.recs) \in 1..r.pos
    /\ r.pc = "extract" => r.pos <= Len(r.recs) /\ r.field \in Fields

RequestTypes ==
    /\ req \in [Requests -> RequestStates]
    /\ \A p \in Requests : LoopsBounded(req[p])

CacheTypes ==
    /\ current \in PartialFunctions(Keys, Entries)
    /\ previous \in PartialFunctions(Keys, Entries)

LEMMA PartialFunctionTypes ==
    ASSUME NEW D, NEW R, NEW f
    PROVE  f \in PartialFunctions(D, R)
             <=> DOMAIN f \subseteq D /\ f \in [DOMAIN f -> R]
BY DEF PartialFunctions

LEMMA EmptyIsPartial ==
    ASSUME NEW D, NEW R
    PROVE  Empty \in PartialFunctions(D, R) /\ DOMAIN Empty = {}
<1>1. DOMAIN Empty = {} /\ Empty \in [{} -> R]
  BY DEF Empty
<1> QED
  BY <1>1, PartialFunctionTypes

LEMMA IdleTypes ==
    /\ IdleRequest \in RequestStates
    /\ LoopsBounded(IdleRequest)
    /\ IdleRequest.pc = "idle" /\ IdleRequest.pos = 1 /\ IdleRequest.recs = <<>>
    /\ IdleRequest.field = 1 /\ IdleRequest.out = Empty
    /\ ~IdleRequest.found /\ ~IdleRequest.err /\ ~IdleRequest.late
<1>1. 1 \in Databases /\ 1 \in 1..(NumFields + 1) /\ Empty \in Results
  BY ServiceAssumption, EmptyIsPartial DEF Databases, Results
<1>2. (CHOOSE k \in Keys : TRUE) \in Keys
  BY ServiceAssumption
<1>3. <<>> \in Seq(Records)
  OBVIOUS
<1>4. IdleRequest \in RequestStates
  BY <1>1, <1>2, <1>3 DEF IdleRequest, RequestStates
<1>5. LoopsBounded(IdleRequest)
  BY ServiceAssumption DEF IdleRequest, LoopsBounded
<1> QED
  BY <1>4, <1>5 DEF IdleRequest

(* A request that starts, or that a panic has ended. *)
LEMMA FreshRequest ==
    ASSUME NEW k \in Keys, NEW c \in {"snapshot", "aborted"}
    PROVE  LET s == [IdleRequest EXCEPT !.pc = c, !.key = k]
           IN /\ s \in RequestStates /\ LoopsBounded(s)
              /\ s.pc = c /\ s.key = k /\ s.pos = 1 /\ s.recs = <<>>
              /\ s.out = Empty /\ ~s.found /\ ~s.err /\ ~s.late
<1> DEFINE s == [IdleRequest EXCEPT !.pc = c, !.key = k]
<1>1. s \in RequestStates
  BY IdleTypes DEF RequestStates
<1>2. /\ s.pc = c /\ s.key = k /\ s.pos = 1 /\ s.recs = <<>> /\ s.field = 1
      /\ s.out = Empty /\ ~s.found /\ ~s.err /\ ~s.late
  BY IdleTypes DEF RequestStates
<1> HIDE DEF s
<1>3. LoopsBounded(s)
  BY <1>2, ServiceAssumption DEF LoopsBounded
<1> QED
  BY <1>1, <1>2, <1>3 DEF s

(* A request that the cache answers. *)
LEMMA CachedRequest ==
    ASSUME NEW k \in Keys, NEW e \in Entries
    PROVE  LET s == [IdleRequest EXCEPT !.pc = "answered", !.key = k,
                        !.out = e.fields, !.found = e.found, !.late = e.late]
           IN /\ s \in RequestStates /\ LoopsBounded(s)
              /\ s.pc = "answered" /\ s.key = k /\ s.recs = <<>>
              /\ s.out = e.fields /\ s.found = e.found /\ ~s.err
<1> DEFINE s == [IdleRequest EXCEPT !.pc = "answered", !.key = k,
                    !.out = e.fields, !.found = e.found, !.late = e.late]
<1>1. e.fields \in Results /\ e.found \in BOOLEAN /\ e.late \in BOOLEAN
  BY DEF Entries
<1>2. s \in RequestStates
  BY <1>1, IdleTypes DEF RequestStates
<1>3. /\ s.pc = "answered" /\ s.key = k /\ s.recs = <<>>
      /\ s.out = e.fields /\ s.found = e.found /\ ~s.err
  BY IdleTypes DEF RequestStates
<1> HIDE DEF s
<1>4. LoopsBounded(s)
  BY <1>3, ServiceAssumption DEF LoopsBounded
<1> QED
  BY <1>2, <1>3, <1>4 DEF s

(* Only request p takes the step. *)
OnlyRequest(p) == \A q \in Requests \ {p} : req'[q] = req[q]

LEMMA RequestReplaced ==
    ASSUME RequestTypes, NEW p \in Requests, NEW s,
           req' = [req EXCEPT ![p] = s]
    PROVE  /\ req'[p] = s
           /\ OnlyRequest(p)
           /\ s \in RequestStates /\ LoopsBounded(s) => RequestTypes'
BY DEF RequestTypes, OnlyRequest

(* Lookup has copied the slice header. *)
Began(r, s) ==
    /\ r.pc = "snapshot"
    /\ s.pc = IF dropped THEN "store" ELSE "load"
    /\ s.key = r.key /\ s.recs = r.recs /\ s.out = r.out /\ s.pos = r.pos
    /\ s.field = r.field /\ s.found = r.found /\ s.err = r.err /\ s.late = r.late

LEMMA TakeSnapshotEffect ==
    ASSUME RequestTypes, NEW p \in Requests, TakeSnapshot(p)
    PROVE  Began(req[p], req'[p]) /\ OnlyRequest(p) /\ RequestTypes'
<1> DEFINE s == [req[p] EXCEPT !.pc = IF dropped THEN "store" ELSE "load"]
<1>1. req' = [req EXCEPT ![p] = s] /\ req[p].pc = "snapshot"
  BY DEF TakeSnapshot, RequestTypes
<1>2. req[p] \in RequestStates /\ LoopsBounded(req[p])
  BY DEF RequestTypes
<1>3. s \in RequestStates
  BY <1>2 DEF RequestStates
<1>4. /\ s.pc = IF dropped THEN "store" ELSE "load"
      /\ s.key = req[p].key /\ s.recs = req[p].recs /\ s.out = req[p].out
      /\ s.pos = req[p].pos /\ s.field = req[p].field /\ s.found = req[p].found
      /\ s.err = req[p].err /\ s.late = req[p].late
  BY <1>2 DEF RequestStates
<1> HIDE DEF s
<1>5. LoopsBounded(s)
  BY <1>1, <1>2, <1>4, ServiceAssumption DEF LoopsBounded
<1>6. Began(req[p], s)
  BY <1>1, <1>4 DEF Began
<1> QED
  BY <1>1, <1>3, <1>5, <1>6, RequestReplaced

LEMMA EmptySequence ==
    ASSUME NEW S, NEW q \in Seq(S)
    PROVE  q = <<>> <=> Len(q) = 0
OBVIOUS

(* A reader has been loaded from the array. *)
Loaded(r, s) ==
    /\ r.pc = "load" /\ s.pc = "tree"
    /\ Len(s.recs) = Len(r.recs) + 1
    /\ \A i \in 1..Len(r.recs) : s.recs[i] = r.recs[i]
    /\ s.recs[Len(s.recs)] = [reader |-> array[r.pos], state |-> "unread"]
    /\ s.key = r.key /\ s.out = r.out /\ s.pos = r.pos /\ s.field = r.field
    /\ s.found = r.found /\ s.err = r.err /\ s.late = r.late

LEMMA LoadReaderEffect ==
    ASSUME RequestTypes, ProviderTypes, NEW p \in Requests, LoadReader(p)
    PROVE  Loaded(req[p], req'[p]) /\ OnlyRequest(p) /\ RequestTypes'
<1> DEFINE rec == [reader |-> array[req[p].pos], state |-> "unread"]
           recs == Append(req[p].recs, rec)
           s == [req[p] EXCEPT !.pc = "tree", !.recs = recs]
<1>1. req' = [req EXCEPT ![p] = s] /\ req[p].pc = "load"
  BY DEF LoadReader, RequestTypes
<1>2. req[p] \in RequestStates /\ LoopsBounded(req[p])
  BY DEF RequestTypes
<1>3. req[p].pos \in Databases /\ req[p].recs \in Seq(Records)
  BY <1>2 DEF RequestStates
<1>4. rec \in Records
  BY <1>3 DEF ProviderTypes, Records
<1> HIDE DEF rec
<1>5. /\ recs \in Seq(Records) /\ Len(recs) = Len(req[p].recs) + 1
      /\ \A i \in 1..Len(req[p].recs) : recs[i] = req[p].recs[i]
      /\ recs[Len(recs)] = rec
  BY <1>3, <1>4
<1> HIDE DEF recs
<1>6. s \in RequestStates
  BY <1>2, <1>5 DEF RequestStates
<1>7. /\ s.pc = "tree" /\ s.recs = recs
      /\ s.key = req[p].key /\ s.out = req[p].out
      /\ s.pos = req[p].pos /\ s.field = req[p].field /\ s.found = req[p].found
      /\ s.err = req[p].err /\ s.late = req[p].late
  BY <1>2 DEF RequestStates
<1> HIDE DEF s
<1>8. LoopsBounded(s)
  BY <1>1, <1>2, <1>3, <1>5, <1>7, ServiceAssumption DEF LoopsBounded, Databases
<1>9. Loaded(req[p], s)
  BY <1>1, <1>5, <1>7 DEF Loaded, rec
<1> QED
  BY <1>1, <1>6, <1>8, <1>9, RequestReplaced

(* The judgement on the reader that was loaded last. *)
Walked(r, s) ==
    LET n == Len(r.recs)
        reader == r.recs[n].reader
        last == r.pos = NumDatabases
    IN /\ r.pc = "tree" /\ n > 0
       /\ Len(s.recs) = IF reader \in open /\ <<reader.db, r.key>> \in Covers
                        THEN n ELSE n - 1
       /\ \A i \in 1..Len(s.recs) : s.recs[i] = r.recs[i]
       /\ s.err <=> r.err \/ reader \notin open
       /\ s.found <=> Len(s.recs) # 0
       /\ s.pos = IF last THEN 1 ELSE r.pos + 1
       /\ s.pc = IF ~last THEN "load"
                 ELSE IF Len(s.recs) = 0 \/ NumFields = 0
                 THEN "store" ELSE "extract"
       /\ s.key = r.key /\ s.out = r.out /\ s.field = 1 /\ s.late = r.late

LEMMA WalkTreeEffect ==
    ASSUME RequestTypes, NEW p \in Requests, WalkTree(p)
    PROVE  Walked(req[p], req'[p]) /\ OnlyRequest(p) /\ RequestTypes'
<1> DEFINE r == req[p]
           n == Len(r.recs)
           reader == r.recs[n].reader
           ok == reader \in open
           recs == IF ok /\ <<reader.db, r.key>> \in Covers
                   THEN r.recs ELSE SubSeq(r.recs, 1, n - 1)
           last == r.pos = NumDatabases
           pos == IF last THEN 1 ELSE r.pos + 1
           pc == IF ~last THEN "load"
                 ELSE IF recs = <<>> \/ NumFields = 0 THEN "store" ELSE "extract"
           s == [r EXCEPT !.recs = recs, !.err = r.err \/ ~ok,
                          !.found = recs # <<>>, !.pos = pos, !.pc = pc]
<1>1. req' = [req EXCEPT ![p] = s] /\ r.pc = "tree"
  BY DEF WalkTree, CurrentRecord, TreeReadable
<1>2. r \in RequestStates /\ LoopsBounded(r)
  BY DEF RequestTypes
<1>3. /\ r.pos \in Databases /\ r.recs \in Seq(Records) /\ r.err \in BOOLEAN
      /\ n \in 1..r.pos /\ r.field = 1
  <2>1. r.pos \in Databases /\ r.recs \in Seq(Records) /\ r.err \in BOOLEAN
    BY <1>2 DEF RequestStates
  <2>2. n \in 1..r.pos /\ r.field = 1
    BY <1>1, <1>2 DEF LoopsBounded
  <2> QED
    BY <2>1, <2>2
<1>4. /\ recs \in Seq(Records)
      /\ Len(recs) = IF ok /\ <<reader.db, r.key>> \in Covers THEN n ELSE n - 1
      /\ \A i \in 1..Len(recs) : recs[i] = r.recs[i]
  BY <1>3 DEF Databases
<1>5. recs = <<>> <=> Len(recs) = 0
  <2> HIDE DEF recs
  <2> QED
    BY <1>4, EmptySequence
<1>6. pos \in Databases /\ (~last => pos = r.pos + 1)
  BY <1>3, ServiceAssumption DEF Databases
<1>7. ok \in BOOLEAN
  OBVIOUS
<1> HIDE DEF ok, recs
<1>8. (recs # <<>>) \in BOOLEAN /\ (r.err \/ ~ok) \in BOOLEAN
  OBVIOUS
<1>9. pc \in {"load", "store", "extract"}
  OBVIOUS
<1> HIDE DEF r, pos, pc
<1>10. s \in RequestStates
  BY <1>2, <1>4, <1>6, <1>8, <1>9 DEF RequestStates
<1>11. /\ s.pc = pc /\ s.recs = recs /\ s.pos = pos
       /\ s.err = (r.err \/ ~ok) /\ s.found = (recs # <<>>)
       /\ s.key = r.key /\ s.out = r.out /\ s.field = r.field /\ s.late = r.late
  BY <1>2 DEF RequestStates
<1> HIDE DEF s
<1>12. Len(recs) <= NumDatabases /\ Len(recs) \in Nat
       /\ (pc = "load" => Len(recs) < pos)
       /\ (pc = "extract" => NumFields # 0 /\ Len(recs) > 0 /\ pos = 1)
  BY <1>3, <1>4, <1>5, <1>6, ServiceAssumption DEF pc, pos, Databases
<1>13. LoopsBounded(s)
  BY <1>3, <1>9, <1>11, <1>12, ServiceAssumption DEF LoopsBounded, Fields
<1>14. req'[p] = s /\ OnlyRequest(p) /\ RequestTypes'
  BY <1>1, <1>10, <1>13, RequestReplaced
<1>15. /\ s.pc = IF ~last THEN "load"
                 ELSE IF Len(s.recs) = 0 \/ NumFields = 0 THEN "store" ELSE "extract"
       /\ s.pos = IF last THEN 1 ELSE r.pos + 1
  BY <1>5, <1>11 DEF pc, pos
<1>16. s.err <=> r.err \/ reader \notin open
  BY <1>11 DEF ok
<1>17. s.found <=> Len(s.recs) # 0
  BY <1>5, <1>11
<1>18. /\ Len(s.recs) = IF reader \in open /\ <<reader.db, r.key>> \in Covers
                        THEN n ELSE n - 1
       /\ \A i \in 1..Len(s.recs) : s.recs[i] = r.recs[i]
       /\ n > 0
  BY <1>3, <1>4, <1>11 DEF ok, Databases
<1>19. Walked(r, s)
  BY <1>1, <1>3, <1>11, <1>15, <1>16, <1>17, <1>18 DEF Walked
<1> QED
  BY <1>14, <1>19 DEF r

(* A record that no read has failed on or will fail on. *)
Readable(rec) == rec.reader \in open /\ rec.state # "failed" /\ ~IOFaults

ValueOf(reader) == [db |-> reader.db, rel |-> reader.rel]

NextField(r, s) ==
    /\ s.pos = 1 /\ s.field = r.field + 1
    /\ s.pc = IF r.field = NumFields THEN "store" ELSE "extract"

(* The record in turn has given the field its value ... *)
Hit(r, s) ==
    LET reader == r.recs[r.pos].reader
    IN /\ <<reader.db, r.field>> \in Carries
       /\ DOMAIN s.out = DOMAIN r.out \cup {r.field}
       /\ s.out[r.field] = ValueOf(reader)
       /\ \A f \in DOMAIN r.out : f # r.field => s.out[f] = r.out[f]
       /\ NextField(r, s)

(* ... or has none for it. *)
Miss(r, s) ==
    LET rec == r.recs[r.pos]
    IN /\ Readable(rec) => <<rec.reader.db, r.field>> \notin Carries
       /\ s.out = r.out
       /\ IF r.pos = Len(r.recs) THEN NextField(r, s)
          ELSE s.pos = r.pos + 1 /\ s.field = r.field /\ s.pc = "extract"

Asked(r, s) ==
    /\ r.pc = "extract"
    /\ Len(s.recs) = Len(r.recs)
    /\ \A i \in 1..Len(r.recs) :
          /\ s.recs[i].reader = r.recs[i].reader
          /\ Readable(r.recs[i]) => s.recs[i].state # "failed"
    /\ s.key = r.key /\ s.found = r.found /\ s.err = r.err /\ s.late = r.late
    /\ Hit(r, s) \/ Miss(r, s)

LEMMA ReplacedElement ==
    ASSUME NEW S, NEW q \in Seq(S), NEW i \in 1..Len(q), NEW e \in S
    PROVE  LET t == [q EXCEPT ![i] = e]
           IN /\ t \in Seq(S) /\ Len(t) = Len(q) /\ t[i] = e
              /\ \A j \in 1..Len(q) : j # i => t[j] = q[j]
OBVIOUS

LEMMA ExtractValueEffect ==
    ASSUME RequestTypes, NEW p \in Requests, ExtractValue(p)
    PROVE  Asked(req[p], req'[p]) /\ OnlyRequest(p) /\ RequestTypes'
<1> DEFINE r == req[p]
           rec == CurrentRecord(p)
           reader == rec.reader
           value == [db |-> reader.db, rel |-> reader.rel]
<1>1. r.pc = "extract" /\ rec = r.recs[r.pos]
  BY DEF ExtractValue, CurrentRecord
<1>2. PICK result \in ValueOutcomes(rec) :
          LET hit == result.ok /\ <<reader.db, r.field>> \in Carries
              next == hit \/ r.pos = Len(r.recs)
          IN req' = [req EXCEPT ![p] =
                [r EXCEPT !.recs[r.pos].state = result.state,
                          !.out = IF hit
                                  THEN [f \in DOMAIN @ \cup {r.field} |->
                                           IF f = r.field THEN value ELSE @[f]]
                                  ELSE @,
                          !.pos = IF next THEN 1 ELSE @ + 1,
                          !.field = IF next THEN @ + 1 ELSE @,
                          !.pc = IF next /\ r.field = NumFields THEN "store" ELSE @]]
  BY Zenon DEF ExtractValue
<1> DEFINE hit == result.ok /\ <<reader.db, r.field>> \in Carries
           next == hit \/ r.pos = Len(r.recs)
           recs == [r.recs EXCEPT ![r.pos] = [@ EXCEPT !.state = result.state]]
           out == IF hit THEN [f \in DOMAIN r.out \cup {r.field} |->
                                  IF f = r.field THEN value ELSE r.out[f]]
                         ELSE r.out
           pos == IF next THEN 1 ELSE r.pos + 1
           field == IF next THEN r.field + 1 ELSE r.field
           pc == IF next /\ r.field = NumFields THEN "store" ELSE "extract"
           s == [r EXCEPT !.recs = recs, !.out = out, !.pos = pos, !.field = field,
                          !.pc = pc]
<1>3. req' = [req EXCEPT ![p] = s]
  BY <1>1, <1>2
<1>4. r \in RequestStates /\ LoopsBounded(r)
  BY DEF RequestTypes
<1>5. /\ r.pos \in Databases /\ r.recs \in Seq(Records) /\ r.out \in Results
      /\ r.field \in 1..(NumFields + 1)
  BY <1>4 DEF RequestStates
<1>6. /\ r.pos \in 1..Len(r.recs) /\ r.field \in 1..NumFields
      /\ Len(r.recs) <= NumDatabases
  BY <1>1, <1>4, <1>5 DEF LoopsBounded, Fields, Databases
<1>7. rec \in Records
  BY <1>1, <1>5, <1>6
<1>8. /\ result.state \in {"unread", "decoded", "failed"}
      /\ Readable(rec) => result.ok /\ result.state # "failed"
  <2>1. rec.state \in {"unread", "decoded", "failed"}
    BY <1>7 DEF Records
  <2>2. CASE SeekOnly \/ rec.state = "unread"
    <3>1. PICK ok \in RecordOutcomes(reader) :
             result = [ok |-> ok, state |-> IF SeekOnly THEN "unread"
                                            ELSE IF ok THEN "decoded" ELSE "failed"]
      BY <1>2, <2>2 DEF ValueOutcomes
    <3>2. Readable(rec) => ok
      BY ServiceAssumption DEF RecordOutcomes, Readable
    <3>3. result.ok = ok
      BY <3>1
    <3>4. result.state = IF SeekOnly THEN "unread"
                         ELSE IF ok THEN "decoded" ELSE "failed"
      BY <3>1
    <3>5. result.state \in {"unread", "decoded", "failed"}
      BY <3>4
    <3>6. ok => result.state # "failed"
      BY <3>4
    <3> QED
      BY <3>2, <3>3, <3>5, <3>6
  <2>3. CASE ~(SeekOnly \/ rec.state = "unread")
    <3>1. result = [ok |-> rec.state = "decoded", state |-> rec.state]
      BY <1>2, <2>3 DEF ValueOutcomes
    <3>2. result.ok = (rec.state = "decoded") /\ result.state = rec.state
      BY <3>1
    <3> QED
      BY <2>1, <2>3, <3>2 DEF Readable
  <2> QED
    BY <2>2, <2>3
<1>9. /\ recs \in Seq(Records) /\ Len(recs) = Len(r.recs)
      /\ \A i \in 1..Len(r.recs) : i # r.pos => recs[i] = r.recs[i]
      /\ recs[r.pos].reader = reader /\ recs[r.pos].state = result.state
  <2>1. [rec EXCEPT !.state = result.state] \in Records
    BY <1>7, <1>8 DEF Records
  <2>2. /\ [rec EXCEPT !.state = result.state].reader = reader
        /\ [rec EXCEPT !.state = result.state].state = result.state
    BY <1>7 DEF Records
  <2>3. recs = [r.recs EXCEPT ![r.pos] = [rec EXCEPT !.state = result.state]]
    BY <1>1, <1>5, <1>6
  <2> HIDE DEF rec, recs, r
  <2>4. /\ recs \in Seq(Records) /\ Len(recs) = Len(r.recs)
        /\ recs[r.pos] = [rec EXCEPT !.state = result.state]
        /\ \A i \in 1..Len(r.recs) : i # r.pos => recs[i] = r.recs[i]
    BY <1>5, <1>6, <2>1, <2>3, ReplacedElement
  <2> QED
    BY <2>2, <2>4
<1>10. out \in Results
  <2>1. DOMAIN r.out \subseteq Fields /\ r.out \in [DOMAIN r.out -> Values]
    BY <1>5, PartialFunctionTypes DEF Results
  <2>2. value \in Values
    BY <1>7 DEF Records, Readers, Values
  <2>3. DOMAIN out \subseteq Fields /\ out \in [DOMAIN out -> Values]
    BY <1>6, <2>1, <2>2 DEF Fields
  <2> HIDE DEF out
  <2> QED
    BY <2>3, PartialFunctionTypes DEF Results
<1>11. pos \in Databases /\ field \in 1..(NumFields + 1)
  <2> HIDE DEF r, hit
  <2>1. 1 \in Databases /\ (r.pos # Len(r.recs) => r.pos + 1 \in Databases)
    BY <1>5, <1>6, ServiceAssumption DEF Databases
  <2>2. r.field \in 1..(NumFields + 1) /\ r.field + 1 \in 1..(NumFields + 1)
    BY <1>6, ServiceAssumption
  <2> QED
    BY <2>1, <2>2
<1>12. pc \in {"extract", "store"}
  OBVIOUS
<1> HIDE DEF recs, out, pos, field, pc, r
<1>13. s \in RequestStates
  BY <1>4, <1>9, <1>10, <1>11, <1>12 DEF RequestStates
<1>14. /\ s.recs = recs /\ s.out = out /\ s.pos = pos /\ s.field = field /\ s.pc = pc
       /\ s.key = r.key /\ s.found = r.found /\ s.err = r.err /\ s.late = r.late
  BY <1>4 DEF RequestStates
<1> HIDE DEF s
<1>15. pc = "extract" => pos \in 1..Len(r.recs) /\ field \in 1..NumFields
  BY <1>5, <1>6, ServiceAssumption DEF pc, pos, field, Databases
<1>16. LoopsBounded(s)
  BY <1>6, <1>9, <1>12, <1>14, <1>15, ServiceAssumption DEF LoopsBounded, Fields
<1>17. req'[p] = s /\ OnlyRequest(p) /\ RequestTypes'
  BY <1>3, <1>13, <1>16, RequestReplaced
<1>18. ASSUME hit PROVE Hit(r, s)
  <2>1. NextField(r, s)
    BY <1>14, <1>18 DEF NextField, pos, field, pc
  <2>2. /\ DOMAIN s.out = DOMAIN r.out \cup {r.field}
        /\ s.out[r.field] = value
        /\ \A f \in DOMAIN r.out : f # r.field => s.out[f] = r.out[f]
    BY <1>14, <1>18 DEF out
  <2> QED
    BY <1>1, <1>18, <2>1, <2>2 DEF Hit, ValueOf
<1>19. ASSUME ~hit PROVE Miss(r, s)
  <2>1. Readable(rec) => <<reader.db, r.field>> \notin Carries
    BY <1>8, <1>19
  <2>2. s.out = r.out
    BY <1>14, <1>19 DEF out
  <2>3. CASE r.pos = Len(r.recs)
    BY <1>1, <1>14, <2>1, <2>2, <2>3 DEF Miss, NextField, pos, field, pc
  <2>4. CASE r.pos # Len(r.recs)
    BY <1>1, <1>14, <1>19, <2>1, <2>2, <2>4 DEF Miss, pos, field, pc
  <2> QED
    BY <2>3, <2>4
<1>20. \A i \in 1..Len(r.recs) :
          /\ s.recs[i].reader = r.recs[i].reader
          /\ Readable(r.recs[i]) => s.recs[i].state # "failed"
  <2> SUFFICES ASSUME NEW i \in 1..Len(r.recs)
               PROVE  /\ s.recs[i].reader = r.recs[i].reader
                      /\ Readable(r.recs[i]) => s.recs[i].state # "failed"
    OBVIOUS
  <2>1. CASE i = r.pos
    BY <1>1, <1>8, <1>9, <1>14, <2>1
  <2>2. CASE i # r.pos
    BY <1>9, <1>14, <2>2 DEF Readable
  <2> QED
    BY <2>1, <2>2
<1>21. Asked(r, s)
  BY <1>1, <1>9, <1>14, <1>18, <1>19, <1>20 DEF Asked
<1> QED
  BY <1>17, <1>21 DEF r

(* The cache holds entry e for address k, in either generation. *)
EntryAt(k, e) ==
    \/ k \in DOMAIN current /\ e = current[k]
    \/ k \in DOMAIN previous /\ e = previous[k]

LEMMA EntryTypes ==
    ASSUME CacheTypes, NEW k, NEW e, EntryAt(k, e)
    PROVE  k \in Keys /\ e \in Entries
<1>1. /\ DOMAIN current \subseteq Keys /\ current \in [DOMAIN current -> Entries]
      /\ DOMAIN previous \subseteq Keys /\ previous \in [DOMAIN previous -> Entries]
  BY PartialFunctionTypes DEF CacheTypes
<1> QED
  BY <1>1 DEF EntryAt

ResultOf(r) == [fields |-> r.out, found |-> r.found, late |-> r.late]

(* A put adds one entry, and may drop some. *)
LEMMA PutEffect ==
    ASSUME CacheTypes, NEW key \in Keys, NEW entry \in Entries, CachePut(key, entry)
    PROVE  /\ CacheTypes'
           /\ \A k, e : EntryAt(k, e)' => EntryAt(k, e) \/ (k = key /\ e = entry)
<1>1. CASE ~CacheEnabled
  BY <1>1 DEF CachePut, cacheVars, CacheTypes, EntryAt
<1>2. CASE CacheEnabled
  <2> DEFINE base == IF Full THEN EmptyGeneration ELSE current
  <2>1. /\ previous' = IF Full THEN current ELSE previous
        /\ current' = [k \in DOMAIN base \cup {key} |->
                          IF k = key THEN entry ELSE base[k]]
    BY <1>2 DEF CachePut
  <2>2. /\ DOMAIN base \subseteq Keys
        /\ \A k \in DOMAIN base : k \in DOMAIN current /\ base[k] = current[k]
                                                      /\ base[k] \in Entries
    <3>1. DOMAIN current \subseteq Keys /\ current \in [DOMAIN current -> Entries]
      BY PartialFunctionTypes DEF CacheTypes
    <3>2. DOMAIN EmptyGeneration = {}
      BY DEF EmptyGeneration
    <3> QED
      BY <3>1, <3>2
  <2> HIDE DEF base
  <2>3. DOMAIN current' \subseteq Keys /\ current' \in [DOMAIN current' -> Entries]
    BY <2>1, <2>2
  <2>4. CacheTypes'
    <3>1. current' \in PartialFunctions(Keys, Entries)
      BY <2>3, PartialFunctionTypes
    <3> QED
      BY <2>1, <3>1 DEF CacheTypes
  <2>5. ASSUME NEW k, NEW e, EntryAt(k, e)'
        PROVE  EntryAt(k, e) \/ (k = key /\ e = entry)
    <3>1. CASE k \in DOMAIN current' /\ e = current'[k]
      BY <2>1, <2>2, <3>1 DEF EntryAt
    <3>2. CASE k \in DOMAIN previous' /\ e = previous'[k]
      BY <2>1, <3>2 DEF EntryAt
    <3> QED
      BY <2>5, <3>1, <3>2 DEF EntryAt
  <2> QED
    BY <2>4, <2>5
<1> QED
  BY <1>1, <1>2

Stored(r, s) ==
    /\ r.pc = "store" /\ s.pc = "answered" /\ s.recs = <<>>
    /\ s.key = r.key /\ s.out = r.out /\ s.found = r.found
    /\ s.err = r.err /\ s.late = r.late

LEMMA StoreResultEffect ==
    ASSUME RequestTypes, CacheTypes, NEW p \in Requests, StoreResult(p)
    PROVE  /\ Stored(req[p], req'[p]) /\ OnlyRequest(p) /\ RequestTypes'
           /\ CacheTypes'
           /\ \A k, e : EntryAt(k, e)' =>
                 \/ EntryAt(k, e)
                 \/ ~req[p].err /\ k = req[p].key /\ e = ResultOf(req[p])
<1> DEFINE r == req[p]
           s == [r EXCEPT !.pc = "answered", !.pos = 1, !.field = 1, !.recs = <<>>]
<1>1. /\ req' = [req EXCEPT ![p] = s] /\ r.pc = "store"
      /\ r.err => UNCHANGED cacheVars
      /\ ~r.err => CachePut(r.key, ResultOf(r))
  BY DEF StoreResult, ResultOf
<1>2. r \in RequestStates
  BY DEF RequestTypes
<1>3. /\ r.key \in Keys
      /\ ResultOf(r) \in Entries
  BY <1>2 DEF RequestStates, Entries, ResultOf
<1>4. 1 \in Databases /\ 1 \in 1..(NumFields + 1) /\ <<>> \in Seq(Records)
  BY ServiceAssumption DEF Databases
<1>5. s \in RequestStates
  BY <1>2, <1>4 DEF RequestStates
<1>6. /\ s.pc = "answered" /\ s.pos = 1 /\ s.field = 1 /\ s.recs = <<>>
      /\ s.key = r.key /\ s.out = r.out /\ s.found = r.found
      /\ s.err = r.err /\ s.late = r.late
  BY <1>2 DEF RequestStates
<1> HIDE DEF s, r
<1>7. LoopsBounded(s)
  BY <1>6, ServiceAssumption DEF LoopsBounded
<1>8. Stored(r, s)
  BY <1>1, <1>6 DEF Stored
<1>9. /\ CacheTypes'
      /\ \A k, e : EntryAt(k, e)' =>
            EntryAt(k, e) \/ (~r.err /\ k = r.key /\ e = ResultOf(r))
  <2>1. CASE r.err
    BY <1>1, <2>1 DEF cacheVars, CacheTypes, EntryAt
  <2>2. CASE ~r.err
    BY <1>1, <1>3, <2>2, PutEffect
  <2> QED
    BY <2>1, <2>2
<1>10. req'[p] = s /\ OnlyRequest(p) /\ RequestTypes'
  BY <1>1, <1>5, <1>7, RequestReplaced
<1> QED
  BY <1>8, <1>9, <1>10 DEF r

LEMMA FinishRequestEffect ==
    ASSUME RequestTypes, NEW p \in Requests, FinishRequest(p)
    PROVE  req'[p] = IdleRequest /\ OnlyRequest(p) /\ RequestTypes'
BY RequestReplaced, IdleTypes DEF FinishRequest

(* A request has been answered from the cache, or goes on without it. *)
Started(s, k) ==
    /\ s.key = k /\ s.recs = <<>> /\ ~s.err
    /\ \/ s.pc = "snapshot" /\ s.pos = 1 /\ s.out = Empty /\ ~s.found
       \/ /\ s.pc = "answered"
          /\ \E e : EntryAt(k, e) /\ s.out = e.fields /\ s.found = e.found

LEMMA GetCachedEffect ==
    ASSUME RequestTypes, CacheTypes, NEW p \in Requests, NEW k \in Keys,
           GetCached(p, k)
    PROVE  Started(req'[p], k) /\ OnlyRequest(p) /\ RequestTypes'
<1>1. CASE req' = [req EXCEPT ![p] = [IdleRequest EXCEPT !.pc = "snapshot", !.key = k]]
  <2> DEFINE s == [IdleRequest EXCEPT !.pc = "snapshot", !.key = k]
  <2>1. /\ s \in RequestStates /\ LoopsBounded(s)
        /\ s.pc = "snapshot" /\ s.key = k /\ s.pos = 1 /\ s.recs = <<>>
        /\ s.out = Empty /\ ~s.found /\ ~s.err
    BY FreshRequest
  <2> HIDE DEF s
  <2>2. req'[p] = s /\ OnlyRequest(p) /\ RequestTypes'
    BY <1>1, <2>1, RequestReplaced DEF s
  <2> QED
    BY <2>1, <2>2 DEF Started
<1>2. CASE /\ Cached(k)
           /\ req' = [req EXCEPT ![p] =
                [IdleRequest EXCEPT !.pc = "answered", !.key = k,
                    !.out = EntryOf(k).fields, !.found = EntryOf(k).found,
                    !.late = EntryOf(k).late]]
  <2> DEFINE e == EntryOf(k)
             s == [IdleRequest EXCEPT !.pc = "answered", !.key = k,
                      !.out = e.fields, !.found = e.found, !.late = e.late]
  <2>1. EntryAt(k, e)
    BY <1>2 DEF Cached, EntryOf, EntryAt
  <2>2. e \in Entries
    BY <2>1, EntryTypes
  <2>3. req' = [req EXCEPT ![p] = s]
    BY <1>2
  <2> HIDE DEF e
  <2>4. /\ s \in RequestStates /\ LoopsBounded(s)
        /\ s.pc = "answered" /\ s.key = k /\ s.recs = <<>>
        /\ s.out = e.fields /\ s.found = e.found /\ ~s.err
    BY <2>2, CachedRequest
  <2> HIDE DEF s
  <2>5. req'[p] = s /\ OnlyRequest(p) /\ RequestTypes'
    BY <2>3, <2>4, RequestReplaced
  <2> QED
    BY <2>1, <2>4, <2>5 DEF Started
<1> QED
  BY <1>1, <1>2 DEF GetCached

(* A reader closed under a request may abort it, which leaves nothing. *)
Aborted(s) ==
    /\ s.pc = "aborted" /\ s.recs = <<>> /\ s.out = Empty
    /\ ~s.found /\ ~s.err /\ ~s.late

LEMMA CloseReaderEffect ==
    ASSUME RequestTypes, NEW reader, CloseReader(reader)
    PROVE  /\ RequestTypes'
           /\ \A p \in Requests :
                 req'[p] = req[p] \/ (Aborted(req'[p]) /\ Holds(p, reader))
<1>1. PICK hit \in SUBSET {p \in Requests : Reading(p, reader)} :
         req' = [p \in Requests |->
                    IF p \in hit
                    THEN [IdleRequest EXCEPT !.pc = "aborted", !.key = req[p].key]
                    ELSE req[p]]
  BY DEF CloseReader
<1>2. ASSUME NEW p \in Requests
      PROVE  /\ req'[p] \in RequestStates /\ LoopsBounded(req'[p])
             /\ req'[p] = req[p] \/ (Aborted(req'[p]) /\ Holds(p, reader))
  <2>1. req[p] \in RequestStates /\ LoopsBounded(req[p])
    BY DEF RequestTypes
  <2>2. CASE p \in hit
    <3> DEFINE s == [IdleRequest EXCEPT !.pc = "aborted", !.key = req[p].key]
    <3>1. req'[p] = s
      BY <1>1, <2>2
    <3>2. req[p].key \in Keys
      BY <2>1 DEF RequestStates
    <3>3. /\ s \in RequestStates /\ LoopsBounded(s)
          /\ s.pc = "aborted" /\ s.recs = <<>> /\ s.out = Empty
          /\ ~s.found /\ ~s.err /\ ~s.late
      BY <3>2, FreshRequest
    <3> HIDE DEF s
    <3>4. Holds(p, reader)
      <4> DEFINE r == req[p]
      <4>1. /\ r.pc \in {"tree", "extract"}
            /\ CurrentRecord(p) = [reader |-> reader, state |-> "unread"]
        BY <1>1, <2>2 DEF Reading
      <4>2. r.recs \in Seq(Records) /\ r.pos \in Nat \ {0}
        BY <2>1 DEF RequestStates, Databases
      <4>3. CASE r.pc = "tree"
        <5>1. Len(r.recs) \in DOMAIN r.recs
          BY <2>1, <4>2, <4>3 DEF LoopsBounded
        <5>2. r.recs[Len(r.recs)].reader = reader
          BY <4>1, <4>3 DEF CurrentRecord
        <5> QED
          BY <5>1, <5>2 DEF Holds
      <4>4. CASE r.pc = "extract"
        <5>1. r.pos \in DOMAIN r.recs
          BY <2>1, <4>2, <4>4 DEF LoopsBounded
        <5>2. r.recs[r.pos].reader = reader
          BY <4>1, <4>4 DEF CurrentRecord
        <5> QED
          BY <5>1, <5>2 DEF Holds
      <4> QED
        BY <4>1, <4>3, <4>4
    <3> QED
      BY <3>1, <3>3, <3>4 DEF Aborted
  <2>3. CASE p \notin hit
    BY <1>1, <2>1, <2>3
  <2> QED
    BY <2>2, <2>3
<1> QED
  BY <1>1, <1>2 DEF RequestTypes

(* The lookups in flight are marked, and nothing else changes about them. *)
Marked(r, s) ==
    /\ s.pc = r.pc /\ s.key = r.key /\ s.pos = r.pos /\ s.recs = r.recs
    /\ s.field = r.field /\ s.out = r.out /\ s.found = r.found /\ s.err = r.err
    /\ r.pc \in {"snapshot", "load", "tree", "extract", "store"} => s.late

LEMMA ResetCacheEffect ==
    ASSUME RequestTypes, ResetCache
    PROVE  /\ RequestTypes' /\ CacheTypes'
           /\ \A k, e : ~EntryAt(k, e)'
           /\ \A p \in Requests : Marked(req[p], req'[p])
<1>1. DOMAIN EmptyGeneration = {} /\ EmptyGeneration \in PartialFunctions(Keys, Entries)
  <2>1. DOMAIN EmptyGeneration = {} /\ EmptyGeneration \in [{} -> Entries]
    BY DEF EmptyGeneration
  <2> QED
    BY <2>1, PartialFunctionTypes
<1>2. current' = EmptyGeneration /\ previous' = EmptyGeneration
  BY DEF ResetCache, CacheReset
<1>3. CacheTypes' /\ \A k, e : ~EntryAt(k, e)'
  BY <1>1, <1>2 DEF CacheTypes, EntryAt
<1>4. req' = [p \in Requests |-> IF InFlight(p) THEN [req[p] EXCEPT !.late = TRUE]
                                                ELSE req[p]]
  BY DEF ResetCache
<1>5. ASSUME NEW p \in Requests
      PROVE  /\ req'[p] \in RequestStates /\ LoopsBounded(req'[p])
             /\ Marked(req[p], req'[p])
  <2>1. req[p] \in RequestStates /\ LoopsBounded(req[p])
    BY DEF RequestTypes
  <2>2. CASE InFlight(p)
    <3> DEFINE r == req[p]
               s == [r EXCEPT !.late = TRUE]
    <3>1. req'[p] = s
      BY <1>4, <2>2
    <3> HIDE DEF r
    <3>2. s \in RequestStates
      BY <2>1 DEF RequestStates, r
    <3>3. /\ s.pc = r.pc /\ s.key = r.key /\ s.pos = r.pos /\ s.recs = r.recs
          /\ s.field = r.field /\ s.out = r.out /\ s.found = r.found
          /\ s.err = r.err /\ s.late
      BY <2>1 DEF RequestStates, r
    <3> HIDE DEF s
    <3>4. LoopsBounded(s)
      BY <2>1, <3>3 DEF LoopsBounded, r
    <3> QED
      BY <3>1, <3>2, <3>3, <3>4 DEF Marked, r
  <2>3. CASE ~InFlight(p)
    BY <1>4, <2>1, <2>3 DEF Marked, InFlight
  <2> QED
    BY <2>2, <2>3
<1> QED
  BY <1>3, <1>4, <1>5 DEF RequestTypes

-----------------------------------------------------------------------------
(* What the requests in flight and the cache hold, in every reachable state. *)

(* The readers that a request holds are of different databases, in their
   order, and none is ahead of the loop that loads them. *)
ReadersOrdered(r) ==
    /\ \A i, j \in 1..Len(r.recs) :
          i < j => r.recs[i].reader.db < r.recs[j].reader.db
    /\ r.pc = "load" => \A i \in 1..Len(r.recs) : r.recs[i].reader.db < r.pos
    /\ r.pc = "tree" => r.recs[Len(r.recs)].reader.db = r.pos

(* Values are of one release if they are of one database. *)
OneRelease(fields) ==
    \A f, g \in DOMAIN fields :
        fields[f].db = fields[g].db => fields[f] = fields[g]

(* The values found so far are those of readers that the request holds. *)
ValuesHeld(r) ==
    /\ r.pc \in {"snapshot", "load", "tree"} => r.out = Empty
    /\ r.pc = "extract" => \A f \in DOMAIN r.out : \E i \in 1..Len(r.recs) :
          r.out[f] = ValueOf(r.recs[i].reader)
    /\ OneRelease(r.out)

Covered(k) == \E d \in Databases : <<d, k>> \in Covers

(* A database that covers the address has a record once the loop is past it,
   or there was an error; and a record makes the address a known one. *)
NothingMissed(r) ==
    /\ r.pc \in {"load", "tree"} /\ ~r.err => \A d \in Databases :
          d < r.pos /\ <<d, r.key>> \in Covers =>
              \E i \in 1..Len(r.recs) : r.recs[i].reader.db = d
    /\ r.pc = "extract" => r.found
    /\ r.pc \in {"store", "answered"} /\ ~r.err /\ ~r.found /\ Covered(r.key)
          => dropped

SoundEntry(k, e) ==
    /\ OneRelease(e.fields)
    /\ ~e.found /\ Covered(k) => dropped

SoundRequest(r) == ReadersOrdered(r) /\ ValuesHeld(r) /\ NothingMissed(r)

RequestInv ==
    /\ RequestTypes
    /\ CacheTypes
    /\ \A p \in Requests : SoundRequest(req[p])
    /\ \A k, e : EntryAt(k, e) => SoundEntry(k, e)

-----------------------------------------------------------------------------
(* A request between lookups, or with nothing but its key, is sound. *)
LEMMA BareRequest ==
    ASSUME NEW s, s.pc \in {"idle", "snapshot", "aborted"}, s.recs = <<>>, s.out = Empty
    PROVE  SoundRequest(s)
<1>1. ReadersOrdered(s)
  BY DEF ReadersOrdered
<1>2. ValuesHeld(s)
  BY EmptyIsPartial DEF ValuesHeld, OneRelease
<1>3. NothingMissed(s)
  BY DEF NothingMissed
<1> QED
  BY <1>1, <1>2, <1>3 DEF SoundRequest

LEMMA StartedSound ==
    ASSUME NEW s, NEW k, Started(s, k), \A e : EntryAt(k, e) => SoundEntry(k, e)
    PROVE  SoundRequest(s)
<1>1. CASE s.pc = "snapshot" /\ s.out = Empty
  BY <1>1, BareRequest DEF Started
<1>2. CASE s.pc = "answered"
  <2>1. PICK e : EntryAt(k, e) /\ s.out = e.fields /\ s.found = e.found
    BY <1>2 DEF Started
  <2>2. OneRelease(e.fields) /\ (~e.found /\ Covered(k) => dropped)
    BY <2>1 DEF SoundEntry
  <2>3. ReadersOrdered(s)
    BY <1>2 DEF Started, ReadersOrdered
  <2>4. ValuesHeld(s)
    BY <1>2, <2>1, <2>2 DEF ValuesHeld
  <2>5. s.key = k
    BY DEF Started
  <2>6. NothingMissed(s)
    BY <1>2, <2>1, <2>2, <2>5 DEF NothingMissed
  <2> QED
    BY <2>3, <2>4, <2>6 DEF SoundRequest
<1> QED
  BY <1>1, <1>2 DEF Started

LEMMA BeganSound ==
    ASSUME NEW r \in RequestStates, NEW s, LoopsBounded(r), Began(r, s), SoundRequest(r)
    PROVE  SoundRequest(s)
<1>1. /\ r.pc = "snapshot" /\ s.pc \in {"store", "load"}
      /\ s.pc = "store" => dropped
      /\ s.recs = <<>> /\ s.out = Empty /\ s.pos = 1
  BY DEF Began, LoopsBounded, SoundRequest, ValuesHeld
<1>2. ReadersOrdered(s)
  BY <1>1 DEF ReadersOrdered
<1>3. ValuesHeld(s)
  BY <1>1, EmptyIsPartial DEF ValuesHeld, OneRelease
<1>4. NothingMissed(s)
  BY <1>1, ServiceAssumption DEF NothingMissed, Databases
<1> QED
  BY <1>2, <1>3, <1>4 DEF SoundRequest

LEMMA RecordTypes ==
    ASSUME NEW r \in RequestStates
    PROVE  /\ r.recs \in Seq(Records) /\ Len(r.recs) \in Nat
           /\ r.pos \in Databases /\ r.pos \in Nat
           /\ \A i \in 1..Len(r.recs) :
                 /\ r.recs[i].reader \in Readers
                 /\ r.recs[i].reader.db \in Databases
                 /\ r.recs[i].reader.db \in Nat
<1>1. r.recs \in Seq(Records) /\ r.pos \in Databases
  BY DEF RequestStates
<1>2. Len(r.recs) \in Nat /\ \A i \in 1..Len(r.recs) : r.recs[i] \in Records
  BY <1>1
<1>3. \A rec \in Records : rec.reader \in Readers
  BY DEF Records
<1>4. \A reader \in Readers : reader.db \in Databases
  BY DEF Readers
<1>5. \A d \in Databases : d \in Nat
  BY DEF Databases
<1> QED
  BY <1>1, <1>2, <1>3, <1>4, <1>5

LEMMA LoadedSound ==
    ASSUME NEW r \in RequestStates, NEW s, LoopsBounded(r), Loaded(r, s),
           SoundRequest(r), SlotsMatch
    PROVE  SoundRequest(s)
<1>1. /\ Len(r.recs) \in Nat /\ r.pos \in Databases /\ r.pos \in Nat
      /\ \A i \in 1..Len(r.recs) : r.recs[i].reader.db \in Nat
  BY RecordTypes
<1>2. /\ r.pc = "load" /\ s.pc = "tree" /\ s.pos = r.pos
      /\ Len(s.recs) = Len(r.recs) + 1
      /\ \A i \in 1..Len(r.recs) : s.recs[i] = r.recs[i]
      /\ s.recs[Len(s.recs)].reader.db = r.pos
  BY <1>1 DEF Loaded, SlotsMatch
<1>3. \A i \in 1..Len(r.recs) : r.recs[i].reader.db < r.pos
  BY <1>2 DEF SoundRequest, ReadersOrdered
<1>4. ReadersOrdered(s)
  <2> SUFFICES ASSUME NEW i \in 1..Len(s.recs), NEW j \in 1..Len(s.recs), i < j
               PROVE  s.recs[i].reader.db < s.recs[j].reader.db
    BY <1>2 DEF ReadersOrdered
  <2>1. i \in 1..Len(r.recs)
    BY <1>1, <1>2
  <2>2. CASE j \in 1..Len(r.recs)
    BY <1>2, <2>1, <2>2 DEF SoundRequest, ReadersOrdered
  <2>3. CASE j = Len(s.recs)
    BY <1>2, <1>3, <2>1, <2>3
  <2> QED
    BY <1>1, <1>2, <2>2, <2>3
<1>5. ValuesHeld(s)
  BY <1>2 DEF Loaded, SoundRequest, ValuesHeld
<1>6. NothingMissed(s)
  <2>1. s.err = r.err /\ s.key = r.key
    BY DEF Loaded
  <2> SUFFICES ASSUME ~r.err, NEW d \in Databases, d < r.pos, <<d, r.key>> \in Covers
               PROVE  \E i \in 1..Len(s.recs) : s.recs[i].reader.db = d
    BY <1>2, <2>1 DEF NothingMissed
  <2>2. PICK i \in 1..Len(r.recs) : r.recs[i].reader.db = d
    BY <1>2 DEF SoundRequest, NothingMissed
  <2>3. i \in 1..Len(s.recs) /\ s.recs[i] = r.recs[i]
    BY <1>1, <1>2, <2>2
  <2> QED
    BY <2>2, <2>3
<1> QED
  BY <1>4, <1>5, <1>6 DEF SoundRequest

(* An error-free loop has a record of every covering database it has passed. *)
LEMMA WalkedHasAll ==
    ASSUME NEW r \in RequestStates, NEW s, Walked(r, s), ReadersOrdered(r),
           NothingMissed(r), ~s.err, NEW d \in Databases, d <= r.pos,
           <<d, r.key>> \in Covers
    PROVE  \E i \in 1..Len(s.recs) : s.recs[i].reader.db = d
<1> DEFINE n == Len(r.recs)
           reader == r.recs[n].reader
<1>1. /\ r.pc = "tree" /\ n > 0 /\ ~r.err /\ reader \in open /\ reader.db = r.pos
      /\ \A i \in 1..Len(s.recs) : s.recs[i] = r.recs[i]
      /\ Len(s.recs) = IF <<reader.db, r.key>> \in Covers THEN n ELSE n - 1
  BY DEF Walked, ReadersOrdered
<1>2. n \in Nat /\ r.pos \in Nat /\ d \in Nat
  BY RecordTypes DEF Databases
<1>3. CASE d = r.pos
  <2>1. n \in 1..Len(s.recs) /\ s.recs[n] = r.recs[n]
    BY <1>1, <1>2, <1>3
  <2> QED
    BY <1>1, <1>3, <2>1
<1>4. CASE d < r.pos
  <2>1. PICK i \in 1..n : r.recs[i].reader.db = d
    BY <1>1, <1>4 DEF NothingMissed
  <2>2. i # n
    BY <1>1, <1>2, <1>4, <2>1
  <2>3. i \in 1..Len(s.recs) /\ s.recs[i] = r.recs[i]
    BY <1>1, <1>2, <2>2
  <2> QED
    BY <2>1, <2>3
<1> QED
  BY <1>2, <1>3, <1>4

LEMMA WalkedSound ==
    ASSUME NEW r \in RequestStates, NEW s, LoopsBounded(r), Walked(r, s),
           SoundRequest(r)
    PROVE  SoundRequest(s)
<1> DEFINE n == Len(r.recs)
           last == r.pos = NumDatabases
<1>1. ReadersOrdered(r) /\ ValuesHeld(r) /\ NothingMissed(r)
  BY DEF SoundRequest
<1>2. /\ n \in Nat /\ r.pos \in Nat /\ r.pos \in Databases
      /\ \A i \in 1..n : r.recs[i].reader.db \in Nat
  BY RecordTypes
<1>3. /\ r.pc = "tree" /\ n > 0
      /\ Len(s.recs) \in {n, n - 1}
      /\ \A i \in 1..Len(s.recs) : s.recs[i] = r.recs[i]
      /\ s.found <=> Len(s.recs) # 0
      /\ s.key = r.key /\ s.out = r.out
  BY DEF Walked
<1>4. /\ ~last => s.pc = "load" /\ s.pos = r.pos + 1
      /\ last => s.pc \in {"store", "extract"}
      /\ s.pc = "extract" => Len(s.recs) # 0
  BY DEF Walked
<1>5. \A i \in 1..n : r.recs[i].reader.db <= r.pos
  <2> SUFFICES ASSUME NEW i \in 1..n PROVE r.recs[i].reader.db <= r.pos
    OBVIOUS
  <2>1. r.recs[n].reader.db = r.pos
    BY <1>1, <1>3 DEF ReadersOrdered
  <2>2. CASE i = n
    BY <1>2, <2>1, <2>2
  <2>3. CASE i < n
    BY <1>1, <1>2, <1>3, <2>1, <2>3 DEF ReadersOrdered
  <2> QED
    BY <1>2, <2>2, <2>3
<1>6. \A i \in 1..Len(s.recs) : i \in 1..n
  BY <1>2, <1>3
<1>7. ReadersOrdered(s)
  <2>1. \A i, j \in 1..Len(s.recs) : i < j => s.recs[i].reader.db < s.recs[j].reader.db
    BY <1>1, <1>3, <1>6 DEF ReadersOrdered
  <2>2. s.pc = "load" => \A i \in 1..Len(s.recs) : s.recs[i].reader.db < s.pos
    BY <1>2, <1>3, <1>4, <1>5, <1>6
  <2>3. s.pc # "tree"
    BY <1>4
  <2> QED
    BY <2>1, <2>2, <2>3 DEF ReadersOrdered
<1>8. ValuesHeld(s)
  <2>1. s.out = Empty
    BY <1>1, <1>3 DEF ValuesHeld
  <2> QED
    BY <2>1, EmptyIsPartial DEF ValuesHeld, OneRelease
<1>9. NothingMissed(s)
  <2>1. ASSUME ~s.err, NEW d \in Databases, d <= r.pos, <<d, r.key>> \in Covers
        PROVE  \E i \in 1..Len(s.recs) : s.recs[i].reader.db = d
    BY <1>1, <2>1, WalkedHasAll
  <2>2. CASE ~last
    <3>1. \A d \in Databases : d < s.pos => d <= r.pos
      BY <1>2, <1>4, <2>2 DEF Databases
    <3> QED
      BY <1>3, <1>4, <2>1, <2>2, <3>1 DEF NothingMissed
  <2>3. CASE last
    <3>1. s.pc = "extract" => s.found
      BY <1>3, <1>4
    <3>2. ASSUME ~s.err, ~s.found, Covered(s.key) PROVE FALSE
      <4>1. PICK d \in Databases : <<d, r.key>> \in Covers
        BY <1>3, <3>2 DEF Covered
      <4>2. d <= r.pos
        BY <1>2, <2>3, ServiceAssumption DEF Databases
      <4>3. \E i \in 1..Len(s.recs) : TRUE
        BY <2>1, <3>2, <4>1, <4>2
      <4>4. Len(s.recs) = 0
        BY <1>3, <3>2
      <4> QED
        BY <4>3, <4>4
    <3> QED
      BY <1>4, <2>3, <3>1, <3>2 DEF NothingMissed
  <2> QED
    BY <2>2, <2>3
<1> QED
  BY <1>7, <1>8, <1>9 DEF SoundRequest

(* Readers in their order give values of one release. *)
LEMMA HeldValuesAgree ==
    ASSUME NEW r \in RequestStates, ReadersOrdered(r), NEW out,
           \A f \in DOMAIN out : \E i \in 1..Len(r.recs) :
               out[f] = ValueOf(r.recs[i].reader)
    PROVE  OneRelease(out)
<1> SUFFICES ASSUME NEW f \in DOMAIN out, NEW g \in DOMAIN out,
                    out[f].db = out[g].db
             PROVE  out[f] = out[g]
  BY DEF OneRelease
<1>1. PICK i \in 1..Len(r.recs) : out[f] = ValueOf(r.recs[i].reader)
  OBVIOUS
<1>2. PICK j \in 1..Len(r.recs) : out[g] = ValueOf(r.recs[j].reader)
  OBVIOUS
<1>3. r.recs[i].reader.db = r.recs[j].reader.db
  BY <1>1, <1>2 DEF ValueOf
<1>4. /\ Len(r.recs) \in Nat /\ r.recs[i].reader.db \in Nat
      /\ r.recs[j].reader.db \in Nat
  BY RecordTypes
<1>5. ~(i < j) /\ ~(j < i)
  BY <1>3, <1>4 DEF ReadersOrdered
<1>6. i = j
  BY <1>4, <1>5
<1> QED
  BY <1>1, <1>2, <1>6

LEMMA AskedSound ==
    ASSUME NEW r \in RequestStates, NEW s \in RequestStates, LoopsBounded(r),
           Asked(r, s), SoundRequest(r)
    PROVE  SoundRequest(s)
<1>1. /\ r.pc = "extract" /\ s.pc \in {"extract", "store"}
      /\ Len(s.recs) = Len(r.recs)
      /\ \A i \in 1..Len(r.recs) : s.recs[i].reader = r.recs[i].reader
      /\ s.found = r.found
  BY DEF Asked, Hit, Miss, NextField
<1>2. ReadersOrdered(r) /\ ValuesHeld(r) /\ NothingMissed(r)
  BY DEF SoundRequest
<1>3. ReadersOrdered(s)
  BY <1>1, <1>2 DEF ReadersOrdered
<1>4. r.pos \in 1..Len(r.recs)
  BY <1>1, RecordTypes DEF LoopsBounded, Databases
<1>5. ASSUME NEW f \in DOMAIN s.out
      PROVE  \E i \in 1..Len(s.recs) : s.out[f] = ValueOf(s.recs[i].reader)
  <2>1. CASE Hit(r, s) /\ f = r.field
    <3>1. s.out[f] = ValueOf(r.recs[r.pos].reader)
      BY <2>1 DEF Hit
    <3> QED
      BY <1>1, <1>4, <3>1
  <2>2. CASE f \in DOMAIN r.out /\ s.out[f] = r.out[f]
    <3>1. PICK i \in 1..Len(r.recs) : r.out[f] = ValueOf(r.recs[i].reader)
      BY <1>1, <1>2, <2>2 DEF ValuesHeld
    <3> QED
      BY <1>1, <2>2, <3>1
  <2> QED
    BY <1>5, <2>1, <2>2 DEF Asked, Hit, Miss
<1>6. OneRelease(s.out)
  BY <1>3, <1>5, HeldValuesAgree
<1>7. ValuesHeld(s)
  BY <1>1, <1>5, <1>6 DEF ValuesHeld
<1>8. NothingMissed(s)
  BY <1>1, <1>2 DEF NothingMissed
<1> QED
  BY <1>3, <1>7, <1>8 DEF SoundRequest

LEMMA StoredSound ==
    ASSUME NEW r, NEW s, Stored(r, s), SoundRequest(r)
    PROVE  SoundRequest(s)
<1>1. ReadersOrdered(s)
  BY DEF Stored, ReadersOrdered
<1>2. ValuesHeld(s)
  BY DEF Stored, SoundRequest, ValuesHeld
<1>3. NothingMissed(s)
  BY DEF Stored, SoundRequest, NothingMissed
<1> QED
  BY <1>1, <1>2, <1>3 DEF SoundRequest

LEMMA MarkedSound ==
    ASSUME NEW r, NEW s, Marked(r, s), SoundRequest(r)
    PROVE  SoundRequest(s)
BY DEF Marked, SoundRequest, ReadersOrdered, ValuesHeld, NothingMissed

-----------------------------------------------------------------------------
(* The readers taken away stay away, so what is sound remains so. *)
LEMMA SoundLater ==
    ASSUME dropped => dropped', NEW p, SoundRequest(req'[p])
    PROVE  SoundRequest(req[p])'
BY DEF SoundRequest, ReadersOrdered, ValuesHeld, NothingMissed

LEMMA EntrySoundLater ==
    ASSUME dropped => dropped', NEW k, NEW e, SoundEntry(k, e)
    PROVE  SoundEntry(k, e)'
BY DEF SoundEntry

LEMMA DroppedStays == ASSUME [Next]_vars PROVE dropped => dropped'
BY DEF Next, FileStep, WriteFile, RemoveFile, GetCached, RequestStep, TakeSnapshot,
       LoadReader, WalkTree, ExtractValue, StoreResult, FinishRequest, TickRefresh,
       StopWatching, RefreshStep, CheckReader, StatFile, ReadFile, LockForSwap,
       SwapSlot, UnlockAfterSwap, ResetCache, RetireReaders, WakeUps, CloseRetired,
       CancelContext, CloseStep, LockForClose, CloseInstalled, DropReaders, vars,
       providerVars

(* A step is a request's, the reset, the closing of a reader, or one that the
   requests and the cache have no part in. *)
LEMMA StepKinds ==
    ASSUME [Next]_vars
    PROVE  \/ \E p \in Requests : (\E k \in Keys : GetCached(p, k)) \/ RequestStep(p)
           \/ ResetCache
           \/ (\E reader : CloseReader(reader)) /\ UNCHANGED cacheVars
           \/ UNCHANGED <<req, current, previous>>
<1>1. CASE FileStep
  BY <1>1 DEF FileStep, WriteFile, RemoveFile, cacheVars
<1>2. CASE TickRefresh \/ StopWatching \/ CancelContext
  BY <1>2 DEF TickRefresh, StopWatching, CancelContext, cacheVars
<1>3. CASE RefreshStep
  BY <1>3 DEF RefreshStep, CheckReader, StatFile, ReadFile, LockForSwap, SwapSlot,
              UnlockAfterSwap, RetireReaders, cacheVars
<1>4. CASE WakeUps
  BY <1>4 DEF WakeUps, CloseRetired
<1>5. CASE CloseStep
  BY <1>5 DEF CloseStep, LockForClose, CloseInstalled, DropReaders, cacheVars
<1>6. CASE UNCHANGED vars
  BY <1>6 DEF vars, cacheVars
<1> QED
  BY <1>1, <1>2, <1>3, <1>4, <1>5, <1>6 DEF Next

(* A step of one request leaves the others, and all but one entry. *)
LEMMA OneRequestSound ==
    ASSUME RequestInv, NEW p \in Requests, OnlyRequest(p), RequestTypes', CacheTypes',
           dropped => dropped', SoundRequest(req'[p]),
           \A k, e : EntryAt(k, e)' => SoundEntry(k, e)
    PROVE  RequestInv'
<1>1. ASSUME NEW q \in Requests PROVE SoundRequest(req'[q])
  <2>1. CASE q = p
    BY <2>1
  <2>2. CASE q # p
    BY <2>2 DEF OnlyRequest, RequestInv
  <2> QED
    BY <2>1, <2>2
<1>2. \A q \in Requests : SoundRequest(req[q])'
  BY <1>1, SoundLater
<1>3. \A k, e : EntryAt(k, e)' => SoundEntry(k, e)'
  BY EntrySoundLater
<1> QED
  BY <1>2, <1>3 DEF RequestInv

LEMMA NextRequests == ProviderInv /\ RequestInv /\ [Next]_vars => RequestInv'
<1> SUFFICES ASSUME ProviderInv, RequestInv, [Next]_vars PROVE RequestInv'
  OBVIOUS
<1>1. RequestTypes /\ CacheTypes /\ ProviderTypes /\ SlotsMatch
  BY DEF RequestInv, ProviderInv
<1>2. dropped => dropped'
  BY DroppedStays
<1>3. ASSUME UNCHANGED <<current, previous>>
      PROVE  CacheTypes' /\ \A k, e : EntryAt(k, e)' => SoundEntry(k, e)
  BY <1>1, <1>3 DEF CacheTypes, EntryAt, RequestInv
<1>4. ASSUME NEW p \in Requests, NEW k \in Keys, GetCached(p, k) PROVE RequestInv'
  <2>1. Started(req'[p], k) /\ OnlyRequest(p) /\ RequestTypes'
    BY <1>1, <1>4, GetCachedEffect
  <2>2. UNCHANGED <<current, previous>>
    BY <1>4 DEF GetCached, cacheVars
  <2>3. SoundRequest(req'[p])
    BY <2>1, StartedSound DEF RequestInv
  <2> QED
    BY <1>2, <1>3, <2>1, <2>2, <2>3, OneRequestSound
<1>5. ASSUME NEW p \in Requests, RequestStep(p) PROVE RequestInv'
  <2>1. req[p] \in RequestStates /\ LoopsBounded(req[p]) /\ SoundRequest(req[p])
    BY <1>1 DEF RequestTypes, RequestInv
  <2>2. CASE TakeSnapshot(p)
    <3>1. Began(req[p], req'[p]) /\ OnlyRequest(p) /\ RequestTypes'
      BY <1>1, <2>2, TakeSnapshotEffect
    <3>2. SoundRequest(req'[p])
      BY <2>1, <3>1, BeganSound
    <3>3. UNCHANGED <<current, previous>>
      BY <2>2 DEF TakeSnapshot, cacheVars
    <3> QED
      BY <1>2, <1>3, <3>1, <3>2, <3>3, OneRequestSound
  <2>3. CASE LoadReader(p)
    <3>1. Loaded(req[p], req'[p]) /\ OnlyRequest(p) /\ RequestTypes'
      BY <1>1, <2>3, LoadReaderEffect
    <3>2. SoundRequest(req'[p])
      BY <1>1, <2>1, <3>1, LoadedSound
    <3>3. UNCHANGED <<current, previous>>
      BY <2>3 DEF LoadReader, cacheVars
    <3> QED
      BY <1>2, <1>3, <3>1, <3>2, <3>3, OneRequestSound
  <2>4. CASE WalkTree(p)
    <3>1. Walked(req[p], req'[p]) /\ OnlyRequest(p) /\ RequestTypes'
      BY <1>1, <2>4, WalkTreeEffect
    <3>2. SoundRequest(req'[p])
      BY <2>1, <3>1, WalkedSound
    <3>3. UNCHANGED <<current, previous>>
      BY <2>4 DEF WalkTree, cacheVars
    <3> QED
      BY <1>2, <1>3, <3>1, <3>2, <3>3, OneRequestSound
  <2>5. CASE ExtractValue(p)
    <3>1. Asked(req[p], req'[p]) /\ OnlyRequest(p) /\ RequestTypes'
      BY <1>1, <2>5, ExtractValueEffect
    <3>2. req'[p] \in RequestStates
      BY <3>1 DEF RequestTypes
    <3>3. SoundRequest(req'[p])
      BY <2>1, <3>1, <3>2, AskedSound
    <3>4. UNCHANGED <<current, previous>>
      BY <2>5 DEF ExtractValue, cacheVars
    <3> QED
      BY <1>2, <1>3, <3>1, <3>3, <3>4, OneRequestSound
  <2>6. CASE StoreResult(p)
    <3>1. /\ Stored(req[p], req'[p]) /\ OnlyRequest(p) /\ RequestTypes'
          /\ CacheTypes'
          /\ \A k, e : EntryAt(k, e)' =>
                \/ EntryAt(k, e)
                \/ ~req[p].err /\ k = req[p].key /\ e = ResultOf(req[p])
      BY <1>1, <2>6, StoreResultEffect
    <3>2. SoundRequest(req'[p])
      BY <2>1, <3>1, StoredSound
    <3>3. ~req[p].err => SoundEntry(req[p].key, ResultOf(req[p]))
      BY <2>1, <3>1 DEF Stored, SoundRequest, ValuesHeld, NothingMissed, SoundEntry,
                        ResultOf
    <3>4. \A k, e : EntryAt(k, e)' => SoundEntry(k, e)
      BY <3>1, <3>3 DEF RequestInv
    <3> QED
      BY <1>2, <3>1, <3>2, <3>4, OneRequestSound
  <2>7. CASE FinishRequest(p)
    <3>1. req'[p] = IdleRequest /\ OnlyRequest(p) /\ RequestTypes'
      BY <1>1, <2>7, FinishRequestEffect
    <3>2. SoundRequest(req'[p])
      BY <3>1, IdleTypes, BareRequest
    <3>3. UNCHANGED <<current, previous>>
      BY <2>7 DEF FinishRequest, cacheVars
    <3> QED
      BY <1>2, <1>3, <3>1, <3>2, <3>3, OneRequestSound
  <2> QED
    BY <1>5, <2>2, <2>3, <2>4, <2>5, <2>6, <2>7 DEF RequestStep
<1>6. ASSUME RequestTypes', CacheTypes', \A p \in Requests : SoundRequest(req'[p]),
             \A k, e : EntryAt(k, e)' => SoundEntry(k, e)
      PROVE  RequestInv'
  <2>1. \A p \in Requests : SoundRequest(req[p])'
    BY <1>2, <1>6, SoundLater
  <2>2. \A k, e : EntryAt(k, e)' => SoundEntry(k, e)'
    BY <1>2, <1>6, EntrySoundLater
  <2> QED
    BY <1>6, <2>1, <2>2 DEF RequestInv
<1>7. CASE ResetCache
  <2>1. /\ RequestTypes' /\ CacheTypes'
        /\ \A k, e : ~EntryAt(k, e)'
        /\ \A p \in Requests : Marked(req[p], req'[p])
    BY <1>1, <1>7, ResetCacheEffect
  <2>2. \A p \in Requests : SoundRequest(req'[p])
    BY <2>1, MarkedSound DEF RequestInv
  <2> QED
    BY <1>6, <2>1, <2>2
<1>8. ASSUME NEW reader, CloseReader(reader), UNCHANGED cacheVars PROVE RequestInv'
  <2>1. /\ RequestTypes'
        /\ \A p \in Requests :
              req'[p] = req[p] \/ (Aborted(req'[p]) /\ Holds(p, reader))
    BY <1>1, <1>8, CloseReaderEffect
  <2>2. \A p \in Requests : SoundRequest(req'[p])
    <3> SUFFICES ASSUME NEW p \in Requests PROVE SoundRequest(req'[p])
      OBVIOUS
    <3>1. CASE req'[p] = req[p]
      BY <3>1 DEF RequestInv
    <3>2. CASE Aborted(req'[p])
      BY <3>2, BareRequest DEF Aborted
    <3> QED
      BY <2>1, <3>1, <3>2
  <2> QED
    BY <1>3, <1>6, <1>8, <2>1, <2>2 DEF cacheVars
<1>9. CASE UNCHANGED <<req, current, previous>>
  <2>1. RequestTypes' /\ \A p \in Requests : SoundRequest(req'[p])
    BY <1>1, <1>9 DEF RequestTypes, RequestInv
  <2> QED
    BY <1>3, <1>6, <1>9, <2>1
<1> QED
  BY <1>4, <1>5, <1>7, <1>8, <1>9, StepKinds

LEMMA InitRequests == Init => RequestInv
<1> SUFFICES ASSUME Init PROVE RequestInv
  OBVIOUS
<1>1. RequestTypes
  BY IdleTypes DEF Init, RequestTypes
<1>2. DOMAIN EmptyGeneration = {} /\ EmptyGeneration \in [{} -> Entries]
  BY DEF EmptyGeneration
<1>3. EmptyGeneration \in PartialFunctions(Keys, Entries)
  BY <1>2, PartialFunctionTypes
<1>4. CacheTypes /\ \A k, e : ~EntryAt(k, e)
  BY <1>2, <1>3 DEF Init, CacheInit, CacheTypes, EntryAt
<1>5. \A p \in Requests : SoundRequest(req[p])
  BY IdleTypes, BareRequest DEF Init
<1> QED
  BY <1>1, <1>4, <1>5 DEF RequestInv

LEMMA RequestInvariance == Spec => []RequestInv
<1> QED
  BY InitRequests, NextRequests, ProviderInvariance, PTL DEF Spec

(* The values a request takes from one database are of one release of it, for
   any interleaving with the watcher, for any number of databases and fields
   (provider.go 172-196). *)
THEOREM AnswersOfOneRelease == Spec => []OneReleasePerDatabase
<1>1. RequestInv => OneReleasePerDatabase
  BY DEF RequestInv, SoundRequest, ValuesHeld, OneRelease, OneReleasePerDatabase
<1> QED
  BY <1>1, RequestInvariance, PTL

(* An address that a database covers is reported unknown without an error only
   after the teardown, whatever fails on the way (provider.go 172-196, 208). *)
THEOREM UnknownIsExcused == Spec => []UnknownOnlyAfterClose
<1>1. RequestInv => UnknownOnlyAfterClose
  BY DEF RequestInv, SoundRequest, NothingMissed, Covered, UnknownOnlyAfterClose
<1> QED
  BY <1>1, RequestInvariance, PTL

-----------------------------------------------------------------------------
(* The rest of the type invariant: the goroutines, the lock, the copies. *)
GoroutineTypes ==
    /\ writer \in {"none", "watch", "close"}
    /\ open \subseteq Readers
    /\ wpc \in {"wait", "check", "stat", "read", "lock", "swap", "reset", "retire",
                "stopped"}
    /\ copy \in PartialFunctions(Databases, Readers)
    /\ fresh \in PartialFunctions(Databases, Readers)
    /\ cpc \in {"up", "cancelled", "closing", "down"}

LEMMA ArrayIsPartial ==
    ProviderTypes => array \in PartialFunctions(Databases, Readers)
BY PartialFunctionTypes DEF ProviderTypes

LEMMA AdvanceTypes ==
    ASSUME GoroutineTypes, NEW f, AdvanceWith(f)
    PROVE  wpc' \in {"check", "wait", "lock"}
           /\ copy' \in PartialFunctions(Databases, Readers)
BY EmptyIsPartial DEF AdvanceWith, GoroutineTypes

LEMMA RefreshTypes ==
    ASSUME ProviderInv, GoroutineTypes, RefreshStep
    PROVE  GoroutineTypes'
<1>1. ProviderTypes
  BY DEF ProviderInv
<1>2. CASE CheckReader \/ StatFile
  <2>1. UNCHANGED <<writer, open, fresh, cpc>>
    BY <1>2 DEF CheckReader, StatFile, providerVars
  <2>2. /\ wpc' \in {"stat", "read", "check", "wait", "lock"}
        /\ copy' \in PartialFunctions(Databases, Readers)
    BY <1>2, AdvanceTypes DEF CheckReader, StatFile, GoroutineTypes
  <2> QED
    BY <2>1, <2>2 DEF GoroutineTypes
<1>3. CASE ReadFile
  <2>1. CASE disk[slot].state = "good"
    <3> DEFINE reader == Opened(slot, seen)
    <3>1. reader \in Readers /\ slot \in Databases
      BY <1>1 DEF ProviderTypes, Opened, Readers
    <3>2. /\ fresh' = [i \in DOMAIN fresh \cup {slot} |->
                          IF i = slot THEN reader ELSE fresh[i]]
          /\ open' = open \cup {reader}
          /\ AdvanceWith(fresh')
          /\ UNCHANGED <<writer, cpc>>
      BY <1>3, <2>1 DEF ReadFile
    <3> HIDE DEF reader
    <3>3. DOMAIN fresh' \subseteq Databases /\ fresh' \in [DOMAIN fresh' -> Readers]
      BY <1>1, <3>1, <3>2 DEF ProviderTypes
    <3>4. fresh' \in PartialFunctions(Databases, Readers)
      BY <3>3, PartialFunctionTypes
    <3>5. /\ wpc' \in {"check", "wait", "lock"}
          /\ copy' \in PartialFunctions(Databases, Readers)
      BY <3>2, AdvanceTypes
    <3> QED
      BY <3>1, <3>2, <3>4, <3>5 DEF GoroutineTypes
  <2>2. CASE disk[slot].state # "good"
    <3>1. AdvanceWith(fresh) /\ UNCHANGED <<writer, open, fresh, cpc>>
      BY <1>3, <2>2 DEF ReadFile
    <3> QED
      BY <3>1, AdvanceTypes DEF GoroutineTypes
  <2> QED
    BY <2>1, <2>2
<1>4. ASSUME NEW i \in Databases, SwapSlot(i) PROVE GoroutineTypes'
  <2>1. /\ fresh' = [j \in DOMAIN fresh \ {i} |-> fresh[j]]
        /\ UNCHANGED <<writer, open, wpc, copy, cpc>>
    BY <1>4 DEF SwapSlot
  <2>2. DOMAIN fresh' \subseteq Databases /\ fresh' \in [DOMAIN fresh' -> Readers]
    BY <1>1, <2>1 DEF ProviderTypes
  <2>3. fresh' \in PartialFunctions(Databases, Readers)
    BY <2>2, PartialFunctionTypes
  <2> QED
    BY <2>1, <2>3 DEF GoroutineTypes
<1>5. CASE LockForSwap \/ UnlockAfterSwap \/ ResetCache \/ RetireReaders
  BY <1>5 DEF LockForSwap, UnlockAfterSwap, ResetCache, RetireReaders, providerVars,
              GoroutineTypes
<1> QED
  BY <1>2, <1>3, <1>4, <1>5 DEF RefreshStep

LEMMA NextGoroutines ==
    ProviderInv /\ GoroutineTypes /\ [Next]_vars => GoroutineTypes'
<1> SUFFICES ASSUME ProviderInv, GoroutineTypes, [Next]_vars PROVE GoroutineTypes'
  OBVIOUS
<1>1. ASSUME NEW p \in Requests,
             (\E k \in Keys : GetCached(p, k)) \/ RequestStep(p)
      PROVE  GoroutineTypes'
  BY <1>1 DEF GetCached, RequestStep, TakeSnapshot, LoadReader, WalkTree,
              ExtractValue, StoreResult, FinishRequest, providerVars, watchVars,
              GoroutineTypes
<1>2. CASE TickRefresh
  <2>1. copy' \in PartialFunctions(Databases, Readers)
    BY <1>2, ArrayIsPartial, EmptyIsPartial DEF TickRefresh, ProviderInv
  <2> QED
    BY <1>2, <2>1 DEF TickRefresh, providerVars, GoroutineTypes
<1>3. CASE StopWatching \/ CancelContext \/ FileStep
  BY <1>3 DEF StopWatching, CancelContext, FileStep, WriteFile, RemoveFile,
              providerVars, watchVars, GoroutineTypes
<1>4. CASE WakeUps \/ CloseStep
  BY <1>4 DEF WakeUps, CloseRetired, CloseStep, LockForClose, CloseInstalled,
              DropReaders, CloseReader, watchVars, GoroutineTypes
<1>5. CASE UNCHANGED vars
  BY <1>5 DEF vars, providerVars, watchVars, GoroutineTypes
<1> QED
  BY <1>1, <1>2, <1>3, <1>4, <1>5, RefreshTypes DEF Next

LEMMA InitGoroutines == Init => GoroutineTypes
<1> SUFFICES ASSUME Init PROVE GoroutineTypes
  OBVIOUS
<1>1. ProviderTypes
  BY InitProvider DEF ProviderInv
<1>2. open \subseteq Readers
  BY <1>1 DEF Init, ProviderTypes
<1> QED
  BY <1>2, EmptyIsPartial DEF Init, GoroutineTypes

LEMMA TypesCombined == ProviderTypes /\ GoroutineTypes /\ RequestTypes /\ CacheTypes
                       => TypeOK
<1> SUFFICES ASSUME ProviderTypes, GoroutineTypes, RequestTypes, CacheTypes
             PROVE  TypeOK
  OBVIOUS
<1>1. ASSUME NEW p \in Requests
      PROVE  /\ req[p].pc \in {"idle", "snapshot", "load", "tree", "extract",
                               "store", "answered", "aborted"}
             /\ req[p].key \in Keys
             /\ req[p].pos \in Databases
             /\ req[p].recs \in Seq(Records) /\ Len(req[p].recs) <= NumDatabases
             /\ req[p].field \in 1..(NumFields + 1)
             /\ req[p].out \in Results
             /\ {req[p].found, req[p].err, req[p].late} \subseteq BOOLEAN
  <2>1. req[p] \in RequestStates /\ LoopsBounded(req[p])
    BY DEF RequestTypes
  <2> QED
    BY <2>1 DEF RequestStates, LoopsBounded
<1> QED
  BY <1>1 DEF TypeOK, ProviderTypes, GoroutineTypes, CacheTypes

(* Every variable that the requests, the watcher and the teardown share keeps
   its type (provider.go 120-280, plugin.go 330-380). *)
THEOREM ServiceTypes == Spec => []TypeOK
<1>1. Spec => []GoroutineTypes
  BY InitGoroutines, NextGoroutines, ProviderInvariance, PTL DEF Spec
<1>2. ProviderInv /\ GoroutineTypes /\ RequestInv => TypeOK
  BY TypesCombined DEF ProviderInv, RequestInv
<1> QED
  BY <1>1, <1>2, ProviderInvariance, RequestInvariance, PTL

-----------------------------------------------------------------------------
(* Stale answers.  From the first slot overwritten to the reset, anything may
   be stale; otherwise, what is not marked late is of the releases in use. *)

CurrentFields(fields) ==
    \A f \in DOMAIN fields : fields[f].rel = array[fields[f].db].rel

CurrentRequest(r) ==
    r.pc \in {"snapshot", "load", "tree", "extract", "store"} /\ ~r.late =>
        /\ CurrentFields(r.out)
        /\ \A i \in 1..Len(r.recs) :
              r.recs[i].reader.rel = array[r.recs[i].reader.db].rel

CurrentEntry(e) == e.late \/ CurrentFields(e.fields)

AllCurrent ==
    /\ \A p \in Requests : CurrentRequest(req[p])
    /\ \A k, e : EntryAt(k, e) => CurrentEntry(e)

PromptInv == wpc \notin {"swap", "reset"} => AllCurrent

LEMMA BareCurrent ==
    ASSUME NEW s, s.pc \in {"idle", "answered", "aborted"}
                    \/ (s.recs = <<>> /\ s.out = Empty)
    PROVE  CurrentRequest(s)
BY EmptyIsPartial DEF CurrentRequest, CurrentFields

LEMMA LoadedCurrent ==
    ASSUME NEW r \in RequestStates, NEW s, Loaded(r, s), CurrentRequest(r), SlotsMatch
    PROVE  CurrentRequest(s)
<1> SUFFICES ASSUME ~s.late
             PROVE  /\ CurrentFields(s.out)
                    /\ \A i \in 1..Len(s.recs) :
                          s.recs[i].reader.rel = array[s.recs[i].reader.db].rel
  BY DEF CurrentRequest
<1>1. /\ CurrentFields(r.out)
      /\ \A i \in 1..Len(r.recs) :
            r.recs[i].reader.rel = array[r.recs[i].reader.db].rel
  BY DEF Loaded, CurrentRequest
<1>2. r.pos \in Databases /\ Len(r.recs) \in Nat
  BY RecordTypes
<1>3. /\ Len(s.recs) = Len(r.recs) + 1
      /\ \A i \in 1..Len(r.recs) : s.recs[i] = r.recs[i]
      /\ s.recs[Len(s.recs)].reader = array[r.pos]
      /\ s.out = r.out
  BY DEF Loaded
<1>4. ASSUME NEW i \in 1..Len(s.recs)
      PROVE  s.recs[i].reader.rel = array[s.recs[i].reader.db].rel
  <2>1. CASE i \in 1..Len(r.recs)
    BY <1>1, <1>3, <2>1
  <2>2. CASE i = Len(s.recs)
    BY <1>2, <1>3, <2>2 DEF SlotsMatch
  <2> QED
    BY <1>2, <1>3, <2>1, <2>2
<1> QED
  BY <1>1, <1>3, <1>4

LEMMA WalkedCurrent ==
    ASSUME NEW r \in RequestStates, NEW s, Walked(r, s), CurrentRequest(r)
    PROVE  CurrentRequest(s)
<1>1. Len(r.recs) \in Nat
  BY RecordTypes
<1>2. /\ r.pc = "tree" /\ s.late = r.late /\ s.out = r.out
      /\ Len(s.recs) \in {Len(r.recs), Len(r.recs) - 1}
      /\ \A i \in 1..Len(s.recs) : s.recs[i] = r.recs[i]
  BY DEF Walked
<1>3. \A i \in 1..Len(s.recs) : i \in 1..Len(r.recs)
  BY <1>1, <1>2
<1> QED
  BY <1>2, <1>3 DEF CurrentRequest

LEMMA AskedCurrent ==
    ASSUME NEW r \in RequestStates, NEW s, LoopsBounded(r), Asked(r, s),
           CurrentRequest(r)
    PROVE  CurrentRequest(s)
<1> SUFFICES ASSUME ~s.late
             PROVE  /\ CurrentFields(s.out)
                    /\ \A i \in 1..Len(s.recs) :
                          s.recs[i].reader.rel = array[s.recs[i].reader.db].rel
  BY DEF CurrentRequest
<1>1. /\ r.pc = "extract" /\ r.late = s.late
      /\ Len(s.recs) = Len(r.recs)
      /\ \A i \in 1..Len(r.recs) : s.recs[i].reader = r.recs[i].reader
      /\ Hit(r, s) \/ Miss(r, s)
  BY DEF Asked
<1>2. /\ CurrentFields(r.out)
      /\ \A i \in 1..Len(r.recs) :
            r.recs[i].reader.rel = array[r.recs[i].reader.db].rel
  BY <1>1 DEF CurrentRequest
<1>3. r.pos \in 1..Len(r.recs)
  BY <1>1, RecordTypes DEF LoopsBounded, Databases
<1>4. ASSUME NEW f \in DOMAIN s.out PROVE s.out[f].rel = array[s.out[f].db].rel
  <2>1. CASE Hit(r, s) /\ f = r.field
    <3>1. s.out[f] = ValueOf(r.recs[r.pos].reader)
      BY <2>1 DEF Hit
    <3> QED
      BY <1>2, <1>3, <3>1 DEF ValueOf
  <2>2. CASE f \in DOMAIN r.out /\ s.out[f] = r.out[f]
    BY <1>2, <2>2 DEF CurrentFields
  <2> QED
    BY <1>1, <1>4, <2>1, <2>2 DEF Hit, Miss
<1> QED
  BY <1>1, <1>2, <1>4 DEF CurrentFields

(* Outside the swap the array stands still, and only the reset ends the time
   in which stale answers are allowed. *)
LEMMA PromptSteps ==
    ASSUME [Next]_vars, wpc' \notin {"swap", "reset"}, ~ResetCache
    PROVE  array' = array /\ wpc \notin {"swap", "reset"}
<1>1. CASE RefreshStep
  BY <1>1 DEF RefreshStep, CheckReader, StatFile, ReadFile, LockForSwap, SwapSlot,
              UnlockAfterSwap, RetireReaders, providerVars
<1>2. CASE FileStep \/ TickRefresh \/ StopWatching \/ CancelContext
  BY <1>2 DEF FileStep, WriteFile, RemoveFile, TickRefresh, StopWatching,
              CancelContext, providerVars, watchVars
<1>3. CASE WakeUps \/ CloseStep
  BY <1>3 DEF WakeUps, CloseRetired, CloseStep, LockForClose, CloseInstalled,
              DropReaders, watchVars
<1>4. ASSUME NEW p \in Requests,
             (\E k \in Keys : GetCached(p, k)) \/ RequestStep(p)
      PROVE  array' = array /\ wpc' = wpc
  BY <1>4 DEF GetCached, RequestStep, TakeSnapshot, LoadReader, WalkTree,
              ExtractValue, StoreResult, FinishRequest, providerVars, watchVars
<1>5. CASE UNCHANGED vars
  BY <1>5 DEF vars, providerVars, watchVars
<1> QED
  BY <1>1, <1>2, <1>3, <1>4, <1>5 DEF Next

LEMMA NextPrompt ==
    ProviderInv /\ RequestInv /\ PromptInv /\ [Next]_vars => PromptInv'
<1> SUFFICES ASSUME ProviderInv, RequestInv, PromptInv, [Next]_vars,
                    wpc' \notin {"swap", "reset"}
             PROVE  AllCurrent'
  BY DEF PromptInv
<1>1. RequestTypes /\ CacheTypes /\ ProviderTypes /\ SlotsMatch
  BY DEF RequestInv, ProviderInv
<1>2. CASE ResetCache
  <2>1. /\ \A k, e : ~EntryAt(k, e)'
        /\ \A p \in Requests : Marked(req[p], req'[p])
    BY <1>1, <1>2, ResetCacheEffect
  <2>2. \A p \in Requests : CurrentRequest(req[p])'
    BY <2>1 DEF Marked, CurrentRequest
  <2> QED
    BY <2>1, <2>2 DEF AllCurrent
<1>3. CASE ~ResetCache
  <2>1. array' = array /\ AllCurrent
    BY <1>3, PromptSteps DEF PromptInv
  <2>2. ASSUME \A p \in Requests : CurrentRequest(req'[p]),
               \A k, e : EntryAt(k, e)' => CurrentEntry(e)
        PROVE  AllCurrent'
    <3>1. \A p \in Requests : CurrentRequest(req[p])'
      BY <2>1, <2>2 DEF CurrentRequest, CurrentFields
    <3>2. \A k, e : EntryAt(k, e)' => CurrentEntry(e)'
      BY <2>1, <2>2 DEF CurrentEntry, CurrentFields
    <3> QED
      BY <3>1, <3>2 DEF AllCurrent
  <2>3. ASSUME NEW p \in Requests, OnlyRequest(p), CurrentRequest(req'[p])
        PROVE  \A q \in Requests : CurrentRequest(req'[q])
    BY <2>1, <2>3 DEF OnlyRequest, AllCurrent
  <2>4. ASSUME UNCHANGED <<current, previous>>
        PROVE  \A k, e : EntryAt(k, e)' => CurrentEntry(e)
    BY <2>1, <2>4 DEF EntryAt, AllCurrent
  <2>5. ASSUME NEW p \in Requests, NEW k \in Keys, GetCached(p, k) PROVE AllCurrent'
    <3>1. Started(req'[p], k) /\ OnlyRequest(p)
      BY <1>1, <2>5, GetCachedEffect
    <3>2. CurrentRequest(req'[p])
      BY <3>1, BareCurrent DEF Started
    <3>3. UNCHANGED <<current, previous>>
      BY <2>5 DEF GetCached, cacheVars
    <3> QED
      BY <2>2, <2>3, <2>4, <3>1, <3>2, <3>3
  <2>6. ASSUME NEW p \in Requests, RequestStep(p) PROVE AllCurrent'
    <3>1. req[p] \in RequestStates /\ LoopsBounded(req[p]) /\ CurrentRequest(req[p])
      BY <1>1, <2>1 DEF RequestTypes, AllCurrent
    <3>2. CASE TakeSnapshot(p)
      <4>1. Began(req[p], req'[p]) /\ OnlyRequest(p)
        BY <1>1, <3>2, TakeSnapshotEffect
      <4>2. CurrentRequest(req'[p])
        BY <3>1, <4>1 DEF Began, CurrentRequest
      <4>3. UNCHANGED <<current, previous>>
        BY <3>2 DEF TakeSnapshot, cacheVars
      <4> QED
        BY <2>2, <2>3, <2>4, <4>1, <4>2, <4>3
    <3>3. CASE LoadReader(p)
      <4>1. Loaded(req[p], req'[p]) /\ OnlyRequest(p)
        BY <1>1, <3>3, LoadReaderEffect
      <4>2. CurrentRequest(req'[p])
        BY <1>1, <3>1, <4>1, LoadedCurrent
      <4>3. UNCHANGED <<current, previous>>
        BY <3>3 DEF LoadReader, cacheVars
      <4> QED
        BY <2>2, <2>3, <2>4, <4>1, <4>2, <4>3
    <3>4. CASE WalkTree(p)
      <4>1. Walked(req[p], req'[p]) /\ OnlyRequest(p)
        BY <1>1, <3>4, WalkTreeEffect
      <4>2. CurrentRequest(req'[p])
        BY <3>1, <4>1, WalkedCurrent
      <4>3. UNCHANGED <<current, previous>>
        BY <3>4 DEF WalkTree, cacheVars
      <4> QED
        BY <2>2, <2>3, <2>4, <4>1, <4>2, <4>3
    <3>5. CASE ExtractValue(p)
      <4>1. Asked(req[p], req'[p]) /\ OnlyRequest(p)
        BY <1>1, <3>5, ExtractValueEffect
      <4>2. CurrentRequest(req'[p])
        BY <3>1, <4>1, AskedCurrent
      <4>3. UNCHANGED <<current, previous>>
        BY <3>5 DEF ExtractValue, cacheVars
      <4> QED
        BY <2>2, <2>3, <2>4, <4>1, <4>2, <4>3
    <3>6. CASE StoreResult(p)
      <4>1. /\ Stored(req[p], req'[p]) /\ OnlyRequest(p)
            /\ \A k, e : EntryAt(k, e)' =>
                  \/ EntryAt(k, e)
                  \/ ~req[p].err /\ k = req[p].key /\ e = ResultOf(req[p])
        BY <1>1, <3>6, StoreResultEffect
      <4>2. CurrentRequest(req'[p])
        BY <4>1, BareCurrent DEF Stored
      <4>3. CurrentEntry(ResultOf(req[p]))
        BY <3>1, <4>1 DEF Stored, CurrentRequest, CurrentEntry, ResultOf
      <4>4. \A k, e : EntryAt(k, e)' => CurrentEntry(e)
        BY <2>1, <4>1, <4>3 DEF AllCurrent
      <4> QED
        BY <2>2, <2>3, <4>1, <4>2, <4>4
    <3>7. CASE FinishRequest(p)
      <4>1. req'[p] = IdleRequest /\ OnlyRequest(p)
        BY <1>1, <3>7, FinishRequestEffect
      <4>2. CurrentRequest(req'[p])
        BY <4>1, IdleTypes, BareCurrent
      <4>3. UNCHANGED <<current, previous>>
        BY <3>7 DEF FinishRequest, cacheVars
      <4> QED
        BY <2>2, <2>3, <2>4, <4>1, <4>2, <4>3
    <3> QED
      BY <2>6, <3>2, <3>3, <3>4, <3>5, <3>6, <3>7 DEF RequestStep
  <2>7. ASSUME NEW reader, CloseReader(reader), UNCHANGED cacheVars PROVE AllCurrent'
    <3>1. \A p \in Requests : req'[p] = req[p] \/ Aborted(req'[p])
      BY <1>1, <2>7, CloseReaderEffect
    <3>2. \A p \in Requests : CurrentRequest(req'[p])
      BY <2>1, <3>1, BareCurrent DEF Aborted, AllCurrent
    <3> QED
      BY <2>2, <2>4, <2>7, <3>2 DEF cacheVars
  <2>8. CASE UNCHANGED <<req, current, previous>>
    BY <2>1, <2>2, <2>4, <2>8 DEF AllCurrent
  <2> QED
    BY <1>3, <2>5, <2>6, <2>7, <2>8, StepKinds
<1> QED
  BY <1>2, <1>3

LEMMA InitPrompt == Init => PromptInv
<1> SUFFICES ASSUME Init PROVE AllCurrent
  BY DEF PromptInv
<1>1. \A k, e : ~EntryAt(k, e)
  BY DEF Init, CacheInit, EmptyGeneration, EntryAt
<1>2. \A p \in Requests : CurrentRequest(req[p])
  BY IdleTypes, BareCurrent DEF Init
<1> QED
  BY <1>1, <1>2 DEF AllCurrent

(* Between refreshes the cache holds nothing of a replaced release but what
   lookups stored that were in flight at the reset, for any interleaving
   (provider.go 255-265, cache.go 73-81). *)
THEOREM CacheIsPrompt == Spec => []CacheCurrentIfPrompt
<1>1. PromptInv => CacheCurrentIfPrompt
  <2> SUFFICES ASSUME PromptInv, wpc = "wait", NEW k \in Keys, Cached(k)
               PROVE  EntryOf(k).late \/ IsCurrent(EntryOf(k))
    BY DEF CacheCurrentIfPrompt
  <2>1. EntryAt(k, EntryOf(k))
    BY DEF Cached, EntryOf, EntryAt
  <2>2. CurrentEntry(EntryOf(k))
    BY <2>1 DEF PromptInv, AllCurrent
  <2> QED
    BY <2>2 DEF CurrentEntry, CurrentFields, IsCurrent
<1>2. Spec => []PromptInv
  BY InitPrompt, NextPrompt, ProviderInvariance, RequestInvariance, PTL DEF Spec
<1> QED
  BY <1>1, <1>2, PTL

-----------------------------------------------------------------------------
(* Reloads without a teardown, under the assumption that the 5 seconds grant:
   no lookup holds a reader for longer.  A request's readers stay open. *)

UndisturbedRequest(r) ==
    /\ ~r.err /\ r.pc # "aborted"
    /\ \A i \in 1..Len(r.recs) : r.recs[i].reader \in open

Undisturbed ==
    /\ cpc = "up"
    /\ \A p \in Requests : UndisturbedRequest(req[p])

LEMMA UndisturbedStep ==
    ASSUME RequestTypes, ProviderInv, Undisturbed, NEW p \in Requests, RequestStep(p)
    PROVE  UndisturbedRequest(req'[p]) /\ OnlyRequest(p)
<1> DEFINE r == req[p]
           s == req'[p]
<1>1. ProviderTypes /\ \A d \in Databases : array[d] \in open
  BY DEF ProviderInv, InstalledOpen, Undisturbed
<1>2. r \in RequestStates /\ LoopsBounded(r) /\ UndisturbedRequest(r)
  BY DEF RequestTypes, Undisturbed
<1>3. Len(r.recs) \in Nat /\ r.pos \in Databases
  BY <1>2, RecordTypes
<1>4. CASE TakeSnapshot(p)
  <2>1. Began(r, s) /\ OnlyRequest(p)
    BY <1>4, TakeSnapshotEffect
  <2> QED
    BY <1>2, <2>1 DEF Began, UndisturbedRequest
<1>5. CASE LoadReader(p)
  <2>1. Loaded(r, s) /\ OnlyRequest(p)
    BY <1>1, <1>5, LoadReaderEffect
  <2>2. /\ Len(s.recs) = Len(r.recs) + 1
        /\ \A i \in 1..Len(r.recs) : s.recs[i] = r.recs[i]
        /\ s.recs[Len(s.recs)].reader = array[r.pos]
        /\ s.err = r.err /\ s.pc = "tree"
    BY <2>1 DEF Loaded
  <2>3. ASSUME NEW i \in 1..Len(s.recs) PROVE s.recs[i].reader \in open
    <3>1. CASE i \in 1..Len(r.recs)
      BY <1>2, <2>2, <3>1 DEF UndisturbedRequest
    <3>2. CASE i = Len(s.recs)
      BY <1>1, <1>3, <2>2, <3>2
    <3> QED
      BY <1>3, <2>2, <3>1, <3>2
  <2> QED
    BY <1>2, <2>1, <2>2, <2>3 DEF UndisturbedRequest
<1>6. CASE WalkTree(p)
  <2>1. Walked(r, s) /\ OnlyRequest(p)
    BY <1>6, WalkTreeEffect
  <2>2. /\ Len(r.recs) > 0
        /\ Len(s.recs) \in {Len(r.recs), Len(r.recs) - 1}
        /\ \A i \in 1..Len(s.recs) : s.recs[i] = r.recs[i]
        /\ s.pc \in {"load", "store", "extract"}
    BY <2>1 DEF Walked
  <2>3. \A i \in 1..Len(s.recs) : i \in 1..Len(r.recs)
    BY <1>3, <2>2
  <2>4. r.recs[Len(r.recs)].reader \in open
    BY <1>2, <1>3, <2>2 DEF UndisturbedRequest
  <2>5. ~s.err
    BY <1>2, <2>1, <2>4 DEF Walked, UndisturbedRequest
  <2> QED
    BY <1>2, <2>1, <2>2, <2>3, <2>5 DEF UndisturbedRequest
<1>7. CASE ExtractValue(p)
  <2>1. Asked(r, s) /\ OnlyRequest(p)
    BY <1>7, ExtractValueEffect
  <2>2. /\ Len(s.recs) = Len(r.recs)
        /\ \A i \in 1..Len(r.recs) : s.recs[i].reader = r.recs[i].reader
        /\ s.pc \in {"store", "extract"} /\ s.err = r.err
    BY <2>1 DEF Asked, Hit, Miss, NextField
  <2> QED
    BY <1>2, <2>1, <2>2 DEF UndisturbedRequest
<1>8. CASE StoreResult(p)
  <2>1. s.pc = "answered" /\ s.recs = <<>> /\ s.err = r.err /\ OnlyRequest(p)
    <3> DEFINE t == [r EXCEPT !.pc = "answered", !.pos = 1, !.field = 1, !.recs = <<>>]
    <3>1. req' = [req EXCEPT ![p] = t]
      BY <1>8 DEF StoreResult
    <3>2. t.pc = "answered" /\ t.recs = <<>> /\ t.err = r.err
      BY <1>2 DEF RequestStates
    <3> HIDE DEF t
    <3> QED
      BY <3>1, <3>2, RequestReplaced
  <2> QED
    BY <1>2, <2>1 DEF UndisturbedRequest
<1>9. CASE FinishRequest(p)
  BY <1>9, FinishRequestEffect, IdleTypes DEF UndisturbedRequest
<1> QED
  BY <1>4, <1>5, <1>6, <1>7, <1>8, <1>9 DEF RequestStep

LEMMA NextUndisturbed ==
    ASSUME GraceCoversLookups, ~TeardownPossible
    PROVE  ProviderInv /\ RequestInv /\ Undisturbed /\ [Next]_vars => Undisturbed'
<1> SUFFICES ASSUME ProviderInv, RequestInv, Undisturbed, [Next]_vars
             PROVE  Undisturbed'
  OBVIOUS
<1>1. RequestTypes /\ CacheTypes /\ cpc = "up"
  BY DEF RequestInv, Undisturbed
<1>2. ASSUME cpc' = cpc, open \subseteq open', req' = req PROVE Undisturbed'
  BY <1>2 DEF Undisturbed, UndisturbedRequest
<1>3. ASSUME cpc' = cpc, open' = open, NEW p \in Requests, OnlyRequest(p),
             UndisturbedRequest(req'[p])
      PROVE  Undisturbed'
  <2>1. \A q \in Requests : UndisturbedRequest(req'[q])
    BY <1>3 DEF OnlyRequest, Undisturbed
  <2> QED
    BY <1>1, <1>3, <2>1 DEF Undisturbed, UndisturbedRequest
<1>4. ASSUME NEW p \in Requests, RequestStep(p) PROVE Undisturbed'
  <2>1. cpc' = cpc /\ open' = open
    BY <1>4 DEF RequestStep, TakeSnapshot, LoadReader, WalkTree, ExtractValue,
                StoreResult, FinishRequest, providerVars
  <2>2. UndisturbedRequest(req'[p]) /\ OnlyRequest(p)
    BY <1>1, <1>4, UndisturbedStep
  <2> QED
    BY <1>3, <2>1, <2>2
<1>5. ASSUME NEW p \in Requests, NEW k \in Keys, GetCached(p, k) PROVE Undisturbed'
  <2>1. cpc' = cpc /\ open' = open
    BY <1>5 DEF GetCached, providerVars
  <2>2. Started(req'[p], k) /\ OnlyRequest(p)
    BY <1>1, <1>5, GetCachedEffect
  <2>3. UndisturbedRequest(req'[p])
    BY <2>2 DEF Started, UndisturbedRequest
  <2> QED
    BY <1>3, <2>1, <2>2, <2>3
<1>6. ASSUME NEW reader \in sleeping, CloseRetired(reader) PROVE Undisturbed'
  <2>1. /\ cpc' = cpc /\ open' = open \ {reader} /\ CloseReader(reader)
        /\ \A p \in Requests : ~Holds(p, reader)
    BY <1>6 DEF CloseRetired, CloseReader
  <2>2. \A p \in Requests : req'[p] = req[p]
    BY <1>1, <2>1, CloseReaderEffect
  <2>3. ASSUME NEW p \in Requests, NEW i \in 1..Len(req[p].recs)
        PROVE  req[p].recs[i].reader # reader
    <3>1. req[p].recs \in Seq(Records)
      BY <1>1 DEF RequestTypes, RequestStates
    <3>2. i \in DOMAIN req[p].recs
      BY <3>1
    <3> QED
      BY <2>1, <3>2 DEF Holds
  <2> QED
    BY <2>1, <2>2, <2>3 DEF Undisturbed, UndisturbedRequest
<1>7. CASE ResetCache
  <2>1. \A p \in Requests : Marked(req[p], req'[p])
    BY <1>1, <1>7, ResetCacheEffect
  <2>2. cpc' = cpc /\ open' = open
    BY <1>7 DEF ResetCache, providerVars
  <2>3. \A p \in Requests : UndisturbedRequest(req'[p])
    BY <2>1 DEF Marked, Undisturbed, UndisturbedRequest
  <2> QED
    BY <1>1, <2>2, <2>3 DEF Undisturbed, UndisturbedRequest
<1>8. CASE RefreshStep /\ ~ResetCache
  <2>1. cpc' = cpc /\ req' = req /\ open \subseteq open'
    BY <1>8 DEF RefreshStep, CheckReader, StatFile, ReadFile, LockForSwap, SwapSlot,
                UnlockAfterSwap, RetireReaders, providerVars
  <2> QED
    BY <1>2, <2>1
<1>9. CASE FileStep \/ TickRefresh \/ StopWatching
  <2>1. cpc' = cpc /\ req' = req /\ open' = open
    BY <1>9 DEF FileStep, WriteFile, RemoveFile, TickRefresh, StopWatching,
                providerVars
  <2> QED
    BY <1>2, <2>1
<1>10. ~CancelContext /\ ~CloseStep
  BY <1>1 DEF CancelContext, CloseStep, LockForClose, CloseInstalled, DropReaders
<1>11. CASE UNCHANGED vars
  BY <1>2, <1>11 DEF vars, providerVars
<1> QED
  BY <1>4, <1>5, <1>6, <1>7, <1>8, <1>9, <1>10, <1>11 DEF Next, WakeUps

LEMMA UndisturbedInvariance ==
    ASSUME GraceCoversLookups, ~TeardownPossible
    PROVE  Spec => []Undisturbed
<1>1. Init => Undisturbed
  BY IdleTypes DEF Init, Undisturbed, UndisturbedRequest
<1>2. ProviderInv /\ RequestInv /\ Undisturbed /\ [Next]_vars => Undisturbed'
  BY NextUndisturbed
<1> QED
  BY <1>1, <1>2, ProviderInvariance, RequestInvariance, PTL DEF Spec

(* A reload makes no request fail, with any number of databases and requests
   and although reads of the data section may fail: it is enough that lookups
   end within the 5 seconds and that there is no teardown (provider.go 172-196,
   267-275). *)
THEOREM ReloadsFailNoRequest ==
    ASSUME GraceCoversLookups, ~TeardownPossible
    PROVE  Spec => []NoFailedRequests
<1>1. Undisturbed => NoFailedRequests
  BY DEF Undisturbed, UndisturbedRequest, NoFailedRequests
<1> QED
  BY <1>1, UndisturbedInvariance, PTL

-----------------------------------------------------------------------------
(* The layering of the databases.  While nothing fails, the records are those
   of exactly the covering databases, in their order, and the fields before
   the one in turn are settled as the layering says. *)

First(k, fields) ==
    \A f \in DOMAIN fields : \A d \in Suppliers(k, f) : fields[f].db <= d

Layered(k, fields, found) ==
    /\ found <=> Covered(k)
    /\ Complete(k, fields)
    /\ First(k, fields)

Supplied(k, n) == {f \in 1..n : Suppliers(k, f) # {}}

LayeredSoFar(r) ==
    /\ \A d \in Databases :
          <<d, r.key>> \in Covers <=> \E i \in 1..Len(r.recs) : r.recs[i].reader.db = d
    /\ DOMAIN r.out = Supplied(r.key, r.field - 1)
    /\ First(r.key, r.out)
    /\ \A i \in 1..(r.pos - 1) : <<r.recs[i].reader.db, r.field>> \notin Carries

LayeredRequest(r) ==
    /\ \A i \in 1..Len(r.recs) : r.recs[i].state # "failed"
    /\ r.pc = "load" => \A i \in 1..Len(r.recs) :
          <<r.recs[i].reader.db, r.key>> \in Covers
    /\ r.pc = "tree" => \A i \in 1..(Len(r.recs) - 1) :
          <<r.recs[i].reader.db, r.key>> \in Covers
    /\ r.pc = "extract" => LayeredSoFar(r)
    /\ r.pc \in {"store", "answered"} => Layered(r.key, r.out, r.found)

LayerInv ==
    /\ \A p \in Requests : LayeredRequest(req[p])
    /\ \A k, e : EntryAt(k, e) => Layered(k, e.fields, e.found)

LEMMA LoadedLayered ==
    ASSUME NEW r \in RequestStates, NEW s, Loaded(r, s), LayeredRequest(r)
    PROVE  LayeredRequest(s)
<1>1. Len(r.recs) \in Nat
  BY RecordTypes
<1>2. /\ r.pc = "load" /\ s.pc = "tree" /\ s.key = r.key
      /\ Len(s.recs) = Len(r.recs) + 1
      /\ \A i \in 1..Len(r.recs) : s.recs[i] = r.recs[i]
      /\ s.recs[Len(s.recs)].state = "unread"
  BY DEF Loaded
<1>3. ASSUME NEW i \in 1..Len(s.recs) PROVE s.recs[i].state # "failed"
  <2>1. CASE i \in 1..Len(r.recs)
    BY <1>2, <2>1 DEF LayeredRequest
  <2>2. CASE i = Len(s.recs)
    BY <1>2, <2>2
  <2> QED
    BY <1>1, <1>2, <2>1, <2>2
<1>4. ASSUME NEW i \in 1..(Len(s.recs) - 1)
      PROVE  <<s.recs[i].reader.db, s.key>> \in Covers
  <2>1. i \in 1..Len(r.recs)
    BY <1>1, <1>2
  <2> QED
    BY <1>2, <2>1 DEF LayeredRequest
<1> QED
  BY <1>2, <1>3, <1>4 DEF LayeredRequest

LEMMA WalkedLayered ==
    ASSUME NEW r \in RequestStates, NEW s, Walked(r, s), SoundRequest(r), ~s.err,
           LayeredRequest(r)
    PROVE  LayeredRequest(s)
<1> DEFINE n == Len(r.recs)
           reader == r.recs[n].reader
<1>1. ReadersOrdered(r) /\ NothingMissed(r) /\ ValuesHeld(r)
  BY DEF SoundRequest
<1>2. /\ n \in Nat /\ r.pos \in Databases
      /\ \A i \in 1..n : r.recs[i].reader.db \in Databases
  BY RecordTypes
<1>3. /\ r.pc = "tree" /\ n > 0 /\ s.key = r.key /\ s.out = r.out /\ s.field = 1
      /\ Len(s.recs) = IF reader \in open /\ <<reader.db, r.key>> \in Covers
                       THEN n ELSE n - 1
      /\ \A i \in 1..Len(s.recs) : s.recs[i] = r.recs[i]
      /\ s.found <=> Len(s.recs) # 0
  BY DEF Walked
<1>4. /\ s.pc \in {"load", "store", "extract"}
      /\ s.pc # "load" => r.pos = NumDatabases /\ s.pos = 1
      /\ s.pc = "store" => Len(s.recs) = 0 \/ NumFields = 0
  BY DEF Walked
<1>5. Len(s.recs) \in Nat /\ \A i \in 1..Len(s.recs) : i \in 1..n
  BY <1>2, <1>3
<1>6. \A i \in 1..Len(s.recs) : s.recs[i].state # "failed"
  BY <1>3, <1>5 DEF LayeredRequest
<1>7. ASSUME NEW i \in 1..Len(s.recs)
      PROVE  <<s.recs[i].reader.db, s.key>> \in Covers
  <2>1. CASE i = n
    <3>1. <<reader.db, r.key>> \in Covers
      BY <1>2, <1>3, <2>1
    <3> QED
      BY <1>3, <2>1, <3>1
  <2>2. CASE i # n
    <3>1. i \in 1..(n - 1)
      BY <1>2, <1>5, <2>2
    <3> QED
      BY <1>3, <3>1 DEF LayeredRequest
  <2> QED
    BY <2>1, <2>2
<1>8. s.out = Empty /\ DOMAIN s.out = {}
  BY <1>1, <1>3, EmptyIsPartial DEF ValuesHeld
<1>9. First(s.key, s.out)
  BY <1>8 DEF First
<1>10. CASE s.pc = "load"
  BY <1>6, <1>7, <1>10 DEF LayeredRequest
<1>11. CASE s.pc \in {"store", "extract"}
  <2>1. \A d \in Databases : d <= r.pos
    BY <1>4, <1>11, ServiceAssumption DEF Databases
  <2>2. \A d \in Databases : <<d, r.key>> \in Covers =>
            \E i \in 1..Len(s.recs) : s.recs[i].reader.db = d
    BY <1>1, <2>1, WalkedHasAll
  <2>3. \A i \in 1..Len(s.recs) : s.recs[i].reader.db \in Databases
    BY <1>2, <1>3, <1>5
  <2>4. \A d \in Databases : <<d, s.key>> \in Covers <=>
            \E i \in 1..Len(s.recs) : s.recs[i].reader.db = d
    BY <1>3, <1>7, <2>2
  <2>5. CASE s.pc = "extract"
    <3>1. DOMAIN s.out = Supplied(s.key, s.field - 1)
      BY <1>3, <1>8 DEF Supplied
    <3>2. 1..(s.pos - 1) = {}
      BY <1>4, <2>5
    <3>3. LayeredSoFar(s)
      BY <1>9, <2>4, <3>1, <3>2 DEF LayeredSoFar
    <3> QED
      BY <1>6, <2>5, <3>3 DEF LayeredRequest
  <2>6. CASE s.pc = "store"
    <3>1. Len(s.recs) = 0 => \A d \in Databases : <<d, s.key>> \notin Covers
      <4> SUFFICES ASSUME Len(s.recs) = 0, NEW d \in Databases, <<d, s.key>> \in Covers
                   PROVE  FALSE
        OBVIOUS
      <4>1. PICK i \in 1..Len(s.recs) : s.recs[i].reader.db = d
        BY <2>4
      <4> QED
        BY <4>1
    <3>2. s.found <=> Covered(s.key)
      <4>1. CASE Len(s.recs) = 0
        BY <1>3, <3>1, <4>1 DEF Covered
      <4>2. CASE Len(s.recs) # 0
        <5>1. 1 \in 1..Len(s.recs)
          BY <1>5, <4>2
        <5> QED
          BY <1>3, <1>7, <2>3, <4>2, <5>1 DEF Covered
      <4> QED
        BY <4>1, <4>2
    <3>3. {f \in Fields : Suppliers(s.key, f) # {}} = {}
      <4>1. CASE Len(s.recs) = 0
        BY <3>1, <4>1 DEF Suppliers
      <4>2. CASE NumFields = 0
        BY <4>2 DEF Fields
      <4> QED
        BY <1>4, <2>6, <4>1, <4>2
    <3>4. Complete(s.key, s.out)
      BY <1>8, <3>3 DEF Complete
    <3>5. Layered(s.key, s.out, s.found)
      BY <1>9, <3>2, <3>4 DEF Layered
    <3> QED
      BY <1>6, <2>6, <3>5 DEF LayeredRequest
  <2> QED
    BY <1>11, <2>5, <2>6
<1> QED
  BY <1>4, <1>10, <1>11

(* The first record that carries the field is of its first supplier. *)
LEMMA HitIsFirst ==
    ASSUME NEW r \in RequestStates, ReadersOrdered(r), LayeredSoFar(r),
           r.pos \in 1..Len(r.recs),
           <<r.recs[r.pos].reader.db, r.field>> \in Carries
    PROVE  /\ r.recs[r.pos].reader.db \in Suppliers(r.key, r.field)
           /\ \A d \in Suppliers(r.key, r.field) : r.recs[r.pos].reader.db <= d
<1> DEFINE db(i) == r.recs[i].reader.db
<1>1. /\ Len(r.recs) \in Nat
      /\ \A i \in 1..Len(r.recs) : db(i) \in Databases /\ db(i) \in Nat
  BY RecordTypes
<1>2. db(r.pos) \in Suppliers(r.key, r.field)
  <2>1. <<db(r.pos), r.key>> \in Covers
    BY <1>1 DEF LayeredSoFar
  <2> QED
    BY <1>1, <2>1 DEF Suppliers
<1>3. ASSUME NEW d \in Suppliers(r.key, r.field) PROVE db(r.pos) <= d
  <2>1. d \in Databases /\ <<d, r.key>> \in Covers /\ <<d, r.field>> \in Carries
    BY DEF Suppliers
  <2>2. PICK j \in 1..Len(r.recs) : db(j) = d
    BY <2>1 DEF LayeredSoFar
  <2>3. j \notin 1..(r.pos - 1)
    BY <2>1, <2>2 DEF LayeredSoFar
  <2>4. CASE j = r.pos
    BY <1>1, <2>2, <2>4
  <2>5. CASE r.pos < j
    <3>1. db(r.pos) < db(j)
      BY <2>5 DEF ReadersOrdered
    <3> QED
      BY <1>1, <2>2, <3>1
  <2> QED
    BY <1>1, <2>3, <2>4, <2>5
<1> QED
  BY <1>2, <1>3

LEMMA SuppliedNext ==
    ASSUME NEW k, NEW n \in Nat \ {0}
    PROVE  Supplied(k, n) = IF Suppliers(k, n) = {} THEN Supplied(k, n - 1)
                            ELSE Supplied(k, n - 1) \cup {n}
<1>1. \A f : f \in 1..n <=> f \in 1..(n - 1) \/ f = n
  OBVIOUS
<1> HIDE DEF Suppliers
<1> QED
  BY <1>1 DEF Supplied

LEMMA AskedLayered ==
    ASSUME NEW r \in RequestStates, NEW s, ~IOFaults, LoopsBounded(r), Asked(r, s),
           SoundRequest(r), UndisturbedRequest(r), LayeredRequest(r)
    PROVE  LayeredRequest(s)
<1> DEFINE db(i) == r.recs[i].reader.db
<1>1. /\ r.pc = "extract" /\ s.key = r.key /\ s.found = r.found
      /\ Len(s.recs) = Len(r.recs)
      /\ \A i \in 1..Len(r.recs) : s.recs[i].reader = r.recs[i].reader
  BY DEF Asked
<1>2. /\ ReadersOrdered(r) /\ LayeredSoFar(r) /\ r.found
  BY <1>1 DEF SoundRequest, NothingMissed, LayeredRequest
<1>3. /\ Len(r.recs) \in Nat /\ r.pos \in 1..Len(r.recs)
      /\ r.field \in 1..NumFields /\ r.field \in Nat \ {0}
      /\ \A i \in 1..Len(r.recs) : db(i) \in Databases
  <2>1. /\ Len(r.recs) \in Nat /\ r.pos \in Databases
        /\ \A i \in 1..Len(r.recs) : db(i) \in Databases
    BY RecordTypes
  <2>2. r.pos <= Len(r.recs) /\ r.field \in 1..NumFields
    BY <1>1 DEF LoopsBounded, Fields
  <2> QED
    BY <2>1, <2>2, ServiceAssumption DEF Databases
<1>4. \A i \in 1..Len(r.recs) : Readable(r.recs[i])
  BY DEF Readable, UndisturbedRequest, LayeredRequest
<1>5. \A i \in 1..Len(s.recs) : s.recs[i].state # "failed"
  BY <1>1, <1>4 DEF Asked
<1>6. \A d \in Databases : <<d, s.key>> \in Covers <=>
          \E i \in 1..Len(s.recs) : s.recs[i].reader.db = d
  BY <1>1, <1>2 DEF LayeredSoFar
<1>7. Covered(s.key)
  BY <1>1, <1>2, <1>3 DEF LayeredSoFar, Covered
(* After its last turn a field is settled. *)
<1>8. ASSUME NextField(r, s), DOMAIN s.out = Supplied(r.key, r.field),
             First(r.key, s.out)
      PROVE  LayeredRequest(s)
  <2>1. CASE r.field = NumFields
    <3>1. s.pc = "store"
      BY <1>8, <2>1 DEF NextField
    <3>2. Complete(s.key, s.out)
      BY <1>1, <1>8, <2>1 DEF Complete, Supplied, Fields
    <3>3. Layered(s.key, s.out, s.found)
      BY <1>1, <1>2, <1>7, <1>8, <3>2 DEF Layered
    <3> QED
      BY <1>5, <3>1, <3>3 DEF LayeredRequest
  <2>2. CASE r.field # NumFields
    <3>1. s.pc = "extract" /\ s.pos = 1 /\ s.field = r.field + 1
      BY <1>8, <2>2 DEF NextField
    <3>2. s.field - 1 = r.field /\ 1..(s.pos - 1) = {}
      BY <1>3, <3>1
    <3>3. LayeredSoFar(s)
      BY <1>1, <1>6, <1>8, <3>2 DEF LayeredSoFar
    <3> QED
      BY <1>5, <3>1, <3>3 DEF LayeredRequest
  <2> QED
    BY <2>1, <2>2
<1>9. CASE Hit(r, s)
  <2>1. /\ NextField(r, s) /\ <<db(r.pos), r.field>> \in Carries
        /\ DOMAIN s.out = DOMAIN r.out \cup {r.field}
        /\ s.out[r.field].db = db(r.pos)
        /\ \A f \in DOMAIN r.out : f # r.field => s.out[f] = r.out[f]
    BY <1>9 DEF Hit, ValueOf
  <2>2. /\ db(r.pos) \in Suppliers(r.key, r.field)
        /\ \A d \in Suppliers(r.key, r.field) : db(r.pos) <= d
    BY <1>2, <1>3, <2>1, HitIsFirst
  <2>3. DOMAIN s.out = Supplied(r.key, r.field)
    BY <1>2, <1>3, <2>1, <2>2, SuppliedNext DEF LayeredSoFar
  <2>4. First(r.key, s.out)
    <3> SUFFICES ASSUME NEW f \in DOMAIN s.out, NEW d \in Suppliers(r.key, f)
                 PROVE  s.out[f].db <= d
      BY DEF First
    <3>1. CASE f = r.field
      BY <2>1, <2>2, <3>1
    <3>2. CASE f # r.field
      BY <1>2, <2>1, <3>2 DEF LayeredSoFar, First
    <3> QED
      BY <3>1, <3>2
  <2> QED
    BY <1>8, <2>1, <2>3, <2>4
<1>10. CASE Miss(r, s)
  <2>1. <<db(r.pos), r.field>> \notin Carries /\ s.out = r.out
    BY <1>3, <1>4, <1>10 DEF Miss
  <2>2. \A i \in 1..r.pos : <<db(i), r.field>> \notin Carries
    <3> SUFFICES ASSUME NEW i \in 1..r.pos PROVE <<db(i), r.field>> \notin Carries
      OBVIOUS
    <3>1. i \in 1..(r.pos - 1) \/ i = r.pos
      BY <1>3
    <3> QED
      BY <1>2, <2>1, <3>1 DEF LayeredSoFar
  <2>3. CASE r.pos = Len(r.recs)
    <3>1. NextField(r, s)
      BY <1>10, <2>3 DEF Miss
    <3>2. Suppliers(r.key, r.field) = {}
      <4> SUFFICES ASSUME NEW d \in Suppliers(r.key, r.field) PROVE FALSE
        OBVIOUS
      <4>1. d \in Databases /\ <<d, r.key>> \in Covers /\ <<d, r.field>> \in Carries
        BY DEF Suppliers
      <4>2. PICK i \in 1..Len(r.recs) : db(i) = d
        BY <1>2, <4>1 DEF LayeredSoFar
      <4> QED
        BY <2>2, <2>3, <4>1, <4>2
    <3>3. DOMAIN s.out = Supplied(r.key, r.field)
      BY <1>2, <1>3, <2>1, <3>2, SuppliedNext DEF LayeredSoFar
    <3>4. First(r.key, s.out)
      BY <1>2, <2>1 DEF LayeredSoFar
    <3> QED
      BY <1>8, <3>1, <3>3, <3>4
  <2>4. CASE r.pos # Len(r.recs)
    <3>1. s.pos = r.pos + 1 /\ s.field = r.field /\ s.pc = "extract"
      BY <1>10, <2>4 DEF Miss
    <3>2. 1..(s.pos - 1) = 1..r.pos /\ \A i \in 1..r.pos : i \in 1..Len(r.recs)
      BY <1>3, <3>1
    <3>3. \A i \in 1..(s.pos - 1) : <<s.recs[i].reader.db, s.field>> \notin Carries
      BY <1>1, <2>2, <3>1, <3>2
    <3>4. DOMAIN s.out = Supplied(s.key, s.field - 1) /\ First(s.key, s.out)
      BY <1>1, <1>2, <2>1, <3>1 DEF LayeredSoFar
    <3>5. LayeredSoFar(s)
      BY <1>6, <3>3, <3>4 DEF LayeredSoFar
    <3> QED
      BY <1>5, <3>1, <3>5 DEF LayeredRequest
  <2> QED
    BY <2>3, <2>4
<1> QED
  BY <1>9, <1>10 DEF Asked

LEMMA BareLayered ==
    ASSUME NEW s, s.recs = <<>>, s.pc \in {"idle", "snapshot", "load", "aborted"}
    PROVE  LayeredRequest(s)
BY DEF LayeredRequest

LEMMA MarkedLayered ==
    ASSUME NEW r, NEW s, Marked(r, s), LayeredRequest(r)
    PROVE  LayeredRequest(s)
<1>1. /\ s.pc = r.pc /\ s.key = r.key /\ s.pos = r.pos /\ s.recs = r.recs
      /\ s.field = r.field /\ s.out = r.out
  BY DEF Marked
<1>2. s.found = r.found
  BY DEF Marked
<1>3. LayeredSoFar(r) => LayeredSoFar(s)
  BY <1>1 DEF LayeredSoFar
<1>4. Layered(r.key, r.out, r.found) => Layered(s.key, s.out, s.found)
  BY <1>1, <1>2 DEF Layered
<1> QED
  BY <1>1, <1>3, <1>4 DEF LayeredRequest

LEMMA NextLayers ==
    ASSUME ~IOFaults
    PROVE  ProviderInv /\ RequestInv /\ Undisturbed /\ Undisturbed' /\ LayerInv
             /\ [Next]_vars => LayerInv'
<1> SUFFICES ASSUME ProviderInv, RequestInv, Undisturbed, Undisturbed', LayerInv,
                    [Next]_vars
             PROVE  LayerInv'
  OBVIOUS
<1>1. RequestTypes /\ CacheTypes /\ ProviderTypes /\ ~dropped
  BY DEF RequestInv, ProviderInv, Undisturbed, Mutex
<1>2. ASSUME \A p \in Requests : LayeredRequest(req'[p]),
             \A k, e : EntryAt(k, e)' => Layered(k, e.fields, e.found)
      PROVE  LayerInv'
  BY <1>2 DEF LayerInv, LayeredRequest, LayeredSoFar
<1>3. ASSUME NEW p \in Requests, OnlyRequest(p), LayeredRequest(req'[p])
      PROVE  \A q \in Requests : LayeredRequest(req'[q])
  BY <1>3 DEF OnlyRequest, LayerInv
<1>4. ASSUME UNCHANGED <<current, previous>>
      PROVE  \A k, e : EntryAt(k, e)' => Layered(k, e.fields, e.found)
  BY <1>4 DEF EntryAt, LayerInv
<1>5. ASSUME NEW p \in Requests, NEW k \in Keys, GetCached(p, k) PROVE LayerInv'
  <2>1. Started(req'[p], k) /\ OnlyRequest(p)
    BY <1>1, <1>5, GetCachedEffect
  <2>2. LayeredRequest(req'[p])
    <3>1. CASE req'[p].pc = "snapshot"
      BY <2>1, <3>1, BareLayered DEF Started
    <3>2. CASE req'[p].pc = "answered"
      <4>1. PICK e : EntryAt(k, e) /\ req'[p].out = e.fields /\ req'[p].found = e.found
        BY <2>1, <3>2 DEF Started
      <4>2. Layered(k, e.fields, e.found) /\ req'[p].key = k /\ req'[p].recs = <<>>
        BY <2>1, <4>1 DEF LayerInv, Started
      <4> QED
        BY <3>2, <4>1, <4>2 DEF LayeredRequest
    <3> QED
      BY <2>1, <3>1, <3>2 DEF Started
  <2>3. UNCHANGED <<current, previous>>
    BY <1>5 DEF GetCached, cacheVars
  <2> QED
    BY <1>2, <1>3, <1>4, <2>1, <2>2, <2>3
<1>6. ASSUME NEW p \in Requests, RequestStep(p) PROVE LayerInv'
  <2>1. /\ req[p] \in RequestStates /\ LoopsBounded(req[p])
        /\ SoundRequest(req[p]) /\ UndisturbedRequest(req[p])
        /\ LayeredRequest(req[p])
    BY <1>1 DEF RequestTypes, RequestInv, Undisturbed, LayerInv
  <2>2. CASE TakeSnapshot(p)
    <3>1. Began(req[p], req'[p]) /\ OnlyRequest(p)
      BY <1>1, <2>2, TakeSnapshotEffect
    <3>2. LayeredRequest(req'[p])
      BY <1>1, <2>1, <3>1, BareLayered DEF Began, LoopsBounded
    <3>3. UNCHANGED <<current, previous>>
      BY <2>2 DEF TakeSnapshot, cacheVars
    <3> QED
      BY <1>2, <1>3, <1>4, <3>1, <3>2, <3>3
  <2>3. CASE LoadReader(p)
    <3>1. Loaded(req[p], req'[p]) /\ OnlyRequest(p)
      BY <1>1, <2>3, LoadReaderEffect
    <3>2. LayeredRequest(req'[p])
      BY <2>1, <3>1, LoadedLayered
    <3>3. UNCHANGED <<current, previous>>
      BY <2>3 DEF LoadReader, cacheVars
    <3> QED
      BY <1>2, <1>3, <1>4, <3>1, <3>2, <3>3
  <2>4. CASE WalkTree(p)
    <3>1. Walked(req[p], req'[p]) /\ OnlyRequest(p)
      BY <1>1, <2>4, WalkTreeEffect
    <3>2. ~req'[p].err
      BY DEF Undisturbed, UndisturbedRequest
    <3>3. LayeredRequest(req'[p])
      BY <2>1, <3>1, <3>2, WalkedLayered
    <3>4. UNCHANGED <<current, previous>>
      BY <2>4 DEF WalkTree, cacheVars
    <3> QED
      BY <1>2, <1>3, <1>4, <3>1, <3>3, <3>4
  <2>5. CASE ExtractValue(p)
    <3>1. Asked(req[p], req'[p]) /\ OnlyRequest(p)
      BY <1>1, <2>5, ExtractValueEffect
    <3>2. LayeredRequest(req'[p])
      BY <2>1, <3>1, AskedLayered
    <3>3. UNCHANGED <<current, previous>>
      BY <2>5 DEF ExtractValue, cacheVars
    <3> QED
      BY <1>2, <1>3, <1>4, <3>1, <3>2, <3>3
  <2>6. CASE StoreResult(p)
    <3>1. /\ Stored(req[p], req'[p]) /\ OnlyRequest(p)
          /\ \A k, e : EntryAt(k, e)' =>
                \/ EntryAt(k, e)
                \/ ~req[p].err /\ k = req[p].key /\ e = ResultOf(req[p])
      BY <1>1, <2>6, StoreResultEffect
    <3>2. Layered(req[p].key, req[p].out, req[p].found)
      BY <2>1, <3>1 DEF Stored, LayeredRequest
    <3>3. LayeredRequest(req'[p])
      BY <3>1, <3>2 DEF Stored, LayeredRequest
    <3>4. \A k, e : EntryAt(k, e)' => Layered(k, e.fields, e.found)
      BY <3>1, <3>2 DEF LayerInv, ResultOf
    <3> QED
      BY <1>2, <1>3, <3>1, <3>3, <3>4
  <2>7. CASE FinishRequest(p)
    <3>1. req'[p] = IdleRequest /\ OnlyRequest(p)
      BY <1>1, <2>7, FinishRequestEffect
    <3>2. LayeredRequest(req'[p])
      BY <3>1, IdleTypes, BareLayered
    <3>3. UNCHANGED <<current, previous>>
      BY <2>7 DEF FinishRequest, cacheVars
    <3> QED
      BY <1>2, <1>3, <1>4, <3>1, <3>2, <3>3
  <2> QED
    BY <1>6, <2>2, <2>3, <2>4, <2>5, <2>6, <2>7 DEF RequestStep
<1>7. CASE ResetCache
  <2>1. /\ \A k, e : ~EntryAt(k, e)'
        /\ \A p \in Requests : Marked(req[p], req'[p])
    BY <1>1, <1>7, ResetCacheEffect
  <2>2. \A p \in Requests : LayeredRequest(req'[p])
    BY <2>1, MarkedLayered DEF LayerInv
  <2> QED
    BY <1>2, <2>1, <2>2
<1>8. ASSUME NEW reader, CloseReader(reader), UNCHANGED cacheVars PROVE LayerInv'
  <2>1. \A p \in Requests : req'[p] = req[p] \/ Aborted(req'[p])
    BY <1>1, <1>8, CloseReaderEffect
  <2>2. \A p \in Requests : LayeredRequest(req'[p])
    BY <2>1, BareLayered DEF Aborted, LayerInv
  <2> QED
    BY <1>2, <1>4, <1>8, <2>2 DEF cacheVars
<1>9. CASE UNCHANGED <<req, current, previous>>
  BY <1>2, <1>4, <1>9 DEF LayerInv
<1> QED
  BY <1>5, <1>6, <1>7, <1>8, <1>9, StepKinds

LEMMA InitLayers == Init => LayerInv
<1> SUFFICES ASSUME Init PROVE LayerInv
  OBVIOUS
<1>1. \A k, e : ~EntryAt(k, e)
  BY DEF Init, CacheInit, EmptyGeneration, EntryAt
<1>2. \A p \in Requests : LayeredRequest(req[p])
  BY IdleTypes, BareLayered DEF Init
<1> QED
  BY <1>1, <1>2 DEF LayerInv

(* Whatever is reloaded meanwhile, an answer has every field that a database
   has for the address, from the first that has it, for any number of
   databases, fields and requests: it is enough that lookups end within the 5
   seconds, that reads do not fail and that there is no teardown (provider.go
   24-39, 172-196). *)
THEOREM AnswersAreLayered ==
    ASSUME GraceCoversLookups, ~IOFaults, ~TeardownPossible
    PROVE  Spec => []LayeredAnswers
<1>1. RequestInv /\ LayerInv => LayeredAnswers
  <2> SUFFICES ASSUME RequestInv, LayerInv, NEW p \in Requests,
                      req[p].pc = "answered"
               PROVE  /\ req[p].found = (\E d \in Databases :
                                             <<d, req[p].key>> \in Covers)
                      /\ Complete(req[p].key, req[p].out)
                      /\ \A f \in DOMAIN req[p].out :
                            \A d \in Suppliers(req[p].key, f) : req[p].out[f].db <= d
    BY DEF LayeredAnswers
  <2>1. Layered(req[p].key, req[p].out, req[p].found)
    BY DEF LayerInv, LayeredRequest
  <2>2. req[p].found \in BOOLEAN
    BY DEF RequestInv, RequestTypes, RequestStates
  <2>3. req[p].found <=> \E d \in Databases : <<d, req[p].key>> \in Covers
    BY <2>1 DEF Layered, Covered
  <2>4. req[p].found = (\E d \in Databases : <<d, req[p].key>> \in Covers)
    BY <2>2, <2>3, Zenon
  <2> QED
    BY <2>1, <2>4 DEF Layered, First
<1>2. ProviderInv /\ RequestInv /\ Undisturbed /\ Undisturbed' /\ LayerInv
        /\ [Next]_vars => LayerInv'
  BY NextLayers
<1>3. Spec => []LayerInv
  BY <1>2, InitLayers, UndisturbedInvariance, ProviderInvariance, RequestInvariance,
     PTL DEF Spec
<1> QED
  BY <1>1, <1>3, RequestInvariance, PTL
=============================================================================
