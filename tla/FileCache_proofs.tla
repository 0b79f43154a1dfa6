--------------------------- MODULE FileCache_proofs ---------------------------
(***************************************************************************)
(* For any number of processes and days: the types, the freshness of what  *)
(* a load serves, the writers of torn files and the files left at rest;    *)
(* and, for any list of networks, the addresses a load takes for official. *)
(***************************************************************************)
EXTENDS Tables, FiniteSetTheorems, TLAPS

\* A load has fetches left until its attempts are used up.
AttemptInv ==
  \A p \in Proc :
    /\ pc[p] \in {"list", "stat"} => attempts[p] = 0
    /\ pc[p] = "fetch" => attempts[p] < MaxAttempts

TypeInv == TypeOK /\ AttemptInv

-----------------------------------------------------------------------------
(* The values the actions build.                                           *)

LEMMA FileValues ==
  /\ Absent \in Files
  /\ \A t \in Day : [bytes |-> "torn", mtime |-> t] \in Files
                 /\ [bytes |-> "whole", mtime |-> t] \in Files
BY DEF Absent, Files, Bytes

LEMMA SightingValues ==
  /\ NoFile \in Sightings
  /\ \A d, t \in Day \cup {NoDay} : [name |-> d, mtime |-> t] \in Sightings
BY DEF NoFile, Sightings

LEMMA ResultValues ==
  /\ Nothing \in Results
  /\ [Nothing EXCEPT !.kind = "io_error"] \in Results
  /\ [Nothing EXCEPT !.kind = "retries_exceeded", !.tries = MaxAttempts] \in Results
  /\ [Nothing EXCEPT !.kind = "fetched", !.bytes = "whole"] \in Results
  /\ \A b \in Bytes, t \in Day \cup {NoDay} :
       [Nothing EXCEPT !.kind = "cached", !.bytes = b, !.mtime = t] \in Results
<1>1. 0 \in 0..MaxAttempts /\ MaxAttempts \in 0..MaxAttempts
  BY CacheAssumption, SMT
<1>2. Nothing = [kind |-> "nothing", bytes |-> "none", mtime |-> NoDay, tries |-> 0]
  BY DEF Nothing
<1>3. Nothing \in Results
  BY <1>1, <1>2 DEF Results, Bytes
<1>4. [Nothing EXCEPT !.kind = "io_error"] \in Results
  BY <1>1, <1>2 DEF Results, Bytes
<1>5. [Nothing EXCEPT !.kind = "retries_exceeded", !.tries = MaxAttempts] \in Results
  BY <1>1, <1>2 DEF Results, Bytes
<1>6. [Nothing EXCEPT !.kind = "fetched", !.bytes = "whole"] \in Results
  BY <1>1, <1>2 DEF Results, Bytes
<1>7. ASSUME NEW b \in Bytes, NEW t \in Day \cup {NoDay}
      PROVE  [Nothing EXCEPT !.kind = "cached", !.bytes = b, !.mtime = t] \in Results
  BY <1>1, <1>2, <1>7 DEF Results, Bytes
<1> QED BY <1>3, <1>4, <1>5, <1>6, <1>7

LEMMA FileFields ==
  \A f \in Files : f.bytes \in Bytes /\ f.mtime \in Day \cup {NoDay}
BY DEF Files

LEMMA SightingFields ==
  \A s \in Sightings : s.name \in Day \cup {NoDay} /\ s.mtime \in Day \cup {NoDay}
BY DEF Sightings

\* The numbers the steps reach.
LEMMA Counts ==
  ASSUME TypeInv
  PROVE  /\ 0 \in 0..MaxAttempts /\ 0 < MaxAttempts
         /\ \A p \in Proc : pc[p] = "fetch" => attempts[p] + 1 \in 0..MaxAttempts
         /\ \A p \in Proc : pc[p] = "fetch" /\ ~LastAttempt(p)
                           => attempts[p] + 1 < MaxAttempts
         /\ faults < MaxFaults => faults + 1 \in 0..MaxFaults
         /\ today < LastDay => today + 1 \in Day
BY CacheAssumption, SMT DEF TypeInv, TypeOK, AttemptInv, LastAttempt, Day

-----------------------------------------------------------------------------
(* Types.                                                                  *)

LEMMA InitType == Init => TypeInv
<1> SUFFICES ASSUME Init PROVE TypeInv
  OBVIOUS
<1>1. 0 \in Day /\ 0 \in 0..MaxAttempts /\ 0 \in 0..MaxFaults
  BY CacheAssumption, SMT DEF Day
<1> QED
  BY <1>1, FileValues, SightingValues, ResultValues
     DEF Init, TypeInv, TypeOK, AttemptInv, States

\* A name that is visited leaves the list.
LEMMA Visited ==
  ASSUME NEW f \in [Proc -> SUBSET Day], NEW p \in Proc, NEW d
  PROVE  [f EXCEPT ![p] = @ \ {d}] \in [Proc -> SUBSET Day]
OBVIOUS

\* A step of p that keeps within the types.
LEMMA FindType ==
  ASSUME TypeInv, NEW p \in Proc, FindStep(p)
  PROVE  TypeInv'
<1> USE SightingValues, ResultValues, FileFields
    DEF TypeInv, TypeOK, AttemptInv, States, Goto, Finish
<1>1. CASE ListDirectory(p)
  BY <1>1 DEF ListDirectory, Names
<1>2. ASSUME NEW d \in Day, StatEntry(p, d) PROVE TypeInv'
  <2>1. CASE d \in Names
    <3>1. [name |-> d, mtime |-> disk[d].mtime] \in Sightings
      OBVIOUS
    <3>2. \E s \in Sightings : latest' = [latest EXCEPT ![p] = s]
      <4>1. CASE disk[d].mtime > latest[p].mtime
        BY <1>2, <2>1, <3>1, <4>1 DEF StatEntry
      <4>2. CASE ~(disk[d].mtime > latest[p].mtime)
        BY <1>2, <2>1, <4>2 DEF StatEntry
      <4> QED BY <4>1, <4>2
    <3>3. latest' \in [Proc -> Sightings]
      BY <3>2
    <3>4. names' \in [Proc -> SUBSET Day]
      <4>1. names' = [names EXCEPT ![p] = @ \ {d}]
        BY <1>2, <2>1, Zenon DEF StatEntry
      <4> QED BY <4>1, Visited
    <3>5. UNCHANGED <<pc, got, faults, spared, today, disk, attempts, keep, linked, began>>
      BY <1>2, <2>1 DEF StatEntry
    <3> QED BY <3>3, <3>4, <3>5
  <2>2. CASE d \notin Names
    BY <1>2, <2>2 DEF StatEntry, IoError
  <2> QED BY <2>1, <2>2
<1>3. CASE ChooseFile(p)
  BY <1>3, Counts DEF ChooseFile, local
<1>4. CASE ReadFile(p)
  <2>1. CASE latest[p].name \in Names
    <3> DEFINE f == disk[latest[p].name]
    <3>1. f \in Files
      BY <2>1 DEF Names
    <3>2. f.bytes \in Bytes /\ f.mtime \in Day \cup {NoDay}
      BY <3>1
    <3>3. [Nothing EXCEPT !.kind = "cached", !.bytes = f.bytes, !.mtime = f.mtime]
            \in Results
      BY <3>2, ResultValues
    <3> HIDE DEF f
    <3>4. got' = [got EXCEPT ![p] = [Nothing EXCEPT !.kind = "cached",
                                       !.bytes = f.bytes, !.mtime = f.mtime]]
      BY <1>4, <2>1 DEF ReadFile, f
    <3>5. got' \in [Proc -> Results]
      BY <3>3, <3>4
    <3>6. pc' = [pc EXCEPT ![p] = "idle"]
      BY <1>4, <2>1 DEF ReadFile
    <3> QED BY <1>4, <3>5, <3>6 DEF ReadFile, local
  <2>2. CASE latest[p].name \notin Names
    <3>1. [Nothing EXCEPT !.kind = "io_error"] \in Results
      BY ResultValues
    <3>2. got' = [got EXCEPT ![p] = [Nothing EXCEPT !.kind = "io_error"]]
      BY <1>4, <2>2, Zenon DEF ReadFile, IoError
    <3>3. got' \in [Proc -> Results]
      BY <3>1, <3>2
    <3>4. pc' = [pc EXCEPT ![p] = "idle"]
      BY <1>4, <2>2, Zenon DEF ReadFile, IoError
    <3> QED BY <1>4, <3>3, <3>4 DEF ReadFile, local
  <2> QED BY <2>1, <2>2
<1> QED BY <1>1, <1>2, <1>3, <1>4 DEF FindStep

LEMMA FetchType ==
  ASSUME TypeInv, NEW p \in Proc, FetchStep(p)
  PROVE  TypeInv'
<1> USE ResultValues DEF TypeInv, TypeOK, AttemptInv, States, Goto, Finish
<1>2. CASE FetchOk(p)
  BY <1>2, Counts DEF FetchOk
<1>3. ASSUME NEW f \in {"transient", "permanent"}, FetchFails(p, f) PROVE TypeInv'
  <2>1. CASE f = "permanent" \/ LastAttempt(p)
    BY <1>3, <2>1, Counts DEF FetchFails, local
  <2>2. CASE ~(f = "permanent" \/ LastAttempt(p))
    BY <1>3, <2>2, Counts DEF FetchFails, local
  <2> QED BY <2>1, <2>2
<1> QED BY <1>2, <1>3 DEF FetchStep

LEMMA StoreType ==
  ASSUME TypeInv, NEW p \in Proc, StoreStep(p)
  PROVE  TypeInv'
<1> USE FileValues, ResultValues
    DEF TypeInv, TypeOK, AttemptInv, States, Goto, Finish
<1>1. CASE CreateFile(p)
  BY <1>1 DEF CreateFile
<1>2. CASE WriteFile(p)
  BY <1>2 DEF WriteFile, Written
<1>3. CASE WriteFails(p)
  BY <1>3, Counts DEF WriteFails, IoError
<1>4. CASE ListOutdated(p)
  BY <1>4 DEF ListOutdated, ToRemove, Names
<1>5. ASSUME NEW d \in Day, RemoveFile(p, d) PROVE TypeInv'
  BY <1>5 DEF RemoveFile
<1>6. CASE ReturnFetched(p)
  BY <1>6 DEF ReturnFetched, local
<1>7. CASE ListingFails(p)
  <2>1. PICK listed \in SUBSET ToRemove(p) :
          /\ names' = [names EXCEPT ![p] = listed]
          /\ spared' = spared \cup (ToRemove(p) \ listed)
    BY <1>7 DEF ListingFails
  <2>2. ToRemove(p) \subseteq Day
    BY DEF ToRemove, Names
  <2> QED BY <1>7, <2>1, <2>2 DEF ListingFails
<1>8. ASSUME NEW d \in Day, RemovalFails(p, d) PROVE TypeInv'
  BY <1>8 DEF RemovalFails
<1> QED BY <1>1, <1>2, <1>3, <1>4, <1>5, <1>6, <1>7, <1>8 DEF StoreStep

LEMMA NextType == TypeInv /\ [Next]_vars => TypeInv'
<1> SUFFICES ASSUME TypeInv, [Next]_vars PROVE TypeInv'
  OBVIOUS
<1> USE SightingValues, ResultValues
    DEF TypeInv, TypeOK, AttemptInv, States, Goto, Finish, local
<1>1. CASE Midnight
  BY <1>1, Counts DEF Midnight
<1>2. ASSUME NEW p \in Proc, Begin(p) PROVE TypeInv'
  BY <1>2, Counts DEF Begin
<1>3. ASSUME NEW p \in Proc, LoadStep(p) PROVE TypeInv'
  <2>1. CASE CallFails(p)
    BY <2>1 DEF CallFails, IoError
  <2> QED BY <1>3, <2>1, FindType, FetchType, StoreType DEF LoadStep
<1>4. ASSUME NEW p \in Proc, Crash(p) PROVE TypeInv'
  BY <1>4, Counts DEF Crash
<1>5. CASE UNCHANGED vars
  BY <1>5 DEF vars
<1> QED BY <1>1, <1>2, <1>3, <1>4, <1>5 DEF Next

LEMMA TypesInvariant == Safety => []TypeInv
BY InitType, NextType, PTL DEF Safety

(* The types hold for every number of processes and days; in particular no *)
(* load begins more fetches than the policy allows (cache.rs,              *)
(* fetch_with_retry).                                                      *)
THEOREM CacheTypes == Safety => []TypeOK
BY TypesInvariant, PTL DEF TypeInv

-----------------------------------------------------------------------------
(* Freshness.  The day a load began bounds what it may serve from below,   *)
(* and a file only gets younger after it was seen: it is written again or  *)
(* removed.                                                                *)

\* No time is ahead of the clock.
TimesPast ==
  /\ \A d \in Day : disk[d].mtime <= today
  /\ \A p \in Proc : began[p] <= today /\ latest[p].mtime <= today

\* The file a load chose is at least as young as it was when seen.
SeenStands ==
  \A p \in Proc, d \in Day :
    latest[p].name = d /\ disk[d].bytes # "none" => disk[d].mtime >= latest[p].mtime

ChoiceIsFresh ==
  \A p \in Proc : pc[p] = "read" => latest[p].mtime >= began[p] - MaxAge

FreshInv == TimesPast /\ SeenStands /\ ChoiceIsFresh /\ ServedIsFresh

LEMMA DayNat == Day \subseteq Nat /\ NoDay < 0 /\ NoDay \in Int
BY CacheAssumption, SMT DEF Day, NoDay

LEMMA Ranges ==
  ASSUME TypeInv
  PROVE  /\ today \in Nat
         /\ \A d \in Day : disk[d].mtime \in Int
         /\ \A p \in Proc : began[p] \in Nat /\ latest[p].mtime \in Int
         /\ MaxAge \in Nat
<1> USE DEF TypeInv, TypeOK
<1>1. \A d \in Day : disk[d] \in Files
  OBVIOUS
<1>2. \A p \in Proc : latest[p] \in Sightings /\ began[p] \in Day
  OBVIOUS
<1> HIDE DEF TypeInv, TypeOK
<1>3. today \in Day
  BY DEF TypeInv, TypeOK
<1>4. Day \cup {NoDay} \subseteq Int
  BY DayNat
<1> QED BY <1>1, <1>2, <1>3, <1>4, DayNat, FileFields, SightingFields, CacheAssumption

LEMMA InitFresh == Init => FreshInv
<1> SUFFICES ASSUME Init PROVE FreshInv
  OBVIOUS
<1> QED BY CacheAssumption, SMT
  DEF Init, FreshInv, TimesPast, SeenStands, ChoiceIsFresh, ServedIsFresh,
      Absent, NoFile, Nothing, NoDay

\* A step that leaves the clock and the begin of every load alone.
LEMMA DiskKeepsFresh ==
  ASSUME TypeInv, FreshInv,
         UNCHANGED <<today, latest, began>>,
         \A d \in Day : \/ disk'[d] = disk[d]
                        \/ disk'[d] = Absent
                        \/ disk'[d].mtime = today,
         \A p \in Proc : pc'[p] = "read" => pc[p] = "read",
         \A p \in Proc : got'[p] = got[p] \/ got'[p].kind # "cached"
  PROVE  FreshInv'
<1>0. /\ today \in Nat /\ Absent.bytes = "none" /\ Absent.mtime <= today
      /\ \A d \in Day : disk[d].mtime \in Int
      /\ \A p \in Proc : latest[p].mtime \in Int
  BY Ranges, DayNat, SMT DEF Absent
<1>1. TimesPast'
  BY <1>0, SMT DEF FreshInv, TimesPast
<1>2. SeenStands'
  BY <1>0, SMT DEF FreshInv, TimesPast, SeenStands
<1>3. ChoiceIsFresh'
  BY DEF FreshInv, ChoiceIsFresh
<1>4. ServedIsFresh'
  BY DEF FreshInv, ServedIsFresh
<1> QED BY <1>1, <1>2, <1>3, <1>4 DEF FreshInv

LEMMA FindFresh ==
  ASSUME TypeInv, FreshInv, NEW p \in Proc, FindStep(p)
  PROVE  FreshInv'
<1>0. pc \in [Proc -> States] /\ got \in [Proc -> Results] /\ latest \in [Proc -> Sightings]
  BY DEF TypeInv, TypeOK
<1>1. CASE ListDirectory(p)
  BY <1>0, <1>1, DiskKeepsFresh DEF ListDirectory, Goto
<1>2. ASSUME NEW d \in Day, StatEntry(p, d) PROVE FreshInv'
  <2>1. CASE d \in Names /\ disk[d].mtime > latest[p].mtime
    <3>1. latest' = [latest EXCEPT ![p] = [name |-> d, mtime |-> disk[d].mtime]]
      BY <1>2, <2>1 DEF StatEntry
    <3>2. UNCHANGED <<today, disk, pc, got, began>>
      BY <1>2, <2>1 DEF StatEntry
    <3>3. pc[p] = "stat"
      BY <1>2 DEF StatEntry
    <3>4. TimesPast'
      BY <1>0, <3>1, <3>2 DEF FreshInv, TimesPast
    <3>5. SeenStands'
      BY <1>0, <3>1, <3>2, Ranges, SMT DEF FreshInv, SeenStands
    <3>6. ChoiceIsFresh'
      BY <1>0, <3>1, <3>2, <3>3 DEF FreshInv, ChoiceIsFresh
    <3>7. ServedIsFresh'
      BY <3>2 DEF FreshInv, ServedIsFresh
    <3> QED BY <3>4, <3>5, <3>6, <3>7 DEF FreshInv
  <2>2. CASE d \in Names /\ ~(disk[d].mtime > latest[p].mtime)
    <3>1. latest' = latest
      BY <1>0, <1>2, <2>2 DEF StatEntry
    <3> QED BY <1>2, <2>2, <3>1, DiskKeepsFresh DEF StatEntry
  <2>3. CASE d \notin Names
    <3>1. got' = [got EXCEPT ![p] = [Nothing EXCEPT !.kind = "io_error"]]
      BY <1>2, <2>3 DEF StatEntry, IoError, Finish
    <3>2. got'[p].kind # "cached" /\ \A q \in Proc \ {p} : got'[q] = got[q]
      BY <1>0, <3>1 DEF Nothing
    <3> QED BY <1>0, <1>2, <2>3, <3>2, DiskKeepsFresh
        DEF StatEntry, IoError, Finish, Goto
  <2> QED BY <2>1, <2>2, <2>3
<1>3. CASE ChooseFile(p)
  <2>1. UNCHANGED <<today, disk, got, latest, began>>
    BY <1>3 DEF ChooseFile, local
  <2>2. pc' = [pc EXCEPT ![p] = IF Fresh(latest[p]) THEN "read" ELSE "fetch"]
    BY <1>3 DEF ChooseFile, Goto
  <2>3. Fresh(latest[p]) => latest[p].mtime >= began[p] - MaxAge
    BY Ranges, SMT DEF Fresh, FreshInv, TimesPast
  <2>4. ChoiceIsFresh'
    BY <1>0, <2>1, <2>2, <2>3 DEF FreshInv, ChoiceIsFresh
  <2> QED BY <2>1, <2>4 DEF FreshInv, TimesPast, SeenStands, ServedIsFresh
<1>4. CASE ReadFile(p)
  <2>0. UNCHANGED <<today, disk, latest, began>> /\ pc' = [pc EXCEPT ![p] = "idle"]
    BY <1>4 DEF ReadFile, IoError, Finish, Goto, local
  <2>1. CASE latest[p].name \in Names
    <3> DEFINE f == disk[latest[p].name]
    <3>1. got' = [got EXCEPT ![p] = [Nothing EXCEPT !.kind = "cached",
                                       !.bytes = f.bytes, !.mtime = f.mtime]]
      BY <1>4, <2>1 DEF ReadFile, Finish
    <3>2. latest[p].name \in Day /\ f.bytes # "none"
      BY <2>1 DEF Names
    <3>3. f.mtime >= latest[p].mtime
      BY <3>2 DEF FreshInv, SeenStands
    <3>4. latest[p].mtime >= began[p] - MaxAge
      BY <1>4 DEF ReadFile, FreshInv, ChoiceIsFresh
    <3>5. f.mtime >= began[p] - MaxAge
      BY <3>2, <3>3, <3>4, Ranges, SMT
    <3> HIDE DEF f
    <3>6. got'[p].mtime = f.mtime /\ \A q \in Proc \ {p} : got'[q] = got[q]
      BY <1>0, <3>1 DEF Nothing
    <3>7. ServedIsFresh'
      BY <2>0, <3>5, <3>6 DEF FreshInv, ServedIsFresh
    <3>8. ChoiceIsFresh'
      BY <1>0, <2>0 DEF FreshInv, ChoiceIsFresh
    <3> QED BY <2>0, <3>7, <3>8 DEF FreshInv, TimesPast, SeenStands
  <2>2. CASE latest[p].name \notin Names
    <3>1. got' = [got EXCEPT ![p] = [Nothing EXCEPT !.kind = "io_error"]]
      BY <1>4, <2>2 DEF ReadFile, IoError, Finish
    <3>2. got'[p].kind # "cached" /\ \A q \in Proc \ {p} : got'[q] = got[q]
      BY <1>0, <3>1 DEF Nothing
    <3> QED BY <1>0, <2>0, <3>2, DiskKeepsFresh
  <2> QED BY <2>1, <2>2
<1> QED BY <1>1, <1>2, <1>3, <1>4 DEF FindStep

\* What an end other than a read from the directory leaves in got.
LEMMA OtherEnds ==
  /\ Nothing.kind # "cached"
  /\ [Nothing EXCEPT !.kind = "io_error"].kind # "cached"
  /\ [Nothing EXCEPT !.kind = "retries_exceeded", !.tries = MaxAttempts].kind # "cached"
  /\ [Nothing EXCEPT !.kind = "fetched", !.bytes = "whole"].kind # "cached"
BY DEF Nothing

\* A load that ends in one of those ways.
LEMMA FinishFresh ==
  ASSUME TypeInv, FreshInv, NEW p \in Proc, NEW r, r.kind # "cached", Finish(p, r),
         UNCHANGED <<today, disk, latest, began>>
  PROVE  FreshInv'
<1>1. pc \in [Proc -> States] /\ got \in [Proc -> Results]
  BY DEF TypeInv, TypeOK
<1> QED BY <1>1, DiskKeepsFresh DEF Finish, Goto

LEMMA FetchFresh ==
  ASSUME TypeInv, FreshInv, NEW p \in Proc, FetchStep(p)
  PROVE  FreshInv'
<1>0. pc \in [Proc -> States]
  BY DEF TypeInv, TypeOK
<1>1. CASE FetchOk(p)
  BY <1>0, <1>1, DiskKeepsFresh DEF FetchOk, Goto
<1>2. ASSUME NEW f \in {"transient", "permanent"}, FetchFails(p, f) PROVE FreshInv'
  <2>1. CASE f = "permanent" \/ LastAttempt(p)
    BY <1>2, <2>1, OtherEnds, FinishFresh DEF FetchFails, local
  <2>2. CASE ~(f = "permanent" \/ LastAttempt(p))
    BY <1>2, <2>2, DiskKeepsFresh DEF FetchFails, local
  <2> QED BY <2>1, <2>2
<1> QED BY <1>1, <1>2 DEF FetchStep

LEMMA StoreFresh ==
  ASSUME TypeInv, FreshInv, NEW p \in Proc, StoreStep(p)
  PROVE  FreshInv'
<1>0. pc \in [Proc -> States] /\ disk \in [Day -> Files]
  BY DEF TypeInv, TypeOK
<1>1. CASE CreateFile(p)
  BY <1>0, <1>1, DiskKeepsFresh DEF CreateFile, Goto
<1>2. CASE WriteFile(p)
  BY <1>0, <1>2, DiskKeepsFresh DEF WriteFile, Written, Goto
<1>3. CASE WriteFails(p)
  BY <1>3, OtherEnds, FinishFresh DEF WriteFails, IoError
<1>4. CASE ListOutdated(p)
  BY <1>0, <1>4, DiskKeepsFresh DEF ListOutdated, Goto
<1>5. ASSUME NEW d \in Day, RemoveFile(p, d) PROVE FreshInv'
  BY <1>0, <1>5, DiskKeepsFresh DEF RemoveFile
<1>6. CASE ReturnFetched(p)
  BY <1>6, OtherEnds, FinishFresh DEF ReturnFetched, local
<1>7. CASE ListingFails(p)
  BY <1>0, <1>7, DiskKeepsFresh DEF ListingFails, Goto
<1>8. ASSUME NEW d \in Day, RemovalFails(p, d) PROVE FreshInv'
  BY <1>0, <1>8, DiskKeepsFresh DEF RemovalFails
<1> QED BY <1>1, <1>2, <1>3, <1>4, <1>5, <1>6, <1>7, <1>8 DEF StoreStep

LEMMA NextFresh == TypeInv /\ FreshInv /\ [Next]_vars => FreshInv'
<1> SUFFICES ASSUME TypeInv, FreshInv, [Next]_vars PROVE FreshInv'
  OBVIOUS
<1>1. CASE Midnight
  <2>1. today' = today + 1 /\ UNCHANGED <<disk, pc, got, latest, began>>
    BY <1>1 DEF Midnight, local
  <2>2. TimesPast'
    BY <2>1, Ranges, SMT DEF FreshInv, TimesPast
  <2> QED BY <2>1, <2>2 DEF FreshInv, SeenStands, ChoiceIsFresh, ServedIsFresh
<1>2. ASSUME NEW p \in Proc, Begin(p) PROVE FreshInv'
  <2>1. /\ pc \in [Proc -> States] /\ got \in [Proc -> Results]
        /\ latest \in [Proc -> Sightings] /\ began \in [Proc -> Day]
    BY DEF TypeInv, TypeOK
  <2>2. UNCHANGED <<today, disk>>
    BY <1>2 DEF Begin
  <2>3. /\ latest'[p] = NoFile /\ began'[p] = today
        /\ pc'[p] = "list" /\ got'[p] = Nothing
    BY <1>2, <2>1 DEF Begin, Goto
  <2>4. \A q \in Proc \ {p} : /\ latest'[q] = latest[q] /\ began'[q] = began[q]
                              /\ pc'[q] = pc[q] /\ got'[q] = got[q]
    BY <1>2, <2>1 DEF Begin, Goto
  <2>5. NoFile.mtime \in Int /\ NoFile.mtime < 0 /\ NoFile.name \notin Day
    BY DayNat, SMT DEF NoFile
  <2>6. TimesPast'
    BY <2>2, <2>3, <2>4, <2>5, Ranges, SMT DEF FreshInv, TimesPast
  <2>7. SeenStands'
    BY <2>2, <2>3, <2>4, <2>5 DEF FreshInv, SeenStands
  <2>8. ChoiceIsFresh'
    BY <2>3, <2>4 DEF FreshInv, ChoiceIsFresh
  <2>9. ServedIsFresh'
    BY <2>3, <2>4, OtherEnds DEF FreshInv, ServedIsFresh
  <2> QED BY <2>6, <2>7, <2>8, <2>9 DEF FreshInv
<1>3. ASSUME NEW p \in Proc, LoadStep(p) PROVE FreshInv'
  <2>1. CASE CallFails(p)
    BY <2>1, OtherEnds, FinishFresh DEF CallFails, IoError
  <2> QED BY <1>3, <2>1, FindFresh, FetchFresh, StoreFresh DEF LoadStep
<1>4. ASSUME NEW p \in Proc, Crash(p) PROVE FreshInv'
  BY <1>4, OtherEnds, FinishFresh DEF Crash
<1>5. CASE UNCHANGED vars
  BY <1>5 DEF vars, local, FreshInv, TimesPast, SeenStands, ChoiceIsFresh, ServedIsFresh
<1> QED BY <1>1, <1>2, <1>3, <1>4, <1>5 DEF Next

(* Whatever processes share the directory, a load takes from it only what  *)
(* was written within max_age before the load began (cache.rs,             *)
(* find_fresh).                                                            *)
THEOREM CacheServesFresh == Safety => []ServedIsFresh
<1>1. FreshInv => ServedIsFresh
  BY DEF FreshInv
<1> QED BY <1>1, InitFresh, NextFresh, TypesInvariant, PTL DEF Safety

-----------------------------------------------------------------------------
(* Torn files.                                                             *)

Orphans == {d \in Day : disk[d].bytes = "torn" /\ ~BeingWritten(d)}

LEMMA OrphansFinite == \A S \in SUBSET Day : IsFiniteSet(S) /\ Cardinality(S) \in Nat
<1>1. IsFiniteSet(Day)
  BY FS_Interval, CacheAssumption, SMT DEF Day
<1> QED BY <1>1, FS_Subset, FS_CardinalityType

\* A step that makes no orphan.
LEMMA NoNewOrphan ==
  ASSUME TypeInv, TornHasWriter, Orphans' \subseteq Orphans, faults' = faults
  PROVE  TornHasWriter'
<1>1. Orphans \in SUBSET Day /\ Orphans' \in SUBSET Day
  BY DEF Orphans
<1>2. Cardinality(Orphans') <= Cardinality(Orphans)
  BY <1>1, OrphansFinite, FS_Subset
<1>3. faults \in Nat
  BY CacheAssumption, SMT DEF TypeInv, TypeOK
<1> QED BY <1>1, <1>2, <1>3, OrphansFinite, SMT DEF TornHasWriter, Orphans

\* A fault makes one at most.
LEMMA FaultOrphan ==
  ASSUME TypeInv, TornHasWriter, faults' = faults + 1,
         NEW d, Orphans' \subseteq Orphans \cup {d}
  PROVE  TornHasWriter'
<1>1. Orphans \in SUBSET Day /\ Orphans' \in SUBSET Day
  BY DEF Orphans
<1>2. IsFiniteSet(Orphans \cup {d})
       /\ Cardinality(Orphans \cup {d}) <= Cardinality(Orphans) + 1
       /\ Cardinality(Orphans \cup {d}) \in Nat
  <2>1. IsFiniteSet(Orphans) /\ Cardinality(Orphans) \in Nat
    BY <1>1, OrphansFinite
  <2>2. /\ IsFiniteSet(Orphans \cup {d})
        /\ Cardinality(Orphans \cup {d}) = Cardinality(Orphans)
           \/ Cardinality(Orphans \cup {d}) = Cardinality(Orphans) + 1
    BY <2>1, FS_AddElement
  <2> QED BY <2>1, <2>2
<1>3. Cardinality(Orphans') <= Cardinality(Orphans \cup {d})
  BY <1>2, FS_Subset
<1>4. faults \in Nat
  BY CacheAssumption, SMT DEF TypeInv, TypeOK
<1> QED BY <1>1, <1>2, <1>3, <1>4, OrphansFinite, SMT DEF TornHasWriter, Orphans

\* A step of p that is no store step and leaves the directory alone.
LEMMA AsideOrphan ==
  ASSUME TypeInv, TornHasWriter, NEW p \in Proc, pc[p] # "write",
         UNCHANGED <<disk, linked, faults>>,
         \A q \in Proc \ {p} : pc'[q] = pc[q] /\ keep'[q] = keep[q]
  PROVE  TornHasWriter'
<1>1. Orphans' \subseteq Orphans
  BY DEF Orphans, BeingWritten
<1> QED BY <1>1, NoNewOrphan

LEMMA FindOrphan ==
  ASSUME TypeInv, TornHasWriter, NEW p \in Proc, FindStep(p)
  PROVE  TornHasWriter'
<1>0. pc \in [Proc -> States]
  BY DEF TypeInv, TypeOK
<1>1. CASE ListDirectory(p)
  BY <1>0, <1>1, AsideOrphan DEF ListDirectory, Goto
<1>2. ASSUME NEW d \in Day, StatEntry(p, d) PROVE TornHasWriter'
  BY <1>0, <1>2, AsideOrphan DEF StatEntry, IoError, Finish, Goto
<1>3. CASE ChooseFile(p)
  BY <1>0, <1>3, AsideOrphan DEF ChooseFile, Goto, local
<1>4. CASE ReadFile(p)
  BY <1>0, <1>4, AsideOrphan DEF ReadFile, IoError, Finish, Goto, local
<1> QED BY <1>1, <1>2, <1>3, <1>4 DEF FindStep

LEMMA FetchOrphan ==
  ASSUME TypeInv, TornHasWriter, NEW p \in Proc, FetchStep(p)
  PROVE  TornHasWriter'
<1>0. pc \in [Proc -> States] /\ keep \in [Proc -> Day \cup {NoDay}]
  BY DEF TypeInv, TypeOK
<1>1. CASE FetchOk(p)
  BY <1>0, <1>1, AsideOrphan DEF FetchOk, Goto
<1>2. ASSUME NEW f \in {"transient", "permanent"}, FetchFails(p, f)
      PROVE  TornHasWriter'
  BY <1>0, <1>2, AsideOrphan DEF FetchFails, Finish, Goto, local
<1> QED BY <1>1, <1>2 DEF FetchStep

LEMMA StoreOrphan ==
  ASSUME TypeInv, TornHasWriter, NEW p \in Proc, StoreStep(p)
  PROVE  TornHasWriter'
<1>0. /\ pc \in [Proc -> States] /\ disk \in [Day -> Files]
      /\ linked \in [Proc -> BOOLEAN]
  BY DEF TypeInv, TypeOK
\* What p creates it is about to write.
<1>1. CASE CreateFile(p)
  <2>1. Orphans' \subseteq Orphans
    BY <1>0, <1>1 DEF CreateFile, Goto, Orphans, BeingWritten
  <2> QED BY <1>1, <2>1, NoNewOrphan DEF CreateFile
\* What p has written is no longer torn; a file it lost was not p's to write.
<1>2. CASE WriteFile(p)
  <2>1. CASE linked[p]
    <3>1. disk' = [disk EXCEPT ![keep[p]] = Written]
      BY <1>2, <2>1 DEF WriteFile
    <3>2. Orphans' \subseteq Orphans
      BY <1>0, <1>2, <3>1 DEF WriteFile, Written, Goto, Orphans, BeingWritten
    <3> QED BY <1>2, <3>2, NoNewOrphan DEF WriteFile
  <2>2. CASE ~linked[p]
    <3>1. Orphans' \subseteq Orphans
      BY <1>0, <1>2, <2>2 DEF WriteFile, Goto, Orphans, BeingWritten
    <3> QED BY <1>2, <3>1, NoNewOrphan DEF WriteFile
  <2> QED BY <2>1, <2>2
<1>3. CASE WriteFails(p)
  <2>1. Orphans' \subseteq Orphans \cup {keep[p]}
    BY <1>0, <1>3 DEF WriteFails, IoError, Finish, Goto, Orphans, BeingWritten
  <2> QED BY <1>3, <2>1, FaultOrphan DEF WriteFails
<1>4. CASE ListOutdated(p)
  BY <1>0, <1>4, AsideOrphan DEF ListOutdated, Goto
\* Whoever has the removed file open loses it with its name.
<1>5. ASSUME NEW d \in Day, RemoveFile(p, d) PROVE TornHasWriter'
  <2>1. Orphans' \subseteq Orphans
    BY <1>0, <1>5 DEF RemoveFile, Absent, Orphans, BeingWritten
  <2> QED BY <1>5, <2>1, NoNewOrphan DEF RemoveFile
<1>6. CASE ReturnFetched(p)
  BY <1>0, <1>6, AsideOrphan DEF ReturnFetched, Finish, Goto, local
<1>7. CASE ListingFails(p)
  BY <1>0, <1>7, AsideOrphan DEF ListingFails, Goto
<1>8. ASSUME NEW d \in Day, RemovalFails(p, d) PROVE TornHasWriter'
  BY <1>0, <1>8, AsideOrphan DEF RemovalFails
<1> QED BY <1>1, <1>2, <1>3, <1>4, <1>5, <1>6, <1>7, <1>8 DEF StoreStep

LEMMA InitOrphan == Init => TornHasWriter
<1> SUFFICES ASSUME Init PROVE TornHasWriter
  OBVIOUS
<1>1. Orphans = {}
  BY DEF Init, Orphans, Absent
<1>2. Cardinality(Orphans) = 0 /\ faults = 0
  BY <1>1, FS_EmptySet DEF Init
<1> QED BY <1>2 DEF TornHasWriter, Orphans

LEMMA NextOrphan == TypeInv /\ TornHasWriter /\ [Next]_vars => TornHasWriter'
<1> SUFFICES ASSUME TypeInv, TornHasWriter, [Next]_vars PROVE TornHasWriter'
  OBVIOUS
<1>0. /\ pc \in [Proc -> States] /\ keep \in [Proc -> Day \cup {NoDay}]
      /\ linked \in [Proc -> BOOLEAN]
  BY DEF TypeInv, TypeOK
<1>1. CASE Midnight
  BY <1>1 DEF Midnight, local, TornHasWriter, BeingWritten
<1>2. ASSUME NEW p \in Proc, Begin(p) PROVE TornHasWriter'
  BY <1>0, <1>2, AsideOrphan DEF Begin, Goto
<1>3. ASSUME NEW p \in Proc, LoadStep(p) PROVE TornHasWriter'
  <2>1. CASE CallFails(p)
    BY <1>0, <2>1, AsideOrphan DEF CallFails, IoError, Finish, Goto
  <2> QED BY <1>3, <2>1, FindOrphan, FetchOrphan, StoreOrphan DEF LoadStep
<1>4. ASSUME NEW p \in Proc, Crash(p) PROVE TornHasWriter'
  <2>1. Orphans' \subseteq Orphans \cup {keep[p]}
    BY <1>0, <1>4 DEF Crash, Finish, Goto, Orphans, BeingWritten
  <2> QED BY <1>4, <2>1, FaultOrphan DEF Crash
<1>5. CASE UNCHANGED vars
  BY <1>5 DEF vars, local, TornHasWriter, BeingWritten
<1> QED BY <1>1, <1>2, <1>3, <1>4, <1>5 DEF Next

(* However many processes create, truncate, write and remove, a file that  *)
(* is not wholly written has a live writer, unless a death or a failed     *)
(* write left it (cache.rs, load_or_fetch).                                *)
THEOREM TornFilesAreFaults == Safety => []TornHasWriter
BY InitOrphan, NextOrphan, TypesInvariant, PTL DEF Safety

-----------------------------------------------------------------------------
(* Files at rest.  A load that stores has undertaken to remove every file  *)
(* but its own.  OneFileAtRest is not inductive: what holds at every step  *)
(* is that, whichever loads S were to end here, the others would leave one *)
(* file, one for each fault and one for each load of S that has created    *)
(* its own, not counting the files a cleanup has spared.                   *)

Storing == {p \in Proc : pc[p] \in {"write", "cleanup", "remove"}}

Removes(p, d) ==
  \/ pc[p] \in {"create", "write", "cleanup"} /\ d # keep[p]
  \/ pc[p] = "remove" /\ d \in names[p]

Left(S) == {d \in Names \ spared : \A p \in Proc \ S : ~Removes(p, d)}

LeftInv ==
  \A S \in SUBSET Proc :
    IsFiniteSet(S) => Cardinality(Left(S)) <= 1 + faults + Cardinality(S \cap Storing)

\* What a writer has open is there.
LinkInv ==
  \A p \in Proc : /\ pc[p] = "create" => keep[p] \in Day
                  /\ pc[p] = "write" /\ linked[p] => keep[p] \in Names

RestInv == LeftInv /\ LinkInv

LEMMA LeftFinite ==
  \A S : /\ IsFiniteSet(Left(S)) /\ Cardinality(Left(S)) \in Nat
         /\ IsFiniteSet(S) => IsFiniteSet(S \cap Storing) /\ Cardinality(S \cap Storing) \in Nat
<1>1. \A S : Left(S) \in SUBSET Day
  BY DEF Left, Names
<1>2. \A S : IsFiniteSet(S) => IsFiniteSet(S \cap Storing) /\ Cardinality(S \cap Storing) \in Nat
  BY FS_Intersection, FS_CardinalityType
<1> QED BY <1>1, <1>2, OrphansFinite

LEMMA AddOne ==
  ASSUME NEW S, IsFiniteSet(S), NEW x
  PROVE  /\ IsFiniteSet(S \cup {x}) /\ Cardinality(S \cup {x}) \in Nat
         /\ Cardinality(S \cup {x}) <= Cardinality(S) + 1
<1>1. Cardinality(S) \in Nat
  BY FS_CardinalityType
<1>2. /\ IsFiniteSet(S \cup {x})
      /\ Cardinality(S \cup {x}) = Cardinality(S) \/ Cardinality(S \cup {x}) = Cardinality(S) + 1
  BY FS_AddElement
<1> QED BY <1>1, <1>2

LEMMA FaultsType == TypeInv => faults \in Nat
BY CacheAssumption, SMT DEF TypeInv, TypeOK

\* A step after which no more files are left over, whoever goes.
LEMMA FewerLeft ==
  ASSUME TypeInv, LeftInv, Storing' = Storing, faults' = faults,
         \A S \in SUBSET Proc : Left(S)' \subseteq Left(S)
  PROVE  LeftInv'
<1> SUFFICES ASSUME NEW S \in SUBSET Proc, IsFiniteSet(S)
             PROVE  Cardinality(Left(S)') <= 1 + faults + Cardinality(S \cap Storing)
  BY DEF LeftInv
<1>1. Cardinality(Left(S)') <= Cardinality(Left(S)) /\ Cardinality(Left(S)') \in Nat
  BY LeftFinite, FS_Subset, FS_CardinalityType
<1>2. Cardinality(Left(S)) <= 1 + faults + Cardinality(S \cap Storing)
  BY DEF LeftInv
<1> QED BY <1>1, <1>2, LeftFinite, FaultsType, SMT

\* The steps of a load before it stores.
LEMMA AsideRest ==
  ASSUME TypeInv, RestInv, NEW p \in Proc,
         pc[p] \notin {"create", "write", "cleanup", "remove"},
         pc'[p] \notin {"write", "cleanup", "remove"},
         pc'[p] = "create" => keep'[p] \in Day,
         UNCHANGED <<disk, linked, faults, spared>>,
         \A q \in Proc \ {p} : pc'[q] = pc[q] /\ keep'[q] = keep[q] /\ names'[q] = names[q]
  PROVE  RestInv'
<1>1. Storing' = Storing
  BY DEF Storing
<1>2. Names' = Names
  BY DEF Names
<1>3. \A q \in Proc, d \in Day : Removes(q, d) => Removes(q, d)'
  BY DEF Removes
<1>4. \A S \in SUBSET Proc : Left(S)' \subseteq Left(S)
  BY <1>2, <1>3 DEF Left, Names
<1>5. LeftInv'
  BY <1>1, <1>4, FewerLeft DEF RestInv
<1>6. LinkInv'
  BY <1>2 DEF RestInv, LinkInv
<1> QED BY <1>5, <1>6 DEF RestInv

\* A load that leaves, by a fault, with nothing left to remove or with
\* nothing stored.
LEMMA LeavingRest ==
  ASSUME TypeInv, RestInv, NEW p \in Proc, pc'[p] = "idle",
         UNCHANGED <<disk, spared>>,
         \A q \in Proc \ {p} :
           pc'[q] = pc[q] /\ keep'[q] = keep[q] /\ names'[q] = names[q] /\ linked'[q] = linked[q],
         \/ faults' = faults + 1
         \/ faults' = faults /\ \A d \in Day : ~Removes(p, d)
         \/ faults' = faults /\ p \notin Storing
  PROVE  RestInv'
<1>1. Names' = Names /\ p \notin Storing' /\ Storing' = Storing \ {p}
  BY DEF Names, Storing
<1>2. LinkInv'
  BY <1>1 DEF RestInv, LinkInv
<1>3. ASSUME NEW S \in SUBSET Proc, IsFiniteSet(S)
      PROVE  Cardinality(Left(S)') <= 1 + faults' + Cardinality(S \cap Storing')
  <2> DEFINE T == S \cup {p}
             U == S \ {p}
  <2>1. IsFiniteSet(T) /\ T \in SUBSET Proc /\ IsFiniteSet(U) /\ U \in SUBSET Proc
    BY <1>3, FS_AddElement, FS_RemoveElement
  <2>2. Cardinality(S \cap Storing') = Cardinality(U \cap Storing)
    <3>1. S \cap Storing' = U \cap Storing
      BY <1>1
    <3> QED BY <3>1
  <2>0. /\ Cardinality(U \cap Storing) \in Nat /\ Cardinality(T \cap Storing) \in Nat
        /\ Cardinality(Left(T)) \in Nat /\ Cardinality(Left(U)) \in Nat /\ faults \in Nat
    BY <2>1, LeftFinite, FaultsType
  <2>5. /\ Cardinality(Left(S)') \in Nat
        /\ Cardinality(Left(S)') <= 1 + faults + Cardinality(T \cap Storing)
    <3>1. Left(S)' \subseteq Left(T)
      BY <1>1 DEF Left, Removes
    <3>2. Cardinality(Left(S)') <= Cardinality(Left(T)) /\ Cardinality(Left(S)') \in Nat
      BY <3>1, LeftFinite, FS_Subset, FS_CardinalityType
    <3>3. Cardinality(Left(T)) <= 1 + faults + Cardinality(T \cap Storing)
      BY <2>1 DEF RestInv, LeftInv
    <3> HIDE DEF T, U
    <3> QED BY <2>0, <3>2, <3>3, SMT
  <2>3. CASE faults' = faults + 1
    <3>1. Cardinality(T \cap Storing) <= Cardinality(U \cap Storing) + 1
      <4>1. T \cap Storing \subseteq (U \cap Storing) \cup {p}
        OBVIOUS
      <4>2. IsFiniteSet(U \cap Storing) /\ Cardinality(U \cap Storing) \in Nat
        BY <2>1, LeftFinite
      <4>3. /\ IsFiniteSet((U \cap Storing) \cup {p})
            /\ Cardinality((U \cap Storing) \cup {p}) \in Nat
            /\ Cardinality((U \cap Storing) \cup {p}) <= Cardinality(U \cap Storing) + 1
        BY <4>2, AddOne
      <4>4. Cardinality(T \cap Storing) <= Cardinality((U \cap Storing) \cup {p})
        BY <4>1, <4>3, FS_Subset
      <4> QED BY <2>0, <4>3, <4>4
    <3> HIDE DEF T, U
    <3> QED BY <2>0, <2>2, <2>3, <2>5, <3>1, SMT
  <2>4. CASE faults' = faults /\ \A d \in Day : ~Removes(p, d)
    <3>1. Left(S)' \subseteq Left(U)
      BY <1>1, <2>4 DEF Left, Removes, Names
    <3>2. Cardinality(Left(S)') <= Cardinality(Left(U)) /\ Cardinality(Left(S)') \in Nat
      BY <3>1, LeftFinite, FS_Subset, FS_CardinalityType
    <3>3. Cardinality(Left(U)) <= 1 + faults + Cardinality(U \cap Storing)
      BY <2>1 DEF RestInv, LeftInv
    <3> HIDE DEF U
    <3> QED BY <2>0, <2>2, <2>4, <3>2, <3>3, SMT
  <2>7. CASE faults' = faults /\ p \notin Storing
    <3>1. T \cap Storing = U \cap Storing
      BY <2>7
    <3>2. Cardinality(T \cap Storing) = Cardinality(S \cap Storing')
      BY <2>2, <3>1
    <3> HIDE DEF T, U
    <3> QED BY <2>5, <2>7, <3>2
  <2> QED BY <2>3, <2>4, <2>7
<1> QED BY <1>2, <1>3 DEF RestInv, LeftInv

LEMMA BeginRest ==
  ASSUME TypeInv, RestInv, NEW p \in Proc, Begin(p) \/ FindStep(p) \/ FetchStep(p)
  PROVE  RestInv'
<1>0. /\ pc \in [Proc -> States] /\ keep \in [Proc -> Day \cup {NoDay}]
      /\ names \in [Proc -> SUBSET Day] /\ today \in Day
  BY DEF TypeInv, TypeOK
<1>1. CASE Begin(p)
  BY <1>0, <1>1, AsideRest DEF Begin, Goto
<1>2. CASE ListDirectory(p)
  BY <1>0, <1>2, AsideRest DEF ListDirectory, Goto
<1>3. ASSUME NEW d \in Day, StatEntry(p, d) PROVE RestInv'
  BY <1>0, <1>3, AsideRest DEF StatEntry, IoError, Finish, Goto
<1>4. CASE ChooseFile(p)
  BY <1>0, <1>4, AsideRest DEF ChooseFile, Goto, local
<1>5. CASE ReadFile(p)
  BY <1>0, <1>5, AsideRest DEF ReadFile, IoError, Finish, Goto, local
<1>6. CASE FetchOk(p)
  BY <1>0, <1>6, AsideRest DEF FetchOk, Goto
<1>7. ASSUME NEW f \in {"transient", "permanent"}, FetchFails(p, f)
      PROVE  RestInv'
  BY <1>0, <1>7, AsideRest DEF FetchFails, Finish, Goto, local
<1> QED BY <1>1, <1>2, <1>3, <1>4, <1>5, <1>6, <1>7 DEF FindStep, FetchStep

\* A load that has undertaken to remove every file but its own leaves that one.
LEMMA OwnLeft ==
  ASSUME TypeInv, NEW p \in Proc, NEW S \in SUBSET (Proc \ {p}), IsFiniteSet(S),
         \A d \in Names' \ spared' : d # keep[p] => Removes(p, d)', faults' = faults
  PROVE  Cardinality(Left(S)') <= 1 + faults' + Cardinality(S \cap Storing')
<1>1. Left(S)' \subseteq {keep[p]}
  BY DEF Left
<1>2. Cardinality(Left(S)') <= 1 /\ Cardinality(Left(S)') \in Nat
  <2>1. IsFiniteSet({keep[p]}) /\ Cardinality({keep[p]}) = 1
    BY FS_Singleton
  <2>2. Cardinality(Left(S)') <= Cardinality({keep[p]}) /\ IsFiniteSet(Left(S)')
    BY <1>1, <2>1, FS_Subset
  <2> QED BY <2>1, <2>2, FS_CardinalityType
<1>3. IsFiniteSet(S \cap Storing') /\ Cardinality(S \cap Storing') \in Nat
  BY FS_Intersection, FS_CardinalityType
<1> QED BY <1>2, <1>3, FaultsType, SMT

LEMMA CreateRest ==
  ASSUME TypeInv, RestInv, NEW p \in Proc, CreateFile(p)
  PROVE  RestInv'
<1>0. /\ pc \in [Proc -> States] /\ disk \in [Day -> Files] /\ linked \in [Proc -> BOOLEAN]
      /\ keep[p] \in Day
  BY DEF TypeInv, TypeOK, RestInv, LinkInv, CreateFile
<1>1. /\ pc' = [pc EXCEPT ![p] = "write"] /\ pc[p] = "create"
      /\ linked' = [linked EXCEPT ![p] = TRUE]
      /\ spared' = spared \ {keep[p]}
      /\ UNCHANGED <<keep, names, faults>>
  BY DEF CreateFile, Goto
<1>2. Names' = Names \cup {keep[p]}
  BY <1>0 DEF CreateFile, Names
<1>3. Storing' = Storing \cup {p} /\ p \notin Storing
  BY <1>0, <1>1 DEF Storing
<1>4. LinkInv'
  BY <1>0, <1>1, <1>2 DEF RestInv, LinkInv
<1>5. \A q \in Proc, d \in Day : Removes(q, d) = Removes(q, d)'
  BY <1>0, <1>1 DEF Removes
<1>6. ASSUME NEW S \in SUBSET Proc, IsFiniteSet(S), p \in S
      PROVE  Cardinality(Left(S)') <= 1 + faults' + Cardinality(S \cap Storing')
  <2>1. Left(S)' \subseteq Left(S) \cup {keep[p]}
    BY <1>1, <1>2, <1>5 DEF Left, Names
  <2>2. IsFiniteSet(Left(S)) /\ Cardinality(Left(S)) \in Nat
    BY LeftFinite
  <2>3. /\ Cardinality(Left(S) \cup {keep[p]}) <= Cardinality(Left(S)) + 1
        /\ IsFiniteSet(Left(S) \cup {keep[p]})
        /\ Cardinality(Left(S) \cup {keep[p]}) \in Nat
    BY <2>2, AddOne
  <2>4. Cardinality(Left(S)') <= Cardinality(Left(S) \cup {keep[p]}) /\ Cardinality(Left(S)') \in Nat
    BY <2>1, <2>3, FS_Subset, FS_CardinalityType
  <2>5. IsFiniteSet(S \cap Storing) /\ Cardinality(S \cap Storing) \in Nat
    BY <1>6, LeftFinite
  <2>6. S \cap Storing' = (S \cap Storing) \cup {p} /\ p \notin S \cap Storing
    BY <1>3, <1>6
  <2>7. Cardinality(S \cap Storing') = Cardinality(S \cap Storing) + 1
    BY <2>5, <2>6, FS_AddElement
  <2>8. Cardinality(Left(S)) <= 1 + faults + Cardinality(S \cap Storing)
    BY <1>6 DEF RestInv, LeftInv
  <2> QED BY <1>1, <2>2, <2>3, <2>4, <2>5, <2>7, <2>8, FaultsType, SMT
<1>7. ASSUME NEW S \in SUBSET Proc, IsFiniteSet(S), p \notin S
      PROVE  Cardinality(Left(S)') <= 1 + faults' + Cardinality(S \cap Storing')
  <2>1. \A d \in Names' \ spared' : d # keep[p] => Removes(p, d)'
    BY <1>0, <1>1 DEF Removes
  <2> QED BY <1>1, <1>7, <2>1, OwnLeft
<1> QED BY <1>4, <1>6, <1>7 DEF RestInv, LeftInv

\* Whatever the listing did not reach is spared.
LEMMA ListRest ==
  ASSUME TypeInv, RestInv, NEW p \in Proc, ListOutdated(p) \/ ListingFails(p)
  PROVE  RestInv'
<1>0. pc \in [Proc -> States] /\ names \in [Proc -> SUBSET Day]
  BY DEF TypeInv, TypeOK
<1>1. /\ pc' = [pc EXCEPT ![p] = "remove"] /\ pc[p] = "cleanup"
      /\ UNCHANGED <<disk, keep, linked, faults>>
  BY DEF ListOutdated, ListingFails, Goto
<1>6. PICK listed \in SUBSET {d \in Names : d # keep[p]} :
        /\ names' = [names EXCEPT ![p] = listed]
        /\ spared' = spared \cup ({d \in Names : d # keep[p]} \ listed)
  <2>1. CASE ListOutdated(p)
    <3>1. /\ names' = [names EXCEPT ![p] = {d \in Names : d # keep[p]}]
          /\ spared' = spared
      BY <2>1 DEF ListOutdated, ToRemove, Outdated
    <3>2. spared' = spared \cup ({d \in Names : d # keep[p]} \ {d \in Names : d # keep[p]})
      BY <3>1
    <3> QED BY <3>1, <3>2
  <2>2. CASE ListingFails(p)
    BY <2>2 DEF ListingFails, ToRemove, Outdated
  <2> QED BY <2>1, <2>2
<1>2. Names' = Names /\ Storing' = Storing
  BY <1>0, <1>1 DEF Names, Storing
<1>3. LinkInv'
  BY <1>0, <1>1, <1>2 DEF RestInv, LinkInv
<1>4. ASSUME NEW S \in SUBSET Proc, IsFiniteSet(S), p \in S
      PROVE  Cardinality(Left(S)') <= 1 + faults' + Cardinality(S \cap Storing')
  <2>1. \A q \in Proc \ S, d \in Day : Removes(q, d) = Removes(q, d)'
    BY <1>0, <1>1, <1>4, <1>6 DEF Removes
  <2>2. Left(S)' \subseteq Left(S)
    BY <1>2, <1>6, <2>1 DEF Left, Names
  <2>3. Cardinality(Left(S)') <= Cardinality(Left(S)) /\ Cardinality(Left(S)') \in Nat
    BY <2>2, LeftFinite, FS_Subset, FS_CardinalityType
  <2>4. Cardinality(Left(S)) <= 1 + faults + Cardinality(S \cap Storing)
    BY <1>4 DEF RestInv, LeftInv
  <2>5. Cardinality(S \cap Storing) \in Nat /\ Cardinality(Left(S)) \in Nat /\ faults \in Nat
    BY <1>4, LeftFinite, FaultsType
  <2>6. Cardinality(Left(S)') <= 1 + faults + Cardinality(S \cap Storing)
    BY <2>3, <2>4, <2>5
  <2> QED BY <1>1, <1>2, <2>6
<1>5. ASSUME NEW S \in SUBSET Proc, IsFiniteSet(S), p \notin S
      PROVE  Cardinality(Left(S)') <= 1 + faults' + Cardinality(S \cap Storing')
  <2>1. \A d \in Names' \ spared' : d # keep[p] => Removes(p, d)'
    BY <1>0, <1>1, <1>2, <1>6 DEF Removes
  <2> QED BY <1>1, <1>5, <2>1, OwnLeft
<1> QED BY <1>3, <1>4, <1>5 DEF RestInv, LeftInv

LEMMA StoreRest ==
  ASSUME TypeInv, RestInv, NEW p \in Proc, StoreStep(p)
  PROVE  RestInv'
<1>0. /\ pc \in [Proc -> States] /\ disk \in [Day -> Files] /\ linked \in [Proc -> BOOLEAN]
      /\ names \in [Proc -> SUBSET Day]
  BY DEF TypeInv, TypeOK
<1>1. CASE CreateFile(p)
  BY <1>1, CreateRest
\* A write adds no name.
<1>2. CASE WriteFile(p)
  <2>1. /\ pc' = [pc EXCEPT ![p] = "cleanup"] /\ pc[p] = "write"
        /\ linked' = [linked EXCEPT ![p] = FALSE]
        /\ UNCHANGED <<keep, names, faults, spared>>
    BY <1>2 DEF WriteFile, Goto
  <2>2. Names' = Names
    <3>1. CASE linked[p]
      <4>1. keep[p] \in Names /\ disk' = [disk EXCEPT ![keep[p]] = Written]
        BY <1>2, <2>1, <3>1 DEF WriteFile, RestInv, LinkInv
      <4> QED BY <1>0, <4>1 DEF Names, Written
    <3>2. CASE ~linked[p]
      BY <1>2, <3>2 DEF WriteFile, Names
    <3> QED BY <3>1, <3>2
  <2>3. Storing' = Storing
    BY <1>0, <2>1 DEF Storing
  <2>4. \A q \in Proc, d \in Day : Removes(q, d) = Removes(q, d)'
    BY <1>0, <2>1 DEF Removes
  <2>5. LinkInv'
    BY <1>0, <2>1, <2>2 DEF RestInv, LinkInv
  <2>6. \A S \in SUBSET Proc : Left(S)' \subseteq Left(S)
    BY <2>1, <2>2, <2>4 DEF Left, Names
  <2> QED BY <2>1, <2>3, <2>5, <2>6, FewerLeft DEF RestInv
<1>3. CASE WriteFails(p)
  BY <1>0, <1>3, LeavingRest DEF WriteFails, IoError, Finish, Goto
<1>4. CASE ListOutdated(p)
  BY <1>4, ListRest
<1>7. CASE ListingFails(p)
  BY <1>7, ListRest
<1>5. ASSUME NEW d \in Day, RemoveFile(p, d) PROVE RestInv'
  <2>1. /\ names' = [names EXCEPT ![p] = @ \ {d}]
        /\ linked' = [q \in Proc |-> linked[q] /\ keep[q] # d]
        /\ spared' = spared \ {d}
        /\ UNCHANGED <<pc, keep, faults>>
    BY <1>5 DEF RemoveFile
  <2>2. Names' = Names \ {d}
    BY <1>0, <1>5 DEF RemoveFile, Names, Absent
  <2>3. Storing' = Storing
    BY <2>1 DEF Storing
  <2>4. \A q \in Proc, e \in Day : e # d /\ Removes(q, e) => Removes(q, e)'
    BY <1>0, <2>1 DEF Removes
  <2>5. LinkInv'
    BY <2>1, <2>2 DEF RestInv, LinkInv
  <2>6. \A S \in SUBSET Proc : Left(S)' \subseteq Left(S)
    BY <2>1, <2>2, <2>4 DEF Left, Names
  <2> QED BY <2>1, <2>3, <2>5, <2>6, FewerLeft DEF RestInv
<1>6. CASE ReturnFetched(p)
  <2>1. \A d \in Day : ~Removes(p, d)
    BY <1>6 DEF ReturnFetched, Removes
  <2> QED BY <1>0, <1>6, <2>1, LeavingRest DEF ReturnFetched, Finish, Goto, local
\* A file that could not be removed is spared.
<1>8. ASSUME NEW d \in Day, RemovalFails(p, d) PROVE RestInv'
  <2>1. /\ names' = [names EXCEPT ![p] = @ \ {d}]
        /\ spared' = spared \cup {d}
        /\ UNCHANGED <<disk, pc, keep, linked, faults>>
    BY <1>8 DEF RemovalFails
  <2>2. Names' = Names /\ Storing' = Storing
    BY <2>1 DEF Names, Storing
  <2>3. \A q \in Proc, e \in Day : e # d /\ Removes(q, e) => Removes(q, e)'
    BY <1>0, <2>1 DEF Removes
  <2>4. LinkInv'
    BY <2>1, <2>2 DEF RestInv, LinkInv
  <2>5. \A S \in SUBSET Proc : Left(S)' \subseteq Left(S)
    BY <2>1, <2>2, <2>3 DEF Left, Names
  <2> QED BY <2>1, <2>2, <2>4, <2>5, FewerLeft DEF RestInv
<1> QED BY <1>1, <1>2, <1>3, <1>4, <1>5, <1>6, <1>7, <1>8 DEF StoreStep

LEMMA InitRest == Init => RestInv
<1> SUFFICES ASSUME Init PROVE RestInv
  OBVIOUS
<1>1. Names = {} /\ faults = 0
  BY DEF Init, Names, Absent
<1>2. ASSUME NEW S, IsFiniteSet(S)
      PROVE  Cardinality(Left(S)) <= 1 + faults + Cardinality(S \cap Storing)
  <2>1. Left(S) = {}
    BY <1>1 DEF Left
  <2>2. Cardinality(Left(S)) = 0 /\ Cardinality(S \cap Storing) \in Nat
    BY <1>2, <2>1, FS_EmptySet, LeftFinite
  <2> QED BY <1>1, <2>2
<1>3. LinkInv
  BY DEF Init, LinkInv
<1> QED BY <1>2, <1>3 DEF RestInv, LeftInv

LEMMA NextRest == TypeInv /\ RestInv /\ [Next]_vars => RestInv'
<1> SUFFICES ASSUME TypeInv, RestInv, [Next]_vars PROVE RestInv'
  OBVIOUS
<1>0. /\ pc \in [Proc -> States] /\ names \in [Proc -> SUBSET Day] /\ linked \in [Proc -> BOOLEAN]
  BY DEF TypeInv, TypeOK
<1>1. CASE UNCHANGED <<disk, pc, keep, names, linked, faults, spared>>
  <2>1. Names' = Names /\ Storing' = Storing /\ \A q \in Proc, d \in Day : Removes(q, d) = Removes(q, d)'
    BY <1>1 DEF Names, Storing, Removes
  <2>2. \A S \in SUBSET Proc : Left(S)' \subseteq Left(S)
    BY <1>1, <2>1 DEF Left, Names
  <2>3. LinkInv'
    BY <1>1, <2>1 DEF RestInv, LinkInv
  <2> QED BY <1>1, <2>1, <2>2, <2>3, FewerLeft DEF RestInv
<1>2. CASE Midnight \/ UNCHANGED vars
  BY <1>1, <1>2 DEF Midnight, vars, local
<1>3. ASSUME NEW p \in Proc, Begin(p) PROVE RestInv'
  BY <1>3, BeginRest
<1>4. ASSUME NEW p \in Proc, LoadStep(p) PROVE RestInv'
  <2>1. CASE CallFails(p)
    <3>1. p \notin Storing
      BY <2>1 DEF CallFails, Storing
    <3> QED BY <1>0, <2>1, <3>1, LeavingRest DEF CallFails, IoError, Finish, Goto
  <2> QED BY <1>4, <2>1, BeginRest, StoreRest DEF LoadStep
<1>5. ASSUME NEW p \in Proc, Crash(p) PROVE RestInv'
  BY <1>0, <1>5, LeavingRest DEF Crash, Finish, Goto
<1> QED BY <1>2, <1>3, <1>4, <1>5 DEF Next

(* cleanup: whichever loads race, across midnight and through each other's *)
(* listings, what they leave together when none runs is one file at most,  *)
(* one more for each death or failed write, and the files whose listing or *)
(* removal failed since they were created.                                 *)
THEOREM OneFileIsLeft == Safety => []OneFileAtRest
<1>1. TypeInv /\ RestInv => OneFileAtRest
  <2> SUFFICES ASSUME TypeInv, RestInv, \A p \in Proc : pc[p] = "idle"
               PROVE  Cardinality(Names \ spared) <= 1 + faults
    BY DEF OneFileAtRest
  <2>1. Left({}) = Names \ spared /\ {} \cap Storing = {}
    BY DEF Left, Removes
  <2>2. Cardinality(Left({})) <= 1 + faults + Cardinality({} \cap Storing)
    BY FS_EmptySet DEF RestInv, LeftInv
  <2>3. Cardinality({} \cap Storing) = 0
    BY <2>1, FS_EmptySet
  <2> QED BY <2>1, <2>2, <2>3, FaultsType
<1> QED BY <1>1, InitRest, NextRest, TypesInvariant, PTL DEF Safety
-----------------------------------------------------------------------------
(* Networks and masks.  The prover knows nothing of powers: it learns from *)
(* FS_SUBSET that 2^n counts the subsets of 1..n.  Induction over Nat for  *)
(* a set, where NatInduction is about an operator.                         *)

LEMMA NatSetInduction ==
  ASSUME NEW S, 0 \in S, \A n \in Nat : n \in S => n + 1 \in S
  PROVE  Nat \subseteq S
<1> SUFFICES ASSUME NEW m \in Nat, m \notin S PROVE FALSE
  OBVIOUS
<1> DEFINE Below == {k \in 0..m : k \in S}
           f == [k \in Below |-> k + 1]
<1>1. IsFiniteSet(Below)
  <2>1. IsFiniteSet(0..m)
    BY FS_Interval, 0 \in Int, m \in Int
  <2> QED BY <2>1, FS_Subset, Below \in SUBSET (0..m)
<1>2. /\ IsFiniteSet(Below \ {0})
      /\ Cardinality(Below \ {0}) = Cardinality(Below) - 1
  BY <1>1, FS_RemoveElement, 0 \in Below
<1>3. f \in [Below -> Below \ {0}]
  OBVIOUS
<1>4. Cardinality(Below \ {0}) < Cardinality(Below)
  BY <1>1, <1>2, FS_CardinalityType
<1>5. \E x, y \in Below : x # y /\ f[x] = f[y]
  <2> HIDE DEF Below, f
  <2> QED BY <1>1, <1>2, <1>3, <1>4, FS_PigeonHole
<1> QED BY <1>5

LEMMA PowerZero == 2^0 = 1
<1>1. IsFiniteSet({}) /\ Cardinality({}) = 0
  BY FS_EmptySet
<1>2. Cardinality(SUBSET {}) = 2^Cardinality({})
  BY <1>1, FS_SUBSET
<1>3. SUBSET {} = {{}}
  OBVIOUS
<1>4. Cardinality({{}}) = 1
  BY FS_Singleton
<1> QED BY <1>1, <1>2, <1>3, <1>4

LEMMA PowerOfSet ==
  ASSUME NEW n \in Nat
  PROVE  /\ IsFiniteSet(SUBSET (1..n)) /\ Cardinality(SUBSET (1..n)) = 2^n
         /\ 2^n \in Nat
<1>1. IsFiniteSet(1..n) /\ Cardinality(1..n) = n
  <2>1. IsFiniteSet(1..n) /\ Cardinality(1..n) = IF 1 > n THEN 0 ELSE n - 1 + 1
    BY 1 \in Int, n \in Int, FS_Interval
  <2> QED BY <2>1
<1>2. IsFiniteSet(SUBSET (1..n)) /\ Cardinality(SUBSET (1..n)) = 2^Cardinality(1..n)
  BY <1>1, FS_SUBSET
<1> QED BY <1>1, <1>2, FS_CardinalityType

LEMMA PowerDoubles ==
  ASSUME NEW n \in Nat
  PROVE  2^(n + 1) = 2 * 2^n
<1> DEFINE Low == SUBSET (1..n)
           High == {s \cup {n + 1} : s \in Low}
           f == [s \in Low |-> s \cup {n + 1}]
<1>1. /\ IsFiniteSet(Low) /\ Cardinality(Low) = 2^n /\ 2^n \in Nat
  BY PowerOfSet
<1>2. Cardinality(SUBSET (1..(n + 1))) = 2^(n + 1)
  BY PowerOfSet, n + 1 \in Nat
<1>3. SUBSET (1..(n + 1)) = Low \cup High
  <2>1. 1..(n + 1) = (1..n) \cup {n + 1}
    OBVIOUS
  <2>2. ASSUME NEW s \in SUBSET (1..(n + 1)), n + 1 \in s
        PROVE  s \in High
    <3>1. s \ {n + 1} \in Low /\ s = (s \ {n + 1}) \cup {n + 1}
      BY <2>1, <2>2
    <3> QED BY <3>1
  <2>3. ASSUME NEW s \in SUBSET (1..(n + 1)), n + 1 \notin s
        PROVE  s \in Low
    BY <2>1, <2>3
  <2>4. Low \subseteq SUBSET (1..(n + 1)) /\ High \subseteq SUBSET (1..(n + 1))
    BY <2>1
  <2> QED BY <2>2, <2>3, <2>4
<1>4. Low \cap High = {}
  <2>1. \A s \in Low : n + 1 \notin s
    OBVIOUS
  <2> QED BY <2>1
<1>5. IsFiniteSet(High) /\ Cardinality(High) = 2^n
  <2>1. f \in Bijection(Low, High)
    <3>1. \A s \in Low : n + 1 \notin s
      OBVIOUS
    <3>2. f \in [Low -> High] /\ \A t \in High : \E s \in Low : f[s] = t
      OBVIOUS
    <3>3. ASSUME NEW s \in Low, NEW t \in Low, f[s] = f[t] PROVE s = t
      <4>1. s \cup {n + 1} = t \cup {n + 1}
        BY <3>3
      <4> QED BY <4>1, <3>1
    <3> HIDE DEF Low, High, f
    <3> QED BY <3>2, <3>3 DEF Bijection, Injection, Surjection, IsInjective
  <2>2. ExistsBijection(Low, High)
    BY <2>1 DEF ExistsBijection
  <2> HIDE DEF Low, High, f
  <2> QED BY <1>1, <2>2, FS_Bijection
<1>6. Cardinality(Low \cup High) = 2^n + 2^n - Cardinality(Low \cap High)
  <2> HIDE DEF Low, High
  <2> QED BY <1>1, <1>5, FS_Union
<1>7. Cardinality({}) = 0
  BY FS_EmptySet
<1>8. Cardinality(Low \cup High) = 2^n + 2^n
  <2> HIDE DEF Low, High
  <2>1. Cardinality(Low \cap High) = 0
    BY <1>4, <1>7
  <2> QED BY <1>1, <1>6, <2>1
<1>9. 2^(n + 1) = 2^n + 2^n
  BY <1>2, <1>3, <1>8
<1> QED BY <1>1, <1>9

LEMMA DivUnique ==
  ASSUME NEW a \in Nat, NEW d \in Nat \ {0}, NEW q \in Nat, d * q <= a, a < d * (q + 1)
  PROVE  a \div d = q
OBVIOUS

LEMMA DivBounds ==
  ASSUME NEW a \in Nat, NEW d \in Nat \ {0}
  PROVE  /\ a \div d \in Nat
         /\ d * (a \div d) <= a
         /\ a < d * ((a \div d) + 1)
         /\ a - (a % d) = d * (a \div d)
OBVIOUS

LEMMA HalfDiv ==
  ASSUME NEW a \in Nat, NEW c \in Nat \ {0}
  PROVE  /\ a \div (2 * c) \in Nat /\ a \div c \in Nat
         /\ a \div c = 2 * (a \div (2 * c)) + ((a \div c) % 2)
<1> DEFINE x == a \div c
           y == x \div 2
<1>1. x \in Nat /\ c * x <= a /\ a < c * (x + 1)
  BY DivBounds
<1>2. y \in Nat /\ x = 2 * y + (x % 2) /\ x % 2 \in {0, 1}
  BY <1>1
<1>3. (2 * c) * y <= a /\ a < (2 * c) * (y + 1)
  <2> HIDE DEF x, y
  <2>1. 2 * y <= x /\ x + 1 <= 2 * (y + 1)
    BY <1>1, <1>2
  <2>2. c * (2 * y) <= c * x /\ c * (x + 1) <= c * (2 * (y + 1))
    BY <1>1, <1>2, <2>1
  <2>3. c * (2 * y) = (2 * c) * y /\ c * (2 * (y + 1)) = (2 * c) * (y + 1)
    BY <1>2
  <2> QED BY <1>1, <1>2, <2>2, <2>3
<1>4. a \div (2 * c) = y
  <2> HIDE DEF y
  <2> QED BY <1>2, <1>3, DivUnique, 2 * c \in Nat \ {0}
<1> QED BY <1>1, <1>2, <1>4

LEMMA PowerType == \A n \in Nat : 2^n \in Nat \ {0} /\ 2^(n + 1) = 2 * 2^n
<1> DEFINE S == {n \in Nat : 2^n > 0}
<1>1. \A n \in Nat : 2^n \in Nat /\ 2^(n + 1) = 2 * 2^n
  BY PowerOfSet, PowerDoubles
<1>2. 0 \in S
  BY PowerZero
<1>3. ASSUME NEW n \in Nat, n \in S PROVE n + 1 \in S
  BY <1>1, <1>3
<1>4. Nat \subseteq S
  <2> HIDE DEF S
  <2> QED BY <1>2, <1>3, NatSetInduction
<1> QED BY <1>1, <1>4

\* The first b bits of an address, as a number.
Prefix(a, b) == a \div 2^(Width - b)

LEMMA PrefixGrows ==
  ASSUME NEW a \in Address
  PROVE  /\ \A b \in 0..Width : Prefix(a, b) \in Nat
         /\ Prefix(a, 0) = 0
         /\ \A b \in 0..Width : b < Width =>
              Prefix(a, b + 1) = 2 * Prefix(a, b) + BitOf(a, b + 1)
<1>1. Width \in Nat /\ 2^Width \in Nat \ {0} /\ a \in Nat /\ a < 2^Width
  BY TablesAssumption, PowerType DEF Address
<1>2. ASSUME NEW b \in 0..Width PROVE Prefix(a, b) \in Nat
  <2>1. 2^(Width - b) \in Nat \ {0}
    BY <1>1, PowerType, Width - b \in Nat
  <2> QED BY <1>1, <2>1, DivBounds DEF Prefix
<1>3. Prefix(a, 0) = 0
  <2>1. a \div 2^Width = 0
    <3>1. 2^Width * 0 <= a /\ a < 2^Width * (0 + 1)
      BY <1>1
    <3> QED BY <1>1, <3>1, DivUnique, 0 \in Nat
  <2> QED BY <1>1, <2>1, Width - 0 = Width DEF Prefix
<1>4. ASSUME NEW b \in 0..Width, b < Width
      PROVE  Prefix(a, b + 1) = 2 * Prefix(a, b) + BitOf(a, b + 1)
  <2> DEFINE c == 2^(Width - (b + 1))
  <2>1. Width - (b + 1) \in Nat /\ (Width - (b + 1)) + 1 = Width - b
    BY <1>1, <1>4
  <2>2. c \in Nat \ {0} /\ 2^(Width - b) = 2 * c
    BY <2>1, PowerType
  <2>3. a \div c = 2 * (a \div (2 * c)) + ((a \div c) % 2)
    <3> HIDE DEF c
    <3> QED BY <1>1, <2>2, HalfDiv
  <2> QED BY <2>2, <2>3 DEF Prefix, BitOf
<1> QED BY <1>2, <1>3, <1>4

LEMMA BitsMakePrefix ==
  ASSUME NEW a \in Address, NEW e \in Address, NEW b \in 0..Width
  PROVE  (\A k \in 1..b : BitOf(a, k) = BitOf(e, k)) <=> Prefix(a, b) = Prefix(e, b)
<1> DEFINE Same(n) == \A k \in 1..n : BitOf(a, k) = BitOf(e, k)
           S == {n \in Nat : n <= Width => (Same(n) <=> Prefix(a, n) = Prefix(e, n))}
<1>1. Width \in Nat
  BY TablesAssumption
<1>2. 0 \in S
  <2>1. Same(0) /\ Prefix(a, 0) = Prefix(e, 0)
    BY PrefixGrows
  <2> QED BY <2>1
<1>3. ASSUME NEW n \in Nat, n \in S PROVE n + 1 \in S
  <2> SUFFICES ASSUME n + 1 <= Width
               PROVE  Same(n + 1) <=> Prefix(a, n + 1) = Prefix(e, n + 1)
    OBVIOUS
  <2>1. n \in 0..Width /\ n < Width
    BY <1>1
  <2>2. /\ Prefix(a, n) \in Nat /\ Prefix(e, n) \in Nat
        /\ Prefix(a, n + 1) = 2 * Prefix(a, n) + BitOf(a, n + 1)
        /\ Prefix(e, n + 1) = 2 * Prefix(e, n) + BitOf(e, n + 1)
    BY <2>1, PrefixGrows
  <2>3. BitOf(a, n + 1) \in {0, 1} /\ BitOf(e, n + 1) \in {0, 1}
    <3>1. n + 1 \in 0..Width /\ Prefix(a, n + 1) \in Nat /\ Prefix(e, n + 1) \in Nat
      BY <2>1, PrefixGrows
    <3> QED BY <3>1 DEF BitOf, Prefix
  <2>4. Same(n) <=> Prefix(a, n) = Prefix(e, n)
    BY <1>3, <2>1
  <2>5. Same(n + 1) <=> Same(n) /\ BitOf(a, n + 1) = BitOf(e, n + 1)
    <3>1. 1..(n + 1) = (1..n) \cup {n + 1}
      OBVIOUS
    <3> QED BY <3>1
  <2> HIDE DEF Same
  <2> QED BY <2>2, <2>3, <2>4, <2>5
<1>4. Nat \subseteq S
  <2> HIDE DEF S
  <2> QED BY <1>2, <1>3, NatSetInduction
<1>5. b \in S /\ b <= Width
  BY <1>1, <1>4
<1> QED BY <1>5

LEMMA MaskKeepsPrefix ==
  ASSUME NEW a \in Address, NEW e \in Address, NEW b \in 0..Width
  PROVE  Masked(a, b) = Masked(e, b) <=> Prefix(a, b) = Prefix(e, b)
<1>1. Width \in Nat /\ 2^(Width - b) \in Nat \ {0} /\ a \in Nat /\ e \in Nat
  BY TablesAssumption, PowerType, Width - b \in Nat DEF Address
<1>2. CASE b = 0
  BY <1>2, PrefixGrows DEF Masked
<1>3. CASE b # 0
  <2> DEFINE d == 2^(Width - b)
  <2>1. Masked(a, b) = d * Prefix(a, b) /\ Masked(e, b) = d * Prefix(e, b)
    BY <1>1, <1>3, DivBounds DEF Masked, Prefix
  <2>2. Prefix(a, b) \in Nat /\ Prefix(e, b) \in Nat
    BY PrefixGrows
  <2>3. d \in Nat \ {0}
    BY <1>1
  <2> HIDE DEF d
  <2>4. \A x, y \in Nat : d * x = d * y => x = y
    BY <2>3
  <2> QED BY <2>1, <2>2, <2>4
<1> QED BY <1>2, <1>3

LEMMA MatchesMeanBits ==
  ASSUME NEW i \in DOMAIN Network, NEW a \in Addresses, Parses(Network[i])
  PROVE  NetContains(Network[i], a) <=>
           /\ Network[i].family = "same"
           /\ \A k \in 1..Network[i].bits : BitOf(a, k) = BitOf(Network[i].net, k)
<1> DEFINE line == Network[i]
           R == [net : Nat, bits : Nat, family : {"same", "other"}]
<1>1. line \in R /\ a \in Address
  <2>1. Network \in Seq(R) /\ a \in Address
    BY TablesAssumption
  <2> HIDE DEF R
  <2> QED BY <2>1
<1>2. CASE line.family = "same"
  <2>1. line.net \in Address /\ line.bits \in 0..Width
    BY <1>1, <1>2, TablesAssumption DEF Parses
  <2>2. Masked(a, line.bits) = Masked(line.net, line.bits) <=>
          \A k \in 1..line.bits : BitOf(a, k) = BitOf(line.net, k)
    <3> HIDE DEF line
    <3> QED BY <1>1, <2>1, MaskKeepsPrefix, BitsMakePrefix
  <2> QED BY <1>2, <2>2 DEF NetContains
<1>3. CASE line.family # "same"
  BY <1>3 DEF NetContains
<1> QED BY <1>2, <1>3

LEMMA ListMeansOfficial ==
  ASSUME NEW a \in Addresses
  PROVE  RangesContain(Network, a) <=> Official(a)
<1>1. \A i \in DOMAIN Network : Parses(Network[i]) <=> Network[i].bits <= Width
  BY DEF Parses
<1>2. \A i \in DOMAIN Network : Parses(Network[i]) =>
        (NetContains(Network[i], a) <=>
           /\ Network[i].family = "same"
           /\ \A k \in 1..Network[i].bits : BitOf(a, k) = BitOf(Network[i].net, k))
  BY MatchesMeanBits
<1> QED BY <1>1, <1>2 DEF RangesContain, Official

\* For every width, every list and every number of processes, while no write
\* has failed and no process has died, the masks of cidr.rs take no address
\* that is not official, even of a file that another process is writing; and
\* a whole file's take every official address.
THEOREM OfficialAddressesOnly == Safety => []OnlyOfficialAddresses
<1>1. OnlyOfficialAddresses
  <2> SUFFICES ASSUME NEW p \in Proc, Loaded(p),
                      NEW text \in Texts(got[p].bytes), NEW a \in Addresses
               PROVE  /\ faults = 0 /\ RangesContain(text, a) => Official(a)
                      /\ got[p].bytes = "whole" /\ Official(a) => RangesContain(text, a)
    BY DEF OnlyOfficialAddresses
  <2>1. CASE got[p].bytes = "whole"
    BY <2>1, ListMeansOfficial DEF Texts
  <2>2. CASE got[p].bytes = "torn"
    <3>1. faults = 0 => text = <<>>
      BY <2>2 DEF Texts
    <3>2. ~ RangesContain(<<>>, a)
      BY DEF RangesContain
    <3> QED BY <2>2, <3>1, <3>2
  <2>3. CASE got[p].bytes \notin {"whole", "torn"}
    BY <2>3 DEF Texts
  <2> QED BY <2>1, <2>2, <2>3
<1> QED BY <1>1, PTL
==============================================================================
