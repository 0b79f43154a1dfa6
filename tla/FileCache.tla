------------------------------ MODULE FileCache ------------------------------
(***************************************************************************)
(* FileCache::load_or_fetch for one resource, run by several processes     *)
(* that share the cache directory.  A load looks for a fresh file, or      *)
(* fetches with retries, stores the bytes under the name of the day and    *)
(* removes every other file of the resource.  Each file-system call is a   *)
(* step of its own: the code awaits between them and takes no lock.  Time  *)
(* is counted in days.  Bytes are "torn" (created and not wholly written)  *)
(* or "whole"; overlapping fetches are taken to return the same bytes.     *)
(***************************************************************************)
EXTENDS Integers, FiniteSets

CONSTANTS
  Proc,         \* processes that use the directory
  LastDay,      \* the clock stops here (bound)
  MaxAge,       \* max_age, in days
  MaxAttempts,  \* cfg.retry.max_attempts; the defaults and the program give 3
  MaxFaults     \* deaths and failed writes together (bound)

ASSUME CacheAssumption ==
  /\ LastDay \in Nat /\ MaxAge \in Nat
  /\ MaxAttempts \in Nat \ {0}
  /\ MaxFaults \in Nat

Day == 0..LastDay
NoDay == -1
Absent == [bytes |-> "none", mtime |-> NoDay]

VARIABLES
  today,
  disk,      \* the file under each day's name
  pc,        \* where each process stands in load_or_fetch
  names,     \* names listed and not yet visited
  latest,    \* the latest file seen, with the time it had then
  attempts,  \* fetches that failed in this fetch_with_retry
  keep,      \* the name under which the process stores
  linked,    \* the file it has open is still the one of that name
  faults,    \* history: deaths and failed writes
  spared,    \* history: the names a cleanup has last failed to list or remove
  began,     \* history: the day the load began
  got        \* history: what the last load returned

local == <<names, latest, keep, linked, began>>
vars == <<today, disk, faults, spared, pc, attempts, got, local>>

Names == {d \in Day : disk[d].bytes # "none"}
NoFile == [name |-> NoDay, mtime |-> NoDay]
Nothing == [kind |-> "nothing", bytes |-> "none", mtime |-> NoDay, tries |-> 0]

Init ==
  /\ today = 0
  /\ disk = [d \in Day |-> Absent]
  /\ pc = [p \in Proc |-> "idle"]
  /\ names = [p \in Proc |-> {}]
  /\ latest = [p \in Proc |-> NoFile]
  /\ attempts = [p \in Proc |-> 0]
  /\ keep = [p \in Proc |-> NoDay]
  /\ linked = [p \in Proc |-> FALSE]
  /\ faults = 0
  /\ spared = {}
  /\ began = [p \in Proc |-> 0]
  /\ got = [p \in Proc |-> Nothing]

Goto(p, l) == pc' = [pc EXCEPT ![p] = l]

Finish(p, result) ==
  /\ Goto(p, "idle")
  /\ got' = [got EXCEPT ![p] = result]

IoError(p) == Finish(p, [Nothing EXCEPT !.kind = "io_error"])

-----------------------------------------------------------------------------
(* find_fresh, and the read of the file it chose.                          *)

Begin(p) ==
  /\ pc[p] = "idle"
  /\ Goto(p, "list")
  /\ attempts' = [attempts EXCEPT ![p] = 0]
  /\ began' = [began EXCEPT ![p] = today]
  /\ latest' = [latest EXCEPT ![p] = NoFile]
  /\ keep' = [keep EXCEPT ![p] = NoDay]
  /\ got' = [got EXCEPT ![p] = Nothing]
  /\ UNCHANGED <<faults, spared, today, disk, names, linked>>

ListDirectory(p) ==
  /\ pc[p] = "list"
  /\ Goto(p, "stat")
  /\ names' = [names EXCEPT ![p] = Names]
  /\ UNCHANGED <<faults, spared, today, disk, attempts, got, latest, keep, linked, began>>

\* An entry's time is read when it is visited; one removed since the listing
\* fails the load.
StatEntry(p, d) ==
  /\ pc[p] = "stat"
  /\ d \in names[p]
  /\ IF d \in Names
     THEN /\ names' = [names EXCEPT ![p] = @ \ {d}]
          /\ latest' = [latest EXCEPT ![p] =
                          IF disk[d].mtime > @.mtime
                          THEN [name |-> d, mtime |-> disk[d].mtime] ELSE @]
          /\ UNCHANGED <<pc, got>>
     ELSE /\ IoError(p)
          /\ names' = [names EXCEPT ![p] = {}]
          /\ UNCHANGED latest
  /\ UNCHANGED <<faults, spared, today, disk, attempts, keep, linked, began>>

\* Mutant: what was found counts, however old.
FreshIfAny(f) == f # NoFile

Fresh(f) == f # NoFile /\ today - f.mtime <= MaxAge

ChooseFile(p) ==
  /\ pc[p] = "stat"
  /\ names[p] = {}
  /\ Goto(p, IF Fresh(latest[p]) THEN "read" ELSE "fetch")
  /\ UNCHANGED <<faults, spared, today, disk, attempts, got, local>>

ReadFile(p) ==
  /\ pc[p] = "read"
  /\ LET d == latest[p].name IN
     IF d \in Names
     THEN Finish(p, [Nothing EXCEPT !.kind = "cached",
                       !.bytes = disk[d].bytes, !.mtime = disk[d].mtime])
     ELSE IoError(p)
  /\ UNCHANGED <<faults, spared, today, disk, attempts, local>>

-----------------------------------------------------------------------------
(* fetch_with_retry.  A failure is one that should_retry_error accepts     *)
(* ("transient") or not ("permanent").                                     *)

LastAttempt(p) == attempts[p] + 1 >= MaxAttempts

\* The name is that of the day the bytes arrived, whenever the load began.
FetchOk(p) ==
  /\ pc[p] = "fetch"
  /\ Goto(p, "create")
  /\ attempts' = [attempts EXCEPT ![p] = 0]
  /\ keep' = [keep EXCEPT ![p] = today]
  /\ UNCHANGED <<faults, spared, today, disk, got, names, latest, linked, began>>

FetchFails(p, failure) ==
  /\ pc[p] = "fetch"
  /\ IF failure = "permanent" \/ LastAttempt(p)
     THEN /\ Finish(p, [Nothing EXCEPT !.kind = "retries_exceeded",
                                       !.tries = MaxAttempts])
          /\ attempts' = [attempts EXCEPT ![p] = 0]
     ELSE /\ attempts' = [attempts EXCEPT ![p] = @ + 1]
          /\ UNCHANGED <<pc, got>>
  /\ UNCHANGED <<faults, spared, today, disk, local>>

\* create_dir_all, read_dir, next_entry, metadata, read or create fails: the
\* load ends with the error and has changed nothing.
CallFails(p) ==
  /\ pc[p] \in {"list", "stat", "read", "create"}
  /\ IoError(p)
  /\ names' = [names EXCEPT ![p] = {}]
  /\ UNCHANGED <<faults, spared, today, disk, attempts, latest, keep, linked, began>>

-----------------------------------------------------------------------------
(* The store and cleanup.                                                  *)

\* create truncates a file that already has the name, so that another writer
\* of it still holds the same file.
CreateFile(p) ==
  /\ pc[p] = "create"
  /\ Goto(p, "write")
  /\ disk' = [disk EXCEPT ![keep[p]] = [bytes |-> "torn", mtime |-> today]]
  /\ linked' = [linked EXCEPT ![p] = TRUE]
  /\ spared' = spared \ {keep[p]}
  /\ UNCHANGED <<faults, today, attempts, got, names, latest, keep, began>>

\* Mutant: the write never leaves the buffer.
WrittenUnflushed == [bytes |-> "torn", mtime |-> today]

\* What the file holds after write_all and flush.
Written == [bytes |-> "whole", mtime |-> today]

\* A file whose name was removed meanwhile takes the bytes with it.
WriteFile(p) ==
  /\ pc[p] = "write"
  /\ Goto(p, "cleanup")
  /\ disk' = IF linked[p] THEN [disk EXCEPT ![keep[p]] = Written] ELSE disk
  /\ linked' = [linked EXCEPT ![p] = FALSE]
  /\ UNCHANGED <<faults, spared, today, attempts, got, names, latest, keep, began>>

WriteFails(p) ==
  /\ faults < MaxFaults
  /\ faults' = faults + 1
  /\ pc[p] = "write"
  /\ IoError(p)
  /\ linked' = [linked EXCEPT ![p] = FALSE]
  /\ UNCHANGED <<spared, today, disk, attempts, names, latest, keep, began>>

\* Mutant: only older names are removed.
OutdatedIfOlder(d, kept) == d < kept

\* cleanup keeps the file it was given and no other.
Outdated(d, kept) == d # kept

ToRemove(p) == {d \in Names : Outdated(d, keep[p])}

ListOutdated(p) ==
  /\ pc[p] = "cleanup"
  /\ Goto(p, "remove")
  /\ names' = [names EXCEPT ![p] = ToRemove(p)]
  /\ UNCHANGED <<faults, spared, today, disk, attempts, got, latest, keep, linked, began>>

\* read_dir or next_entry fails: the listing ends there, unreported, and the
\* files it did not reach are spared.
ListingFails(p) ==
  /\ pc[p] = "cleanup"
  /\ Goto(p, "remove")
  /\ \E listed \in SUBSET ToRemove(p) :
       /\ names' = [names EXCEPT ![p] = listed]
       /\ spared' = spared \cup (ToRemove(p) \ listed)
  /\ UNCHANGED <<faults, today, disk, attempts, got, latest, keep, linked, began>>

\* Mutant: a name that is already gone is tried again.
RemoveFileAgain(p, d) ==
  /\ pc[p] = "remove"
  /\ d \in names[p] \cap Names
  /\ names' = [names EXCEPT ![p] = @ \ {d}]
  /\ disk' = [disk EXCEPT ![d] = Absent]
  /\ linked' = [q \in Proc |-> linked[q] /\ keep[q] # d]
  /\ spared' = spared \ {d}
  /\ UNCHANGED <<faults, today, pc, attempts, got, latest, keep, began>>

\* Removing a name another process removed first is an ignored error, like
\* any other error of remove_file.
RemoveFile(p, d) ==
  /\ pc[p] = "remove"
  /\ d \in names[p]
  /\ names' = [names EXCEPT ![p] = @ \ {d}]
  /\ disk' = [disk EXCEPT ![d] = Absent]
  /\ linked' = [q \in Proc |-> linked[q] /\ keep[q] # d]
  /\ spared' = spared \ {d}
  /\ UNCHANGED <<faults, today, pc, attempts, got, latest, keep, began>>

RemovalFails(p, d) ==
  /\ pc[p] = "remove"
  /\ d \in names[p] \cap Names
  /\ names' = [names EXCEPT ![p] = @ \ {d}]
  /\ spared' = spared \cup {d}
  /\ UNCHANGED <<faults, today, disk, pc, attempts, got, latest, keep, linked, began>>

\* The load returns the bytes it fetched, not those on disk.
ReturnFetched(p) ==
  /\ pc[p] = "remove"
  /\ names[p] = {}
  /\ Finish(p, [Nothing EXCEPT !.kind = "fetched", !.bytes = "whole"])
  /\ UNCHANGED <<faults, spared, today, disk, attempts, local>>

-----------------------------------------------------------------------------

\* The process dies, or the caller drops the future; its file stays.
Crash(p) ==
  /\ faults < MaxFaults
  /\ faults' = faults + 1
  /\ pc[p] # "idle"
  /\ Finish(p, Nothing)
  /\ names' = [names EXCEPT ![p] = {}]
  /\ linked' = [linked EXCEPT ![p] = FALSE]
  /\ UNCHANGED <<spared, today, disk, attempts, latest, keep, began>>

Midnight ==
  /\ today < LastDay
  /\ today' = today + 1
  /\ UNCHANGED <<faults, spared, disk, pc, attempts, got, local>>

FindStep(p) ==
  \/ ListDirectory(p)
  \/ \E d \in Day : StatEntry(p, d)
  \/ ChooseFile(p)
  \/ ReadFile(p)

FetchStep(p) ==
  \/ FetchOk(p)
  \/ \E f \in {"transient", "permanent"} : FetchFails(p, f)

StoreStep(p) ==
  \/ CreateFile(p)
  \/ WriteFile(p)
  \/ WriteFails(p)
  \/ ListOutdated(p)
  \/ ListingFails(p)
  \/ \E d \in Day : RemoveFile(p, d) \/ RemovalFails(p, d)
  \/ ReturnFetched(p)

LoadStep(p) == FindStep(p) \/ FetchStep(p) \/ StoreStep(p) \/ CallFails(p)

Next ==
  \/ Midnight
  \/ \E p \in Proc : Begin(p) \/ LoadStep(p) \/ Crash(p)

Safety == Init /\ [][Next]_vars

\* Every await of a load ends: file-system calls return and fetches fail in
\* the end.  Nobody need begin a load, and days need not pass.
Spec == Safety /\ \A p \in Proc : WF_vars(LoadStep(p))

-----------------------------------------------------------------------------
(* Properties.                                                             *)

States == {"idle", "list", "stat", "read", "fetch",
           "create", "write", "cleanup", "remove"}
Bytes == {"none", "torn", "whole"}
Files == [bytes : Bytes, mtime : Day \cup {NoDay}]
Sightings == [name : Day \cup {NoDay}, mtime : Day \cup {NoDay}]
Results ==
  [kind : {"nothing", "io_error", "cached", "retries_exceeded", "fetched"},
   bytes : Bytes,
   mtime : Day \cup {NoDay},
   tries : 0..MaxAttempts]

\* Every variable keeps its type; no load begins more fetches than the
\* policy allows (fetch_with_retry's 1..=max_attempts).
TypeOK ==
  /\ today \in Day
  /\ faults \in 0..MaxFaults
  /\ spared \in SUBSET Day
  /\ disk \in [Day -> Files]
  /\ pc \in [Proc -> States]
  /\ names \in [Proc -> SUBSET Day]
  /\ latest \in [Proc -> Sightings]
  /\ attempts \in [Proc -> 0..MaxAttempts]
  /\ keep \in [Proc -> Day \cup {NoDay}]
  /\ linked \in [Proc -> BOOLEAN]
  /\ began \in [Proc -> Day]
  /\ got \in [Proc -> Results]

\* find_fresh: what a load takes from the directory was written no more than
\* max_age before the load began, whatever the other processes do between its
\* listing, its look at the times and its read.
ServedIsFresh ==
  \A p \in Proc :
    got[p].kind = "cached" => got[p].mtime >= began[p] - MaxAge

\* The file a live process has open under its name and is about to write.
BeingWritten(d) == \E p \in Proc : pc[p] = "write" /\ linked[p] /\ keep[p] = d

\* load_or_fetch: a file that is not wholly written is about to be, by a
\* process that has it open under its name, whatever other processes create,
\* truncate and remove meanwhile.  Only a death or a failed write leaves a
\* torn file behind, and each leaves one at most.
TornHasWriter ==
  Cardinality({d \in Day : disk[d].bytes = "torn" /\ ~BeingWritten(d)}) <= faults

\* cleanup removes every other day's file, so when no load runs the directory
\* holds one file at most besides those that a cleanup failed to list or to
\* remove since they were created, even if loads raced across midnight and
\* removed each other's; each death and failed write leaves one more at most.
OneFileAtRest ==
  (\A p \in Proc : pc[p] = "idle") => Cardinality(Names \ spared) <= 1 + faults

\* Every load returns: the directory scans and the retries come to an end.
LoadEnds == \A p \in Proc : pc[p] # "idle" ~> pc[p] = "idle"

\* cache.rs, load_or_fetch: "Returns cached bytes if a fresh file exists,
\* otherwise fetches `url`, stores the result": what a load returns are the
\* resource's bytes.
LoadedWhole == \A p \in Proc : got[p].bytes # "torn"
==============================================================================
