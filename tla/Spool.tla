------------------------------- MODULE Spool -------------------------------
(***************************************************************************)
(* services/collector/internal/spool/spool.go: the collector's bounded     *)
(* append-only evidence file and the memory that goes with it.             *)
(*                                                                         *)
(* A record is a line of the file.  What the disk holds is `records`, the  *)
(* lines written since the file was created or last truncated; the first   *)
(* `synced` of them have been fsynced and survive anything, and the first  *)
(* `intact` can be read back: a write that fails half-way leaves a         *)
(* fragment (`torn`) that runs into the next line, and parseExisting stops *)
(* there.  A record keeps the offset of its end, which is the length of    *)
(* the file up to it.                                                      *)
(***************************************************************************)
EXTENDS Integers, Sequences, FiniteSetsExt

CONSTANTS
    Events,           \* evidence records, named by their dedup keys
    LineLen,          \* the length of each one's line
    Refused,          \* those writeLocked refuses: too long, or credential material
    GapLen,           \* the length of a gap's line
    MaxRecords,       \* Options.MaxRecords
    MaxBytes,         \* Options.MaxBytes
    ReservedRecords,  \* reservedRecords
    ReservedBytes,    \* reservedBytes
    GapMargin,        \* the 512 bytes that even a gap leaves free
    Faults,           \* how f.Write may fail: "clean", or "partial" and torn
    MaxFaults,        \* bound on failed writes in a behaviour
    MaxCrashes,       \* bound on crashes and exits in a behaviour
    MaxDropped        \* bound on dropped records in a run of the collector

(* The spool's own gaps, and those of its callers.                         *)
GapKinds == {"overflow", "summary", "restart", "observation"}

ASSUME SpoolAssumption ==
    /\ LineLen \in [Events -> Nat \ {0}]
    /\ Refused \subseteq Events
    /\ Events \cap GapKinds = {}
    /\ GapLen \in Nat \ {0}
    /\ ReservedRecords \in Nat \ {0} /\ MaxRecords \in Nat /\ MaxRecords > ReservedRecords
    /\ ReservedBytes \in Nat /\ MaxBytes \in Nat /\ MaxBytes > ReservedBytes
    /\ GapMargin \in Nat /\ GapMargin < ReservedBytes
    /\ Faults \subseteq {"clean", "partial"}
    /\ MaxFaults \in Nat /\ MaxCrashes \in Nat /\ MaxDropped \in Nat

VARIABLES
    records,      \* the lines on disk; in a running collector also s.records
    intact,       \* how many of them parseExisting would adopt
    torn,         \* whether a fragment was written after those
    synced,       \* how many of them have been fsynced
    up,           \* "new" before the file exists, then "up" or "down"
    size,         \* s.size
    seq,          \* s.seq
    seen,         \* s.seen
    dropped,      \* s.dropped
    overflow,     \* s.overflow
    summaryOK,    \* s.summaryOK
    faults,       \* failed writes so far
    crashes       \* crashes and exits so far

diskVars == <<records, intact, torn, synced>>
memoryVars == <<size, seq, seen, dropped, overflow, summaryOK>>
spoolVars == <<records, intact, torn, synced, up, size, seq, seen, dropped, overflow,
               summaryOK, faults, crashes>>

Record == [type: {"event", "gap"}, key: Events \cup GapKinds, seq: Nat, end: Nat]

EventKeys(recs) == {recs[i].key : i \in {k \in DOMAIN recs : recs[k].type = "event"}}

GapsIn(recs) == {recs[i].key : i \in {k \in DOMAIN recs : recs[k].type = "gap"}}

(* What a reader finds of the first n lines.                               *)
Readable(n) == SubSeq(records, 1, IF n < intact THEN n ELSE intact)

(* What is certain to be found after any crash.                            *)
Durable == Readable(synced)

SpoolInit ==
    /\ records = <<>> /\ intact = 0 /\ torn = FALSE /\ synced = 0
    /\ up = "new"
    /\ size = 0 /\ seq = 0 /\ seen = {}
    /\ dropped = 0 /\ overflow = FALSE /\ summaryOK = FALSE
    /\ faults = 0 /\ crashes = 0

-----------------------------------------------------------------------------
(* full: would one more record eat into the reserve?                       *)
Full(count, bytes, reserveUse) ==
    \/ count >= MaxRecords - ReservedRecords + reserveUse
    \/ bytes >= MaxBytes - (IF reserveUse > 0 THEN GapMargin ELSE ReservedBytes)

FullForEvents == Full(Len(records), size, 0)
FullForGaps == Full(Len(records), size, ReservedRecords)

(* writeLocked, when the line reaches the file.                            *)
Write(type, key, len) ==
    /\ seq' = seq + 1
    /\ size' = size + len
    /\ records' = Append(records, [type |-> type, key |-> key, seq |-> seq + 1,
                                   end |-> size + len])
    /\ intact' = IF torn THEN intact ELSE intact + 1
    /\ UNCHANGED <<torn, synced, faults>>

(* writeLocked, when f.Write fails: seq goes back, and so would the file   *)
(* if nothing of the line was written.                                     *)
WriteFails ==
    /\ faults < MaxFaults
    /\ faults' = faults + 1
    /\ \E fault \in Faults : torn' = (torn \/ fault = "partial")
    /\ UNCHANGED <<records, intact, synced, size, seq>>

-----------------------------------------------------------------------------
(* gapLocked, by its outcome.                                              *)

GapWritten(kind) ==
    /\ ~FullForGaps
    /\ Write("gap", kind, GapLen)
    /\ UNCHANGED dropped

GapDropped(count) ==
    /\ FullForGaps
    /\ dropped + count <= MaxDropped
    /\ dropped' = dropped + count
    /\ UNCHANGED <<diskVars, size, seq, faults>>

GapFails ==
    /\ ~FullForGaps
    /\ WriteFails
    /\ UNCHANGED dropped

(* Gap, when it returns nil or ErrOverflow, and when it returns an error   *)
(* that its callers pass on.                                               *)
GapReturns(kind) ==
    /\ up = "up"
    /\ GapWritten(kind) \/ GapDropped(1)
    /\ UNCHANGED <<up, seen, overflow, summaryOK, crashes>>

GapRaises ==
    /\ up = "up"
    /\ GapFails
    /\ UNCHANGED <<up, seen, overflow, summaryOK, crashes>>

-----------------------------------------------------------------------------
(* Append, by its outcome.                                                 *)

AppendDuplicate(e) ==
    /\ up = "up"
    /\ e \in seen
    /\ UNCHANGED spoolVars

AppendWritten(e) ==
    /\ up = "up"
    /\ e \notin seen
    /\ ~FullForEvents
    /\ e \notin Refused
    /\ Write("event", e, LineLen[e])
    /\ seen' = seen \cup {e}
    /\ UNCHANGED <<up, dropped, overflow, summaryOK, crashes>>

(* The record is refused, or its write fails.                              *)
AppendRaises(e) ==
    /\ up = "up"
    /\ e \notin seen
    /\ ~FullForEvents
    /\ IF e \in Refused THEN UNCHANGED <<diskVars, size, seq, faults>> ELSE WriteFails
    /\ UNCHANGED <<up, seen, dropped, overflow, summaryOK, crashes>>

(* The overflow path that drops the record: no gap, no count.              *)
AppendOverflowsSilently(e) ==
    /\ up = "up"
    /\ e \notin seen
    /\ FullForEvents
    /\ UNCHANGED spoolVars

(* ErrOverflow: the first drop of an episode writes the overflow gap, or   *)
(* is counted twice if even the reserve is full.                           *)
AppendOverflows(e) ==
    /\ up = "up"
    /\ e \notin seen
    /\ FullForEvents
    /\ overflow' = TRUE
    /\ \/ /\ ~overflow
          /\ ~FullForGaps
          /\ dropped < MaxDropped
          /\ Write("gap", "overflow", GapLen)
          /\ dropped' = dropped + 1
       \/ /\ ~overflow
          /\ GapDropped(2)
       \/ /\ overflow
          /\ dropped < MaxDropped
          /\ dropped' = dropped + 1
          /\ UNCHANGED <<diskVars, size, seq, faults>>
    /\ UNCHANGED <<up, seen, summaryOK, crashes>>

(* The overflow gap itself fails to be written: Append returns that error. *)
AppendOverflowRaises(e) ==
    /\ up = "up"
    /\ e \notin seen
    /\ FullForEvents
    /\ ~overflow
    /\ overflow' = TRUE
    /\ ~FullForGaps
    /\ dropped < MaxDropped
    /\ dropped' = dropped + 1
    /\ WriteFails
    /\ UNCHANGED <<up, seen, summaryOK, crashes>>

-----------------------------------------------------------------------------
(* Sync.                                                                   *)
SyncSpool ==
    /\ up = "up"
    /\ synced' = Len(records)
    /\ UNCHANGED <<records, intact, torn, up, memoryVars, faults, crashes>>

(* Records: the first call after a drop tries to add the summary gap, and  *)
(* ignores how that ends.                                                  *)
RecordsCall ==
    /\ up = "up"
    /\ IF dropped > 0 /\ ~summaryOK
       THEN /\ summaryOK' = TRUE
            /\ GapWritten("summary") \/ GapDropped(1) \/ GapFails
       ELSE UNCHANGED <<diskVars, size, seq, dropped, summaryOK, faults>>
    /\ UNCHANGED <<up, seen, overflow, crashes>>

-----------------------------------------------------------------------------
(* The life of the process.                                                *)

(* Its memory is gone.                                                     *)
Forget ==
    /\ size' = 0 /\ seq' = 0 /\ seen' = {}
    /\ dropped' = 0 /\ overflow' = FALSE /\ summaryOK' = FALSE

(* Open of a file that does not exist.                                     *)
OpenNew ==
    /\ up = "new"
    /\ up' = "up"
    /\ UNCHANGED <<diskVars, memoryVars, faults, crashes>>

(* parseExisting and adopt: the lines that can be read, their highest      *)
(* sequence number, their dedup keys and their length.                     *)
Adopted == SubSeq(records, 1, intact)
AdoptedSeq == Max({0} \cup {Adopted[i].seq : i \in DOMAIN Adopted})
AdoptedSize == IF intact = 0 THEN 0 ELSE Adopted[intact].end

(* Open that resumes from the number of records instead of the highest     *)
(* sequence number and does not count the restart gap.                     *)
ReopenRestarts ==
    /\ up = "down"
    /\ ~Full(intact, AdoptedSize, ReservedRecords)
    /\ up' = "up"
    /\ seq' = intact
    /\ size' = AdoptedSize + GapLen
    /\ records' = Append(Adopted, [type |-> "gap", key |-> "restart", seq |-> intact,
                                   end |-> AdoptedSize + GapLen])
    /\ intact' = intact + 1
    /\ synced' = IF synced < intact THEN synced ELSE intact
    /\ seen' = EventKeys(Adopted)
    /\ torn' = FALSE
    /\ UNCHANGED <<dropped, overflow, summaryOK, faults, crashes>>

(* Open that adopts the records but not their dedup keys.                  *)
ReopenUnseen ==
    /\ up = "down"
    /\ ~Full(intact, AdoptedSize, ReservedRecords)
    /\ up' = "up"
    /\ seq' = AdoptedSeq + 1
    /\ size' = AdoptedSize + GapLen
    /\ records' = Append(Adopted, [type |-> "gap", key |-> "restart", seq |-> AdoptedSeq + 1,
                                   end |-> AdoptedSize + GapLen])
    /\ intact' = intact + 1
    /\ synced' = IF synced < intact THEN synced ELSE intact
    /\ torn' = FALSE
    /\ UNCHANGED <<seen, dropped, overflow, summaryOK, faults, crashes>>

(* Open of an existing file: truncate it after the lines that can be read  *)
(* and record the restart as a gap.                                        *)
Reopen ==
    /\ up = "down"
    /\ ~Full(intact, AdoptedSize, ReservedRecords)
    /\ up' = "up"
    /\ seq' = AdoptedSeq + 1
    /\ size' = AdoptedSize + GapLen
    /\ records' = Append(Adopted, [type |-> "gap", key |-> "restart", seq |-> AdoptedSeq + 1,
                                   end |-> AdoptedSize + GapLen])
    /\ intact' = intact + 1
    /\ synced' = IF synced < intact THEN synced ELSE intact
    /\ seen' = EventKeys(Adopted)
    /\ torn' = FALSE
    /\ UNCHANGED <<dropped, overflow, summaryOK, faults, crashes>>

(* Open when the gap does not fit or cannot be written: the file has been  *)
(* truncated, Open returns an error and the collector exits.               *)
ReopenRaises ==
    /\ up = "down"
    /\ records' = Adopted
    /\ synced' = IF synced < intact THEN synced ELSE intact
    /\ \/ /\ Full(intact, AdoptedSize, ReservedRecords)
          /\ torn' = FALSE
          /\ UNCHANGED faults
       \/ /\ ~Full(intact, AdoptedSize, ReservedRecords)
          /\ faults < MaxFaults
          /\ faults' = faults + 1
          /\ \E fault \in Faults : torn' = (fault = "partial")
    /\ UNCHANGED <<intact, up, memoryVars, crashes>>

(* The process or the machine dies: any line that was not fsynced may be   *)
(* gone, and every line after it.                                          *)
Crash ==
    /\ up = "up"
    /\ crashes < MaxCrashes
    /\ crashes' = crashes + 1
    /\ up' = "down"
    /\ \E n \in synced..Len(records) :
         /\ records' = SubSeq(records, 1, n)
         /\ intact' = IF n < intact THEN n ELSE intact
    /\ Forget
    /\ UNCHANGED <<torn, synced, faults>>

(* Close, at the end of run.                                               *)
CloseSpool ==
    /\ up = "up"
    /\ crashes < MaxCrashes
    /\ crashes' = crashes + 1
    /\ up' = "down"
    /\ synced' = Len(records)
    /\ Forget
    /\ UNCHANGED <<records, intact, torn, faults>>
=============================================================================
