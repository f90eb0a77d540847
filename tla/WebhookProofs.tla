--------------------------- MODULE WebhookProofs ----------------------------
(***************************************************************************)
(* Proofs about Webhook and its Spool, for every set of events, batches    *)
(* and handlers, every limit, and any number of crashes and failed writes. *)
(* First the file and the memory that goes with it, then what a handler    *)
(* knows of the items that it has ingested.                                *)
(***************************************************************************)
EXTENDS Webhook, TLAPS

-----------------------------------------------------------------------------
(* Sequences of records.                                                   *)

(* A line is added at the end.                                             *)
LEMMA AppendFacts ==
    ASSUME NEW s \in Seq(Record), NEW r \in Record
    PROVE  /\ Append(s, r) \in Seq(Record)
           /\ Len(Append(s, r)) = Len(s) + 1
           /\ DOMAIN s = 1..Len(s) /\ DOMAIN Append(s, r) = 1..(Len(s) + 1)
           /\ \A i \in 1..Len(s) : Append(s, r)[i] = s[i]
           /\ Append(s, r)[Len(s) + 1] = r
OBVIOUS

(* The first n lines.                                                      *)
LEMMA PrefixFacts ==
    ASSUME NEW s \in Seq(Record), NEW n \in 0..Len(s)
    PROVE  /\ SubSeq(s, 1, n) \in Seq(Record)
           /\ Len(SubSeq(s, 1, n)) = n
           /\ DOMAIN s = 1..Len(s) /\ DOMAIN SubSeq(s, 1, n) = 1..n
           /\ \A i \in 1..n : SubSeq(s, 1, n)[i] = s[i]
OBVIOUS

(* The columns of a line.                                                  *)
LEMMA RecordFields ==
    ASSUME NEW s \in Seq(Record), NEW i \in DOMAIN s
    PROVE  s[i] \in Record /\ s[i].seq \in Nat /\ s[i].end \in Nat
<1>1. s[i] \in Record
  OBVIOUS
<1> QED
  BY <1>1 DEF Record

(* A line's key joins the keys of its type.                                *)
LEMMA KeysAppend ==
    ASSUME NEW s \in Seq(Record), NEW r \in Record
    PROVE  /\ r.type = "event" => EventKeys(Append(s, r)) = EventKeys(s) \cup {r.key}
           /\ r.type = "gap" => EventKeys(Append(s, r)) = EventKeys(s)
           /\ r.type = "gap" => r.key \in GapsIn(Append(s, r))
           /\ GapsIn(s) \subseteq GapsIn(Append(s, r))
<1> DEFINE t == Append(s, r)
<1>0. Len(s) \in Nat
  OBVIOUS
<1>1. /\ DOMAIN s = 1..Len(s) /\ DOMAIN t = 1..(Len(s) + 1)
      /\ \A i \in 1..Len(s) : t[i] = s[i]
      /\ t[Len(s) + 1] = r
  BY AppendFacts
<1>2. DOMAIN t = DOMAIN s \cup {Len(s) + 1} /\ Len(s) + 1 \notin DOMAIN s
  BY <1>0, <1>1
<1> HIDE DEF t
<1>3. CASE r.type = "event"
  <2>1. {k \in DOMAIN t : t[k].type = "event"} =
          {k \in DOMAIN s : s[k].type = "event"} \cup {Len(s) + 1}
    BY <1>1, <1>2, <1>3
  <2>2. {k \in DOMAIN t : t[k].type = "gap"} = {k \in DOMAIN s : s[k].type = "gap"}
    BY <1>1, <1>2, <1>3
  <2>3. EventKeys(t) = EventKeys(s) \cup {r.key} /\ GapsIn(t) = GapsIn(s)
    BY <1>1, <1>2, <2>1, <2>2 DEF EventKeys, GapsIn
  <2> QED
    BY <1>3, <2>3 DEF t
<1>4. CASE r.type = "gap"
  <2>1. {k \in DOMAIN t : t[k].type = "gap"} =
          {k \in DOMAIN s : s[k].type = "gap"} \cup {Len(s) + 1}
    BY <1>1, <1>2, <1>4
  <2>2. {k \in DOMAIN t : t[k].type = "event"} = {k \in DOMAIN s : s[k].type = "event"}
    BY <1>1, <1>2, <1>4
  <2>3. GapsIn(t) = GapsIn(s) \cup {r.key} /\ EventKeys(t) = EventKeys(s)
    BY <1>1, <1>2, <2>1, <2>2 DEF EventKeys, GapsIn
  <2> QED
    BY <1>4, <2>3 DEF t
<1> QED
  BY <1>3, <1>4 DEF Record

(* A longer prefix holds what a shorter one holds.                         *)
LEMMA KeysPrefix ==
    ASSUME NEW s \in Seq(Record), NEW n \in 0..Len(s), NEW m \in 0..n
    PROVE  /\ EventKeys(SubSeq(s, 1, m)) \subseteq EventKeys(SubSeq(s, 1, n))
           /\ GapsIn(SubSeq(s, 1, m)) \subseteq GapsIn(SubSeq(s, 1, n))
<1>0. m \in 0..Len(s) /\ 1..m \subseteq 1..n
  OBVIOUS
<1>1. /\ DOMAIN SubSeq(s, 1, m) = 1..m /\ \A i \in 1..m : SubSeq(s, 1, m)[i] = s[i]
      /\ DOMAIN SubSeq(s, 1, n) = 1..n /\ \A i \in 1..n : SubSeq(s, 1, n)[i] = s[i]
  BY <1>0, PrefixFacts
<1> QED
  BY <1>0, <1>1 DEF EventKeys, GapsIn

(* All of a sequence is its longest prefix.                                *)
LEMMA WholePrefix == ASSUME NEW s \in Seq(Record) PROVE SubSeq(s, 1, Len(s)) = s
OBVIOUS

-----------------------------------------------------------------------------
(* The spool.                                                              *)

SpoolTypes ==
    /\ records \in Seq(Record)
    /\ intact \in Nat /\ intact <= Len(records)
    /\ synced \in Nat /\ synced <= Len(records)
    /\ torn \in BOOLEAN
    /\ up \in {"new", "up", "down"}
    /\ size \in Nat /\ seq \in Nat /\ faults \in Nat

(* In a running collector the memory knows the file: no line has a higher  *)
(* number than the last one given, and seen is what has been spooled.      *)
MemoryKnows ==
    /\ up = "new" => records = <<>> /\ seen = {}
    /\ up = "up" => /\ \A i \in DOMAIN records : records[i].seq <= seq
                    /\ seen = EventKeys(records)

(* Only a fragment keeps lines from being read back.                       *)
Unread == torn \/ intact = Len(records)

SpoolInv == SpoolTypes /\ MemoryKnows /\ Unread /\ SequencesOrdered /\ SpooledOnce

(* What a step can do to the spool.                                        *)
Writes(rec) ==
    /\ up = "up" /\ up' = "up"
    /\ rec \in Record
    /\ rec.seq = seq + 1 /\ rec.end = size'
    /\ seq' = seq + 1 /\ size' \in Nat /\ size <= size'
    /\ records' = Append(records, rec)
    /\ intact' = IF torn THEN intact ELSE intact + 1
    /\ torn' = torn /\ synced' = synced /\ faults' = faults
    /\ \/ rec.type = "event" /\ rec.key \notin seen /\ seen' = seen \cup {rec.key}
       \/ rec.type = "gap" /\ seen' = seen
    /\ rec.type = "event" => ~FullForEvents
    /\ rec.type = "gap" => ~FullForGaps
Fails ==
    /\ up = "up" /\ up' = "up"
    /\ faults' = faults + 1
    /\ \E fault \in Faults : torn' = (torn \/ fault = "partial")
    /\ UNCHANGED <<records, intact, synced, size, seq, seen>>
Keeps == UNCHANGED <<records, intact, torn, synced, up, size, seq, seen, faults>>

SpoolStep ==
    \/ \E rec : Writes(rec)
    \/ Fails
    \/ Keeps
    \/ SyncSpool
    \/ OpenNew
    \/ Reopen
    \/ ReopenRaises
    \/ Crash
    \/ CloseSpool

(* Every line that writeLocked adds is numbered next.                      *)
LEMMA WriteWrites ==
    ASSUME SpoolTypes, up = "up", up' = "up",
           NEW type \in {"event", "gap"}, NEW key \in Events \cup GapKinds,
           NEW len \in Nat, Write(type, key, len),
           \/ type = "event" /\ key \notin seen /\ seen' = seen \cup {key}
           \/ type = "gap" /\ seen' = seen,
           type = "event" => ~FullForEvents,
           type = "gap" => ~FullForGaps
    PROVE  Writes([type |-> type, key |-> key, seq |-> seq + 1, end |-> size + len])
<1> DEFINE rec == [type |-> type, key |-> key, seq |-> seq + 1, end |-> size + len]
<1>1. seq + 1 \in Nat /\ size + len \in Nat /\ size <= size + len
  BY DEF SpoolTypes
<1>2. /\ rec \in Record /\ rec.type = type /\ rec.key = key
      /\ rec.seq = seq + 1 /\ rec.end = size + len
  BY <1>1 DEF Record
<1> QED
  BY <1>1, <1>2 DEF Writes, Write

(* Every call on the spool is one of these.                                *)
LEMMA GapSteps ==
    ASSUME SpoolTypes, NEW kind \in GapKinds,
           GapReturns(kind) \/ GapRaises
    PROVE  SpoolStep
<1>1. GapLen \in Nat /\ kind \in Events \cup GapKinds
  BY SpoolAssumption
<1>2. CASE GapReturns(kind) /\ GapWritten(kind)
  BY <1>1, <1>2, WriteWrites DEF GapReturns, GapWritten, SpoolStep
<1>3. CASE GapReturns(kind) /\ GapDropped(1)
  BY <1>3 DEF GapReturns, GapDropped, diskVars, SpoolStep, Keeps
<1>4. CASE GapRaises
  BY <1>4 DEF GapRaises, GapFails, WriteFails, SpoolStep, Fails
<1> QED
  BY <1>2, <1>3, <1>4 DEF GapReturns

(* So is every Append.                                                     *)
LEMMA AppendSteps ==
    ASSUME SpoolTypes, NEW e \in Events,
           \/ AppendDuplicate(e) \/ AppendWritten(e) \/ AppendOverflows(e)
           \/ AppendRaises(e) \/ AppendOverflowRaises(e)
    PROVE  SpoolStep
<1>1. GapLen \in Nat /\ "overflow" \in Events \cup GapKinds /\ LineLen[e] \in Nat
      /\ e \in Events \cup GapKinds
  BY SpoolAssumption DEF GapKinds
<1>2. CASE AppendDuplicate(e)
  BY <1>2 DEF AppendDuplicate, spoolVars, SpoolStep, Keeps
<1>3. CASE AppendWritten(e)
  BY <1>1, <1>3, WriteWrites DEF AppendWritten, SpoolStep
<1>4. CASE AppendOverflows(e)
  <2>1. CASE ~FullForGaps /\ Write("gap", "overflow", GapLen)
    BY <1>1, <1>4, <2>1, WriteWrites DEF AppendOverflows, SpoolStep
  <2>2. CASE GapDropped(2)
    BY <1>4, <2>2 DEF AppendOverflows, GapDropped, diskVars, SpoolStep, Keeps
  <2>3. CASE UNCHANGED <<diskVars, size, seq, faults>>
    BY <1>4, <2>3 DEF AppendOverflows, diskVars, SpoolStep, Keeps
  <2> QED
    BY <1>4, <2>1, <2>2, <2>3 DEF AppendOverflows
<1>5. CASE AppendRaises(e)
  <2>1. CASE e \in Refused
    BY <1>5, <2>1 DEF AppendRaises, diskVars, SpoolStep, Keeps
  <2>2. CASE e \notin Refused
    BY <1>5, <2>2 DEF AppendRaises, WriteFails, SpoolStep, Fails
  <2> QED
    BY <2>1, <2>2
<1>6. CASE AppendOverflowRaises(e)
  BY <1>6 DEF AppendOverflowRaises, WriteFails, SpoolStep, Fails
<1> QED
  BY <1>2, <1>3, <1>4, <1>5, <1>6

(* Every step of the collector is a step of the spool.                     *)
LEMMA StepsOfSpool ==
    ASSUME SpoolTypes, [Next]_vars
    PROVE  SpoolStep
<1>0. "observation" \in GapKinds /\ "summary" \in GapKinds /\ GapLen \in Nat
      /\ "summary" \in Events \cup GapKinds
  BY SpoolAssumption DEF GapKinds
<1>1. ASSUME NEW h \in Handlers, Handle(h) PROVE SpoolStep
  <2>1. CASE Receive(h)
    BY <2>1 DEF Receive, spoolVars, SpoolStep, Keeps
  <2>2. CASE RejectBatch(h)
    BY <1>0, <2>2, GapSteps DEF RejectBatch
  <2>3. CASE Ingest(h)
    BY <1>0, <2>3, GapSteps, AppendSteps DEF Ingest
  <2>4. CASE IngestRaises(h)
    BY <1>0, <2>4, GapSteps, AppendSteps DEF IngestRaises
  <2>5. CASE Sync(h)
    BY <2>5 DEF Sync, SpoolStep
  <2>6. CASE SyncRaises(h)
    BY <2>6 DEF SyncRaises, spoolVars, SpoolStep, Keeps
  <2>7. CASE Reply(h)
    BY <2>7 DEF Reply, spoolVars, SpoolStep, Keeps
  <2> QED
    BY <1>1, <2>1, <2>2, <2>3, <2>4, <2>5, <2>6, <2>7 DEF Handle
<1>2. CASE InventoryGap
  BY <1>0, <1>2, GapSteps DEF InventoryGap
<1>3. CASE WriteBundle
  <2>1. CASE GapWritten("summary")
    BY <1>0, <1>3, <2>1, WriteWrites DEF WriteBundle, RecordsCall, GapWritten, SpoolStep
  <2>2. CASE GapDropped(1)
    BY <1>3, <2>2 DEF WriteBundle, RecordsCall, GapDropped, diskVars, SpoolStep, Keeps
  <2>3. CASE GapFails
    BY <1>3, <2>3 DEF WriteBundle, RecordsCall, GapFails, WriteFails, SpoolStep, Fails
  <2>4. CASE UNCHANGED <<diskVars, size, seq, dropped, summaryOK, faults>>
    BY <1>3, <2>4 DEF WriteBundle, RecordsCall, diskVars, SpoolStep, Keeps
  <2> QED
    BY <1>3, <2>1, <2>2, <2>3, <2>4 DEF WriteBundle, RecordsCall
<1>4. CASE Start
  BY <1>4 DEF Start, SpoolStep
<1>5. CASE Stop
  BY <1>5 DEF Stop, SpoolStep
<1>6. CASE UNCHANGED vars
  BY <1>6 DEF vars, SpoolStep, Keeps
<1> QED
  BY <1>1, <1>2, <1>3, <1>4, <1>5, <1>6 DEF Next

(* Order and deduplication, of any sequence of lines.                      *)
Ordered(s) == \A i, j \in DOMAIN s : i < j => s[i].seq < s[j].seq
Once(s) ==
    \A i, j \in DOMAIN s :
        s[i].type = "event" /\ s[j].type = "event" /\ s[i].key = s[j].key => i = j

(* Losing the end of the file loses neither.                               *)
LEMMA PrefixOrderedOnce ==
    ASSUME NEW s \in Seq(Record), NEW n \in 0..Len(s), Ordered(s), Once(s)
    PROVE  Ordered(SubSeq(s, 1, n)) /\ Once(SubSeq(s, 1, n))
<1> DEFINE t == SubSeq(s, 1, n)
<1>1. DOMAIN t \subseteq DOMAIN s /\ \A i \in DOMAIN t : t[i] = s[i]
  BY PrefixFacts
<1> HIDE DEF t
<1>2. Ordered(t) /\ Once(t)
  BY <1>1 DEF Ordered, Once
<1> QED
  BY <1>2 DEF t

(* A line with a higher number and a new key loses neither.                *)
LEMMA AppendOrderedOnce ==
    ASSUME NEW s \in Seq(Record), NEW r \in Record, Ordered(s), Once(s),
           \A i \in DOMAIN s : s[i].seq < r.seq,
           r.type = "event" => r.key \notin EventKeys(s)
    PROVE  Ordered(Append(s, r)) /\ Once(Append(s, r))
<1> DEFINE t == Append(s, r)
           m == Len(s) + 1
<1>1. /\ DOMAIN t = DOMAIN s \cup {m} /\ m \notin DOMAIN s
      /\ \A i \in DOMAIN s : t[i] = s[i]
      /\ t[m] = r
      /\ \A i \in DOMAIN s : i \in Nat /\ i < m
  <2>1. Len(s) \in Nat
    OBVIOUS
  <2> QED
    BY <2>1, AppendFacts
<1>2. ASSUME NEW i \in DOMAIN t, NEW j \in DOMAIN t, i < j PROVE t[i].seq < t[j].seq
  <2>0. Len(s) \in Nat
    OBVIOUS
  <2>1. i \in DOMAIN s
    BY <1>1, <1>2, <2>0
  <2> QED
    BY <1>1, <1>2, <2>1 DEF Ordered
<1>3. ASSUME NEW i \in DOMAIN s, s[i].type = "event" PROVE s[i].key \in EventKeys(s)
  BY <1>3 DEF EventKeys
<1> HIDE DEF t, m
<1>4. Once(t)
  BY <1>1, <1>3 DEF Once
<1>5. Ordered(t)
  BY <1>2 DEF Ordered
<1> QED
  BY <1>4, <1>5 DEF t

(* What parseExisting adopts: adopt's highest number is the last line's.   *)
LEMMA AdoptedFacts ==
    ASSUME SpoolTypes, Ordered(records)
    PROVE  /\ Adopted \in Seq(Record) /\ Len(Adopted) = intact
           /\ AdoptedSeq \in Nat /\ AdoptedSize \in Nat
           /\ \A i \in DOMAIN Adopted : Adopted[i].seq < AdoptedSeq + 1
<1>0. /\ Adopted \in Seq(Record) /\ Len(Adopted) = intact
      /\ DOMAIN Adopted = 1..intact /\ DOMAIN records = 1..Len(records)
      /\ \A i \in 1..intact : Adopted[i] = records[i]
      /\ intact \in Nat
  BY PrefixFacts DEF SpoolTypes, Adopted
<1>1. \A i \in 1..intact : Adopted[i].seq \in Nat /\ Adopted[i].end \in Nat
  BY <1>0, RecordFields
<1> DEFINE S == {0} \cup {Adopted[i].seq : i \in DOMAIN Adopted}
<1>2. \E x \in S : \A y \in S : x >= y
  <2>1. CASE intact = 0
    <3>1. S = {0}
      BY <1>0, <2>1
    <3> QED
      BY <3>1
  <2>2. CASE intact # 0
    <3>1. intact \in DOMAIN Adopted /\ intact \in 1..intact
      BY <1>0, <2>2
    <3>2. \A i \in 1..intact : Adopted[intact].seq >= Adopted[i].seq
      <4>1. TAKE i \in 1..intact
      <4>2. CASE i = intact
        BY <1>1, <4>2
      <4>3. CASE i # intact
        <5>1. i < intact /\ i \in DOMAIN records /\ intact \in DOMAIN records
          BY <1>0, <3>1, <4>3 DEF SpoolTypes
        <5>2. Adopted[i].seq < Adopted[intact].seq
          BY <1>0, <3>1, <5>1 DEF Ordered
        <5> QED
          BY <1>1, <3>1, <5>2
      <4> QED
        BY <4>2, <4>3
    <3>3. Adopted[intact].seq >= 0
      BY <1>1, <3>1
    <3> QED
      BY <1>0, <3>1, <3>2, <3>3
  <2> QED
    BY <2>1, <2>2
<1>3. AdoptedSeq \in S /\ \A y \in S : AdoptedSeq >= y
  BY <1>2 DEF AdoptedSeq, Max
<1>4. AdoptedSeq \in Nat
  BY <1>0, <1>1, <1>3
<1>5. \A i \in DOMAIN Adopted : Adopted[i].seq < AdoptedSeq + 1
  BY <1>0, <1>1, <1>3, <1>4
<1>6. AdoptedSize \in Nat
  BY <1>0, <1>1 DEF AdoptedSize
<1> QED
  BY <1>0, <1>4, <1>5, <1>6

(* The restart gap goes after the adopted lines.                           *)
RestartGap == [type |-> "gap", key |-> "restart", seq |-> AdoptedSeq + 1,
               end |-> AdoptedSize + GapLen]

(* It is a line like every other, and numbered after them.                 *)
LEMMA RestartGapRecord ==
    ASSUME AdoptedSeq \in Nat, AdoptedSize \in Nat
    PROVE  /\ RestartGap \in Record /\ RestartGap.type = "gap"
           /\ RestartGap.seq = AdoptedSeq + 1 /\ AdoptedSize + GapLen \in Nat
<1>1. /\ AdoptedSeq + 1 \in Nat /\ AdoptedSize + GapLen \in Nat
      /\ "restart" \in Events \cup GapKinds /\ "gap" \in {"event", "gap"}
  BY SpoolAssumption DEF GapKinds
<1> QED
  BY <1>1 DEF RestartGap, Record

(* The spool's invariant is kept by every call and across restarts.        *)
LEMMA SpoolInductive ==
    ASSUME SpoolInv, SpoolStep
    PROVE  SpoolInv'
<1>0. /\ records \in Seq(Record) /\ Len(records) \in Nat
      /\ Ordered(records) /\ Once(records) /\ SpoolTypes
  BY DEF SpoolInv, SpoolTypes, SequencesOrdered, SpooledOnce, Ordered, Once
<1>o. (Ordered(records') => SequencesOrdered') /\ (Once(records') => SpooledOnce')
  BY DEF SequencesOrdered, SpooledOnce, Ordered, Once
<1>1. ASSUME NEW rec, Writes(rec) PROVE SpoolInv'
  <2>1. /\ rec \in Record /\ records' = Append(records, rec) /\ rec.seq = seq + 1
        /\ up = "up" /\ up' = "up" /\ seq \in Nat /\ seq' = seq + 1
    BY <1>0, <1>1 DEF Writes, SpoolTypes
  <2>2. \A i \in DOMAIN records : records[i].seq \in Nat /\ records[i].seq < rec.seq
    BY <1>0, <2>1, RecordFields DEF SpoolInv, MemoryKnows
  <2>3. rec.type = "event" => rec.key \notin EventKeys(records)
    BY <1>1 DEF Writes, SpoolInv, MemoryKnows
  <2>4. Ordered(records') /\ Once(records')
    BY <1>0, <2>1, <2>2, <2>3, AppendOrderedOnce
  <2>5. records' \in Seq(Record) /\ Len(records') = Len(records) + 1
    BY <1>0, <2>1, AppendFacts
  <2>6. SpoolTypes' /\ Unread'
    BY <1>0, <1>1, <2>5 DEF Writes, SpoolTypes, SpoolInv, Unread
  <2>7. \A i \in DOMAIN records' : records'[i].seq <= seq'
    <3>1. /\ DOMAIN records = 1..Len(records) /\ DOMAIN records' = 1..(Len(records) + 1)
          /\ \A i \in 1..Len(records) : records'[i] = records[i]
          /\ records'[Len(records) + 1] = rec
      BY <1>0, <2>1, AppendFacts
    <3>2. \A i \in 1..Len(records) : records'[i].seq <= seq'
      BY <2>1, <2>2, <3>1
    <3>3. rec.seq <= seq'
      BY <2>1
    <3> QED
      BY <1>0, <3>1, <3>2, <3>3
  <2>8. seen' = EventKeys(records')
    BY <1>0, <1>1, <2>1, KeysAppend DEF Writes, SpoolInv, MemoryKnows
  <2> QED
    BY <1>o, <2>1, <2>4, <2>6, <2>7, <2>8 DEF SpoolInv, MemoryKnows
<1>2. CASE Fails
  BY <1>2 DEF Fails, SpoolInv, SpoolTypes, MemoryKnows, Unread, SequencesOrdered, SpooledOnce
<1>3. CASE Keeps
  BY <1>3 DEF Keeps, SpoolInv, SpoolTypes, MemoryKnows, Unread, SequencesOrdered, SpooledOnce
<1>4. CASE SyncSpool
  <2>1. SpoolTypes'
    BY <1>0, <1>4 DEF SyncSpool, memoryVars, SpoolTypes
  <2> QED
    BY <1>4, <2>1 DEF SyncSpool, memoryVars, SpoolInv, MemoryKnows, Unread,
       SequencesOrdered, SpooledOnce
<1>5. CASE OpenNew
  <2>1. MemoryKnows'
    BY <1>5 DEF OpenNew, diskVars, memoryVars, SpoolInv, MemoryKnows, EventKeys
  <2> QED
    BY <1>5, <2>1 DEF OpenNew, diskVars, memoryVars, SpoolInv, SpoolTypes, Unread,
       SequencesOrdered, SpooledOnce
<1>6. CASE Reopen
  <2>1. /\ Adopted \in Seq(Record) /\ Len(Adopted) = intact /\ intact \in Nat
        /\ AdoptedSeq \in Nat /\ AdoptedSize \in Nat
        /\ \A i \in DOMAIN Adopted : Adopted[i].seq < AdoptedSeq + 1
        /\ Ordered(Adopted) /\ Once(Adopted)
    BY <1>0, AdoptedFacts, PrefixOrderedOnce DEF Adopted, SpoolTypes
  <2>2. /\ RestartGap \in Record /\ RestartGap.type = "gap"
        /\ RestartGap.seq = AdoptedSeq + 1 /\ AdoptedSize + GapLen \in Nat
    BY <2>1, RestartGapRecord
  <2>3. /\ records' = Append(Adopted, RestartGap) /\ up' = "up" /\ seq' = AdoptedSeq + 1
        /\ size' = AdoptedSize + GapLen /\ intact' = intact + 1 /\ torn' = FALSE
        /\ synced' = (IF synced < intact THEN synced ELSE intact)
        /\ seen' = EventKeys(Adopted) /\ faults' = faults
    BY <1>6 DEF Reopen, RestartGap
  <2>4. Ordered(records') /\ Once(records')
    BY <2>1, <2>2, <2>3, AppendOrderedOnce
  <2>5. /\ records' \in Seq(Record) /\ Len(records') = intact + 1
        /\ DOMAIN records' = 1..(intact + 1) /\ DOMAIN Adopted = 1..intact
        /\ \A i \in 1..intact : records'[i] = Adopted[i]
        /\ records'[intact + 1] = RestartGap
    BY <2>1, <2>2, <2>3, AppendFacts
  <2>6. SpoolTypes' /\ Unread'
    <3>1. /\ intact' \in Nat /\ intact' = Len(records') /\ seq' \in Nat /\ size' \in Nat
          /\ synced' \in Nat /\ synced' <= Len(records')
      BY <1>0, <2>1, <2>2, <2>3, <2>5 DEF SpoolTypes
    <3>2. torn' \in BOOLEAN /\ up' \in {"new", "up", "down"} /\ faults' \in Nat
      BY <1>0, <2>3 DEF SpoolTypes
    <3>3. intact' <= Len(records')
      BY <3>1
    <3> QED
      BY <2>5, <3>1, <3>2, <3>3 DEF SpoolTypes, Unread
  <2>7. \A i \in DOMAIN records' : records'[i].seq <= seq'
    <3>1. \A i \in 1..intact : records'[i].seq \in Nat /\ records'[i].seq <= seq'
      <4> SUFFICES ASSUME NEW i \in 1..intact
                   PROVE  records'[i].seq \in Nat /\ records'[i].seq <= seq'
        OBVIOUS
      <4>1. i \in DOMAIN Adopted /\ records'[i] = Adopted[i]
        BY <2>5
      <4>2. Adopted[i].seq \in Nat
        BY <2>1, <4>1, RecordFields
      <4> QED
        BY <2>1, <2>3, <4>1, <4>2
    <3>2. RestartGap.seq <= seq'
      BY <2>1, <2>2, <2>3
    <3> QED
      BY <2>1, <2>5, <3>1, <3>2
  <2>8. seen' = EventKeys(records')
    BY <2>1, <2>2, <2>3, KeysAppend
  <2> QED
    BY <1>o, <2>3, <2>4, <2>6, <2>7, <2>8 DEF SpoolInv, MemoryKnows
<1>7. CASE ReopenRaises
  <2>1. /\ records' = Adopted /\ intact' = intact /\ up' = up /\ up = "down"
        /\ synced' = (IF synced < intact THEN synced ELSE intact)
        /\ torn' \in BOOLEAN /\ faults' \in Nat /\ size' = size /\ seq' = seq
    <3>1. torn' \in BOOLEAN
      BY <1>7 DEF ReopenRaises
    <3>2. faults' \in Nat
      BY <1>0, <1>7 DEF ReopenRaises, SpoolTypes
    <3> QED
      BY <1>7, <3>1, <3>2 DEF ReopenRaises, memoryVars
  <2>2. /\ Adopted \in Seq(Record) /\ Len(Adopted) = intact
        /\ Ordered(Adopted) /\ Once(Adopted)
    BY <1>0, AdoptedFacts, PrefixOrderedOnce DEF Adopted, SpoolTypes
  <2>3. SpoolTypes' /\ Unread'
    BY <1>0, <2>1, <2>2 DEF SpoolTypes, Unread
  <2> QED
    BY <1>o, <2>1, <2>2, <2>3 DEF SpoolInv, MemoryKnows
<1>8. CASE Crash
  <2>1. PICK n \in synced..Len(records) :
          /\ records' = SubSeq(records, 1, n)
          /\ intact' = IF n < intact THEN n ELSE intact
    BY <1>8 DEF Crash
  <2>2. /\ up' = "down" /\ torn' = torn /\ synced' = synced /\ faults' = faults
        /\ size' = 0 /\ seq' = 0
    BY <1>8 DEF Crash, Forget
  <2>3. n \in 0..Len(records) /\ synced <= n /\ n \in Nat
    BY <1>0, <2>1 DEF SpoolTypes
  <2>4. /\ records' \in Seq(Record) /\ Len(records') = n
        /\ Ordered(records') /\ Once(records')
    BY <1>0, <2>1, <2>3, PrefixFacts, PrefixOrderedOnce
  <2>5. SpoolTypes' /\ Unread'
    BY <1>0, <2>1, <2>2, <2>3, <2>4 DEF SpoolTypes, SpoolInv, Unread
  <2> QED
    BY <1>o, <2>2, <2>4, <2>5 DEF SpoolInv, MemoryKnows
<1>9. CASE CloseSpool
  <2>1. SpoolTypes'
    BY <1>0, <1>9 DEF CloseSpool, Forget, SpoolTypes
  <2> QED
    BY <1>9, <2>1 DEF CloseSpool, SpoolInv, MemoryKnows, Unread, SequencesOrdered, SpooledOnce
<1> QED
  BY <1>1, <1>2, <1>3, <1>4, <1>5, <1>6, <1>7, <1>8, <1>9 DEF SpoolStep

(* The spool's invariant, in every state of the collector.                 *)
THEOREM SpoolInvariant == Spec => []SpoolInv
<1>1. Init => SpoolInv
  <2>1. <<>> \in Seq(Record) /\ Len(<<>>) = 0 /\ \A i \in DOMAIN <<>> : FALSE
    OBVIOUS
  <2>2. Init => SpoolTypes
    <3>1. Init => torn \in BOOLEAN /\ up \in {"new", "up", "down"}
      BY DEF Init, SpoolInit
    <3>2. Init => /\ records \in Seq(Record) /\ Len(records) = 0 /\ intact = 0 /\ synced = 0
                  /\ size = 0 /\ seq = 0 /\ faults = 0
      BY <2>1 DEF Init, SpoolInit
    <3> QED
      BY <3>1, <3>2 DEF SpoolTypes
  <2>3. Init => MemoryKnows /\ Unread /\ SequencesOrdered /\ SpooledOnce
    BY <2>1 DEF Init, SpoolInit, MemoryKnows, Unread, SequencesOrdered, SpooledOnce
  <2> QED
    BY <2>2, <2>3 DEF SpoolInv
<1>2. SpoolInv /\ [Next]_vars => SpoolInv'
  BY StepsOfSpool, SpoolInductive DEF SpoolInv
<1> QED
  BY <1>1, <1>2, PTL DEF Spec

(* source_sequence numbers the lines of the spool in order across any      *)
(* number of crashes and failed writes: Open resumes after the highest.    *)
THEOREM SequenceOrder == Spec => []SequencesOrdered
<1>1. SpoolInv => SequencesOrdered
  BY DEF SpoolInv
<1> QED
  BY <1>1, SpoolInvariant, PTL

(* However often a batch is sent, to however many handlers, before and     *)
(* after restarts, each of its events is spooled once.                     *)
THEOREM Deduplication == Spec => []SpooledOnce
<1>1. SpoolInv => SpooledOnce
  BY DEF SpoolInv
<1> QED
  BY <1>1, SpoolInvariant, PTL

-----------------------------------------------------------------------------
(* The length of the file.                                                 *)

(* Lines end one after the other, and the memory knows the last end.       *)
EndsRise ==
    /\ \A i, j \in DOMAIN records : i <= j => records[i].end <= records[j].end
    /\ up = "up" => \A i \in DOMAIN records : records[i].end <= size

(* No gap is written when the bytes that gaps leave free have been used.   *)
NoGapBehind ==
    \A i, j \in DOMAIN records :
        i < j /\ records[j].type = "gap" => records[i].end < MaxBytes - GapMargin

(* Of lines of any kind.                                                   *)
Rising(s) == \A i, j \in DOMAIN s : i <= j => s[i].end <= s[j].end
NoneBehind(s) ==
    \A i, j \in DOMAIN s : i < j /\ s[j].type = "gap" => s[i].end < MaxBytes - GapMargin

(* Both hold of a prefix.                                                  *)
LEMMA RisingPrefix ==
    ASSUME NEW s \in Seq(Record), NEW n \in 0..Len(s), Rising(s), NoneBehind(s)
    PROVE  Rising(SubSeq(s, 1, n)) /\ NoneBehind(SubSeq(s, 1, n))
<1>1. /\ DOMAIN s = 1..Len(s) /\ DOMAIN SubSeq(s, 1, n) = 1..n
      /\ \A i \in 1..n : SubSeq(s, 1, n)[i] = s[i]
  BY PrefixFacts
<1>2. 1..n \subseteq 1..Len(s)
  OBVIOUS
<1> QED
  BY <1>1, <1>2 DEF Rising, NoneBehind

(* And with a line that ends behind all others, and is a gap only if there *)
(* was room for it.                                                        *)
LEMMA RisingAppend ==
    ASSUME NEW s \in Seq(Record), NEW r \in Record, Rising(s), NoneBehind(s),
           \A i \in DOMAIN s : s[i].end <= r.end,
           r.type = "gap" => \A i \in DOMAIN s : s[i].end < MaxBytes - GapMargin
    PROVE  /\ Rising(Append(s, r)) /\ NoneBehind(Append(s, r))
           /\ \A i \in DOMAIN Append(s, r) : Append(s, r)[i].end <= r.end
<1> DEFINE t == Append(s, r)
<1>0. Len(s) \in Nat /\ r.end \in Nat /\ r.end <= r.end
  BY DEF Record
<1>1. /\ DOMAIN s = 1..Len(s) /\ DOMAIN t = 1..(Len(s) + 1)
      /\ \A i \in 1..Len(s) : t[i] = s[i]
      /\ t[Len(s) + 1] = r
  BY AppendFacts
<1> HIDE DEF t
<1>2. ASSUME NEW i \in DOMAIN t
      PROVE  /\ i \in Nat
             /\ \/ i \in DOMAIN s /\ t[i] = s[i] /\ i <= Len(s)
                \/ i = Len(s) + 1 /\ t[i] = r
  <2>1. i \in Nat /\ (i \in 1..Len(s) \/ i = Len(s) + 1)
    BY <1>0, <1>1
  <2>2. CASE i \in 1..Len(s)
    BY <1>0, <1>1, <2>1, <2>2
  <2>3. CASE i = Len(s) + 1
    BY <1>1, <2>1, <2>3
  <2> QED
    BY <2>1, <2>2, <2>3
<1>3. \A i \in DOMAIN t : t[i].end <= r.end
  BY <1>0, <1>2
<1>4. Rising(t)
  <2> SUFFICES ASSUME NEW i \in DOMAIN t, NEW j \in DOMAIN t, i <= j
               PROVE  t[i].end <= t[j].end
    BY DEF Rising
  <2>1. CASE j = Len(s) + 1 /\ t[j] = r
    BY <1>3, <2>1
  <2>2. CASE j \in DOMAIN s /\ t[j] = s[j] /\ j <= Len(s)
    <3>1. i \in DOMAIN s /\ t[i] = s[i]
      BY <1>0, <1>2, <2>2
    <3> QED
      BY <2>2, <3>1 DEF Rising
  <2> QED
    BY <1>2, <2>1, <2>2
<1>5. NoneBehind(t)
  <2> SUFFICES ASSUME NEW i \in DOMAIN t, NEW j \in DOMAIN t, i < j, t[j].type = "gap"
               PROVE  t[i].end < MaxBytes - GapMargin
    BY DEF NoneBehind
  <2>1. i \in DOMAIN s /\ t[i] = s[i]
    BY <1>0, <1>2
  <2>2. CASE j = Len(s) + 1 /\ t[j] = r
    BY <2>1, <2>2
  <2>3. CASE j \in DOMAIN s /\ t[j] = s[j] /\ j <= Len(s)
    BY <2>1, <2>3 DEF NoneBehind
  <2> QED
    BY <1>2, <2>2, <2>3
<1> QED
  BY <1>3, <1>4, <1>5 DEF t

(* While there is room for a gap, no line has used the bytes gaps leave.   *)
LEMMA RoomBelow ==
    ASSUME NEW count \in Nat, NEW bytes \in Nat, ~Full(count, bytes, ReservedRecords),
           NEW n \in Nat, n <= bytes
    PROVE  n < MaxBytes - GapMargin
<1>1. ReservedRecords \in Nat /\ ReservedRecords > 0 /\ MaxBytes \in Nat /\ GapMargin \in Nat
  BY SpoolAssumption
<1>2. ~(bytes >= MaxBytes - GapMargin)
  BY <1>1 DEF Full
<1> QED
  BY <1>1, <1>2

(* The adopted lines end where the file is taken up again.                 *)
LEMMA AdoptedEnds ==
    ASSUME SpoolTypes, EndsRise, NoGapBehind, AdoptedSize \in Nat
    PROVE  /\ Rising(Adopted) /\ NoneBehind(Adopted)
           /\ \A i \in DOMAIN Adopted : Adopted[i].end \in Nat /\ Adopted[i].end <= AdoptedSize
<1>0. /\ records \in Seq(Record) /\ intact \in 0..Len(records) /\ intact \in Nat
      /\ Rising(records) /\ NoneBehind(records)
  BY DEF SpoolTypes, EndsRise, NoGapBehind, Rising, NoneBehind
<1>1. /\ Adopted \in Seq(Record) /\ DOMAIN Adopted = 1..intact
      /\ Rising(Adopted) /\ NoneBehind(Adopted)
  BY <1>0, PrefixFacts, RisingPrefix DEF Adopted
<1>2. ASSUME NEW i \in DOMAIN Adopted
      PROVE  Adopted[i].end \in Nat /\ Adopted[i].end <= AdoptedSize
  <2>1. intact # 0 /\ intact \in DOMAIN Adopted /\ i <= intact
    BY <1>0, <1>1
  <2>2. AdoptedSize = Adopted[intact].end
    BY <2>1 DEF AdoptedSize
  <2> QED
    BY <1>1, <2>1, <2>2, RecordFields DEF Rising
<1> QED
  BY <1>1, <1>2

(* Every step keeps both.                                                  *)
LEMMA EndsInductive ==
    ASSUME SpoolInv, SpoolStep, EndsRise, NoGapBehind
    PROVE  EndsRise' /\ NoGapBehind'
<1>0. /\ records \in Seq(Record) /\ Len(records) \in Nat /\ size \in Nat /\ SpoolTypes
      /\ Rising(records) /\ NoneBehind(records)
  BY DEF SpoolInv, SpoolTypes, EndsRise, NoGapBehind, Rising, NoneBehind
<1>g. /\ NoneBehind(records') => NoGapBehind'
      /\ Rising(records') /\ (up' = "up" => \A i \in DOMAIN records' : records'[i].end <= size')
            => EndsRise'
  BY DEF NoneBehind, NoGapBehind, Rising, EndsRise
<1>1. ASSUME NEW rec, Writes(rec) PROVE EndsRise' /\ NoGapBehind'
  <2>1. /\ rec \in Record /\ records' = Append(records, rec) /\ up = "up"
        /\ rec.end = size' /\ size' \in Nat /\ size <= size'
        /\ rec.type = "gap" => ~Full(Len(records), size, ReservedRecords)
    BY <1>1 DEF Writes, FullForGaps
  <2>2. \A i \in DOMAIN records : records[i].end \in Nat /\ records[i].end <= size
    BY <1>0, <2>1, RecordFields DEF EndsRise
  <2>3. \A i \in DOMAIN records : records[i].end <= rec.end
    BY <1>0, <2>1, <2>2
  <2>4. rec.type = "gap" => \A i \in DOMAIN records : records[i].end < MaxBytes - GapMargin
    BY <1>0, <2>1, <2>2, RoomBelow
  <2> QED
    BY <1>0, <1>g, <2>1, <2>3, <2>4, RisingAppend
<1>2. CASE Fails \/ Keeps \/ SyncSpool
  BY <1>2 DEF Fails, Keeps, SyncSpool, memoryVars, EndsRise, NoGapBehind
<1>3. CASE OpenNew
  <2>1. records' = records /\ records = <<>> /\ DOMAIN records' = {}
    BY <1>3 DEF OpenNew, diskVars, SpoolInv, MemoryKnows
  <2> QED
    BY <2>1 DEF EndsRise, NoGapBehind
<1>4. CASE Reopen
  <2>1. /\ Adopted \in Seq(Record) /\ AdoptedSeq \in Nat /\ AdoptedSize \in Nat /\ intact \in Nat
        /\ GapLen \in Nat
    BY <1>0, AdoptedFacts, SpoolAssumption DEF SpoolInv, SequencesOrdered, Ordered, SpoolTypes
  <2>2. RestartGap \in Record /\ RestartGap.end = AdoptedSize + GapLen
    BY <2>1, RestartGapRecord DEF RestartGap
  <2>3. /\ records' = Append(Adopted, RestartGap) /\ size' = AdoptedSize + GapLen
        /\ ~Full(intact, AdoptedSize, ReservedRecords)
    BY <1>4 DEF Reopen, RestartGap
  <2>4. /\ Rising(Adopted) /\ NoneBehind(Adopted)
        /\ \A i \in DOMAIN Adopted : Adopted[i].end \in Nat /\ Adopted[i].end <= AdoptedSize
    BY <1>0, <2>1, AdoptedEnds
  <2>5. \A i \in DOMAIN Adopted : Adopted[i].end <= RestartGap.end
    BY <2>1, <2>2, <2>4
  <2>6. \A i \in DOMAIN Adopted : Adopted[i].end < MaxBytes - GapMargin
    BY <2>1, <2>3, <2>4, RoomBelow
  <2> QED
    BY <1>g, <2>1, <2>2, <2>3, <2>4, <2>5, <2>6, RisingAppend
<1>5. CASE ReopenRaises \/ Crash \/ CloseSpool
  <2>1. PICK n \in 0..Len(records) : records' = SubSeq(records, 1, n)
    <3>1. intact \in 0..Len(records) /\ synced \in 0..Len(records) /\ Len(records) \in 0..Len(records)
      BY <1>0 DEF SpoolTypes
    <3>2. CASE ReopenRaises
      BY <3>1, <3>2 DEF ReopenRaises, Adopted
    <3>3. CASE Crash
      <4>1. PICK n \in synced..Len(records) : records' = SubSeq(records, 1, n)
        BY <3>3 DEF Crash
      <4>2. n \in 0..Len(records)
        BY <3>1, <4>1
      <4> QED
        BY <4>1, <4>2
    <3>4. CASE CloseSpool
      BY <1>0, <3>1, <3>4, WholePrefix DEF CloseSpool
    <3> QED
      BY <1>5, <3>2, <3>3, <3>4
  <2>2. up' # "up"
    BY <1>5 DEF ReopenRaises, Crash, CloseSpool
  <2> QED
    BY <1>0, <1>g, <2>1, <2>2, RisingPrefix
<1> QED
  BY <1>1, <1>2, <1>3, <1>4, <1>5 DEF SpoolStep

-----------------------------------------------------------------------------
(* The handlers.                                                           *)

(* The condition of AcknowledgedDurable: a write that fails half-way is    *)
(* what webhook_torn shows to break durability.                            *)
WholeWrites == "partial" \notin Faults

(* No fragment has been written so far.                                    *)
Sound == WholeWrites \/ faults = 0

(* An event that is found among the lines s, or was dropped with a gap or  *)
(* behind a line that had used up the reserve.                             *)
Noted(s, f) == f = 0 => GapsIn(s) # {} \/ Overrun(s)
Accounted(e, s, l, f) == e \in EventKeys(s) \/ (e \in l /\ Noted(s, f))

HandlerTypes ==
    /\ pc \in [Handlers -> {"idle", "ingest", "sync", "reply"}]
    /\ batch \in [Handlers -> Seq(Events \cup {Malformed})]
    /\ next \in [Handlers -> Nat \ {0}]
    /\ \A h \in Handlers : pc[h] = "ingest" => next[h] <= Len(batch[h])
    /\ up # "up" => \A h \in Handlers : pc[h] = "idle"

(* The items that a handler has been through are accounted for, on disk    *)
(* once it has synced; and so is all that was acknowledged.                *)
Ingested(h) ==
    IF pc[h] = "idle" THEN {}
    ELSE {i \in DOMAIN batch[h] : (pc[h] = "ingest" => i < next[h]) /\ batch[h][i] \in Events}

ItemsAccounted ==
    \A h \in Handlers : \A i \in Ingested(h) :
        Accounted(batch[h][i], IF pc[h] = "reply" THEN Durable ELSE records, lost, faults)

AckedAccounted == \A e \in acked : Accounted(e, Durable, lost, faults)

(* While the spool holds no gap its reserve is untouched, unless a line    *)
(* ran over it; and an overflow has left a gap, but behind such a line.    *)
ReserveKept ==
    faults = 0 /\ up # "down" /\ GapsIn(records) = {} =>
        Len(records) < MaxRecords /\ (size < MaxBytes - GapMargin \/ Overrun(records))

OverflowNoted == overflow => up # "down" /\ Noted(records, faults)

(* A loss that no gap reports has set off the alarm.                       *)
Alarmed ==
    /\ up = "new" => lost = {}
    /\ up = "up" /\ GapsIn(records) = {} => lost = {} \/ overflow

IntakeInv ==
    /\ EndsRise /\ NoGapBehind /\ Alarmed
    /\ Sound => /\ torn = FALSE
                /\ ItemsAccounted
                /\ AckedAccounted
                /\ ReserveKept
                /\ OverflowNoted

(* What has been fsynced is readable and stays, as long as no fragment is  *)
(* written.                                                                *)
LEMMA DurableKept ==
    ASSUME SpoolInv, SpoolStep, torn = FALSE, Sound'
    PROVE  /\ torn' = FALSE
           /\ EventKeys(Durable) \subseteq EventKeys(Durable')
           /\ GapsIn(Durable) \subseteq GapsIn(Durable')
           /\ Overrun(Durable) => Overrun(Durable')
<1>0. /\ records \in Seq(Record) /\ Len(records) \in Nat /\ intact = Len(records)
      /\ synced \in 0..Len(records) /\ faults \in Nat
      /\ SpoolTypes /\ Durable = SubSeq(records, 1, synced)
  <2>1. SpoolTypes /\ intact = Len(records)
    BY DEF SpoolInv, Unread
  <2> QED
    BY <2>1 DEF SpoolTypes, Durable, Readable
<1>1. SpoolInv' /\ SpoolTypes'
  BY SpoolInductive DEF SpoolInv
<1>t. torn' = FALSE
  <2>1. ASSUME NEW fault \in Faults, faults' = faults + 1 PROVE fault # "partial"
    <3>1. faults' # 0
      BY <1>0, <2>1
    <3> QED
      BY <2>1, <3>1 DEF Sound, WholeWrites
  <2> QED
    BY <2>1 DEF SpoolStep, Writes, Fails, Keeps, SyncSpool, OpenNew, diskVars, Reopen,
       ReopenRaises, Crash, CloseSpool
<1>2. /\ records' \in Seq(Record) /\ synced' \in 0..Len(records')
      /\ Durable' = SubSeq(records', 1, synced')
  <2>1. intact' = Len(records')
    BY <1>1, <1>t DEF SpoolInv, Unread
  <2>2. /\ records' \in Seq(Record) /\ synced' \in Nat /\ synced' <= Len(records')
        /\ Len(records') \in Nat
    BY <1>1 DEF SpoolTypes
  <2>3. (IF synced' < intact' THEN synced' ELSE intact') = synced'
    BY <2>1, <2>2
  <2>4. Durable' = SubSeq(records', 1, synced')
    BY <2>3 DEF Durable, Readable
  <2> QED
    BY <2>2, <2>4
<1>3. ASSUME synced <= synced', \A i \in 1..synced : records'[i] = records[i]
      PROVE  /\ EventKeys(Durable) \subseteq EventKeys(Durable')
             /\ GapsIn(Durable) \subseteq GapsIn(Durable')
             /\ Overrun(Durable) => Overrun(Durable')
  <2>1. /\ DOMAIN Durable = 1..synced /\ \A i \in 1..synced : Durable[i] = records[i]
        /\ DOMAIN Durable' = 1..synced' /\ \A i \in 1..synced' : Durable'[i] = records'[i]
    BY <1>0, <1>2, PrefixFacts
  <2>2. 1..synced \subseteq 1..synced'
    BY <1>0, <1>2, <1>3
  <2>3. Overrun(Durable) => Overrun(Durable')
    BY <1>3, <2>1, <2>2 DEF Overrun
  <2> QED
    BY <1>3, <2>1, <2>2, <2>3 DEF EventKeys, GapsIn
<1>4. synced <= synced' /\ \A i \in 1..synced : records'[i] = records[i]
  <2>0. synced <= synced /\ 1..synced \subseteq 1..Len(records)
    BY <1>0
  <2>1. ASSUME NEW rec, Writes(rec) PROVE synced <= synced' /\ \A i \in 1..synced : records'[i] = records[i]
    <3>1. rec \in Record /\ records' = Append(records, rec) /\ synced' = synced
      BY <2>1 DEF Writes
    <3>2. \A i \in 1..Len(records) : records'[i] = records[i]
      BY <1>0, <3>1, AppendFacts
    <3> QED
      BY <2>0, <3>1, <3>2
  <2>2. CASE Fails \/ Keeps \/ OpenNew
    BY <2>0, <2>2 DEF Fails, Keeps, OpenNew, diskVars
  <2>3. CASE SyncSpool \/ CloseSpool
    BY <1>0, <2>3 DEF SyncSpool, CloseSpool
  <2>4. CASE Reopen \/ ReopenRaises
    <3>1. /\ Adopted = records
          /\ synced' = (IF synced < intact THEN synced ELSE intact)
          /\ records' \in {Append(Adopted, RestartGap), Adopted}
      BY <1>0, <2>4, WholePrefix DEF Reopen, ReopenRaises, RestartGap, Adopted
    <3>2. RestartGap \in Record
      BY <1>0, AdoptedFacts, RestartGapRecord DEF SpoolInv, SequencesOrdered, Ordered
    <3>3. \A i \in 1..Len(records) : records'[i] = records[i]
      BY <1>0, <3>1, <3>2, AppendFacts
    <3>4. synced' = synced
      BY <1>0, <3>1
    <3> QED
      BY <2>0, <3>3, <3>4
  <2>5. CASE Crash
    <3>1. PICK n \in synced..Len(records) : records' = SubSeq(records, 1, n)
      BY <2>5 DEF Crash
    <3>2. n \in 0..Len(records) /\ 1..synced \subseteq 1..n /\ synced' = synced
      BY <1>0, <2>5, <3>1 DEF Crash
    <3>3. \A i \in 1..n : records'[i] = records[i]
      BY <1>0, <3>1, <3>2, PrefixFacts
    <3> QED
      BY <2>0, <3>2, <3>3
  <2> QED
    BY <2>1, <2>2, <2>3, <2>4, <2>5 DEF SpoolStep
<1> QED
  BY <1>t, <1>3, <1>4

(* What is written stays while the collector runs.                         *)
LEMMA RecordsKept ==
    ASSUME SpoolInv, SpoolStep, up # "down", up' # "down"
    PROVE  /\ EventKeys(records) \subseteq EventKeys(records')
           /\ GapsIn(records) \subseteq GapsIn(records')
           /\ Overrun(records) => Overrun(records')
<1>0. records \in Seq(Record)
  BY DEF SpoolInv, SpoolTypes
<1>1. ASSUME NEW rec, Writes(rec)
      PROVE  /\ EventKeys(records) \subseteq EventKeys(records')
             /\ GapsIn(records) \subseteq GapsIn(records')
             /\ Overrun(records) => Overrun(records')
  <2>1. rec \in Record /\ records' = Append(records, rec)
    BY <1>1 DEF Writes
  <2>2. /\ DOMAIN records = 1..Len(records) /\ 1..Len(records) \subseteq DOMAIN records'
        /\ \A i \in 1..Len(records) : records'[i] = records[i]
    BY <1>0, <2>1, AppendFacts
  <2>3. Overrun(records) => Overrun(records')
    BY <2>2 DEF Overrun
  <2>4. rec.type \in {"event", "gap"}
    BY <2>1 DEF Record
  <2> QED
    BY <1>0, <2>1, <2>3, <2>4, KeysAppend
<1>2. CASE Fails \/ Keeps \/ OpenNew \/ SyncSpool
  BY <1>2 DEF Fails, Keeps, OpenNew, diskVars, SyncSpool
<1> QED
  BY <1>1, <1>2 DEF SpoolStep, Reopen, ReopenRaises, Crash, CloseSpool

(* What is accounted for stays so.                                         *)
LEMMA AccountedKept ==
    ASSUME NEW e, NEW s, NEW t, NEW l, NEW m, NEW f, NEW g,
           EventKeys(s) \subseteq EventKeys(t), GapsIn(s) \subseteq GapsIn(t),
           Overrun(s) => Overrun(t),
           l \subseteq m, g = 0 => f = 0,
           Accounted(e, s, l, f)
    PROVE  Accounted(e, t, m, g)
BY DEF Accounted, Noted

(* What a handler's place says of its batch.                               *)
LEMMA HandlersInductive ==
    ASSUME HandlerTypes, [Next]_vars
    PROVE  HandlerTypes'
<1> USE DEF HandlerTypes
<1>w. \A h \in Handlers : batch[h] \in Seq(Events \cup {Malformed}) /\ Len(batch[h]) \in Nat
  OBVIOUS
<1>1. ASSUME NEW h \in Handlers, Handle(h) PROVE HandlerTypes'
  <2>a. ASSUME Answer(h), up' = up \/ (up = "up" /\ up' = "up") PROVE HandlerTypes'
    <3>1. <<>> \in Seq(Events \cup {Malformed})
      OBVIOUS
    <3> QED
      BY <2>a, <3>1 DEF Answer
  <2>u. UNCHANGED spoolVars => up' = up
    BY DEF spoolVars
  <2>1. CASE Receive(h)
    <3>1. PICK b \in Batches :
            /\ batch' = [batch EXCEPT ![h] = b]
            /\ pc' = [pc EXCEPT ![h] = IF b = <<>> THEN "sync" ELSE "ingest"]
      BY <2>1 DEF Receive
    <3>2. b \in Seq(Events \cup {Malformed}) /\ (b # <<>> => 1 <= Len(b))
      BY WebhookAssumption
    <3> QED
      BY <2>1, <2>u, <3>1, <3>2 DEF Receive
  <2>2. CASE RejectBatch(h)
    BY <2>2 DEF RejectBatch, handlerVars, GapReturns, GapRaises
  <2>3. CASE Ingest(h)
    <3>1. up = "up" /\ up' = "up"
      BY <2>3 DEF Ingest, GapReturns, AppendDuplicate, spoolVars, AppendWritten, AppendOverflows
    <3>2. /\ next' = [next EXCEPT ![h] = next[h] + 1] /\ batch' = batch
          /\ pc' = [pc EXCEPT ![h] = IF next[h] = Len(batch[h]) THEN "sync" ELSE "ingest"]
          /\ pc[h] = "ingest"
      BY <2>3 DEF Ingest, Advance
    <3>3. /\ next[h] + 1 \in Nat \ {0}
          /\ next[h] # Len(batch[h]) => next[h] + 1 <= Len(batch[h])
      BY <1>w, <3>2
    <3> QED
      BY <3>1, <3>2, <3>3
  <2>4. CASE IngestRaises(h)
    BY <2>a, <2>4 DEF IngestRaises, GapRaises, AppendRaises, AppendOverflowRaises
  <2>5. CASE Sync(h)
    BY <2>5 DEF Sync, SyncSpool
  <2>6. CASE SyncRaises(h)
    BY <2>a, <2>u, <2>6 DEF SyncRaises
  <2>7. CASE Reply(h)
    BY <2>a, <2>u, <2>7 DEF Reply
  <2> QED
    BY <1>1, <2>1, <2>2, <2>3, <2>4, <2>5, <2>6, <2>7 DEF Handle
<1>2. CASE InventoryGap
  BY <1>2 DEF InventoryGap, handlerVars, GapReturns, GapRaises
<1>3. CASE WriteBundle
  BY <1>3 DEF WriteBundle, handlerVars, RecordsCall
<1>4. CASE Start
  BY <1>4 DEF Start, handlerVars, OpenNew, Reopen, ReopenRaises
<1>5. CASE Stop
  BY <1>5 DEF Stop, AnswerAll
<1>6. CASE UNCHANGED vars
  BY <1>6 DEF vars
<1> QED
  BY <1>1, <1>2, <1>3, <1>4, <1>5, <1>6 DEF Next

(* The first drop of an episode leaves a gap, unless the reserve is full   *)
(* or the write fails; a collector that has stopped has no episode.        *)
LEMMA OverflowSteps ==
    ASSUME SpoolTypes, [Next]_vars, overflow'
    PROVE  /\ \/ overflow
              \/ up # "down" /\ FullForGaps
              \/ GapsIn(records') # {}
              \/ faults' # 0
           /\ up' = "down" => up = "down" /\ overflow
<1>0. "overflow" \in Events \cup GapKinds /\ GapLen \in Nat /\ faults + 1 # 0
  BY SpoolAssumption DEF GapKinds, SpoolTypes
<1> DEFINE Goal == /\ \/ overflow
                      \/ up # "down" /\ FullForGaps
                      \/ GapsIn(records') # {}
                      \/ faults' # 0
                   /\ up' = "down" => up = "down" /\ overflow
<1>1. ASSUME NEW e \in Events, AppendOverflows(e) PROVE Goal
  <2>0. up = "up" /\ up' = "up"
    BY <1>1 DEF AppendOverflows
  <2>1. CASE Write("gap", "overflow", GapLen)
    <3>1. PICK rec \in Record : rec.type = "gap" /\ records' = Append(records, rec)
      <4>1. /\ [type |-> "gap", key |-> "overflow", seq |-> seq + 1, end |-> size + GapLen] \in Record
        BY <1>0 DEF Record, SpoolTypes
      <4> QED
        BY <2>1, <4>1 DEF Write
    <3>2. GapsIn(records') # {}
      BY <3>1, KeysAppend DEF SpoolTypes
    <3> QED
      BY <2>0, <3>2
  <2> QED
    BY <1>1, <2>0, <2>1 DEF AppendOverflows, GapDropped
<1>2. ASSUME NEW e \in Events, AppendOverflowRaises(e) PROVE Goal
  BY <1>0, <1>2 DEF AppendOverflowRaises, WriteFails
<1>k. ASSUME overflow' = overflow, up' = up PROVE Goal
  BY <1>k
<1>3. ASSUME NEW h \in Handlers, Handle(h) PROVE Goal
  <2>1. CASE Receive(h) \/ SyncRaises(h) \/ Reply(h)
    BY <1>k, <2>1 DEF Receive, SyncRaises, Reply, spoolVars
  <2>2. CASE RejectBatch(h)
    BY <1>k, <2>2 DEF RejectBatch, GapReturns, GapRaises
  <2>3. CASE Ingest(h)
    BY <1>1, <1>k, <2>3 DEF Ingest, GapReturns, AppendDuplicate, AppendWritten, spoolVars
  <2>4. CASE IngestRaises(h)
    BY <1>2, <1>k, <2>4 DEF IngestRaises, GapRaises, AppendRaises
  <2>5. CASE Sync(h)
    BY <1>k, <2>5 DEF Sync, SyncSpool, memoryVars
  <2> QED
    BY <1>3, <2>1, <2>2, <2>3, <2>4, <2>5 DEF Handle
<1>4. CASE InventoryGap
  BY <1>k, <1>4 DEF InventoryGap, GapReturns, GapRaises
<1>5. CASE WriteBundle
  BY <1>k, <1>5 DEF WriteBundle, RecordsCall
<1>6. CASE Start
  BY <1>6 DEF Start, OpenNew, memoryVars, Reopen, ReopenRaises
<1>7. CASE Stop
  BY <1>7 DEF Stop, Crash, CloseSpool, Forget
<1>8. CASE UNCHANGED vars
  BY <1>k, <1>8 DEF vars
<1> QED
  BY <1>3, <1>4, <1>5, <1>6, <1>7, <1>8 DEF Next

(* A write can only fail more often.                                       *)
LEMMA FaultsGrow ==
    ASSUME SpoolTypes, SpoolStep
    PROVE  faults' = 0 => faults = 0
<1>1. faults \in Nat /\ faults + 1 # 0
  BY DEF SpoolTypes
<1> QED
  BY <1>1 DEF SpoolStep, Writes, Fails, Keeps, SyncSpool, OpenNew, Reopen, ReopenRaises,
     Crash, CloseSpool

(* The reserve is what is left for gaps when events stop being written.    *)
LEMMA ReserveInductive ==
    ASSUME SpoolInv, SpoolStep, ReserveKept
    PROVE  ReserveKept'
<1>0. /\ records \in Seq(Record) /\ Len(records) \in Nat /\ size \in Nat
      /\ MaxRecords \in Nat /\ MaxBytes \in Nat /\ ReservedRecords \in Nat \ {0}
      /\ ReservedBytes \in Nat /\ GapMargin \in Nat /\ GapMargin < ReservedBytes
  BY SpoolAssumption DEF SpoolInv, SpoolTypes
<1>f. faults' = 0 => faults = 0
  BY FaultsGrow DEF SpoolInv
<1>1. ASSUME NEW rec, Writes(rec) PROVE ReserveKept'
  <2>1. /\ up = "up" /\ rec \in Record /\ records' = Append(records, rec)
        /\ rec.type \in {"event", "gap"}
        /\ rec.type = "event" => ~FullForEvents
        /\ rec.end = size' /\ size' \in Nat
    BY <1>1 DEF Writes, Record
  <2>2. Len(records') = Len(records) + 1
    BY <1>0, <2>1, AppendFacts
  <2>3. CASE rec.type = "gap"
    <3>1. GapsIn(records') # {}
      BY <1>0, <2>1, <2>3, KeysAppend
    <3> QED
      BY <3>1 DEF ReserveKept
  <2>4. CASE rec.type = "event"
    <3>1. Len(records) < MaxRecords - ReservedRecords
      BY <1>0, <2>1, <2>4 DEF FullForEvents, Full
    <3>2. Len(records') < MaxRecords
      BY <1>0, <2>2, <3>1
    <3>3. size' >= MaxBytes - GapMargin => Overrun(records')
      <4>1. Len(records) + 1 \in DOMAIN records' /\ records'[Len(records) + 1] = rec
        BY <1>0, <2>1, AppendFacts
      <4> QED
        BY <2>1, <2>4, <4>1 DEF Overrun
    <3>4. size' < MaxBytes - GapMargin \/ size' >= MaxBytes - GapMargin
      BY <1>0, <2>1
    <3> QED
      BY <3>2, <3>3, <3>4 DEF ReserveKept
  <2> QED
    BY <2>1, <2>3, <2>4
<1>2. CASE Fails \/ Keeps \/ SyncSpool \/ OpenNew
  <2>1. records' = records /\ size' = size /\ (up' # "down" => up # "down")
    BY <1>2 DEF Fails, Keeps, SyncSpool, OpenNew, diskVars, memoryVars
  <2> QED
    BY <1>f, <2>1 DEF ReserveKept
<1>3. CASE Reopen
  <2>1. Adopted \in Seq(Record) /\ RestartGap \in Record /\ RestartGap.type = "gap"
    BY AdoptedFacts, RestartGapRecord DEF SpoolInv, SequencesOrdered, Ordered
  <2>2. GapsIn(records') # {}
    BY <1>3, <2>1, KeysAppend DEF Reopen, RestartGap
  <2> QED
    BY <2>2 DEF ReserveKept
<1>4. CASE ReopenRaises \/ Crash \/ CloseSpool
  <2>1. up' = "down"
    BY <1>4 DEF ReopenRaises, Crash, CloseSpool
  <2> QED
    BY <2>1 DEF ReserveKept
<1> QED
  BY <1>1, <1>2, <1>3, <1>4 DEF SpoolStep

(* An episode of overflow has left its gap.                                *)
LEMMA OverflowInductive ==
    ASSUME SpoolInv, [Next]_vars, ReserveKept, OverflowNoted
    PROVE  OverflowNoted'
<1>1. SpoolTypes /\ SpoolStep
  BY StepsOfSpool DEF SpoolInv
<1> SUFFICES ASSUME overflow' PROVE up' # "down" /\ Noted(records', faults')
  BY DEF OverflowNoted
<1>2. up' # "down"
  BY <1>1, OverflowSteps DEF OverflowNoted
<1> SUFFICES ASSUME faults' = 0 PROVE GapsIn(records') # {} \/ Overrun(records')
  BY <1>2 DEF Noted
<1>3. faults = 0
  BY <1>1, FaultsGrow
<1>4. \/ overflow
      \/ up # "down" /\ FullForGaps
      \/ GapsIn(records') # {}
  BY <1>1, OverflowSteps
<1>5. ASSUME up # "down"
      PROVE  GapsIn(records) \subseteq GapsIn(records') /\ (Overrun(records) => Overrun(records'))
  BY <1>1, <1>2, <1>5, RecordsKept
<1>6. CASE overflow
  BY <1>3, <1>5, <1>6 DEF OverflowNoted, Noted
<1>7. CASE up # "down" /\ FullForGaps
  <2>1. GapsIn(records) # {} \/ Overrun(records)
    <3>1. /\ Len(records) \in Nat /\ size \in Nat /\ ReservedRecords \in Nat \ {0}
          /\ MaxRecords \in Nat /\ MaxBytes \in Nat /\ GapMargin \in Nat
      BY <1>1, SpoolAssumption DEF SpoolTypes
    <3>2. ~(Len(records) < MaxRecords /\ size < MaxBytes - GapMargin)
      BY <1>7, <3>1 DEF FullForGaps, Full
    <3> QED
      BY <1>3, <1>7, <3>2 DEF ReserveKept
  <2> QED
    BY <1>5, <1>7, <2>1
<1> QED
  BY <1>4, <1>6, <1>7

(* An event that ingest has dealt with is spooled, or its loss is noted.   *)
LEMMA IngestAccounts ==
    ASSUME SpoolInv, [Next]_vars, Sound', IntakeInv, OverflowNoted',
           NEW h \in Handlers, Ingest(h), Item(h) \in Events
    PROVE  Accounted(Item(h), records', lost', faults')
<1>0. SpoolTypes /\ records \in Seq(Record) /\ Item(h) # Malformed
  BY WebhookAssumption DEF SpoolInv, SpoolTypes
<1>1. CASE AppendDuplicate(Item(h))
  BY <1>1 DEF AppendDuplicate, spoolVars, SpoolInv, MemoryKnows, Accounted
<1>2. CASE AppendWritten(Item(h))
  <2>1. PICK e \in Events : e = Item(h)
    OBVIOUS
  <2>2. /\ records' = Append(records, [type |-> "event", key |-> e, seq |-> seq + 1,
                                       end |-> size + LineLen[e]])
    BY <1>2, <2>1 DEF AppendWritten, Write
  <2>3. LineLen[e] \in Nat
    BY SpoolAssumption
  <2>4. PICK rec \in Record : rec.type = "event" /\ rec.key = e /\ records' = Append(records, rec)
    <3> DEFINE line == [type |-> "event", key |-> e, seq |-> seq + 1, end |-> size + LineLen[e]]
    <3>1. seq + 1 \in Nat /\ size + LineLen[e] \in Nat /\ e \in Events \cup GapKinds
      BY <1>0, <2>3 DEF SpoolTypes
    <3>2. line \in Record /\ line.type = "event" /\ line.key = e
      BY <3>1 DEF Record
    <3> QED
      BY <2>2, <3>2
  <2>5. e \in EventKeys(records')
    BY <1>0, <2>4, KeysAppend
  <2> QED
    BY <2>1, <2>5 DEF Accounted
<1>3. CASE AppendOverflows(Item(h)) /\ lost' = lost \cup {Item(h)}
  <2>1. overflow'
    BY <1>3 DEF AppendOverflows
  <2> QED
    BY <1>3, <2>1 DEF OverflowNoted, Accounted
<1> QED
  BY <1>0, <1>1, <1>2, <1>3 DEF Ingest

(* A batch has been ingested before it is synced, and synced before it is  *)
(* acknowledged; and what a handler has been through stays accounted for.  *)
LEMMA ItemsInductive ==
    ASSUME SpoolInv, HandlerTypes, HandlerTypes', [Next]_vars, Sound', IntakeInv,
           torn = FALSE, ItemsAccounted, OverflowNoted', lost \subseteq lost'
    PROVE  ItemsAccounted'
<1>1. SpoolTypes /\ SpoolStep
  BY StepsOfSpool DEF SpoolInv
<1>2. faults' = 0 => faults = 0
  BY <1>1, FaultsGrow
<1>3. /\ EventKeys(Durable) \subseteq EventKeys(Durable')
      /\ GapsIn(Durable) \subseteq GapsIn(Durable')
      /\ Overrun(Durable) => Overrun(Durable')
  BY <1>1, DurableKept
<1>4. ASSUME NEW g \in Handlers, pc'[g] # "idle", pc[g] # "idle"
      PROVE  /\ EventKeys(records) \subseteq EventKeys(records')
             /\ GapsIn(records) \subseteq GapsIn(records')
             /\ Overrun(records) => Overrun(records')
  BY <1>1, <1>4, RecordsKept DEF HandlerTypes
<1> SUFFICES ASSUME NEW g \in Handlers, NEW i \in Ingested(g)'
             PROVE  Accounted(batch'[g][i], IF pc'[g] = "reply" THEN Durable' ELSE records',
                              lost', faults')
  BY DEF ItemsAccounted
<1>5. /\ pc'[g] # "idle" /\ i \in DOMAIN batch'[g] /\ batch'[g][i] \in Events
      /\ pc'[g] = "ingest" => i < next'[g]
  BY DEF Ingested
<1>6. ASSUME pc'[g] = pc[g], batch'[g] = batch[g], i \in Ingested(g)
      PROVE  Accounted(batch'[g][i], IF pc'[g] = "reply" THEN Durable' ELSE records',
                       lost', faults')
  <2>1. Accounted(batch[g][i], IF pc[g] = "reply" THEN Durable ELSE records, lost, faults)
    BY <1>6 DEF ItemsAccounted
  <2>2. CASE pc[g] = "reply"
    BY <1>2, <1>3, <1>6, <2>1, <2>2, AccountedKept
  <2>3. CASE pc[g] # "reply"
    BY <1>2, <1>4, <1>5, <1>6, <2>1, <2>3, AccountedKept
  <2> QED
    BY <2>2, <2>3
<1>7. ASSUME pc'[g] = pc[g], batch'[g] = batch[g], next'[g] = next[g] PROVE i \in Ingested(g)
  BY <1>5, <1>7 DEF Ingested
<1>8. CASE pc'[g] = pc[g] /\ batch'[g] = batch[g] /\ next'[g] = next[g]
  BY <1>6, <1>7, <1>8
<1>9. ASSUME NEW h \in Handlers, Handle(h)
      PROVE  Accounted(batch'[g][i], IF pc'[g] = "reply" THEN Durable' ELSE records',
                       lost', faults')
  <2>1. CASE g # h
    <3>1. pc'[g] = pc[g] /\ batch'[g] = batch[g] /\ next'[g] = next[g]
      BY <1>9, <2>1 DEF Handle, Receive, RejectBatch, handlerVars, Ingest, Advance, IngestRaises,
         Answer, Sync, SyncRaises, Reply, HandlerTypes
    <3> QED
      BY <1>8, <3>1
  <2> SUFFICES ASSUME g = h
               PROVE  Accounted(batch'[g][i], IF pc'[g] = "reply" THEN Durable' ELSE records',
                                lost', faults')
    BY <2>1
  <2>2. CASE Receive(h)
    <3>1. PICK b \in Batches :
            /\ batch'[g] = b /\ pc'[g] = (IF b = <<>> THEN "sync" ELSE "ingest")
            /\ next'[g] = 1
      BY <2>2 DEF Receive, HandlerTypes
    <3>2. b \in Seq(Events \cup {Malformed}) /\ i \in DOMAIN b
      BY <1>5, <3>1, WebhookAssumption
    <3>3. b # <<>> /\ i \in Nat /\ i >= 1
      BY <3>2
    <3> QED
      BY <1>5, <3>1, <3>3
  <2>3. CASE RejectBatch(h)
    BY <1>8, <2>3 DEF RejectBatch, handlerVars
  <2>4. CASE Ingest(h)
    <3>1. /\ batch' = batch /\ next'[g] = next[g] + 1 /\ pc[g] = "ingest"
          /\ pc'[g] = (IF next[g] = Len(batch[g]) THEN "sync" ELSE "ingest")
          /\ next[g] \in Nat /\ batch[g] \in Seq(Events \cup {Malformed})
      BY <2>4 DEF Ingest, Advance, HandlerTypes
    <3>2. i \in Nat /\ i <= Len(batch[g]) /\ i <= next[g]
      BY <1>5, <3>1
    <3>3. CASE i = next[g]
      <4>1. Item(h) = batch'[g][i]
        BY <3>1, <3>3 DEF Item
      <4> QED
        BY <1>5, <2>4, <3>1, <4>1, IngestAccounts
    <3>4. CASE i # next[g]
      <4>1. i < next[g]
        BY <3>1, <3>2, <3>4
      <4>2. i \in Ingested(g)
        BY <1>5, <3>1, <4>1 DEF Ingested
      <4>3. Accounted(batch[g][i], records, lost, faults)
        BY <3>1, <4>2 DEF ItemsAccounted
      <4>4. Accounted(batch[g][i], records', lost', faults')
        BY <1>2, <1>4, <1>5, <3>1, <4>3, AccountedKept
      <4> QED
        BY <3>1, <4>4
    <3> QED
      BY <3>3, <3>4
  <2>5. CASE Sync(h)
    <3>1. /\ pc[g] = "sync" /\ pc'[g] = "reply" /\ batch' = batch /\ lost' = lost
          /\ records' = records /\ faults' = faults /\ synced' = Len(records)
          /\ intact' = intact
      BY <2>5 DEF Sync, SyncSpool, HandlerTypes
    <3>2. Durable' = records
      <4>1. records \in Seq(Record) /\ intact = Len(records) /\ Len(records) \in Nat
        BY DEF SpoolInv, SpoolTypes, Unread
      <4>2. (IF synced' < intact' THEN synced' ELSE intact') = Len(records)
        BY <3>1, <4>1
      <4>3. Durable' = SubSeq(records, 1, Len(records))
        BY <3>1, <4>2 DEF Durable, Readable
      <4> QED
        BY <4>1, <4>3, WholePrefix
    <3>3. i \in Ingested(g)
      BY <1>5, <3>1 DEF Ingested
    <3> QED
      BY <3>1, <3>2, <3>3 DEF ItemsAccounted
  <2>6. CASE IngestRaises(h) \/ SyncRaises(h) \/ Reply(h)
    <3>1. pc'[g] = "idle"
      BY <2>6 DEF IngestRaises, SyncRaises, Reply, Answer, HandlerTypes
    <3> QED
      BY <1>5, <3>1
  <2> QED
    BY <1>9, <2>2, <2>3, <2>4, <2>5, <2>6 DEF Handle
<1>10. CASE InventoryGap \/ WriteBundle \/ Start
  BY <1>8, <1>10 DEF InventoryGap, WriteBundle, Start, handlerVars
<1>11. CASE Stop
  <2>1. pc'[g] = "idle"
    BY <1>11 DEF Stop, AnswerAll
  <2> QED
    BY <1>5, <2>1
<1>12. CASE UNCHANGED vars
  BY <1>8, <1>12 DEF vars
<1> QED
  BY <1>9, <1>10, <1>11, <1>12 DEF Next

(* What was acknowledged had been synced, and stays.                       *)
LEMMA AckedInductive ==
    ASSUME SpoolInv, HandlerTypes, [Next]_vars, Sound', torn = FALSE,
           ItemsAccounted, AckedAccounted, lost \subseteq lost'
    PROVE  AckedAccounted'
<1>1. SpoolTypes /\ SpoolStep
  BY StepsOfSpool DEF SpoolInv
<1>2. faults' = 0 => faults = 0
  BY <1>1, FaultsGrow
<1>3. /\ EventKeys(Durable) \subseteq EventKeys(Durable')
      /\ GapsIn(Durable) \subseteq GapsIn(Durable')
      /\ Overrun(Durable) => Overrun(Durable')
  BY <1>1, DurableKept
<1>4. ASSUME NEW e \in acked PROVE Accounted(e, Durable', lost', faults')
  <2>1. Accounted(e, Durable, lost, faults)
    BY DEF AckedAccounted
  <2> QED
    BY <1>2, <1>3, <2>1, AccountedKept
<1>5. ASSUME NEW h \in Handlers, Reply(h), NEW e \in acked'
      PROVE  Accounted(e, Durable', lost', faults')
  <2>1. CASE e \in acked
    BY <1>4, <2>1
  <2>2. CASE e \notin acked
    <3>1. /\ pc[h] = "reply" /\ e \in ItemsOf(batch[h]) /\ e \in Events
          /\ lost' = lost
      BY <1>5, <2>2 DEF Reply
    <3>2. PICK i \in DOMAIN batch[h] : e = batch[h][i]
      BY <3>1 DEF ItemsOf
    <3>3. i \in Ingested(h)
      BY <3>1, <3>2 DEF Ingested
    <3>4. Accounted(e, Durable, lost, faults)
      BY <3>1, <3>2, <3>3 DEF ItemsAccounted
    <3> QED
      BY <1>2, <1>3, <3>4, AccountedKept
  <2> QED
    BY <2>1, <2>2
<1>6. acked' = acked \/ \E h \in Handlers : Reply(h)
  BY DEF Next, Handle, Receive, RejectBatch, Ingest, IngestRaises, Sync, SyncRaises,
     InventoryGap, WriteBundle, Start, Stop, vars
<1> QED
  BY <1>4, <1>5, <1>6 DEF AckedAccounted

(* What is lost is lost in an episode of overflow, and the alarm that      *)
(* starts one stands while the collector runs.                             *)
LEMMA AlarmSteps ==
    ASSUME [Next]_vars
    PROVE  /\ lost' = lost \/ (up = "up" /\ overflow')
           /\ up' = "new" => up = "new" /\ lost' = lost
           /\ up' = "up" => \/ up = "up" /\ (overflow => overflow')
                            \/ OpenNew /\ lost' = lost
                            \/ Reopen /\ lost' = lost
<1> DEFINE Goal == /\ lost' = lost \/ (up = "up" /\ overflow')
                   /\ up' = "new" => up = "new" /\ lost' = lost
                   /\ up' = "up" => \/ up = "up" /\ (overflow => overflow')
                                    \/ OpenNew /\ lost' = lost
                                    \/ Reopen /\ lost' = lost
<1>k. ASSUME lost' = lost, overflow' = overflow, up' = up PROVE Goal
  BY <1>k
<1>1. ASSUME NEW h \in Handlers, Handle(h) PROVE Goal
  <2>1. CASE Receive(h) \/ SyncRaises(h) \/ Reply(h)
    BY <1>k, <2>1 DEF Receive, SyncRaises, Reply, spoolVars
  <2>2. CASE RejectBatch(h)
    BY <1>k, <2>2 DEF RejectBatch, GapReturns, GapRaises
  <2>3. CASE Ingest(h)
    BY <1>k, <2>3 DEF Ingest, GapReturns, AppendDuplicate, AppendWritten, AppendOverflows, spoolVars
  <2>4. CASE IngestRaises(h)
    BY <1>k, <2>4 DEF IngestRaises, GapRaises, AppendRaises, AppendOverflowRaises
  <2>5. CASE Sync(h)
    BY <1>k, <2>5 DEF Sync, SyncSpool, memoryVars
  <2> QED
    BY <1>1, <2>1, <2>2, <2>3, <2>4, <2>5 DEF Handle
<1>2. CASE InventoryGap
  BY <1>k, <1>2 DEF InventoryGap, GapReturns, GapRaises
<1>3. CASE WriteBundle
  BY <1>k, <1>3 DEF WriteBundle, RecordsCall
<1>4. CASE Start
  BY <1>4 DEF Start, OpenNew, Reopen, ReopenRaises
<1>5. CASE Stop
  BY <1>5 DEF Stop, Crash, CloseSpool
<1>6. CASE UNCHANGED vars
  BY <1>k, <1>6 DEF vars
<1> QED
  BY <1>1, <1>2, <1>3, <1>4, <1>5, <1>6 DEF Next

(* Without a gap there has been no restart, so the alarm still stands.     *)
LEMMA AlarmInductive ==
    ASSUME SpoolInv, [Next]_vars, Alarmed
    PROVE  Alarmed'
<1>1. SpoolTypes /\ SpoolStep
  BY StepsOfSpool DEF SpoolInv
<1>2. up' = "new" => lost' = {}
  BY AlarmSteps DEF Alarmed
<1>3. ASSUME up' = "up", GapsIn(records') = {} PROVE lost' = {} \/ overflow'
  <2>1. CASE up = "up" /\ (overflow => overflow')
    <3>1. GapsIn(records) = {}
      BY <1>1, <1>3, <2>1, RecordsKept
    <3> QED
      BY <2>1, <3>1, AlarmSteps DEF Alarmed
  <2>2. CASE OpenNew /\ lost' = lost
    BY <2>2 DEF OpenNew, Alarmed
  <2>3. CASE Reopen
    <3>1. Adopted \in Seq(Record) /\ RestartGap \in Record /\ RestartGap.type = "gap"
      BY <1>1, AdoptedFacts, RestartGapRecord DEF SpoolInv, SequencesOrdered, Ordered
    <3>2. GapsIn(records') # {}
      BY <2>3, <3>1, KeysAppend DEF Reopen, RestartGap
    <3> QED
      BY <1>3, <3>2
  <2> QED
    BY <1>3, <2>1, <2>2, <2>3, AlarmSteps
<1> QED
  BY <1>2, <1>3 DEF Alarmed

(* The inductive step.                                                     *)
LEMMA IntakeInductive ==
    ASSUME SpoolInv, HandlerTypes, [Next]_vars, IntakeInv
    PROVE  IntakeInv'
<1>1. SpoolTypes /\ SpoolStep
  BY StepsOfSpool DEF SpoolInv
<1>2. HandlerTypes'
  BY HandlersInductive
<1>3. lost \subseteq lost'
  BY DEF Next, Handle, Receive, RejectBatch, Ingest, IngestRaises, Sync, SyncRaises, Reply,
     InventoryGap, WriteBundle, Start, Stop, vars
<1>a. EndsRise' /\ NoGapBehind' /\ Alarmed'
  BY <1>1, EndsInductive, AlarmInductive DEF IntakeInv
<1> SUFFICES ASSUME Sound'
             PROVE  /\ torn' = FALSE /\ ItemsAccounted' /\ AckedAccounted'
                    /\ ReserveKept' /\ OverflowNoted'
  BY <1>a DEF IntakeInv
<1>4. Sound
  BY <1>1, FaultsGrow DEF Sound, WholeWrites
<1>5. torn = FALSE /\ ItemsAccounted /\ AckedAccounted /\ ReserveKept /\ OverflowNoted
  BY <1>4 DEF IntakeInv
<1>6. torn' = FALSE
  BY <1>1, <1>5, DurableKept
<1>7. ReserveKept' /\ OverflowNoted'
  BY <1>1, <1>5, ReserveInductive, OverflowInductive
<1>8. ItemsAccounted'
  BY <1>2, <1>3, <1>5, <1>7, ItemsInductive
<1>9. AckedAccounted'
  BY <1>3, <1>5, AckedInductive
<1> QED
  BY <1>6, <1>7, <1>8, <1>9

(* The intake's invariant.                                                 *)
THEOREM IntakeInvariant == Spec => [](SpoolInv /\ HandlerTypes /\ IntakeInv)
<1>1. Init => HandlerTypes /\ IntakeInv
  <2>1. <<>> \in Seq(Events \cup {Malformed}) /\ Len(<<>>) = 0
    OBVIOUS
  <2>2. Init => HandlerTypes
    BY <2>1 DEF Init, SpoolInit, HandlerTypes
  <2>3. Init => torn = FALSE /\ ItemsAccounted /\ AckedAccounted /\ OverflowNoted
    BY DEF Init, SpoolInit, ItemsAccounted, Ingested, AckedAccounted, OverflowNoted
  <2>4. Init => ReserveKept
    <3>1. 0 < MaxRecords /\ 0 < MaxBytes - GapMargin
      BY SpoolAssumption
    <3> QED
      BY <2>1, <3>1 DEF Init, SpoolInit, ReserveKept
  <2>5. Init => EndsRise /\ NoGapBehind /\ Alarmed
    BY DEF Init, SpoolInit, EndsRise, NoGapBehind, Alarmed
  <2> QED
    BY <2>2, <2>3, <2>4, <2>5 DEF IntakeInv
<1>2. SpoolInv /\ HandlerTypes /\ IntakeInv /\ [Next]_vars => HandlerTypes' /\ IntakeInv'
  BY HandlersInductive, IntakeInductive
<1> QED
  BY <1>1, <1>2, SpoolInvariant, PTL DEF Spec

(* An event the API server was told 200 for is found after any crash,      *)
(* unless it was dropped, in every state in which no fragment can have     *)
(* been written: writes that fail leave nothing behind, or none has failed *)
(* yet.  Webhook_torn shows what a fragment does.                          *)
THEOREM AcknowledgedDurable == Spec => [](Sound => AckedDurable)
<1>1. IntakeInv => (Sound => AckedDurable)
  BY DEF IntakeInv, AckedAccounted, Accounted, AckedDurable
<1> QED
  BY <1>1, IntakeInvariant, PTL

(* While no write has failed, an acknowledged event that was dropped has   *)
(* left a gap in the durable spool, whatever the lengths of the lines,     *)
(* unless a line ran over the reserve; then no gap can be written behind   *)
(* it, the collector that dropped the event still runs, with its alarm     *)
(* set, or no collector will run on this spool again.                      *)
THEOREM LossNoted == Spec => []LossVisible
<1>1. SpoolInv /\ IntakeInv => LossVisible
  <2> SUFFICES ASSUME SpoolInv, IntakeInv, ~(faults > 0), GapsIn(Durable) = {},
                      NEW e \in acked \cap lost, e \notin EventKeys(Durable)
               PROVE  Overrun(Durable) /\ (up = "up" => overflow)
    BY DEF LossVisible
  <2>1. faults = 0 /\ Sound
    BY DEF SpoolInv, SpoolTypes, Sound
  <2>2. Overrun(Durable)
    BY <2>1 DEF IntakeInv, AckedAccounted, Accounted, Noted
  <2>3. /\ records \in Seq(Record) /\ synced \in 0..Len(records)
        /\ Durable = SubSeq(records, 1, synced)
    <3>1. intact = Len(records) /\ SpoolTypes
      BY <2>1 DEF IntakeInv, SpoolInv, Unread
    <3> QED
      BY <3>1 DEF SpoolTypes, Durable, Readable
  <2>4. /\ DOMAIN records = 1..Len(records) /\ DOMAIN Durable = 1..synced
        /\ \A i \in 1..synced : Durable[i] = records[i]
    BY <2>3, PrefixFacts
  <2>5. PICK i \in DOMAIN Durable : Durable[i].end >= MaxBytes - GapMargin
    BY <2>2 DEF Overrun
  <2>6. GapsIn(records) = {}
    <3> SUFFICES ASSUME NEW j \in DOMAIN records, records[j].type = "gap" PROVE FALSE
      BY DEF GapsIn
    <3>1. j \notin DOMAIN Durable
      BY <2>4 DEF GapsIn
    <3>2. i \in DOMAIN records /\ i < j /\ records[i].end \in Nat
      BY <2>3, <2>4, <2>5, <3>1, RecordFields
    <3>3. records[i].end < MaxBytes - GapMargin
      BY <3>2 DEF IntakeInv, NoGapBehind
    <3> QED
      BY <2>4, <2>5, <3>2, <3>3, SpoolAssumption
  <2> QED
    BY <2>2, <2>6 DEF IntakeInv, Alarmed
<1> QED
  BY <1>1, IntakeInvariant, PTL
=============================================================================
