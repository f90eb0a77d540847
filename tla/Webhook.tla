------------------------------ MODULE Webhook ------------------------------
(***************************************************************************)
(* The intake of the collector: the audit webhook                          *)
(* (internal/audit/webhook.go), the audit ingester (internal/audit/        *)
(* audit.go), the other writers of gaps and the end of run                 *)
(* (cmd/afterlock-collector/main.go), over the spool of Spool.             *)
(*                                                                         *)
(* net/http serves each request in a goroutine of its own.  A handler      *)
(* ingests the items of its batch one by one, each under the spool's lock, *)
(* fsyncs the spool and answers; the API server may send a batch again.    *)
(***************************************************************************)
EXTENDS Spool

CONSTANTS
    Handlers,   \* the goroutines that serve requests at a time
    Batches,    \* the batches that may be sent, sequences of items
    Malformed   \* an item that becomes a gap instead of a record

ASSUME WebhookAssumption ==
    /\ Batches \subseteq Seq(Events \cup {Malformed})
    /\ Malformed \notin Events

VARIABLES
    pc,       \* idle, ingest, sync (items done), reply (fsynced)
    batch,    \* the batch a handler works on
    next,     \* the index of its next item
    acked,    \* every event of every batch answered with 200
    lost      \* every event an Append of this or an earlier run dropped

handlerVars == <<pc, batch, next>>
vars == <<records, intact, torn, synced, up, size, seq, seen, dropped, overflow, summaryOK,
          faults, crashes, pc, batch, next, acked, lost>>

Init ==
    /\ SpoolInit
    /\ pc = [h \in Handlers |-> "idle"]
    /\ batch = [h \in Handlers |-> <<>>]
    /\ next = [h \in Handlers |-> 1]
    /\ acked = {}
    /\ lost = {}

ItemsOf(b) == {b[i] : i \in DOMAIN b}

(* The handler answers, with whatever status, and is gone.                 *)
Answer(h) ==
    /\ pc' = [pc EXCEPT ![h] = "idle"]
    /\ batch' = [batch EXCEPT ![h] = <<>>]
    /\ next' = [next EXCEPT ![h] = 1]

(* All handlers die with the process.                                      *)
AnswerAll ==
    /\ pc' = [h \in Handlers |-> "idle"]
    /\ batch' = [h \in Handlers |-> <<>>]
    /\ next' = [h \in Handlers |-> 1]

-----------------------------------------------------------------------------
(* ServeHTTP.                                                              *)

Receive(h) ==
    /\ up = "up"
    /\ pc[h] = "idle"
    /\ \E b \in Batches :
         /\ batch' = [batch EXCEPT ![h] = b]
         /\ pc' = [pc EXCEPT ![h] = IF b = <<>> THEN "sync" ELSE "ingest"]
    /\ next' = [next EXCEPT ![h] = 1]
    /\ UNCHANGED <<spoolVars, acked, lost>>

(* A batch that is too large or is no EventList: one gap and an error.     *)
RejectBatch(h) ==
    /\ pc[h] = "idle"
    /\ GapReturns("observation") \/ GapRaises
    /\ UNCHANGED <<handlerVars, acked, lost>>

(* On to the next item of the batch, or to Sync.                           *)
Advance(h) ==
    /\ next' = [next EXCEPT ![h] = @ + 1]
    /\ pc' = [pc EXCEPT ![h] = IF next[h] = Len(batch[h]) THEN "sync" ELSE "ingest"]
    /\ UNCHANGED batch

Item(h) == batch[h][next[h]]

(* ingest of one item, when IngestList goes on: nil, a duplicate or        *)
(* ErrOverflow.                                                            *)
Ingest(h) ==
    /\ pc[h] = "ingest"
    /\ \/ /\ Item(h) = Malformed
          /\ GapReturns("observation")
          /\ UNCHANGED lost
       \/ /\ Item(h) \in Events
          /\ AppendDuplicate(Item(h)) \/ AppendWritten(Item(h))
          /\ UNCHANGED lost
       \/ /\ Item(h) \in Events
          /\ AppendOverflows(Item(h))
          /\ lost' = lost \cup {Item(h)}
    /\ Advance(h)
    /\ UNCHANGED acked

(* ingest of one item that fails: IngestList stops and the answer is 400.  *)
IngestRaises(h) ==
    /\ pc[h] = "ingest"
    /\ \/ Item(h) = Malformed /\ GapRaises
       \/ Item(h) \in Events /\ (AppendRaises(Item(h)) \/ AppendOverflowRaises(Item(h)))
    /\ Answer(h)
    /\ UNCHANGED <<acked, lost>>

Sync(h) ==
    /\ pc[h] = "sync"
    /\ SyncSpool
    /\ pc' = [pc EXCEPT ![h] = "reply"]
    /\ UNCHANGED <<batch, next, acked, lost>>

(* Sync fails: 503.                                                        *)
SyncRaises(h) ==
    /\ pc[h] = "sync"
    /\ up = "up"
    /\ Answer(h)
    /\ UNCHANGED <<spoolVars, acked, lost>>

(* ServeHTTP that answers 200 without waiting for Sync.                    *)
ReplyEarly(h) ==
    /\ pc[h] \in {"sync", "reply"}
    /\ up = "up"
    /\ acked' = acked \cup (ItemsOf(batch[h]) \cap Events)
    /\ Answer(h)
    /\ UNCHANGED <<spoolVars, lost>>

Reply(h) ==
    /\ pc[h] = "reply"
    /\ up = "up"
    /\ acked' = acked \cup (ItemsOf(batch[h]) \cap Events)
    /\ Answer(h)
    /\ UNCHANGED <<spoolVars, lost>>

-----------------------------------------------------------------------------
(* The other goroutines and the process.                                   *)

(* A watch goroutine, or RecordWindowGap, records a gap; run's gap         *)
(* function only logs an error.                                            *)
InventoryGap ==
    /\ GapReturns("observation") \/ GapRaises
    /\ UNCHANGED <<handlerVars, acked, lost>>

(* The end of run writes the bundle from Records.  Shutdown waits for the  *)
(* handlers for a limited time only, so some may still be at work.         *)
WriteBundle ==
    /\ RecordsCall
    /\ UNCHANGED <<handlerVars, acked, lost>>

Start ==
    /\ OpenNew \/ Reopen \/ ReopenRaises
    /\ UNCHANGED <<handlerVars, acked, lost>>

Stop ==
    /\ Crash \/ CloseSpool
    /\ AnswerAll
    /\ UNCHANGED <<acked, lost>>

Handle(h) ==
    \/ Receive(h)
    \/ RejectBatch(h)
    \/ Ingest(h)
    \/ IngestRaises(h)
    \/ Sync(h)
    \/ SyncRaises(h)
    \/ Reply(h)

Next ==
    \/ \E h \in Handlers : Handle(h)
    \/ InventoryGap
    \/ WriteBundle
    \/ Start
    \/ Stop

Spec == Init /\ [][Next]_vars
-----------------------------------------------------------------------------
(* Properties.                                                             *)

(* Deduplication: an event is spooled once, however often its batch is     *)
(* sent, by however many handlers, across restarts.                        *)
SpooledOnce ==
    \A i, j \in DOMAIN records :
        records[i].type = "event" /\ records[j].type = "event"
            /\ records[i].key = records[j].key => i = j

(* source_sequence orders the spool: no two records of it share a number,  *)
(* which the projector would take for conflicting evidence, and restarts   *)
(* do not start over.                                                      *)
SequencesOrdered ==
    \A i, j \in DOMAIN records : i < j => records[i].seq < records[j].seq

(* A batch is acknowledged only after the spool is durable: an event the   *)
(* API server was told 200 for is found in the spool after any crash,      *)
(* unless it was dropped.                                                  *)
AckedDurable == \A e \in acked \ lost : e \in EventKeys(Durable)

(* An event's line ran over the reserve: full compares what is written     *)
(* already, so the line may reach the bytes that even a gap leaves free.   *)
Overrun(recs) ==
    \E i \in DOMAIN recs : recs[i].type = "event" /\ recs[i].end >= MaxBytes - GapMargin

(* Loss shows: when an acknowledged event was dropped, the durable spool   *)
(* holds a gap, so that the analysis does not take the evidence for        *)
(* complete.  Only behind a line that ran over the reserve there may be no *)
(* gap; then the collector's overflow alarm stands for as long as it runs, *)
(* and it cannot run on that spool again.  A write that has failed is      *)
(* excepted, since the overflow gap itself may be what was not written.    *)
LossVisible ==
    \/ faults > 0
    \/ acked \cap lost \subseteq EventKeys(Durable)
    \/ GapsIn(Durable) # {}
    \/ Overrun(Durable) /\ (up = "up" => overflow)

=============================================================================
