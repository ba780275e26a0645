---------------------------- MODULE ReadingBuffer ----------------------------
(***************************************************************************)
(* The batched persistence of readings (oracle/oracle.service.ts):         *)
(* persistReading, flushBuffer and the two shutdown hooks that flush.  The *)
(* code between two awaits is one step, so a flush that is called takes    *)
(* its first batch in the step of its caller.                              *)
(***************************************************************************)
EXTENDS Integers, Sequences, FiniteSets, Functions

CONSTANTS Calls,       \* bound: the calls of persistReading with a storable reading
          Bad,         \* those whose row the database refuses
          BatchSize,   \* batchSize, above 1
          MaxBuffer    \* maxBufferSize

ASSUME SizesAssumption ==
    /\ BatchSize \in Nat /\ MaxBuffer \in Nat /\ BatchSize > 1
    /\ Calls \in Nat /\ Bad \subseteq 1..Calls

\* Readings are numbered in the order of their calls.
Reading == 1..Calls

VARIABLES
    status,     \* of each call: not made, pending, resolved, rejected, refused
    buffer,     \* readings that wait
    batch,      \* readings the running flush has taken
    flushing,   \* isFlushing: "no", "batch" or, after a failed batch, "single"
    timer,      \* flushTimer is armed
    stored,     \* readings in the order their rows were written
    hook        \* the shutdown hooks, onModuleDestroy then onApplicationShutdown

bufferVars == <<status, buffer, batch, flushing, timer, stored, hook>>

BufferTypeOK ==
    /\ status \in [Reading -> {"new", "pending", "resolved", "rejected", "refused"}]
    /\ buffer \in Seq(Reading) /\ Len(buffer) <= MaxBuffer
    /\ batch \in Seq(Reading) /\ Len(batch) <= BatchSize
    /\ flushing \in {"no", "batch", "single"}
    /\ timer \in BOOLEAN
    /\ stored \in Seq(Reading)
    /\ hook \in {"up", "destroy", "between", "shutdown", "done"}

BufferInit ==
    /\ status = [x \in Reading |-> "new"]
    /\ buffer = <<>> /\ batch = <<>>
    /\ flushing = "no" /\ timer = FALSE
    /\ stored = <<>>
    /\ hook = "up"

-----------------------------------------------------------------------------
(* flushBuffer                                                             *)

Taken_Last(b) == SubSeq(b, Len(b) - BatchSize + 1, Len(b))
\* buffer.splice(0, batchSize)
Taken(b) == SubSeq(b, 1, BatchSize)
Left(b) == SubSeq(b, BatchSize + 1, Len(b))
TakeUpTo(b) == IF Len(b) <= BatchSize THEN b ELSE Taken(b)

Loop_OneBatch(b) ==
    /\ buffer' = IF flushing = "no" THEN Left(b) ELSE b
    /\ batch' = IF flushing = "no" THEN TakeUpTo(b) ELSE <<>>
    /\ flushing' = IF flushing = "no" THEN "batch" ELSE "no"

\* The head of the loop, with b in the buffer: take a batch or stop.  It stops
\* with an empty buffer only, so the finally never arms the timer.
Loop(b) ==
    /\ buffer' = Left(b)
    /\ batch' = TakeUpTo(b)
    /\ flushing' = IF b = <<>> THEN "no" ELSE "batch"

\* A call of flushBuffer with b in the buffer, up to its first await.
FlushBuffer(b) ==
    /\ timer' = FALSE
    /\ IF b = <<>> \/ flushing # "no"
       THEN buffer' = b /\ UNCHANGED <<batch, flushing>>
       ELSE Loop(b)

\* executeUpsertBatch committed.
BatchStored ==
    /\ flushing = "batch"
    /\ Range(batch) \cap Bad = {}
    /\ stored' = stored \o batch
    /\ status' = [x \in Reading |-> IF x \in Range(batch) THEN "resolved"
                                                          ELSE status[x]]
    /\ Loop(buffer)
    /\ UNCHANGED <<timer, hook>>

BatchFailed_Requeues ==
    /\ flushing = "batch"
    /\ flushing' = "single"
    /\ buffer' = batch \o buffer
    /\ UNCHANGED <<status, batch, timer, stored, hook>>

\* The transaction failed, for a bad row or otherwise: fall back to single rows.
BatchFailed ==
    /\ flushing = "batch"
    /\ flushing' = "single"
    /\ UNCHANGED <<status, buffer, batch, timer, stored, hook>>

SingleUpsert_StopsAtBad ==
    /\ flushing = "single"
    /\ status' = [x \in Reading |-> IF x \in Range(batch) THEN "rejected"
                                                          ELSE status[x]]
    /\ Loop(buffer)
    /\ UNCHANGED <<stored, timer, hook>>

\* executeSingleUpsert of the next row of the batch.
SingleUpsert ==
    /\ flushing = "single"
    /\ LET x == Head(batch) IN
          /\ stored' = IF x \in Bad THEN stored ELSE Append(stored, x)
          /\ status' = [status EXCEPT ![x] = IF x \in Bad THEN "rejected"
                                                          ELSE "resolved"]
    /\ IF Len(batch) = 1
       THEN Loop(buffer)
       ELSE batch' = Tail(batch) /\ UNCHANGED <<buffer, flushing>>
    /\ UNCHANGED <<timer, hook>>

-----------------------------------------------------------------------------
(* Callers of flushBuffer                                                  *)

Full_OneMore == Len(buffer) > MaxBuffer
Full == Len(buffer) >= MaxBuffer

\* persistReading, until the server stops taking requests.
PersistReading(x) ==
    /\ status[x] = "new" /\ \A y \in 1..(x - 1) : status[y] # "new"
    /\ hook \in {"up", "destroy", "between"}
    /\ IF Full
       THEN /\ status' = [status EXCEPT ![x] = "refused"]
            /\ UNCHANGED <<buffer, batch, flushing, timer>>
       ELSE /\ status' = [status EXCEPT ![x] = "pending"]
            /\ IF Len(buffer) + 1 >= BatchSize
               THEN FlushBuffer(Append(buffer, x))
               ELSE /\ buffer' = Append(buffer, x)
                    /\ timer' = TRUE
                    /\ UNCHANGED <<batch, flushing>>
    /\ UNCHANGED <<stored, hook>>

TimerFires ==
    /\ timer
    /\ FlushBuffer(buffer)
    /\ UNCHANGED <<status, stored, hook>>

\* A hook clears the timer and awaits flushBuffer, which returns at once when
\* there is nothing to do or a flush is already running.
HookBegins(from, during, after) ==
    /\ hook = from
    /\ FlushBuffer(buffer)
    /\ hook' = IF buffer = <<>> \/ flushing # "no" THEN after ELSE during
    /\ UNCHANGED <<status, stored>>

HookEnds(during, after) ==
    /\ hook = during
    /\ flushing = "no"
    /\ hook' = after
    /\ UNCHANGED <<status, buffer, batch, flushing, timer, stored>>

OnModuleDestroy == HookBegins("up", "destroy", "between")
                   \/ HookEnds("destroy", "between")
OnApplicationShutdown == HookBegins("between", "shutdown", "done")
                         \/ HookEnds("shutdown", "done")

Flush == BatchStored \/ BatchFailed \/ SingleUpsert

BufferNext ==
    \/ \E x \in Reading : PersistReading(x)
    \/ Flush \/ TimerFires
    \/ OnModuleDestroy \/ OnApplicationShutdown

BufferSpec == BufferInit /\ [][BufferNext]_bufferVars

\* Timers fire and the database answers; nobody has to shut down.
BufferFairSpec == BufferSpec /\ WF_bufferVars(Flush) /\ WF_bufferVars(TimerFires)

-----------------------------------------------------------------------------
(* Properties                                                              *)

Pending == {x \in Reading : status[x] = "pending"}

\* A reading that was accepted and not answered is in the buffer or in the batch,
\* once; an answered one is in neither.
InOnePlace ==
    /\ Range(buffer \o batch) = Pending
    /\ Cardinality(Pending) = Len(buffer) + Len(batch)

\* Rows are written in the order of the calls, through batches, single rows and
\* calls that arrive during a flush.
StoredInOrder == \A i, j \in DOMAIN stored : i < j => stored[i] < stored[j]

\* "Fall back to individual inserts to isolate any single bad row": exactly the
\* bad rows are rejected, and a resolved call has its row.
BadRowsIsolated ==
    \A x \in Reading : /\ status[x] = "rejected" => x \in Bad
                       /\ status[x] = "resolved" => x \in Range(stored)

\* Every accepted reading is answered, whether a full batch, the timer or a
\* running flush comes to it.
AcceptedIsAnswered ==
    \A x \in Reading : x \in Pending ~> x \notin Pending \/ hook = "done"

\* "Flush on application shutdown through existing shutdown hooks": when the
\* last hook has returned nothing is left to write.
ShutdownFlushes == hook = "done" => Pending = {}
=============================================================================
