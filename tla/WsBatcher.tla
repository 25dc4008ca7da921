------------------------------ MODULE WsBatcher ------------------------------
(***************************************************************************)
(* Downlink batching of one WebSocket of the gateway (_WSConnection in     *)
(* engines/middleware.py): the relay adds frames to a buffer, and a flusher*)
(* task sends them as a batch when the batch is big enough or its deadline *)
(* has passed.  A disconnect, a close message and the end of the connection*)
(* flush too.  All of it runs on one event loop: a step here is what runs  *)
(* between two suspensions, and a task that never suspends holds the loop. *)
(*                                                                         *)
(* A frame is a number, of size one; its batch goes through the frame      *)
(* pipeline, which keeps the concatenation of the stream (EngineManager). A*)
(* flush may be suspended at every frame, by a client that reads slowly or *)
(* by the delays Morph asks for.  After the disconnect message uvicorn     *)
(* refuses every send at once.                                             *)
(*                                                                         *)
(* Left out: the uplink, which passes frame by frame; text frames; the     *)
(* feedback when the connection ends.                                      *)
(***************************************************************************)
EXTENDS Naturals, Sequences, SequencesExt

CONSTANTS
  MaxFrames,   \* bound: frames the upstream sends
  MaxSize,     \* coalesce_max_size
  HardCap      \* coalesce_max_buffer

ASSUME WsBatcherAssumption ==
  MaxFrames \in Nat /\ MaxSize \in Nat \ {0} /\ HardCap \in Nat \ {0}

VARIABLES
  buffer,   \* frames added and not in a batch
  batch,    \* frames of the running flush that are still to send
  holder,   \* the task whose flush runs: _flushing
  clock,    \* the deadline of the buffer: "off", "running" or "passed"
  closed,   \* _closed
  task,     \* flusher, down and receive pumps, and the close path
  frame,    \* the last frame the upstream sent
  got,      \* frames written to the client, in order
  client,   \* "on" or "gone"
  held      \* whether the flusher runs without ever suspending

batcherVars == <<buffer, batch, holder, clock, closed, task, frame, got, client, held>>

FlusherStates == {"none", "ready", "idle", "coalescing", "flushing", "ended"}

BatcherInit ==
  /\ buffer = <<>> /\ batch = <<>> /\ holder = "none" /\ clock = "off"
  /\ closed = FALSE
  /\ task = [flusher |-> "none", down |-> "reading", receive |-> "waiting", close |-> "no"]
  /\ frame = 0 /\ got = <<>> /\ client = "on" /\ held = FALSE

Loop == ~held

Goto(t, pc) == task' = [task EXCEPT ![t] = pc]

(* Mutant of TakeBatch: the last frame goes first.                         *)
TakeBatchLast(t) ==
  /\ holder' = t
  /\ batch' = <<buffer[Len(buffer)]>>
  /\ buffer' = SubSeq(buffer, 1, Len(buffer) - 1)
  /\ clock' = "off"

(* The head of flush: the buffer becomes the batch of its caller.          *)
TakeBatch(t) ==
  /\ holder' = t
  /\ batch' = buffer
  /\ buffer' = <<>>
  /\ clock' = "off"

-----------------------------------------------------------------------------
(* _add: backpressure while a flush runs and the buffer is full; a closed  *)
(* connection takes no more.  The first frame of a buffer sets the deadline*)
(* and starts a flusher if there is none.                                  *)
Full == Len(buffer) >= HardCap /\ holder # "none" /\ ~closed

AddFrame(f, tasks) ==
  IF closed THEN task' = tasks /\ UNCHANGED <<buffer, clock>>
  ELSE /\ buffer' = Append(buffer, f)
       /\ clock' = IF clock = "off" THEN "running" ELSE clock
       /\ task' = IF clock = "off" /\ tasks.flusher \in {"none", "ended"}
                    THEN [tasks EXCEPT !.flusher = "ready"] ELSE tasks

UpstreamSends ==
  /\ Loop /\ task.down = "reading" /\ frame < MaxFrames
  /\ frame' = frame + 1
  /\ IF Full THEN Goto("down", "blocked") /\ UNCHANGED <<buffer, clock>>
     ELSE AddFrame(frame', task)
  /\ UNCHANGED <<batch, holder, closed, got, client, held>>

Unblocked ==
  /\ Loop /\ task.down = "blocked" /\ ~Full
  /\ AddFrame(frame, [task EXCEPT !.down = "reading"])
  /\ UNCHANGED <<batch, holder, closed, frame, got, client, held>>

(* backpressure_timeout_s passes: the connection is given up.              *)
BackpressureTimeout ==
  /\ Loop /\ task.down = "blocked" /\ Full
  /\ closed' = TRUE
  /\ Goto("down", "ended")
  /\ UNCHANGED <<buffer, batch, holder, clock, frame, got, client, held>>

UpstreamEnds ==
  /\ Loop /\ task.down = "reading"
  /\ Goto("down", "ended")
  /\ UNCHANGED <<buffer, batch, holder, clock, closed, frame, got, client, held>>

DeadlinePasses ==
  /\ Loop /\ clock = "running"
  /\ clock' = "passed"
  /\ UNCHANGED <<buffer, batch, holder, closed, task, frame, got, client, held>>

-----------------------------------------------------------------------------
(* The flusher: it waits for data, waits for the deadline or the size, or  *)
(* flushes.  A flush that finds another one running returns at once: the   *)
(* flusher loops without a suspension.                                     *)
FlusherGoesOn ==
  /\ Loop /\ task.flusher = "ready"
  /\ \/ /\ closed \/ buffer = <<>> \/ (clock = "running" /\ Len(buffer) < MaxSize)
        /\ Goto("flusher", IF closed THEN "ended"
                           ELSE IF buffer = <<>> THEN "idle" ELSE "coalescing")
        /\ UNCHANGED <<buffer, batch, holder, clock, held>>
     \/ /\ ~closed /\ buffer # <<>> /\ (clock = "passed" \/ Len(buffer) >= MaxSize)
        /\ IF holder = "none"
             THEN TakeBatch("flusher") /\ Goto("flusher", "flushing") /\ UNCHANGED held
             ELSE held' = TRUE /\ UNCHANGED <<buffer, batch, holder, clock, task>>
  /\ UNCHANGED <<closed, frame, got, client>>

(* Mutant of FlusherWakes: only the size wakes it, not the deadline.       *)
FlusherWakesOnSize ==
  /\ Loop
  /\ \/ task.flusher = "idle" /\ (buffer # <<>> \/ closed)
     \/ task.flusher = "coalescing" /\ (Len(buffer) >= MaxSize \/ closed)
  /\ Goto("flusher", "ready")
  /\ UNCHANGED <<buffer, batch, holder, clock, closed, frame, got, client, held>>

(* Data, the deadline, or the second the flusher waits for data.           *)
FlusherWakes ==
  /\ Loop
  /\ \/ task.flusher = "idle" /\ (buffer # <<>> \/ closed)
     \/ task.flusher = "coalescing" /\ (clock # "running" \/ Len(buffer) >= MaxSize \/ closed)
  /\ Goto("flusher", "ready")
  /\ UNCHANGED <<buffer, batch, holder, clock, closed, frame, got, client, held>>

-----------------------------------------------------------------------------
(* The body of flush.  A client that is gone raises: the batch is dropped. *)
SendFrame ==
  /\ Loop /\ holder # "none" /\ batch # <<>> /\ client = "on"
  /\ got' = Append(got, Head(batch))
  /\ batch' = Tail(batch)
  /\ UNCHANGED <<buffer, holder, clock, closed, task, frame, client, held>>

SendFails ==
  /\ Loop /\ holder # "none" /\ batch # <<>> /\ client = "gone"
  /\ batch' = <<>>
  /\ UNCHANGED <<buffer, holder, clock, closed, task, frame, got, client, held>>

FlushEnds ==
  /\ Loop /\ holder # "none" /\ batch = <<>>
  /\ holder' = "none"
  /\ closed' = (closed \/ holder = "close")
  /\ Goto(holder, IF holder = "flusher" THEN "ready" ELSE "flushed")
  /\ UNCHANGED <<buffer, batch, clock, frame, got, client, held>>

-----------------------------------------------------------------------------
ClientLeaves ==
  /\ Loop /\ client = "on"
  /\ client' = "gone"
  /\ UNCHANGED <<buffer, batch, holder, clock, closed, task, frame, got, held>>

(* Mutant of Disconnected: a flush for nobody that may be suspended.       *)
DisconnectedSlow ==
  /\ Loop /\ client = "gone" /\ task.receive = "waiting"
  /\ Goto("receive", "ended")
  /\ IF holder # "none" \/ buffer = <<>> THEN UNCHANGED <<buffer, batch, holder, clock>>
                                         ELSE TakeBatch("close")
  /\ UNCHANGED <<closed, frame, got, client, held>>

(* receive sees the disconnect and flushes, unless a flush runs; the first *)
(* send raises, and the batch is dropped within the step.                  *)
Disconnected ==
  /\ Loop /\ client = "gone" /\ task.receive = "waiting"
  /\ Goto("receive", "ended")
  /\ IF holder # "none" THEN UNCHANGED <<buffer, clock>> ELSE buffer' = <<>> /\ clock' = "off"
  /\ UNCHANGED <<batch, holder, closed, frame, got, client, held>>

(* One pump has ended: the relay cancels the other one, wherever it is, and*)
(* sends the close message, whose handler flushes for the last time.       *)
CloseSent ==
  /\ Loop /\ task.close = "no"
  /\ task.down = "ended" \/ task.receive = "ended"
  /\ LET cancelled == [task EXCEPT !.down = "ended", !.receive = "ended"]
     IN  IF holder # "none" \/ buffer = <<>>
           THEN /\ closed' = TRUE
                /\ task' = [cancelled EXCEPT !.close = "flushed"]
                /\ UNCHANGED <<buffer, batch, holder, clock>>
           ELSE /\ TakeBatch("close")
                /\ task' = [cancelled EXCEPT !.close = "flushing"]
                /\ UNCHANGED closed
  /\ UNCHANGED <<frame, got, client, held>>

(* _stop_flusher cancels the flusher and awaits it; a flush of its own ends*)
(* with what is left of its batch.                                         *)
FlusherStopped ==
  /\ Loop /\ task.close = "flushed"
  /\ closed' = TRUE
  /\ task' = [task EXCEPT !.close = "ended", !.flusher = "ended"]
  /\ holder' = IF holder = "flusher" THEN "none" ELSE holder
  /\ batch' = IF holder = "flusher" THEN <<>> ELSE batch
  /\ UNCHANGED <<buffer, clock, frame, got, client, held>>

-----------------------------------------------------------------------------
BatcherFairStep ==
  \/ Unblocked \/ DeadlinePasses \/ FlusherGoesOn \/ FlusherWakes
  \/ SendFrame \/ SendFails \/ FlushEnds
  \/ Disconnected \/ CloseSent \/ FlusherStopped

BatcherTypeOK ==
  /\ buffer \in Seq(1..MaxFrames) /\ batch \in Seq(1..MaxFrames)
  /\ holder \in {"none", "flusher", "close"}
  /\ clock \in {"off", "running", "passed"} /\ closed \in BOOLEAN /\ held \in BOOLEAN
  /\ task.flusher \in FlusherStates /\ task.down \in {"reading", "blocked", "ended"}
  /\ task.receive \in {"waiting", "ended"}
  /\ task.close \in {"no", "flushing", "flushed", "ended"}
  /\ frame \in 0..MaxFrames /\ client \in {"on", "gone"}
  /\ holder # "none" <=> \E t \in {"flusher", "close"} : task[t] = "flushing"

(* Whichever tasks flush, the client gets the frames in the order they came*)
(* and without a gap: a batch that is lost is the last thing it misses.    *)
FramesInOrder ==
  /\ \A i \in DOMAIN got : got[i] = i
  /\ client = "on" /\ ~closed => got \o batch \o buffer = [i \in 1..(Len(got \o batch \o buffer)) |-> i]

(* A frame that is in the buffer is flushed by its deadline or its size:   *)
(* no interleaving of adds, flushes and wake-ups leaves it there.          *)
FramesAreFlushed ==
  \A f \in 1..MaxFrames :
    (f \in ToSet(buffer)) ~> (f \in ToSet(got) \/ closed \/ client = "gone")

(* The flusher loops without a wait only when it finds data that is due    *)
(* under a flush of somebody else: that state is never reached, and the    *)
(* event loop of the whole Console goes on.                                *)
FlusherYields == ~held

(* A client that stays gets everything the upstream sent before it closed  *)
(* ("the concatenated byte stream is preserved").                          *)
TailIsDelivered ==
  task.close = "ended" /\ client = "on" => Len(got) = frame
=============================================================================
