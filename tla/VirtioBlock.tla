---------------------------- MODULE VirtioBlock ----------------------------
(***************************************************************************)
(* The legacy virtio-blk driver (kernel/src/virtio_block.rs) under the     *)
(* checked dispatch of the block layer (kernel/src/block.rs).  One queue,  *)
(* one descriptor chain and one bounce buffer serve every caller; the      *)
(* device's lock is held for a whole call, so one call runs at a time and  *)
(* place is where it is.  The device (external) takes a published chain,   *)
(* reads what memory then holds, and answers later, or never.              *)
(*                                                                         *)
(* A sector is SECTOR_SIZE bytes and holds one value; 16-bit ring indices  *)
(* are modulo IndexLimit, 64-bit block addresses below LbaLimit.           *)
(***************************************************************************)
EXTENDS Naturals, Sequences, FiniteSets

CONSTANTS SECTOR_SIZE,
          CapacitySectors,
          QueueSize, IndexLimit, LbaLimit,
          Values,       \* contents of a sector
          MaxBytes,     \* the longest buffer of a caller
          LateAnswers   \* may the device answer after a caller has given up?

ASSUME VirtioAssumption ==
    /\ SECTOR_SIZE \in Nat \ {0} /\ CapacitySectors \in Nat \ {0}
    /\ QueueSize \in Nat \ {0} /\ IndexLimit \in Nat \ {0, 1}
    /\ CapacitySectors < LbaLimit
    /\ 0 \in Values
    /\ LateAnswers \in BOOLEAN

VARIABLES blk,        \* the driver: where init is, its features, its two indices
          memory,     \* the DMA memory: header, data, status, available and used index,
                      \* and the id in the newest used element
          disk,       \* the device: sectors, the chain it works on, how far it took, is it dead
          place,      \* where the call is
          call,       \* operation, address, bytes, value to write, sectors done, output
          answer      \* what the last call returned

virtioVars == <<blk, memory, disk, place, call, answer>>

Sectors == 0..CapacitySectors - 1
NoCall == [op |-> "none", lba |-> 0, bytes |-> 0, value |-> 0, done |-> 0, output |-> <<>>]
NoJob == [op |-> "none", sector |-> 0, value |-> 0]

VirtioInit ==
    /\ blk = [stage |-> "init", read_only |-> FALSE, supports_flush |-> FALSE,
              available_index |-> 0, last_used_index |-> 0]
    /\ memory = [header |-> NoJob, data |-> 0, status |-> "unset",
                 available |-> 0, used |-> 0, id |-> 0]
    /\ disk = [media |-> [s \in Sectors |-> 0], job |-> NoJob, taken |-> 0, dead |-> FALSE]
    /\ place = "idle"
    /\ call = NoCall
    /\ answer = "none"

-----------------------------------------------------------------------------
(* init.                                                                   *)

\* VirtQueueLayout::new: three descriptors, and a size the masks can use.
LayoutFits(size) == size >= 3 /\ size \in {2 ^ k : k \in 0..15}

\* The device refuses the features, offers no queue, or has no capacity; or
\* it goes live with the features both sides know.
InitDevice(accepted, size, ro, flush) ==
    /\ blk.stage = "init"
    /\ blk' = IF accepted /\ LayoutFits(size)
              THEN [blk EXCEPT !.stage = "live", !.read_only = ro, !.supports_flush = flush]
              ELSE [blk EXCEPT !.stage = "failed"]
    /\ UNCHANGED <<memory, disk, place, call, answer>>

-----------------------------------------------------------------------------
(* A call, up to the lock.                                                 *)

SectorCount(bytes) == bytes \div SECTOR_SIZE

\* validate_transfer, of the handle and again of the driver.
ValidateTransfer(lba, bytes) ==
    CASE bytes = 0 \/ bytes % SECTOR_SIZE # 0 -> "InvalidBuffer"
      [] lba + SectorCount(bytes) >= LbaLimit -> "OutOfRange"
      [] lba + SectorCount(bytes) > CapacitySectors -> "OutOfRange"
      [] OTHER -> "ok"

Refusal(op, lba, bytes) ==
    CASE op = "write" /\ blk.read_only -> "ReadOnly"
      [] op = "flush" -> IF blk.supports_flush THEN "ok" ELSE "Unsupported"
      [] OTHER -> ValidateTransfer(lba, bytes)

\* BlockDeviceHandle::read, write or flush.
Call(op, lba, bytes, value) ==
    LET refusal == Refusal(op, lba, bytes)
    IN  /\ blk.stage = "live" /\ place = "idle"
        /\ IF refusal = "ok"
           THEN /\ place' = "prepare"
                /\ call' = [NoCall EXCEPT !.op = op, !.lba = lba, !.bytes = bytes, !.value = value]
                /\ answer' = "none"
           ELSE /\ place' = "idle"
                /\ call' = NoCall
                /\ answer' = refusal
        /\ UNCHANGED <<blk, memory, disk>>

-----------------------------------------------------------------------------
(* One sector.                                                             *)

\* submit_read, submit_write or submit_flush up to the queue: the bounce
\* buffer, the header, the status byte and the descriptors are written.
Prepare ==
    /\ place = "prepare"
    /\ memory' = [memory EXCEPT
           !.header = [op |-> call.op, sector |-> IF call.op = "flush" THEN 0 ELSE call.lba + call.done,
                       value |-> 0],
           !.data = CASE call.op = "read" -> 0 [] call.op = "write" -> call.value [] OTHER -> @,
           !.status = "unset"]
    /\ place' = "publish"
    /\ UNCHANGED <<blk, disk, call, answer>>

\* publish_and_wait up to the notification.
Publish ==
    /\ place = "publish"
    /\ blk' = [blk EXCEPT !.available_index = (@ + 1) % IndexLimit]
    /\ memory' = [memory EXCEPT !.available = (@ + 1) % IndexLimit]
    /\ place' = "wait"
    /\ UNCHANGED <<disk, call, answer>>

Expected == (blk.last_used_index + 1) % IndexLimit
Used == memory.used = Expected

\* Fault: an error returns before the used index is counted.
CountsUsedIfOk == memory.id = 0 /\ memory.status = "ok"

\* last_used_index advances with every completion, good or bad.
CountsUsed == TRUE

\* When the used index is the expected one, the element read is the newest.
Verdict ==
    CASE memory.id # 0 -> "Io"
      [] memory.status = "ok" -> "ok"
      [] memory.status = "unsupported" -> "Unsupported"
      [] OTHER -> "Io"

\* What the call still has to do once a sector is through.
Sectored(output) == [call EXCEPT !.done = @ + 1, !.output = output]
Finished(c) == c.op = "flush" \/ c.done = SectorCount(c.bytes)

\* The rest of publish_and_wait and of the loop over sectors: the first error
\* ends the call.
Complete ==
    LET done == Sectored(IF call.op = "read" THEN Append(call.output, memory.data) ELSE call.output)
    IN  /\ place = "wait" /\ Used
        /\ blk' = IF CountsUsed THEN [blk EXCEPT !.last_used_index = Expected] ELSE blk
        /\ IF Verdict = "ok"
           THEN /\ call' = done
                /\ place' = IF Finished(done) THEN "idle" ELSE "prepare"
                /\ answer' = IF Finished(done) THEN "ok" ELSE "none"
           ELSE /\ place' = "idle"
                /\ answer' = Verdict
                /\ call' = NoCall
        /\ UNCHANGED <<memory, disk>>

\* MAX_POLL_SPINS polls were not enough; nothing is taken back.
TimesOutBusy ==
    /\ place = "wait" /\ ~Used
    /\ place' = "idle"
    /\ answer' = "Busy"
    /\ call' = NoCall
    /\ disk' = [disk EXCEPT !.dead = ~LateAnswers]
    /\ UNCHANGED <<blk, memory>>

-----------------------------------------------------------------------------
(* The device (external).                                                  *)

\* The device follows the chain: it reads the header and the data to write.
Fetch ==
    /\ ~disk.dead /\ disk.job = NoJob /\ disk.taken # memory.available
    /\ disk' = [disk EXCEPT !.taken = (@ + 1) % IndexLimit,
                            !.job = [memory.header EXCEPT !.value = memory.data]]
    /\ UNCHANGED <<blk, memory, place, call, answer>>

\* ... and answers with a status and the chain's id, which a broken device
\* may get wrong.
Finish(status, id) ==
    LET job == disk.job
    IN  /\ ~disk.dead /\ job # NoJob
        /\ disk' = [disk EXCEPT !.job = NoJob,
                        !.media = IF job.op = "write" /\ status = "ok" THEN [@ EXCEPT ![job.sector] = job.value]
                                                                        ELSE @]
        /\ memory' = [memory EXCEPT !.status = status, !.used = (@ + 1) % IndexLimit, !.id = id,
                          !.data = IF job.op = "read" /\ status = "ok" THEN disk.media[job.sector] ELSE @]
        /\ UNCHANGED <<blk, place, call, answer>>

BlockDriver ==
    \/ \E accepted, ro, flush \in BOOLEAN, size \in {0, QueueSize} : InitDevice(accepted, size, ro, flush)
    \/ \E lba \in 0..LbaLimit - 1, bytes \in 0..MaxBytes : Call("read", lba, bytes, 0)
    \/ Call("flush", 0, 0, 0)
    \/ \E lba \in 0..LbaLimit - 1, bytes \in 0..MaxBytes, value \in Values : Call("write", lba, bytes, value)
    \/ Prepare \/ Publish \/ Complete \/ TimesOutBusy

VirtioNext ==
    \/ BlockDriver
    \/ Fetch
    \/ \E status \in {"ok", "unsupported", "error"} : Finish(status, 0)
    \/ Finish("ok", 1)

VirtioSpec == VirtioInit /\ [][VirtioNext]_virtioVars

-----------------------------------------------------------------------------
(* Properties.                                                             *)

\* A read that returns Ok returns, sector by sector, what the device holds.
ReadsCurrent ==
    answer = "ok" /\ call.op = "read" =>
        call.output = [i \in 1..SectorCount(call.bytes) |-> disk.media[call.lba + i - 1]]

\* While a caller waits and sees no answer, the device owes one or is dead:
\* the driver never loses count of the used ring, so no caller is told Busy by
\* a device that has answered everything.
BusyMeansOwed ==
    place = "wait" /\ ~Used => disk.dead \/ disk.job # NoJob \/ disk.taken # memory.available

\* What callers are told is true, whatever requests failed before and however
\* often the indices wrapped.
AnswersTrue == ReadsCurrent /\ BusyMeansOwed

\* The comment at the head of virtio_block.rs: only one request is in flight.
OneInFlight ==
    place = "wait" => (memory.available + IndexLimit - memory.used) % IndexLimit <= 1
=============================================================================
