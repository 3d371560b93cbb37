----------------------------- MODULE EventAudit -----------------------------
(***************************************************************************)
(* The event ring of daemon/src/events.rs and the JSONL log the tick       *)
(* appends it to.  Events are numbered by EventBuffer::push; the numbers   *)
(* of the code start anew with the daemon, those of the model go on, and   *)
(* start is where the present daemon began.                                *)
(***************************************************************************)
EXTENDS Integers, Sequences

CONSTANTS Capacity,   \* EVENT_CAPACITY
          RotateAt,   \* EVENT_LOG_ROTATE_BYTES, in lines
          Logs,       \* MAX_EVENT_LOGS
          LastEvent,  \* bound: events pushed in a behaviour
          TornLines   \* bound: lines left by writes that failed half way

ASSUME AuditAssumption ==
    /\ Capacity \in Nat \ {0} /\ RotateAt \in Nat \ {0} /\ Logs \in Nat \ {0}
    /\ LastEvent \in Nat /\ TornLines \in Nat

VARIABLES total,     \* the number of the newest event
          front,     \* the number of the oldest event in the ring
          flushed,   \* flushed_seq
          start,     \* history: total when this daemon started
          current,   \* the lines of events.jsonl
          older,     \* older[i]: the lines of events.jsonl.i
          written,   \* history: every line ever appended
          torn       \* history: events of a write that failed

avars == <<total, front, flushed, start, current, older, written, torn>>

Pending == {e \in front .. total : e > flushed}

ATypeOK ==
    /\ {total, flushed, start} \subseteq Nat /\ front \in Nat \ {0}
    /\ front <= total + 1 /\ total - front < Capacity
    /\ start <= flushed /\ flushed <= total /\ start < front
    /\ current \in Seq(Nat) /\ written \in Seq(Nat)
    /\ older \in [1 .. Logs -> Seq(Nat)]
    /\ torn \subseteq Nat

AInit ==
    /\ total = 0 /\ front = 1 /\ flushed = 0 /\ start = 0
    /\ current = <<>> /\ older = [i \in 1 .. Logs |-> <<>>]
    /\ written = <<>> /\ torn = {}

-----------------------------------------------------------------------------

Push_grows ==
    /\ total < LastEvent
    /\ total' = total + 1
    /\ UNCHANGED <<front, flushed, start, current, older, written, torn>>
(* EventBuffer::push: a full ring forgets its oldest event.                *)
Push ==
    /\ total < LastEvent
    /\ total' = total + 1
    /\ front' = IF total + 1 - front >= Capacity THEN front + 1 ELSE front
    /\ UNCHANGED <<flushed, start, current, older, written, torn>>

(* The lines of a write: the pending events, oldest first.                 *)
From_ring == front
From  == IF front > flushed THEN front ELSE flushed + 1
Batch == [i \in 1 .. total - From + 1 |-> From + i - 1]

(* rotate_jsonl, from the oldest down; a file that is not there is not     *)
(* renamed.  When the directory refuses one rename it refuses all.         *)
Rotates == Len(current) >= RotateAt
Moved == [i \in 1 .. Logs |-> IF i = 1 THEN current
                             ELSE IF older[i - 1] # <<>> THEN older[i - 1] ELSE older[i]]

Append_lines_truncating(k, renames) ==
    LET lines == SubSeq(Batch, 1, k)
    IN  /\ older' = IF Rotates /\ renames THEN Moved ELSE older
        /\ current' = (IF Rotates THEN <<>> ELSE current) \o lines
        /\ written' = written \o lines

(* append_jsonl: the first k lines reach the disk.                         *)
Append_lines(k, renames) ==
    LET lines == SubSeq(Batch, 1, k)
    IN  /\ older' = IF Rotates /\ renames THEN Moved ELSE older
        /\ current' = (IF Rotates /\ renames THEN <<>> ELSE current) \o lines
        /\ written' = written \o lines

(* persist_new                                                             *)
Flush(renames) ==
    /\ Pending # {}
    /\ Append_lines(Len(Batch), renames)
    /\ flushed' = total
    /\ UNCHANGED <<total, front, start, torn>>

FlushFails_advances(k, renames) ==
    /\ k < Len(Batch) /\ Len(written) + k <= flushed + TornLines
    /\ Append_lines(k, renames)
    /\ flushed' = total /\ torn' = torn \cup Pending
    /\ UNCHANGED <<total, front, start>>

(* persist_new, a write that fails, maybe after a part of it: the water-   *)
(* mark stays and the whole batch is tried again.                          *)
FlushFails(k, renames) ==
    /\ k < Len(Batch) /\ Len(written) + k <= flushed + TornLines
    /\ Append_lines(k, renames)
    /\ torn' = torn \cup Pending
    /\ UNCHANGED <<total, front, flushed, start>>

(* The daemon dies and comes back with an empty ring.                      *)
AuditRestart ==
    /\ front' = total + 1 /\ flushed' = total /\ start' = total
    /\ UNCHANGED <<total, current, older, written, torn>>

ANext ==
    \/ Push
    \/ \E renames \in BOOLEAN :
          \/ Flush(renames)
          \/ \E k \in 0 .. Capacity - 1 : FlushFails(k, renames)
    \/ AuditRestart

ASpec == AInit /\ [][ANext]_avars

-----------------------------------------------------------------------------

InLog(e) == \E i \in DOMAIN written : written[i] = e

(* The watermark never passes an event that was not appended, except when  *)
(* the ring overwrote it while it waited: such an event is Capacity or     *)
(* more behind the watermark (events.rs, persist_new).                     *)
LostIsOld ==
    \A e \in start + 1 .. flushed : InLog(e) \/ e + Capacity <= flushed

(* An event is appended twice only when a write of it failed half way: the *)
(* idempotence persist_new claims for its watermark.                       *)
AppendedOnce ==
    \A i, j \in DOMAIN written :
        i # j /\ written[i] = written[j] => written[i] \in torn

(* The lines of the i newest logs behind the current one, oldest first.    *)
Kept[i \in 0 .. Logs] == IF i = 0 THEN current ELSE older[i] \o Kept[i - 1]

(* The logs, oldest first, are the last lines that were appended, in their *)
(* order: a rotation drops the oldest file and never one between two that  *)
(* are kept (rotate_jsonl).                                                *)
HistoryIsSuffix ==
    LET n == Len(written)
        m == Len(Kept[Logs])
    IN  m <= n /\ Kept[Logs] = SubSeq(written, n - m + 1, n)
=============================================================================
