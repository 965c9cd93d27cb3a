------------------------------ MODULE DurableStore -----------------------------
(***************************************************************************)
(* What the game store promises its callers, with no journal, worker, timer*)
(* or dirty set in sight.  mem[t] is the persistent part of table t as     *)
(* read() returns it, disk[t] the content a restart would load.            *)
(*                                                                         *)
(* A table reaches the disk only as one whole snapshot of what memory holds*)
(* at that instant: never a mixture of old and new rows, never an older    *)
(* content again, and an atomic commit reaches both sides of every table   *)
(* it names in the same step.  Losing the process loses what was not       *)
(* checkpointed and nothing else.                                          *)
(***************************************************************************)
CONSTANTS Tables, Rows, Values, NoRow, Untouched

VARIABLES mem, disk

Contents == [Rows -> Values \cup {NoRow}]

Batches == [Rows -> Values \cup {NoRow, Untouched}]

Patched(content, batch) ==
    [r \in Rows |-> IF batch[r] = Untouched THEN content[r] ELSE batch[r]]

Init ==
    /\ disk \in [Tables -> Contents]
    /\ mem = disk

(* A caller changes table t in memory. *)
Put(t, content) ==
    /\ mem' = [mem EXCEPT ![t] = content]
    /\ UNCHANGED disk

(* Table t becomes durable as it now is. *)
Checkpoint(t) ==
    /\ disk' = [disk EXCEPT ![t] = mem[t]]
    /\ UNCHANGED mem

(* Rows of several tables change in memory and on disk at once. *)
CommitRows(batches) ==
    /\ mem' = [t \in Tables |-> Patched(mem[t], batches[t])]
    /\ disk' = [t \in Tables |-> Patched(disk[t], batches[t])]

(* The process ends; the next one starts from the disk. *)
Lose ==
    /\ mem' = disk
    /\ UNCHANGED disk

Next ==
    \/ \E t \in Tables : \/ \E content \in Contents : Put(t, content)
                         \/ Checkpoint(t)
    \/ \E batches \in [Tables -> Batches] : CommitRows(batches)
    \/ Lose

Spec == Init /\ [][Next]_<<mem, disk>>
================================================================================
