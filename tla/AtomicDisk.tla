----------------------------- MODULE AtomicDisk -----------------------------
(***************************************************************************)
(* What read_write_disk (drivers/virtio/virtio_blkio.c) promises: a call    *)
(* takes effect once, at one moment between its start and its return, or    *)
(* fails. VirtioBlk is shown to implement it.                              *)
(***************************************************************************)
EXTENDS Naturals

CONSTANTS
  Sectors,   \* sector numbers of the disk
  Data       \* what a sector can hold

VARIABLES
  disk,      \* disk[s]: contents of sector s
  phase,     \* "none", "called", "performed" or "failed"
  sector,    \* the arguments of the call
  is_write,
  buf        \* the caller's buffer

absVars == <<disk, phase, sector, is_write, buf>>

Init ==
  /\ disk \in [Sectors -> Data]
  /\ phase = "none"
  /\ sector \in Sectors
  /\ is_write \in BOOLEAN
  /\ buf \in Data

\* The caller chooses sector, direction and what the buffer holds.
Call ==
  /\ phase = "none" /\ phase' = "called"
  /\ sector' \in Sectors /\ is_write' \in BOOLEAN /\ buf' \in Data
  /\ UNCHANGED disk

Perform ==
  /\ phase = "called" /\ phase' = "performed"
  /\ disk' = IF is_write THEN [disk EXCEPT ![sector] = buf] ELSE disk
  /\ UNCHANGED <<sector, is_write, buf>>

\* The device reports an error.
Fail ==
  /\ phase = "called" /\ phase' = "failed"
  /\ UNCHANGED <<disk, sector, is_write, buf>>

\* A read that was performed delivers the sector; nothing else touches buf.
Return ==
  /\ phase \in {"performed", "failed"} /\ phase' = "none"
  /\ buf' = IF phase = "performed" /\ ~ is_write THEN disk[sector] ELSE buf
  /\ UNCHANGED <<disk, sector, is_write>>

Next == Call \/ Perform \/ Fail \/ Return

Spec == Init /\ [][Next]_absVars
=============================================================================
