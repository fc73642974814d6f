------------------------------ MODULE VirtioBlk ------------------------------
(***************************************************************************)
(* The block driver, drivers/virtio/virtio_blkio.c, and the virtqueue code  *)
(* it uses, drivers/virtio/virtio.c, against a device that works on its own *)
(* time.                                                                   *)
(*                                                                         *)
(* vq and blk_req are what the driver has stored, seen is what of it the   *)
(* device can see: a store becomes visible some time after it was made, and *)
(* before the barrier in virtq_kick is passed. The device (external) wakes  *)
(* on a notification, works until the available ring is empty, writes its   *)
(* answers in order and counts used.idx last.                              *)
(***************************************************************************)
EXTENDS Integers, Sequences, FiniteSets

CONSTANTS
  Data,              \* what a sector can hold
  Zero,              \* a sector of zeros, as kalloc leaves memory
  Capacity,          \* sectors of the disk
  VIRTQ_ENTRY_NUM,   \* entries of a ring
  IdxMod,            \* 2^16 in the code: the ring indices are uint16_t
  InOrder            \* TRUE when stores become visible, and loads are satisfied,
                     \* in program order

ASSUME VirtioAssumption ==
  /\ Zero \in Data
  /\ Capacity \in Nat \ {0}
  /\ VIRTQ_ENTRY_NUM \in Nat \ {0, 1, 2}
  /\ IdxMod \in Nat \ {0, 1} /\ IdxMod % VIRTQ_ENTRY_NUM = 0
  /\ InOrder \in BOOLEAN

VARIABLES
  pc,                \* where the driver is, "idle" between calls
  device,            \* what the device's identification registers read
  status,            \* bits set in the device's status register
  vq,                \* buffers (descriptors), ring and idx of the available ring
  blk_req,           \* the one request block: sector, type, data, status
  seen,              \* vq and blk_req as the device sees them
  early,             \* blk_req as a load sees it that does not wait for used.idx
  last_used_index,   \* the driver's count of used entries
  used_idx,          \* used.idx, counted by the device
  notified,          \* the device has work it was told of
  dev,               \* what the device is doing
  disk,              \* contents of the disk
  sector, is_write, buf    \* arguments of read_write_disk

args == <<sector, is_write, buf>>

driver == <<pc, vq, blk_req, last_used_index>>

vars == <<pc, device, status, vq, blk_req, seen, early, last_used_index, used_idx,
          notified, dev, disk, sector, is_write, buf>>

Sectors == 0..(Capacity - 1)

Entries == 0..(VIRTQ_ENTRY_NUM - 1)

\* Slip: the index is wider than the ring's.
IncWide(idx) == idx + 1

\* uint16_t arithmetic.
Inc(idx) == (idx + 1) % IdxMod

\* A descriptor: the part of blk_req it points to, its flags and its next.
Desc(part, flags, next) == [part |-> part, flags |-> flags, next |-> next]

\* Memory that kalloc has cleared.
NoDesc == Desc("none", {}, 0)

\* The device is between requests.
Resting == [doing |-> "nothing", idx |-> 0]

Stored == [vq |-> vq, blk_req |-> blk_req]

Init ==
  /\ pc = "probe"
  /\ device \in [magic : BOOLEAN, version : {1, 2}, id : {"blk", "other"}]
  /\ status = {}
  /\ vq = [buffers |-> [i \in Entries |-> NoDesc], ring |-> [i \in Entries |-> 0], idx |-> 0]
  /\ disk \in [Sectors -> Data]
  /\ buf \in Data
  /\ blk_req = [sector |-> 0, type |-> "IN", data |-> Zero, status |-> 0]
  /\ seen = Stored
  /\ early = blk_req
  /\ last_used_index = 0
  /\ used_idx = 0
  /\ notified = FALSE
  /\ dev = Resting
  /\ sector = 0
  /\ is_write = FALSE

-----------------------------------------------------------------------------
(* virtio_blk_init.                                                        *)

\* The checks, the reset and the first three status bits.
Probe ==
  /\ pc = "probe"
  /\ \/ /\ device = [magic |-> TRUE, version |-> 1, id |-> "blk"]
        /\ status' = {"ACKNOWLEDGE", "DRIVER", "FEATURES_OK"}
        /\ pc' = "setup"
     \/ /\ device # [magic |-> TRUE, version |-> 1, id |-> "blk"]
        /\ pc' = "panic"
        /\ UNCHANGED status
  /\ UNCHANGED <<device, early, vq, blk_req, seen, last_used_index, used_idx, notified, dev, disk>>
  /\ UNCHANGED args

\* virtq_init, the write of DRIVER_OK to the status register, the capacity and
\* the request block. Either allocation may find the memory exhausted.
Setup ==
  /\ pc = "setup"
  /\ \/ status' = {"DRIVER_OK"} /\ pc' = "idle"
     \/ pc' = "panic" /\ status' \in {status, {"DRIVER_OK"}}
  /\ UNCHANGED <<device, early, vq, blk_req, seen, last_used_index, used_idx, notified, dev, disk>>
  /\ UNCHANGED args

-----------------------------------------------------------------------------
(* read_write_disk.                                                        *)

\* A sector beyond the capacity: PANIC.
OutOfRange(s, w, b) ==
  /\ pc = "idle"
  /\ s >= Capacity
  /\ pc' = "panic"
  /\ UNCHANGED <<device, early, status, vq, blk_req, seen, last_used_index, used_idx, notified,
                 dev, disk>>
  /\ UNCHANGED args

\* Slip: the data of a write is not copied into the request.
BuildRequestNoCopy(s, w, b) ==
  /\ pc = "idle"
  /\ s < Capacity
  /\ blk_req' = [blk_req EXCEPT !.sector = s, !.type = IF w THEN "OUT" ELSE "IN"]
  /\ vq' = [vq EXCEPT !.buffers[0] = Desc("header", {"NEXT"}, 1),
                      !.buffers[1] = Desc("data", IF w THEN {"NEXT"} ELSE {"NEXT", "WRITE"}, 2),
                      !.buffers[2] = Desc("status", {"WRITE"}, @.next)]
  /\ sector' = s /\ is_write' = w /\ buf' = b
  /\ pc' = "kick"
  /\ UNCHANGED <<device, early, status, seen, last_used_index, used_idx, notified, dev, disk>>

\* "Build request" and "Build virtqueue descriptors". blk_req->data keeps what
\* it held unless this is a write; buffers[2].next is never stored.
BuildRequest(s, w, b) ==
  /\ pc = "idle"
  /\ s < Capacity
  /\ blk_req' = [blk_req EXCEPT !.sector = s,
                                !.type = IF w THEN "OUT" ELSE "IN",
                                !.data = IF w THEN b ELSE @]
  /\ vq' = [vq EXCEPT !.buffers[0] = Desc("header", {"NEXT"}, 1),
                      !.buffers[1] = Desc("data", IF w THEN {"NEXT"} ELSE {"NEXT", "WRITE"}, 2),
                      !.buffers[2] = Desc("status", {"WRITE"}, @.next)]
  /\ sector' = s /\ is_write' = w /\ buf' = b
  /\ pc' = "kick"
  /\ UNCHANGED <<device, early, status, seen, last_used_index, used_idx, notified, dev, disk>>

\* virtq_kick: the head of the chain goes into the available ring.
KickRing ==
  /\ pc = "kick"
  /\ vq' = [vq EXCEPT !.ring[vq.idx % VIRTQ_ENTRY_NUM] = 0, !.idx = Inc(@)]
  /\ pc' = "notify"
  /\ UNCHANGED <<device, early, status, blk_req, seen, last_used_index, used_idx, notified, dev,
                 disk>>
  /\ UNCHANGED args

\* Slip: no barrier before the notification.
KickNotifyNoBarrier ==
  /\ pc = "notify"
  /\ notified' = TRUE
  /\ pc' = "count"
  /\ UNCHANGED <<device, early, status, vq, blk_req, seen, last_used_index, used_idx, dev, disk>>
  /\ UNCHANGED args

\* virtq_kick: __sync_synchronize waits for the stores, then the notification.
\* Loads that come later in the code may be satisfied from here on.
KickNotify ==
  /\ pc = "notify"
  /\ seen = Stored
  /\ notified' = TRUE
  /\ early' = IF InOrder THEN early ELSE blk_req
  /\ pc' = "count"
  /\ UNCHANGED <<device, status, vq, blk_req, seen, last_used_index, used_idx, dev, disk>>
  /\ UNCHANGED args

\* virtq_kick: last_used_index++, when the device may be done already.
KickCount ==
  /\ pc = "count"
  /\ last_used_index' = Inc(last_used_index)
  /\ pc' = "wait"
  /\ UNCHANGED <<device, early, status, vq, blk_req, seen, used_idx, notified, dev, disk>>
  /\ UNCHANGED args

\* Slip: busy only when the device is ahead.
virtq_is_behind == last_used_index < used_idx

\* The device has not returned everything that was given to it.
virtq_is_busy == last_used_index # used_idx

\* Slip: a read delivers the data of a failed request.
FinishUnchecked ==
  /\ pc = "wait"
  /\ ~ virtq_is_busy
  /\ buf' = IF ~ is_write THEN blk_req.data ELSE buf
  /\ pc' = "idle"
  /\ UNCHANGED <<device, early, status, vq, blk_req, seen, last_used_index, used_idx, notified,
                 dev, disk, sector, is_write>>

\* The request block as it may have been loaded when the loop ends.
Loaded == {blk_req} \cup (IF InOrder THEN {} ELSE {early})

\* The loop on virtq_is_busy ends; a failed request only prints a warning.
Finish ==
  /\ pc = "wait"
  /\ ~ virtq_is_busy
  /\ \E statusFrom, dataFrom \in Loaded :
       buf' = IF statusFrom.status = 0 /\ ~ is_write THEN dataFrom.data ELSE buf
  /\ pc' = "idle"
  /\ UNCHANGED <<device, early, status, vq, blk_req, seen, last_used_index, used_idx, notified,
                 dev, disk, sector, is_write>>

\* PANIC's while (1) {}.
Panicked == pc = "panic" /\ UNCHANGED vars

-----------------------------------------------------------------------------
(* The device and the memory between the two (external).                   *)

\* Some of the driver's stores become visible: the request block was stored
\* first, then the descriptors, the ring entry and the index.
Propagate ==
  /\ \/ seen' = [seen EXCEPT !.blk_req = blk_req]
     \/ \E f \in DOMAIN vq :
          /\ seen' = [seen EXCEPT !.vq[f] = vq[f]]
          /\ InOrder =>
               /\ seen.blk_req = blk_req
               /\ f \in {"ring", "idx"} => seen.vq.buffers = vq.buffers
               /\ f = "idx" => seen.vq.ring = vq.ring
  /\ seen' # seen
  /\ UNCHANGED <<device, early, status, used_idx, notified, dev, disk>>
  /\ UNCHANGED <<driver, args>>

\* The device takes the next entry of the available ring and reads its chain.
DeviceTake ==
  /\ notified /\ "DRIVER_OK" \in status
  /\ dev.doing = "nothing"
  /\ dev.idx # seen.vq.idx
  /\ LET d0 == seen.vq.buffers[seen.vq.ring[dev.idx % VIRTQ_ENTRY_NUM]]
         d1 == seen.vq.buffers[d0.next]
         d2 == seen.vq.buffers[d1.next]
     IN  dev' = [doing  |-> "request",
                 idx    |-> Inc(dev.idx),
                 parts  |-> <<d0.part, d1.part, d2.part>>,
                 flags  |-> <<d0.flags, d1.flags, d2.flags>>,
                 sector |-> seen.blk_req.sector,
                 type   |-> seen.blk_req.type,
                 data   |-> seen.blk_req.data]
  /\ UNCHANGED <<device, early, status, seen, used_idx, notified, disk>>
  /\ UNCHANGED <<driver, args>>

\* A chain the device can carry out: header, data in the right direction, status.
WellFormed(r) ==
  /\ r.parts = <<"header", "data", "status">>
  /\ r.flags = <<{"NEXT"}, IF r.type = "OUT" THEN {"NEXT"} ELSE {"NEXT", "WRITE"}, {"WRITE"}>>

\* The request is carried out, or fails: data and status are in memory.
DeviceAnswer ==
  /\ dev.doing = "request"
  /\ \/ /\ WellFormed(dev)
        /\ disk' = IF dev.type = "OUT" THEN [disk EXCEPT ![dev.sector] = dev.data] ELSE disk
        /\ blk_req' = [blk_req EXCEPT !.status = 0,
                                      !.data = IF dev.type = "IN" THEN disk[dev.sector] ELSE @]
     \/ /\ blk_req' = [blk_req EXCEPT !.status = 1]
        /\ UNCHANGED disk
  /\ seen' = [seen EXCEPT !.blk_req = [@ EXCEPT !.status = blk_req'.status,
                                                !.data = blk_req'.data]]
  /\ dev' = [doing |-> "answered", idx |-> dev.idx]
  /\ UNCHANGED <<pc, device, early, status, vq, last_used_index, used_idx, notified>>
  /\ UNCHANGED args

\* The chain is returned: used.idx is counted.
DeviceUsed ==
  /\ dev.doing = "answered"
  /\ used_idx' = Inc(used_idx)
  /\ dev' = [doing |-> "nothing", idx |-> dev.idx]
  /\ UNCHANGED <<device, early, status, seen, notified, disk>>
  /\ UNCHANGED <<driver, args>>

\* Nothing is left in the available ring: the device waits to be notified.
DeviceSleep ==
  /\ notified
  /\ dev.doing = "nothing"
  /\ dev.idx = seen.vq.idx
  /\ notified' = FALSE
  /\ UNCHANGED <<device, early, status, seen, used_idx, dev, disk>>
  /\ UNCHANGED <<driver, args>>

DeviceStep == DeviceTake \/ DeviceAnswer \/ DeviceUsed \/ DeviceSleep

DriverStep == Probe \/ Setup \/ KickRing \/ KickNotify \/ KickCount \/ Finish

Call ==
  \E s \in 0..Capacity, w \in BOOLEAN, b \in Data : OutOfRange(s, w, b) \/ BuildRequest(s, w, b)

Next == Call \/ DriverStep \/ DeviceStep \/ Propagate \/ Panicked

\* The driver's code runs on, stores become visible, and the device answers
\* what it has been notified of: the code waits for it without a timeout.
Spec ==
  /\ Init /\ [][Next]_vars
  /\ WF_vars(DriverStep) /\ WF_vars(DeviceStep) /\ WF_vars(Propagate)

-----------------------------------------------------------------------------
(* Properties.                                                             *)

Requests == [sector : Sectors, type : {"IN", "OUT"}, data : Data, status : {0, 1}]

Queues ==
  [buffers : [Entries -> [part : {"none", "header", "data", "status"},
                          flags : SUBSET {"NEXT", "WRITE"}, next : Entries]],
   ring : [Entries -> Entries], idx : 0..(IdxMod - 1)]

TypeOK ==
  /\ pc \in {"probe", "setup", "idle", "kick", "notify", "count", "wait", "panic"}
  /\ device \in [magic : BOOLEAN, version : {1, 2}, id : {"blk", "other"}]
  /\ status \subseteq {"ACKNOWLEDGE", "DRIVER", "FEATURES_OK", "DRIVER_OK"}
  /\ vq \in Queues /\ blk_req \in Requests /\ early \in Requests
  /\ seen \in [vq : Queues, blk_req : Requests]
  /\ last_used_index \in 0..(IdxMod - 1) /\ used_idx \in 0..(IdxMod - 1)
  /\ dev.idx \in 0..(IdxMod - 1) /\ dev.doing \in {"nothing", "request", "answered"}
  /\ notified \in BOOLEAN
  /\ disk \in [Sectors -> Data]
  /\ sector \in Sectors /\ is_write \in BOOLEAN /\ buf \in Data

\* The device carries out the call that was made, with its sector, direction
\* and data, and never a request of an earlier call that is still in memory.
DeviceSeesCall ==
  dev.doing = "request" =>
    /\ WellFormed(dev)
    /\ dev.sector = sector
    /\ dev.type = IF is_write THEN "OUT" ELSE "IN"
    /\ is_write => dev.data = buf

\* The request block and the descriptors, of which there is only one set, are
\* reused only when the device is done with them: nothing the driver stores
\* changes them while the device has the request.
LeftAloneInFlight ==
  [][dev.doing # "nothing" \/ (notified /\ dev.idx # vq.idx) =>
       /\ vq'.buffers = vq.buffers
       /\ blk_req'.sector = blk_req.sector /\ blk_req'.type = blk_req.type
       /\ dev' = dev => blk_req' = blk_req]_vars

\* Every call returns: virtq_is_busy ends when the device has answered, also
\* when the indices wrap around.
CallsReturn == pc \in {"kick", "notify", "count", "wait"} ~> pc = "idle"

Answered == dev.doing = "answered" \/ (pc \in {"notify", "count", "wait"} /\ used_idx = vq.idx)

Abs == INSTANCE AtomicDisk WITH
         Sectors <- Sectors,
         Data    <- Data,
         phase   <- IF pc \in {"probe", "setup", "idle", "panic"} THEN "none"
                    ELSE IF ~ Answered THEN "called"
                    ELSE IF blk_req.status = 0 THEN "performed" ELSE "failed"

\* A call of read_write_disk takes effect exactly once, as AtomicDisk says.
ImplementsAtomicDisk == Abs!Spec
=============================================================================
