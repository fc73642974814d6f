----------------------------- MODULE BlkProofs -----------------------------
(***************************************************************************)
(* Machine-checked facts about VirtioBlk, for every disk, ring size and    *)
(* width of the ring indices: the types for any order in which stores and  *)
(* loads take effect, the rest when they take effect in program order.     *)
(***************************************************************************)
EXTENDS VirtioBlk, TLAPS

-----------------------------------------------------------------------------
(* The inductive invariant.                                                *)

\* What the device has taken into its hands.
DevTypeOK ==
  /\ dev.idx \in 0..(IdxMod - 1) /\ dev.doing \in {"nothing", "request", "answered"}
  /\ dev.doing = "request" => dev.sector \in Sectors /\ dev.data \in Data

\* A call is under way.
InCall == pc \in {"kick", "notify", "count", "wait"}

\* The chain is in the available ring.
Given == pc \in {"notify", "count", "wait"}

\* How far the device is with the chain that was given to it last.
NotTaken == dev.doing = "nothing" /\ dev.idx = used_idx /\ vq.idx = Inc(used_idx)

Taken == dev.doing # "nothing" /\ dev.idx = vq.idx /\ vq.idx = Inc(used_idx)

Done == dev.doing = "nothing" /\ dev.idx = vq.idx /\ used_idx = vq.idx

\* The driver's and the device's counts at each place of the driver.
Counts ==
  /\ ~ Given => Done /\ last_used_index = vq.idx
  /\ Given => NotTaken \/ Taken \/ Done
  /\ pc \in {"notify", "count"} => vq.idx = Inc(last_used_index)
  /\ pc = "wait" => vq.idx = last_used_index

\* What of the driver's stores the device can see: all of them, unless the
\* chain has not been given to it. The index is seen last.
Visible ==
  /\ pc \notin {"kick", "notify"} => seen = Stored
  /\ pc = "kick" => seen.vq.idx = vq.idx
  /\ pc = "notify" => seen = Stored \/ (NotTaken /\ seen.vq.idx = used_idx)

\* The request block and the descriptors are those of the call.
Built ==
  /\ \A e \in Entries : vq.ring[e] = 0
  /\ InCall =>
       /\ vq.buffers[0] = Desc("header", {"NEXT"}, 1)
       /\ vq.buffers[1] = Desc("data", IF is_write THEN {"NEXT"} ELSE {"NEXT", "WRITE"}, 2)
       /\ vq.buffers[2].part = "status" /\ vq.buffers[2].flags = {"WRITE"}
       /\ blk_req.sector = sector
       /\ blk_req.type = IF is_write THEN "OUT" ELSE "IN"
       /\ is_write => blk_req.data = buf

\* A read that the device has carried out left the sector in the request block.
Delivered ==
  Answered /\ InCall /\ blk_req.status = 0 /\ ~ is_write => blk_req.data = disk[sector]

BlkInv ==
  TypeOK /\ DevTypeOK /\ Counts /\ Visible /\ Built /\ DeviceSeesCall /\ Delivered

-----------------------------------------------------------------------------
(* Helpers.                                                                *)

Indices == 0..(IdxMod - 1)

\* uint16_t arithmetic: counting wraps around, and never stands still.
LEMMA IncWraps ==
  ASSUME NEW k \in Indices
  PROVE  Inc(k) \in Indices /\ Inc(k) # k
<1>1. IdxMod \in Nat \ {0, 1}
  BY VirtioAssumption
<1>2. CASE k + 1 < IdxMod
  <2>1. k + 1 \in 0..(IdxMod - 1)
    BY <1>1, <1>2 DEF Indices
  <2>2. (k + 1) % IdxMod = k + 1
    BY <1>1, <2>1 DEF Indices
  <2> QED  BY <1>1, <2>1, <2>2 DEF Inc, Indices
<1>3. CASE k + 1 = IdxMod
  <2>1. (k + 1) % IdxMod = 0
    BY <1>1, <1>3
  <2> QED  BY <1>1, <1>3, <2>1 DEF Inc, Indices
<1> QED  BY <1>1, <1>2, <1>3 DEF Indices

\* Where the index points is an entry of the ring.
LEMMA EntryOfIndex ==
  ASSUME NEW k \in Indices
  PROVE  k % VIRTQ_ENTRY_NUM \in Entries
BY VirtioAssumption DEF Indices, Entries

\* What the steps of the driver store into the queue.
LEMMA BuiltQueue ==
  ASSUME TypeOK, NEW s \in 0..Capacity, NEW w \in BOOLEAN, NEW b \in Data, BuildRequest(s, w, b)
  PROVE  /\ s \in Sectors
         /\ vq' \in Queues /\ vq'.ring = vq.ring /\ vq'.idx = vq.idx
         /\ vq'.buffers[0] = Desc("header", {"NEXT"}, 1)
         /\ vq'.buffers[1] = Desc("data", IF w THEN {"NEXT"} ELSE {"NEXT", "WRITE"}, 2)
         /\ vq'.buffers[2].part = "status" /\ vq'.buffers[2].flags = {"WRITE"}
         /\ blk_req' \in Requests /\ blk_req'.sector = s
         /\ blk_req'.type = IF w THEN "OUT" ELSE "IN"
         /\ w => blk_req'.data = b
<1>1. s \in Sectors
  BY VirtioAssumption DEF BuildRequest, Sectors
<1>2. 0 \in Entries /\ 1 \in Entries /\ 2 \in Entries
  BY VirtioAssumption DEF Entries
<1>3. vq \in Queues /\ blk_req \in Requests
  BY DEF TypeOK
<1> DEFINE d0 == Desc("header", {"NEXT"}, 1)
           d1 == Desc("data", IF w THEN {"NEXT"} ELSE {"NEXT", "WRITE"}, 2)
           d2 == Desc("status", {"WRITE"}, vq.buffers[2].next)
           B == [part : {"none", "header", "data", "status"},
                 flags : SUBSET {"NEXT", "WRITE"}, next : Entries]
           nb == [[[vq.buffers EXCEPT ![0] = d0] EXCEPT ![1] = d1] EXCEPT ![2] = d2]
<1>4. vq.buffers \in [Entries -> B] /\ vq.buffers[2].next \in Entries
  BY <1>2, <1>3 DEF Queues
<1>5. d0 \in B /\ d1 \in B /\ d2 \in B /\ d2.part = "status" /\ d2.flags = {"WRITE"}
  BY <1>2, <1>4 DEF Desc
<1>6. vq' = [vq EXCEPT !.buffers = nb]
  BY <1>2, <1>3, <1>4 DEF BuildRequest, Queues
<1> HIDE DEF d0, d1, d2
<1>7. nb \in [Entries -> B] /\ nb[0] = d0 /\ nb[1] = d1 /\ nb[2] = d2
  BY <1>2, <1>4, <1>5
<1> HIDE DEF nb
<1>8. vq' \in Queues /\ vq'.ring = vq.ring /\ vq'.idx = vq.idx /\ vq'.buffers = nb
  BY <1>3, <1>6, <1>7 DEF Queues
<1>9. /\ blk_req' \in Requests /\ blk_req'.sector = s
      /\ blk_req'.type = IF w THEN "OUT" ELSE "IN"
      /\ w => blk_req'.data = b
  BY <1>1, <1>3 DEF BuildRequest, Requests
<1> QED  BY <1>1, <1>5, <1>7, <1>8, <1>9 DEF d0, d1

LEMMA KickedQueue ==
  ASSUME TypeOK, KickRing
  PROVE  /\ vq' \in Queues /\ vq'.buffers = vq.buffers /\ vq'.idx = Inc(vq.idx)
         /\ (\A e \in Entries : vq.ring[e] = 0) => (\A e \in Entries : vq'.ring[e] = 0)
<1> DEFINE k == vq.idx % VIRTQ_ENTRY_NUM
<1>1. vq \in Queues /\ vq.idx \in Indices
  BY DEF TypeOK, Queues, Indices
<1>2. k \in Entries /\ Inc(vq.idx) \in Indices
  BY <1>1, EntryOfIndex, IncWraps
<1>3. 0 \in Entries
  BY VirtioAssumption DEF Entries
<1> HIDE DEF k
<1>4. vq' = [vq EXCEPT !.ring = [vq.ring EXCEPT ![k] = 0], !.idx = Inc(vq.idx)]
  BY <1>1 DEF KickRing, Queues, k
<1> QED  BY <1>1, <1>2, <1>3, <1>4 DEF Queues, Indices

\* A store that becomes visible: which one, and what must be visible before it
\* when stores keep their order.
LEMMA Propagated ==
  ASSUME TypeOK, Propagate
  PROVE  /\ seen' \in [vq : Queues, blk_req : Requests]
         /\ \/ seen'.vq = seen.vq
            \/ /\ seen'.vq.idx = seen.vq.idx /\ seen'.blk_req = seen.blk_req
            \/ /\ seen'.vq.idx = vq.idx /\ seen'.vq.buffers = seen.vq.buffers
               /\ seen'.vq.ring = seen.vq.ring /\ seen'.blk_req = seen.blk_req
               /\ InOrder => seen' = Stored
<1>1. /\ vq \in Queues /\ blk_req \in Requests /\ seen \in [vq : Queues, blk_req : Requests]
      /\ seen.vq \in Queues
  BY DEF TypeOK
<1>2. CASE seen' = [seen EXCEPT !.blk_req = blk_req]
  BY <1>1, <1>2
<1>3. ASSUME NEW f \in DOMAIN vq, seen' = [seen EXCEPT !.vq[f] = vq[f]],
             InOrder => /\ seen.blk_req = blk_req
                        /\ f \in {"ring", "idx"} => seen.vq.buffers = vq.buffers
                        /\ f = "idx" => seen.vq.ring = vq.ring
      PROVE  /\ seen' \in [vq : Queues, blk_req : Requests]
             /\ \/ seen'.vq = seen.vq
                \/ /\ seen'.vq.idx = seen.vq.idx /\ seen'.blk_req = seen.blk_req
                \/ /\ seen'.vq.idx = vq.idx /\ seen'.vq.buffers = seen.vq.buffers
                   /\ seen'.vq.ring = seen.vq.ring /\ seen'.blk_req = seen.blk_req
                   /\ InOrder => seen' = Stored
  <2>1. f \in {"buffers", "ring", "idx"}
    BY <1>1, <1>3 DEF Queues
  <2>2. CASE f = "buffers"
    <3>1. seen' = [seen EXCEPT !.vq = [seen.vq EXCEPT !.buffers = vq.buffers]]
      BY <1>1, <1>3, <2>2 DEF Queues
    <3> QED  BY <1>1, <3>1 DEF Queues
  <2>3. CASE f = "ring"
    <3>1. seen' = [seen EXCEPT !.vq = [seen.vq EXCEPT !.ring = vq.ring]]
      BY <1>1, <1>3, <2>3 DEF Queues
    <3> QED  BY <1>1, <3>1 DEF Queues
  <2>4. CASE f = "idx"
    <3>1. seen' = [seen EXCEPT !.vq = [seen.vq EXCEPT !.idx = vq.idx]]
      BY <1>1, <1>3, <2>4 DEF Queues
    <3>2. InOrder => seen' = Stored
      BY <1>1, <1>3, <2>4, <3>1 DEF Queues, Stored
    <3> QED  BY <1>1, <3>1, <3>2 DEF Queues
  <2> QED  BY <2>1, <2>2, <2>3, <2>4
<1> QED  BY <1>2, <1>3 DEF Propagate

\* What the device writes into the request block.
LEMMA AnsweredRequest ==
  ASSUME TypeOK, DevTypeOK, DeviceAnswer
  PROVE  /\ blk_req' \in Requests /\ blk_req'.sector = blk_req.sector
         /\ blk_req'.type = blk_req.type
         /\ seen' \in [vq : Queues, blk_req : Requests] /\ seen'.vq = seen.vq
         /\ seen'.blk_req.sector = seen.blk_req.sector /\ seen'.blk_req.type = seen.blk_req.type
         /\ seen'.blk_req.status = blk_req'.status /\ seen'.blk_req.data = blk_req'.data
         /\ disk' \in [Sectors -> Data]
         /\ \/ /\ WellFormed(dev) /\ blk_req'.status = 0
               /\ disk' = IF dev.type = "OUT" THEN [disk EXCEPT ![dev.sector] = dev.data] ELSE disk
               /\ blk_req'.data = IF dev.type = "IN" THEN disk[dev.sector] ELSE blk_req.data
            \/ /\ blk_req'.status = 1 /\ disk' = disk /\ blk_req'.data = blk_req.data
<1>1. /\ blk_req \in Requests /\ disk \in [Sectors -> Data]
      /\ seen \in [vq : Queues, blk_req : Requests]
      /\ dev.sector \in Sectors /\ dev.data \in Data
  BY DEF TypeOK, DevTypeOK, DeviceAnswer
<1>2. /\ blk_req' \in Requests /\ blk_req'.sector = blk_req.sector
      /\ blk_req'.type = blk_req.type
      /\ disk' \in [Sectors -> Data]
      /\ \/ /\ WellFormed(dev) /\ blk_req'.status = 0
            /\ disk' = IF dev.type = "OUT" THEN [disk EXCEPT ![dev.sector] = dev.data] ELSE disk
            /\ blk_req'.data = IF dev.type = "IN" THEN disk[dev.sector] ELSE blk_req.data
         \/ /\ blk_req'.status = 1 /\ disk' = disk /\ blk_req'.data = blk_req.data
  <2>1. CASE /\ WellFormed(dev)
             /\ disk' = IF dev.type = "OUT" THEN [disk EXCEPT ![dev.sector] = dev.data] ELSE disk
             /\ blk_req' = [blk_req EXCEPT !.status = 0,
                                           !.data = IF dev.type = "IN" THEN disk[dev.sector] ELSE @]
    BY <1>1, <2>1 DEF Requests
  <2>2. CASE blk_req' = [blk_req EXCEPT !.status = 1] /\ disk' = disk
    BY <1>1, <2>2 DEF Requests
  <2> QED  BY <2>1, <2>2 DEF DeviceAnswer
<1>3. seen' = [seen EXCEPT !.blk_req = [seen.blk_req EXCEPT !.status = blk_req'.status,
                                                           !.data = blk_req'.data]]
  BY <1>1 DEF DeviceAnswer
<1>4. /\ seen' \in [vq : Queues, blk_req : Requests] /\ seen'.vq = seen.vq
      /\ seen'.blk_req.sector = seen.blk_req.sector /\ seen'.blk_req.type = seen.blk_req.type
      /\ seen'.blk_req.status = blk_req'.status /\ seen'.blk_req.data = blk_req'.data
  BY <1>1, <1>2, <1>3 DEF Requests
<1> QED  BY <1>2, <1>4

-----------------------------------------------------------------------------
(* Types.                                                                  *)

LEMMA InitTypes ==
  ASSUME Init
  PROVE  TypeOK /\ DevTypeOK
<1>1. IdxMod \in Nat \ {0, 1} /\ 0 \in Entries /\ 0 \in Sectors /\ Zero \in Data
      /\ 0 \in 0..(IdxMod - 1)
  BY VirtioAssumption DEF Entries, Sectors
<1>2. blk_req \in Requests /\ early \in Requests
  BY <1>1 DEF Init, Requests
<1>3. vq \in Queues
  BY <1>1 DEF Init, Queues, NoDesc, Desc
<1>4. seen \in [vq : Queues, blk_req : Requests]
  BY <1>2, <1>3 DEF Init, Stored
<1>5. dev.idx = 0 /\ dev.doing = "nothing"
  BY DEF Init, Resting
<1> QED  BY <1>1, <1>2, <1>3, <1>4, <1>5 DEF Init, TypeOK, DevTypeOK

LEMMA NextTypes ==
  ASSUME TypeOK, DevTypeOK, [Next]_vars
  PROVE  TypeOK' /\ DevTypeOK'
<1>1. CASE Probe \/ Setup
  BY <1>1 DEF Probe, Setup, args, TypeOK, DevTypeOK
<1>2. ASSUME NEW s \in 0..Capacity, NEW w \in BOOLEAN, NEW b \in Data, OutOfRange(s, w, b)
      PROVE  TypeOK' /\ DevTypeOK'
  BY <1>2 DEF OutOfRange, args, TypeOK, DevTypeOK
<1>3. ASSUME NEW s \in 0..Capacity, NEW w \in BOOLEAN, NEW b \in Data, BuildRequest(s, w, b)
      PROVE  TypeOK' /\ DevTypeOK'
  <2>1. s \in Sectors /\ vq' \in Queues /\ blk_req' \in Requests
    BY <1>3, BuiltQueue
  <2> QED  BY <1>3, <2>1 DEF BuildRequest, TypeOK, DevTypeOK
<1>4. CASE KickRing
  <2>1. vq' \in Queues
    BY <1>4, KickedQueue
  <2> QED  BY <1>4, <2>1 DEF KickRing, args, TypeOK, DevTypeOK
<1>5. CASE KickNotify
  BY <1>5 DEF KickNotify, args, TypeOK, DevTypeOK
<1>6. CASE KickCount
  <2>1. last_used_index' \in 0..(IdxMod - 1)
    BY <1>6, IncWraps DEF KickCount, TypeOK, Indices
  <2> QED  BY <1>6, <2>1 DEF KickCount, args, TypeOK, DevTypeOK
<1>7. CASE Finish
  <2>1. Loaded \subseteq Requests
    BY DEF Loaded, TypeOK
  <2>2. buf' \in Data
    BY <1>7, <2>1 DEF Finish, TypeOK, Requests
  <2> QED  BY <1>7, <2>2 DEF Finish, args, TypeOK, DevTypeOK
<1>8. CASE DeviceTake
  <2>1. seen.blk_req \in Requests
    BY DEF TypeOK
  <2>2. dev'.idx \in 0..(IdxMod - 1)
    BY <1>8, IncWraps DEF DeviceTake, DevTypeOK, Indices
  <2>3. dev'.doing = "request" /\ dev'.sector \in Sectors /\ dev'.data \in Data
    BY <1>8, <2>1 DEF DeviceTake, Requests
  <2> QED  BY <1>8, <2>2, <2>3 DEF DeviceTake, driver, args, TypeOK, DevTypeOK
<1>9. CASE DeviceAnswer
  <2>1. /\ blk_req' \in Requests /\ seen' \in [vq : Queues, blk_req : Requests]
        /\ disk' \in [Sectors -> Data]
    BY <1>9, AnsweredRequest
  <2>2. dev'.idx = dev.idx /\ dev'.doing = "answered"
    BY <1>9 DEF DeviceAnswer
  <2> QED  BY <1>9, <2>1, <2>2 DEF DeviceAnswer, args, TypeOK, DevTypeOK
<1>10. CASE DeviceUsed
  <2>1. dev'.idx = dev.idx /\ dev'.doing = "nothing"
    BY <1>10 DEF DeviceUsed
  <2>2. used_idx' \in 0..(IdxMod - 1)
    BY <1>10, IncWraps DEF DeviceUsed, TypeOK, Indices
  <2> QED  BY <1>10, <2>1, <2>2 DEF DeviceUsed, driver, args, TypeOK, DevTypeOK
<1>11. CASE DeviceSleep
  BY <1>11 DEF DeviceSleep, driver, args, TypeOK, DevTypeOK
<1>12. CASE Propagate
  <2>1. seen' \in [vq : Queues, blk_req : Requests]
    BY <1>12, Propagated
  <2> QED  BY <1>12, <2>1 DEF Propagate, driver, args, TypeOK, DevTypeOK
<1>13. CASE UNCHANGED vars
  BY <1>13 DEF vars, TypeOK, DevTypeOK
<1> QED
  BY <1>1, <1>2, <1>3, <1>4, <1>5, <1>6, <1>7, <1>8, <1>9, <1>10, <1>11, <1>12, <1>13
     DEF Next, Call, DriverStep, DeviceStep, Panicked

\* Whatever order stores and loads take effect in, read_write_disk and the
\* device leave every variable in its type: the indices stay within the width
\* of the ring's, the sector within the capacity.
THEOREM TypeCorrect == Spec => []TypeOK
<1>1. Init => TypeOK /\ DevTypeOK
  BY InitTypes
<1>2. (TypeOK /\ DevTypeOK) /\ [Next]_vars => (TypeOK /\ DevTypeOK)'
  BY NextTypes
<1> QED  BY <1>1, <1>2, PTL DEF Spec

-----------------------------------------------------------------------------
(* Stores and loads in program order.                                      *)

\* The part of the invariant that needs the order.
OrderInv == Counts /\ Visible /\ Built /\ DeviceSeesCall /\ Delivered

LEMMA InitOrder ==
  ASSUME Init
  PROVE  OrderInv
<1>1. Done /\ last_used_index = vq.idx /\ dev.doing = "nothing" /\ ~ Given /\ ~ InCall
  BY DEF Init, Done, Resting, Given, InCall
<1>2. \A e \in Entries : vq.ring[e] = 0
  BY DEF Init
<1> QED
  BY <1>1, <1>2
     DEF Init, OrderInv, Counts, Visible, Built, DeviceSeesCall, Delivered, Given, InCall

LEMMA ProbeOrder ==
  ASSUME BlkInv, Probe \/ Setup
  PROVE  OrderInv'
<1>1. /\ UNCHANGED <<vq, blk_req, seen, last_used_index, used_idx, dev, disk, sector, is_write, buf>>
      /\ pc \in {"probe", "setup"} /\ pc' \in {"setup", "idle", "panic"}
  BY DEF Probe, Setup, args
<1>2. Counts' /\ Visible' /\ Built'
  BY <1>1 DEF BlkInv, Counts, Done, Given, Visible, Stored, Built, InCall
<1> QED
  BY <1>1, <1>2 DEF BlkInv, OrderInv, DeviceSeesCall, Delivered, InCall, WellFormed

LEMMA OutOfRangeOrder ==
  ASSUME BlkInv, NEW s, NEW w, NEW b, OutOfRange(s, w, b)
  PROVE  OrderInv'
<1>1. /\ UNCHANGED <<vq, blk_req, seen, last_used_index, used_idx, dev, disk, sector, is_write, buf>>
      /\ pc = "idle" /\ pc' = "panic"
  BY DEF OutOfRange, args
<1>2. Counts' /\ Visible' /\ Built'
  BY <1>1 DEF BlkInv, Counts, Done, Given, Visible, Stored, Built, InCall
<1> QED
  BY <1>1, <1>2 DEF BlkInv, OrderInv, DeviceSeesCall, Delivered, InCall, WellFormed

LEMMA BuildRequestOrder ==
  ASSUME BlkInv, NEW s \in 0..Capacity, NEW w \in BOOLEAN, NEW b \in Data, BuildRequest(s, w, b)
  PROVE  OrderInv'
<1>1. /\ pc = "idle" /\ pc' = "kick" /\ sector' = s /\ is_write' = w /\ buf' = b
      /\ UNCHANGED <<seen, last_used_index, used_idx, dev, disk>>
  BY DEF BuildRequest
<1>2. /\ vq'.ring = vq.ring /\ vq'.idx = vq.idx
      /\ vq'.buffers[0] = Desc("header", {"NEXT"}, 1)
      /\ vq'.buffers[1] = Desc("data", IF w THEN {"NEXT"} ELSE {"NEXT", "WRITE"}, 2)
      /\ vq'.buffers[2].part = "status" /\ vq'.buffers[2].flags = {"WRITE"}
      /\ blk_req'.sector = s /\ blk_req'.type = IF w THEN "OUT" ELSE "IN"
      /\ w => blk_req'.data = b
  BY BuiltQueue DEF BlkInv
<1>3. Done /\ last_used_index = vq.idx /\ seen = Stored
  BY <1>1 DEF BlkInv, Counts, Visible, Given
<1>4. Counts'
  BY <1>1, <1>2, <1>3 DEF Counts, Done, Given
<1>5. Visible'
  BY <1>1, <1>2, <1>3 DEF Visible, Stored
<1>6. Built'
  BY <1>1, <1>2 DEF BlkInv, Built
<1>7. dev'.doing = "nothing"
  BY <1>1, <1>3 DEF Done
<1> QED  BY <1>1, <1>4, <1>5, <1>6, <1>7 DEF OrderInv, DeviceSeesCall, Delivered, Answered

LEMMA KickRingOrder ==
  ASSUME BlkInv, KickRing
  PROVE  OrderInv'
<1>1. /\ pc = "kick" /\ pc' = "notify"
      /\ UNCHANGED <<blk_req, seen, last_used_index, used_idx, dev, disk, sector, is_write, buf>>
  BY DEF KickRing, args
<1>2. /\ vq'.buffers = vq.buffers /\ vq'.idx = Inc(vq.idx)
      /\ \A e \in Entries : vq'.ring[e] = 0
  BY KickedQueue DEF BlkInv, Built
<1>3. Done /\ last_used_index = vq.idx /\ seen.vq.idx = vq.idx
  BY <1>1 DEF BlkInv, Counts, Visible, Given
<1>4. NotTaken' /\ seen'.vq.idx = used_idx'
  BY <1>1, <1>2, <1>3 DEF NotTaken, Done
<1>5. Counts'
  BY <1>1, <1>2, <1>3, <1>4 DEF Counts, Given
<1>6. Visible'
  BY <1>1, <1>4 DEF Visible
<1>7. Built'
  BY <1>1, <1>2 DEF BlkInv, Built, InCall
<1>8. dev'.doing = "nothing" /\ used_idx' # vq'.idx
  <2>1. vq.idx \in Indices
    BY DEF BlkInv, TypeOK, Queues, Indices
  <2> QED  BY <1>1, <1>2, <1>3, <2>1, IncWraps DEF Done
<1> QED  BY <1>5, <1>6, <1>7, <1>8 DEF OrderInv, DeviceSeesCall, Delivered, Answered

LEMMA KickNotifyOrder ==
  ASSUME BlkInv, KickNotify
  PROVE  OrderInv'
<1>1. /\ pc = "notify" /\ pc' = "count" /\ seen = Stored
      /\ UNCHANGED <<vq, blk_req, seen, last_used_index, used_idx, dev, disk, sector, is_write, buf>>
  BY DEF KickNotify, args
<1>2. Counts' /\ Visible' /\ Built'
  BY <1>1 DEF BlkInv, Counts, NotTaken, Taken, Done, Given, Visible, Stored, Built, InCall
<1> QED
  BY <1>1, <1>2 DEF BlkInv, OrderInv, DeviceSeesCall, Delivered, Answered, InCall, WellFormed

LEMMA KickCountOrder ==
  ASSUME BlkInv, KickCount
  PROVE  OrderInv'
<1>1. /\ pc = "count" /\ pc' = "wait" /\ last_used_index' = Inc(last_used_index)
      /\ UNCHANGED <<vq, blk_req, seen, used_idx, dev, disk, sector, is_write, buf>>
  BY DEF KickCount, args
<1>2. Counts' /\ Visible' /\ Built'
  BY <1>1 DEF BlkInv, Counts, NotTaken, Taken, Done, Given, Visible, Stored, Built, InCall
<1> QED
  BY <1>1, <1>2 DEF BlkInv, OrderInv, DeviceSeesCall, Delivered, Answered, InCall, WellFormed

\* The loop on virtq_is_busy ends only when the device has returned the chain.
LEMMA NotBusyDone ==
  ASSUME BlkInv, pc = "wait", ~ virtq_is_busy
  PROVE  Done /\ last_used_index = vq.idx /\ seen = Stored
<1>1. used_idx \in Indices /\ vq.idx = used_idx /\ seen = Stored /\ last_used_index = vq.idx
  BY DEF BlkInv, TypeOK, Indices, Counts, Visible, virtq_is_busy
<1>2. Inc(used_idx) # used_idx
  BY <1>1, IncWraps
<1> QED  BY <1>1, <1>2 DEF BlkInv, Counts, Given, NotTaken, Taken

LEMMA FinishOrder ==
  ASSUME BlkInv, Finish
  PROVE  OrderInv'
<1>1. /\ pc = "wait" /\ pc' = "idle" /\ ~ virtq_is_busy
      /\ UNCHANGED <<vq, blk_req, seen, last_used_index, used_idx, dev, disk, sector, is_write>>
  BY DEF Finish
<1>2. Done /\ last_used_index = vq.idx /\ seen = Stored
  BY <1>1, NotBusyDone
<1>3. Counts' /\ Visible' /\ Built'
  BY <1>1, <1>2 DEF BlkInv, Counts, Done, Given, Visible, Stored, Built, InCall
<1>4. dev'.doing = "nothing" /\ ~ InCall'
  BY <1>1, <1>2 DEF Done, InCall
<1> QED  BY <1>3, <1>4 DEF OrderInv, DeviceSeesCall, Delivered

\* The device finds a new chain only when all of the request is visible to it.
LEMMA TakesWhatIsGiven ==
  ASSUME BlkInv, dev.doing = "nothing", dev.idx # seen.vq.idx
  PROVE  Given /\ NotTaken /\ seen = Stored
<1>1. seen = Stored => seen.vq.idx = vq.idx
  BY DEF Stored
<1>2. Given
  <2> SUFFICES ASSUME ~ Given PROVE FALSE
    OBVIOUS
  <2>1. Done /\ (seen = Stored \/ seen.vq.idx = vq.idx)
    BY DEF BlkInv, Counts, Visible, Given
  <2> QED  BY <1>1, <2>1 DEF Done
<1>3. seen = Stored
  BY <1>2 DEF BlkInv, Visible, Given, NotTaken
<1> QED  BY <1>1, <1>2, <1>3 DEF BlkInv, Counts, Taken, Done

LEMMA DeviceTakeOrder ==
  ASSUME BlkInv, DeviceTake
  PROVE  OrderInv'
<1>1. /\ dev.doing = "nothing" /\ dev.idx # seen.vq.idx
      /\ UNCHANGED <<pc, vq, blk_req, seen, last_used_index, used_idx, disk, sector, is_write, buf>>
  BY DEF DeviceTake, driver, args
<1>2. Given /\ NotTaken /\ seen = Stored /\ InCall
  BY <1>1, TakesWhatIsGiven DEF Given, InCall
<1>3. dev.idx \in Indices /\ dev.idx % VIRTQ_ENTRY_NUM \in Entries
  BY EntryOfIndex DEF BlkInv, TypeOK, Indices
<1>4. seen.vq = vq /\ seen.blk_req = blk_req /\ seen.vq.ring[dev.idx % VIRTQ_ENTRY_NUM] = 0
  BY <1>2, <1>3 DEF Stored, BlkInv, Built
<1> DEFINE d0 == vq.buffers[0]
           d1 == vq.buffers[d0.next]
           d2 == vq.buffers[d1.next]
<1>5. dev' = [doing |-> "request", idx |-> Inc(dev.idx),
              parts |-> <<d0.part, d1.part, d2.part>>, flags |-> <<d0.flags, d1.flags, d2.flags>>,
              sector |-> blk_req.sector, type |-> blk_req.type, data |-> blk_req.data]
  BY <1>4 DEF DeviceTake
<1>6. /\ d0 = Desc("header", {"NEXT"}, 1) /\ d0.next = 1
      /\ d1 = Desc("data", IF is_write THEN {"NEXT"} ELSE {"NEXT", "WRITE"}, 2) /\ d1.next = 2
      /\ d2.part = "status" /\ d2.flags = {"WRITE"}
      /\ blk_req.sector = sector /\ blk_req.type = IF is_write THEN "OUT" ELSE "IN"
      /\ is_write => blk_req.data = buf
  <2>1. Built /\ InCall /\ Given
    BY <1>2 DEF BlkInv
  <2>2. /\ vq.buffers[0] = Desc("header", {"NEXT"}, 1)
        /\ vq.buffers[1] = Desc("data", IF is_write THEN {"NEXT"} ELSE {"NEXT", "WRITE"}, 2)
        /\ vq.buffers[2].part = "status" /\ vq.buffers[2].flags = {"WRITE"}
        /\ blk_req.sector = sector /\ blk_req.type = IF is_write THEN "OUT" ELSE "IN"
        /\ is_write => blk_req.data = buf
    BY <2>1 DEF Built
  <2>3. \A part, flags, next : Desc(part, flags, next).next = next
    BY DEF Desc
  <2> QED  BY <2>2, <2>3
<1> HIDE DEF d0, d1, d2
<1>7. <<d0.part, d1.part, d2.part>> = <<"header", "data", "status">>
      /\ <<d0.flags, d1.flags, d2.flags>>
           = <<{"NEXT"}, IF is_write THEN {"NEXT"} ELSE {"NEXT", "WRITE"}, {"WRITE"}>>
  BY <1>6 DEF Desc
<1>8. DeviceSeesCall'
  BY <1>1, <1>5, <1>6, <1>7 DEF DeviceSeesCall, WellFormed
<1>9. Taken' /\ dev'.doing = "request"
  BY <1>1, <1>2, <1>5 DEF NotTaken, Taken
<1>10. Counts' /\ Visible' /\ Built'
  BY <1>1, <1>2, <1>9 DEF BlkInv, Counts, Given, Visible, Stored, Built, InCall
<1>11. ~ Answered'
  <2>1. used_idx \in Indices
    BY DEF BlkInv, TypeOK, Indices
  <2> QED  BY <1>1, <1>2, <1>9, <2>1, IncWraps DEF NotTaken, Answered
<1> QED  BY <1>8, <1>10, <1>11 DEF OrderInv, Delivered

LEMMA DeviceAnswerOrder ==
  ASSUME BlkInv, DeviceAnswer
  PROVE  OrderInv'
<1>1. /\ dev.doing = "request" /\ dev'.doing = "answered" /\ dev'.idx = dev.idx
      /\ UNCHANGED <<pc, vq, last_used_index, used_idx, sector, is_write, buf>>
  BY DEF DeviceAnswer, args
<1>2. Given /\ InCall /\ Taken
  BY <1>1 DEF BlkInv, Counts, Done, NotTaken, Given, InCall
<1>3. /\ blk_req' \in Requests /\ blk_req'.sector = blk_req.sector
      /\ blk_req'.type = blk_req.type
      /\ seen' \in [vq : Queues, blk_req : Requests] /\ seen'.vq = seen.vq
      /\ seen'.blk_req.sector = seen.blk_req.sector /\ seen'.blk_req.type = seen.blk_req.type
      /\ seen'.blk_req.status = blk_req'.status /\ seen'.blk_req.data = blk_req'.data
      /\ \/ /\ WellFormed(dev) /\ blk_req'.status = 0
            /\ disk' = IF dev.type = "OUT" THEN [disk EXCEPT ![dev.sector] = dev.data] ELSE disk
            /\ blk_req'.data = IF dev.type = "IN" THEN disk[dev.sector] ELSE blk_req.data
         \/ /\ blk_req'.status = 1 /\ disk' = disk /\ blk_req'.data = blk_req.data
  BY AnsweredRequest DEF BlkInv
<1>4. /\ dev.sector = sector /\ dev.type = IF is_write THEN "OUT" ELSE "IN"
      /\ is_write => dev.data = buf
  BY <1>1 DEF BlkInv, DeviceSeesCall
<1>5. Taken' /\ Counts'
  BY <1>1, <1>2 DEF BlkInv, Taken, Counts, Given
<1>6. seen = Stored
  BY <1>1, <1>2 DEF BlkInv, Visible, Given, NotTaken
<1>7. seen' = Stored'
  <2>1. seen'.vq = vq'
    BY <1>1, <1>3, <1>6 DEF Stored
  <2>2. seen'.blk_req = blk_req'
    <3>1. /\ seen'.blk_req \in Requests /\ blk_req' \in Requests
          /\ seen'.blk_req.sector = blk_req'.sector /\ seen'.blk_req.type = blk_req'.type
          /\ seen'.blk_req.status = blk_req'.status /\ seen'.blk_req.data = blk_req'.data
      BY <1>3, <1>6 DEF Stored
    <3> QED  BY <3>1 DEF Requests
  <2> QED  BY <1>3, <2>1, <2>2 DEF Stored
<1>8. Visible'
  BY <1>1, <1>2, <1>7 DEF Visible, Given
<1>9. Built'
  <2>1. is_write => blk_req'.data = blk_req.data
    BY <1>3, <1>4
  <2> QED  BY <1>1, <1>2, <1>3, <2>1 DEF BlkInv, Built, InCall
<1>10. Delivered'
  <2> SUFFICES ASSUME blk_req'.status = 0, ~ is_write PROVE blk_req'.data = disk'[sector]
    BY <1>1 DEF Delivered
  <2>1. dev.type = "IN"
    BY <1>4
  <2> QED  BY <1>3, <1>4, <2>1
<1> QED  BY <1>1, <1>5, <1>8, <1>9, <1>10 DEF OrderInv, DeviceSeesCall

LEMMA DeviceUsedOrder ==
  ASSUME BlkInv, DeviceUsed
  PROVE  OrderInv'
<1>1. /\ dev.doing = "answered" /\ dev'.doing = "nothing" /\ dev'.idx = dev.idx
      /\ used_idx' = Inc(used_idx)
      /\ UNCHANGED <<pc, vq, blk_req, seen, last_used_index, disk, sector, is_write, buf>>
  BY DEF DeviceUsed, driver, args
<1>2. Given /\ InCall /\ Taken
  BY <1>1 DEF BlkInv, Counts, Done, NotTaken, Given, InCall
<1>3. Done' /\ Counts'
  BY <1>1, <1>2 DEF BlkInv, Taken, Done, Counts, Given
<1>4. seen = Stored
  BY <1>1, <1>2 DEF BlkInv, Visible, Given, NotTaken
<1>5. Visible' /\ Built'
  BY <1>1, <1>4 DEF BlkInv, Visible, Stored, Built, InCall
<1>6. Delivered'
  BY <1>1, <1>2 DEF BlkInv, Delivered, Answered, InCall
<1> QED  BY <1>1, <1>3, <1>5, <1>6 DEF OrderInv, DeviceSeesCall

LEMMA DeviceSleepOrder ==
  ASSUME BlkInv, DeviceSleep \/ UNCHANGED vars
  PROVE  OrderInv'
<1>1. UNCHANGED <<pc, vq, blk_req, seen, last_used_index, used_idx, dev, disk, sector, is_write, buf>>
  BY DEF DeviceSleep, driver, args, vars
<1> QED
  BY <1>1 DEF BlkInv, OrderInv, Counts, NotTaken, Taken, Done, Given, Visible, Stored, Built,
              InCall, DeviceSeesCall, WellFormed, Delivered, Answered

LEMMA PropagateOrder ==
  ASSUME InOrder, BlkInv, Propagate
  PROVE  OrderInv'
<1>1. /\ UNCHANGED <<pc, vq, blk_req, last_used_index, used_idx, dev, disk, sector, is_write, buf>>
      /\ seen' # seen
  BY DEF Propagate, driver, args
<1>2. \/ seen'.vq.idx = seen.vq.idx
      \/ seen' = Stored
  BY Propagated DEF BlkInv
<1>3. Counts' /\ Built' /\ DeviceSeesCall' /\ Delivered'
  BY <1>1 DEF BlkInv, Counts, NotTaken, Taken, Done, Given, Built, InCall, DeviceSeesCall,
              WellFormed, Delivered, Answered
<1>4. Visible'
  <2>1. seen # Stored
    <3> SUFFICES ASSUME seen = Stored PROVE FALSE
      OBVIOUS
    <3>1. seen.vq = vq /\ seen.blk_req = blk_req
      BY DEF Stored
    <3>2. seen' = seen
      BY <3>1 DEF Propagate, BlkInv, TypeOK, Queues
    <3> QED  BY <1>1, <3>2
  <2>2. pc \in {"kick", "notify"} /\ (pc = "notify" => NotTaken /\ seen.vq.idx = used_idx)
    BY <2>1 DEF BlkInv, Visible
  <2>3. CASE seen'.vq.idx = seen.vq.idx
    BY <1>1, <2>2, <2>3 DEF BlkInv, Visible, NotTaken
  <2>4. CASE seen' = Stored
    <3>1. seen' = Stored' /\ seen'.vq.idx = vq'.idx
      BY <1>1, <2>4 DEF Stored
    <3> QED  BY <1>1, <2>2, <3>1 DEF Visible
  <2> QED  BY <1>2, <2>3, <2>4
<1> QED  BY <1>3, <1>4 DEF OrderInv

LEMMA NextOrder ==
  ASSUME InOrder, BlkInv, [Next]_vars
  PROVE  BlkInv'
<1>1. TypeOK' /\ DevTypeOK'
  BY NextTypes DEF BlkInv
<1>2. ASSUME NEW s \in 0..Capacity, NEW w \in BOOLEAN, NEW b \in Data,
             OutOfRange(s, w, b) \/ BuildRequest(s, w, b)
      PROVE  OrderInv'
  BY <1>2, OutOfRangeOrder, BuildRequestOrder
<1>3. ASSUME DriverStep PROVE OrderInv'
  BY <1>3, ProbeOrder, KickRingOrder, KickNotifyOrder, KickCountOrder, FinishOrder DEF DriverStep
<1>4. ASSUME DeviceStep PROVE OrderInv'
  BY <1>4, DeviceTakeOrder, DeviceAnswerOrder, DeviceUsedOrder, DeviceSleepOrder DEF DeviceStep
<1>5. OrderInv'
  BY <1>2, <1>3, <1>4, PropagateOrder, DeviceSleepOrder DEF Next, Call, Panicked
<1> QED  BY <1>1, <1>5 DEF BlkInv, OrderInv

\* The invariant holds in every state when stores and loads keep their order.
THEOREM Invariance == InOrder => (Spec => []BlkInv)
<1> SUFFICES ASSUME InOrder PROVE Spec => []BlkInv
  OBVIOUS
<1>1. Init => BlkInv
  BY InitTypes, InitOrder DEF BlkInv, OrderInv
<1>2. BlkInv /\ [Next]_vars => BlkInv'
  BY NextOrder
<1> QED  BY <1>1, <1>2, PTL DEF Spec

\* The device carries out the call read_write_disk was made with, although all
\* calls use one request block and one chain of descriptors.
THEOREM DeviceServesTheCall == InOrder => (Spec => []DeviceSeesCall)
<1>1. BlkInv => DeviceSeesCall
  BY DEF BlkInv
<1> QED  BY <1>1, Invariance, PTL

\* Nothing the driver stores changes the chain or the request block while the
\* device may be reading them.
THEOREM RequestLeftAlone == InOrder => (Spec => LeftAloneInFlight)
<1> DEFINE Untouched ==
             dev.doing # "nothing" \/ (notified /\ dev.idx # vq.idx) =>
               /\ vq'.buffers = vq.buffers
               /\ blk_req'.sector = blk_req.sector /\ blk_req'.type = blk_req.type
               /\ dev' = dev => blk_req' = blk_req
<1>1. ASSUME BlkInv, [Next]_vars PROVE Untouched
  <2> SUFFICES ASSUME dev.doing # "nothing" \/ dev.idx # vq.idx
               PROVE  /\ vq'.buffers = vq.buffers
                      /\ blk_req'.sector = blk_req.sector /\ blk_req'.type = blk_req.type
                      /\ dev' = dev => blk_req' = blk_req
    OBVIOUS
  <2>1. Given
    BY <1>1 DEF BlkInv, Counts, Done
  <2>2. CASE DeviceAnswer
    <3>1. blk_req'.sector = blk_req.sector /\ blk_req'.type = blk_req.type
      BY <1>1, <2>2, AnsweredRequest DEF BlkInv
    <3>2. vq' = vq /\ dev'.doing # dev.doing
      BY <2>2 DEF DeviceAnswer
    <3> QED  BY <3>1, <3>2
  <2>3. CASE ~ DeviceAnswer
    <3>1. vq' = vq /\ blk_req' = blk_req
      BY <1>1, <2>1, <2>3
         DEF Given, Next, Call, OutOfRange, BuildRequest, DriverStep, Probe, Setup, KickRing,
             KickNotify, KickCount, Finish, DeviceStep, DeviceTake, DeviceUsed, DeviceSleep,
             Propagate, Panicked, driver, vars
    <3> QED  BY <3>1
  <2> QED  BY <2>2, <2>3
<1>2. BlkInv /\ [Next]_vars => [Untouched]_vars
  BY <1>1
<1> HIDE DEF Untouched
<1>3. InOrder => (Spec => [][Untouched]_vars)
  BY <1>2, Invariance, PTL DEF Spec
<1> QED  BY <1>3 DEF LeftAloneInFlight, Untouched

-----------------------------------------------------------------------------
(* The driver and the device together are an atomic disk.                  *)

\* How far a call is, as AtomicDisk sees it.
Phase ==
  IF pc \in {"probe", "setup", "idle", "panic"} THEN "none"
  ELSE IF ~ Answered THEN "called"
  ELSE IF blk_req.status = 0 THEN "performed" ELSE "failed"

\* A step that leaves the disk, the call and its phase alone.
LEMMA AbstractStutter ==
  ASSUME UNCHANGED <<disk, sector, is_write, buf>>, Phase' = Phase
  PROVE  [Abs!Next]_(Abs!absVars)
BY DEF Abs!absVars, Phase

\* A call begins.
LEMMA AbstractCall ==
  ASSUME BlkInv, NEW s \in 0..Capacity, NEW w \in BOOLEAN, NEW b \in Data, BuildRequest(s, w, b)
  PROVE  Abs!Call
<1>1. s \in Sectors
  BY BuiltQueue DEF BlkInv
<1>2. pc = "idle" /\ pc' = "kick" /\ dev' = dev /\ dev.doing = "nothing"
  BY DEF BuildRequest, BlkInv, Counts, Given, Done
<1>3. ~ Answered'
  BY <1>2 DEF Answered
<1>4. Phase = "none" /\ Phase' = "called"
  BY <1>2, <1>3 DEF Phase
<1> QED  BY <1>1, <1>4 DEF BuildRequest, Abs!Call, Phase

\* The device answers: the one moment at which the call takes effect or fails.
LEMMA AbstractAnswer ==
  ASSUME BlkInv, DeviceAnswer
  PROVE  Abs!Perform \/ Abs!Fail
<1>1. /\ dev.doing = "request" /\ dev'.doing = "answered"
      /\ UNCHANGED <<pc, vq, used_idx, sector, is_write, buf>>
  BY DEF DeviceAnswer, args
<1>2. Given /\ Taken /\ used_idx # vq.idx
  <2>1. Given /\ Taken
    BY <1>1 DEF BlkInv, Counts, Done, NotTaken
  <2>2. used_idx \in Indices
    BY DEF BlkInv, TypeOK, Indices
  <2> QED  BY <2>1, <2>2, IncWraps DEF Taken
<1>3. ~ Answered /\ Answered'
  BY <1>1, <1>2 DEF Answered
<1>4. Phase = "called"
  BY <1>2, <1>3 DEF Phase, Given
<1>5. /\ dev.sector = sector /\ dev.type = IF is_write THEN "OUT" ELSE "IN"
      /\ is_write => dev.data = buf
  BY <1>1 DEF BlkInv, DeviceSeesCall
<1>6. \/ /\ blk_req'.status = 0
         /\ disk' = IF dev.type = "OUT" THEN [disk EXCEPT ![dev.sector] = dev.data] ELSE disk
      \/ blk_req'.status = 1 /\ disk' = disk
  BY AnsweredRequest DEF BlkInv
<1>7. CASE /\ blk_req'.status = 0
           /\ disk' = IF dev.type = "OUT" THEN [disk EXCEPT ![dev.sector] = dev.data] ELSE disk
  <2>1. Phase' = "performed"
    BY <1>1, <1>2, <1>3, <1>7 DEF Phase, Given
  <2>2. disk' = IF is_write THEN [disk EXCEPT ![sector] = buf] ELSE disk
    BY <1>5, <1>7
  <2> QED  BY <1>1, <1>4, <2>1, <2>2 DEF Abs!Perform, Phase
<1>8. CASE blk_req'.status = 1 /\ disk' = disk
  <2>1. Phase' = "failed"
    BY <1>1, <1>2, <1>3, <1>8 DEF Phase, Given
  <2> QED  BY <1>1, <1>4, <1>8, <2>1 DEF Abs!Fail, Phase
<1> QED  BY <1>6, <1>7, <1>8

\* read_write_disk returns.
LEMMA AbstractReturn ==
  ASSUME InOrder, BlkInv, Finish
  PROVE  Abs!Return
<1>1. /\ pc = "wait" /\ pc' = "idle" /\ ~ virtq_is_busy
      /\ UNCHANGED <<disk, sector, is_write>>
  BY DEF Finish
<1>2. Done /\ Answered /\ InCall
  BY <1>1, NotBusyDone DEF Done, Answered, InCall
<1>3. buf' = IF blk_req.status = 0 /\ ~ is_write THEN blk_req.data ELSE buf
  BY DEF Finish, Loaded
<1>4. blk_req.status = 0 /\ ~ is_write => blk_req.data = disk[sector]
  BY <1>2 DEF BlkInv, Delivered
<1>5. /\ Phase = IF blk_req.status = 0 THEN "performed" ELSE "failed"
      /\ Phase' = "none"
  BY <1>1, <1>2 DEF Phase
<1> QED  BY <1>1, <1>3, <1>4, <1>5 DEF Abs!Return, Phase

\* Everything else the driver, the device and the memory do is invisible.
LEMMA AbstractHidden ==
  ASSUME BlkInv, [Next]_vars, ~ DeviceAnswer, ~ Finish,
         ~ \E s \in 0..Capacity, w \in BOOLEAN, b \in Data : BuildRequest(s, w, b)
  PROVE  UNCHANGED <<disk, sector, is_write, buf>> /\ Phase' = Phase
<1>1. CASE Probe \/ Setup \/ \E s \in 0..Capacity, w \in BOOLEAN, b \in Data : OutOfRange(s, w, b)
  BY <1>1 DEF Probe, Setup, OutOfRange, args, Phase
<1>2. CASE KickRing
  <2>1. /\ pc = "kick" /\ pc' = "notify"
        /\ UNCHANGED <<blk_req, used_idx, dev, disk, sector, is_write, buf>>
    BY <1>2 DEF KickRing, args
  <2>2. Done /\ vq'.idx = Inc(vq.idx) /\ vq.idx \in Indices
    BY <1>2, <2>1, KickedQueue DEF BlkInv, Counts, Given, TypeOK, Queues, Indices
  <2>3. used_idx' # vq'.idx
    BY <2>1, <2>2, IncWraps DEF Done
  <2>4. ~ Answered /\ ~ Answered'
    BY <2>1, <2>2, <2>3 DEF Answered, Done
  <2> QED  BY <2>1, <2>4 DEF Phase
<1>3. CASE KickNotify \/ KickCount
  BY <1>3 DEF KickNotify, KickCount, args, Phase, Answered
<1>4. CASE DeviceTake
  <2>1. /\ dev.doing = "nothing" /\ dev'.doing = "request"
        /\ UNCHANGED <<pc, vq, blk_req, used_idx, disk, sector, is_write, buf>>
    BY <1>4 DEF DeviceTake, driver, args
  <2> QED  BY <2>1 DEF Phase, Answered
<1>5. CASE DeviceUsed
  <2>1. /\ dev.doing = "answered" /\ used_idx' = Inc(used_idx)
        /\ UNCHANGED <<pc, vq, blk_req, disk, sector, is_write, buf>>
    BY <1>5 DEF DeviceUsed, driver, args
  <2>2. Given /\ Taken
    BY <2>1 DEF BlkInv, Counts, Done, NotTaken
  <2>3. Answered /\ Answered'
    BY <2>1, <2>2 DEF Answered, Taken, Given
  <2> QED  BY <2>1, <2>3 DEF Phase
<1>6. CASE DeviceSleep \/ Propagate \/ UNCHANGED vars
  BY <1>6 DEF DeviceSleep, Propagate, vars, driver, args, Phase, Answered
<1> QED
  BY <1>1, <1>2, <1>3, <1>4, <1>5, <1>6 DEF Next, Call, DriverStep, DeviceStep, Panicked

\* However the steps of read_write_disk and of the device interleave, and
\* whenever stores become visible, a call has its effect on the disk exactly
\* once, between its start and its return, or fails without one.
THEOREM ImplementsAnAtomicDisk == InOrder => (Spec => ImplementsAtomicDisk)
<1> SUFFICES ASSUME InOrder PROVE Spec => Abs!Spec
  BY DEF ImplementsAtomicDisk
<1>1. Init => Abs!Init
  <2> SUFFICES ASSUME Init PROVE Abs!Init
    OBVIOUS
  <2>1. sector \in Sectors
    BY VirtioAssumption DEF Init, Sectors
  <2> QED  BY <2>1 DEF Init, Abs!Init
<1>2. BlkInv /\ [Next]_vars => [Abs!Next]_(Abs!absVars)
  <2> SUFFICES ASSUME BlkInv, [Next]_vars PROVE [Abs!Next]_(Abs!absVars)
    OBVIOUS
  <2>1. CASE \E s \in 0..Capacity, w \in BOOLEAN, b \in Data : BuildRequest(s, w, b)
    BY <2>1, AbstractCall DEF Abs!Next
  <2>2. CASE DeviceAnswer
    BY <2>2, AbstractAnswer DEF Abs!Next
  <2>3. CASE Finish
    BY <2>3, AbstractReturn DEF Abs!Next
  <2> QED  BY <2>1, <2>2, <2>3, AbstractHidden, AbstractStutter
<1>3. Spec => []BlkInv
  BY Invariance
<1> QED  BY <1>1, <1>2, <1>3, PTL DEF Spec, Abs!Spec
=============================================================================
