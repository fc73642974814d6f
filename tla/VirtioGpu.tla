------------------------------ MODULE VirtioGpu ------------------------------
(***************************************************************************)
(* The gpu driver, drivers/virtio/virtio_gpu.c: the commands that make the  *)
(* framebuffer a picture on the display, and the animation that draws one   *)
(* frame after another while the device works on its own time.              *)
(*                                                                         *)
(* All commands go through the first three descriptors of one queue; the   *)
(* device (external) answers each one when it likes, or with an error. The  *)
(* order in which stores reach the device is the subject of VirtioBlk: here *)
(* they are visible once virtq_kick has passed its barrier.                 *)
(***************************************************************************)
EXTENDS Integers, Sequences

CONSTANTS
  Width, Height,     \* GPU_DEFAULT_WIDTH and GPU_DEFAULT_HEIGHT
  Side,              \* w and h of bounce
  UIntMod,           \* 2^32 in the code: coordinates and sizes are uint32_t
  IdxMod             \* 2^16 in the code: the ring indices are uint16_t

ASSUME GpuAssumption ==
  /\ Width \in Nat /\ Height \in Nat
  /\ Side \in Nat \ {0} /\ Side < Width /\ Side < Height
  /\ UIntMod \in Nat /\ Width < UIntMod /\ Height < UIntMod
  /\ IdxMod \in Nat \ {0, 1}

VARIABLES
  pc,                \* the command or the part of the animation that is next
  kick,              \* how far the driver is with a command: "none" is given out yet
  device,            \* what the device's identification registers read
  allocated,         \* framebuffer is not NULL
  framebuffer,
  cmd,               \* the command buffers[0] points to
  buffers,           \* the descriptors the driver uses
  avail_idx, last_used_index, used_idx,
  resp,              \* *resp
  warned,            \* commands whose last answer was reported as a warning
  dev,               \* what the device is doing
  resource,          \* resource 1 of the device
  scanout,           \* the resource is linked to the display
  screen,            \* what the display shows
  x, y, is_left, is_down

animation == <<x, y, is_left, is_down>>

display == <<resource, scanout, screen>>

queue == <<cmd, buffers, avail_idx, last_used_index, used_idx>>

vars == <<pc, kick, device, allocated, framebuffer, queue, resp, warned, dev, display,
          animation>>

-----------------------------------------------------------------------------
(* Drawing. A pixel is "zero" (as kalloc and the device leave it), "white"  *)
(* or "black"; clear_screen, set_pixel, fill_rect, stroke_rect, draw_rect.  *)

Pixels == 0..(Width * Height - 1)

Blank == [i \in Pixels |-> "zero"]

White == [i \in Pixels |-> "white"]

\* Conversion to uint32_t, and sums of that type.
U32(v) == v % UIntMod

\* What set_pixel stores to.
OnScreen(col, row) == col < Width /\ row < Height

\* The pixels the two loops of fill_rect pass to set_pixel.
Visited(cx, cy, w, h) == (cx .. U32(cx + w) - 1) \X (cy .. U32(cy + h) - 1)

\* The pixels fill_rect stores to.
Filled(cx, cy, w, h) == {p \in Visited(cx, cy, w, h) : OnScreen(p[1], p[2])}

\* The pixels the four calls of stroke_rect store to.
Stroked(cx, cy, w, h, size) ==
  UNION {Filled(cx, cy, w, size),
         Filled(cx, U32(cy + h), w, size),
         Filled(cx, cy, size, h),
         Filled(U32(cx + w), cy, size, U32(h + size))}

\* draw_rect: a border of the given size, or the whole rectangle when it is 0.
Drawn(cx, cy, w, h, size) ==
  IF size = 0 THEN Filled(cx, cy, w, h) ELSE Stroked(cx, cy, w, h, size)

draw_rect(fb, cx, cy, w, h, size, color) ==
  LET stored == {p[2] * Width + p[1] : p \in Drawn(cx, cy, w, h, size)}
  IN  [i \in DOMAIN fb |-> IF i \in stored THEN color ELSE fb[i]]

-----------------------------------------------------------------------------
\* uint16_t arithmetic.
Inc(idx) == (idx + 1) % IdxMod

Desc(part, flags, next) == [part |-> part, flags |-> flags, next |-> next]

Resting(idx) == [doing |-> "nothing", idx |-> idx, cmd |-> "none", chain |-> <<>>]

Init ==
  /\ pc = "probe" /\ kick = "none"
  /\ device \in [magic : BOOLEAN, version : {1, 2}, id : {"gpu", "other"}]
  /\ allocated = FALSE
  /\ framebuffer = Blank
  /\ cmd = "none"
  /\ buffers = [i \in 0..2 |-> Desc("none", {}, 0)]
  /\ avail_idx = 0 /\ last_used_index = 0 /\ used_idx = 0
  /\ resp = "error"
  /\ warned = {}
  /\ dev = Resting(0)
  /\ resource = [created |-> FALSE, backed |-> FALSE, content |-> Blank]
  /\ scanout = FALSE
  /\ screen = Blank
  /\ x = 0 /\ y = 0 /\ is_left = FALSE /\ is_down = TRUE

-----------------------------------------------------------------------------
(* virtio_gpu_init.                                                        *)

\* The checks of the registers, then the status bits, virtq_init and gpu_req:
\* a wrong device, or memory exhausted in either allocation, is a PANIC.
Probe ==
  /\ pc = "probe"
  /\ \/ device = [magic |-> TRUE, version |-> 1, id |-> "gpu"] /\ pc' = "create"
     \/ pc' = "panic"
  /\ UNCHANGED <<kick, device, allocated, framebuffer, queue, resp, warned, dev, display,
                 animation>>

\* The descriptors d are stored and virtq_kick(port, vq, 0) notifies the device.
\* r are the values *resp may have before the answer. (Except in Transfer, the
\* pointer resp is 8 * sizeof(command) bytes past the command, a word of an outer
\* stack frame or beyond: what else is kept there is not modelled.)
Give(command, d, r) ==
  /\ pc = command /\ kick = "none"
  /\ cmd' = command
  /\ buffers' = [i \in 0..2 |-> IF i \in DOMAIN d THEN d[i] ELSE buffers[i]]
  /\ resp' \in r
  /\ avail_idx' = Inc(avail_idx)
  /\ kick' = "count"
  /\ UNCHANGED <<pc, device, last_used_index, used_idx, warned, dev, display, animation>>

\* An unwritten word of the stack.
AnyWord == {"ok", "error"}

\* A command and its answer. buffers[1].next is not stored.
Short ==
  [i \in 0..1 |-> IF i = 0 THEN Desc("cmd", {"NEXT"}, 1)
                  ELSE Desc("resp", {"WRITE"}, buffers[1].next)]

\* A command, its data and its answer. buffers[2].next is not stored.
Long(data) ==
  [i \in 0..2 |-> CASE i = 0 -> Desc("cmd", {"NEXT"}, 1)
                    [] i = 1 -> Desc(data, {"NEXT"}, 2)
                    [] i = 2 -> Desc("resp", {"WRITE"}, buffers[2].next)]

Create2d ==
  Give("create", Short, AnyWord) /\ UNCHANGED <<allocated, framebuffer>>

\* The framebuffer comes from kalloc, cleared, and is not checked for NULL.
AttachBacking ==
  /\ Give("attach", Long("entry"), AnyWord)
  /\ allocated' \in BOOLEAN
  /\ UNCHANGED framebuffer

\* Slip: buffers[1] keeps the flags and the next of the command before.
SetScanoutStale ==
  /\ Give("scanout",
          [i \in 0..1 |-> IF i = 0 THEN Desc("cmd", {"NEXT"}, 1)
                          ELSE [buffers[1] EXCEPT !.part = "resp"]],
          AnyWord)
  /\ UNCHANGED <<allocated, framebuffer>>

SetScanout ==
  Give("scanout", Short, AnyWord) /\ UNCHANGED <<allocated, framebuffer>>

-----------------------------------------------------------------------------
(* bounce, which virtio_gpu_init ends in.                                  *)

\* clear_screen. A store through a NULL framebuffer traps.
ClearScreen ==
  /\ pc = "clear"
  /\ \/ allocated /\ framebuffer' = White /\ pc' = "move"
     \/ ~ allocated /\ pc' = "panic" /\ UNCHANGED framebuffer
  /\ UNCHANGED <<kick, device, allocated, queue, resp, warned, dev, display, animation>>

\* Slip: the edges are tested before the position has moved.
MoveLate ==
  /\ pc = "move"
  /\ x' = IF is_left THEN x - 1 ELSE x + 1
  /\ y' = IF is_down THEN y + 1 ELSE y - 1
  /\ is_down' = IF y \in {0, Height - Side} THEN ~ is_down ELSE is_down
  /\ is_left' = IF x \in {0, Width - Side} THEN ~ is_left ELSE is_left
  /\ pc' = "draw"
  /\ UNCHANGED <<kick, device, allocated, framebuffer, queue, resp, warned, dev, display>>

\* One step along both axes; at an edge the direction turns round.
Move ==
  /\ pc = "move"
  /\ x' = IF is_left THEN x - 1 ELSE x + 1
  /\ y' = IF is_down THEN y + 1 ELSE y - 1
  /\ is_down' = IF y' \in {0, Height - Side} THEN ~ is_down ELSE is_down
  /\ is_left' = IF x' \in {0, Width - Side} THEN ~ is_left ELSE is_left
  /\ pc' = "draw"
  /\ UNCHANGED <<kick, device, allocated, framebuffer, queue, resp, warned, dev, display>>

Draw ==
  /\ pc = "draw"
  /\ framebuffer' = draw_rect(framebuffer, U32(x), U32(y), Side, Side, 0, "black")
  /\ pc' = "transfer"
  /\ UNCHANGED <<kick, device, allocated, queue, resp, warned, dev, display, animation>>

\* flush: resp points to the command itself, whose type is not OK_NODATA.
Transfer ==
  Give("transfer", Long("fb"), {"error"}) /\ UNCHANGED <<allocated, framebuffer>>

Flush ==
  Give("flush", Short, AnyWord) /\ UNCHANGED <<allocated, framebuffer>>

-----------------------------------------------------------------------------
(* The end of every command.                                               *)

\* Slip: the command is not counted.
KickUncounted ==
  /\ kick = "count"
  /\ kick' = "wait"
  /\ UNCHANGED <<pc, device, allocated, framebuffer, queue, resp, warned, dev, display,
                 animation>>

\* virtq_kick: last_used_index++, when the device may be done already.
KickCount ==
  /\ kick = "count"
  /\ last_used_index' = Inc(last_used_index)
  /\ kick' = "wait"
  /\ UNCHANGED <<pc, device, allocated, framebuffer, cmd, buffers, avail_idx, used_idx, resp,
                 warned, dev, display, animation>>

\* Slip: busy only when the device is ahead.
virtq_is_behind == last_used_index < used_idx

virtq_is_busy == last_used_index # used_idx

\* What follows a command.
After(p) ==
  CASE p = "create" -> "attach" [] p = "attach" -> "scanout" [] p = "scanout" -> "clear"
    [] p = "transfer" -> "flush" [] p = "flush" -> "clear"

\* Slip: the loop is left without the answer of the device.
AnsweredUnwaited ==
  /\ kick = "wait"
  /\ warned' = IF resp = "ok" THEN warned \ {pc} ELSE warned \cup {pc}
  /\ pc' = After(pc) /\ kick' = "none"
  /\ UNCHANGED <<device, allocated, framebuffer, queue, resp, dev, display, animation>>

\* The loop on virtq_is_busy ends; an error is only printed.
Answered ==
  /\ kick = "wait"
  /\ ~ virtq_is_busy
  /\ warned' = IF resp = "ok" THEN warned \ {pc} ELSE warned \cup {pc}
  /\ pc' = After(pc) /\ kick' = "none"
  /\ UNCHANGED <<device, allocated, framebuffer, queue, resp, dev, display, animation>>

\* PANIC's while (1) {}.
Panicked == pc = "panic" /\ UNCHANGED vars

-----------------------------------------------------------------------------
(* The device (external).                                                  *)

\* The parts of the chain that starts at descriptor 0.
Chain ==
  LET d0 == buffers[0]
      d1 == buffers[d0.next]
      d2 == buffers[d1.next]
  IN  IF "NEXT" \notin d0.flags THEN <<d0.part>>
      ELSE IF "NEXT" \notin d1.flags THEN <<d0.part, d1.part>>
      ELSE <<d0.part, d1.part, d2.part>>

DeviceTake ==
  /\ dev.doing = "nothing"
  /\ dev.idx # avail_idx
  /\ dev' = [doing |-> "command", idx |-> Inc(dev.idx), cmd |-> cmd, chain |-> Chain]
  /\ UNCHANGED <<pc, kick, device, allocated, framebuffer, queue, resp, warned, display,
                 animation>>

\* The command can be carried out in the state the device is in.
Possible ==
  CASE dev.cmd = "create"   -> ~ resource.created
    [] dev.cmd = "attach"   -> resource.created /\ ~ resource.backed /\ allocated
    [] dev.cmd = "scanout"  -> resource.created
    [] dev.cmd = "transfer" -> resource.created /\ resource.backed
    [] dev.cmd = "flush"    -> resource.created

DevicePerform ==
  /\ dev.doing = "command" /\ Possible
  /\ resource' = CASE dev.cmd = "create"   -> [resource EXCEPT !.created = TRUE]
                   [] dev.cmd = "attach"   -> [resource EXCEPT !.backed = TRUE]
                   [] dev.cmd = "transfer" -> [resource EXCEPT !.content = framebuffer]
                   [] OTHER                -> resource
  /\ scanout' = (scanout \/ dev.cmd = "scanout")
  /\ screen' = IF dev.cmd = "flush" /\ scanout THEN resource.content ELSE screen
  /\ resp' = "ok"
  /\ dev' = [dev EXCEPT !.doing = "answered"]
  /\ UNCHANGED <<pc, kick, device, allocated, framebuffer, queue, warned, animation>>

\* Any command may also fail for want of the device's own resources.
DeviceRefuse ==
  /\ dev.doing = "command"
  /\ resp' = "error"
  /\ dev' = [dev EXCEPT !.doing = "answered"]
  /\ UNCHANGED <<pc, kick, device, allocated, framebuffer, queue, warned, display, animation>>

DeviceUsed ==
  /\ dev.doing = "answered"
  /\ used_idx' = Inc(used_idx)
  /\ dev' = Resting(dev.idx)
  /\ UNCHANGED <<pc, kick, device, allocated, framebuffer, cmd, buffers, avail_idx,
                 last_used_index, resp, warned, display, animation>>

DeviceStep == DeviceTake \/ DevicePerform \/ DeviceRefuse \/ DeviceUsed

virtio_gpu_init == Probe \/ Create2d \/ AttachBacking \/ SetScanout

bounce == ClearScreen \/ Move \/ Draw \/ Transfer \/ Flush

DriverStep == virtio_gpu_init \/ bounce \/ KickCount \/ Answered

Next == DriverStep \/ DeviceStep \/ Panicked

\* The driver runs on and the device answers what it was given: the code waits
\* for it without a timeout.
Spec == Init /\ [][Next]_vars /\ WF_vars(DriverStep) /\ WF_vars(DeviceStep)

-----------------------------------------------------------------------------
(* Properties.                                                             *)

\* The square of bounce never leaves the screen: x and y, which are int, are
\* never negative when they are converted to uint32_t for draw_rect.
SquareInside == x \in 0..(Width - Side) /\ y \in 0..(Height - Side)

\* Although every command reuses the descriptors of the one before, the chain
\* the device finds is the one its command needs.
ChainFits ==
  dev.doing = "command" =>
    dev.chain = CASE dev.cmd = "attach"   -> <<"cmd", "entry", "resp">>
                  [] dev.cmd = "transfer" -> <<"cmd", "fb", "resp">>
                  [] OTHER                -> <<"cmd", "resp">>

\* A frame of the animation: the square on white.
Frame(i, j) ==
  [p \in Pixels |-> IF p % Width \in i .. i + Side - 1 /\ p \div Width \in j .. j + Side - 1
                    THEN "black" ELSE "white"]

\* The display shows whole frames: the device never copies the framebuffer
\* while bounce has cleared it and not yet drawn the square.
NoTearing ==
  screen = Blank \/ \E i \in 0..(Width - Side), j \in 0..(Height - Side) : screen = Frame(i, j)

\* flush shows the current framebuffer, unless one of the commands it depends
\* on has been reported as failed.
FlushShowsFrame ==
  pc = "clear" /\ framebuffer # Blank /\ warned \cap {"scanout", "transfer", "flush"} = {} =>
    screen = framebuffer /\ framebuffer = Frame(x, y)

\* Every frame that is begun is finished, whatever the device answers.
FramesFinish == pc \in {"move", "draw", "transfer", "flush"} ~> pc = "clear"
=============================================================================
