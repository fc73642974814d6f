----------------------------- MODULE GpuProofs ------------------------------
(***************************************************************************)
(* What holds of the gpu driver on a screen of any size: which pixels      *)
(* draw_rect stores to, where the square of bounce can be, and, for ring   *)
(* indices of any width, what the display shows: the commands reach the    *)
(* device whole, and in step with the drawing.                             *)
(***************************************************************************)
EXTENDS VirtioGpu, TLAPS

(***************************************************************************)
(* Drawing.                                                                *)
(***************************************************************************)

\* The pixels of the screen.
Screen == (0..(Width - 1)) \X (0..(Height - 1))

\* A rectangle that lies on the screen or partly outside of it.
Rect(cx, cy, w, h) ==
  {p \in Screen : cx <= p[1] /\ p[1] < cx + w /\ cy <= p[2] /\ p[2] < cy + h}

\* Sums that fit their type are not wrapped.
LEMMA U32Small ==
  ASSUME NEW v \in Nat, v < UIntMod
  PROVE  U32(v) = v
BY GpuAssumption DEF U32

\* fill_rect, as long as the sums of its loops fit their type, stores to the
\* part of the rectangle that is on the screen: nothing more and nothing less.
THEOREM FillsTheRectangle ==
  ASSUME NEW cx \in Nat, NEW cy \in Nat, NEW w \in Nat, NEW h \in Nat,
         cx + w < UIntMod, cy + h < UIntMod
  PROVE  Filled(cx, cy, w, h) = Rect(cx, cy, w, h)
<1>1. U32(cx + w) = cx + w /\ U32(cy + h) = cy + h
  BY U32Small
<1>2. ASSUME NEW p \in Filled(cx, cy, w, h)
      PROVE  p \in Rect(cx, cy, w, h)
  BY <1>1, GpuAssumption DEF Filled, Visited, OnScreen, Rect, Screen
<1>3. ASSUME NEW p \in Rect(cx, cy, w, h)
      PROVE  p \in Filled(cx, cy, w, h)
  BY <1>1, GpuAssumption DEF Filled, Visited, OnScreen, Rect, Screen
<1>4. QED
  BY <1>2, <1>3

\* draw_rect with a border: the four strips of stroke_rect are together the
\* frame between the rectangle that is larger by the border and the one that is
\* smaller by it, without a gap at a corner and without a pixel too many.
THEOREM StrokesTheBorder ==
  ASSUME NEW cx \in Nat, NEW cy \in Nat, NEW w \in Nat, NEW h \in Nat,
         NEW size \in Nat \ {0},
         cx + w + size < UIntMod, cy + h + size < UIntMod
  PROVE  Drawn(cx, cy, w, h, size) =
           {p \in Rect(cx, cy, w + size, h + size) :
              ~ (/\ cx + size <= p[1] /\ p[1] < cx + w
                 /\ cy + size <= p[2] /\ p[2] < cy + h)}
<1> DEFINE Border == {p \in Rect(cx, cy, w + size, h + size) :
                        ~ (/\ cx + size <= p[1] /\ p[1] < cx + w
                           /\ cy + size <= p[2] /\ p[2] < cy + h)}
<1>0. /\ cx + w \in Nat /\ cx + w < UIntMod /\ cy + h \in Nat /\ cy + h < UIntMod
      /\ h + size \in Nat /\ h + size < UIntMod /\ size \in Nat
      /\ cx + size < UIntMod /\ cy + size < UIntMod
      /\ (cx + w) + size < UIntMod /\ (cy + h) + size < UIntMod
      /\ cy + (h + size) < UIntMod
  BY GpuAssumption
<1>1. U32(cy + h) = cy + h /\ U32(cx + w) = cx + w /\ U32(h + size) = h + size
  BY <1>0, U32Small
<1>2. Filled(cx, cy, w, size) = Rect(cx, cy, w, size)
  BY <1>0, FillsTheRectangle
<1>3. Filled(cx, cy + h, w, size) = Rect(cx, cy + h, w, size)
  BY <1>0, FillsTheRectangle
<1>4. Filled(cx, cy, size, h) = Rect(cx, cy, size, h)
  BY <1>0, FillsTheRectangle
<1>5. Filled(cx + w, cy, size, h + size) = Rect(cx + w, cy, size, h + size)
  BY <1>0, FillsTheRectangle
<1>6. Drawn(cx, cy, w, h, size) =
        UNION {Rect(cx, cy, w, size), Rect(cx, cy + h, w, size),
               Rect(cx, cy, size, h), Rect(cx + w, cy, size, h + size)}
  BY <1>1, <1>2, <1>3, <1>4, <1>5 DEF Drawn, Stroked
<1>7. ASSUME NEW p \in Screen
      PROVE  /\ p[1] \in Nat /\ p[2] \in Nat
             /\ p \in Border <=>
                  \/ p \in Rect(cx, cy, w, size)
                  \/ p \in Rect(cx, cy + h, w, size)
                  \/ p \in Rect(cx, cy, size, h)
                  \/ p \in Rect(cx + w, cy, size, h + size)
  <2>1. p[1] \in Nat /\ p[2] \in Nat
    BY GpuAssumption DEF Screen
  <2>2. QED
    BY <2>1 DEF Rect
<1>8. \A p \in Border : p \in Screen
  BY DEF Rect
<1>9. \A p : \/ p \in Rect(cx, cy, w, size)
             \/ p \in Rect(cx, cy + h, w, size)
             \/ p \in Rect(cx, cy, size, h)
             \/ p \in Rect(cx + w, cy, size, h + size)
             => p \in Screen
  BY DEF Rect
<1> HIDE DEF Border
<1>10. Drawn(cx, cy, w, h, size) = Border
  BY <1>6, <1>7, <1>8, <1>9
<1>11. QED
  BY <1>10 DEF Border

(***************************************************************************)
(* The animation.                                                          *)
(***************************************************************************)

\* Where the square is, and that it is not at the edge it moves towards.
SquareInv ==
  /\ SquareInside
  /\ is_left \in BOOLEAN /\ is_down \in BOOLEAN
  /\ is_left => x > 0
  /\ ~ is_left => x < Width - Side
  /\ is_down => y < Height - Side
  /\ ~ is_down => y > 0

LEMMA SquareInit == Init => SquareInv
<1> SUFFICES ASSUME Init PROVE SquareInv
  OBVIOUS
<1>1. x = 0 /\ y = 0
  BY DEF Init
<1>2. x \in 0..(Width - Side) /\ y \in 0..(Height - Side) /\ x < Width - Side /\ y < Height - Side
  BY <1>1, GpuAssumption
<1>3. is_left = FALSE /\ is_down = TRUE
  BY Zenon DEF Init
<1>4. QED
  BY <1>2, <1>3, Zenon DEF SquareInv, SquareInside

LEMMA SquareStep == SquareInv /\ [Next]_vars => SquareInv'
<1> SUFFICES ASSUME SquareInv, [Next]_vars PROVE SquareInv'
  OBVIOUS
<1>1. CASE Move
  <2>1. /\ x' \in 0..(Width - Side) /\ is_left' \in BOOLEAN
        /\ (is_left' => x' > 0) /\ (~ is_left' => x' < Width - Side)
    <3>1. x \in 0..(Width - Side) /\ is_left \in BOOLEAN
      BY Zenon DEF SquareInv, SquareInside
    <3>2. CASE is_left
      <4>1. x' = x - 1 /\ x > 0
        BY <1>1, <3>2, Zenon DEF Move, SquareInv
      <4>2. x' \in 0..(Width - Side) /\ x' < Width - Side /\ x' # Width - Side
        BY <3>1, <4>1, GpuAssumption
      <4>3. CASE x' = 0
        <5>1. is_left' = ~ is_left
          BY <1>1, <4>3, Zenon DEF Move
        <5>2. QED BY <3>1, <3>2, <4>2, <5>1, Zenon
      <4>4. CASE x' # 0
        <5>1. is_left' = is_left
          BY <1>1, <4>2, <4>4, Zenon DEF Move
        <5>2. x' > 0
          BY <4>2, <4>4, GpuAssumption
        <5>3. QED BY <3>1, <3>2, <4>2, <5>1, <5>2, Zenon
      <4>5. QED BY <4>3, <4>4
    <3>3. CASE ~ is_left
      <4>1. x' = x + 1 /\ x < Width - Side
        BY <1>1, <3>3, Zenon DEF Move, SquareInv
      <4>2. x' \in 0..(Width - Side) /\ x' > 0 /\ x' # 0
        BY <3>1, <4>1, GpuAssumption
      <4>3. CASE x' = Width - Side
        <5>1. is_left' = ~ is_left
          BY <1>1, <4>3, Zenon DEF Move
        <5>2. QED BY <3>1, <3>3, <4>2, <5>1, Zenon
      <4>4. CASE x' # Width - Side
        <5>1. is_left' = is_left
          BY <1>1, <4>2, <4>4, Zenon DEF Move
        <5>2. x' < Width - Side
          BY <4>2, <4>4, GpuAssumption
        <5>3. QED BY <3>1, <3>3, <4>2, <5>1, <5>2, Zenon
      <4>5. QED BY <4>3, <4>4
    <3>4. QED BY <3>2, <3>3
  <2>2. /\ y' \in 0..(Height - Side) /\ is_down' \in BOOLEAN
        /\ (~ is_down' => y' > 0) /\ (is_down' => y' < Height - Side)
    <3>1. y \in 0..(Height - Side) /\ is_down \in BOOLEAN
      BY Zenon DEF SquareInv, SquareInside
    <3>2. CASE ~ is_down
      <4>1. y' = y - 1 /\ y > 0
        BY <1>1, <3>2, Zenon DEF Move, SquareInv
      <4>2. y' \in 0..(Height - Side) /\ y' < Height - Side /\ y' # Height - Side
        BY <3>1, <4>1, GpuAssumption
      <4>3. CASE y' = 0
        <5>1. is_down' = ~ is_down
          BY <1>1, <4>3, Zenon DEF Move
        <5>2. QED BY <3>1, <3>2, <4>2, <5>1, Zenon
      <4>4. CASE y' # 0
        <5>1. is_down' = is_down
          BY <1>1, <4>2, <4>4, Zenon DEF Move
        <5>2. y' > 0
          BY <4>2, <4>4, GpuAssumption
        <5>3. QED BY <3>1, <3>2, <4>2, <5>1, <5>2, Zenon
      <4>5. QED BY <4>3, <4>4
    <3>3. CASE is_down
      <4>1. y' = y + 1 /\ y < Height - Side
        BY <1>1, <3>3, Zenon DEF Move, SquareInv
      <4>2. y' \in 0..(Height - Side) /\ y' > 0 /\ y' # 0
        BY <3>1, <4>1, GpuAssumption
      <4>3. CASE y' = Height - Side
        <5>1. is_down' = ~ is_down
          BY <1>1, <4>3, Zenon DEF Move
        <5>2. QED BY <3>1, <3>3, <4>2, <5>1, Zenon
      <4>4. CASE y' # Height - Side
        <5>1. is_down' = is_down
          BY <1>1, <4>2, <4>4, Zenon DEF Move
        <5>2. y' < Height - Side
          BY <4>2, <4>4, GpuAssumption
        <5>3. QED BY <3>1, <3>3, <4>2, <5>1, <5>2, Zenon
      <4>5. QED BY <4>3, <4>4
    <3>4. QED BY <3>2, <3>3
  <2>3. QED
    BY <2>1, <2>2, Zenon DEF SquareInv, SquareInside
<1>2. CASE Next /\ ~ Move
  <2>1. UNCHANGED animation
    BY <1>2 DEF Next, DriverStep, DeviceStep, Panicked, virtio_gpu_init, bounce, Probe,
                Create2d, AttachBacking, SetScanout, ClearScreen, Draw, Transfer, Flush,
                Give, KickCount, Answered, DeviceTake, DevicePerform, DeviceRefuse,
                DeviceUsed, vars
  <2>2. QED
    BY <2>1 DEF animation, SquareInv, SquareInside
<1>3. CASE UNCHANGED vars
  BY <1>3 DEF vars, animation, SquareInv, SquareInside
<1>4. QED
  BY <1>1, <1>2, <1>3

\* On a screen of any size larger than the square, bounce keeps the square on
\* the screen for ever: each edge is met exactly, and turns the direction round
\* before the next step could cross it.
THEOREM SquareStaysInside == Spec => []SquareInside
<1>1. SquareInv => SquareInside
  BY DEF SquareInv
<1>2. QED
  BY <1>1, SquareInit, SquareStep, PTL DEF Spec

-----------------------------------------------------------------------------
(* The queue.                                                              *)

Commands == {"create", "attach", "scanout", "transfer", "flush"}

Indices == 0..(IdxMod - 1)

\* The descriptors are those of the command that was given.
Laid ==
  /\ buffers[0] = Desc("cmd", {"NEXT"}, 1)
  /\ cmd \notin {"attach", "transfer"} =>
       buffers[1].part = "resp" /\ buffers[1].flags = {"WRITE"}
  /\ cmd \in {"attach", "transfer"} =>
       /\ buffers[1] = Desc(IF cmd = "attach" THEN "entry" ELSE "fb", {"NEXT"}, 2)
       /\ buffers[2].part = "resp" /\ buffers[2].flags = {"WRITE"}

\* How far the device is with the command that was given last.
NotTaken == dev.doing = "nothing" /\ dev.idx = used_idx /\ avail_idx = Inc(used_idx)

Taken == dev.doing # "nothing" /\ dev.idx = avail_idx /\ avail_idx = Inc(used_idx)

Done == dev.doing = "nothing" /\ dev.idx = avail_idx /\ used_idx = avail_idx

QueueTypes ==
  /\ pc \in Commands \cup {"probe", "clear", "move", "draw", "panic"}
  /\ kick \in {"none", "count", "wait"}
  /\ avail_idx \in Indices /\ used_idx \in Indices /\ last_used_index \in Indices
  /\ dev = [doing |-> dev.doing, idx |-> dev.idx, cmd |-> dev.cmd, chain |-> dev.chain]

QueueInv ==
  /\ QueueTypes
  /\ kick = "none" => Done /\ last_used_index = avail_idx
  /\ kick # "none" => /\ pc \in Commands /\ cmd = pc /\ Laid
                      /\ NotTaken \/ Taken \/ Done
  /\ kick = "count" => avail_idx = Inc(last_used_index)
  /\ kick = "wait" => avail_idx = last_used_index
  /\ dev.doing \in {"nothing", "command", "answered"}
  /\ dev.doing # "nothing" => dev.cmd = pc
  /\ ChainFits

LEMMA IncWraps ==
  ASSUME NEW k \in Indices
  PROVE  Inc(k) \in Indices /\ Inc(k) # k
<1>1. IdxMod \in Nat \ {0, 1}
  BY GpuAssumption
<1>2. CASE k + 1 < IdxMod
  <2>1. k + 1 \in 0..(IdxMod - 1)
    BY <1>1, <1>2 DEF Indices
  <2>2. (k + 1) % IdxMod = k + 1
    BY <1>1, <2>1 DEF Indices
  <2> QED  BY <1>1, <2>1, <2>2 DEF Inc, Indices
<1>3. CASE k + 1 = IdxMod
  <2>1. (k + 1) % IdxMod = 0
    BY <1>1, <1>3
  <2> QED  BY <1>1, <1>3, <2>1 DEF Inc, Indices
<1> QED  BY <1>1, <1>2, <1>3 DEF Indices

LEMMA QueueInit == Init => QueueInv
<1> SUFFICES ASSUME Init PROVE QueueInv
  OBVIOUS
<1>1. 0 \in Indices
  BY GpuAssumption DEF Indices
<1>2. /\ dev = Resting(0) /\ dev.doing = "nothing" /\ dev.idx = 0
      /\ dev = [doing |-> dev.doing, idx |-> dev.idx, cmd |-> dev.cmd, chain |-> dev.chain]
  BY DEF Init, Resting
<1>3. ChainFits
  BY <1>2 DEF ChainFits
<1> QED  BY <1>1, <1>2, <1>3 DEF Init, QueueInv, QueueTypes, Done

\* A command given out: d are its descriptors.
LEMMA QueueGive ==
  ASSUME QueueInv, NEW command \in Commands, NEW d, NEW r, Give(command, d, r), Laid'
  PROVE  QueueInv'
<1>1. /\ pc = command /\ pc' = pc /\ kick = "none" /\ kick' = "count" /\ cmd' = command
      /\ avail_idx' = Inc(avail_idx)
      /\ last_used_index' = last_used_index /\ used_idx' = used_idx /\ dev' = dev
  BY DEF Give
<1>2. Done /\ last_used_index = avail_idx /\ QueueTypes
  BY <1>1 DEF QueueInv
<1>3. QueueTypes'
  BY <1>1, <1>2, IncWraps DEF QueueTypes
<1>4. NotTaken'
  BY <1>1, <1>2 DEF NotTaken, Done
<1>5. ChainFits'
  BY <1>1, <1>2 DEF ChainFits, Done
<1> QED
  BY <1>1, <1>2, <1>3, <1>4, <1>5 DEF QueueInv, Done

\* The descriptors of a command that has no data.
LEMMA LaidShort ==
  ASSUME NEW command \in Commands \ {"attach", "transfer"}, NEW r, Give(command, Short, r)
  PROVE  Laid'
<1>1. cmd' = command
  BY DEF Give
<1>2. buffers' = [i \in 0..2 |-> IF i \in DOMAIN Short THEN Short[i] ELSE buffers[i]]
  BY DEF Give
<1>3. DOMAIN Short = 0..1 /\ Short[0] = Desc("cmd", {"NEXT"}, 1)
      /\ Short[1] = Desc("resp", {"WRITE"}, buffers[1].next)
  BY DEF Short
<1>4. buffers'[0] = Desc("cmd", {"NEXT"}, 1) /\ buffers'[1] = Desc("resp", {"WRITE"}, buffers[1].next)
  BY <1>2, <1>3
<1>5. buffers'[1].part = "resp" /\ buffers'[1].flags = {"WRITE"}
  BY <1>4 DEF Desc
<1> QED  BY <1>1, <1>4, <1>5 DEF Laid

\* And of one that has.
LEMMA LaidLong ==
  ASSUME NEW command, NEW data, NEW r, Give(command, Long(data), r),
         \/ command = "attach" /\ data = "entry"
         \/ command = "transfer" /\ data = "fb"
  PROVE  Laid'
<1>1. cmd' = command
  BY DEF Give
<1>2. buffers' = [i \in 0..2 |-> IF i \in DOMAIN Long(data) THEN Long(data)[i] ELSE buffers[i]]
  BY DEF Give
<1>3. /\ DOMAIN Long(data) = 0..2 /\ Long(data)[0] = Desc("cmd", {"NEXT"}, 1)
      /\ Long(data)[1] = Desc(data, {"NEXT"}, 2)
      /\ Long(data)[2] = Desc("resp", {"WRITE"}, buffers[2].next)
  BY DEF Long
<1>4. /\ buffers'[0] = Desc("cmd", {"NEXT"}, 1) /\ buffers'[1] = Desc(data, {"NEXT"}, 2)
      /\ buffers'[2] = Desc("resp", {"WRITE"}, buffers[2].next)
  BY <1>2, <1>3
<1>5. buffers'[2].part = "resp" /\ buffers'[2].flags = {"WRITE"}
  BY <1>4 DEF Desc
<1> QED  BY <1>1, <1>4, <1>5 DEF Laid

\* The chain that starts at the descriptors of a command.
LEMMA LaidChain ==
  ASSUME Laid
  PROVE  Chain = CASE cmd = "attach"   -> <<"cmd", "entry", "resp">>
                   [] cmd = "transfer" -> <<"cmd", "fb", "resp">>
                   [] OTHER            -> <<"cmd", "resp">>
<1>1. buffers[0].part = "cmd" /\ buffers[0].flags = {"NEXT"} /\ buffers[0].next = 1
  BY DEF Laid, Desc
<1>2. CASE cmd \notin {"attach", "transfer"}
  <2>1. buffers[1].part = "resp" /\ buffers[1].flags = {"WRITE"}
    BY <1>2 DEF Laid
  <2>2. Chain = <<"cmd", "resp">>
    BY <1>1, <2>1 DEF Chain
  <2> QED  BY <1>2, <2>2
<1>3. ASSUME NEW data, buffers[1] = Desc(data, {"NEXT"}, 2),
             buffers[2].part = "resp"
      PROVE  Chain = <<"cmd", data, "resp">>
  <2>1. buffers[1].part = data /\ buffers[1].flags = {"NEXT"} /\ buffers[1].next = 2
    BY <1>3 DEF Desc
  <2> QED  BY <1>1, <1>3, <2>1 DEF Chain
<1>4. CASE cmd = "attach"
  <2>1. buffers[1] = Desc("entry", {"NEXT"}, 2) /\ buffers[2].part = "resp"
    BY <1>4 DEF Laid
  <2>2. Chain = <<"cmd", "entry", "resp">>
    BY <1>3, <2>1
  <2> QED  BY <1>4, <2>2
<1>5. CASE cmd = "transfer"
  <2>1. buffers[1] = Desc("fb", {"NEXT"}, 2) /\ buffers[2].part = "resp"
    BY <1>5 DEF Laid
  <2>2. Chain = <<"cmd", "fb", "resp">>
    BY <1>3, <2>1
  <2> QED  BY <1>5, <2>2
<1> QED  BY <1>2, <1>4, <1>5

\* Steps that leave the queue and the device alone, between two commands.
LEMMA QueueIdle ==
  ASSUME QueueInv, kick = "none", UNCHANGED <<kick, queue, dev>>,
         pc' \in Commands \cup {"probe", "clear", "move", "draw", "panic"}
  PROVE  QueueInv'
BY DEF queue, QueueInv, QueueTypes, Done, ChainFits

LEMMA QueueCount ==
  ASSUME QueueInv, KickCount
  PROVE  QueueInv'
<1>1. /\ kick = "count" /\ kick' = "wait" /\ last_used_index' = Inc(last_used_index)
      /\ UNCHANGED <<pc, cmd, buffers, avail_idx, used_idx, dev>>
  BY DEF KickCount
<1>2. QueueTypes'
  BY <1>1, IncWraps DEF QueueInv, QueueTypes
<1>3. /\ pc \in Commands /\ cmd = pc /\ Laid /\ (NotTaken \/ Taken \/ Done)
      /\ avail_idx = Inc(last_used_index)
  BY <1>1 DEF QueueInv
<1>4. Laid' /\ (NotTaken \/ Taken \/ Done)'
  BY <1>1, <1>3 DEF Laid, NotTaken, Taken, Done
<1>5. ChainFits'
  BY <1>1 DEF QueueInv, ChainFits
<1> QED  BY <1>1, <1>2, <1>3, <1>4, <1>5 DEF QueueInv

LEMMA QueueAnswered ==
  ASSUME QueueInv, Answered
  PROVE  QueueInv'
<1>1. /\ kick = "wait" /\ kick' = "none" /\ last_used_index = used_idx /\ pc' = After(pc)
      /\ UNCHANGED <<queue, dev>>
  BY DEF Answered, virtq_is_busy
<1>2. /\ pc \in Commands /\ avail_idx = last_used_index /\ (NotTaken \/ Taken \/ Done)
      /\ QueueTypes /\ ChainFits
  BY <1>1 DEF QueueInv
<1>3. avail_idx # Inc(used_idx)
  BY <1>1, <1>2, IncWraps DEF QueueTypes
<1>4. Done
  BY <1>2, <1>3 DEF NotTaken, Taken
<1>5. pc' \in Commands \cup {"clear"}
  BY <1>1, <1>2 DEF After, Commands
<1>6. QueueTypes'
  BY <1>1, <1>2, <1>5 DEF QueueTypes, queue
<1>7. Done' /\ ChainFits' /\ last_used_index' = avail_idx'
  BY <1>1, <1>2, <1>4 DEF Done, ChainFits, queue
<1> QED  BY <1>1, <1>6, <1>7 DEF QueueInv, Done

\* The device only works while the driver is waiting.
LEMMA DeviceWorks ==
  ASSUME QueueInv, DeviceStep
  PROVE  kick # "none" /\ pc \in Commands /\ cmd = pc /\ Laid
<1>1. CASE kick = "none"
  BY <1>1 DEF QueueInv, Done, DeviceStep, DeviceTake, DevicePerform, DeviceRefuse, DeviceUsed
<1> QED  BY <1>1 DEF QueueInv

LEMMA QueueTake ==
  ASSUME QueueInv, DeviceTake
  PROVE  QueueInv'
<1>1. /\ dev.doing = "nothing" /\ dev.idx # avail_idx
      /\ dev' = [doing |-> "command", idx |-> Inc(dev.idx), cmd |-> cmd, chain |-> Chain]
      /\ UNCHANGED <<pc, kick, queue>>
  BY DEF DeviceTake
<1>2. kick # "none" /\ pc \in Commands /\ cmd = pc /\ Laid
  BY DeviceWorks DEF DeviceStep
<1>3. NotTaken /\ QueueTypes
  BY <1>1, <1>2 DEF QueueInv, Taken, Done
<1>4. /\ dev'.doing = "command" /\ dev'.idx = Inc(dev.idx) /\ dev'.cmd = cmd /\ dev'.chain = Chain
      /\ dev' = [doing |-> dev'.doing, idx |-> dev'.idx, cmd |-> dev'.cmd, chain |-> dev'.chain]
  BY <1>1
<1>5. Taken' /\ Laid'
  BY <1>1, <1>2, <1>3, <1>4 DEF NotTaken, Taken, Laid, queue
<1>6. QueueTypes'
  BY <1>1, <1>3, <1>4 DEF QueueTypes, queue
<1>7. ChainFits'
  BY <1>2, <1>4, LaidChain DEF ChainFits
<1> QED  BY <1>1, <1>2, <1>4, <1>5, <1>6, <1>7 DEF QueueInv, queue

\* An answer of either kind.
LEMMA QueueReply ==
  ASSUME QueueInv, dev.doing = "command", dev' = [dev EXCEPT !.doing = "answered"],
         UNCHANGED <<pc, kick, queue>>, DeviceStep
  PROVE  QueueInv'
<1>1. kick # "none" /\ pc \in Commands /\ cmd = pc /\ Laid
  BY DeviceWorks
<1>2. Taken /\ QueueTypes /\ dev.cmd = pc
  BY <1>1 DEF QueueInv, NotTaken, Done
<1>3. /\ dev'.doing = "answered" /\ dev'.idx = dev.idx /\ dev'.cmd = dev.cmd
      /\ dev' = [doing |-> dev'.doing, idx |-> dev'.idx, cmd |-> dev'.cmd, chain |-> dev'.chain]
  BY <1>2 DEF QueueTypes
<1>4. Taken' /\ Laid'
  BY <1>1, <1>2, <1>3 DEF Taken, Laid, queue
<1>5. QueueTypes'
  BY <1>2, <1>3 DEF QueueTypes, queue
<1>6. ChainFits'
  BY <1>3 DEF ChainFits
<1> QED  BY <1>1, <1>2, <1>3, <1>4, <1>5, <1>6 DEF QueueInv, queue

LEMMA QueueUsed ==
  ASSUME QueueInv, DeviceUsed
  PROVE  QueueInv'
<1>1. /\ dev.doing = "answered" /\ used_idx' = Inc(used_idx) /\ dev' = Resting(dev.idx)
      /\ UNCHANGED <<pc, kick, cmd, buffers, avail_idx, last_used_index>>
  BY DEF DeviceUsed
<1>2. kick # "none" /\ pc \in Commands /\ cmd = pc /\ Laid
  BY DeviceWorks DEF DeviceStep
<1>3. Taken /\ QueueTypes
  BY <1>1, <1>2 DEF QueueInv, NotTaken, Done
<1>4. /\ dev'.doing = "nothing" /\ dev'.idx = dev.idx
      /\ dev' = [doing |-> dev'.doing, idx |-> dev'.idx, cmd |-> dev'.cmd, chain |-> dev'.chain]
  BY <1>1 DEF Resting
<1>5. Done' /\ Laid'
  BY <1>1, <1>2, <1>3, <1>4 DEF Taken, Done, Laid
<1>6. QueueTypes'
  BY <1>1, <1>3, <1>4, IncWraps DEF QueueTypes
<1>7. ChainFits'
  BY <1>4 DEF ChainFits
<1> QED  BY <1>1, <1>2, <1>4, <1>5, <1>6, <1>7 DEF QueueInv

LEMMA QueueStep == QueueInv /\ [Next]_vars => QueueInv'
<1> SUFFICES ASSUME QueueInv, [Next]_vars PROVE QueueInv'
  OBVIOUS
<1>1. pc \notin Commands => kick = "none"
  BY DEF QueueInv
<1>2. CASE Probe \/ ClearScreen \/ Move \/ Draw
  <2>1. pc \in {"probe", "clear", "move", "draw"} /\ UNCHANGED <<kick, queue, dev>>
    BY <1>2 DEF Probe, ClearScreen, Move, Draw
  <2>2. pc' \in {"create", "panic", "move", "draw", "transfer"}
    BY <1>2 DEF Probe, ClearScreen, Move, Draw
  <2> QED  BY <1>1, <2>1, <2>2, QueueIdle DEF Commands
<1>3. CASE Create2d
  BY <1>3, LaidShort, QueueGive DEF Create2d, Commands
<1>4. CASE AttachBacking
  BY <1>4, LaidLong, QueueGive DEF AttachBacking, Commands
<1>5. CASE SetScanout
  BY <1>5, LaidShort, QueueGive DEF SetScanout, Commands
<1>6. CASE Transfer
  BY <1>6, LaidLong, QueueGive DEF Transfer, Commands
<1>7. CASE Flush
  BY <1>7, LaidShort, QueueGive DEF Flush, Commands
<1>8. CASE KickCount
  BY <1>8, QueueCount
<1>9. CASE Answered
  BY <1>9, QueueAnswered
<1>10. CASE DeviceTake
  BY <1>10, QueueTake
<1>11. CASE DevicePerform
  BY <1>11, QueueReply DEF DevicePerform, DeviceStep
<1>12. CASE DeviceRefuse
  BY <1>12, QueueReply DEF DeviceRefuse, DeviceStep
<1>13. CASE DeviceUsed
  BY <1>13, QueueUsed
<1>14. CASE UNCHANGED vars
  BY <1>14 DEF vars, queue, QueueInv, QueueTypes, Laid, NotTaken, Taken, Done, ChainFits
<1> QED
  BY <1>2, <1>3, <1>4, <1>5, <1>6, <1>7, <1>8, <1>9, <1>10, <1>11, <1>12, <1>13, <1>14
     DEF Next, DriverStep, virtio_gpu_init, bounce, DeviceStep, Panicked

\* However late the device looks at the descriptors and at whichever point the
\* ring indices wrap, the chain it finds is the one its command needs: the next
\* command only stores to them after the answer. As everywhere in VirtioGpu, the
\* stores of Give become visible in program order: virtq_kick has no barrier
\* before avail.idx++ that would make them.
THEOREM ChainsFit == Spec => []ChainFits
<1>1. QueueInv => ChainFits
  BY DEF QueueInv
<1> QED  BY <1>1, QueueInit, QueueStep, PTL DEF Spec

-----------------------------------------------------------------------------
(* The pictures.                                                           *)

\* What the display may show.
Pictures == {Blank} \cup {Frame(i, j) : i \in 0..(Width - Side), j \in 0..(Height - Side)}

\* The device has answered the command that is being waited for.
HasAnswered == kick # "none" /\ (dev.doing = "answered" \/ Done)

\* What a command that was answered with OK_NODATA has done.
Effect(command) ==
  /\ command = "scanout" => scanout
  /\ command = "transfer" => resource.content = framebuffer
  /\ command = "flush" => (scanout => screen = resource.content)

\* What is drawn at each place of the driver.
DrawnInv ==
  /\ pc \in {"probe", "create", "attach", "scanout"} => framebuffer = Blank
  /\ pc \in {"move", "draw"} => framebuffer = White
  /\ pc \in {"transfer", "flush"} => framebuffer = Frame(x, y)
  /\ pc = "clear" => framebuffer = Blank \/ framebuffer = Frame(x, y)

\* What the warnings that were not printed stand for.
WarnedInv ==
  /\ HasAnswered /\ resp = "ok" => Effect(pc)
  /\ pc \in {"clear", "move", "draw", "transfer", "flush"} /\ "scanout" \notin warned => scanout
  /\ pc = "flush" /\ "transfer" \notin warned => resource.content = framebuffer
  /\ pc = "clear" /\ framebuffer # Blank =>
       /\ "transfer" \notin warned => resource.content = framebuffer
       /\ "flush" \notin warned => (scanout => screen = resource.content)

PictureInv ==
  /\ resource \in [created : BOOLEAN, backed : BOOLEAN, content : Pictures]
  /\ screen \in Pictures
  /\ scanout \in BOOLEAN
  /\ DrawnInv
  /\ WarnedInv

-----------------------------------------------------------------------------
(* What draw_rect draws.                                                   *)

\* Where a pixel of the framebuffer is on the screen.
LEMMA RowAndColumn ==
  ASSUME NEW W \in Nat \ {0}, NEW p \in Nat
  PROVE  /\ p % W \in 0..(W - 1) /\ p \div W \in Nat
         /\ p = W * (p \div W) + (p % W)
OBVIOUS

LEMMA ProductGrows ==
  ASSUME NEW W \in Nat, NEW a \in Nat, NEW b \in Nat, a < b
  PROVE  W * a + W <= W * b
<1>1. W * b = W * a + W * (b - a)
  OBVIOUS
<1>2. W * (b - a) >= W
  OBVIOUS
<1> QED  BY <1>1, <1>2

\* Where set_pixel stores to.
At(col, row) == row * Width + col

\* A row and a column are the coordinates of one pixel only.
LEMMA OnePixel ==
  ASSUME NEW row \in Nat, NEW col \in 0..(Width - 1),
         NEW r \in Nat, NEW c \in 0..(Width - 1), At(col, row) = At(c, r)
  PROVE  row = r /\ col = c
<1> DEFINE W == Width
<1>0. W \in Nat /\ W * row + col = W * r + c
  BY GpuAssumption DEF At
<1> HIDE DEF W
<1>1. W * row \in Nat /\ W * r \in Nat /\ col \in 0..(W - 1) /\ c \in 0..(W - 1)
  BY <1>0 DEF W
<1>2. CASE row < r
  <2>1. W * row + W <= W * r
    BY <1>0, <1>2, ProductGrows
  <2> QED  BY <1>0, <1>1, <2>1
<1>3. CASE r < row
  <2>1. W * r + W <= W * row
    BY <1>0, <1>3, ProductGrows
  <2> QED  BY <1>0, <1>1, <2>1
<1> QED  BY <1>0, <1>1, <1>2, <1>3

\* draw_rect on the cleared screen, for a square that lies on it: a frame.
LEMMA DrawsTheFrame ==
  ASSUME NEW i \in 0..(Width - Side), NEW j \in 0..(Height - Side)
  PROVE  draw_rect(White, U32(i), U32(j), Side, Side, 0, "black") = Frame(i, j)
<1> DEFINE Stored == {At(p[1], p[2]) : p \in Rect(i, j, Side, Side)}
<1>1. /\ i \in Nat /\ j \in Nat /\ Side \in Nat /\ Width \in Nat \ {0} /\ Height \in Nat
      /\ i + Side <= Width /\ j + Side <= Height
      /\ i < UIntMod /\ j < UIntMod /\ i + Side < UIntMod /\ j + Side < UIntMod
  BY GpuAssumption
<1>2. U32(i) = i /\ U32(j) = j
  BY <1>1, U32Small
<1>3. Filled(i, j, Side, Side) = Rect(i, j, Side, Side)
  BY <1>1, FillsTheRectangle
<1>4. Drawn(i, j, Side, Side, 0) = Rect(i, j, Side, Side)
  BY <1>3 DEF Drawn
<1>5. draw_rect(White, U32(i), U32(j), Side, Side, 0, "black") =
        [p \in Pixels |-> IF p \in Stored THEN "black" ELSE "white"]
  BY <1>2, <1>4, Zenon DEF draw_rect, White, At
<1>6. ASSUME NEW p \in Pixels
      PROVE  p \in Stored <=>
               /\ p % Width \in i .. (i + Side - 1)
               /\ p \div Width \in j .. (j + Side - 1)
  <2>0. p \in Nat
    BY DEF Pixels
  <2> DEFINE col == p % Width
             row == p \div Width
  <2>1. col \in 0..(Width - 1) /\ row \in Nat /\ p = Width * row + col
    BY <1>1, <2>0, RowAndColumn
  <2> HIDE DEF col, row
  <2>2. col \in 0..(Width - 1) /\ row \in Nat /\ p = At(col, row)
    BY <1>1, <2>1 DEF At
  <2>3. ASSUME p \in Stored
        PROVE  col \in i .. (i + Side - 1) /\ row \in j .. (j + Side - 1)
    <3>1. PICK q \in Rect(i, j, Side, Side) : p = At(q[1], q[2])
      BY <2>3
    <3>2. /\ q[1] \in 0..(Width - 1) /\ q[2] \in 0..(Height - 1)
          /\ i <= q[1] /\ q[1] < i + Side /\ j <= q[2] /\ q[2] < j + Side
      BY <3>1 DEF Rect, Screen
    <3>3. q[2] \in Nat
      BY <1>1, <3>2
    <3>4. row = q[2] /\ col = q[1]
      BY <2>2, <3>1, <3>2, <3>3, OnePixel
    <3> QED  BY <1>1, <3>2, <3>4
  <2>4. ASSUME col \in i .. (i + Side - 1), row \in j .. (j + Side - 1)
        PROVE  p \in Stored
    <3>1. row \in 0..(Height - 1)
      BY <1>1, <2>2, <2>4
    <3>2. <<col, row>> \in Rect(i, j, Side, Side)
      BY <1>1, <2>2, <2>4, <3>1 DEF Rect, Screen
    <3> QED  BY <2>2, <3>2
  <2> QED  BY <2>3, <2>4 DEF col, row
<1> HIDE DEF Stored
<1>7. [p \in Pixels |-> IF p \in Stored THEN "black" ELSE "white"] = Frame(i, j)
  BY <1>6, Zenon DEF Frame
<1> QED  BY <1>5, <1>7

-----------------------------------------------------------------------------
(* What the device copies and what the display shows.                      *)

LEMMA PictureInit == Init => PictureInv
<1> SUFFICES ASSUME Init PROVE PictureInv
  OBVIOUS
<1>1. Blank \in Pictures
  BY DEF Pictures
<1>2. /\ pc = "probe" /\ kick = "none" /\ framebuffer = Blank /\ screen = Blank
      /\ resource = [created |-> FALSE, backed |-> FALSE, content |-> Blank]
  BY DEF Init
<1>3. scanout \in BOOLEAN
  BY Zenon DEF Init
<1>4. resource \in [created : BOOLEAN, backed : BOOLEAN, content : Pictures]
  BY <1>1, <1>2
<1>5. DrawnInv /\ WarnedInv
  BY <1>2 DEF DrawnInv, WarnedInv, HasAnswered
<1> QED  BY <1>1, <1>2, <1>3, <1>4, <1>5 DEF PictureInv

\* A frame with the square on the screen is a picture.
LEMMA FramePicture == SquareInv => Frame(x, y) \in Pictures
BY DEF SquareInv, SquareInside, Pictures

\* A command has just been given out, or the device has just looked at it.
LEMMA PictureUnanswered ==
  ASSUME PictureInv, UNCHANGED <<pc, framebuffer, warned, display, animation>>,
         ~ HasAnswered'
  PROVE  PictureInv'
<1>1. DrawnInv'
  BY DEF PictureInv, DrawnInv, animation
<1>2. WarnedInv'
  BY DEF PictureInv, WarnedInv, display
<1> QED  BY <1>1, <1>2 DEF PictureInv, display

LEMMA PictureGive ==
  ASSUME PictureInv, QueueInv, NEW command, NEW d, NEW r, Give(command, d, r),
         UNCHANGED framebuffer
  PROVE  PictureInv'
<1>1. /\ kick = "none" /\ avail_idx' = Inc(avail_idx) /\ dev' = dev /\ used_idx' = used_idx
      /\ UNCHANGED <<pc, warned, display, animation>>
  BY DEF Give
<1>2. Done /\ avail_idx \in Indices
  BY <1>1 DEF QueueInv, QueueTypes
<1>3. ~ HasAnswered'
  BY <1>1, <1>2, IncWraps DEF HasAnswered, Done
<1> QED  BY <1>1, <1>3, PictureUnanswered

\* The drawing, between two commands.
LEMMA PictureDraw ==
  ASSUME PictureInv, QueueInv, SquareInv, ClearScreen \/ Move \/ Draw \/ Probe
  PROVE  PictureInv'
<1>1. UNCHANGED <<kick, warned, display>>
  BY DEF ClearScreen, Move, Draw, Probe
<1>2. pc \notin Commands
  BY DEF ClearScreen, Move, Draw, Probe, Commands
<1>3. kick' = "none"
  BY <1>1, <1>2 DEF QueueInv
<1>4. DrawnInv'
  <2>1. CASE Probe
    BY <2>1 DEF Probe, PictureInv, DrawnInv
  <2>2. CASE ClearScreen
    BY <2>2 DEF ClearScreen, PictureInv, DrawnInv
  <2>3. CASE Move
    BY <2>3 DEF Move, PictureInv, DrawnInv
  <2>4. CASE Draw
    <3>1. framebuffer = White
      BY <2>4 DEF Draw, PictureInv, DrawnInv
    <3>2. framebuffer' = Frame(x, y) /\ pc' = "transfer" /\ x' = x /\ y' = y
      BY <2>4, <3>1, DrawsTheFrame DEF Draw, SquareInv, SquareInside, animation
    <3> QED  BY <3>2 DEF DrawnInv
  <2> QED  BY <2>1, <2>2, <2>3, <2>4
<1>5. WarnedInv'
  <2>1. ~ HasAnswered'
    BY <1>3 DEF HasAnswered
  <2>2. pc' \in {"create", "panic", "move", "draw", "transfer"}
    BY DEF ClearScreen, Move, Draw, Probe
  <2>3. pc' \in {"move", "draw", "transfer"} => pc \in {"clear", "move", "draw"}
    BY DEF ClearScreen, Move, Draw, Probe
  <2> QED  BY <1>1, <2>1, <2>2, <2>3, Zenon DEF PictureInv, WarnedInv, display
<1> QED  BY <1>1, <1>4, <1>5 DEF PictureInv, display

LEMMA PictureAnswered ==
  ASSUME PictureInv, QueueInv, Answered
  PROVE  PictureInv'
<1>1. /\ kick = "wait" /\ kick' = "none" /\ last_used_index = used_idx /\ pc' = After(pc)
      /\ warned' = IF resp = "ok" THEN warned \ {pc} ELSE warned \cup {pc}
      /\ UNCHANGED <<framebuffer, display, animation, dev>>
  BY DEF Answered, virtq_is_busy
<1>2. pc \in Commands /\ avail_idx = last_used_index /\ used_idx \in Indices
  BY <1>1 DEF QueueInv, QueueTypes
<1>3. avail_idx # Inc(used_idx)
  BY <1>1, <1>2, IncWraps
<1>4. Done
  BY <1>1, <1>3 DEF QueueInv, NotTaken, Taken
<1>5. resp = "ok" => Effect(pc)
  BY <1>1, <1>4 DEF HasAnswered, PictureInv, WarnedInv
<1>6. /\ pc = "create" => pc' = "attach"
      /\ pc = "attach" => pc' = "scanout"
      /\ pc = "scanout" => pc' = "clear"
      /\ pc = "transfer" => pc' = "flush"
      /\ pc = "flush" => pc' = "clear"
  BY <1>1 DEF After
<1>7. DrawnInv'
  BY <1>1, <1>2, <1>6 DEF PictureInv, DrawnInv, animation, Commands
<1>8. pc \notin warned' => resp = "ok"
  BY <1>1
<1>9. \A c : c # pc /\ c \notin warned' => c \notin warned
  BY <1>1
<1>10. framebuffer' = framebuffer /\ resource' = resource /\ scanout' = scanout /\ screen' = screen
  BY <1>1 DEF display
<1>11. WarnedInv'
  <2>1. CASE pc \in {"create", "attach"}
    BY <1>1, <1>6, <2>1 DEF WarnedInv, HasAnswered
  <2>2. CASE pc = "scanout"
    <3>1. framebuffer = Blank
      BY <2>2 DEF PictureInv, DrawnInv
    <3>2. "scanout" \notin warned' => scanout
      BY <1>5, <1>8, <2>2 DEF Effect
    <3> QED  BY <1>1, <1>6, <1>10, <2>2, <3>1, <3>2, Zenon DEF WarnedInv, HasAnswered
  <2>3. CASE pc = "transfer"
    <3>1. "transfer" \notin warned' => resource.content = framebuffer
      BY <1>5, <1>8, <2>3 DEF Effect
    <3>2. "scanout" \notin warned' => scanout
      BY <1>9, <2>3 DEF PictureInv, WarnedInv
    <3>3. pc' = "flush"
      BY <1>6, <2>3
    <3> QED  BY <1>1, <1>10, <3>1, <3>2, <3>3, Zenon DEF WarnedInv, HasAnswered
  <2>4. CASE pc = "flush"
    <3>1. "flush" \notin warned' => (scanout => screen = resource.content)
      BY <1>5, <1>8, <2>4 DEF Effect
    <3>2. "scanout" \notin warned' => scanout
      BY <1>9, <2>4 DEF PictureInv, WarnedInv
    <3>3. "transfer" \notin warned' => resource.content = framebuffer
      BY <1>9, <2>4 DEF PictureInv, WarnedInv
    <3>4. pc' = "clear"
      BY <1>6, <2>4
    <3> QED  BY <1>1, <1>10, <3>1, <3>2, <3>3, <3>4, Zenon DEF WarnedInv, HasAnswered
  <2> QED  BY <1>2, <2>1, <2>2, <2>3, <2>4 DEF Commands
<1> QED  BY <1>7, <1>10, <1>11 DEF PictureInv

LEMMA PicturePerform ==
  ASSUME PictureInv, QueueInv, SquareInv, DevicePerform
  PROVE  PictureInv'
<1>1. /\ dev.doing = "command" /\ UNCHANGED <<pc, kick, framebuffer, warned, animation>>
      /\ scanout' = (scanout \/ dev.cmd = "scanout")
      /\ screen' = IF dev.cmd = "flush" /\ scanout THEN resource.content ELSE screen
  BY DEF DevicePerform
<1>2. pc \in Commands /\ dev.cmd = pc
  BY <1>1, DeviceWorks DEF DeviceStep, QueueInv
<1>3. resource \in [created : BOOLEAN, backed : BOOLEAN, content : Pictures]
  BY DEF PictureInv
<1>4. pc = "transfer" => framebuffer \in Pictures
  BY FramePicture DEF PictureInv, DrawnInv
<1>5. /\ resource' \in [created : BOOLEAN, backed : BOOLEAN, content : Pictures]
      /\ pc = "transfer" => resource'.content = framebuffer
      /\ pc # "transfer" => resource'.content = resource.content
  <2>1. CASE pc = "create"
    BY <1>2, <1>3, <2>1 DEF DevicePerform
  <2>2. CASE pc = "attach"
    BY <1>2, <1>3, <2>2 DEF DevicePerform
  <2>3. CASE pc = "transfer"
    BY <1>2, <1>3, <1>4, <2>3 DEF DevicePerform
  <2>4. CASE pc \in {"scanout", "flush"}
    BY <1>2, <1>3, <2>4 DEF DevicePerform
  <2> QED  BY <1>2, <2>1, <2>2, <2>3, <2>4 DEF Commands
<1>6. screen' \in Pictures
  BY <1>1, <1>3 DEF PictureInv
<1>7. scanout' \in BOOLEAN /\ (scanout => scanout') /\ (pc = "scanout" => scanout')
  BY <1>1, <1>2, Zenon DEF PictureInv
<1>8. pc = "flush" => (scanout' = scanout /\ (scanout => screen' = resource.content))
  <2> SUFFICES ASSUME pc = "flush" PROVE scanout' = scanout /\ (scanout => screen' = resource.content)
    OBVIOUS
  <2>1. dev.cmd = "flush" /\ dev.cmd # "scanout"
    BY <1>2
  <2>2. scanout \in BOOLEAN
    BY DEF PictureInv
  <2> QED  BY <1>1, <2>1, <2>2, Zenon
<1>9. Effect(pc)'
  BY <1>1, <1>5, <1>7, <1>8, Zenon DEF Effect
<1>10. pc = "flush" /\ "transfer" \notin warned => resource'.content = framebuffer
  BY <1>5 DEF PictureInv, WarnedInv
<1>11. pc \in {"clear", "move", "draw", "transfer", "flush"} /\ "scanout" \notin warned => scanout'
  BY <1>7, Zenon DEF PictureInv, WarnedInv
<1>12. pc # "clear"
  BY <1>2 DEF Commands
<1>13. WarnedInv'
  BY <1>1, <1>9, <1>10, <1>11, <1>12, Zenon DEF WarnedInv
<1>14. DrawnInv'
  BY <1>1 DEF PictureInv, DrawnInv, animation
<1> QED  BY <1>5, <1>6, <1>7, <1>13, <1>14, Zenon DEF PictureInv

LEMMA PictureStep == PictureInv /\ QueueInv /\ SquareInv /\ [Next]_vars => PictureInv'
<1> SUFFICES ASSUME PictureInv, QueueInv, SquareInv, [Next]_vars PROVE PictureInv'
  OBVIOUS
<1>1. CASE Probe \/ ClearScreen \/ Move \/ Draw
  BY <1>1, PictureDraw
<1>2. CASE Create2d \/ AttachBacking \/ SetScanout \/ Transfer \/ Flush
  BY <1>2, PictureGive DEF Create2d, AttachBacking, SetScanout, Transfer, Flush
<1>3. CASE KickCount
  <2>1. /\ HasAnswered' <=> HasAnswered
        /\ UNCHANGED <<pc, framebuffer, resp, warned, display, animation>>
    BY <1>3 DEF KickCount, HasAnswered, Done
  <2>2. Effect(pc)' <=> Effect(pc)
    BY <2>1, Zenon DEF Effect, display
  <2>3. WarnedInv'
    BY <2>1, <2>2, Zenon DEF PictureInv, WarnedInv, display
  <2> QED  BY <2>1, <2>3 DEF PictureInv, DrawnInv, display, animation
<1>4. CASE Answered
  BY <1>4, PictureAnswered
<1>5. CASE DeviceTake
  <2>1. ~ HasAnswered' /\ UNCHANGED <<pc, framebuffer, warned, display, animation>>
    BY <1>5 DEF DeviceTake, HasAnswered, Done
  <2> QED  BY <2>1, PictureUnanswered
<1>6. CASE DevicePerform
  BY <1>6, PicturePerform
<1>7. CASE DeviceRefuse
  <2>1. resp' = "error" /\ UNCHANGED <<pc, framebuffer, warned, display, animation>>
    BY <1>7 DEF DeviceRefuse
  <2>2. WarnedInv'
    BY <2>1 DEF PictureInv, WarnedInv, display
  <2> QED  BY <2>1, <2>2 DEF PictureInv, DrawnInv, display, animation
<1>8. CASE DeviceUsed
  <2>1. HasAnswered /\ UNCHANGED <<pc, framebuffer, resp, warned, display, animation>>
    BY <1>8, DeviceWorks DEF DeviceUsed, HasAnswered, DeviceStep
  <2>2. Effect(pc)' <=> Effect(pc)
    BY <2>1, Zenon DEF Effect, display
  <2>3. WarnedInv'
    BY <2>1, <2>2, Zenon DEF PictureInv, WarnedInv, display
  <2> QED  BY <2>1, <2>3 DEF PictureInv, DrawnInv, display, animation
<1>9. CASE UNCHANGED vars
  <2>1. UNCHANGED <<pc, kick, dev, queue, framebuffer, resp, warned, display, animation>>
    BY <1>9 DEF vars
  <2>2. (Effect(pc)' <=> Effect(pc)) /\ (HasAnswered' <=> HasAnswered)
    BY <2>1, Zenon DEF Effect, HasAnswered, Done, display, queue
  <2>3. WarnedInv'
    BY <2>1, <2>2, Zenon DEF PictureInv, WarnedInv, display
  <2> QED  BY <2>1, <2>3 DEF PictureInv, DrawnInv, display, animation
<1> QED
  BY <1>1, <1>2, <1>3, <1>4, <1>5, <1>6, <1>7, <1>8, <1>9
     DEF Next, DriverStep, virtio_gpu_init, bounce, DeviceStep, Panicked

LEMMA DisplayInvariant == Spec => [](PictureInv /\ QueueInv /\ SquareInv)
<1>1. Init => PictureInv /\ QueueInv /\ SquareInv
  BY PictureInit, QueueInit, SquareInit
<1>2. PictureInv /\ QueueInv /\ SquareInv /\ [Next]_vars => (PictureInv /\ QueueInv /\ SquareInv)'
  BY PictureStep, QueueStep, SquareStep
<1> QED  BY <1>1, <1>2, PTL DEF Spec

\* Whatever the device answers and whenever, the display is blank or shows a
\* whole frame: the framebuffer that is copied for transfer is always one that
\* bounce has finished, since flush waits for the answer. Under the premise of
\* ChainsFit, that the stores of Give become visible in program order.
THEOREM NeverTorn == Spec => []NoTearing
<1>1. PictureInv => NoTearing
  BY DEF PictureInv, Pictures, NoTearing
<1> QED  BY <1>1, DisplayInvariant, PTL

\* When bounce returns to clear_screen and none of the commands the picture
\* depends on was warned about, the display shows the framebuffer, with the
\* square where it was moved to. A warning not printed is so an effect that the
\* device has had. Under the premise of ChainsFit, that the stores of Give become
\* visible in program order.
THEOREM FlushShows == Spec => []FlushShowsFrame
<1>1. PictureInv => FlushShowsFrame
  <2> SUFFICES ASSUME PictureInv, pc = "clear", framebuffer # Blank,
                      warned \cap {"scanout", "transfer", "flush"} = {}
               PROVE  screen = framebuffer /\ framebuffer = Frame(x, y)
    BY DEF FlushShowsFrame
  <2>1. "scanout" \notin warned /\ "transfer" \notin warned /\ "flush" \notin warned
    OBVIOUS
  <2>2. scanout
    BY <2>1 DEF PictureInv, WarnedInv
  <2>3. resource.content = framebuffer /\ screen = resource.content
    BY <2>1, <2>2, Zenon DEF PictureInv, WarnedInv
  <2> QED  BY <2>3 DEF PictureInv, DrawnInv
<1> QED  BY <1>1, DisplayInvariant, PTL
=============================================================================
