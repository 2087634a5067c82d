------------------------- MODULE SmallProgramProofs -------------------------
(***************************************************************************)
(* Theorems of four small programs that know nothing of each other.  The   *)
(* firmware ring buffer and the RTL fifo implement the bounded FIFO for    *)
(* every capacity and every set of items, the fixed-point filter stays in  *)
(* the range of its inputs for every width, weight and sequence of         *)
(* samples, and the summary of the trajectory program describes its file   *)
(* for every file.                                                         *)
(***************************************************************************)
EXTENDS MCDevices, TrajectoryGraph, QueueFacts, FiniteSetTheorems, TLAPS

-----------------------------------------------------------------------------
(* A ring of C slots: the n items from slot h on.                          *)

Place(C, h, k) == IF h + k < C THEN h + k ELSE h + k - C

RingSeq(C, f, h, n) == [k \in 1..n |-> f[(h + k - 1) % C]]

\* The remainder of an index that is at most one round ahead.
LEMMA SmallMod ==
    ASSUME NEW C \in Nat \ {0}, NEW h \in 0..(C - 1), NEW k \in 0..C
    PROVE  (h + k) % C = Place(C, h, k) /\ Place(C, h, k) \in 0..(C - 1)
<1>1. /\ h + k < C => (h + k) % C = h + k
      /\ h + k >= C => (h + k) % C = h + k - C
  OBVIOUS
<1> QED BY <1>1 DEF Place

\* The contents of the ring, item by item.
LEMMA RingFacts ==
    ASSUME NEW C \in Nat \ {0}, NEW f \in [0..(C - 1) -> Item],
           NEW h \in 0..(C - 1), NEW n \in 0..C
    PROVE  /\ RingSeq(C, f, h, n) \in Seq(Item)
           /\ Len(RingSeq(C, f, h, n)) = n
           /\ \A k \in 1..n : RingSeq(C, f, h, n)[k] = f[Place(C, h, k - 1)]
<1>1. ASSUME NEW k \in 1..n
      PROVE  /\ f[(h + k - 1) % C] = f[Place(C, h, k - 1)]
             /\ f[(h + k - 1) % C] \in Item
  <2>1. k - 1 \in 0..C /\ h + k - 1 = h + (k - 1)
    OBVIOUS
  <2>2. (h + (k - 1)) % C = Place(C, h, k - 1) /\ Place(C, h, k - 1) \in 0..(C - 1)
    BY <2>1, SmallMod
  <2> QED BY <2>1, <2>2
<1>2. RingSeq(C, f, h, n) \in Seq(Item) /\ Len(RingSeq(C, f, h, n)) = n
  <2>1. \A k \in 1..n : f[(h + k - 1) % C] \in Item
    BY <1>1
  <2> QED BY <2>1 DEF RingSeq
<1>3. \A k \in 1..n : RingSeq(C, f, h, n)[k] = f[(h + k - 1) % C]
  BY DEF RingSeq
<1> QED BY <1>1, <1>2, <1>3

\* An item stored behind the last one is appended.
LEMMA RingPush ==
    ASSUME NEW C \in Nat \ {0}, NEW f \in [0..(C - 1) -> Item],
           NEW h \in 0..(C - 1), NEW n \in 0..(C - 1), NEW x \in Item
    PROVE  RingSeq(C, [f EXCEPT ![(h + n) % C] = x], h, n + 1) = Append(RingSeq(C, f, h, n), x)
<1> DEFINE g == [f EXCEPT ![(h + n) % C] = x]
<1>1. n \in 0..C /\ n + 1 \in 0..C /\ n \in Nat
  OBVIOUS
<1>2. (h + n) % C = Place(C, h, n) /\ Place(C, h, n) \in 0..(C - 1)
  BY <1>1, SmallMod
<1>3. /\ g \in [0..(C - 1) -> Item] /\ g[Place(C, h, n)] = x
      /\ \A j \in 0..(C - 1) : j # Place(C, h, n) => g[j] = f[j]
  BY <1>2
<1> HIDE DEF g
<1> DEFINE s == RingSeq(C, f, h, n)
           t == RingSeq(C, g, h, n + 1)
<1>4. /\ s \in Seq(Item) /\ Len(s) = n
      /\ \A k \in 1..n : s[k] = f[Place(C, h, k - 1)]
  BY <1>1, RingFacts
<1>5. /\ t \in Seq(Item) /\ Len(t) = n + 1
      /\ \A k \in 1..(n + 1) : t[k] = g[Place(C, h, k - 1)]
  BY <1>1, <1>3, RingFacts
<1>6. ASSUME NEW k \in 1..n PROVE t[k] = s[k]
  <2>1. Place(C, h, k - 1) # Place(C, h, n) /\ Place(C, h, k - 1) \in 0..(C - 1)
    BY DEF Place
  <2>2. k \in 1..(n + 1)
    OBVIOUS
  <2> QED BY <1>3, <1>4, <1>5, <2>1, <2>2
<1>7. t[n + 1] = x
  <2>1. n + 1 \in 1..(n + 1) /\ (n + 1) - 1 = n
    BY <1>1
  <2> QED BY <1>3, <1>5, <2>1
<1> HIDE DEF s, t
<1>8. t = Append(s, x)
  BY <1>1, <1>4, <1>5, <1>6, <1>7
<1> QED BY <1>8 DEF g, s, t

\* Moving the start one slot on removes the first item.
LEMMA RingPop ==
    ASSUME NEW C \in Nat \ {0}, NEW f \in [0..(C - 1) -> Item],
           NEW h \in 0..(C - 1), NEW n \in 1..C
    PROVE  /\ (h + 1) % C \in 0..(C - 1)
           /\ RingSeq(C, f, h, n) # <<>>
           /\ Head(RingSeq(C, f, h, n)) = f[h]
           /\ RingSeq(C, f, (h + 1) % C, n - 1) = Tail(RingSeq(C, f, h, n))
           /\ (((h + 1) % C) + (n - 1)) % C = (h + n) % C
<1>1. n \in 0..C /\ n - 1 \in 0..C /\ 1 \in 0..C /\ n \in Nat
  OBVIOUS
<1> DEFINE b == (h + 1) % C
<1>2. b = Place(C, h, 1) /\ b \in 0..(C - 1)
  BY <1>1, SmallMod
<1> HIDE DEF b
<1> DEFINE s == RingSeq(C, f, h, n)
           t == RingSeq(C, f, b, n - 1)
<1>3. /\ s \in Seq(Item) /\ Len(s) = n
      /\ \A k \in 1..n : s[k] = f[Place(C, h, k - 1)]
  BY <1>1, RingFacts
<1>4. /\ t \in Seq(Item) /\ Len(t) = n - 1
      /\ \A k \in 1..(n - 1) : t[k] = f[Place(C, b, k - 1)]
  BY <1>1, <1>2, RingFacts
<1>5. ASSUME NEW k \in 1..(n - 1) PROVE t[k] = s[k + 1]
  <2>1. Place(C, b, k - 1) = Place(C, h, k)
    BY <1>1, <1>2 DEF Place
  <2>2. k + 1 \in 1..n /\ (k + 1) - 1 = k
    BY <1>1
  <2> QED BY <1>3, <1>4, <2>1, <2>2
<1>6. s[1] = f[h]
  <2>1. Place(C, h, 1 - 1) = h /\ 1 \in 1..n
    BY <1>1 DEF Place
  <2> QED BY <1>3, <2>1
<1>7. (b + (n - 1)) % C = (h + n) % C
  <2>1. (b + (n - 1)) % C = Place(C, b, n - 1) /\ (h + n) % C = Place(C, h, n)
    BY <1>1, <1>2, SmallMod
  <2>2. Place(C, b, n - 1) = Place(C, h, n)
    BY <1>1, <1>2 DEF Place
  <2> QED BY <2>1, <2>2
<1> HIDE DEF s, t
<1>8. s # <<>> /\ Head(s) = f[h] /\ t = Tail(s)
  BY <1>1, <1>3, <1>4, <1>5, <1>6
<1> QED BY <1>2, <1>7, <1>8 DEF b, s, t

\* One slot behind the last item is where the next but one goes.
LEMMA WriteSide ==
    ASSUME NEW C \in Nat \ {0}, NEW h \in 0..(C - 1), NEW n \in 0..(C - 1)
    PROVE  (((h + n) % C) + 1) % C = (h + (n + 1)) % C
<1>1. n \in 0..C /\ n + 1 \in 0..C /\ 1 \in 0..C
  OBVIOUS
<1>2. /\ (h + n) % C = Place(C, h, n) /\ Place(C, h, n) \in 0..(C - 1)
      /\ (h + (n + 1)) % C = Place(C, h, n + 1)
  BY <1>1, SmallMod
<1>3. (Place(C, h, n) + 1) % C = Place(C, Place(C, h, n), 1)
  BY <1>1, <1>2, SmallMod
<1>4. Place(C, Place(C, h, n), 1) = Place(C, h, n + 1)
  BY <1>1 DEF Place
<1> QED BY <1>2, <1>3, <1>4
-----------------------------------------------------------------------------
(* The firmware ring buffer.                                               *)

RingInv ==
    /\ data \in [0..(FW_RING_BUFFER_CAPACITY - 1) -> Item]
    /\ head \in 0..(FW_RING_BUFFER_CAPACITY - 1)
    /\ count \in 0..FW_RING_BUFFER_CAPACITY
    /\ tail = (head + count) % FW_RING_BUFFER_CAPACITY

\* The constants of the three devices.
LEMMA Constants ==
    /\ Item # {} /\ FW_RING_BUFFER_CAPACITY \in Nat \ {0}
    /\ DEPTH \in Nat \ {0, 1} /\ DEPTH = Rtl!PtrValues
    /\ Rtl!CountValues \in Nat /\ Rtl!CountValues > DEPTH
BY DeviceConstants DEF Ring!FwRingBufferConstants, Rtl!RtlFifoConstants

\* The empty ring is the empty FIFO.
LEMMA RingInit == DevicesInit => RingInv /\ Ring!Fifo!Init
<1> SUFFICES ASSUME DevicesInit PROVE RingInv /\ Ring!Fifo!Init
  OBVIOUS
<1>1. Ring!Init
  BY DEF DevicesInit, RingRests
<1>2. FW_RING_BUFFER_CAPACITY \in Nat \ {0}
  BY Constants
<1>3. (0 + 0) % FW_RING_BUFFER_CAPACITY = 0 /\ 0 \in 0..(FW_RING_BUFFER_CAPACITY - 1)
      /\ 0 \in 0..FW_RING_BUFFER_CAPACITY
  BY <1>2
<1>4. RingInv
  BY <1>1, <1>3 DEF RingInv, Ring!Init, Ring!Slots
<1>5. Ring!Contents = <<>>
  BY <1>1 DEF Ring!Init, Ring!Contents
<1> QED
  BY <1>1, <1>4, <1>5 DEF Ring!Init, Ring!Fifo!Init, Ring!NoReply, Ring!Fifo!NoReply

\* Each call is a request to the FIFO with the same answer.
LEMMA RingSteps ==
    ASSUME RingInv, Ring!Next \/ UNCHANGED ringVars
    PROVE  RingInv' /\ [Ring!Fifo!Next]_<<Ring!Contents, reply>>
<1> DEFINE C == FW_RING_BUFFER_CAPACITY
           s == Ring!Contents
<1>1. /\ C \in Nat \ {0} /\ data \in [0..(C - 1) -> Item] /\ head \in 0..(C - 1)
      /\ count \in 0..C /\ tail = (head + count) % C /\ count \in Nat
  BY Constants DEF RingInv
<1>2. s = RingSeq(C, data, head, count)
  BY DEF Ring!Contents, RingSeq
<1>3. Ring!Contents' = RingSeq(C, data', head', count')
  BY DEF Ring!Contents, RingSeq
<1>4. s \in Seq(Item) /\ Len(s) = count
  BY <1>1, <1>2, RingFacts
<1>5. (s = <<>> <=> count = 0) /\ (Len(s) >= C <=> count = C)
  BY <1>1, <1>4
<1>6. ASSUME UNCHANGED <<data, head, tail, count>>
      PROVE  RingInv' /\ Ring!Contents' = s
  BY <1>2, <1>3, <1>6 DEF RingInv
<1>7. ASSUME NEW push \in BOOLEAN, NEW pop \in BOOLEAN, NEW v \in Item,
             Ring!Fifo!Request(push, pop, v)
      PROVE  Ring!Fifo!Next
  BY <1>7 DEF Ring!Fifo!Next
<1>8. CASE UNCHANGED ringVars
  BY <1>6, <1>8 DEF ringVars
<1>9. ASSUME NEW value \in Item, Ring!fw_ring_buffer_push(value)
      PROVE  RingInv' /\ Ring!Fifo!Next
  <2>1. CASE Ring!fw_ring_buffer_is_full
    <3>1. /\ count = C /\ UNCHANGED <<data, head, tail, count>>
          /\ reply' = [pushed |-> FALSE, popped |-> <<>>]
      BY <1>9, <2>1 DEF Ring!fw_ring_buffer_push, Ring!fw_ring_buffer_is_full, Ring!NoReply
    <3>2. Ring!Contents' = s \o <<>>
      BY <1>4, <1>6, <3>1
    <3>3. Ring!Fifo!Request(TRUE, FALSE, value)
      BY <1>5, <3>1, <3>2 DEF Ring!Fifo!Request, Ring!Fifo!full, Ring!Fifo!empty
    <3> QED BY <1>6, <1>7, <3>1, <3>3
  <2>2. CASE ~Ring!fw_ring_buffer_is_full
    <3>1. /\ count # C /\ data' = [data EXCEPT ![(head + count) % C] = value]
          /\ tail' = (tail + 1) % C /\ count' = count + 1 /\ head' = head
          /\ reply' = [pushed |-> TRUE, popped |-> <<>>]
      BY <1>1, <1>9, <2>2
         DEF Ring!fw_ring_buffer_push, Ring!fw_ring_buffer_is_full, Ring!Advance
    <3>2. count \in 0..(C - 1) /\ count + 1 \in 0..C /\ 1 \in 0..C
      BY <1>1, <3>1
    <3>3. /\ data' \in [0..(C - 1) -> Item]
          /\ RingSeq(C, data', head, count + 1) = Append(RingSeq(C, data, head, count), value)
      <4>1. data' \in [0..(C - 1) -> Item]
        BY <1>1, <3>1
      <4>2. RingSeq(C, [data EXCEPT ![(head + count) % C] = value], head, count + 1)
              = Append(RingSeq(C, data, head, count), value)
        BY <1>1, <3>2, RingPush
      <4> QED BY <3>1, <4>1, <4>2, Zenon
    <3>4. Ring!Contents' = s \o <<value>>
      <4>1. Append(s, value) = s \o <<value>>
        BY <1>4
      <4> QED BY <1>2, <1>3, <3>1, <3>3, <4>1
    <3>5. (tail + 1) % C = (head + (count + 1)) % C
      BY <1>1, <3>2, WriteSide
    <3>6. RingInv'
      BY <1>1, <3>1, <3>2, <3>3, <3>5 DEF RingInv
    <3>7. Ring!Fifo!Request(TRUE, FALSE, value)
      BY <1>5, <3>1, <3>4 DEF Ring!Fifo!Request, Ring!Fifo!full, Ring!Fifo!empty
    <3> QED BY <1>7, <3>6, <3>7
  <2> QED BY <2>1, <2>2
<1>10. ASSUME Ring!fw_ring_buffer_pop
       PROVE  RingInv' /\ Ring!Fifo!Next
  <2> PICK v \in Item : TRUE
    BY Constants
  <2>1. CASE Ring!fw_ring_buffer_is_empty
    <3>1. /\ count = 0 /\ UNCHANGED <<data, head, tail, count>>
          /\ reply' = [pushed |-> FALSE, popped |-> <<>>]
      BY <1>10, <2>1 DEF Ring!fw_ring_buffer_pop, Ring!fw_ring_buffer_is_empty, Ring!NoReply
    <3>2. Ring!Contents' = s \o <<>>
      BY <1>4, <1>6, <3>1
    <3>3. Ring!Fifo!Request(FALSE, TRUE, v)
      BY <1>5, <3>1, <3>2 DEF Ring!Fifo!Request, Ring!Fifo!full, Ring!Fifo!empty
    <3> QED BY <1>6, <1>7, <3>1, <3>3
  <2>2. CASE ~Ring!fw_ring_buffer_is_empty
    <3>1. /\ count # 0 /\ data' = data /\ tail' = tail
          /\ head' = (head + 1) % C /\ count' = count - 1
          /\ reply' = [pushed |-> FALSE, popped |-> <<data[head]>>]
      BY <1>10, <2>2
         DEF Ring!fw_ring_buffer_pop, Ring!fw_ring_buffer_is_empty, Ring!Advance
    <3>2. count \in 1..C /\ count - 1 \in 0..C
      BY <1>1, <3>1
    <3>3. /\ (head + 1) % C \in 0..(C - 1)
          /\ Head(s) = data[head]
          /\ RingSeq(C, data, (head + 1) % C, count - 1) = Tail(s)
          /\ (((head + 1) % C) + (count - 1)) % C = (head + count) % C
      BY <1>1, <1>2, <3>2, RingPop
    <3>4. Ring!Contents' = Tail(s) \o <<>>
      <4>1. Tail(s) \in Seq(Item)
        BY <1>4, <1>5, <3>1
      <4>2. Tail(s) = Tail(s) \o <<>>
        BY <4>1
      <4> QED BY <1>3, <3>1, <3>3, <4>2
    <3>5. RingInv'
      BY <1>1, <3>1, <3>2, <3>3 DEF RingInv
    <3>6. Ring!Fifo!Request(FALSE, TRUE, v)
      BY <1>5, <3>1, <3>3, <3>4 DEF Ring!Fifo!Request, Ring!Fifo!full, Ring!Fifo!empty
    <3> QED BY <1>7, <3>5, <3>6
  <2> QED BY <2>1, <2>2
<1>11. ASSUME Ring!fw_ring_buffer_init
       PROVE  RingInv' /\ Ring!Fifo!Next
  <2>1. /\ head' = 0 /\ tail' = 0 /\ count' = 0 /\ data' = data /\ reply' = Ring!NoReply
    BY <1>11 DEF Ring!fw_ring_buffer_init
  <2>2. Ring!Contents' = <<>>
    BY <2>1 DEF Ring!Contents
  <2>3. (0 + 0) % C = 0 /\ 0 \in 0..(C - 1) /\ 0 \in 0..C
    BY <1>1
  <2>4. RingInv'
    BY <1>1, <2>1, <2>3 DEF RingInv
  <2>5. Ring!Fifo!Reset
    BY <2>1, <2>2 DEF Ring!Fifo!Reset, Ring!NoReply, Ring!Fifo!NoReply
  <2> QED BY <2>4, <2>5 DEF Ring!Fifo!Next
<1> QED BY <1>8, <1>9, <1>10, <1>11 DEF Ring!Next

\* The ring buffer of ring_buffer.cpp is a bounded FIFO for every capacity and
\* every sequence of pushes, pops and re-initialisations, refused ones too.
THEOREM RingRefinesFifo == DevicesSpec => RingIsFifo
<1>1. DevicesInit => RingInv /\ Ring!Fifo!Init
  BY RingInit
<1>2. RingInv /\ [DevicesNext]_<<device, ringVars, rtlVars, filterVars>>
        => RingInv' /\ [Ring!Fifo!Next]_<<Ring!Contents, reply>>
  <2> SUFFICES ASSUME RingInv, [DevicesNext]_<<device, ringVars, rtlVars, filterVars>>
               PROVE  RingInv' /\ [Ring!Fifo!Next]_<<Ring!Contents, reply>>
    OBVIOUS
  <2>1. Ring!Next \/ UNCHANGED ringVars
    BY DEF DevicesNext, RingStep, RtlStep, FilterStep
  <2> QED BY <2>1, RingSteps
<1> QED BY <1>1, <1>2, PTL DEF DevicesSpec, RingIsFifo, Ring!RingIsFifo, Ring!Fifo!Spec
-----------------------------------------------------------------------------
(* The RTL fifo.                                                           *)

RtlInv ==
    /\ mem \in [0..(DEPTH - 1) -> Item]
    /\ rd_ptr \in 0..(DEPTH - 1)
    /\ words \in 0..DEPTH
    /\ wr_ptr = (rd_ptr + words) % DEPTH

\* After reset the design is the empty FIFO.
LEMMA RtlInit == DevicesInit => RtlInv /\ Rtl!Fifo!Init
<1> SUFFICES ASSUME DevicesInit PROVE RtlInv /\ Rtl!Fifo!Init
  OBVIOUS
<1>1. Rtl!Init
  BY DEF DevicesInit, RtlRests
<1>2. (0 + 0) % DEPTH = 0 /\ 0 \in 0..(DEPTH - 1) /\ 0 \in 0..DEPTH
  BY Constants
<1>3. RtlInv
  BY <1>1, <1>2 DEF RtlInv, Rtl!Init
<1>4. Rtl!Contents = <<>>
  BY <1>1 DEF Rtl!Init, Rtl!Contents
<1> QED
  BY <1>1, <1>3, <1>4 DEF Rtl!Init, Rtl!Fifo!Init, Rtl!NoReply, Rtl!Fifo!NoReply

\* A clock edge is one request to the FIFO, with both strobes at once.
LEMMA RtlSteps ==
    ASSUME RtlInv, Rtl!Next \/ UNCHANGED rtlVars
    PROVE  RtlInv' /\ [Rtl!Fifo!Next]_<<Rtl!Contents, answer>>
<1> DEFINE s == Rtl!Contents
<1>1. /\ DEPTH \in Nat \ {0} /\ mem \in [0..(DEPTH - 1) -> Item]
      /\ rd_ptr \in 0..(DEPTH - 1)
      /\ words \in 0..DEPTH /\ wr_ptr = (rd_ptr + words) % DEPTH /\ words \in Nat
  BY Constants DEF RtlInv
<1>2. s = RingSeq(DEPTH, mem, rd_ptr, words)
  BY DEF Rtl!Contents, RingSeq
<1>3. Rtl!Contents' = RingSeq(DEPTH, mem', rd_ptr', words')
  BY DEF Rtl!Contents, RingSeq
<1>4. s \in Seq(Item) /\ Len(s) = words
  BY <1>1, <1>2, RingFacts
<1>5. (s = <<>> <=> words = 0) /\ (Len(s) >= DEPTH <=> words = DEPTH)
  BY <1>1, <1>4
<1>6. ASSUME UNCHANGED <<mem, rd_ptr, wr_ptr, words>>
      PROVE  RtlInv' /\ Rtl!Contents' = s
  BY <1>2, <1>3, <1>6 DEF RtlInv
<1>7. CASE UNCHANGED rtlVars
  BY <1>6, <1>7 DEF rtlVars
<1>8. ASSUME Rtl!Reset
      PROVE  RtlInv' /\ Rtl!Fifo!Next
  <2>1. rd_ptr' = 0 /\ wr_ptr' = 0 /\ words' = 0 /\ mem' = mem /\ answer' = Rtl!NoReply
    BY <1>8 DEF Rtl!Reset
  <2>2. Rtl!Contents' = <<>>
    BY <2>1 DEF Rtl!Contents
  <2>3. (0 + 0) % DEPTH = 0 /\ 0 \in 0..(DEPTH - 1) /\ 0 \in 0..DEPTH
    BY <1>1
  <2>4. RtlInv'
    BY <1>1, <2>1, <2>3 DEF RtlInv
  <2>5. Rtl!Fifo!Reset
    BY <2>1, <2>2 DEF Rtl!Fifo!Reset, Rtl!NoReply, Rtl!Fifo!NoReply
  <2> QED BY <2>4, <2>5 DEF Rtl!Fifo!Next
<1>9. ASSUME NEW push \in BOOLEAN, NEW pop \in BOOLEAN, NEW v \in Item,
             Rtl!Clock(push, pop, v)
      PROVE  RtlInv' /\ Rtl!Fifo!Next
  <2> DEFINE pushes == push /\ words # DEPTH
             pops   == pop /\ words # 0
  <2>1. /\ mem' = IF pushes THEN [mem EXCEPT ![(rd_ptr + words) % DEPTH] = v] ELSE mem
        /\ wr_ptr' = IF pushes THEN (wr_ptr + 1) % DEPTH ELSE wr_ptr
        /\ rd_ptr' = IF pops THEN (rd_ptr + 1) % DEPTH ELSE rd_ptr
        /\ words' = IF pushes /\ ~pops THEN (words + 1) % Rtl!CountValues
                    ELSE IF pops /\ ~pushes THEN words - 1 ELSE words
        /\ answer' = [pushed |-> pushes, popped |-> IF pops THEN <<mem[rd_ptr]>> ELSE <<>>]
    BY <1>1, <1>9, Constants
       DEF Rtl!Clock, Rtl!full, Rtl!empty, Rtl!NextPtr, Rtl!NextCount, Rtl!data_out
  <2>2. words # DEPTH => (words + 1) % Rtl!CountValues = words + 1
    <3>1. ASSUME NEW k \in Nat, NEW m \in Nat \ {0}, k < m PROVE k % m = k
      BY <3>1
    <3>2. words # DEPTH => words + 1 < Rtl!CountValues
      BY <1>1, Constants
    <3> QED BY <1>1, <3>1, <3>2, Constants
  \* The front of the memory after the pop: its start, its number of words.
  <2> DEFINE h == IF pops THEN (rd_ptr + 1) % DEPTH ELSE rd_ptr
             n == IF pops THEN words - 1 ELSE words
             r == IF pops THEN Tail(s) ELSE s
  <2>3. /\ h \in 0..(DEPTH - 1) /\ n \in 0..DEPTH
        /\ RingSeq(DEPTH, mem, h, n) = r
        /\ (h + n) % DEPTH = (rd_ptr + words) % DEPTH
        /\ pops => Head(s) = mem[rd_ptr]
    <3>1. CASE pops
      <4>1. words \in 1..DEPTH /\ words - 1 \in 0..DEPTH
        BY <1>1, <3>1
      <4>2. /\ (rd_ptr + 1) % DEPTH \in 0..(DEPTH - 1)
            /\ Head(s) = mem[rd_ptr]
            /\ RingSeq(DEPTH, mem, (rd_ptr + 1) % DEPTH, words - 1) = Tail(s)
            /\ (((rd_ptr + 1) % DEPTH) + (words - 1)) % DEPTH = (rd_ptr + words) % DEPTH
        BY <1>1, <1>2, <4>1, RingPop
      <4> QED BY <3>1, <4>1, <4>2
    <3>2. CASE ~pops
      BY <1>1, <1>2, <3>2
    <3> QED BY <3>1, <3>2
  <2>4. pushes => n \in 0..(DEPTH - 1)
    BY <1>1
  <2>5. words' = IF pushes THEN n + 1 ELSE n
    BY <1>1, <2>1, <2>2
  <2>6. rd_ptr' = h /\ r \in Seq(Item)
    BY <1>4, <1>5, <2>1
  <2> HIDE DEF h, n, r
  <2>7. RtlInv' /\ Rtl!Contents' = r \o (IF pushes THEN <<v>> ELSE <<>>)
    <3>1. CASE pushes
      <4>1. mem' = [mem EXCEPT ![(h + n) % DEPTH] = v]
        BY <2>1, <2>3, <3>1
      <4>2. mem' \in [0..(DEPTH - 1) -> Item]
        BY <1>1, <4>1
      <4>3. RingSeq(DEPTH, [mem EXCEPT ![(h + n) % DEPTH] = v], h, n + 1)
              = Append(RingSeq(DEPTH, mem, h, n), v)
        BY <1>1, <2>3, <2>4, <3>1, RingPush
      <4>4. Rtl!Contents' = Append(r, v)
        BY <1>3, <2>3, <2>5, <2>6, <3>1, <4>1, <4>3, Zenon
      <4>5. Append(r, v) = r \o <<v>>
        BY <2>6
      <4>6. (((h + n) % DEPTH) + 1) % DEPTH = (h + (n + 1)) % DEPTH
        BY <1>1, <2>3, <2>4, <3>1, WriteSide
      <4>7. wr_ptr' = (h + (n + 1)) % DEPTH
        BY <1>1, <2>1, <2>3, <3>1, <4>6
      <4>8. n + 1 \in 0..DEPTH
        BY <1>1, <2>4, <3>1
      <4> QED BY <2>3, <2>5, <2>6, <3>1, <4>2, <4>4, <4>5, <4>7, <4>8 DEF RtlInv
    <3>2. CASE ~pushes
      <4>1. mem' = mem /\ wr_ptr' = wr_ptr /\ words' = n
        BY <2>1, <2>5, <3>2
      <4>2. r = r \o <<>>
        BY <2>6
      <4>3. Rtl!Contents' = r
        BY <1>3, <2>3, <2>6, <4>1, Zenon
      <4> QED BY <1>1, <2>3, <2>6, <3>2, <4>1, <4>2, <4>3 DEF RtlInv
    <3> QED BY <3>1, <3>2
  <2>8. Rtl!Fifo!Request(push, pop, v)
    <3>1. (push /\ ~Rtl!Fifo!full) = pushes /\ (pop /\ ~Rtl!Fifo!empty) = pops
      BY <1>5 DEF Rtl!Fifo!full, Rtl!Fifo!empty
    <3>2. answer' = [pushed |-> pushes, popped |-> IF pops THEN <<Head(s)>> ELSE <<>>]
      BY <2>1, <2>3
    <3>3. r = IF pops THEN Tail(s) ELSE s
      BY DEF r
    <3> HIDE DEF pushes, pops, s
    <3> QED BY <2>7, <3>1, <3>2, <3>3 DEF Rtl!Fifo!Request, s
  <2> QED BY <2>7, <2>8 DEF Rtl!Fifo!Next
<1> QED BY <1>7, <1>8, <1>9 DEF Rtl!Next

\* fifo.sv is a bounded FIFO for every DEPTH that is a power of two, with a
\* push and a pop at the same edge, refused strobes and resets.
THEOREM RtlRefinesFifo == DevicesSpec => RtlIsFifo
<1>1. DevicesInit => RtlInv /\ Rtl!Fifo!Init
  BY RtlInit
<1>2. RtlInv /\ [DevicesNext]_<<device, ringVars, rtlVars, filterVars>>
        => RtlInv' /\ [Rtl!Fifo!Next]_<<Rtl!Contents, answer>>
  <2> SUFFICES ASSUME RtlInv, [DevicesNext]_<<device, ringVars, rtlVars, filterVars>>
               PROVE  RtlInv' /\ [Rtl!Fifo!Next]_<<Rtl!Contents, answer>>
    OBVIOUS
  <2>1. Rtl!Next \/ UNCHANGED rtlVars
    BY DEF DevicesNext, RingStep, RtlStep, FilterStep
  <2> QED BY <2>1, RtlSteps
<1> QED BY <1>1, <1>2, PTL DEF DevicesSpec, RtlIsFifo, Rtl!RtlIsFifo, Rtl!Fifo!Spec
-----------------------------------------------------------------------------
(* The fixed-point filter.                                                 *)

\* Products with a common factor are ordered like the other factors.
LEMMA Products ==
    ASSUME NEW m \in Nat, NEW x \in Int, NEW y \in Int
    PROVE  /\ x <= y => m * x <= m * y
           /\ m > 0 /\ m * x <= m * y => x <= y
           /\ m > 0 /\ m * x < m * y => x < y
           /\ m * x \in Int
<1>1. x <= y => m * x <= m * y
  OBVIOUS
<1>2. y < x => x >= y + 1
  OBVIOUS
<1>3. y < x => m * x >= m * y + m
  <2>1. ASSUME x >= y + 1 PROVE m * x >= m * (y + 1)
    BY <2>1
  <2> QED BY <1>2, <2>1
<1>4. y = x => m * x = m * y
  OBVIOUS
<1> QED BY <1>1, <1>3, <1>4

\* The shift of a product: rounded down, whatever the sign.
LEMMA Quotient ==
    ASSUME NEW n \in Int, NEW m \in Nat \ {0}
    PROVE  /\ n \div m \in Int
           /\ m * (n \div m) <= n /\ n < m * (n \div m) + m
OBVIOUS

\* A weight times a sample: the quotient is no less than the weight's share of
\* the lower limit, which is a whole number, and within the limits.
LEMMA Share ==
    ASSUME NEW O \in Nat \ {0}, NEW q \in Nat \ {0}, NEW a \in 0..O,
           NEW x \in Int, -(q * O) <= x, x <= q * O - 1
    PROVE  LET p == (a * x) \div O IN
           /\ p \in Int /\ p >= -(a * q) /\ p >= -(q * O) /\ p <= q * O - 1
           /\ O * p <= a * x /\ a * x - O < O * p
<1> DEFINE p == (a * x) \div O
<1>1. a \in Nat /\ O \in Nat /\ a <= O /\ q \in Nat /\ a * x \in Int /\ q * O \in Nat
  BY Products
<1>2. p \in Int /\ O * p <= a * x /\ a * x < O * p + O
  BY <1>1, Quotient
<1> HIDE DEF p
<1>3. a * x >= O * (-(a * q))
  <2>1. a * (-(q * O)) <= a * x
    BY <1>1, Products
  <2>2. a * (-(q * O)) = O * (-(a * q))
    BY <1>1
  <2> QED BY <2>1, <2>2
<1>4. O * (-(a * q)) < O * (p + 1)
  <2>1. O * (p + 1) = O * p + O
    BY <1>1, <1>2
  <2>2. O * (-(a * q)) \in Int /\ O * p \in Int
    BY <1>1, <1>2
  <2> QED BY <1>1, <1>2, <1>3, <2>1, <2>2
<1>5. p >= -(a * q)
  <2>1. -(a * q) \in Int /\ p + 1 \in Int
    BY <1>1, <1>2
  <2>2. -(a * q) < p + 1
    BY <1>1, <1>4, <2>1, Products
  <2> QED BY <1>2, <2>1, <2>2
<1>6. p >= -(q * O)
  <2>1. q * a <= q * O /\ q * a = a * q
    BY <1>1, Products
  <2> QED BY <1>1, <1>2, <1>5, <2>1
<1>7. p <= q * O - 1
  <2>1. CASE x >= 0
    <3>1. x * a <= x * O /\ x * a = a * x /\ x * O = O * x
      BY <1>1, <2>1, Products
    <3>2. O * p <= O * x
      BY <1>1, <1>2, <3>1
    <3>3. p <= x
      BY <1>1, <1>2, <3>2, Products
    <3> QED BY <1>1, <1>2, <3>3
  <2>2. CASE x < 0
    <3>1. a * x <= a * 0 /\ a * 0 = 0
      BY <1>1, <2>2, Products
    <3>2. O * p <= O * 0
      BY <1>1, <1>2, <3>1
    <3>3. p <= 0
      BY <1>1, <1>2, <3>2, Products
    <3>4. q * O >= 1
      BY <1>1
    <3> QED BY <1>1, <1>2, <3>3, <3>4
  <2> QED BY <2>1, <2>2
<1> QED BY <1>1, <1>2, <1>5, <1>6, <1>7 DEF p

\* The two rounded shares of a sample x and a state y, with the weights a and
\* b = O - a: their sum is not above both, it keeps the bound on what rounding
\* may have added up to below L, and it is within the limits of the type.
LEMMA Mean ==
    ASSUME NEW O \in Nat \ {0}, NEW q \in Nat \ {0}, NEW a \in Nat, NEW b \in Nat,
           a + b = O, NEW x \in Int, NEW y \in Int, NEW p \in Int, NEW r \in Int,
           p >= -(a * q), O * p <= a * x, a * x - O < O * p,
           r >= -(b * q), O * r <= b * y, b * y - O < O * r
    PROVE  /\ p + r >= -(q * O)
           /\ \A U \in Int : x <= U /\ y <= U => p + r <= U
           /\ \A L \in Int : x >= L /\ a * (L - y) <= 2 * O => a * (L - (p + r)) <= 2 * O
<1>0. /\ a * x \in Int /\ b * y \in Int /\ O * p \in Int /\ O * r \in Int
      /\ a * q \in Int /\ b * q \in Int /\ q * O \in Int /\ p + r \in Int
  BY Products
<1>1. O * (p + r) = O * p + O * r
  OBVIOUS
<1>2. p + r >= -(q * O)
  <2>1. a * q + b * q = q * O
    <3>1. a * q + b * q = (a + b) * q
      OBVIOUS
    <3>2. (a + b) * q = O * q
      OBVIOUS
    <3> QED BY <3>1, <3>2
  <2> QED BY <1>0, <2>1
<1>3. ASSUME NEW U \in Int, x <= U, y <= U  PROVE p + r <= U
  <2>1. a * x <= a * U /\ b * y <= b * U /\ a * U \in Int /\ b * U \in Int
    BY <1>3, Products
  <2>2. a * U + b * U = O * U
    <3>1. a * U + b * U = (a + b) * U
      OBVIOUS
    <3> QED BY <3>1
  <2>3. O * (p + r) <= O * U
    BY <1>0, <1>1, <2>1, <2>2
  <2> QED BY <1>0, <2>3, Products
<1>4. ASSUME NEW L \in Int, x >= L, a * (L - y) <= 2 * O
      PROVE  a * (L - (p + r)) <= 2 * O
  <2> DEFINE d == L - (p + r)
             g == L - y
  <2>1. d \in Int /\ g \in Int
    OBVIOUS
  <2>2. O * d = O * L - O * p - O * r
    <3>1. O * d = O * L - O * (p + r)
      OBVIOUS
    <3> QED BY <1>0, <1>1, <3>1
  <2>3. a * L <= a * x /\ a * L \in Int
    BY <1>4, Products
  <2>4. O * L = a * L + b * L
    <3>1. a * L + b * L = (a + b) * L
      OBVIOUS
    <3> QED BY <3>1
  <2>5. b * L = b * y + b * g
    OBVIOUS
  <2>6. O * d <= b * g + 2 * O
    <3>1. b * g \in Int /\ b * L \in Int /\ O * d \in Int
      BY <2>1, Products
    <3> HIDE DEF d, g
    <3> QED BY <1>0, <2>2, <2>3, <2>4, <2>5, <3>1
  <2> HIDE DEF d, g
  <2>7. a * (O * d) <= a * (b * g + 2 * O)
    <3>1. O * d \in Int /\ b * g + 2 * O \in Int
      BY <2>1, Products
    <3> QED BY <2>6, <3>1, Products
  <2>8. a * (O * d) = O * (a * d)
    BY <2>1
  <2>9. a * (b * g + 2 * O) = b * (a * g) + a * (2 * O)
    BY <2>1
  <2>10. b * (a * g) <= b * (2 * O)
    <3>1. a * g \in Int /\ 2 * O \in Int /\ a * g <= 2 * O
      BY <1>4, <2>1, Products DEF g
    <3> QED BY <3>1, Products
  <2>11. b * (2 * O) + a * (2 * O) = O * (2 * O)
    <3>1. b * (2 * O) + a * (2 * O) = (a + b) * (2 * O)
      OBVIOUS
    <3> QED BY <3>1
  <2>12. O * (a * d) <= O * (2 * O)
    <3>1. /\ O * (a * d) \in Int /\ b * (a * g) \in Int /\ b * (2 * O) \in Int
          /\ a * (2 * O) \in Int /\ O * (2 * O) \in Int
      BY <2>1
    <3> QED BY <2>7, <2>8, <2>9, <2>10, <2>11, <3>1
  <2>13. a * d <= 2 * O
    <3>1. a * d \in Int /\ 2 * O \in Int
      BY <2>1, Products
    <3> QED BY <2>12, <3>1, Products
  <2> QED BY <2>13 DEF d
<1> QED BY <1>2, <1>3, <1>4

FilterInv ==
    /\ alpha_ \in 0..one
    /\ state_ \in Int /\ -half <= state_ /\ state_ <= hi
    /\ lo \in Int /\ hi \in Int /\ -half <= lo /\ lo <= 0 /\ 0 <= hi /\ hi <= half - 1
    /\ alpha_ * (lo - state_) <= 2 * one

\* What the model assumes of the type and of the arguments.
LEMMA FilterFacts ==
    /\ half \in Nat /\ one \in Nat \ {0} /\ one <= half - 1
    /\ \E q \in Nat \ {0} : half = q * one
    /\ \A x \in Inputs : x \in Int /\ -half <= x /\ x <= half - 1
    /\ Alphas \subseteq 0..one
<1>1. /\ half \in Nat /\ one \in Nat \ {0}
      /\ \E n \in 2..half : half = n * one
      /\ Inputs \subseteq (-half)..(half - 1) /\ Alphas \subseteq 0..one
  BY DeviceConstants DEF Filter!FilterConstants
<1>2. PICK n \in 2..half : half = n * one
  BY <1>1
<1>3. n \in Nat \ {0} /\ n * one >= 2 * one
  BY <1>1, <1>2
<1>4. one <= half - 1
  BY <1>1, <1>2, <1>3
<1>5. \A x \in Inputs : x \in (-half)..(half - 1)
  BY <1>1
<1>6. \A x \in Inputs : x \in Int /\ -half <= x /\ x <= half - 1
  BY <1>1, <1>5
<1> QED BY <1>1, <1>2, <1>3, <1>4, <1>6

\* A cast changes no value that the type can hold.
LEMMA CastFits ==
    ASSUME NEW n \in Int, -half <= n, n <= half - 1
    PROVE  Filter!Cast(n) = n
<1>1. half \in Nat
  BY FilterFacts
<1>2. n + half \in Nat /\ 2 * half \in Nat \ {0} /\ n + half < 2 * half
  BY <1>1
<1>3. ASSUME NEW k \in Nat, NEW m \in Nat \ {0}, k < m PROVE k % m = k
  BY <1>3
<1>4. (n + half) % (2 * half) = n + half
  BY <1>2, <1>3
<1> QED BY <1>1, <1>4 DEF Filter!Cast

\* One step of the formula, computed without casts.
LEMMA Exact ==
    ASSUME FilterInv, NEW x \in Inputs
    PROVE  LET p == (alpha_ * x) \div one
               r == ((one - alpha_) * state_) \div one IN
           /\ p \in Int /\ -half <= p /\ p <= half - 1
           /\ r \in Int /\ -half <= r /\ r <= half - 1
           /\ p + r \in Int /\ -half <= p + r
           /\ \A U \in Int : x <= U /\ state_ <= U => p + r <= U
           /\ \A L \in Int : x >= L /\ alpha_ * (L - state_) <= 2 * one
                                => alpha_ * (L - (p + r)) <= 2 * one
<1> DEFINE p == (alpha_ * x) \div one
           r == ((one - alpha_) * state_) \div one
<1>1. PICK q \in Nat \ {0} : half = q * one
  BY FilterFacts
<1>2. /\ one \in Nat \ {0} /\ alpha_ \in 0..one /\ one - alpha_ \in 0..one
      /\ alpha_ \in Nat /\ one - alpha_ \in Nat /\ alpha_ + (one - alpha_) = one
  BY FilterFacts DEF FilterInv
<1>3. /\ x \in Int /\ -(q * one) <= x /\ x <= q * one - 1
  BY <1>1, FilterFacts
<1>4. /\ state_ \in Int /\ -(q * one) <= state_ /\ state_ <= q * one - 1
  <2>1. half \in Nat /\ state_ \in Int /\ -half <= state_ /\ state_ <= half - 1
    BY FilterFacts DEF FilterInv
  <2> QED BY <1>1, <2>1
<1>5. /\ p \in Int /\ p >= -(alpha_ * q) /\ p >= -(q * one) /\ p <= q * one - 1
      /\ one * p <= alpha_ * x /\ alpha_ * x - one < one * p
  BY <1>2, <1>3, Share
<1>6. /\ r \in Int /\ r >= -((one - alpha_) * q) /\ r >= -(q * one) /\ r <= q * one - 1
      /\ one * r <= (one - alpha_) * state_ /\ (one - alpha_) * state_ - one < one * r
  BY <1>2, <1>4, Share
<1> HIDE DEF p, r
<1>7. /\ p + r >= -(q * one)
      /\ \A U \in Int : x <= U /\ state_ <= U => p + r <= U
      /\ \A L \in Int : x >= L /\ alpha_ * (L - state_) <= 2 * one
                           => alpha_ * (L - (p + r)) <= 2 * one
  BY <1>2, <1>3, <1>4, <1>5, <1>6, Mean
<1>8. p + r \in Int
  BY <1>5, <1>6
<1> QED BY <1>1, <1>5, <1>6, <1>7, <1>8 DEF p, r

\* The smaller and the larger of two numbers.
LEMMA MinMaxFacts ==
    ASSUME NEW a \in Int, NEW b \in Int
    PROVE  /\ Filter!Min({a, b}) = IF a <= b THEN a ELSE b
           /\ Filter!Max({a, b}) = IF a >= b THEN a ELSE b
BY DEF Filter!Min, Filter!Max

\* A new filter holds 0.
LEMMA FilterInit == DevicesInit => FilterInv
<1> SUFFICES ASSUME DevicesInit PROVE FilterInv
  OBVIOUS
<1>1. Filter!Init
  BY DEF DevicesInit, FilterRests
<1>2. alpha_ \in 0..one /\ half \in Nat /\ one \in Nat \ {0} /\ one <= half - 1
  BY <1>1, FilterFacts DEF Filter!Init
<1>3. alpha_ * (0 - 0) = 0
  BY <1>2
<1> QED BY <1>1, <1>2, <1>3 DEF Filter!Init, FilterInv

\* update keeps the state in the range of the inputs.
LEMMA FilterSteps ==
    ASSUME FilterInv, Filter!Next \/ UNCHANGED filterVars
    PROVE  FilterInv'
<1>1. CASE UNCHANGED filterVars
  BY <1>1 DEF filterVars, FilterInv
<1>2. ASSUME NEW x \in Inputs, Filter!update(x)
      PROVE  FilterInv'
  <2> DEFINE p == (alpha_ * x) \div one
             r == ((one - alpha_) * state_) \div one
  <2>1. /\ p \in Int /\ -half <= p /\ p <= half - 1
        /\ r \in Int /\ -half <= r /\ r <= half - 1
        /\ p + r \in Int /\ -half <= p + r
        /\ \A U \in Int : x <= U /\ state_ <= U => p + r <= U
        /\ \A L \in Int : x >= L /\ alpha_ * (L - state_) <= 2 * one
                             => alpha_ * (L - (p + r)) <= 2 * one
    BY Exact
  <2>2. /\ alpha_ \in 0..one /\ half \in Nat /\ one \in Nat \ {0} /\ one <= half - 1
        /\ x \in Int /\ -half <= x /\ x <= half - 1
        /\ state_ \in Int /\ -half <= state_ /\ state_ <= hi
        /\ lo \in Int /\ hi \in Int /\ -half <= lo /\ lo <= 0 /\ 0 <= hi /\ hi <= half - 1
        /\ alpha_ * (lo - state_) <= 2 * one /\ alpha_ \in Nat
    BY FilterFacts DEF FilterInv
  <2>3. p + r <= half - 1
    <3>1. half - 1 \in Int /\ x <= half - 1 /\ state_ <= half - 1
      BY <2>2
    <3> QED BY <2>1, <3>1
  <2>4. one - alpha_ \in Int /\ -half <= one - alpha_ /\ one - alpha_ <= half - 1
    BY <2>2
  <2>5. Filter!Cast(one - alpha_) = one - alpha_
    BY <2>4, CastFits
  <2>6. Filter!Cast(p) = p /\ Filter!Cast(r) = r /\ Filter!Cast(p + r) = p + r
    <3> HIDE DEF p, r
    <3> QED BY <2>1, <2>3, CastFits
  <2>7. state_' = p + r
    <3>1. state_' = Filter!Cast(Filter!q8_8_mul(alpha_, x)
                       + Filter!q8_8_mul(Filter!Cast(one - alpha_), state_))
      BY <1>2 DEF Filter!update
    <3>2. Filter!q8_8_mul(alpha_, x) = p /\ Filter!q8_8_mul(one - alpha_, state_) = r
      BY <2>6 DEF Filter!q8_8_mul
    <3> QED BY <2>5, <2>6, <3>1, <3>2, Zenon
  <2>8. /\ lo' = IF lo <= x THEN lo ELSE x
        /\ hi' = IF hi >= x THEN hi ELSE x
        /\ alpha_' = alpha_
    BY <1>2, <2>2, MinMaxFacts DEF Filter!update
  <2>9. /\ lo' \in Int /\ hi' \in Int /\ -half <= lo' /\ lo' <= lo /\ lo' <= 0 /\ lo' <= x
        /\ hi <= hi' /\ x <= hi' /\ 0 <= hi' /\ hi' <= half - 1
    BY <2>2, <2>8
  <2>10. state_' <= hi'
    <3>1. state_ <= hi'
      BY <2>2, <2>9
    <3> QED BY <2>1, <2>7, <2>9, <3>1
  <2>11. alpha_ * (lo' - state_) <= 2 * one
    <3>1. lo' - state_ <= lo - state_ /\ lo' - state_ \in Int /\ lo - state_ \in Int
      <4>1. lo' \in Int /\ lo \in Int /\ state_ \in Int /\ lo' <= lo
        BY <2>2, <2>9, Zenon
      <4>2. ASSUME NEW i \in Int, NEW j \in Int, NEW k \in Int, i <= j
            PROVE  i - k <= j - k /\ i - k \in Int /\ j - k \in Int
        BY <4>2
      <4> QED BY <4>1, <4>2, Zenon
    <3>2. /\ alpha_ * (lo' - state_) <= alpha_ * (lo - state_)
          /\ alpha_ * (lo' - state_) \in Int /\ alpha_ * (lo - state_) \in Int
      BY <2>2, <3>1, Products
    <3> QED BY <2>2, <3>2
  <2>12. alpha_ * (lo' - state_') <= 2 * one
    BY <2>1, <2>7, <2>9, <2>11, Zenon
  <2> HIDE DEF p, r
  <2> QED BY <2>1, <2>2, <2>7, <2>8, <2>9, <2>10, <2>12 DEF FilterInv
<1> QED BY <1>1, <1>2 DEF Filter!Next

\* For every width, weight from 0 to 1 and sequence of any samples: the filter is
\* never above its inputs, never more than 2 / alpha units below them, and no
\* cast in update changes a value.
THEOREM FilterStaysInRange == DevicesSpec => []StaysInRange
<1>1. FilterInv /\ [DevicesNext]_<<device, ringVars, rtlVars, filterVars>> => FilterInv'
  <2> SUFFICES ASSUME FilterInv, [DevicesNext]_<<device, ringVars, rtlVars, filterVars>>
               PROVE  FilterInv'
    OBVIOUS
  <2>1. Filter!Next \/ UNCHANGED filterVars
    BY DEF DevicesNext, RingStep, RtlStep, FilterStep
  <2> QED BY <2>1, FilterSteps
<1>2. FilterInv => StaysInRange
  <2> SUFFICES ASSUME FilterInv PROVE Filter!StaysInRange
    BY DEF StaysInRange
  <2>1. state_ <= hi /\ alpha_ * (lo - state_) <= 2 * one
    BY DEF FilterInv
  <2>2. ASSUME NEW x \in Inputs
        PROVE  LET exact == (alpha_ * x) \div one + ((one - alpha_) * state_) \div one
               IN  Filter!Cast(exact) = exact
    <3> DEFINE exact == (alpha_ * x) \div one + ((one - alpha_) * state_) \div one
    <3>1. /\ exact \in Int /\ -half <= exact
          /\ \A U \in Int : x <= U /\ state_ <= U => exact <= U
      BY Exact
    <3>2. half - 1 \in Int /\ x <= half - 1 /\ state_ <= half - 1
      BY FilterFacts DEF FilterInv
    <3>3. exact <= half - 1
      BY <3>1, <3>2
    <3> HIDE DEF exact
    <3>4. Filter!Cast(exact) = exact
      BY <3>1, <3>3, CastFits
    <3> QED BY <3>4 DEF exact
  <2> QED BY <2>1, <2>2 DEF Filter!StaysInRange
<1> QED BY FilterInit, <1>1, <1>2, PTL DEF DevicesSpec


-----------------------------------------------------------------------------
(* The trajectory program: what the parser has made of the lines it has    *)
(* read, what is entered of the edges, and how far the search is.          *)

\* The data lines read, and those of them that name a next point.
ReadLines == UpTo(DataLines, line)
LinkLines == {k \in ReadLines : file[k].next # NoNext}

LineTypes ==
    /\ file \in Seq({Blank, Header} \cup Row)
    /\ line \in 0..Len(file) /\ first_line \in BOOLEAN

\* first_line holds as long as only blank lines were read.
FirstLine == first_line <=> (\A k \in 1..line : file[k] = Blank)

RowsRead == \A k \in ReadLines : file[k] \in Row \ {Header} /\ RowParses(file[k])

\* The points are those of the rows read, each at the place of the last row
\* with its id.
PointsRead ==
    /\ node_ids = {file[k].id : k \in ReadLines} /\ DOMAIN adjacency_ = node_ids
    /\ \A id \in node_ids : \E k \in ReadLines :
          /\ file[k].id = id /\ points_[id] = <<file[k].x, file[k].y>>
          /\ \A j \in ReadLines : file[j].id = id => j <= k

\* The route has an id for each row read, under its number.
RouteRead ==
    /\ route \in Seq(Nat) /\ Len(route) = Rank(DataLines, line)
    /\ \A k \in ReadLines : route[Rank(DataLines, k)] = file[k].id
    /\ \A i \in 1..Len(route) : \E k \in ReadLines : Rank(DataLines, k) = i

PendingRead ==
    /\ pending_edges \in Seq(Nat \X Nat)
    /\ Len(pending_edges) = Cardinality(LinkLines)
    /\ Range(pending_edges) = {<<file[k].id, file[k].next>> : k \in LinkLines}

AllRead == state \in {"edges", "search", "exit0"} => line = Len(file)

ParseInv ==
    LineTypes /\ FirstLine /\ RowsRead /\ PointsRead /\ RouteRead /\ PendingRead /\ AllRead

\* Two points are adjacent if an edge entered so far joins them.
Joined(n, m) == \E i \in 1..Len(edges_) : edges_[i] = <<n, m>> \/ edges_[i] = <<m, n>>

EdgesEntered ==
    /\ edges_ \in Seq(Nat \X Nat) /\ Len(edges_) <= Len(pending_edges)
    /\ \A i \in 1..Len(edges_) :
          edges_[i] = pending_edges[i] /\ edges_[i] \in node_ids \X node_ids
    /\ state = "parse" => edges_ = <<>> /\ \A n \in node_ids : adjacency_[n] = <<>>
    /\ state \in {"search", "exit0"} => Len(edges_) = Len(pending_edges)

Adjacency ==
    /\ \A n \in node_ids : adjacency_[n] \in Seq(node_ids)
    /\ \A n, m \in node_ids : m \in Range(adjacency_[n]) <=> Joined(n, m)

\* Before the search nothing is visited, and nothing is printed before its end.
BeforeSearch ==
    /\ state \in {"parse", "edges"} =>
          visited = {} /\ pending = <<>> /\ neighbors = <<>> /\ components = 0
    /\ summary # <<>> => state = "exit0"

\* During the search: a point is visited once the outer loop has come to it;
\* the neighbors of a visited point are visited as well, except those of a
\* point still in the queue and those still to be seen; and every class that
\* was reached is counted once.
Searching ==
    /\ visited \subseteq node_ids /\ unvisited \subseteq node_ids
    /\ node_ids \ unvisited \subseteq visited
    /\ pending \in Seq(node_ids) /\ Range(pending) \subseteq visited
    /\ neighbors \in Seq(node_ids)
    /\ \A m \in Range(neighbors) : \E v \in visited : <<v, m>> \in FileGraph.edge
    /\ \A v \in visited : v \in Range(pending) \/
          \A m \in node_ids : <<v, m>> \in FileGraph.edge => m \in visited \cup Range(neighbors)
    /\ components = Cardinality({Class(n) : n \in visited})

GraphInv == ParseInv /\ EdgesEntered /\ Adjacency

TrajectoryInv ==
    /\ GraphInv /\ BeforeSearch
    /\ state = "search" => Searching
    /\ ComponentsAreClasses /\ SummaryMatchesFile

-----------------------------------------------------------------------------
(* The lines.                                                              *)

\* ReadLines and DataLines are lines of the file.
LEMMA LinesOfFile ==
    ASSUME LineTypes
    PROVE  /\ DOMAIN file = 1..Len(file) /\ Len(file) \in Nat
           /\ line \in 0..Len(file) /\ line \in Nat
           /\ DataLines \in SUBSET (1..Len(file)) /\ DataLines \subseteq Nat
           /\ ReadLines \subseteq DataLines /\ LinkLines \subseteq ReadLines
           /\ IsFiniteSet(ReadLines) /\ IsFiniteSet(LinkLines)
           /\ \A k \in ReadLines : k <= line
<1>1. /\ DOMAIN file = 1..Len(file) /\ Len(file) \in Nat
      /\ line \in 0..Len(file) /\ line \in Nat
  BY DEF LineTypes
<1>2. DataLines \in SUBSET (1..Len(file))
  BY <1>1 DEF DataLines, TextLines
<1>3. /\ ReadLines \subseteq DataLines /\ LinkLines \subseteq ReadLines
      /\ \A k \in ReadLines : k <= line
  BY DEF ReadLines, LinkLines, UpTo
<1>4. IsFiniteSet(ReadLines)
  BY <1>1, <1>2, RankFacts DEF ReadLines
<1>5. IsFiniteSet(LinkLines)
  BY <1>3, <1>4, FS_Subset
<1> QED BY <1>1, <1>2, <1>3, <1>4, <1>5

\* A blank line, or the header in front of the rows, is no data line; every
\* other line is one.
LEMMA WhichLines ==
    ASSUME LineTypes, FirstLine, line < Len(file)
    PROVE  /\ NextLine = Blank => line + 1 \notin DataLines
           /\ NextLine = Header /\ first_line => line + 1 \notin DataLines
           /\ NextLine \notin {Blank, Header} => line + 1 \in DataLines
<1>1. DOMAIN file = 1..Len(file) /\ Len(file) \in Nat /\ line \in Nat
  BY LinesOfFile
<1>2. line + 1 \in DOMAIN file
  BY <1>1
<1>3. NextLine = Blank => line + 1 \notin DataLines
  BY DEF DataLines, TextLines, NextLine
<1>4. NextLine \notin {Blank, Header} => line + 1 \in DataLines
  BY <1>2 DEF DataLines, TextLines, NextLine
<1>5. ASSUME NextLine = Header, first_line  PROVE line + 1 \notin DataLines
  <2>1. \A j \in TextLines : line + 1 <= j
    <3>1. \A k \in 1..line : file[k] = Blank
      BY <1>5 DEF FirstLine
    <3> QED BY <1>1, <3>1 DEF TextLines
  <2> QED BY <1>5, <2>1 DEF DataLines, NextLine
<1> QED BY <1>3, <1>4, <1>5

\* No line is added or removed.
LEMMA FileStays ==
    ASSUME file' = file
    PROVE  /\ DataLines' = DataLines /\ FileGraph' = FileGraph
           /\ \A n : Class(n)' = Class(n)
<1>1. DataLines' = DataLines
  BY DEF DataLines, TextLines
<1>2. FileGraph' = FileGraph
  BY <1>1 DEF FileGraph
<1> QED BY <1>1, <1>2 DEF Class, Closed

\* A step that neither reads nor stores keeps what was read.
LEMMA ParseStays ==
    ASSUME ParseInv, UNCHANGED <<file, parser, points_, route, pending_edges>>,
           DOMAIN adjacency_' = DOMAIN adjacency_,
           state' \in {"edges", "search", "exit0"} => state \in {"edges", "search", "exit0"}
                                                    \/ line = Len(file)
    PROVE  ParseInv'
<1>1. /\ DataLines' = DataLines /\ ReadLines' = ReadLines
      /\ file' = file /\ line' = line /\ first_line' = first_line /\ points_' = points_
      /\ route' = route /\ pending_edges' = pending_edges /\ node_ids' = node_ids
  BY FileStays DEF ReadLines, parser, node_ids
<1>2. LinkLines' = LinkLines
  BY <1>1 DEF LinkLines
<1>3. LineTypes' /\ FirstLine' /\ RowsRead'
  BY <1>1 DEF ParseInv, LineTypes, FirstLine, RowsRead
<1>4. PointsRead'
  BY <1>1 DEF ParseInv, PointsRead
<1>5. RouteRead'
  <2>1. \A k : Rank(DataLines, k)' = Rank(DataLines, k)
    BY <1>1
  <2>2. Rank(DataLines, line)' = Rank(DataLines, line)
    BY <1>1
  <2> QED BY <1>1, <2>1, <2>2 DEF ParseInv, RouteRead
<1>6. PendingRead'
  BY <1>1, <1>2 DEF ParseInv, PendingRead
<1>7. AllRead'
  BY <1>1 DEF ParseInv, AllRead
<1> QED BY <1>3, <1>4, <1>5, <1>6, <1>7 DEF ParseInv

\* A line that is no data line changes nothing that was read.
LEMMA ParseSkips == ParseInv /\ SkipLine => ParseInv'
<1> SUFFICES ASSUME ParseInv, SkipLine PROVE ParseInv'
  OBVIOUS
<1>1. /\ LineTypes /\ FirstLine /\ line < Len(file) /\ state' = state /\ state = "parse"
      /\ file' = file /\ line' = line + 1 /\ points_' = points_ /\ adjacency_' = adjacency_
      /\ route' = route /\ pending_edges' = pending_edges /\ node_ids' = node_ids
      /\ NextLine = Blank \/ (NextLine = Header /\ first_line)
      /\ first_line' = (first_line /\ NextLine = Blank)
  BY DEF ParseInv, SkipLine, Reading, graph, node_ids
<1>2. /\ Len(file) \in Nat /\ line \in 0..Len(file) /\ line \in Nat
      /\ DataLines \in SUBSET (1..Len(file)) /\ DataLines \subseteq Nat
  BY <1>1, LinesOfFile
<1>3. line + 1 \notin DataLines /\ DataLines' = DataLines
  BY <1>1, WhichLines, FileStays
<1>4. ReadLines' = ReadLines
  <2>1. \A k \in DataLines : k <= line + 1 <=> k <= line
    BY <1>2, <1>3
  <2> QED BY <1>1, <1>3, <2>1 DEF ReadLines, UpTo
<1>5. LineTypes'
  BY <1>1, <1>2 DEF LineTypes
<1>6. FirstLine'
  <2>1. 1..line' = (1..line) \cup {line + 1}
    BY <1>1, <1>2
  <2> QED BY <1>1, <2>1 DEF FirstLine, NextLine
<1>7. RowsRead' /\ PointsRead' /\ AllRead'
  BY <1>1, <1>4 DEF ParseInv, RowsRead, PointsRead, AllRead
<1>8. RouteRead'
  <2>1. \A k : Rank(DataLines, k)' = Rank(DataLines, k)
    BY <1>3
  <2>2. Rank(DataLines, line)' = Rank(DataLines, line)
    <3>1. Rank(DataLines, line)' = Rank(DataLines, line + 1)
      BY <1>1, <1>3
    <3> QED BY <1>2, <1>3, <3>1, RankFacts
  <2> QED BY <1>1, <1>4, <2>1, <2>2 DEF ParseInv, RouteRead
<1>9. PendingRead'
  <2>1. LinkLines' = LinkLines
    BY <1>1, <1>4 DEF LinkLines
  <2> QED BY <1>1, <2>1 DEF ParseInv, PendingRead
<1> QED BY <1>5, <1>6, <1>7, <1>8, <1>9 DEF ParseInv

\* map[key] = value.
LEMMA PutFacts ==
    ASSUME NEW f, NEW key, NEW value
    PROVE  /\ DOMAIN Put(f, key, value) = DOMAIN f \cup {key}
           /\ Put(f, key, value)[key] = value
           /\ \A k \in DOMAIN f : k # key => Put(f, key, value)[k] = f[k]
  BY DEF Put

\* What AddRow does to the variables.
LEMMA RowAdded ==
    ASSUME ParseInv, AddRow
    PROVE  /\ NextLine \in Row /\ RowParses(NextLine) /\ NextLine = file[line + 1]
           /\ NextLine # Header /\ line + 1 \in DataLines /\ DataLines' = DataLines
           /\ UNCHANGED <<file, state, edges_, search, summary>> /\ state = "parse"
           /\ line' = line + 1 /\ first_line' = FALSE /\ line + 1 \in 1..Len(file)
           /\ ReadLines' = ReadLines \cup {line + 1} /\ line + 1 \notin ReadLines
           /\ points_' = Put(points_, NextLine.id, <<NextLine.x, NextLine.y>>)
           /\ node_ids' = node_ids \cup {NextLine.id}
           /\ DOMAIN adjacency_' = node_ids'
           /\ adjacency_' = IF NextLine.id \in node_ids THEN adjacency_
                            ELSE Put(adjacency_, NextLine.id, <<>>)
           /\ route' = Append(route, NextLine.id)
           /\ pending_edges' = IF NextLine.next = NoNext THEN pending_edges
                               ELSE Append(pending_edges, <<NextLine.id, NextLine.next>>)
<1>1. /\ LineTypes /\ FirstLine /\ PointsRead
      /\ NextLine \notin {Blank, Header} /\ RowParses(NextLine) /\ line < Len(file)
      /\ UNCHANGED <<file, state, edges_, search, summary>> /\ state = "parse"
      /\ line' = line + 1 /\ first_line' = FALSE /\ NextLine = file[line + 1]
  BY DEF ParseInv, AddRow, Reading, NextLine
<1>2. /\ DOMAIN file = 1..Len(file) /\ Len(file) \in Nat /\ line \in Nat
      /\ DataLines \subseteq Nat
  BY <1>1, LinesOfFile
<1>3. line + 1 \in 1..Len(file)
  BY <1>1, <1>2
<1>4. NextLine \in Row
  <2>1. \A k \in DOMAIN file : file[k] \in {Blank, Header} \cup Row
    BY <1>1 DEF LineTypes
  <2> QED BY <1>1, <1>2, <1>3, <2>1
<1>5. line + 1 \in DataLines /\ DataLines' = DataLines
  BY <1>1, WhichLines, FileStays
<1>6. ReadLines' = ReadLines \cup {line + 1} /\ line + 1 \notin ReadLines
  <2>1. \A k \in DataLines : k <= line + 1 <=> (k <= line \/ k = line + 1)
    BY <1>2
  <2>2. ~(line + 1 <= line)
    BY <1>2
  <2>3. ReadLines' = {k \in DataLines : k <= line + 1}
    BY <1>1, <1>5 DEF ReadLines, UpTo
  <2> QED BY <1>5, <2>1, <2>2, <2>3, Zenon DEF ReadLines, UpTo
<1>7. /\ points_' = Put(points_, NextLine.id, <<NextLine.x, NextLine.y>>)
      /\ adjacency_' = IF NextLine.id \in DOMAIN adjacency_ THEN adjacency_
                       ELSE Put(adjacency_, NextLine.id, <<>>)
      /\ route' = Append(route, NextLine.id)
      /\ pending_edges' = IF NextLine.next = NoNext THEN pending_edges
                          ELSE Append(pending_edges, <<NextLine.id, NextLine.next>>)
  BY DEF AddRow, add_point
<1>8. DOMAIN adjacency_ = node_ids
  BY <1>1 DEF PointsRead
<1>9. node_ids' = node_ids \cup {NextLine.id}
  BY <1>7 DEF node_ids, Put
<1>10. DOMAIN adjacency_' = node_ids'
  <2>1. DOMAIN Put(adjacency_, NextLine.id, <<>>) = node_ids \cup {NextLine.id}
    BY <1>8, PutFacts
  <2> QED BY <1>7, <1>8, <1>9, <2>1
<1> QED BY <1>1, <1>3, <1>4, <1>5, <1>6, <1>7, <1>8, <1>9, <1>10

\* A row that parses is of numbers.
LEMMA RowNumbers ==
    ASSUME NEW row \in Row, RowParses(row)
    PROVE  /\ row.id \in Nat /\ row.x \in Int /\ row.y \in Int
           /\ row.next \in Nat \cup {NoNext}
  BY DEF Row, RowParses

\* A row keeps the points in agreement with the rows read.
LEMMA PointAdded ==
    ASSUME ParseInv, AddRow
    PROVE  PointsRead' /\ RowsRead'
<1> DEFINE new == line + 1
<1>1. /\ PointsRead /\ RowsRead /\ file' = file
      /\ NextLine = file[new] /\ NextLine \in Row \ {Header} /\ RowParses(NextLine)
      /\ ReadLines' = ReadLines \cup {new}
      /\ points_' = Put(points_, NextLine.id, <<NextLine.x, NextLine.y>>)
      /\ node_ids' = node_ids \cup {NextLine.id} /\ DOMAIN adjacency_' = node_ids'
  BY RowAdded DEF ParseInv
<1>2. \A k \in ReadLines' : k <= new
  <2>1. LineTypes
    BY DEF ParseInv
  <2>2. /\ \A k \in ReadLines : k \in Nat /\ k <= line
        /\ line \in Nat
    BY <2>1, LinesOfFile
  <2> QED BY <1>1, <2>2
<1> HIDE DEF new
<1>3. node_ids = {file[k].id : k \in ReadLines}
  BY <1>1 DEF PointsRead
<1>4. node_ids' = {file[k].id : k \in ReadLines'}
  BY <1>1, <1>3
<1>5. ASSUME NEW id \in node_ids'
      PROVE  \E k \in ReadLines' : /\ file[k].id = id
                                   /\ points_'[id] = <<file[k].x, file[k].y>>
                                   /\ \A j \in ReadLines' : file[j].id = id => j <= k
  <2>1. CASE id = NextLine.id
    <3>1. new \in ReadLines' /\ file[new].id = id
      BY <1>1, <2>1
    <3>2. points_'[id] = <<file[new].x, file[new].y>>
      BY <1>1, <2>1, Zenon DEF Put, node_ids
    <3> QED BY <1>2, <3>1, <3>2
  <2>2. CASE id # NextLine.id
    <3>1. id \in node_ids
      BY <1>1, <2>2
    <3>2. points_'[id] = points_[id]
      BY <1>1, <2>2, <3>1, Zenon DEF Put, node_ids
    <3>3. PICK k \in ReadLines : /\ file[k].id = id
                                 /\ points_[id] = <<file[k].x, file[k].y>>
                                 /\ \A j \in ReadLines : file[j].id = id => j <= k
      BY <1>1, <3>1 DEF PointsRead
    <3>4. \A j \in ReadLines' : file[j].id = id => j \in ReadLines
      BY <1>1, <2>2
    <3>5. k \in ReadLines'
      BY <1>1
    <3> QED BY <3>2, <3>3, <3>4, <3>5
  <2> QED BY <2>1, <2>2
<1>6. PointsRead'
  BY <1>1, <1>4, <1>5 DEF PointsRead
<1>7. RowsRead'
  BY <1>1 DEF RowsRead
<1> QED BY <1>6, <1>7

\* A row adds one to the route, under its number.
LEMMA RouteGrows ==
    ASSUME ParseInv, AddRow
    PROVE  RouteRead'
<1>1. /\ RouteRead /\ LineTypes /\ file' = file /\ line' = line + 1
      /\ NextLine = file[line + 1] /\ NextLine.id \in Nat
      /\ ReadLines' = ReadLines \cup {line + 1} /\ DataLines' = DataLines
      /\ line + 1 \in DataLines /\ route' = Append(route, NextLine.id)
  BY RowAdded, RowNumbers DEF ParseInv
<1>2. /\ Len(file) \in Nat /\ line \in 0..Len(file) /\ DataLines \in SUBSET (1..Len(file))
  BY <1>1, LinesOfFile
<1>3. /\ Rank(DataLines, line) \in Nat
      /\ Rank(DataLines, line + 1) = Rank(DataLines, line) + 1
      /\ \A k \in ReadLines : Rank(DataLines, k) \in 1..Rank(DataLines, line)
  BY <1>1, <1>2, RankFacts DEF ReadLines
<1>4. /\ route \in Seq(Nat) /\ Len(route) = Rank(DataLines, line)
      /\ \A k \in ReadLines : route[Rank(DataLines, k)] = file[k].id
      /\ \A i \in 1..Len(route) : \E k \in ReadLines : Rank(DataLines, k) = i
  BY <1>1 DEF RouteRead
<1>5. /\ route' \in Seq(Nat) /\ Len(route') = Len(route) + 1
      /\ route'[Len(route) + 1] = NextLine.id
      /\ \A i \in 1..Len(route) : route'[i] = route[i]
      /\ \A i \in 1..Len(route') : i \in 1..Len(route) \/ i = Len(route) + 1
  BY <1>1, <1>4
<1>6. /\ Rank(DataLines, line)' = Rank(DataLines, line + 1)
      /\ \A k : Rank(DataLines, k)' = Rank(DataLines, k)
  BY <1>1
<1>7. Len(route') = Rank(DataLines, line)'
  BY <1>3, <1>4, <1>5, <1>6
<1>8. ASSUME NEW k \in ReadLines'
      PROVE  route'[Rank(DataLines, k)] = file[k].id
  <2>1. CASE k \in ReadLines
    BY <1>3, <1>4, <1>5, <2>1
  <2>2. CASE k = line + 1
    BY <1>1, <1>3, <1>4, <1>5, <2>2
  <2> QED BY <1>1, <2>1, <2>2
<1>9. ASSUME NEW i \in 1..Len(route')
      PROVE  \E k \in ReadLines' : Rank(DataLines, k) = i
  <2>1. CASE i \in 1..Len(route)
    BY <1>1, <1>4, <2>1
  <2>2. CASE i = Len(route) + 1
    BY <1>1, <1>3, <1>4, <2>2
  <2> QED BY <1>5, <2>1, <2>2
<1> QED BY <1>1, <1>5, <1>6, <1>7, <1>8, <1>9 DEF RouteRead

\* A row that names a next point adds an edge for later.
LEMMA PendingGrows ==
    ASSUME ParseInv, AddRow
    PROVE  PendingRead'
<1>1. /\ PendingRead /\ LineTypes /\ file' = file
      /\ NextLine = file[line + 1] /\ NextLine \in Row /\ RowParses(NextLine)
      /\ ReadLines' = ReadLines \cup {line + 1} /\ line + 1 \notin ReadLines
      /\ pending_edges' = IF NextLine.next = NoNext THEN pending_edges
                          ELSE Append(pending_edges, <<NextLine.id, NextLine.next>>)
  BY RowAdded DEF ParseInv
<1>2. /\ pending_edges \in Seq(Nat \X Nat) /\ Len(pending_edges) = Cardinality(LinkLines)
      /\ Range(pending_edges) = {<<file[k].id, file[k].next>> : k \in LinkLines}
  BY <1>1 DEF PendingRead
<1>3. CASE NextLine.next = NoNext
  <2>1. LinkLines' = LinkLines
    BY <1>1, <1>3 DEF LinkLines
  <2> QED BY <1>1, <1>2, <1>3, <2>1 DEF PendingRead
<1>4. CASE NextLine.next # NoNext
  <2> DEFINE e == <<NextLine.id, NextLine.next>>
             P == Nat \X Nat
  <2>1. e \in Nat \X Nat
    BY <1>1, <1>4, RowNumbers
  <2>2. LinkLines' = LinkLines \cup {line + 1} /\ line + 1 \notin LinkLines
    BY <1>1, <1>4 DEF LinkLines
  <2>3. Cardinality(LinkLines') = Cardinality(LinkLines) + 1
    BY <1>1, <2>2, LinesOfFile, FS_AddElement
  <2>4. pending_edges' = Append(pending_edges, e)
    BY <1>1, <1>4
  <2>5. {<<file[k].id, file[k].next>> : k \in LinkLines'}
           = {<<file[k].id, file[k].next>> : k \in LinkLines} \cup {e}
    BY <1>1, <2>2
  <2>6. pending_edges \in Seq(P) /\ e \in P
    BY <1>2, <2>1
  <2> HIDE DEF e, P
  <2>7. /\ pending_edges' \in Seq(P) /\ Len(pending_edges') = Len(pending_edges) + 1
        /\ Range(pending_edges') = Range(pending_edges) \cup {e}
    BY <2>4, <2>6, PushFacts
  <2> QED BY <1>1, <1>2, <2>3, <2>5, <2>7 DEF PendingRead, P
<1> QED BY <1>3, <1>4

LEMMA ParseAdds == ParseInv /\ AddRow => ParseInv'
<1> SUFFICES ASSUME ParseInv, AddRow PROVE ParseInv'
  OBVIOUS
<1>1. /\ LineTypes /\ file' = file /\ line' = line + 1 /\ first_line' = FALSE
      /\ line + 1 \in 1..Len(file) /\ state' = state /\ state = "parse"
      /\ NextLine = file[line + 1] /\ NextLine \notin {Blank, Header}
  <2>1. NextLine \notin {Blank, Header}
    BY DEF AddRow
  <2> QED BY <2>1, RowAdded DEF ParseInv
<1>2. LineTypes'
  <2>1. file' \in Seq({Blank, Header} \cup Row)
    BY <1>1 DEF LineTypes
  <2>2. line' \in 0..Len(file') /\ file' = file
    BY <1>1
  <2>3. first_line' \in BOOLEAN
    BY <1>1, Zenon
  <2> QED BY <2>1, <2>2, <2>3 DEF LineTypes
<1>3. FirstLine'
  <2>1. line' \in 1..line' /\ file'[line'] # Blank
    BY <1>1
  <2> QED BY <1>1, <2>1 DEF FirstLine
<1>4. AllRead'
  BY <1>1 DEF AllRead
<1> QED BY <1>2, <1>3, <1>4, PointAdded, RouteGrows, PendingGrows DEF ParseInv

-----------------------------------------------------------------------------
(* The edges.                                                              *)

\* Before the first edge is added, a row only adds a point without neighbors.
LEMMA GraphAdds == GraphInv /\ AddRow => GraphInv'
<1> SUFFICES ASSUME GraphInv, AddRow PROVE GraphInv'
  OBVIOUS
<1>1. /\ ParseInv /\ state = "parse" /\ state' = state /\ edges_' = edges_
      /\ node_ids' = node_ids \cup {NextLine.id}
      /\ adjacency_' = IF NextLine.id \in node_ids THEN adjacency_
                       ELSE Put(adjacency_, NextLine.id, <<>>)
      /\ DOMAIN adjacency_ = node_ids
  BY RowAdded DEF GraphInv, ParseInv, PointsRead
<1>2. edges_ = <<>> /\ \A n \in node_ids : adjacency_[n] = <<>>
  BY <1>1 DEF GraphInv, EdgesEntered
<1>3. \A n \in node_ids' : adjacency_'[n] = <<>>
  <2>1. CASE NextLine.id \in node_ids
    BY <1>1, <1>2, <2>1
  <2>2. CASE NextLine.id \notin node_ids
    <3>1. \A n \in node_ids : n # NextLine.id
      BY <2>2
    <3>2. adjacency_' = Put(adjacency_, NextLine.id, <<>>)
      BY <1>1, <2>2
    <3> QED BY <1>1, <1>2, <3>1, <3>2, Zenon DEF Put
  <2> QED BY <2>1, <2>2
<1>4. PendingRead' /\ ParseInv'
  BY <1>1, ParseAdds DEF ParseInv
<1>5. EdgesEntered'
  <2>1. Len(edges_') = 0 /\ edges_' = <<>> /\ edges_' \in Seq(Nat \X Nat)
    BY <1>1, <1>2
  <2>2. Len(pending_edges') \in Nat
    BY <1>4 DEF PendingRead
  <2> QED BY <1>1, <1>3, <2>1, <2>2 DEF EdgesEntered
<1>6. Adjacency'
  <2>1. \A n \in node_ids' : adjacency_'[n] \in Seq(node_ids') /\ Range(adjacency_'[n]) = {}
    <3>1. \A S : <<>> \in Seq(S) /\ Range(<<>>) = {}
      BY DEF Range
    <3> QED BY <1>3, <3>1
  <2>2. \A n, m : ~Joined(n, m)'
    BY <1>1, <1>2 DEF Joined
  <2> QED BY <2>1, <2>2 DEF Adjacency
<1> QED BY <1>4, <1>5, <1>6 DEF GraphInv

\* add_edge enters each end with the other one's neighbors.
LEMMA LinkedFacts ==
    ASSUME NEW a \in node_ids, NEW b \in node_ids, DOMAIN adjacency_ = node_ids,
           \A n \in node_ids : adjacency_[n] \in Seq(node_ids)
    PROVE  /\ DOMAIN Linked(a, b) = node_ids
           /\ \A n \in node_ids : Linked(a, b)[n] \in Seq(node_ids)
           /\ \A n, m \in node_ids :
                 m \in Range(Linked(a, b)[n])
                    <=> m \in Range(adjacency_[n]) \/ (n = a /\ m = b) \/ (n = b /\ m = a)
<1> DEFINE there == Put(adjacency_, a, Append(adjacency_[a], b))
           both  == Put(there, b, Append(there[b], a))
<1>1. DOMAIN there = node_ids
  BY DEF Put
<1>2. ASSUME NEW n \in node_ids
      PROVE  there[n] = IF n = a THEN Append(adjacency_[a], b) ELSE adjacency_[n]
  BY DEF Put
<1>3. ASSUME NEW n \in node_ids
      PROVE  /\ there[n] \in Seq(node_ids)
             /\ Range(there[n]) = Range(adjacency_[n]) \cup {m \in {b} : n = a}
  <2>1. CASE n = a
    <3>1. there[n] = Append(adjacency_[n], b)
      BY <1>2, <2>1
    <3>2. /\ Append(adjacency_[n], b) \in Seq(node_ids)
          /\ Range(Append(adjacency_[n], b)) = Range(adjacency_[n]) \cup {b}
      BY PushFacts
    <3> QED BY <2>1, <3>1, <3>2
  <2>2. CASE n # a
    BY <1>2, <2>2
  <2> QED BY <2>1, <2>2
<1> HIDE DEF there
<1>4. DOMAIN both = node_ids
  BY <1>1 DEF Put
<1>5. ASSUME NEW n \in node_ids
      PROVE  both[n] = IF n = b THEN Append(there[b], a) ELSE there[n]
  BY <1>1 DEF Put
<1>6. ASSUME NEW n \in node_ids
      PROVE  /\ both[n] \in Seq(node_ids)
             /\ Range(both[n]) = Range(there[n]) \cup {m \in {a} : n = b}
  <2>1. CASE n = b
    <3>1. both[n] = Append(there[n], a)
      BY <1>5, <2>1
    <3>2. /\ Append(there[n], a) \in Seq(node_ids)
          /\ Range(Append(there[n], a)) = Range(there[n]) \cup {a}
      BY <1>3, PushFacts
    <3> QED BY <2>1, <3>1, <3>2
  <2>2. CASE n # b
    BY <1>3, <1>5, <2>2
  <2> QED BY <2>1, <2>2
<1>7. both = Linked(a, b)
  BY DEF Linked, there
<1> HIDE DEF both
<1>8. \A n, m \in node_ids :
         m \in Range(both[n])
            <=> m \in Range(adjacency_[n]) \/ (n = a /\ m = b) \/ (n = b /\ m = a)
  <2> SUFFICES ASSUME NEW n \in node_ids, NEW m \in node_ids
               PROVE  m \in Range(both[n])
                         <=> m \in Range(adjacency_[n]) \/ (n = a /\ m = b) \/ (n = b /\ m = a)
    OBVIOUS
  <2>1. m \in Range(both[n]) <=> m \in Range(there[n]) \/ (n = b /\ m = a)
    BY <1>6
  <2>2. m \in Range(there[n]) <=> m \in Range(adjacency_[n]) \/ (n = a /\ m = b)
    BY <1>3
  <2> QED BY <2>1, <2>2
<1> QED BY <1>4, <1>6, <1>7, <1>8

\* Each edge entered joins its two ends, both of which are points.
LEMMA GraphLinks == GraphInv /\ AddEdge => GraphInv'
<1> SUFFICES ASSUME GraphInv, AddEdge PROVE GraphInv'
  OBVIOUS
<1> DEFINE edge == pending_edges[Len(edges_) + 1]
<1>1. /\ state = "edges" /\ Len(edges_) < Len(pending_edges)
      /\ edge[1] \in node_ids /\ edge[2] \in node_ids
      /\ edges_' = Append(edges_, edge) /\ adjacency_' = Linked(edge[1], edge[2])
      /\ UNCHANGED <<file, state, parser, points_, search, summary>>
  BY DEF AddEdge, has_point
<1>2. /\ node_ids' = node_ids /\ pending_edges' = pending_edges /\ state' = state
      /\ ParseInv /\ PointsRead /\ PendingRead /\ EdgesEntered /\ Adjacency
      /\ DOMAIN adjacency_ = node_ids
  BY <1>1 DEF node_ids, parser, GraphInv, ParseInv, PointsRead
<1>3. /\ DOMAIN adjacency_' = node_ids
      /\ \A n \in node_ids : adjacency_'[n] \in Seq(node_ids)
      /\ \A n, m \in node_ids :
            m \in Range(adjacency_'[n])
               <=> \/ m \in Range(adjacency_[n])
                   \/ (n = edge[1] /\ m = edge[2]) \/ (n = edge[2] /\ m = edge[1])
  <2>1. \A n \in node_ids : adjacency_[n] \in Seq(node_ids)
    BY <1>2 DEF Adjacency
  <2>2. PICK a \in node_ids, b \in node_ids : a = edge[1] /\ b = edge[2]
    BY <1>1
  <2>3. adjacency_' = Linked(a, b)
    BY <1>1, <2>2
  <2> HIDE DEF edge
  <2>4. /\ DOMAIN Linked(a, b) = node_ids
        /\ \A n \in node_ids : Linked(a, b)[n] \in Seq(node_ids)
        /\ \A n, m \in node_ids :
              m \in Range(Linked(a, b)[n])
                 <=> m \in Range(adjacency_[n]) \/ (n = a /\ m = b) \/ (n = b /\ m = a)
    BY <1>2, <2>1, LinkedFacts
  <2> QED BY <2>2, <2>3, <2>4
<1>4. ParseInv'
  BY <1>1, <1>2, <1>3, ParseStays DEF parser
<1>5. /\ edges_ \in Seq(Nat \X Nat) /\ Len(edges_) \in Nat
      /\ pending_edges \in Seq(Nat \X Nat) /\ Len(pending_edges) \in Nat
      /\ \A i \in 1..Len(pending_edges) : pending_edges[i] \in Nat \X Nat
  <2>1. edges_ \in Seq(Nat \X Nat) /\ pending_edges \in Seq(Nat \X Nat)
    BY <1>2 DEF EdgesEntered, PendingRead
  <2> QED BY <2>1
<1>6. edge \in Nat \X Nat /\ edge = <<edge[1], edge[2]>>
  <2>1. Len(edges_) + 1 \in 1..Len(pending_edges)
    BY <1>1, <1>5
  <2>2. edge \in Nat \X Nat
    BY <1>5, <2>1
  <2> QED BY <2>2
<1> HIDE DEF edge
<1>7. /\ edges_' \in Seq(Nat \X Nat) /\ Len(edges_') = Len(edges_) + 1
      /\ edges_'[Len(edges_) + 1] = edge
      /\ \A i \in 1..Len(edges_) : edges_'[i] = edges_[i]
      /\ \A i \in 1..Len(edges_') : i \in 1..Len(edges_) \/ i = Len(edges_) + 1
      /\ \A i \in 1..Len(edges_) : i \in 1..Len(edges_')
      /\ Len(edges_) + 1 \in 1..Len(edges_')
  <2> DEFINE P == Nat \X Nat
  <2>1. edges_ \in Seq(P) /\ edge \in P
    BY <1>5, <1>6
  <2> HIDE DEF P
  <2>2. /\ edges_' \in Seq(P) /\ Len(edges_') = Len(edges_) + 1
        /\ edges_'[Len(edges_) + 1] = edge
        /\ \A i \in 1..Len(edges_) : edges_'[i] = edges_[i]
    BY <1>1, <2>1 DEF edge
  <2>3. /\ \A i \in 1..Len(edges_') : i \in 1..Len(edges_) \/ i = Len(edges_) + 1
        /\ \A i \in 1..Len(edges_) : i \in 1..Len(edges_')
        /\ Len(edges_) + 1 \in 1..Len(edges_')
    BY <1>5, <2>2
  <2> QED BY <2>2, <2>3 DEF P
<1>8. EdgesEntered'
  <2>1. \A i \in 1..Len(edges_') : edges_'[i] = pending_edges[i]
                                   /\ edges_'[i] \in node_ids \X node_ids
    <3>1. edge \in node_ids \X node_ids
      BY <1>1, <1>6 DEF edge
    <3>2. \A i \in 1..Len(edges_) : edges_[i] = pending_edges[i]
                                    /\ edges_[i] \in node_ids \X node_ids
      BY <1>2 DEF EdgesEntered
    <3> QED BY <1>7, <3>1, <3>2 DEF edge
  <2>2. Len(edges_') <= Len(pending_edges)
    BY <1>1, <1>5, <1>7
  <2> QED BY <1>1, <1>2, <1>7, <2>1, <2>2 DEF EdgesEntered
<1>9. Adjacency'
  <2>1. ASSUME NEW n \in node_ids, NEW m \in node_ids
        PROVE  Joined(n, m)' <=> Joined(n, m) \/ edge = <<n, m>> \/ edge = <<m, n>>
    BY <1>7 DEF Joined
  <2>2. \A n, m \in node_ids : m \in Range(adjacency_[n]) <=> Joined(n, m)
    BY <1>2 DEF Adjacency
  <2>3. \A n, m : edge = <<n, m>> <=> n = edge[1] /\ m = edge[2]
    BY <1>6
  <2>4. ASSUME NEW n \in node_ids, NEW m \in node_ids
        PROVE  m \in Range(adjacency_'[n]) <=> Joined(n, m)'
    <3>1. (edge = <<n, m>> \/ edge = <<m, n>>)
          <=> (n = edge[1] /\ m = edge[2]) \/ (n = edge[2] /\ m = edge[1])
      BY <2>3
    <3> QED BY <1>3, <2>1, <2>2, <3>1
  <2> QED BY <1>2, <1>3, <2>4 DEF Adjacency
<1> QED BY <1>4, <1>8, <1>9 DEF GraphInv

\* Every other step leaves the graph as it is.
LEMMA GraphStays ==
    ASSUME GraphInv, UNCHANGED <<file, parser, graph>>,
           \/ state' = state
           \/ state = "parse" /\ state' = "edges" /\ line = Len(file)
           \/ state = "edges" /\ state' = "search" /\ Len(edges_) = Len(pending_edges)
           \/ state = "search" /\ state' = "exit0"
           \/ state' = "exit1"
    PROVE  GraphInv'
<1>1. /\ file' = file /\ points_' = points_ /\ adjacency_' = adjacency_ /\ edges_' = edges_
      /\ pending_edges' = pending_edges /\ node_ids' = node_ids /\ UNCHANGED parser
  BY DEF parser, graph, node_ids
<1>2. ParseInv'
  BY <1>1, ParseStays DEF GraphInv, parser
<1>3. EdgesEntered'
  BY <1>1 DEF GraphInv, EdgesEntered
<1>4. Adjacency'
  <2>1. \A n, m : Joined(n, m)' <=> Joined(n, m)
    BY <1>1 DEF Joined
  <2> QED BY <1>1, <2>1 DEF GraphInv, Adjacency
<1> QED BY <1>2, <1>3, <1>4 DEF GraphInv

LEMMA GraphSkips == GraphInv /\ SkipLine => GraphInv'
<1> SUFFICES ASSUME GraphInv, SkipLine PROVE GraphInv'
  OBVIOUS
<1>1. /\ state' = state /\ points_' = points_ /\ adjacency_' = adjacency_ /\ edges_' = edges_
      /\ pending_edges' = pending_edges /\ node_ids' = node_ids
  BY DEF SkipLine, graph, node_ids
<1>2. ParseInv'
  BY ParseSkips DEF GraphInv
<1>3. EdgesEntered'
  BY <1>1 DEF GraphInv, EdgesEntered
<1>4. Adjacency'
  <2>1. \A n, m : Joined(n, m)' <=> Joined(n, m)
    BY <1>1 DEF Joined
  <2> QED BY <1>1, <2>1 DEF GraphInv, Adjacency
<1> QED BY <1>2, <1>3, <1>4 DEF GraphInv

-----------------------------------------------------------------------------
(* Classes of connected points.                                            *)

\* Once every edge is added, the graph is that of the file.
LEMMA GraphIsFile ==
    ASSUME GraphInv, state \in {"search", "exit0"}
    PROVE  /\ ReadLines = DataLines /\ FileGraph.node = node_ids /\ IsFiniteSet(node_ids)
           /\ \A n, m \in node_ids : <<n, m>> \in FileGraph.edge <=> m \in Range(adjacency_[n])
           /\ \A e \in FileGraph.edge : /\ e = <<e[1], e[2]>> /\ <<e[2], e[1]>> \in FileGraph.edge
                                        /\ e[1] \in node_ids /\ e[2] \in node_ids
<1> DEFINE out == {<<file[k].id, file[k].next>> :
                      k \in {j \in DataLines : file[j].next # NoNext}}
<1>1. /\ LineTypes /\ line = Len(file) /\ PointsRead /\ PendingRead /\ EdgesEntered /\ Adjacency
      /\ Len(edges_) = Len(pending_edges)
  BY DEF GraphInv, ParseInv, AllRead, EdgesEntered
<1>2. ReadLines = DataLines
  <2>1. \A k \in DataLines : k <= Len(file)
    BY <1>1, LinesOfFile
  <2> QED BY <1>1, <2>1 DEF ReadLines, UpTo
<1>3. FileGraph.node = node_ids /\ FileGraph.edge = out \cup {<<e[2], e[1]>> : e \in out}
  BY <1>1, <1>2 DEF FileGraph, PointsRead
<1>4. IsFiniteSet(node_ids)
  <2>1. IsFiniteSet(ReadLines)
    BY <1>1, LinesOfFile
  <2>2. node_ids = {file[k].id : k \in ReadLines}
    BY <1>1 DEF PointsRead
  <2> DEFINE f == [k \in ReadLines |-> file[k].id]
  <2>3. f \in Surjection(ReadLines, node_ids)
    BY <2>2, Zenon DEF Surjection
  <2> QED BY <2>1, <2>3, FS_Surjection, Zenon
<1>5. out = Range(pending_edges)
  BY <1>1, <1>2 DEF PendingRead, LinkLines
<1> HIDE DEF out
<1>6. /\ DOMAIN pending_edges = 1..Len(edges_)
      /\ \A i \in 1..Len(edges_) :
            edges_[i] = pending_edges[i] /\ edges_[i] \in node_ids \X node_ids
  BY <1>1 DEF PendingRead, EdgesEntered
<1>7. /\ \A e \in out : \E i \in 1..Len(edges_) : e = edges_[i]
      /\ \A i \in 1..Len(edges_) : edges_[i] \in out
  BY <1>5, <1>6 DEF Range
<1>8. \A e \in out : e = <<e[1], e[2]>> /\ e[1] \in node_ids /\ e[2] \in node_ids
  BY <1>6, <1>7
<1>9. \A n, m : <<n, m>> \in FileGraph.edge <=> <<n, m>> \in out \/ <<m, n>> \in out
  <2> SUFFICES ASSUME NEW n, NEW m
               PROVE  <<n, m>> \in {<<e[2], e[1]>> : e \in out} <=> <<m, n>> \in out
    BY <1>3
  <2>1. ASSUME <<m, n>> \in out  PROVE <<n, m>> \in {<<e[2], e[1]>> : e \in out}
    BY <2>1
  <2>2. ASSUME NEW e \in out, <<n, m>> = <<e[2], e[1]>>  PROVE <<m, n>> \in out
    BY <1>8, <2>2
  <2> QED BY <2>1, <2>2
<1>10. \A n, m : <<n, m>> \in FileGraph.edge <=> Joined(n, m)
  BY <1>7, <1>9 DEF Joined
<1>11. \A n, m \in node_ids : <<n, m>> \in FileGraph.edge <=> m \in Range(adjacency_[n])
  BY <1>1, <1>10 DEF Adjacency
<1>12. \A e \in FileGraph.edge : /\ e = <<e[1], e[2]>>
                                 /\ e[1] \in node_ids /\ e[2] \in node_ids
  BY <1>3, <1>8
<1>13. \A e \in FileGraph.edge : <<e[2], e[1]>> \in FileGraph.edge
  BY <1>9, <1>12
<1> QED BY <1>2, <1>3, <1>4, <1>11, <1>12, <1>13

\* A point is in its class, points joined by an edge have the same class, and
\* a class lies within every closed set that has a point of it.
LEMMA ClassFacts ==
    ASSUME \A e \in FileGraph.edge :
              /\ e = <<e[1], e[2]>> /\ <<e[2], e[1]>> \in FileGraph.edge
              /\ e[1] \in FileGraph.node /\ e[2] \in FileGraph.node
    PROVE  /\ \A n \in FileGraph.node : n \in Class(n)
           /\ \A n, m : <<n, m>> \in FileGraph.edge => Class(n) = Class(m)
           /\ \A S \in SUBSET FileGraph.node : Closed(S) => \A n \in S : Class(n) \subseteq S
<1>1. \A n \in FileGraph.node : n \in Class(n)
  BY DEF Class
<1>2. ASSUME NEW n, NEW m, <<n, m>> \in FileGraph.edge
      PROVE  Class(n) = Class(m)
  <2>1. <<m, n>> \in FileGraph.edge
    BY <1>2
  <2>2. \A S : Closed(S) => (n \in S <=> m \in S)
    BY <1>2, <2>1 DEF Closed
  <2> QED BY <2>2 DEF Class
<1>3. \A S \in SUBSET FileGraph.node : Closed(S) => \A n \in S : Class(n) \subseteq S
  BY DEF Class
<1> QED BY <1>1, <1>2, <1>3

-----------------------------------------------------------------------------
(* The search.                                                             *)

\* pop_front removes nothing but the front.
LEMMA FrontAndRest ==
    ASSUME NEW S, NEW q \in Seq(S), q # <<>>
    PROVE  Range(q) = {Head(q)} \cup Range(Tail(q))
<1>1. /\ Len(q) \in Nat /\ Len(q) > 0 /\ Head(q) = q[1]
      /\ DOMAIN q = 1..Len(q) /\ DOMAIN Tail(q) = 1..(Len(q) - 1)
      /\ \A k \in 1..(Len(q) - 1) : Tail(q)[k] = q[k + 1]
  OBVIOUS
<1>2. ASSUME NEW k \in 1..Len(q)  PROVE q[k] \in {Head(q)} \cup Range(Tail(q))
  <2>1. CASE k = 1
    BY <1>1, <2>1
  <2>2. CASE k # 1
    <3>1. k - 1 \in 1..(Len(q) - 1) /\ (k - 1) + 1 = k
      BY <1>1, <2>2
    <3>2. Tail(q)[k - 1] = q[k] /\ k - 1 \in DOMAIN Tail(q)
      BY <1>1, <3>1
    <3> QED BY <3>2 DEF Range
  <2> QED BY <2>1, <2>2
<1>3. Range(q) \subseteq {Head(q)} \cup Range(Tail(q))
  BY <1>1, <1>2 DEF Range
<1>4. {Head(q)} \cup Range(Tail(q)) \subseteq Range(q)
  BY PopFacts
<1> QED BY <1>3, <1>4

\* What a step of the search knows of the graph.
LEMMA SearchGraph ==
    ASSUME GraphInv, state = "search"
    PROVE  /\ FileGraph.node = node_ids /\ IsFiniteSet(node_ids)
           /\ \A n \in node_ids : n \in Class(n)
           /\ \A n, m : <<n, m>> \in FileGraph.edge => Class(n) = Class(m)
           /\ \A S \in SUBSET node_ids : Closed(S) => \A n \in S : Class(n) \subseteq S
           /\ \A e \in FileGraph.edge : /\ e = <<e[1], e[2]>>
                                        /\ e[1] \in node_ids /\ e[2] \in node_ids
           /\ \A n \in node_ids : adjacency_[n] \in Seq(node_ids)
           /\ \A n, m \in node_ids : <<n, m>> \in FileGraph.edge <=> m \in Range(adjacency_[n])
<1>1. /\ FileGraph.node = node_ids /\ IsFiniteSet(node_ids)
      /\ \A n, m \in node_ids : <<n, m>> \in FileGraph.edge <=> m \in Range(adjacency_[n])
      /\ \A e \in FileGraph.edge : /\ e = <<e[1], e[2]>> /\ <<e[2], e[1]>> \in FileGraph.edge
                                   /\ e[1] \in node_ids /\ e[2] \in node_ids
  BY GraphIsFile
<1>2. \A e \in FileGraph.edge : /\ e = <<e[1], e[2]>> /\ <<e[2], e[1]>> \in FileGraph.edge
                                /\ e[1] \in FileGraph.node /\ e[2] \in FileGraph.node
  BY <1>1
<1>3. /\ \A n \in FileGraph.node : n \in Class(n)
      /\ \A n, m : <<n, m>> \in FileGraph.edge => Class(n) = Class(m)
      /\ \A S \in SUBSET FileGraph.node : Closed(S) => \A n \in S : Class(n) \subseteq S
  BY <1>2, ClassFacts, Zenon
<1>4. \A n \in node_ids : adjacency_[n] \in Seq(node_ids)
  BY DEF GraphInv, Adjacency
<1> QED BY <1>1, <1>3, <1>4

\* With the queue empty, the points visited so far are a union of classes.
LEMMA VisitedIsClosed ==
    ASSUME GraphInv, state = "search", Searching, pending = <<>>, neighbors = <<>>
    PROVE  /\ Closed(visited)
           /\ \A n \in node_ids \ visited : \A v \in visited : Class(n) # Class(v)
<1>1. Range(pending) = {} /\ Range(neighbors) = {}
  BY DEF Range
<1>2. \A v \in visited : \A m \in node_ids : <<v, m>> \in FileGraph.edge => m \in visited
  BY <1>1 DEF Searching
<1>3. Closed(visited)
  <2> SUFFICES ASSUME NEW e \in FileGraph.edge, e[1] \in visited
               PROVE  e[2] \in visited
    BY DEF Closed
  <2>1. e = <<e[1], e[2]>> /\ e[2] \in node_ids
    BY SearchGraph
  <2> QED BY <1>2, <2>1
<1>4. visited \in SUBSET node_ids
  BY DEF Searching
<1>5. \A v \in visited : Class(v) \subseteq visited
  BY <1>3, <1>4, SearchGraph
<1>6. \A n \in node_ids : n \in Class(n)
  BY SearchGraph
<1> QED BY <1>3, <1>5, <1>6

\* A point that the outer loop finds unvisited is the first of its class.
LEMMA SearchVisits ==
    ASSUME GraphInv, state = "search", Searching, NEW id \in unvisited, Visit(id)
    PROVE  Searching'
<1>1. /\ pending = <<>> /\ neighbors = <<>> /\ unvisited' = unvisited \ {id}
      /\ UNCHANGED <<file, state, parser, graph, neighbors, summary>>
      /\ node_ids' = node_ids /\ id \in node_ids
  BY DEF Visit, graph, node_ids, Searching
<1>2. FileGraph' = FileGraph /\ \A n : Class(n)' = Class(n)
  BY <1>1, FileStays
<1>3. CASE id \in visited
  <2>1. UNCHANGED <<visited, components, pending, neighbors>>
    BY <1>1, <1>3 DEF Visit
  <2>2. /\ visited' = visited /\ components' = components /\ pending' = pending
        /\ neighbors' = neighbors
    BY <2>1
  <2>3. unvisited' \subseteq node_ids /\ node_ids \ unvisited' \subseteq visited
    BY <1>1, <1>3 DEF Searching
  <2>4. {Class(n) : n \in visited}' = {Class(n) : n \in visited}
    BY <1>2, <2>2
  <2> QED BY <1>1, <1>2, <2>2, <2>3, <2>4 DEF Searching
<1>4. CASE id \notin visited
  <2>1. /\ components' = components + 1 /\ pending' = <<id>> /\ neighbors' = <<>>
        /\ visited' = visited \cup {id}
    BY <1>1, <1>4 DEF Visit
  <2>2. /\ visited' \subseteq node_ids /\ unvisited' \subseteq node_ids
        /\ node_ids \ unvisited' \subseteq visited'
    BY <1>1, <2>1 DEF Searching
  <2>3. /\ pending' \in Seq(node_ids) /\ Range(pending') = {id}
        /\ neighbors' \in Seq(node_ids) /\ Range(neighbors') = {}
    <3>1. DOMAIN <<id>> = 1..1 /\ <<id>>[1] = id /\ <<id>> \in Seq(node_ids)
      BY <1>1
    <3> QED BY <2>1, <3>1 DEF Range
  <2>4. Closed(visited) /\ \A v \in visited : Class(id) # Class(v)
    BY <1>1, <1>4, VisitedIsClosed
  <2>5. \A v \in visited : \A m \in node_ids : <<v, m>> \in FileGraph.edge => m \in visited
    BY <2>4 DEF Closed
  <2>6. Cardinality({Class(n) : n \in visited'}) = Cardinality({Class(n) : n \in visited}) + 1
    <3>1. IsFiniteSet(visited)
      BY SearchGraph, FS_Subset DEF Searching
    <3> DEFINE f == [n \in visited |-> Class(n)]
    <3>2. f \in Surjection(visited, {Class(n) : n \in visited})
      BY Zenon DEF Surjection
    <3>3. IsFiniteSet({Class(n) : n \in visited})
      BY <3>1, <3>2, FS_Surjection, Zenon
    <3>4. /\ {Class(n) : n \in visited'} = {Class(n) : n \in visited} \cup {Class(id)}
          /\ Class(id) \notin {Class(n) : n \in visited}
      BY <2>1, <2>4
    <3> QED BY <3>3, <3>4, FS_AddElement, Zenon
  <2>7. {Class(n) : n \in visited}' = {Class(n) : n \in visited'}
    BY <1>2
  <2>8. components' = Cardinality({Class(n) : n \in visited}')
    BY <2>1, <2>6, <2>7 DEF Searching
  <2>9. \A v \in visited' : v \in Range(pending') \/
          \A m \in node_ids : <<v, m>> \in FileGraph.edge => m \in visited' \cup Range(neighbors')
    BY <2>1, <2>3, <2>5
  <2>10. Range(pending') \subseteq visited'
    BY <2>1, <2>3
  <2> QED BY <1>1, <1>2, <2>2, <2>3, <2>8, <2>9, <2>10 DEF Searching
<1> QED BY <1>3, <1>4

\* The neighbors of the point popped are to be seen.
LEMMA SearchExpands ==
    ASSUME GraphInv, state = "search", Searching, Expand
    PROVE  Searching'
<1> DEFINE front == Head(pending)
<1>1. /\ pending # <<>> /\ neighbors = <<>>
      /\ pending' = Tail(pending) /\ neighbors' = adjacency_[front]
      /\ file' = file /\ unvisited' = unvisited /\ visited' = visited
      /\ components' = components /\ node_ids' = node_ids
  BY DEF Expand, graph, node_ids
<1>2. FileGraph' = FileGraph /\ \A n : Class(n)' = Class(n)
  BY <1>1, FileStays
<1>3. pending \in Seq(node_ids) /\ Range(pending) \subseteq visited /\ visited \subseteq node_ids
  BY DEF Searching
<1>4. /\ front \in Range(pending) /\ pending' \in Seq(node_ids)
      /\ Range(pending) = {front} \cup Range(pending')
  BY <1>1, <1>3, PopFacts, FrontAndRest
<1> HIDE DEF front
<1>5. front \in visited /\ front \in node_ids
  BY <1>3, <1>4
<1>6. /\ neighbors' \in Seq(node_ids)
      /\ \A m \in node_ids : <<front, m>> \in FileGraph.edge <=> m \in Range(neighbors')
  BY <1>1, <1>5, SearchGraph
<1>7. Range(neighbors') \subseteq node_ids
  BY <1>6 DEF Range
<1>8. \A m \in Range(neighbors') : \E v \in visited : <<v, m>> \in FileGraph.edge
  BY <1>5, <1>6, <1>7
<1>9. ASSUME NEW v \in visited, v \notin Range(pending'),
             NEW m \in node_ids, <<v, m>> \in FileGraph.edge
      PROVE  m \in visited \cup Range(neighbors')
  <2>1. CASE v = front
    BY <1>6, <1>9, <2>1
  <2>2. CASE v # front
    <3>1. v \notin Range(pending)
      BY <1>4, <1>9, <2>2
    <3>2. Range(neighbors) = {}
      BY <1>1 DEF Range
    <3> QED BY <1>9, <3>1, <3>2 DEF Searching
  <2> QED BY <2>1, <2>2
<1>10. {Class(n) : n \in visited}' = {Class(n) : n \in visited}
  BY <1>1, <1>2
<1> QED BY <1>1, <1>2, <1>3, <1>4, <1>6, <1>8, <1>9, <1>10 DEF Searching

\* A neighbor is in the class of a visited point, so that visiting it adds no
\* class.
LEMMA SearchSees ==
    ASSUME GraphInv, state = "search", Searching, SeeNeighbor
    PROVE  Searching'
<1> DEFINE seen == Head(neighbors)
<1>1. /\ neighbors # <<>> /\ neighbors' = Tail(neighbors)
      /\ file' = file /\ unvisited' = unvisited /\ components' = components
      /\ node_ids' = node_ids
      /\ \/ seen \in visited /\ visited' = visited /\ pending' = pending
         \/ visited' = visited \cup {seen} /\ pending' = Append(pending, seen)
  BY DEF SeeNeighbor, graph, node_ids
<1>2. FileGraph' = FileGraph /\ \A n : Class(n)' = Class(n)
  BY <1>1, FileStays
<1>3. /\ pending \in Seq(node_ids) /\ Range(pending) \subseteq visited
      /\ visited \subseteq node_ids /\ neighbors \in Seq(node_ids)
      /\ unvisited \subseteq node_ids /\ node_ids \ unvisited \subseteq visited
      /\ \A m \in Range(neighbors) : \E v \in visited : <<v, m>> \in FileGraph.edge
      /\ components = Cardinality({Class(n) : n \in visited})
  BY DEF Searching
<1>4. /\ seen \in Range(neighbors) /\ seen \in node_ids /\ neighbors' \in Seq(node_ids)
      /\ Range(neighbors) = {seen} \cup Range(neighbors')
  BY <1>1, <1>3, PopFacts, FrontAndRest
<1> HIDE DEF seen
<1>5. visited \cup {seen} = visited' \/ (seen \in visited /\ visited' = visited)
  BY <1>1
<1>6. /\ visited' = visited \cup {seen} /\ visited' \subseteq node_ids
      /\ visited \subseteq visited' /\ seen \in visited'
  BY <1>3, <1>4, <1>5
<1>7. /\ pending' \in Seq(node_ids) /\ Range(pending) \subseteq Range(pending')
      /\ Range(pending') \subseteq visited'
      /\ seen \in visited \/ seen \in Range(pending')
  <2>1. CASE seen \in visited /\ visited' = visited /\ pending' = pending
    BY <1>3, <2>1
  <2>2. CASE pending' = Append(pending, seen)
    <3>1. pending' \in Seq(node_ids) /\ Range(pending') = Range(pending) \cup {seen}
      BY <1>3, <1>4, <2>2, PushFacts
    <3> QED BY <1>3, <1>6, <3>1
  <2> QED BY <1>1, <2>1, <2>2
<1>8. \A m \in Range(neighbors') : \E v \in visited' : <<v, m>> \in FileGraph.edge
  BY <1>3, <1>4, <1>6
<1>9. ASSUME NEW v \in visited', v \notin Range(pending'),
             NEW m \in node_ids, <<v, m>> \in FileGraph.edge
      PROVE  m \in visited' \cup Range(neighbors')
  <2>1. v \in visited /\ v \notin Range(pending)
    BY <1>6, <1>7, <1>9
  <2>2. m \in visited \cup Range(neighbors)
    BY <1>9, <2>1 DEF Searching
  <2> QED BY <1>4, <1>6, <2>2
<1>10. {Class(n) : n \in visited'} = {Class(n) : n \in visited}
  <2>1. PICK v \in visited : <<v, seen>> \in FileGraph.edge
    BY <1>3, <1>4
  <2>2. Class(seen) = Class(v)
    BY <2>1, SearchGraph
  <2> QED BY <1>6, <2>1, <2>2
<1>11. {Class(n) : n \in visited}' = {Class(n) : n \in visited'}
  BY <1>2
<1>12. components' = Cardinality({Class(n) : n \in visited}')
  BY <1>1, <1>3, <1>10, <1>11
<1>13. unvisited' \subseteq node_ids /\ node_ids \ unvisited' \subseteq visited'
  BY <1>1, <1>3, <1>6
<1> QED BY <1>1, <1>2, <1>4, <1>6, <1>7, <1>8, <1>9, <1>12, <1>13 DEF Searching

-----------------------------------------------------------------------------
(* The summary.                                                            *)

\* When the outer loop has come to every point, every class has been counted.
LEMMA ClassesCounted ==
    ASSUME GraphInv, state = "search", Searching, unvisited = {}
    PROVE  /\ components = Cardinality({Class(n) : n \in FileGraph.node})
           /\ IsFiniteSet({Class(n) : n \in FileGraph.node})
           /\ disconnected_nodes = {n \in FileGraph.node : \A m \in FileGraph.node :
                                       <<n, m>> \notin FileGraph.edge}
<1>1. FileGraph.node = node_ids /\ IsFiniteSet(node_ids) /\ visited = node_ids
  BY SearchGraph DEF Searching
<1>2. components = Cardinality({Class(n) : n \in FileGraph.node})
  BY <1>1 DEF Searching
<1>3. IsFiniteSet({Class(n) : n \in FileGraph.node})
  <2> DEFINE f == [n \in FileGraph.node |-> Class(n)]
  <2>1. f \in Surjection(FileGraph.node, {Class(n) : n \in FileGraph.node})
    BY Zenon DEF Surjection
  <2> QED BY <1>1, <2>1, FS_Surjection, Zenon
<1>4. ASSUME NEW n \in node_ids
      PROVE  adjacency_[n] = <<>> <=> \A m \in node_ids : <<n, m>> \notin FileGraph.edge
  <2>1. adjacency_[n] \in Seq(node_ids)
    BY SearchGraph
  <2>2. CASE adjacency_[n] = <<>>
    <3>1. Range(<<>>) = {}
      BY DEF Range
    <3> QED BY <2>2, <3>1, SearchGraph
  <2>3. CASE adjacency_[n] # <<>>
    <3>1. /\ Head(adjacency_[n]) \in Range(adjacency_[n])
          /\ Head(adjacency_[n]) \in node_ids
      BY <2>1, <2>3, PopFacts
    <3> QED BY <2>3, <3>1, SearchGraph
  <2> QED BY <2>2, <2>3
<1>5. disconnected_nodes = {n \in FileGraph.node : \A m \in FileGraph.node :
                               <<n, m>> \notin FileGraph.edge}
  BY <1>1, <1>4 DEF disconnected_nodes
<1> QED BY <1>2, <1>3, <1>5

\* The two ways to measure an angle agree, in particular on segments of length
\* zero: the squares of the scalar and of the cross product of two segments
\* add up to the product of the squares of their lengths.
LEMMA Lagrange ==
    ASSUME NEW a \in Int, NEW b \in Int, NEW c \in Int, NEW d \in Int
    PROVE  (a * a + b * b) * (c * c + d * d)
              = (a * c + b * d) * (a * c + b * d) + (a * d - b * c) * (a * d - b * c)
  BY SMT

LEMMA SquareFacts ==
    ASSUME NEW a \in Int, NEW b \in Int
    PROVE  /\ a * a + b * b \in Int
           /\ a * a + b * b = 0 <=> (a = 0 /\ b = 0)
  BY SMT

LEMMA TurnIsBend ==
    ASSUME NEW a \in Int \X Int, NEW b \in Int \X Int, NEW c \in Int \X Int
    PROVE  IsTurn(a, b, c) <=> Bends(a, b, c)
<1> DEFINE v1 == b[1] - a[1]
           v2 == b[2] - a[2]
           w1 == c[1] - b[1]
           w2 == c[2] - b[2]
           d  == v1 * w1 + v2 * w2
           x  == v1 * w2 - v2 * w1
           m  == (v1 * v1 + v2 * v2) * (w1 * w1 + w2 * w2)
<1>1. v1 \in Int /\ v2 \in Int /\ w1 \in Int /\ w2 \in Int
  OBVIOUS
<1>2. a = b <=> v1 = 0 /\ v2 = 0
  OBVIOUS
<1>3. b = c <=> w1 = 0 /\ w2 = 0
  OBVIOUS
<1>4. IsTurn(a, b, c) <=> m # 0 /\ (d <= 0 \/ 1000000 * d * d <= 883022 * m)
  BY DEF IsTurn, Minus, Dot
<1>5. Bends(a, b, c) <=> /\ a # b /\ b # c
                         /\ d <= 0 \/ 883022 * x * x >= 116978 * d * d
  BY DEF Bends, Minus, Dot
<1> HIDE DEF v1, v2, w1, w2
<1>6. m = d * d + x * x /\ d \in Int /\ x \in Int
  BY <1>1, Lagrange
<1>7. m # 0 <=> a # b /\ b # c
  <2>1. /\ v1 * v1 + v2 * v2 \in Int /\ (v1 * v1 + v2 * v2 = 0 <=> a = b)
        /\ w1 * w1 + w2 * w2 \in Int /\ (w1 * w1 + w2 * w2 = 0 <=> b = c)
    BY <1>1, <1>2, <1>3, SquareFacts
  <2>2. ASSUME NEW i \in Int, NEW j \in Int  PROVE i * j = 0 <=> i = 0 \/ j = 0
    BY <2>2
  <2> QED BY <2>1, <2>2
<1> HIDE DEF d, x, m
<1>8. 1000000 * d * d <= 883022 * m <=> 883022 * x * x >= 116978 * d * d
  <2> DEFINE p == d * d
             q == x * x
  <2>1. p \in Int /\ q \in Int /\ m = p + q
    BY <1>6
  <2>2. /\ 1000000 * d * d = 1000000 * p /\ 116978 * d * d = 116978 * p
        /\ 883022 * x * x = 883022 * q
    BY <1>6
  <2> HIDE DEF p, q
  <2> QED BY <2>1, <2>2
<1> QED BY <1>4, <1>5, <1>7, <1>8

\* Where the program has a point is where the file puts it.
LEMMA PointsInPlace ==
    ASSUME GraphInv, state = "search", NEW id \in node_ids
    PROVE  points_[id] = Position(id) /\ points_[id] \in Int \X Int
<1>1. /\ PointsRead /\ RowsRead /\ ReadLines = DataLines /\ DataLines \subseteq Nat
  BY GraphIsFile, LinesOfFile DEF GraphInv, ParseInv
<1> DEFINE rows == {k \in DataLines : file[k].id = id}
<1>2. PICK k \in DataLines : /\ file[k].id = id /\ points_[id] = <<file[k].x, file[k].y>>
                             /\ \A j \in DataLines : file[j].id = id => j <= k
  BY <1>1 DEF PointsRead
<1>3. k \in rows /\ \A j \in rows : k >= j
  BY <1>1, <1>2
<1>4. Max(rows) \in rows /\ \A j \in rows : Max(rows) >= j
  BY <1>3 DEF Max
<1>5. Max(rows) = k
  <2>1. Max(rows) \in Nat /\ k \in Nat /\ Max(rows) >= k /\ k >= Max(rows)
    BY <1>1, <1>3, <1>4
  <2> QED BY <2>1
<1>6. Position(id) = <<file[k].x, file[k].y>>
  BY <1>5 DEF Position
<1>7. file[k].x \in Int /\ file[k].y \in Int
  BY <1>1, <1>2, RowNumbers DEF RowsRead
<1> QED BY <1>2, <1>6, <1>7

\* The route is the ids of the rows.
LEMMA RouteIsPath ==
    ASSUME GraphInv, state = "search"
    PROVE  /\ Len(Path) = Len(route) /\ Len(route) \in Nat
           /\ \A i \in 1..Len(route) : Path[i] = route[i] /\ route[i] \in node_ids
<1>1. /\ LineTypes /\ RouteRead /\ PointsRead /\ ReadLines = DataLines /\ line = Len(file)
  BY GraphIsFile DEF GraphInv, ParseInv, AllRead
<1>2. Len(file) \in Nat /\ DataLines \in SUBSET (1..Len(file))
  BY <1>1, LinesOfFile
<1>3. Rank(DataLines, Len(file)) = Cardinality(DataLines) /\ Cardinality(DataLines) \in Nat
  <2>1. Len(file) \in 0..Len(file)
    BY <1>2
  <2> QED BY <1>2, <2>1, RankFacts
<1>4. Len(route) = Cardinality(DataLines)
  BY <1>1, <1>3 DEF RouteRead
<1>5. Len(Path) = Cardinality(DataLines)
  <2> HIDE DEF DataLines
  <2> DEFINE N == Cardinality(DataLines)
             id(i) == file[CHOOSE k \in DataLines :
                              Cardinality({j \in DataLines : j <= k}) = i].id
  <2>1. N \in Nat /\ Path = [i \in 1..N |-> id(i)]
    BY <1>3 DEF Path
  <2> HIDE DEF N, id
  <2>2. Len(Path) = N
    BY <2>1
  <2> QED BY <2>2 DEF N
<1>6. ASSUME NEW i \in 1..Len(route)
      PROVE  Path[i] = route[i] /\ route[i] \in node_ids
  <2> DEFINE at == CHOOSE k \in DataLines : Cardinality({j \in DataLines : j <= k}) = i
  <2>1. \E k \in DataLines : Cardinality({j \in DataLines : j <= k}) = i
    BY <1>1 DEF RouteRead, Rank, UpTo
  <2>2. at \in DataLines /\ Cardinality({j \in DataLines : j <= at}) = i
    BY <2>1
  <2>3. Rank(DataLines, at) = i
    BY <2>2 DEF Rank, UpTo
  <2>4. Path[i] = file[at].id
    BY <1>4 DEF Path
  <2> HIDE DEF at
  <2>5. route[i] = file[at].id
    BY <1>1, <2>2, <2>3 DEF RouteRead
  <2>6. file[at].id \in node_ids
    BY <1>1, <2>2 DEF PointsRead
  <2> QED BY <2>4, <2>5, <2>6
<1> QED BY <1>3, <1>4, <1>5, <1>6

\* The numbers of the summary are those of the file.
LEMMA FileCounted ==
    ASSUME GraphInv, state = "search"
    PROVE  /\ \A k \in DataLines : /\ file[k] # Header /\ RowParses(file[k])
                                   /\ file[k].next \in FileGraph.node \cup {NoNext}
           /\ Len(edges_) = Cardinality({k \in DataLines : file[k].next # NoNext})
           /\ turn_transitions = Cardinality(Turns)
<1>1. /\ RowsRead /\ PendingRead /\ EdgesEntered /\ ReadLines = DataLines
      /\ FileGraph.node = node_ids /\ Len(edges_) = Len(pending_edges)
  BY GraphIsFile DEF GraphInv, ParseInv, EdgesEntered
<1>2. ASSUME NEW k \in DataLines, file[k].next # NoNext
      PROVE  file[k].next \in node_ids
  <2>1. <<file[k].id, file[k].next>> \in FileGraph.edge
    BY <1>2 DEF FileGraph
  <2> QED BY <2>1, SearchGraph
<1>3. \A k \in DataLines : /\ file[k] # Header /\ RowParses(file[k])
                           /\ file[k].next \in FileGraph.node \cup {NoNext}
  BY <1>1, <1>2 DEF RowsRead
<1>4. Len(edges_) = Cardinality({k \in DataLines : file[k].next # NoNext})
  BY <1>1 DEF PendingRead, LinkLines
<1>5. turn_transitions = Cardinality(Turns)
  <2>1. ASSUME NEW i \in 2..(Len(route) - 1)
        PROVE  IsTurn(points_[route[i - 1]], points_[route[i]], points_[route[i + 1]])
                  <=> Bends(Position(Path[i - 1]), Position(Path[i]), Position(Path[i + 1]))
    <3>1. i - 1 \in 1..Len(route) /\ i \in 1..Len(route) /\ i + 1 \in 1..Len(route)
      BY RouteIsPath
    <3>2. /\ Path[i - 1] = route[i - 1] /\ route[i - 1] \in node_ids
          /\ Path[i] = route[i] /\ route[i] \in node_ids
          /\ Path[i + 1] = route[i + 1] /\ route[i + 1] \in node_ids
      BY <3>1, RouteIsPath
    <3>3. \A id \in node_ids : points_[id] = Position(id) /\ points_[id] \in Int \X Int
      BY PointsInPlace
    <3>4. /\ points_[route[i - 1]] = Position(Path[i - 1])
          /\ points_[route[i]] = Position(Path[i])
          /\ points_[route[i + 1]] = Position(Path[i + 1])
      BY <3>2, <3>3
    <3>5. /\ points_[route[i - 1]] \in Int \X Int /\ points_[route[i]] \in Int \X Int
          /\ points_[route[i + 1]] \in Int \X Int
      BY <3>2, <3>3
    <3> QED BY <3>4, <3>5, TurnIsBend
  <2>2. MiddlePoints = 2..(Len(Path) - 1)
    BY RouteIsPath DEF MiddlePoints
  <2> QED BY <2>1, <2>2 DEF turn_transitions, Turns, MiddlePoints
<1> QED BY <1>3, <1>4, <1>5

\* The values that the summary is compared with depend on the file alone.
LEMMA FileValues ==
    ASSUME file' = file
    PROVE  /\ {Class(n) : n \in FileGraph.node}' = {Class(n) : n \in FileGraph.node}
           /\ Turns' = Turns
           /\ {k \in DataLines : file[k].next # NoNext}'
                = {k \in DataLines : file[k].next # NoNext}
<1>1. /\ DataLines' = DataLines /\ FileGraph' = FileGraph
      /\ \A n : Class(n)' = Class(n)
  BY FileStays
<1>2. {Class(n) : n \in FileGraph.node}' = {Class(n) : n \in FileGraph.node}
  BY <1>1
<1>3. Path' = Path /\ \A id : Position(id)' = Position(id)
  BY <1>1 DEF Path, Position
<1>4. Turns' = Turns
  BY <1>3 DEF Turns
<1>5. {k \in DataLines : file[k].next # NoNext}' = {k \in DataLines : file[k].next # NoNext}
  BY <1>1
<1> QED BY <1>2, <1>4, <1>5

\* main prints the summary of the graph in the file.
LEMMA SummaryPrinted ==
    ASSUME GraphInv, state = "search", Searching, Summarize
    PROVE  ComponentsAreClasses' /\ SummaryMatchesFile'
<1> DEFINE classes == {Class(n) : n \in FileGraph.node}
           linked  == {k \in DataLines : file[k].next # NoNext}
           apart   == {n \in FileGraph.node : \A m \in FileGraph.node :
                          <<n, m>> \notin FileGraph.edge}
<1>1. /\ unvisited = {} /\ file' = file /\ graph' = graph
      /\ summary'[1] = [node_count |-> Cardinality(node_ids), edge_count |-> Len(edges_),
                        connected_components |-> components,
                        disconnected_segments |-> IF components > 0 THEN components - 1 ELSE 0,
                        turn_transitions |-> turn_transitions]
  BY DEF Summarize
<1>2. /\ DataLines' = DataLines /\ FileGraph' = FileGraph /\ classes' = classes
      /\ Turns' = Turns /\ linked' = linked
  BY <1>1, FileStays, FileValues
<1>3. components = Cardinality(classes) /\ IsFiniteSet(classes) /\ disconnected_nodes = apart
  BY <1>1, ClassesCounted
<1>4. disconnected_nodes' = disconnected_nodes /\ apart' = apart
  BY <1>1, <1>2 DEF disconnected_nodes, graph, node_ids
<1> HIDE DEF classes, linked, apart
<1>5. IF components > 0 THEN classes # {} ELSE classes = {}
  <2>1. Cardinality(classes) \in Nat /\ (Cardinality(classes) = 0 <=> classes = {})
    BY <1>3, FS_CardinalityType, FS_EmptySet
  <2> QED BY <1>3, <2>1
<1>6. /\ summary'[1].connected_components = Cardinality(classes)
      /\ summary'[1].disconnected_segments =
            IF classes = {} THEN 0 ELSE Cardinality(classes) - 1
  BY <1>1, <1>3, <1>5
<1>7. ComponentsAreClasses'
  BY <1>2, <1>3, <1>4, <1>6 DEF ComponentsAreClasses, classes, apart
<1>8. FileGraph.node = node_ids
  BY SearchGraph
<1>9. /\ summary'[1].node_count = Cardinality(FileGraph.node)
      /\ summary'[1].edge_count = Cardinality(linked)
      /\ summary'[1].turn_transitions = Cardinality(Turns)
  BY <1>1, <1>8, FileCounted DEF linked
<1>10. \A k \in DataLines : /\ file[k] # Header /\ RowParses(file[k])
                            /\ file[k].next \in FileGraph.node \cup {NoNext}
  BY FileCounted
<1>11. SummaryMatchesFile'
  BY <1>1, <1>2, <1>9, <1>10 DEF SummaryMatchesFile, linked
<1> QED BY <1>7, <1>11

LEMMA TrajectoryInit == Init => TrajectoryInv
<1> SUFFICES ASSUME Init PROVE TrajectoryInv
  OBVIOUS
<1>1. /\ file \in Seq({Blank, Header} \cup Row) /\ state = "parse" /\ line = 0
      /\ first_line = TRUE /\ points_ = <<>> /\ adjacency_ = <<>> /\ edges_ = <<>>
      /\ route = <<>> /\ pending_edges = <<>> /\ summary = <<>>
  BY TrajectoryConstants DEF Init
<1>2. LineTypes
  <2>1. Len(file) \in Nat
    BY <1>1
  <2>2. line \in 0..Len(file)
    BY <1>1, <2>1
  <2> QED BY <1>1, <2>2 DEF LineTypes
<1>3. ReadLines = {} /\ LinkLines = {} /\ Rank(DataLines, line) = 0
  <2>1. \A k \in DataLines : ~(k <= 0)
    BY <1>2, LinesOfFile
  <2>2. ReadLines = {}
    BY <1>1, <2>1 DEF ReadLines, UpTo
  <2>3. Rank(DataLines, line) = 0
    BY <2>2, FS_EmptySet DEF Rank, ReadLines
  <2> QED BY <2>2, <2>3 DEF LinkLines
<1>4. FirstLine /\ RowsRead /\ AllRead
  BY <1>1, <1>3 DEF FirstLine, RowsRead, AllRead
<1>5. node_ids = {} /\ DOMAIN adjacency_ = {}
  BY <1>1 DEF node_ids
<1>6. PointsRead
  BY <1>3, <1>5 DEF PointsRead
<1>7. RouteRead
  BY <1>1, <1>3 DEF RouteRead
<1>8. PendingRead
  <2>1. Range(<<>>) = {} /\ <<>> \in Seq(Nat \X Nat) /\ Len(<<>>) = 0
    BY DEF Range
  <2> QED BY <1>1, <1>3, <2>1, FS_EmptySet DEF PendingRead
<1>9. EdgesEntered /\ Adjacency
  BY <1>1, <1>5 DEF EdgesEntered, Adjacency
<1>10. BeforeSearch /\ ComponentsAreClasses /\ SummaryMatchesFile
  BY <1>1 DEF Init, BeforeSearch, ComponentsAreClasses, SummaryMatchesFile
<1> QED BY <1>1, <1>2, <1>4, <1>6, <1>7, <1>8, <1>9, <1>10 DEF TrajectoryInv, GraphInv, ParseInv

\* The search begins with nothing visited.
LEMMA SearchBegins ==
    ASSUME GraphInv, BeforeSearch, EdgesDone
    PROVE  Searching'
<1>1. /\ state = "edges" /\ unvisited' = node_ids /\ node_ids' = node_ids
      /\ UNCHANGED <<visited, components, pending, neighbors>>
  BY DEF EdgesDone, graph, node_ids
<1>2. visited' = {} /\ pending' = <<>> /\ neighbors' = <<>> /\ components' = 0
  BY <1>1 DEF BeforeSearch
<1>3. Range(<<>>) = {} /\ <<>> \in Seq(node_ids)
  BY DEF Range
<1>4. {Class(n) : n \in visited}' = {}
  BY <1>2
<1>5. components' = Cardinality({Class(n) : n \in visited}')
  BY <1>2, <1>4, FS_EmptySet
<1> QED BY <1>1, <1>2, <1>3, <1>5 DEF Searching

\* Every step keeps the invariant.
LEMMA TrajectoryStep == TrajectoryInv /\ [Next]_vars => TrajectoryInv'
<1> SUFFICES ASSUME TrajectoryInv, [Next]_vars PROVE TrajectoryInv'
  OBVIOUS
<1>1. /\ GraphInv /\ BeforeSearch /\ (state = "search" => Searching)
      /\ ComponentsAreClasses /\ SummaryMatchesFile
  BY DEF TrajectoryInv
<1>2. ASSUME summary' = <<>>  PROVE ComponentsAreClasses' /\ SummaryMatchesFile'
  BY <1>2 DEF ComponentsAreClasses, SummaryMatchesFile
<1>3. state # "exit0" => summary = <<>>
  BY <1>1 DEF BeforeSearch
<1>4. CASE OpenFails \/ RejectRow \/ EndOfFile \/ UnknownPoint
  <2>1. /\ UNCHANGED <<file, parser, graph, search, summary>>
        /\ state \in {"parse", "edges"} /\ state' \in {"exit1", "edges"}
        /\ state' = "edges" => state = "parse" /\ line = Len(file)
    BY <1>4 DEF OpenFails, RejectRow, EndOfFile, UnknownPoint, Reading
  <2>2. GraphInv'
    BY <1>1, <2>1, GraphStays
  <2>3. BeforeSearch' /\ summary' = <<>>
    BY <1>1, <2>1 DEF BeforeSearch, search
  <2> QED BY <1>2, <2>1, <2>2, <2>3 DEF TrajectoryInv
<1>5. CASE SkipLine \/ AddRow \/ AddEdge
  <2>1. UNCHANGED <<state, search, summary>> /\ state \in {"parse", "edges"}
    BY <1>5 DEF SkipLine, AddRow, AddEdge, Reading
  <2>2. GraphInv'
    BY <1>1, <1>5, GraphSkips, GraphAdds, GraphLinks
  <2>3. BeforeSearch' /\ summary' = <<>>
    BY <1>1, <2>1 DEF BeforeSearch, search
  <2> QED BY <1>2, <2>1, <2>2, <2>3 DEF TrajectoryInv
<1>6. CASE EdgesDone
  <2>1. /\ UNCHANGED <<file, parser, graph, summary>> /\ state = "edges" /\ state' = "search"
        /\ Len(edges_) = Len(pending_edges)
    BY <1>6 DEF EdgesDone
  <2>2. GraphInv'
    BY <1>1, <2>1, GraphStays
  <2>3. BeforeSearch' /\ summary' = <<>>
    BY <1>3, <2>1 DEF BeforeSearch
  <2> QED BY <1>1, <1>2, <1>6, <2>2, <2>3, SearchBegins DEF TrajectoryInv
<1>7. ASSUME state = "search", Searching', UNCHANGED <<file, state, parser, graph, summary>>
      PROVE  TrajectoryInv'
  <2>1. GraphInv'
    BY <1>1, <1>7, GraphStays
  <2>2. BeforeSearch' /\ summary' = <<>>
    BY <1>3, <1>7 DEF BeforeSearch
  <2> QED BY <1>2, <1>7, <2>1, <2>2 DEF TrajectoryInv
<1>8. ASSUME NEW id \in unvisited, Visit(id)  PROVE TrajectoryInv'
  <2>1. state = "search" /\ UNCHANGED <<file, state, parser, graph, summary>>
    BY <1>8 DEF Visit
  <2> QED BY <1>1, <1>7, <1>8, <2>1, SearchVisits
<1>9. CASE Expand
  <2>1. state = "search" /\ UNCHANGED <<file, state, parser, graph, summary>>
    BY <1>9 DEF Expand
  <2> QED BY <1>1, <1>7, <1>9, <2>1, SearchExpands
<1>10. CASE SeeNeighbor
  <2>1. state = "search" /\ UNCHANGED <<file, state, parser, graph, summary>>
    BY <1>10 DEF SeeNeighbor
  <2> QED BY <1>1, <1>7, <1>10, <2>1, SearchSees
<1>11. CASE Summarize
  <2>1. /\ UNCHANGED <<file, parser, graph, search>> /\ state = "search" /\ state' = "exit0"
    BY <1>11 DEF Summarize
  <2>2. GraphInv'
    BY <1>1, <2>1, GraphStays
  <2>3. BeforeSearch'
    BY <2>1 DEF BeforeSearch
  <2>4. ComponentsAreClasses' /\ SummaryMatchesFile'
    BY <1>1, <1>11, <2>1, SummaryPrinted
  <2> QED BY <2>1, <2>2, <2>3, <2>4 DEF TrajectoryInv
<1>12. CASE UNCHANGED vars
  <2>1. /\ UNCHANGED <<file, state, parser, graph, search, summary>>
        /\ node_ids' = node_ids
    BY <1>12 DEF vars, graph, node_ids
  <2>2. GraphInv' /\ BeforeSearch'
    BY <1>1, <2>1, GraphStays DEF BeforeSearch, search
  <2>3. FileGraph' = FileGraph /\ DataLines' = DataLines /\ \A n : Class(n)' = Class(n)
    BY <2>1, FileStays
  <2>4. state = "search" => Searching'
    <3>1. {Class(n) : n \in visited}' = {Class(n) : n \in visited}
      BY <2>1, <2>3 DEF search
    <3> QED BY <1>1, <2>1, <2>3, <3>1 DEF Searching, search
  <2>5. ComponentsAreClasses'
    <3>1. disconnected_nodes' = disconnected_nodes
      BY <2>1 DEF disconnected_nodes, graph
    <3>2. {Class(n) : n \in FileGraph.node}' = {Class(n) : n \in FileGraph.node}
      BY <2>1, FileValues
    <3> QED BY <1>1, <2>1, <2>3, <3>1, <3>2 DEF ComponentsAreClasses
  <2>6. SummaryMatchesFile'
    <3>1. /\ Turns' = Turns
          /\ {k \in DataLines : file[k].next # NoNext}'
                = {k \in DataLines : file[k].next # NoNext}
      BY <2>1, FileValues
    <3> QED BY <1>1, <2>1, <2>3, <3>1 DEF SummaryMatchesFile
  <2> QED BY <2>1, <2>2, <2>4, <2>5, <2>6 DEF TrajectoryInv
<1> QED
  BY <1>4, <1>5, <1>6, <1>8, <1>9, <1>10, <1>11, <1>12 DEF Next

\* connected_components counts the classes of connected points of every file,
\* of any size, in whatever order the hash table is walked.
THEOREM ComponentsCounted == Spec => []ComponentsAreClasses
<1>1. TrajectoryInv => ComponentsAreClasses
  BY DEF TrajectoryInv
<1> QED BY TrajectoryInit, TrajectoryStep, <1>1, PTL DEF Spec

\* A summary is printed only for a file that parses and whose edges name its
\* points, and its counts of points, edges and turns are those of the file.
THEOREM SummaryOfFile == Spec => []SummaryMatchesFile
<1>1. TrajectoryInv => SummaryMatchesFile
  BY DEF TrajectoryInv
<1> QED BY TrajectoryInit, TrajectoryStep, <1>1, PTL DEF Spec
=============================================================================
