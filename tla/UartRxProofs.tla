----------------------------- MODULE UartRxProofs -----------------------------
(***************************************************************************)
(* The receive path keeps its promises for every size of the ring, of its  *)
(* indices and of the hardware FIFO, and for any number of bytes.          *)
(*                                                                         *)
(* rx_head and rx_tail run freely and wrap at IndexMod, the ring is        *)
(* addressed modulo Capacity, and Capacity divides IndexMod: the proofs    *)
(* rest on arithmetic modulo these two, which comes first.                 *)
(***************************************************************************)
EXTENDS UartRx, SequenceTheorems, TLAPS

(* Arithmetic modulo n *)

LEMMA Division ==
  ASSUME NEW x \in Int, NEW n \in Nat \ {0}
  PROVE  /\ x % n \in 0 .. n - 1
         /\ x \div n \in Int
         /\ x = n * (x \div n) + (x % n)
OBVIOUS

LEMMA ModUnique ==
  ASSUME NEW n \in Nat \ {0}, NEW x \in Int, NEW q \in Int, NEW r \in 0 .. n - 1,
         x = n * q + r
  PROVE  x % n = r
<1> DEFINE p == x \div n
           s == x % n
<1>1. s \in 0 .. n - 1 /\ p \in Int /\ x = n * p + s
  BY Division
<1>2. n * p + s = n * q + r
  BY <1>1
<1> HIDE DEF p, s
<1>3. ASSUME NEW a \in Int, NEW b \in Int, NEW u \in 0 .. n - 1, NEW v \in 0 .. n - 1,
             n * a + u = n * b + v, a < b
      PROVE  FALSE
  <2>1. n * a + n <= n * b
    <3>1. n * (b - a) >= n * 1
      BY <1>3
    <3> QED BY <3>1, <1>3
  <2> QED BY <2>1, <1>3
<1>4. ~(p < q) /\ ~(q < p)
  BY <1>1, <1>2, <1>3
<1>5. p = q
  BY <1>4, <1>1
<1> QED BY <1>2, <1>5, <1>1 DEF p, s

(* Numbers a multiple of n apart are equal modulo n. *)
LEMMA ModPeriod ==
  ASSUME NEW n \in Nat \ {0}, NEW x \in Int, NEW y \in Int,
         \E q \in Int : y = x + n * q
  PROVE  y % n = x % n
<1> DEFINE p == x \div n
           s == x % n
<1>1. s \in 0 .. n - 1 /\ p \in Int /\ x = n * p + s
  BY Division
<1>2. PICK q \in Int : y = x + n * q
  OBVIOUS
<1> HIDE DEF p, s
<1>3. y = n * (p + q) + s
  BY <1>1, <1>2
<1>4. p + q \in Int
  BY <1>1
<1>5. y % n = s
  BY <1>1, <1>3, <1>4, ModUnique
<1> QED BY <1>5 DEF s

LEMMA ModAdd ==
  ASSUME NEW n \in Nat \ {0}, NEW x \in Int, NEW y \in Int
  PROVE  ((x % n) + y) % n = (x + y) % n
<1> DEFINE p == x \div n
           s == x % n
           a == s + y
           b == x + y
<1>1. s \in 0 .. n - 1 /\ p \in Int /\ x = n * p + s
  BY Division
<1>2. a \in Int /\ b \in Int /\ b = a + n * p
  BY <1>1
<1> HIDE DEF a, b, p
<1>3. b % n = a % n
  BY <1>1, <1>2, ModPeriod
<1> QED BY <1>3 DEF a, b

LEMMA ModMod ==
  ASSUME NEW n \in Nat \ {0}, NEW k \in Nat \ {0}, k % n = 0, NEW x \in Int
  PROVE  (x % k) % n = x % n
<1> DEFINE m == k \div n
           p == x \div k
           s == x % k
<1>1. m \in Int /\ k = n * m
  <2>1. k \in Int
    OBVIOUS
  <2> QED BY <2>1, Division
<1>2. s \in Int /\ p \in Int /\ x = k * p + s
  BY Division
<1> HIDE DEF m, p, s
<1>3. x = s + n * (m * p)
  <2>1. k * p = n * (m * p)
    BY <1>1, <1>2
  <2> QED BY <2>1, <1>2
<1>4. m * p \in Int
  BY <1>1, <1>2
<1>5. x % n = s % n
  BY <1>2, <1>3, <1>4, ModPeriod
<1> QED BY <1>5 DEF s

LEMMA ModApart ==
  ASSUME NEW n \in Nat \ {0}, NEW x \in Int, NEW d \in 1 .. n - 1
  PROVE  (x + d) % n # x % n
<1> DEFINE s == x % n
           p == x \div n
           y == x + d
<1>1. s \in 0 .. n - 1 /\ p \in Int /\ x = n * p + s
  BY Division
<1>2. y \in Int /\ y = n * p + s + d
  BY <1>1
<1> HIDE DEF s, p, y
<1>3. CASE s + d < n
  <2>1. s + d \in 0 .. n - 1 /\ y = n * p + (s + d)
    BY <1>1, <1>2, <1>3
  <2>2. y % n = s + d
    BY <1>1, <1>2, <2>1, ModUnique
  <2> QED BY <2>2, <1>1 DEF s, y
<1>4. CASE s + d >= n
  <2>1. s + d - n \in 0 .. n - 1 /\ y = n * (p + 1) + (s + d - n) /\ p + 1 \in Int
    BY <1>1, <1>2, <1>4
  <2>2. y % n = s + d - n
    BY <1>2, <2>1, ModUnique
  <2> QED BY <2>2, <1>1 DEF s, y
<1> QED BY <1>1, <1>3, <1>4
-----------------------------------------------------------------------------
(* The bytes in the ring are bytes that arrived before those in the FIFO,   *)
(* and those are there in the order they arrived.                           *)
BytesInOrder ==
    /\ \A i \in 1 .. Used : Ring[i] \in 1 .. arrived
    /\ \A j \in 1 .. Len(fifo) : fifo[j].byte \in 1 .. arrived
    /\ \A i \in 1 .. Used : \A j \in 1 .. Len(fifo) : Ring[i] < fifo[j].byte
    /\ \A j, k \in 1 .. Len(fifo) : j < k => fifo[j].byte < fifo[k].byte

(* Each byte is counted once, and none is dropped while there is room.      *)
Counted ==
    /\ rx_bytes + Len(fifo) <= arrived
    /\ rx_overflows <= rx_bytes
    /\ Used <= rx_high_watermark
    /\ rx_head = (rx_bytes - rx_overflows) % IndexMod
    /\ rx_overflows > 0 => rx_high_watermark = Capacity

(* Between its check and the end of rx_buffer_pop uart_getc has a byte: the *)
(* handler only adds to the ring, and never over the oldest one.            *)
ByteInHand ==
    /\ getc \in {"read", "take"} => Used # 0
    /\ getc = "take" => value = Oldest

(* Once uart_getc found the ring empty, a byte that is in it again has left *)
(* an event, or its handler is still to execute SEV.                        *)
WakeUpComes ==
    /\ isr \in {"init drain", "init clear", "init unmask"} => getc = "idle"
    /\ getc \in {"wfe", "asleep"} /\ ~event /\ rx_head # rx_tail
           => isr \in {"drain", "exit"} /\ received

IInv == TypeOK /\ BytesInOrder /\ Counted /\ ByteInHand /\ WakeUpComes

-----------------------------------------------------------------------------
(* The indices *)

LEMMA Successor ==
  ASSUME NEW x \in 0 .. IndexMod - 1
  PROVE  (x + 1) % IndexMod = IF x + 1 < IndexMod THEN x + 1 ELSE 0
<1>1. IndexMod \in Nat \ {0} /\ x + 1 \in Int
  BY UartAssumption
<1>2. CASE x + 1 < IndexMod
  BY <1>1, <1>2, ModUnique, x + 1 = IndexMod * 0 + (x + 1)
<1>3. CASE x + 1 >= IndexMod
  BY <1>1, <1>3, ModUnique, x + 1 = IndexMod * 1 + 0
<1> QED
  BY <1>1, <1>2, <1>3

LEMMA Difference ==
  ASSUME NEW x \in 0 .. IndexMod - 1, NEW y \in 0 .. IndexMod - 1
  PROVE  (x - y) % IndexMod = IF y <= x THEN x - y ELSE x - y + IndexMod
<1>1. IndexMod \in Nat \ {0} /\ x - y \in Int
  BY UartAssumption
<1>2. CASE y <= x
  BY <1>1, <1>2, ModUnique, x - y = IndexMod * 0 + (x - y)
<1>3. CASE x < y
  BY <1>1, <1>3, ModUnique, x - y = IndexMod * (-1) + (x - y + IndexMod)
<1> QED
  BY <1>1, <1>2, <1>3

(* The place of an index in the ring does not change when the index wraps.  *)
LEMMA PlaceWraps ==
  ASSUME NEW x \in Int
  PROVE  /\ (x % IndexMod) % Capacity = x % Capacity
         /\ (x + IndexMod) % Capacity = x % Capacity
         /\ x % Capacity \in 0 .. Capacity - 1
<1>1. Capacity \in Nat \ {0} /\ IndexMod \in Nat \ {0} /\ IndexMod % Capacity = 0
  BY UartAssumption
<1>2. (x % IndexMod) % Capacity = x % Capacity
  BY <1>1, ModMod
<1>3. ((x + IndexMod) % IndexMod) % Capacity = (x + IndexMod) % Capacity
  BY <1>1, x + IndexMod \in Int, ModMod
<1>4. (x + IndexMod) % IndexMod = x % IndexMod
  <2> DEFINE y == x + IndexMod
  <2>1. y \in Int /\ y = x + IndexMod * 1
    BY <1>1
  <2> HIDE DEF y
  <2>2. \E q \in Int : y = x + IndexMod * q
    <3> WITNESS 1 \in Int
    <3> QED
      BY <2>1
  <2>3. y % IndexMod = x % IndexMod
    BY <1>1, <2>1, <2>2, ModPeriod
  <2> QED
    BY <2>3 DEF y
<1> QED
  BY <1>1, <1>2, <1>3, <1>4, Division

LEMMA Indices ==
  ASSUME TypeOK
  PROVE  /\ Used \in 0 .. IndexMod - 1
         /\ Used = 0 <=> rx_head = rx_tail
         /\ rx_head % Capacity = (rx_tail + Used) % Capacity
<1>1. rx_head \in 0 .. IndexMod - 1 /\ rx_tail \in 0 .. IndexMod - 1
  BY DEF TypeOK
<1>2. Used = IF rx_tail <= rx_head THEN rx_head - rx_tail
                                   ELSE rx_head - rx_tail + IndexMod
  BY <1>1, Difference DEF Used
<1>3. Used \in 0 .. IndexMod - 1 /\ (Used = 0 <=> rx_head = rx_tail)
  BY <1>1, <1>2, UartAssumption
<1>4. rx_tail + Used = rx_head \/ rx_tail + Used = rx_head + IndexMod
  BY <1>1, <1>2, UartAssumption
<1> QED
  <2>1. rx_head \in Int /\ rx_tail + Used \in Int
    BY <1>1, <1>3
  <2>2. (rx_head + IndexMod) % Capacity = rx_head % Capacity
    BY <2>1, PlaceWraps
  <2> QED
    BY <1>1, <1>3, <1>4, <2>2

(* The ring after a byte was pushed: one longer, the older bytes in place. *)
LEMMA Pushed ==
  ASSUME TypeOK, Used < Capacity, NEW b \in Byte,
         rx_buffer' = [rx_buffer EXCEPT ![rx_head % Capacity] = b],
         rx_head' = (rx_head + 1) % IndexMod,
         rx_tail' = rx_tail
  PROVE  /\ rx_buffer' \in [0 .. Capacity - 1 -> Byte \cup {NoByte}]
         /\ rx_head' \in 0 .. IndexMod - 1
         /\ Used' = Used + 1
         /\ \A i \in 1 .. Used : Ring'[i] = Ring[i]
         /\ Ring'[Used + 1] = b
         /\ Used # 0 => Oldest' = Oldest
<1>1. /\ rx_head \in 0 .. IndexMod - 1 /\ rx_tail \in 0 .. IndexMod - 1
      /\ rx_buffer \in [0 .. Capacity - 1 -> Byte \cup {NoByte}]
      /\ Capacity \in Nat \ {0} /\ IndexMod \in Nat /\ Capacity < IndexMod
  BY UartAssumption DEF TypeOK
<1>2. Used \in Nat /\ rx_head % Capacity = (rx_tail + Used) % Capacity
  BY Indices
<1>3. rx_head' = IF rx_head + 1 < IndexMod THEN rx_head + 1 ELSE 0
  BY <1>1, Successor
<1>4. rx_head' \in 0 .. IndexMod - 1
  BY <1>1, <1>3
<1>5. Used = IF rx_tail <= rx_head THEN rx_head - rx_tail
                                   ELSE rx_head - rx_tail + IndexMod
  BY <1>1, Difference DEF Used
<1>6. Used' = IF rx_tail <= rx_head' THEN rx_head' - rx_tail
                                     ELSE rx_head' - rx_tail + IndexMod
  <2>1. Used' = (rx_head' - rx_tail) % IndexMod
    BY DEF Used
  <2> QED
    BY <1>1, <1>4, <2>1, Difference
<1>7. Used' = Used + 1
  BY <1>1, <1>3, <1>5, <1>6
<1>8. ASSUME NEW i \in Int, 0 <= i, i < Used
      PROVE  (rx_tail + Used) % Capacity # (rx_tail + i) % Capacity
  <2> DEFINE x == rx_tail + i
             d == Used - i
  <2>1. x \in Int /\ d \in 1 .. Capacity - 1 /\ x + d = rx_tail + Used
    BY <1>1, <1>2, <1>8
  <2> HIDE DEF x, d
  <2>2. (x + d) % Capacity # x % Capacity
    BY <1>1, <2>1, ModApart
  <2> QED
    BY <2>1, <2>2 DEF x
<1>9. ASSUME NEW i \in 1 .. Used
      PROVE  Ring'[i] = Ring[i]
  <2>1. /\ Ring[i] = rx_buffer[(rx_tail + i - 1) % Capacity]
        /\ Ring'[i] = rx_buffer'[(rx_tail + i - 1) % Capacity]
    BY <1>2, <1>7 DEF Ring
  <2>2. rx_tail + i - 1 \in Int /\ (rx_tail + i - 1) % Capacity # rx_head % Capacity
    <3> DEFINE h == i - 1
    <3>1. h \in Int /\ 0 <= h /\ h < Used /\ rx_tail + i - 1 = rx_tail + h
      BY <1>1, <1>2
    <3> HIDE DEF h
    <3>2. (rx_tail + Used) % Capacity # (rx_tail + h) % Capacity
      BY <1>8, <3>1
    <3> QED
      BY <1>1, <1>2, <3>1, <3>2
  <2>3. (rx_tail + i - 1) % Capacity \in 0 .. Capacity - 1
    BY <2>2, PlaceWraps
  <2> QED
    BY <1>1, <2>1, <2>2, <2>3
<1>10. Ring'[Used + 1] = b
  <2>1. Ring'[Used + 1] = rx_buffer'[(rx_tail + (Used + 1) - 1) % Capacity]
    BY <1>2, <1>7 DEF Ring
  <2>2. rx_tail + (Used + 1) - 1 = rx_tail + Used
    BY <1>1, <1>2
  <2>3. rx_head % Capacity \in 0 .. Capacity - 1
    BY <1>1, rx_head \in Int, PlaceWraps
  <2> QED
    BY <1>1, <1>2, <2>1, <2>2, <2>3
<1>11. ASSUME Used # 0
       PROVE  Oldest' = Oldest
  <2>1. rx_tail % Capacity # rx_head % Capacity
    BY <1>1, <1>2, <1>8, <1>11, rx_tail + 0 = rx_tail
  <2>2. rx_tail % Capacity \in 0 .. Capacity - 1
    BY <1>1, rx_tail \in Int, PlaceWraps
  <2> QED
    BY <1>1, <2>1, <2>2 DEF Oldest
<1>12. rx_buffer' \in [0 .. Capacity - 1 -> Byte \cup {NoByte}]
  BY <1>1
<1> QED
  BY <1>4, <1>7, <1>9, <1>10, <1>11, <1>12

(* The ring after the oldest byte was taken out.                            *)
LEMMA Popped ==
  ASSUME TypeOK, Used # 0, Used <= Capacity,
         rx_tail' = (rx_tail + 1) % IndexMod,
         rx_head' = rx_head, rx_buffer' = rx_buffer
  PROVE  /\ rx_tail' \in 0 .. IndexMod - 1
         /\ Used' = Used - 1
         /\ Ring[1] = Oldest
         /\ \A i \in 1 .. Used - 1 : Ring'[i] = Ring[i + 1]
<1>1. /\ rx_head \in 0 .. IndexMod - 1 /\ rx_tail \in 0 .. IndexMod - 1
      /\ Capacity \in Nat \ {0} /\ IndexMod \in Nat /\ Capacity < IndexMod
  BY UartAssumption DEF TypeOK
<1>2. Used \in Nat \ {0}
  BY Indices
<1>3. rx_tail' = IF rx_tail + 1 < IndexMod THEN rx_tail + 1 ELSE 0
  BY <1>1, Successor
<1>4. rx_tail' \in 0 .. IndexMod - 1
  BY <1>1, <1>3
<1>5. Used = IF rx_tail <= rx_head THEN rx_head - rx_tail
                                   ELSE rx_head - rx_tail + IndexMod
  BY <1>1, Difference DEF Used
<1>6. Used' = IF rx_tail' <= rx_head THEN rx_head - rx_tail'
                                     ELSE rx_head - rx_tail' + IndexMod
  <2>1. Used' = (rx_head - rx_tail') % IndexMod
    BY DEF Used
  <2> QED
    BY <1>1, <1>4, <2>1, Difference
<1>7. Used' = Used - 1
  BY <1>1, <1>2, <1>3, <1>5, <1>6
<1>8. Ring[1] = Oldest
  BY <1>1, <1>2, rx_tail + 1 - 1 = rx_tail DEF Ring, Oldest
<1>9. ASSUME NEW i \in 1 .. Used - 1
      PROVE  Ring'[i] = Ring[i + 1]
  <2>1. /\ Ring[i + 1] = rx_buffer[(rx_tail + (i + 1) - 1) % Capacity]
        /\ Ring'[i] = rx_buffer[(rx_tail' + i - 1) % Capacity]
    BY <1>2, <1>7 DEF Ring
  <2>2. rx_tail + (i + 1) - 1 = rx_tail + i /\ rx_tail + i \in Int
    BY <1>1, <1>2
  <2>3. (rx_tail' + i - 1) % Capacity = (rx_tail + i) % Capacity
    <3>1. \/ rx_tail' + i - 1 = rx_tail + i
          \/ (rx_tail' + i - 1) + IndexMod = rx_tail + i
      BY <1>1, <1>3
    <3>2. rx_tail' + i - 1 \in Int
      BY <1>4
    <3> QED
      BY <3>1, <3>2, PlaceWraps
  <2> QED
    BY <2>1, <2>2, <2>3
<1> QED
  BY <1>4, <1>7, <1>8, <1>9
-----------------------------------------------------------------------------
(* Every action keeps the invariant *)

Entry == [byte : Byte, bad : BOOLEAN]

LEMMA InitHolds == Init => IInv
<1> SUFFICES ASSUME Init PROVE IInv
  OBVIOUS
<1>1. /\ Capacity \in Nat \ {0} /\ IndexMod \in Nat \ {0} /\ MaxBytes \in Nat
      /\ FifoDepth \in Nat \ {0}
  BY UartAssumption
<1>2. 0 % IndexMod = 0
  BY <1>1, ModUnique, 0 = IndexMod * 0 + 0
<1>3. rx_head = 0 /\ rx_tail = 0 /\ Used = 0
  <2>1. rx_head = 0 /\ rx_tail = 0
    BY DEF Init
  <2>2. 0 - 0 = 0
    OBVIOUS
  <2> QED
    BY <1>2, <2>1, <2>2 DEF Used
<1>4. fifo = <<>> /\ <<>> \in Seq([byte : Byte, bad : BOOLEAN]) /\ Len(<<>>) = 0
  BY EmptySeq DEF Init
<1>5. TypeOK
  <2>1. rx_buffer \in [0 .. Capacity - 1 -> Byte \cup {NoByte}]
    BY DEF Init
  <2>2. 0 \in 0 .. IndexMod - 1 /\ 0 \in 0 .. Capacity /\ 0 \in 0 .. MaxBytes
    BY <1>1
  <2>3. {rx_status, armed, error_status, pending_error, received, event, silenced}
            \subseteq BOOLEAN
    BY DEF Init
  <2>4. rx_interrupts = 0 /\ rx_bytes = 0 /\ rx_overflows = 0 /\ rx_errors = 0
    BY DEF Init
  <2>5. {rx_interrupts, rx_bytes, rx_overflows, rx_errors} \subseteq Nat
    BY <2>4
  <2>6. /\ isr = "init drain" /\ getc = "idle" /\ value = NoByte /\ returned = NoByte
        /\ arrived = 0 /\ rx_high_watermark = 0
    BY DEF Init
  <2>7. Len(<<>>) <= FifoDepth
    BY <1>1, <1>4
  <2> QED
    BY <1>3, <1>4, <2>1, <2>2, <2>3, <2>5, <2>6, <2>7, Zenon DEF TypeOK
<1>6. BytesInOrder
  BY <1>3, <1>4 DEF BytesInOrder
<1>7. Counted
  <2>1. /\ rx_bytes = 0 /\ rx_overflows = 0 /\ arrived = 0 /\ rx_high_watermark = 0
    BY DEF Init
  <2> QED
    BY <1>2, <1>3, <1>4, <2>1 DEF Counted
<1>8. ByteInHand /\ WakeUpComes
  BY DEF Init, ByteInHand, WakeUpComes
<1> QED
  BY <1>5, <1>6, <1>7, <1>8 DEF IInv

(* The actions that leave the FIFO, the ring and its counters alone.        *)
Quiet == UNCHANGED <<fifo, arrived, ringVars, rx_bytes, rx_overflows>>

LEMMA QuietKeeps ==
  ASSUME IInv, Quiet
  PROVE  BytesInOrder' /\ Counted' /\ Used' = Used /\ Oldest' = Oldest /\ Ring' = Ring
<1>1. Used' = Used /\ Oldest' = Oldest /\ Ring' = Ring
  BY DEF Quiet, ringVars, Used, Oldest, Ring
<1> QED
  BY <1>1 DEF IInv, BytesInOrder, Counted, Quiet, ringVars

LEMMA HardwareKeeps ==
  ASSUME IInv, Arrive \/ ReceiveTimeout \/ OtherEvent
  PROVE  IInv'
<1> USE DEF IInv, hardwareVars, ringVars, countVars, isrVars, getcVars
<1>1. CASE Arrive
  <2> USE <1>1 DEF Arrive
  <2>1. arrived \in Nat /\ arrived + 1 \in 1 .. MaxBytes /\ arrived' = arrived + 1
    <3>1. arrived \in 0 .. MaxBytes /\ MaxBytes \in Nat
      BY UartAssumption DEF TypeOK
    <3> QED
      BY <3>1
  <2>2. Used' = Used /\ Ring' = Ring /\ Oldest' = Oldest
    BY DEF Used, Ring, Oldest
  <2>3. fifo \in Seq(Entry) /\ Len(fifo) \in Nat /\ Len(fifo) <= FifoDepth
    BY LenProperties DEF TypeOK, Entry
  <2>4. /\ fifo' \in Seq(Entry) /\ Len(fifo') <= FifoDepth
        /\ Len(fifo') \in {Len(fifo), Len(fifo) + 1}
        /\ \A j \in 1 .. Len(fifo) : fifo'[j] = fifo[j]
        /\ Len(fifo') = Len(fifo) + 1 => fifo'[Len(fifo) + 1].byte = arrived + 1
    <3>1. CASE Len(fifo) < FifoDepth
      <4>1. PICK bad \in BOOLEAN : fifo' = Append(fifo, [byte |-> arrived + 1, bad |-> bad])
        BY <3>1
      <4> DEFINE e == [byte |-> arrived + 1, bad |-> bad]
      <4>2. e \in Entry /\ e.byte = arrived + 1
        BY <2>1 DEF Entry, Byte
      <4> HIDE DEF e
      <4>3. fifo' = Append(fifo, e)
        BY <4>1 DEF e
      <4>4. /\ Append(fifo, e) \in Seq(Entry)
            /\ Len(Append(fifo, e)) = Len(fifo) + 1
            /\ \A j \in 1 .. Len(fifo) : Append(fifo, e)[j] = fifo[j]
            /\ Append(fifo, e)[Len(fifo) + 1] = e
        BY <2>3, <4>2, AppendProperties
      <4> QED
        BY <2>3, <3>1, <4>2, <4>3, <4>4, UartAssumption
    <3>2. CASE ~(Len(fifo) < FifoDepth)
      BY <2>3, <3>2
    <3> QED
      BY <3>1, <3>2
  <2>5. TypeOK'
    <3>1. rx_status' \in BOOLEAN /\ error_status' \in BOOLEAN /\ armed' \in BOOLEAN
      BY UartAssumption DEF TypeOK
    <3>2. {rx_status', armed', error_status', pending_error', received', event', silenced'}
              \subseteq BOOLEAN
      BY <3>1 DEF TypeOK
    <3>3. arrived' \in 0 .. MaxBytes
      BY <2>1
    <3>4. /\ isr' = isr /\ rx_buffer' = rx_buffer /\ rx_head' = rx_head
          /\ rx_tail' = rx_tail /\ rx_high_watermark' = rx_high_watermark
          /\ rx_interrupts' = rx_interrupts /\ rx_bytes' = rx_bytes
          /\ rx_overflows' = rx_overflows /\ rx_errors' = rx_errors
          /\ getc' = getc /\ value' = value /\ returned' = returned
      OBVIOUS
    <3> HIDE <1>1 DEF Arrive
    <3> QED
      BY <2>4, <3>2, <3>3, <3>4 DEF TypeOK, Entry
  <2>6. BytesInOrder'
    <3>1. \A j \in 1 .. Len(fifo') : \/ j \in 1 .. Len(fifo) /\ fifo'[j] = fifo[j]
                                     \/ j = Len(fifo) + 1 /\ fifo'[j].byte = arrived + 1
      BY <2>3, <2>4
    <3>2. \A i \in 1 .. Used : Ring[i] \in 1 .. arrived
      BY DEF BytesInOrder
    <3>3. \A j \in 1 .. Len(fifo) : fifo[j].byte \in 1 .. arrived
      BY DEF BytesInOrder
    <3>4. \A j \in 1 .. Len(fifo') : fifo'[j].byte \in 1 .. arrived + 1
      BY <2>1, <3>1, <3>3
    <3>5. \A i \in 1 .. Used : \A j \in 1 .. Len(fifo') : Ring[i] < fifo'[j].byte
      BY <2>1, <3>1, <3>2 DEF BytesInOrder
    <3>6. \A j, k \in 1 .. Len(fifo') : j < k => fifo'[j].byte < fifo'[k].byte
      BY <2>1, <2>3, <3>1, <3>3 DEF BytesInOrder
    <3> QED
      BY <2>1, <2>2, <3>2, <3>4, <3>5, <3>6 DEF BytesInOrder
  <2>7. Counted'
    <3>1. rx_bytes \in Nat /\ rx_bytes + Len(fifo) <= arrived
      BY DEF Counted, TypeOK
    <3>2. rx_bytes' + Len(fifo') <= arrived'
      BY <2>1, <2>3, <2>4, <3>1
    <3> QED
      BY <2>2, <3>2 DEF Counted
  <2>8. ByteInHand' /\ WakeUpComes'
    BY <2>2 DEF ByteInHand, WakeUpComes
  <2> QED
    BY <2>5, <2>6, <2>7, <2>8
<1>2. CASE ReceiveTimeout \/ OtherEvent
  <2> USE <1>2 DEF ReceiveTimeout, OtherEvent
  <2>1. BytesInOrder' /\ Counted' /\ Used' = Used /\ Oldest' = Oldest
    BY QuietKeeps DEF Quiet
  <2>2. TypeOK'
    BY DEF TypeOK
  <2>3. ByteInHand' /\ WakeUpComes'
    BY <2>1 DEF ByteInHand, WakeUpComes
  <2> QED
    BY <2>1, <2>2, <2>3
<1> QED
  BY <1>1, <1>2

(* uart_init and the handler, apart from the loop that reads the FIFO *)
LEMMA IsrKeeps ==
  ASSUME IInv, uart_init \/ IsrEnter \/ IsrClear \/ IsrDrained \/ IsrExit
  PROVE  IInv'
<1> USE DEF IInv, hardwareVars, ringVars, countVars, isrVars, getcVars
<1>1. CASE InitClear
  <2> USE <1>1 DEF InitClear
  <2>1. BytesInOrder' /\ Counted' /\ Used' = Used /\ Oldest' = Oldest
    BY QuietKeeps DEF Quiet
  <2>2. TypeOK'
    BY DEF TypeOK
  <2>3. ByteInHand' /\ WakeUpComes'
    BY <2>1 DEF ByteInHand, WakeUpComes
  <2> QED
    BY <2>1, <2>2, <2>3
<1>2. CASE InitUnmask
  <2> USE <1>2 DEF InitUnmask
  <2>1. BytesInOrder' /\ Counted' /\ Used' = Used /\ Oldest' = Oldest
    BY QuietKeeps DEF Quiet
  <2>2. TypeOK'
    BY DEF TypeOK
  <2>3. ByteInHand' /\ WakeUpComes'
    BY <2>1 DEF ByteInHand, WakeUpComes
  <2> QED
    BY <2>1, <2>2, <2>3
<1>3. CASE IsrEnter
  <2> USE <1>3 DEF IsrEnter
  <2>1. BytesInOrder' /\ Counted' /\ Used' = Used /\ Oldest' = Oldest
    BY QuietKeeps DEF Quiet
  <2>2. TypeOK'
    <3>1. rx_interrupts \in Nat /\ rx_interrupts' = rx_interrupts + 1
      BY DEF TypeOK
    <3>2. rx_interrupts' \in Nat
      BY ONLY <3>1
    <3> QED
      BY <3>2 DEF TypeOK
  <2>3. ByteInHand' /\ WakeUpComes'
    BY <2>1 DEF ByteInHand, WakeUpComes
  <2> QED
    BY <2>1, <2>2, <2>3
<1>4. CASE IsrClear
  <2> USE <1>4 DEF IsrClear
  <2>1. BytesInOrder' /\ Counted' /\ Used' = Used /\ Oldest' = Oldest
    BY QuietKeeps DEF Quiet
  <2>2. TypeOK'
    BY DEF TypeOK
  <2>3. ByteInHand' /\ WakeUpComes'
    BY <2>1 DEF ByteInHand, WakeUpComes
  <2> QED
    BY <2>1, <2>2, <2>3
<1>5. CASE IsrDrained
  <2> USE <1>5 DEF IsrDrained
  <2>1. BytesInOrder' /\ Counted' /\ Used' = Used /\ Oldest' = Oldest
    BY QuietKeeps DEF Quiet
  <2>2. TypeOK'
    BY DEF TypeOK
  <2>3. ByteInHand' /\ WakeUpComes'
    BY <2>1 DEF ByteInHand, WakeUpComes
  <2> QED
    BY <2>1, <2>2, <2>3
<1>6. CASE IsrExit
  <2> USE <1>6 DEF IsrExit, Sev
  <2>1. BytesInOrder' /\ Counted' /\ Used' = Used /\ Oldest' = Oldest
    BY QuietKeeps DEF Quiet
  <2>2. TypeOK'
    <3>1. event' \in BOOLEAN
      BY DEF TypeOK
    <3> QED
      BY <3>1 DEF TypeOK
  <2>3. ByteInHand' /\ WakeUpComes'
    BY <2>1 DEF ByteInHand, WakeUpComes
  <2> QED
    BY <2>1, <2>2, <2>3
<1> QED
  BY <1>1, <1>2, <1>3, <1>4, <1>5, <1>6 DEF uart_init

(* The loop takes the oldest byte of the FIFO, which is younger than every  *)
(* byte of the ring.                                                        *)
LEMMA FirstOut ==
  ASSUME IInv, fifo # <<>>, fifo' = Tail(fifo)
  PROVE  /\ Len(fifo) \in Nat \ {0}
         /\ Head(fifo) = fifo[1] /\ Head(fifo) \in Entry
         /\ fifo' \in Seq(Entry) /\ Len(fifo') = Len(fifo) - 1
         /\ \A j \in 1 .. Len(fifo') : fifo'[j] = fifo[j + 1]
         /\ \A j \in 1 .. Len(fifo') :
               /\ fifo'[j].byte \in 1 .. arrived
               /\ Head(fifo).byte < fifo'[j].byte
<1>1. fifo \in Seq(Entry)
  BY DEF IInv, TypeOK, Entry
<1>2. /\ Head(fifo) \in Entry
      /\ fifo' \in Seq(Entry) /\ Len(fifo') = Len(fifo) - 1
      /\ \A j \in 1 .. Len(fifo') : fifo'[j] = fifo[j + 1]
  BY <1>1, HeadTailProperties
<1>3. Len(fifo) \in Nat \ {0}
  BY <1>1, EmptySeq
<1>4. Head(fifo) = fifo[1]
  BY <1>1
<1>5. ASSUME NEW j \in 1 .. Len(fifo')
      PROVE  fifo'[j].byte \in 1 .. arrived /\ Head(fifo).byte < fifo'[j].byte
  <2>1. 1 \in 1 .. Len(fifo) /\ j + 1 \in 1 .. Len(fifo) /\ 1 < j + 1
    BY <1>2, <1>3
  <2>2. fifo[j + 1].byte \in 1 .. arrived /\ fifo[1].byte < fifo[j + 1].byte
    BY <2>1 DEF IInv, BytesInOrder
  <2> QED
    BY <1>2, <1>4, <2>2
<1> QED
  BY <1>2, <1>3, <1>4, <1>5

LEMMA DrainKeeps ==
  ASSUME IInv, drain_rx_fifo
  PROVE  IInv'
<1> DEFINE b == Head(fifo).byte
<1>1. /\ isr \in {"drain", "init drain"} /\ fifo # <<>> /\ fifo' = Tail(fifo)
      /\ rx_status' = (rx_status /\ fifo' # <<>>)
      /\ armed' = (armed /\ fifo' # <<>>)
      /\ rx_bytes' = rx_bytes + 1
      /\ rx_errors' = rx_errors + (IF Head(fifo).bad THEN 1 ELSE 0)
      /\ rx_buffer_push(b)
      /\ UNCHANGED <<error_status, arrived, rx_interrupts, isr, pending_error,
                     event, getc, value, returned, silenced>>
  BY DEF drain_rx_fifo, getcVars
<1>2. /\ Len(fifo) \in Nat \ {0}
      /\ Head(fifo) = fifo[1] /\ Head(fifo) \in Entry
      /\ fifo' \in Seq(Entry) /\ Len(fifo') = Len(fifo) - 1
      /\ \A j \in 1 .. Len(fifo') : fifo'[j] = fifo[j + 1]
      /\ \A j \in 1 .. Len(fifo') :
            /\ fifo'[j].byte \in 1 .. arrived
            /\ b < fifo'[j].byte
  BY <1>1, FirstOut
<1>3. b \in Byte /\ b \in 1 .. arrived
  <2>1. 1 \in 1 .. Len(fifo)
    BY <1>2
  <2> QED
    BY <1>2, <2>1 DEF IInv, BytesInOrder, Entry
<1> HIDE DEF b
<1>4. /\ rx_bytes \in Nat /\ rx_overflows \in Nat /\ rx_errors \in Nat /\ rx_interrupts \in Nat
      /\ rx_high_watermark \in 0 .. Capacity /\ arrived \in Nat
      /\ FifoDepth \in Nat /\ Capacity \in Nat \ {0} /\ IndexMod \in Nat \ {0}
      /\ Len(fifo) <= FifoDepth
  <2>1. IndexMod \in Nat \ {0} /\ FifoDepth \in Nat /\ Capacity \in Nat \ {0} /\ MaxBytes \in Nat
    BY UartAssumption
  <2>2. /\ rx_bytes \in Nat /\ rx_overflows \in Nat /\ rx_errors \in Nat
        /\ rx_interrupts \in Nat
        /\ rx_high_watermark \in 0 .. Capacity /\ arrived \in 0 .. MaxBytes
        /\ Len(fifo) <= FifoDepth
    BY DEF IInv, TypeOK
  <2> QED
    BY <2>1, <2>2
<1>5. /\ rx_bytes + Len(fifo) <= arrived /\ rx_overflows <= rx_bytes
      /\ Used <= rx_high_watermark
      /\ rx_head = (rx_bytes - rx_overflows) % IndexMod
      /\ rx_overflows > 0 => rx_high_watermark = Capacity
  BY DEF IInv, Counted
<1>6. Used \in Nat /\ (Used = 0 <=> rx_head = rx_tail)
  BY Indices DEF IInv
<1>7. /\ rx_bytes' + Len(fifo') <= arrived' /\ rx_bytes' \in Nat /\ rx_errors' \in Nat
      /\ Len(fifo') <= FifoDepth
  <2>1. /\ rx_bytes' = rx_bytes + 1 /\ arrived' = arrived
        /\ rx_errors' = rx_errors + 1 \/ rx_errors' = rx_errors + 0
    BY <1>1
  <2>2. Len(fifo) \in Nat \ {0} /\ Len(fifo') = Len(fifo) - 1
    BY <1>2
  <2> QED
    BY <1>4, <1>5, <2>1, <2>2
<1>8. rx_status' \in BOOLEAN /\ armed' \in BOOLEAN
  BY <1>1 DEF IInv, TypeOK
<1>9. \A j, k \in 1 .. Len(fifo') : j < k => fifo'[j].byte < fifo'[k].byte
  <2> SUFFICES ASSUME NEW j \in 1 .. Len(fifo'), NEW k \in 1 .. Len(fifo'), j < k
               PROVE  fifo'[j].byte < fifo'[k].byte
    OBVIOUS
  <2>1. j + 1 \in 1 .. Len(fifo) /\ k + 1 \in 1 .. Len(fifo) /\ j + 1 < k + 1
    BY <1>2
  <2> QED
    BY <1>2, <2>1 DEF IInv, BytesInOrder
<1>10. \A i \in 1 .. Used : /\ Ring[i] \in 1 .. arrived
                            /\ Ring[i] < b
                            /\ \A j \in 1 .. Len(fifo') : Ring[i] < fifo'[j].byte
  <2> SUFFICES ASSUME NEW i \in 1 .. Used
               PROVE  /\ Ring[i] \in 1 .. arrived
                      /\ Ring[i] < b
                      /\ \A j \in 1 .. Len(fifo') : Ring[i] < fifo'[j].byte
    OBVIOUS
  <2>1. 1 \in 1 .. Len(fifo) /\ \A j \in 1 .. Len(fifo') : j + 1 \in 1 .. Len(fifo)
    BY <1>2
  <2> QED
    BY <1>2, <2>1 DEF IInv, BytesInOrder, b
<1>11. CASE Full
  <2>1. /\ rx_overflows' = rx_overflows + 1
        /\ UNCHANGED <<rx_buffer, rx_head, rx_tail, rx_high_watermark, received>>
    BY <1>1, <1>11 DEF rx_buffer_push, Drop, ringVars
  <2>2. Used' = Used /\ Ring' = Ring /\ Oldest' = Oldest
    BY <2>1 DEF Used, Ring, Oldest
  <2>3. rx_high_watermark = Capacity
    BY <1>4, <1>5, <1>6, <1>11 DEF Full
  <2>4. Counted'
    <3>1. rx_bytes' - rx_overflows' = rx_bytes - rx_overflows /\ rx_overflows' <= rx_bytes'
      <4>1. rx_bytes' = rx_bytes + 1 /\ rx_overflows' = rx_overflows + 1
        BY <1>1, <2>1
      <4> QED
        BY <1>4, <1>5, <4>1
    <3> QED
      BY <1>5, <1>7, <2>1, <2>2, <2>3, <3>1 DEF Counted
  <2>5. TypeOK'
    <3>1. rx_overflows' \in Nat
      BY <1>4, <2>1
    <3> QED
      BY <1>1, <1>2, <1>7, <1>8, <2>1, <3>1 DEF IInv, TypeOK, Entry
  <2>6. BytesInOrder'
    BY <1>1, <1>2, <1>9, <1>10, <2>2 DEF BytesInOrder
  <2>7. ByteInHand' /\ WakeUpComes'
    BY <1>1, <2>1, <2>2 DEF IInv, ByteInHand, WakeUpComes
  <2> QED
    BY <2>4, <2>5, <2>6, <2>7 DEF IInv
<1>12. CASE ~Full
  <2>1. /\ rx_buffer' = [rx_buffer EXCEPT ![rx_head % Capacity] = b]
        /\ rx_head' = (rx_head + 1) % IndexMod
        /\ rx_high_watermark' = IF Used + 1 > rx_high_watermark
                                THEN Used + 1 ELSE rx_high_watermark
        /\ received'
        /\ received' = TRUE
        /\ UNCHANGED <<rx_tail, rx_overflows>>
    BY <1>1, <1>12 DEF rx_buffer_push
  <2>2. Used < Capacity
    BY <1>4, <1>6, <1>12 DEF Full
  <2>3. /\ rx_buffer' \in [0 .. Capacity - 1 -> Byte \cup {NoByte}]
        /\ rx_head' \in 0 .. IndexMod - 1
        /\ Used' = Used + 1
        /\ \A i \in 1 .. Used : Ring'[i] = Ring[i]
        /\ Ring'[Used + 1] = b
        /\ Used # 0 => Oldest' = Oldest
    BY <1>3, <2>1, <2>2, Pushed DEF IInv
  <2>4. Counted'
    <3> DEFINE n == rx_bytes - rx_overflows
    <3>1. n \in Int /\ rx_bytes' - rx_overflows' = n + 1 /\ rx_overflows' <= rx_bytes'
      <4>1. rx_bytes' = rx_bytes + 1 /\ rx_overflows' = rx_overflows
        BY <1>1, <2>1
      <4> QED
        BY <1>4, <1>5, <4>1
    <3>2. rx_head' = ((n % IndexMod) + 1) % IndexMod
      BY <1>5, <2>1
    <3> HIDE DEF n
    <3>3. ((n % IndexMod) + 1) % IndexMod = (n + 1) % IndexMod
      BY <1>4, <3>1, 1 \in Int, ModAdd
    <3>4. /\ Used' <= rx_high_watermark'
          /\ rx_overflows' > 0 => rx_high_watermark' = Capacity
      BY <1>4, <1>5, <1>6, <2>1, <2>2, <2>3
    <3> QED
      BY <1>7, <3>1, <3>2, <3>3, <3>4 DEF Counted
  <2>5. TypeOK'
    <3>1. rx_high_watermark' \in 0 .. Capacity
      BY <1>4, <1>6, <2>1, <2>2
    <3> QED
      BY <1>1, <1>2, <1>7, <1>8, <2>1, <2>3, <3>1 DEF IInv, TypeOK, Entry
  <2>6. BytesInOrder'
    <3>1. \A i \in 1 .. Used' : \/ i \in 1 .. Used /\ Ring'[i] = Ring[i]
                                \/ Ring'[i] = b
      BY <1>6, <2>3
    <3>2. \A i \in 1 .. Used' : /\ Ring'[i] \in 1 .. arrived
                                /\ \A j \in 1 .. Len(fifo') : Ring'[i] < fifo'[j].byte
      BY <1>2, <1>3, <1>10, <3>1
    <3> QED
      BY <1>1, <1>2, <1>9, <3>2 DEF BytesInOrder
  <2>7. ByteInHand'
    <3>1. getc' = getc /\ value' = value
      BY <1>1
    <3>2. getc \in {"read", "take"} => Used # 0 /\ Used' # 0
      BY <1>6, <2>3 DEF IInv, ByteInHand
    <3>3. getc = "take" => value = Oldest
      BY DEF IInv, ByteInHand
    <3> QED
      BY <2>3, <3>1, <3>2, <3>3 DEF ByteInHand
  <2>8. WakeUpComes'
    BY <1>1, <2>1 DEF IInv, WakeUpComes
  <2> QED
    BY <2>4, <2>5, <2>6, <2>7, <2>8 DEF IInv
<1> QED
  BY <1>11, <1>12

LEMMA TakeKeeps ==
  ASSUME IInv, GetcTake
  PROVE  IInv'
<1>1. /\ isr = "idle" /\ getc = "take" /\ getc' = "idle"
      /\ rx_tail' = (rx_tail + 1) % IndexMod /\ returned' = value
      /\ UNCHANGED <<fifo, rx_status, armed, error_status, arrived, rx_buffer, rx_head,
                     rx_high_watermark, rx_interrupts, rx_bytes, rx_overflows, rx_errors,
                     isr, pending_error, received, event, value, silenced>>
  BY DEF GetcTake, hardwareVars, countVars, isrVars
<1>2. TypeOK /\ Used # 0
  BY <1>1 DEF IInv, ByteInHand
<1>3. Used \in Nat \ {0} /\ Used <= rx_high_watermark /\ rx_high_watermark \in 0 .. Capacity
  <2>1. Used <= rx_high_watermark
    BY DEF IInv, Counted
  <2>2. Used \in Nat
    BY <1>2, Indices
  <2> QED
    BY <1>2, <2>1, <2>2 DEF TypeOK
<1>4. Capacity \in Nat
  BY UartAssumption
<1>5. Used <= Capacity
  BY <1>3, <1>4
<1>6. /\ rx_tail' \in 0 .. IndexMod - 1
      /\ Used' = Used - 1
      /\ \A i \in 1 .. Used - 1 : Ring'[i] = Ring[i + 1]
  BY <1>1, <1>2, <1>5, Popped
<1>7. TypeOK'
  BY <1>1, <1>2, <1>6 DEF TypeOK
<1>8. BytesInOrder'
  <2>1. \A i \in 1 .. Used' : i + 1 \in 1 .. Used /\ Ring'[i] = Ring[i + 1]
    BY <1>3, <1>6
  <2> QED
    BY <1>1, <2>1 DEF IInv, BytesInOrder
<1>9. Counted'
  <2>1. Used' <= rx_high_watermark
    BY <1>3, <1>4, <1>6
  <2> QED
    BY <1>1, <2>1 DEF IInv, Counted
<1>10. ByteInHand' /\ WakeUpComes'
  BY <1>1 DEF ByteInHand, WakeUpComes
<1> QED
  BY <1>7, <1>8, <1>9, <1>10 DEF IInv

LEMMA GetcKeeps ==
  ASSUME IInv, GetcCall \/ uart_getc
  PROVE  IInv'
<1> USE DEF IInv, hardwareVars, ringVars, countVars, isrVars, getcVars
<1>1. CASE GetcCall
  <2> USE <1>1 DEF GetcCall
  <2>1. BytesInOrder' /\ Counted' /\ Used' = Used /\ Oldest' = Oldest
    BY QuietKeeps DEF Quiet
  <2>2. TypeOK'
    BY DEF TypeOK
  <2>3. ByteInHand' /\ WakeUpComes'
    BY <2>1 DEF ByteInHand, WakeUpComes
  <2> QED
    BY <2>1, <2>2, <2>3
<1>2. CASE GetcCheck
  <2> USE <1>2 DEF GetcCheck
  <2>1. BytesInOrder' /\ Counted' /\ Used' = Used /\ Oldest' = Oldest
    BY QuietKeeps DEF Quiet
  <2>2. TypeOK'
    BY DEF TypeOK
  <2>3. ByteInHand'
    BY <2>1, Indices DEF ByteInHand
  <2>4. WakeUpComes'
    BY DEF WakeUpComes
  <2> QED
    BY <2>1, <2>2, <2>3, <2>4
<1>3. CASE GetcRead
  <2> USE <1>3 DEF GetcRead
  <2>1. BytesInOrder' /\ Counted' /\ Used' = Used /\ Oldest' = Oldest
    BY QuietKeeps DEF Quiet
  <2>2. ByteInHand' /\ WakeUpComes'
    BY <2>1 DEF ByteInHand, WakeUpComes
  <2>3. Oldest \in Byte \cup {NoByte}
    <3>1. rx_tail \in Int
      BY UartAssumption DEF TypeOK
    <3>2. rx_tail % Capacity \in 0 .. Capacity - 1
      BY <3>1, PlaceWraps
    <3> QED
      BY <3>2 DEF TypeOK, Oldest
  <2>4. TypeOK'
    BY <2>3 DEF TypeOK
  <2> QED
    BY <2>1, <2>2, <2>4
<1>4. CASE GetcTake
  BY <1>4, TakeKeeps
<1>5. CASE GetcWfe
  <2> USE <1>5 DEF GetcWfe, EventThere
  <2>1. BytesInOrder' /\ Counted' /\ Used' = Used /\ Oldest' = Oldest
    BY QuietKeeps DEF Quiet
  <2>2. TypeOK'
    BY DEF TypeOK
  <2>3. ByteInHand' /\ WakeUpComes'
    BY <2>1 DEF ByteInHand, WakeUpComes
  <2> QED
    BY <2>1, <2>2, <2>3
<1>6. CASE GetcWake
  <2> USE <1>6 DEF GetcWake
  <2>1. BytesInOrder' /\ Counted' /\ Used' = Used /\ Oldest' = Oldest
    BY QuietKeeps DEF Quiet
  <2>2. TypeOK'
    BY DEF TypeOK
  <2>3. ByteInHand' /\ WakeUpComes'
    BY <2>1 DEF ByteInHand, WakeUpComes
  <2> QED
    BY <2>1, <2>2, <2>3
<1> QED
  BY <1>1, <1>2, <1>3, <1>4, <1>5, <1>6 DEF uart_getc

(* IInv is inductive. *)
THEOREM InvariantHolds == Spec => []IInv
<1>1. Init => IInv
  BY InitHolds
<1>2. IInv /\ [Next]_vars => IInv'
  <2> SUFFICES ASSUME IInv, [Next]_vars PROVE IInv'
    OBVIOUS
  <2>1. CASE Arrive \/ ReceiveTimeout \/ OtherEvent
    BY <2>1, HardwareKeeps
  <2>2. CASE uart_init \/ IsrEnter \/ IsrClear \/ IsrDrained \/ IsrExit
    BY <2>2, IsrKeeps
  <2>3. CASE drain_rx_fifo
    BY <2>3, DrainKeeps
  <2>4. CASE GetcCall \/ uart_getc
    BY <2>4, GetcKeeps
  <2>5. CASE UNCHANGED vars
    <3> USE <2>5 DEF vars, hardwareVars, ringVars, countVars, isrVars, getcVars, IInv
    <3>1. BytesInOrder' /\ Counted' /\ Used' = Used /\ Oldest' = Oldest
      BY QuietKeeps DEF Quiet
    <3>2. TypeOK'
      BY DEF TypeOK
    <3>3. ByteInHand' /\ WakeUpComes'
      BY <3>1 DEF ByteInHand, WakeUpComes
    <3> QED
      BY <3>1, <3>2, <3>3
  <2> QED
    BY <2>1, <2>2, <2>3, <2>4, <2>5 DEF Next, Isr
<1> QED
  BY <1>1, <1>2, PTL DEF Spec

(* The fields of the driver and of the hardware keep their types.           *)
THEOREM TypeCorrect == Spec => []TypeOK
BY InvariantHolds, PTL DEF IInv

(* The counters account for every byte that reached the FIFO, and none is   *)
(* dropped while the ring has room (uart.c:59).                             *)
THEOREM BytesAccounted == Spec => []NoByteUnaccounted
<1>1. IInv => NoByteUnaccounted
  BY DEF IInv, Counted, BytesInOrder, NoByteUnaccounted
<1> QED
  BY InvariantHolds, <1>1, PTL

(* uart_getc never sleeps over a byte that is in the ring (uart.c:212).     *)
THEOREM WakeupNotLost == Spec => []NoLostWakeup
<1>1. IInv => NoLostWakeup
  BY DEF IInv, WakeUpComes, NoLostWakeup
<1> QED
  BY InvariantHolds, <1>1, PTL

-----------------------------------------------------------------------------
(* The ring is the queue the shell sees *)

LEMMA RingIsSeq ==
  ASSUME IInv
  PROVE  /\ Ring \in Seq(Byte) /\ Len(Ring) = Used /\ Used \in 0 .. Capacity
         /\ Ring = <<>> <=> Used = 0
<1>1. Used \in Nat
  BY Indices DEF IInv
<1>2. Ring \in [1 .. Used -> Byte]
  <2>1. arrived \in 0 .. MaxBytes /\ MaxBytes \in Nat
    BY UartAssumption DEF IInv, TypeOK
  <2>2. \A i \in 1 .. Used : Ring[i] \in Byte
    BY <2>1 DEF IInv, BytesInOrder, Byte
  <2> QED
    BY <2>2 DEF Ring
<1>3. Ring \in Seq(Byte)
  BY <1>1, <1>2, SeqDef
<1>4. Len(Ring) = Used
  <2>1. Len(Ring) \in Nat /\ 1 .. Len(Ring) = 1 .. Used
    BY <1>2, <1>3, LenProperties
  <2> QED
    BY <1>1, <2>1
<1>5. Ring = <<>> <=> Used = 0
  <2>1. Ring = <<>> => Used = 0
    BY <1>4, EmptySeq
  <2>2. Ring # <<>> => Len(Ring) \in Nat \ {0}
    BY <1>3, EmptySeq
  <2> QED
    BY <1>4, <2>1, <2>2
<1>6. Used <= rx_high_watermark /\ rx_high_watermark \in 0 .. Capacity /\ Capacity \in Nat
  BY UartAssumption DEF IInv, Counted, TypeOK
<1>7. Used \in 0 .. Capacity
  BY <1>1, <1>6
<1> QED
  BY <1>3, <1>4, <1>5, <1>7

LEMMA RingIsSeqNext == IInv' => (Ring \in Seq(Byte) /\ Len(Ring) = Used)'
<1>1. IInv => Ring \in Seq(Byte) /\ Len(Ring) = Used
  BY RingIsSeq
<1> QED
  BY <1>1, PTL

(* A byte from the FIFO joins the end of the queue, or finds it full.       *)
LEMMA DrainReceives ==
  ASSUME IInv, IInv', drain_rx_fifo
  PROVE  Queue!QueueNext
<1> DEFINE b == Head(fifo).byte
<1>1. fifo # <<>> /\ rx_buffer_push(b) /\ returned' = returned
  BY DEF drain_rx_fifo, getcVars
<1>2. b \in Byte
  <2>1. fifo \in Seq(Entry) /\ fifo # <<>>
    BY <1>1 DEF IInv, TypeOK, Entry
  <2>2. Head(fifo) \in Entry
    BY <2>1, HeadTailProperties
  <2> QED
    BY <2>2 DEF Entry
<1> HIDE DEF b
<1>3. Ring \in Seq(Byte) /\ Len(Ring) = Used /\ Used \in 0 .. Capacity
  BY RingIsSeq
<1>4. Ring' \in Seq(Byte) /\ Len(Ring') = Used'
  BY RingIsSeqNext
<1>5. CASE Full
  <2>1. Len(Ring) = Capacity
    BY <1>3, <1>5, UartAssumption DEF Full
  <2>2. /\ rx_overflows' = rx_overflows + 1
        /\ UNCHANGED <<rx_buffer, rx_head, rx_tail>>
    BY <1>1, <1>5 DEF rx_buffer_push, Drop, ringVars
  <2>3. Ring' = Ring
    BY <2>2 DEF Ring, Used
  <2>4. Queue!Overflow
    BY <1>1, <2>1, <2>2, <2>3 DEF Queue!Overflow
  <2> QED
    BY <2>4 DEF Queue!QueueNext
<1>6. CASE ~Full
  <2>1. /\ rx_buffer' = [rx_buffer EXCEPT ![rx_head % Capacity] = b]
        /\ rx_head' = (rx_head + 1) % IndexMod
        /\ rx_tail' = rx_tail /\ rx_overflows' = rx_overflows
    BY <1>1, <1>6 DEF rx_buffer_push
  <2>2. Used < Capacity
    BY <1>3, <1>6, UartAssumption DEF Full
  <2>3. /\ Used' = Used + 1
        /\ \A i \in 1 .. Used : Ring'[i] = Ring[i]
        /\ Ring'[Used + 1] = b
    BY <1>2, <2>1, <2>2, Pushed DEF IInv
  <2>4. Ring' = Append(Ring, b)
    <3>1. /\ Append(Ring, b) \in Seq(Byte)
          /\ Len(Append(Ring, b)) = Used + 1
          /\ \A i \in 1 .. Used : Append(Ring, b)[i] = Ring[i]
          /\ Append(Ring, b)[Used + 1] = b
      BY <1>2, <1>3, AppendProperties
    <3>2. \A i \in 1 .. Len(Ring') : i \in 1 .. Used \/ i = Used + 1
      BY <1>3, <1>4, <2>3
    <3>3. \A i \in 1 .. Len(Ring') : Ring'[i] = Append(Ring, b)[i]
      BY <2>3, <3>1, <3>2
    <3> QED
      BY <1>4, <2>3, <3>1, <3>3, SeqEqual
  <2>5. Queue!Receive(b)
    BY <1>1, <1>3, <2>1, <2>2, <2>4 DEF Queue!Receive
  <2> QED
    BY <1>2, <2>5 DEF Queue!QueueNext
<1> QED
  BY <1>5, <1>6

(* uart_getc returns the oldest byte of the queue.                          *)
LEMMA TakeReturns ==
  ASSUME IInv, IInv', GetcTake
  PROVE  Queue!Return
<1>1. /\ getc = "take" /\ rx_tail' = (rx_tail + 1) % IndexMod /\ returned' = value
      /\ UNCHANGED <<rx_head, rx_buffer, rx_overflows>>
  BY DEF GetcTake, countVars
<1>2. Ring \in Seq(Byte) /\ Len(Ring) = Used /\ Used \in 0 .. Capacity
  BY RingIsSeq
<1>3. Ring' \in Seq(Byte) /\ Len(Ring') = Used'
  BY RingIsSeqNext
<1>4. Used # 0 /\ value = Oldest /\ Ring # <<>>
  BY <1>1, RingIsSeq DEF IInv, ByteInHand
<1>5. /\ Used' = Used - 1
      /\ Ring[1] = Oldest
      /\ \A i \in 1 .. Used - 1 : Ring'[i] = Ring[i + 1]
  <2>1. Used <= Capacity
    BY <1>2, UartAssumption
  <2> QED
    BY <1>1, <1>4, <2>1, Popped DEF IInv
<1>6. Head(Ring) = Ring[1]
  BY <1>2, <1>4
<1>7. Ring' = Tail(Ring)
  <2>1. /\ Tail(Ring) \in Seq(Byte)
        /\ Len(Tail(Ring)) = Used - 1
        /\ \A i \in 1 .. Len(Tail(Ring)) : Tail(Ring)[i] = Ring[i + 1]
    BY <1>2, <1>4, HeadTailProperties
  <2>2. \A i \in 1 .. Len(Ring') : Ring'[i] = Tail(Ring)[i]
    BY <1>3, <1>5, <2>1
  <2> QED
    BY <1>3, <1>5, <2>1, <2>2, SeqEqual
<1> QED
  BY <1>1, <1>4, <1>5, <1>6, <1>7 DEF Queue!Return

(* The receive path implements the bounded queue of RxQueue: bytes come out *)
(* of uart_getc in order and once, and one is dropped only when the queue   *)
(* is full, wherever the handler interrupts uart_getc and however the       *)
(* indices wrap (uart.c:59, 77).                                            *)
THEOREM ImplementsQueue == Spec => RefinesQueue
<1>1. Init => Queue!QueueInit
  <2> SUFFICES ASSUME Init PROVE Queue!QueueInit
    OBVIOUS
  <2>1. IInv
    BY InitHolds
  <2>2. Used = 0
    BY <2>1, Indices DEF Init, IInv
  <2>3. Ring = <<>>
    BY <2>1, <2>2, RingIsSeq
  <2> QED
    BY <2>3 DEF Init, Queue!QueueInit
<1>2. IInv /\ IInv' /\ [Next]_vars => [Queue!QueueNext]_(Queue!queueVars)
  <2> SUFFICES ASSUME IInv, IInv', [Next]_vars
               PROVE  Queue!QueueNext \/ UNCHANGED Queue!queueVars
    OBVIOUS
  <2>1. CASE drain_rx_fifo
    BY <2>1, DrainReceives
  <2>2. CASE GetcTake
    BY <2>2, TakeReturns DEF Queue!QueueNext
  <2>3. CASE UNCHANGED <<rx_buffer, rx_head, rx_tail, rx_overflows, returned>>
    BY <2>3 DEF Queue!queueVars, Ring, Used
  <2>4. CASE Arrive \/ ReceiveTimeout \/ OtherEvent \/ UNCHANGED vars
    BY <2>3, <2>4 DEF Arrive, ReceiveTimeout, OtherEvent, vars, ringVars, countVars, getcVars
  <2>5. CASE uart_init \/ IsrEnter \/ IsrClear \/ IsrDrained \/ IsrExit
    BY <2>3, <2>5 DEF uart_init, InitClear, InitUnmask, IsrEnter, IsrClear, IsrDrained,
                      IsrExit, ringVars, countVars, getcVars
  <2>6. CASE GetcCall \/ GetcCheck \/ GetcRead \/ GetcWfe \/ GetcWake
    BY <2>3, <2>6 DEF GetcCall, GetcCheck, GetcRead, GetcWfe, GetcWake, ringVars, countVars
  <2> QED
    BY <2>1, <2>2, <2>4, <2>5, <2>6 DEF Next, Isr, uart_getc
<1> QED
  BY <1>1, <1>2, InvariantHolds, PTL DEF Spec, RefinesQueue, Queue!QueueSpec
=============================================================================
