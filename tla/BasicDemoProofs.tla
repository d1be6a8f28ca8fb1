--------------------------- MODULE BasicDemoProofs ---------------------------
(***************************************************************************)
(* Theorems about BasicDemo and UartInput, for every size of the ring, of  *)
(* the line buffer and of the queue.                                       *)
(***************************************************************************)
EXTENDS BasicDemo, SequenceTheorems, TLAPS

-----------------------------------------------------------------------------
(* Indices of a ring of R places, t its tail and h its head.               *)

\* Numbers that are less than R, or not much more, or not much less, modulo R.
LEMMA Modulo ==
  ASSUME NEW R \in Nat \ {0}, NEW a \in Int
  PROVE  /\ a \in 0 .. R - 1 => a % R = a
         /\ a \in R .. 2 * R - 1 => a % R = a - R
         /\ a \in -R .. -1 => a % R = a + R
         /\ a % R \in 0 .. R - 1
<1>1. a \in 0 .. R - 1 => a % R = a
  OBVIOUS
<1>2. a \in R .. 2 * R - 1 => a % R = a - R
  OBVIOUS
<1>3. a \in -R .. -1 => a % R = a + R
  OBVIOUS
<1>4. a % R \in 0 .. R - 1
  OBVIOUS
<1> QED BY <1>1, <1>2, <1>3, <1>4

\* How many places are between tail and head.
LEMMA Distance ==
  ASSUME NEW R \in Nat \ {0}, NEW h \in 0 .. R - 1, NEW t \in 0 .. R - 1
  PROVE  /\ (h - t) % R \in 0 .. R - 1
         /\ t <= h => (h - t) % R = h - t
         /\ ~(t <= h) => (h - t) % R = h - t + R
         /\ (h + 1) % R = IF h + 1 = R THEN 0 ELSE h + 1
<1>1. t <= h => (h - t) % R = h - t
  <2>1. CASE t <= h
    <3>1. h - t \in Int /\ h - t \in 0 .. R - 1
      BY <2>1
    <3>2. (h - t) % R = h - t
      BY <3>1, Modulo, Zenon
    <3> QED BY <2>1, <3>2, Zenon
  <2> QED BY <2>1
<1>2. ~(t <= h) => (h - t) % R = h - t + R
  <2>2. CASE ~(t <= h)
    <3>1. h - t \in Int /\ h - t \in -R .. -1
      BY <2>2
    <3>2. (h - t) % R = h - t + R
      BY <3>1, Modulo, Zenon
    <3> QED BY <2>2, <3>2, Zenon
  <2> QED BY <2>2
<1>3. (h + 1) % R = IF h + 1 = R THEN 0 ELSE h + 1
  <2>1. CASE h + 1 = R
    <3>1. R \in Int /\ R \in R .. 2 * R - 1 /\ R - R = 0
      OBVIOUS
    <3>2. R % R = R - R
      BY <3>1, Modulo, Zenon
    <3> QED BY <2>1, <3>1, <3>2
  <2>2. CASE h + 1 # R
    <3>1. h + 1 \in Int /\ h + 1 \in 0 .. R - 1
      BY <2>2
    <3>2. (h + 1) % R = h + 1
      BY <3>1, Modulo, Zenon
    <3> QED BY <2>2, <3>2
  <2> QED BY <2>1, <2>2
<1>4. (h - t) % R \in 0 .. R - 1
  BY Modulo
<1> QED BY <1>1, <1>2, <1>3, <1>4

\* The place of the k-th element behind the tail.
LEMMA Place ==
  ASSUME NEW R \in Nat \ {0}, NEW t \in 0 .. R - 1, NEW k \in 1 .. R
  PROVE  (t + k - 1) % R = IF t + k - 1 < R THEN t + k - 1 ELSE t + k - 1 - R
<1> DEFINE a == t + k - 1
<1>1. a \in Int /\ (a < R => a \in 0 .. R - 1) /\ (~(a < R) => a \in R .. 2 * R - 1)
  OBVIOUS
<1> HIDE DEF a
<1>2. a % R = IF a < R THEN a ELSE a - R
  BY <1>1, Modulo
<1> QED BY <1>2 DEF a

\* The head moves on: one place more, the one where it was.
LEMMA HeadMoves ==
  ASSUME NEW R \in Nat \ {0}, NEW h \in 0 .. R - 1, NEW t \in 0 .. R - 1,
         (h + 1) % R # t
  PROVE  /\ (((h + 1) % R) - t) % R = ((h - t) % R) + 1
         /\ (h - t) % R < R - 1
         /\ (t + (((h - t) % R) + 1) - 1) % R = h
         /\ \A k \in 1 .. (h - t) % R : (t + k - 1) % R \in (0 .. R - 1) \ {h}
<1> DEFINE n == (h - t) % R
           m == (h + 1) % R
<1>1. /\ n \in 0 .. R - 1 /\ (t <= h => n = h - t) /\ (~(t <= h) => n = h - t + R)
      /\ m = IF h + 1 = R THEN 0 ELSE h + 1
  BY Distance
<1>2. m \in 0 .. R - 1 /\ m # t
  BY <1>1
<1>3. (t <= m => (m - t) % R = m - t) /\ (~(t <= m) => (m - t) % R = m - t + R)
  BY <1>2, Distance
<1> HIDE DEF n, m
<1>4. (m - t) % R = n + 1 /\ n < R - 1
  BY <1>1, <1>2, <1>3
<1>5. (t + (n + 1) - 1) % R = h
  <2>1. n + 1 \in 1 .. R
    BY <1>1
  <2>2. (t + (n + 1) - 1) % R
          = IF t + (n + 1) - 1 < R THEN t + (n + 1) - 1 ELSE t + (n + 1) - 1 - R
    BY <2>1, Place
  <2> QED BY <1>1, <2>2
<1>6. ASSUME NEW k \in 1 .. n
      PROVE  (t + k - 1) % R \in (0 .. R - 1) \ {h}
  <2>1. k \in 1 .. R
    BY <1>1
  <2>2. (t + k - 1) % R = IF t + k - 1 < R THEN t + k - 1 ELSE t + k - 1 - R
    BY <2>1, Place
  <2> QED BY <1>1, <2>1, <2>2
<1> QED BY <1>4, <1>5, <1>6, Zenon DEF n, m

\* The tail moves on: one place less, and each element is one nearer.
LEMMA TailMoves ==
  ASSUME NEW R \in Nat \ {0}, NEW h \in 0 .. R - 1, NEW t \in 0 .. R - 1,
         h # t
  PROVE  /\ (h - t) % R \in 1 .. R - 1
         /\ (h - ((t + 1) % R)) % R = ((h - t) % R) - 1
         /\ \A k \in 1 .. ((h - t) % R) - 1 :
              (((t + 1) % R) + k - 1) % R = (t + (k + 1) - 1) % R
         /\ (t + 1 - 1) % R = t
<1> DEFINE n == (h - t) % R
           m == (t + 1) % R
<1>1. /\ n \in 0 .. R - 1 /\ (t <= h => n = h - t) /\ (~(t <= h) => n = h - t + R)
      /\ m = IF t + 1 = R THEN 0 ELSE t + 1
  BY Distance
<1>2. m \in 0 .. R - 1
  BY <1>1
<1>3. (m <= h => (h - m) % R = h - m) /\ (~(m <= h) => (h - m) % R = h - m + R)
  BY <1>2, Distance
<1> HIDE DEF n, m
<1>4. n \in 1 .. R - 1 /\ (h - m) % R = n - 1
  BY <1>1, <1>2, <1>3
<1>5. ASSUME NEW k \in 1 .. n - 1
      PROVE  (m + k - 1) % R = (t + (k + 1) - 1) % R
  <2>1. k \in 1 .. R /\ k + 1 \in 1 .. R
    BY <1>1
  <2>2. (m + k - 1) % R = IF m + k - 1 < R THEN m + k - 1 ELSE m + k - 1 - R
    BY <1>2, <2>1, Place
  <2>3. (t + (k + 1) - 1) % R
          = IF t + (k + 1) - 1 < R THEN t + (k + 1) - 1 ELSE t + (k + 1) - 1 - R
    BY <2>1, Place
  <2>4. CASE t + 1 = R
    <3>1. m + k - 1 < R /\ ~(t + (k + 1) - 1 < R)
          /\ m + k - 1 = t + (k + 1) - 1 - R
      BY <1>1, <2>1, <2>4
    <3> QED BY <2>2, <2>3, <3>1, Zenon
  <2>5. CASE t + 1 # R
    <3>1. m + k - 1 = t + (k + 1) - 1
      BY <1>1, <2>1, <2>5
    <3> QED BY <3>1, Zenon
  <2> QED BY <2>4, <2>5, Zenon
<1>6. (t + 1 - 1) % R = t
  BY Place
<1> QED BY <1>4, <1>5, <1>6, Zenon DEF n, m

-----------------------------------------------------------------------------
(* The content of the ring.                                                *)

Bytes   == Byte \union {NoByte}
Index   == 0 .. RingSize - 1
Buffers == [Index -> Bytes]

Content(buf, h, t) ==
  [k \in 1 .. (h - t) % RingSize |-> buf[(t + k - 1) % RingSize]]

\* It is the content of the ring the model speaks of.
LEMMA ContentIs == RingContent = Content(ring_buf, ring_head, ring_tail)
BY DEF RingContent, InRing, Content

\* It is a sequence of what the buffer holds.
LEMMA ContentType ==
  ASSUME NEW buf \in Buffers, NEW h \in Index, NEW t \in Index
  PROVE  /\ Content(buf, h, t) \in Seq(Bytes)
         /\ Len(Content(buf, h, t)) = (h - t) % RingSize
         /\ (h - t) % RingSize \in 0 .. RingSize - 1
         /\ \A k \in 1 .. (h - t) % RingSize :
              Content(buf, h, t)[k] = buf[(t + k - 1) % RingSize]
<1>0. RingSize \in Nat \ {0} /\ h \in 0 .. RingSize - 1 /\ t \in 0 .. RingSize - 1
  BY UartInputAssumption DEF Index
<1> DEFINE n == (h - t) % RingSize
<1>1. n \in 0 .. RingSize - 1
  BY <1>0, Distance
<1>2. ASSUME NEW k \in 1 .. n
      PROVE  buf[(t + k - 1) % RingSize] \in Bytes
  <2>1. k \in 1 .. RingSize
    BY <1>0, <1>1
  <2>2. t + k - 1 \in Int
    BY <1>0, <2>1
  <2>3. (t + k - 1) % RingSize \in 0 .. RingSize - 1
    BY <1>0, <2>2, Modulo, Zenon
  <2> QED BY <2>3 DEF Buffers, Index
<1> DEFINE c == [k \in 1 .. n |-> buf[(t + k - 1) % RingSize]]
<1>3. n \in Nat
  BY <1>0, <1>1
<1>4. c \in [1 .. n -> Bytes]
  <2> HIDE DEF n
  <2> QED BY <1>2
<1>5. c \in Seq(Bytes) /\ Len(c) = n
  <2> HIDE DEF n, c
  <2> QED BY <1>3, <1>4
<1>6. Content(buf, h, t) = c
  BY DEF Content
<1>7. \A k \in 1 .. n : c[k] = buf[(t + k - 1) % RingSize]
  OBVIOUS
<1> QED BY <1>1, <1>5, <1>6, <1>7, Zenon

\* A byte put at the head is the last.
LEMMA ContentPut ==
  ASSUME NEW buf \in Buffers, NEW h \in Index, NEW t \in Index,
         NEW e \in Bytes, (h + 1) % RingSize # t
  PROVE  /\ Content([buf EXCEPT ![h] = e], (h + 1) % RingSize, t)
               = Append(Content(buf, h, t), e)
         /\ Len(Content(buf, h, t)) < RingSize - 1
<1>0. RingSize \in Nat \ {0} /\ h \in 0 .. RingSize - 1 /\ t \in 0 .. RingSize - 1
  BY UartInputAssumption DEF Index
<1>a. /\ (((h + 1) % RingSize) - t) % RingSize = ((h - t) % RingSize) + 1
      /\ (h - t) % RingSize < RingSize - 1
      /\ (t + (((h - t) % RingSize) + 1) - 1) % RingSize = h
      /\ \A k \in 1 .. (h - t) % RingSize :
           (t + k - 1) % RingSize \in (0 .. RingSize - 1) \ {h}
  BY <1>0, HeadMoves
<1>b. /\ Content(buf, h, t) \in Seq(Bytes)
      /\ Len(Content(buf, h, t)) = (h - t) % RingSize
      /\ (h - t) % RingSize \in 0 .. RingSize - 1
      /\ \A k \in 1 .. (h - t) % RingSize :
           Content(buf, h, t)[k] = buf[(t + k - 1) % RingSize]
  BY ContentType
<1>c. ASSUME NEW g \in Index, NEW f \in Buffers
      PROVE  /\ Content(f, g, t) \in Seq(Bytes)
             /\ Len(Content(f, g, t)) = (g - t) % RingSize
             /\ \A k \in 1 .. (g - t) % RingSize :
                  Content(f, g, t)[k] = f[(t + k - 1) % RingSize]
  BY ContentType
<1> DEFINE n == (h - t) % RingSize
           m == (h + 1) % RingSize
           b2 == [buf EXCEPT ![h] = e]
           c == Content(buf, h, t)
           d == Content(b2, m, t)
<1>1. m \in Index /\ b2 \in Buffers
  BY <1>0, Modulo DEF Index, Buffers
<1>2. /\ c \in Seq(Bytes) /\ Len(c) = n /\ n \in 0 .. RingSize - 1
      /\ \A k \in 1 .. n : c[k] = buf[(t + k - 1) % RingSize]
  BY <1>b
<1>3. /\ d \in Seq(Bytes) /\ Len(d) = (m - t) % RingSize
      /\ \A k \in 1 .. (m - t) % RingSize : d[k] = b2[(t + k - 1) % RingSize]
  BY <1>1, <1>c, Zenon
<1>4. /\ (m - t) % RingSize = n + 1 /\ n < RingSize - 1
      /\ (t + (n + 1) - 1) % RingSize = h
      /\ \A k \in 1 .. n : (t + k - 1) % RingSize \in (0 .. RingSize - 1) \ {h}
  BY <1>a
<1>5. /\ b2[h] = e
      /\ \A i \in (0 .. RingSize - 1) \ {h} : b2[i] = buf[i]
  BY DEF Buffers, Index
<1>6. /\ Len(d) = n + 1
      /\ \A k \in 1 .. n + 1 : d[k] = b2[(t + k - 1) % RingSize]
  BY <1>3, <1>4, Zenon
<1>7. n \in Nat
  BY <1>0, <1>2
<1>8. d[n + 1] = e
  <2>1. n + 1 \in 1 .. n + 1
    <3> HIDE DEF n
    <3> QED BY <1>7
  <2>2. d[n + 1] = b2[(t + (n + 1) - 1) % RingSize]
    BY <1>6, <2>1, Zenon
  <2> QED BY <1>4, <1>5, <2>2, Zenon
<1>9. ASSUME NEW k \in 1 .. n PROVE d[k] = c[k]
  <2>1. k \in 1 .. n + 1
    <3> HIDE DEF n
    <3> QED BY <1>7
  <2>2. d[k] = b2[(t + k - 1) % RingSize] /\ c[k] = buf[(t + k - 1) % RingSize]
    BY <1>2, <1>6, <2>1, Zenon
  <2>3. b2[(t + k - 1) % RingSize] = buf[(t + k - 1) % RingSize]
    BY <1>4, <1>5, Zenon
  <2> QED BY <2>2, <2>3, Zenon
<1>10. d = Append(c, e)
  <2> HIDE DEF n, c, d
  <2>1. Append(c, e) \in Seq(Bytes) /\ Len(Append(c, e)) = n + 1
    BY <1>2
  <2>2. ASSUME NEW k \in 1 .. n + 1 PROVE d[k] = Append(c, e)[k]
    <3>1. k \in 1 .. n \/ k = n + 1
      BY <1>7
    <3> QED BY <1>2, <1>8, <1>9, <3>1
  <2> QED BY <1>3, <1>6, <2>1, <2>2, SeqEqual
<1> QED BY <1>2, <1>4, <1>10, Zenon

\* A byte taken at the tail is the first.
LEMMA ContentGet ==
  ASSUME NEW buf \in Buffers, NEW h \in Index, NEW t \in Index,
         h # t
  PROVE  /\ Content(buf, h, (t + 1) % RingSize) = Tail(Content(buf, h, t))
         /\ Content(buf, h, t) # <<>>
         /\ buf[t] = Content(buf, h, t)[1]
<1>0. RingSize \in Nat \ {0} /\ h \in 0 .. RingSize - 1 /\ t \in 0 .. RingSize - 1
  BY UartInputAssumption DEF Index
<1>a. /\ (h - t) % RingSize \in 1 .. RingSize - 1
      /\ (h - ((t + 1) % RingSize)) % RingSize = ((h - t) % RingSize) - 1
      /\ \A k \in 1 .. ((h - t) % RingSize) - 1 :
           (((t + 1) % RingSize) + k - 1) % RingSize = (t + (k + 1) - 1) % RingSize
      /\ (t + 1 - 1) % RingSize = t
  BY <1>0, TailMoves
<1>b. /\ Content(buf, h, t) \in Seq(Bytes)
      /\ Len(Content(buf, h, t)) = (h - t) % RingSize
      /\ \A k \in 1 .. (h - t) % RingSize :
           Content(buf, h, t)[k] = buf[(t + k - 1) % RingSize]
  BY ContentType
<1>c. ASSUME NEW g \in Index
      PROVE  /\ Content(buf, h, g) \in Seq(Bytes)
             /\ Len(Content(buf, h, g)) = (h - g) % RingSize
             /\ \A k \in 1 .. (h - g) % RingSize :
                  Content(buf, h, g)[k] = buf[(g + k - 1) % RingSize]
  BY ContentType
<1> DEFINE n == (h - t) % RingSize
           m == (t + 1) % RingSize
           c == Content(buf, h, t)
           d == Content(buf, h, m)
<1>1. m \in Index
  BY <1>0, Modulo DEF Index
<1>2. /\ c \in Seq(Bytes) /\ Len(c) = n
      /\ \A k \in 1 .. n : c[k] = buf[(t + k - 1) % RingSize]
  BY <1>b
<1>3. /\ d \in Seq(Bytes) /\ Len(d) = (h - m) % RingSize
      /\ \A k \in 1 .. (h - m) % RingSize : d[k] = buf[(m + k - 1) % RingSize]
  BY <1>1, <1>c, Zenon
<1>4. /\ n \in 1 .. RingSize - 1 /\ (h - m) % RingSize = n - 1
      /\ \A k \in 1 .. n - 1 :
           (m + k - 1) % RingSize = (t + (k + 1) - 1) % RingSize
      /\ (t + 1 - 1) % RingSize = t
  BY <1>a
<1>5. /\ Len(d) = n - 1
      /\ \A k \in 1 .. n - 1 : d[k] = buf[(m + k - 1) % RingSize]
  BY <1>3, <1>4, Zenon
<1>6. n \in Nat \ {0}
  BY <1>0, <1>4
<1>7. ASSUME NEW k \in 1 .. n - 1 PROVE d[k] = c[k + 1]
  <2>1. k + 1 \in 1 .. n
    <3> HIDE DEF n
    <3> QED BY <1>6
  <2>2. c[k + 1] = buf[(t + (k + 1) - 1) % RingSize]
    BY <1>2, <2>1, Zenon
  <2> QED BY <1>4, <1>5, <2>2, Zenon
<1>8. d = Tail(c) /\ c # <<>>
  <2> HIDE DEF n, c, d
  <2>1. /\ Tail(c) \in Seq(Bytes) /\ Len(Tail(c)) = n - 1 /\ c # <<>>
        /\ \A k \in 1 .. n - 1 : Tail(c)[k] = c[k + 1]
    BY <1>2, <1>6
  <2> QED BY <1>3, <1>5, <1>7, <2>1, SeqEqual
<1>9. buf[t] = c[1]
  <2>1. 1 \in 1 .. n
    <3> HIDE DEF n
    <3> QED BY <1>6
  <2> QED BY <1>2, <1>4, <2>1, Zenon
<1> QED BY <1>8, <1>9, Zenon

-----------------------------------------------------------------------------
(* The serial input.                                                       *)

\* The ring holds bytes that arrived, and a thread about to take one finds one.
InputInv ==
  /\ InputTypeOK
  /\ rxne => rdr \in Byte
  /\ pc \in {"take", "advance"} => ring_head # ring_tail
  /\ pc \in {"advance", "line"} => ch \in Byte
  /\ Content(ring_buf, ring_head, ring_tail) \in Seq(Byte)

\* The parts of the type.
LEMMA InputTypes ==
  ASSUME InputTypeOK
  PROVE  /\ rdr \in Bytes /\ rxne \in BOOLEAN /\ arrived \in 0 .. MaxBytes
         /\ eol \subseteq Byte
         /\ ring_buf \in Buffers /\ ring_head \in Index /\ ring_tail \in Index
         /\ pc \in {"test", "take", "advance", "line", "flash", "asleep"}
         /\ ch \in Bytes
         /\ line_buffer \in Seq(Byte) /\ Len(line_buffer) <= LineCap
         /\ printed \in Seq(Seq(Byte)) /\ accepted \in Seq(Byte)
BY DEF InputTypeOK, Bytes, Index, Buffers

\* The byte that the handler puts into the ring.
LEMMA HandlerPuts ==
  ASSUME InputInv, Usart3Handler, NextHead # ring_tail
  PROVE  /\ Content(ring_buf, ring_head, ring_tail)'
              = Append(Content(ring_buf, ring_head, ring_tail), rdr)
         /\ Len(Content(ring_buf, ring_head, ring_tail)) < RingSize - 1
         /\ rdr \in Byte /\ ring_head' \in Index /\ ring_buf' \in Buffers
<1>1. /\ ring_buf \in Buffers /\ ring_head \in Index /\ ring_tail \in Index
      /\ rdr \in Bytes /\ (ring_head + 1) % RingSize # ring_tail
  BY InputTypes DEF InputInv, NextHead
<1>2. /\ ring_buf' = [ring_buf EXCEPT ![ring_head] = rdr]
      /\ ring_head' = (ring_head + 1) % RingSize /\ ring_tail' = ring_tail
  BY DEF Usart3Handler, NextHead
<1>3. /\ Content([ring_buf EXCEPT ![ring_head] = rdr], (ring_head + 1) % RingSize, ring_tail)
           = Append(Content(ring_buf, ring_head, ring_tail), rdr)
      /\ Len(Content(ring_buf, ring_head, ring_tail)) < RingSize - 1
  BY <1>1, ContentPut
<1>4. rdr \in Byte
  BY DEF InputInv, Usart3Handler
<1>5. (ring_head + 1) % RingSize \in Index
  BY <1>1, UartInputAssumption, Modulo DEF Index
<1>6. [ring_buf EXCEPT ![ring_head] = rdr] \in Buffers
  BY <1>1 DEF Buffers
<1> QED BY <1>2, <1>3, <1>4, <1>5, <1>6, Zenon

\* The byte that the thread has taken out when it advances the tail.
LEMMA ThreadGets ==
  ASSUME InputInv, pc \in {"take", "advance"}
  PROVE  /\ Content(ring_buf, ring_head, (ring_tail + 1) % RingSize)
              = Tail(Content(ring_buf, ring_head, ring_tail))
         /\ Content(ring_buf, ring_head, ring_tail) # <<>>
         /\ ring_buf[ring_tail] \in Byte
         /\ (ring_tail + 1) % RingSize \in Index
<1>1. /\ ring_buf \in Buffers /\ ring_head \in Index /\ ring_tail \in Index
      /\ ring_head # ring_tail
  BY InputTypes DEF InputInv
<1> DEFINE c == Content(ring_buf, ring_head, ring_tail)
<1>2. /\ Content(ring_buf, ring_head, (ring_tail + 1) % RingSize) = Tail(c)
      /\ c # <<>> /\ ring_buf[ring_tail] = c[1]
  BY <1>1, ContentGet
<1>3. c \in Seq(Byte)
  BY DEF InputInv
<1>4. c[1] \in Byte
  <2> HIDE DEF c
  <2> QED BY <1>2, <1>3
<1>5. (ring_tail + 1) % RingSize \in Index
  BY <1>1, UartInputAssumption, Modulo DEF Index
<1> QED BY <1>2, <1>4, <1>5, Zenon

\* Every step of the wire, the handler and the thread keeps it, and is a step
\* of the FIFO.
LEMMA InputStep ==
  ASSUME InputInv, InputNext
  PROVE  InputInv' /\ [Fifo!Next]_(RingContent)
<1> DEFINE c == Content(ring_buf, ring_head, ring_tail)
<1>0. /\ rdr \in Bytes /\ rxne \in BOOLEAN /\ arrived \in 0 .. MaxBytes
      /\ eol \subseteq Byte
      /\ ring_buf \in Buffers /\ ring_head \in Index /\ ring_tail \in Index
      /\ pc \in {"test", "take", "advance", "line", "flash", "asleep"}
      /\ ch \in Bytes
      /\ line_buffer \in Seq(Byte) /\ Len(line_buffer) <= LineCap
      /\ printed \in Seq(Seq(Byte)) /\ accepted \in Seq(Byte)
      /\ c \in Seq(Byte) /\ LineCap \in Nat /\ MaxBytes \in Nat
  BY InputTypes, UartInputAssumption DEF InputInv
<1>1. /\ rxne => rdr \in Byte
      /\ pc \in {"take", "advance"} => ring_head # ring_tail
      /\ pc \in {"advance", "line"} => ch \in Byte
  BY DEF InputInv
<1>2. RingContent = c /\ RingContent' = c'
  BY ContentIs DEF RingContent, InRing, Content
<1> HIDE DEF c
<1>3. CASE Arrive
  <2>1. /\ UNCHANGED <<ring_buf, ring_head, ring_tail, thread, accepted>>
        /\ rxne' = TRUE /\ rdr' = (IF rxne THEN rdr ELSE arrived + 1)
        /\ arrived' = arrived + 1 /\ eol' \in {eol, eol \union {arrived + 1}}
        /\ arrived < MaxBytes
    BY <1>3 DEF Arrive
  <2>2. arrived + 1 \in Byte /\ arrived + 1 \in 0 .. MaxBytes
    BY <1>0, <2>1 DEF Byte
  <2>3. rdr' \in Byte /\ eol' \subseteq Byte
    BY <1>0, <1>1, <2>1, <2>2
  <2>4. c' = c
    BY <2>1 DEF c
  <2>5. InputTypeOK'
    BY <1>0, <2>1, <2>2, <2>3 DEF thread, InputTypeOK, Bytes, Buffers, Index
  <2>6. InputInv'
    BY <1>0, <1>1, <2>1, <2>3, <2>4, <2>5 DEF thread, InputInv, c
  <2> QED BY <1>2, <2>4, <2>6
<1>4. CASE Usart3Handler /\ NextHead # ring_tail
  <2>1. /\ c' = Append(c, rdr) /\ Len(c) < RingSize - 1
        /\ rdr \in Byte /\ ring_head' \in Index /\ ring_buf' \in Buffers
    BY <1>4, HandlerPuts DEF c
  <2>2. /\ UNCHANGED <<rdr, arrived, eol, ring_tail, thread>>
        /\ rxne' = FALSE /\ accepted' = Append(accepted, rdr)
        /\ ring_head' = NextHead
    BY <1>4 DEF Usart3Handler
  <2>3. c' \in Seq(Byte) /\ accepted' \in Seq(Byte)
    BY <1>0, <2>1, <2>2
  <2>4. InputTypeOK'
    BY <1>0, <2>1, <2>2, <2>3 DEF thread, InputTypeOK, Bytes, Buffers, Index
  <2>5. InputInv'
    BY <1>1, <1>4, <2>2, <2>3, <2>4 DEF thread, InputInv, c
  <2>6. Fifo!Next
    BY <1>2, <2>1, Zenon DEF Fifo!Next, Fifo!Put
  <2> QED BY <2>5, <2>6
<1>5. CASE Usart3Handler /\ NextHead = ring_tail
  <2>1. UNCHANGED <<rdr, arrived, eol, ring_buf, ring_head, ring_tail, thread, accepted>>
        /\ rxne' = FALSE
    BY <1>5 DEF Usart3Handler
  <2>2. c' = c
    BY <2>1 DEF c
  <2>3. InputTypeOK'
    BY <1>0, <2>1 DEF thread, InputTypeOK, Bytes, Buffers, Index
  <2>4. InputInv'
    BY <1>0, <1>1, <2>1, <2>2, <2>3 DEF thread, InputInv, c
  <2> QED BY <1>2, <2>2, <2>4
<1>6. CASE Advance
  <2>1. /\ UNCHANGED <<ch, line_buffer, printed>> /\ IsrFrame
        /\ ring_tail' = (ring_tail + 1) % RingSize
        /\ pc = "advance" /\ pc' = "line"
    BY <1>6 DEF Advance
  <2>2. /\ c' = Tail(c) /\ c # <<>> /\ ring_tail' \in Index
    BY <2>1, ThreadGets DEF IsrFrame, c
  <2>3. c' \in Seq(Byte)
    BY <1>0, <2>2
  <2>4. InputTypeOK'
    BY <1>0, <2>1, <2>2 DEF IsrFrame, usart, InputTypeOK, Bytes, Buffers, Index
  <2>5. InputInv'
    BY <1>1, <2>1, <2>3, <2>4 DEF IsrFrame, usart, InputInv, c
  <2>6. Fifo!Next
    BY <1>2, <2>2, Zenon DEF Fifo!Next, Fifo!Get
  <2> QED BY <2>5, <2>6
<1>7. CASE TestRing \/ Take \/ Line \/ Flashed \/ InputWake
  <2>1. UNCHANGED <<rdr, rxne, arrived, eol, ring_buf, ring_head, ring_tail, accepted>>
    BY <1>7 DEF TestRing, Take, Line, Flashed, InputWake, IsrFrame, usart
  <2>2. c' = c
    BY <2>1 DEF c
  <2>3. pc' \in {"take", "advance"} => ring_head # ring_tail
    BY <1>1, <1>7 DEF TestRing, Take, Line, Flashed, InputWake
  <2>4. ch' \in Bytes /\ (pc' \in {"advance", "line"} => ch' \in Byte)
    <3>1. CASE Take
      <4>1. ring_buf[ring_tail] \in Byte
        BY <3>1, ThreadGets DEF Take
      <4> QED BY <3>1, <4>1 DEF Take, Bytes
    <3>2. CASE TestRing \/ Line \/ Flashed \/ InputWake
      BY <1>0, <3>2 DEF TestRing, Line, Flashed, InputWake
    <3> QED BY <1>7, <3>1, <3>2
  <2>5. /\ line_buffer' \in Seq(Byte) /\ Len(line_buffer') <= LineCap
        /\ printed' \in Seq(Seq(Byte))
    <3>1. CASE TestRing \/ Take \/ InputWake
      BY <1>0, <3>1 DEF TestRing, Take, InputWake
    <3>2. CASE Flashed
      <4>1. line_buffer' = <<>> /\ printed' = printed
        BY <3>2 DEF Flashed
      <4>2. <<>> \in Seq(Byte) /\ Len(<<>>) <= LineCap
        BY <1>0
      <4> QED BY <1>0, <4>1, <4>2
    <3>3. CASE Line /\ ch \in eol /\ line_buffer # <<>>
      <4>1. line_buffer' = line_buffer /\ printed' = Append(printed, line_buffer)
        BY <3>3 DEF Line
      <4>2. Append(printed, line_buffer) \in Seq(Seq(Byte))
        <5> DEFINE S == Seq(Byte)
        <5>1. printed \in Seq(S) /\ line_buffer \in S
          BY <1>0
        <5> HIDE DEF S
        <5>2. Append(printed, line_buffer) \in Seq(S)
          BY <5>1
        <5> QED BY <5>2 DEF S
      <4> QED BY <1>0, <4>1, <4>2
    <3>4. CASE Line /\ ~(ch \in eol /\ line_buffer # <<>>)
      <4>1. ch \in Byte
        BY <1>1, <3>4 DEF Line
      <4>2. /\ line_buffer' = (IF ch \notin eol /\ Len(line_buffer) < LineCap
                               THEN Append(line_buffer, ch) ELSE line_buffer)
            /\ printed' = printed
        BY <3>4 DEF Line
      <4>3. /\ Append(line_buffer, ch) \in Seq(Byte)
            /\ Len(line_buffer) < LineCap => Len(Append(line_buffer, ch)) <= LineCap
        BY <1>0, <4>1
      <4> QED BY <1>0, <4>2, <4>3
    <3> QED BY <1>7, <3>1, <3>2, <3>3, <3>4
  <2>6. pc' \in {"test", "take", "advance", "line", "flash", "asleep"}
    BY <1>7 DEF TestRing, Take, Line, Flashed, InputWake
  <2>7. InputTypeOK'
    BY <1>0, <2>1, <2>4, <2>5, <2>6 DEF InputTypeOK, Bytes, Buffers, Index
  <2>8. InputInv'
    BY <1>0, <1>1, <2>1, <2>2, <2>3, <2>4, <2>7 DEF InputInv, c
  <2> QED BY <1>2, <2>2, <2>8
<1> QED BY <1>3, <1>4, <1>5, <1>6, <1>7
       DEF InputNext, InputThread, InputAwake, InputTimer

\* What leaves the input alone keeps it, too.
LEMMA InputKept ==
  ASSUME InputInv, UNCHANGED input
  PROVE  InputInv' /\ UNCHANGED RingContent
<1>1. UNCHANGED <<rdr, rxne, arrived, eol, ring_buf, ring_head, ring_tail, pc, ch,
                  line_buffer, printed, accepted>>
  BY DEF input, usart, thread
<1>2. UNCHANGED RingContent
  BY <1>1 DEF RingContent, InRing
<1>3. InputInv'
  BY <1>1 DEF InputInv, InputTypeOK
<1> QED BY <1>2, <1>3

\* The ring is empty when the interrupt is enabled.
LEMMA InputBegins ==
  ASSUME InputInit
  PROVE  InputInv /\ Fifo!Init
<1>0. RingSize \in Nat \ {0} /\ MaxBytes \in Nat /\ LineCap \in Nat
  BY UartInputAssumption
<1>1. /\ rdr = NoByte /\ rxne = FALSE /\ arrived = 0 /\ eol = {}
      /\ ring_buf = [i \in 0 .. RingSize - 1 |-> NoByte]
      /\ ring_head = 0 /\ ring_tail = 0
      /\ pc = "test" /\ ch = NoByte /\ line_buffer = <<>> /\ printed = <<>>
      /\ accepted = <<>>
  BY DEF InputInit
<1>2. ring_buf \in Buffers /\ 0 \in Index /\ 0 \in 0 .. MaxBytes
  BY <1>0, <1>1 DEF Buffers, Index, Bytes
<1>3. InputTypeOK
  <2>1. <<>> \in Seq(Byte) /\ Len(<<>>) <= LineCap /\ <<>> \in Seq(Seq(Byte))
    BY <1>0
  <2> QED BY <1>1, <1>2, <2>1 DEF InputTypeOK, Bytes, Index, Buffers
<1>4. Content(ring_buf, ring_head, ring_tail) = <<>>
  <2> DEFINE c == Content(ring_buf, ring_head, ring_tail)
  <2>1. c \in Seq(Bytes) /\ Len(c) = (ring_head - ring_tail) % RingSize
    BY <1>1, <1>2, ContentType
  <2>2. (ring_head - ring_tail) % RingSize = 0
    <3>1. 0 - 0 \in Int /\ 0 - 0 \in 0 .. RingSize - 1 /\ 0 - 0 = 0
      BY <1>0
    <3>2. (0 - 0) % RingSize = 0 - 0
      BY <1>0, <3>1, Modulo, Zenon
    <3> QED BY <1>1, <3>1, <3>2
  <2> HIDE DEF c
  <2>3. c = <<>>
    BY <2>1, <2>2, EmptySeq
  <2> QED BY <2>3 DEF c
<1>5. InputInv
  <2>1. Content(ring_buf, ring_head, ring_tail) \in Seq(Byte)
    BY <1>4
  <2> QED BY <1>1, <1>3, <2>1 DEF InputInv
<1>6. Fifo!Init
  BY <1>4, ContentIs DEF Fifo!Init
<1> QED BY <1>5, <1>6

-----------------------------------------------------------------------------
(* The button and the logger.                                              *)

\* A press not noticed yet: the button thread saw the button up before it.
ButtonInv ==
  /\ button \in BOOLEAN /\ presses \in 0 .. MaxPresses
  /\ button_was_pressed \in BOOLEAN /\ led2 \in BOOLEAN
  /\ noticed \in 0 .. presses
  /\ button /\ ~button_was_pressed => noticed < presses

\* The presses 1 to n, in order.
Log(n) == [i \in 1 .. n |-> i]

LoggerAhead == {<<"logger">>, <<"logger", "button">>}
Lists == {<<>>, <<"button">>, <<"button", "logger">>} \union LoggerAhead

\* At most one press is on its way, and it is the last: while it is, the logger
\* is ahead of the button thread.
OnItsWay == logged = Log(noticed - 1) /\ noticed # 0 /\ ready \in LoggerAhead

LoggerInv ==
  /\ ready \in Lists
  /\ printing \in BOOLEAN
  /\ \/ ~printing /\ received = Nothing /\ msg_queue = <<>> /\ logged = Log(noticed)
     \/ printing /\ received = noticed /\ msg_queue = <<>> /\ OnItsWay
     \/ ~printing /\ received = Nothing /\ msg_queue = <<noticed>> /\ OnItsWay

Inv == InputInv /\ ButtonInv /\ LoggerInv

\* The five lists of ready threads.
LEMMA FiveLists ==
  /\ Range(<<>>) = {} /\ Append(<<>>, "button") = <<"button">>
  /\ Head(<<"button">>) = "button" /\ Tail(<<"button">>) = <<>>
  /\ Range(<<"button">>) = {"button"} /\ Append(<<>>, "logger") = <<"logger">>
  /\ Head(<<"logger">>) = "logger" /\ Tail(<<"logger">>) = <<>>
  /\ Range(<<"logger">>) = {"logger"}
  /\ Append(<<"logger">>, "button") = <<"logger", "button">>
  /\ Head(<<"button", "logger">>) = "button" /\ Tail(<<"button", "logger">>) = <<"logger">>
  /\ Range(<<"button", "logger">>) = {"button", "logger"}
  /\ Head(<<"logger", "button">>) = "logger" /\ Tail(<<"logger", "button">>) = <<"button">>
  /\ Range(<<"logger", "button">>) = {"button", "logger"}
<1>1. /\ Append(<<>>, "button") = <<"button">> /\ Append(<<>>, "logger") = <<"logger">>
      /\ Append(<<"logger">>, "button") = <<"logger", "button">>
  <2>1. ASSUME NEW x PROVE Append(<<>>, x) = <<x>>
    <3>1. <<>> \in Seq({x}) /\ <<x>> \in Seq({x}) /\ x \in {x}
      OBVIOUS
    <3>2. Append(<<>>, x) = <<>> \o <<x>>
      BY <3>1, AppendIsConcat
    <3>3. <<>> \o <<x>> = <<x>>
      BY <3>1, ConcatEmptySeq
    <3> QED BY <3>2, <3>3
  <2>2. ASSUME NEW x, NEW y PROVE Append(<<x>>, y) = <<x, y>>
    <3> DEFINE S == {x, y}
               a == Append(<<x>>, y)
               b == <<x, y>>
    <3>1. /\ a \in Seq(S) /\ Len(a) = 2 /\ a[1] = x /\ a[2] = y
      OBVIOUS
    <3>2. /\ b \in Seq(S) /\ Len(b) = 2 /\ b[1] = x /\ b[2] = y
      OBVIOUS
    <3> HIDE DEF S, a, b
    <3>3. a = b
      BY <3>1, <3>2, SeqEqual
    <3> QED BY <3>3 DEF a, b
  <2> QED BY <2>1, <2>2
<1>2. /\ Head(<<"button">>) = "button" /\ Tail(<<"button">>) = <<>>
      /\ Head(<<"logger">>) = "logger" /\ Tail(<<"logger">>) = <<>>
      /\ Head(<<"button", "logger">>) = "button" /\ Tail(<<"button", "logger">>) = <<"logger">>
      /\ Head(<<"logger", "button">>) = "logger" /\ Tail(<<"logger", "button">>) = <<"button">>
  OBVIOUS
<1>3. /\ Range(<<>>) = {} /\ Range(<<"button">>) = {"button"}
      /\ Range(<<"logger">>) = {"logger"}
  <2>1. Range(<<>>) = {}
    BY DEF Range
  <2>2. Range(<<"button">>) = {"button"}
    BY DEF Range
  <2>3. Range(<<"logger">>) = {"logger"}
    BY DEF Range
  <2> QED BY <2>1, <2>2, <2>3
<1>4. Range(<<"button", "logger">>) = {"button", "logger"}
  BY DEF Range
<1>5. Range(<<"logger", "button">>) = {"button", "logger"}
  BY DEF Range
<1> QED BY <1>1, <1>2, <1>3, <1>4, <1>5

\* A list that has the button thread at its head, or not at all; or the logger.
LEMMA ReadyLists ==
  ASSUME NEW r \in Lists
  PROVE  /\ r # <<>> /\ Head(r) = "button" =>
              /\ r \notin LoggerAhead /\ Tail(r) \in Lists
              /\ "logger" \in Range(r) => Tail(r) \in LoggerAhead
              /\ "logger" \notin Range(r) => Append(Tail(r), "logger") \in LoggerAhead
         /\ r # <<>> /\ Head(r) = "logger" =>
              r \in LoggerAhead /\ Tail(r) \in Lists
         /\ "button" \notin Range(r) =>
              /\ Append(r, "button") \in Lists
              /\ r \in LoggerAhead => Append(r, "button") \in LoggerAhead
<1>1. CASE r = <<>>
  BY <1>1, FiveLists DEF Lists, LoggerAhead
<1>2. CASE r = <<"button">>
  BY <1>2, FiveLists DEF Lists, LoggerAhead
<1>3. CASE r = <<"logger">>
  BY <1>3, FiveLists DEF Lists, LoggerAhead
<1>4. CASE r = <<"button", "logger">>
  BY <1>4, FiveLists DEF Lists, LoggerAhead
<1>5. CASE r = <<"logger", "button">>
  BY <1>5, FiveLists DEF Lists, LoggerAhead
<1> QED BY <1>1, <1>2, <1>3, <1>4, <1>5 DEF Lists, LoggerAhead

\* The next press, appended to the log.
LEMMA LogGrows ==
  ASSUME NEW n \in Nat \ {0}
  PROVE  /\ Log(n) \in Seq(1 .. n) /\ Len(Log(n)) = n
         /\ Append(Log(n - 1), n) = Log(n)
         /\ Log(n - 1) \o <<n>> = Log(n)
<1>1. /\ Log(n) \in Seq(Nat) /\ Len(Log(n)) = n /\ Log(n) \in Seq(1 .. n)
      /\ Log(n - 1) \in Seq(Nat) /\ Len(Log(n - 1)) = n - 1
      /\ \A i \in 1 .. n : Log(n)[i] = i
      /\ \A i \in 1 .. n - 1 : Log(n - 1)[i] = i
  BY DEF Log
<1>2. Append(Log(n - 1), n) = Log(n)
  <2> DEFINE a == Log(n - 1)
             b == Log(n)
  <2> HIDE DEF a, b
  <2>1. Append(a, n) \in Seq(Nat) /\ Len(Append(a, n)) = n
    BY <1>1 DEF a
  <2>2. ASSUME NEW i \in 1 .. n PROVE Append(a, n)[i] = b[i]
    <3>1. i \in 1 .. n - 1 \/ i = n
      OBVIOUS
    <3> QED BY <1>1, <3>1 DEF a, b
  <2>3. b \in Seq(Nat) /\ Len(b) = n
    BY <1>1 DEF b
  <2>4. Append(a, n) = b
    BY <2>1, <2>2, <2>3, SeqEqual
  <2> QED BY <2>4 DEF a, b
<1>3. Log(n - 1) \o <<n>> = Append(Log(n - 1), n)
  <2> DEFINE a == Log(n - 1)
  <2>1. a \in Seq(Nat) /\ n \in Nat
    BY <1>1
  <2> HIDE DEF a
  <2>2. Append(a, n) = a \o <<n>>
    BY <2>1, AppendIsConcat
  <2> QED BY <2>2 DEF a
<1> QED BY <1>1, <1>2, <1>3

\* The steps of the buttons, the button thread and the logger keep the
\* invariant, whatever the input thread does between them.
LEMMA PressStep ==
  ASSUME ButtonInv, LoggerInv, PressOrRelease
  PROVE  ButtonInv' /\ LoggerInv'
<1>1. /\ button \in BOOLEAN /\ presses \in 0 .. MaxPresses /\ noticed \in 0 .. presses
      /\ MaxPresses \in Nat
  BY BasicDemoAssumption DEF ButtonInv
<1>2. /\ UNCHANGED <<button_was_pressed, led2, noticed, ready, logger>>
      /\ button' = ~button /\ presses' = (IF button THEN presses ELSE presses + 1)
      /\ button \/ presses < MaxPresses
  BY DEF PressOrRelease
<1>3. LoggerInv'
  BY <1>2 DEF LoggerInv, OnItsWay, logger
<1>4. button' \in BOOLEAN
  BY <1>2
<1>5. CASE button
  <2>1. ~button' /\ presses' = presses
    BY <1>1, <1>2, <1>5
  <2> QED BY <1>2, <1>3, <1>4, <2>1 DEF ButtonInv
<1>6. CASE ~button
  <2>1. /\ presses' = presses + 1 /\ presses + 1 \in 0 .. MaxPresses
        /\ noticed \in 0 .. presses + 1 /\ noticed < presses + 1
    BY <1>1, <1>2, <1>6
  <2> QED BY <1>2, <1>3, <1>4, <2>1 DEF ButtonInv
<1> QED BY <1>5, <1>6

\* A list of ready threads gets the button thread at its end.
LEMMA WakeStep ==
  ASSUME ButtonInv, LoggerInv, ButtonWake
  PROVE  ButtonInv' /\ LoggerInv'
<1>1. UNCHANGED <<buttons, logger>> /\ "button" \notin Range(ready)
      /\ ready' = Append(ready, "button")
  BY DEF ButtonWake
<1>2. ready' \in Lists /\ (ready \in LoggerAhead => ready' \in LoggerAhead)
  BY <1>1, ReadyLists DEF LoggerInv
<1>3. LoggerInv'
  BY <1>1, <1>2 DEF LoggerInv, OnItsWay, logger, buttons
<1>4. ButtonInv'
  BY <1>1 DEF ButtonInv, buttons
<1> QED BY <1>3, <1>4

\* The button thread runs only when no press is on its way; a new one finds
\* the logger waiting, or an empty queue.
LEMMA PollStep ==
  ASSUME ButtonInv, LoggerInv, Poll
  PROVE  ButtonInv' /\ LoggerInv'
<1>1. /\ ready \in Lists /\ ready # <<>> /\ Head(ready) = "button"
      /\ button \in BOOLEAN /\ presses \in 0 .. MaxPresses /\ noticed \in 0 .. presses
      /\ MaxPresses \in Nat /\ QueueSize \in Nat \ {0}
      /\ UNCHANGED <<button, presses>>
      /\ button_was_pressed' = button /\ led2' = button
  BY BasicDemoAssumption DEF Poll, Runs, ButtonInv, LoggerInv
<1>2. /\ ready \notin LoggerAhead /\ Tail(ready) \in Lists
      /\ "logger" \in Range(ready) => Tail(ready) \in LoggerAhead
      /\ "logger" \notin Range(ready) => Append(Tail(ready), "logger") \in LoggerAhead
  BY <1>1, ReadyLists
<1>3. ~printing /\ received = Nothing /\ msg_queue = <<>> /\ logged = Log(noticed)
  BY <1>2 DEF LoggerInv, OnItsWay
<1>4. CASE ~(button /\ ~button_was_pressed)
  <2>1. ready' = Tail(ready) /\ UNCHANGED <<logger, noticed>>
    BY <1>4 DEF Poll
  <2>2. LoggerInv'
    BY <1>2, <1>3, <2>1 DEF LoggerInv, logger
  <2>3. button' /\ ~button_was_pressed' => noticed' < presses'
    BY <1>1
  <2>4. ButtonInv'
    BY <1>1, <2>1, <2>3 DEF ButtonInv
  <2> QED BY <2>2, <2>4
<1>5. CASE button /\ ~button_was_pressed
  <2>1. noticed' = noticed + 1 /\ SendPress(noticed + 1)
    BY <1>5 DEF Poll
  <2>2. noticed < presses /\ noticed + 1 \in 0 .. presses /\ noticed + 1 # 0
        /\ (noticed + 1) - 1 = noticed
    BY <1>1, <1>5 DEF ButtonInv
  <2>3. button' /\ ~button_was_pressed' => noticed' < presses'
    BY <1>1
  <2>4. ButtonInv'
    BY <1>1, <2>1, <2>2, <2>3 DEF ButtonInv
  <2>5. CASE "logger" \notin Range(ready)
    <3>1. /\ received' = noticed + 1 /\ printing' = TRUE
          /\ ready' = Append(Tail(ready), "logger")
          /\ UNCHANGED <<msg_queue, logged>>
      BY <2>1, <2>5 DEF SendPress
    <3>2. ready' \in LoggerAhead
      BY <1>2, <2>5, <3>1
    <3>3. OnItsWay'
      BY <1>3, <2>1, <2>2, <3>1, <3>2 DEF OnItsWay
    <3> QED BY <1>3, <2>1, <2>4, <3>1, <3>2, <3>3 DEF LoggerInv, Lists
  <2>6. CASE "logger" \in Range(ready)
    <3>1. /\ msg_queue' = (IF Len(msg_queue) < QueueSize
                           THEN Append(msg_queue, noticed + 1) ELSE msg_queue)
          /\ ready' = Tail(ready)
          /\ UNCHANGED <<received, printing, logged>>
      BY <2>1, <2>6 DEF SendPress
    <3>2. ready' \in LoggerAhead
      BY <1>2, <2>6, <3>1
    <3>3. msg_queue' = <<noticed + 1>>
      <4>1. Len(<<>>) < QueueSize /\ Append(<<>>, noticed + 1) = <<noticed + 1>>
        BY <1>1
      <4> QED BY <1>3, <3>1, <4>1
    <3>4. OnItsWay'
      BY <1>3, <2>1, <2>2, <3>1, <3>2 DEF OnItsWay
    <3> QED BY <1>3, <2>1, <2>4, <3>1, <3>2, <3>3, <3>4 DEF LoggerInv, Lists
  <2> QED BY <2>5, <2>6
<1> QED BY <1>4, <1>5

\* The logger takes the press on its way, and prints it as the next.
LEMMA LoggerStep ==
  ASSUME ButtonInv, LoggerInv, Logger
  PROVE  ButtonInv' /\ LoggerInv'
<1>1. /\ ready \in Lists /\ ready # <<>> /\ Head(ready) = "logger"
      /\ UNCHANGED buttons
  BY DEF Logger, LoggerTake, LoggerWait, LoggerPrint, Runs, LoggerInv
<1>2. ready \in LoggerAhead /\ Tail(ready) \in Lists
  BY <1>1, ReadyLists
<1>3. ButtonInv'
  BY <1>1 DEF ButtonInv, buttons
<1>4. noticed' = noticed /\ noticed \in Nat
  BY <1>1 DEF ButtonInv, buttons
<1>5. CASE LoggerTake
  <2>1. /\ ~printing /\ msg_queue # <<>>
        /\ received' = Head(msg_queue) /\ msg_queue' = Tail(msg_queue)
        /\ printing' = TRUE /\ UNCHANGED <<ready, logged>>
    BY <1>5 DEF LoggerTake
  <2>2. msg_queue = <<noticed>> /\ OnItsWay
    BY <2>1 DEF LoggerInv
  <2>3. received' = noticed /\ msg_queue' = <<>>
    BY <2>1, <2>2
  <2>4. OnItsWay'
    BY <1>4, <2>1, <2>2 DEF OnItsWay
  <2> QED BY <1>1, <1>3, <1>4, <2>1, <2>3, <2>4 DEF LoggerInv
<1>6. CASE LoggerWait
  <2>1. ~printing /\ msg_queue = <<>> /\ ready' = Tail(ready) /\ UNCHANGED logger
    BY <1>6 DEF LoggerWait
  <2>2. received = Nothing /\ logged = Log(noticed)
    <3>1. msg_queue # <<noticed>>
      BY <2>1
    <3> QED BY <2>1, <3>1 DEF LoggerInv
  <2> QED BY <1>2, <1>3, <1>4, <2>1, <2>2 DEF LoggerInv, logger
<1>7. CASE LoggerPrint
  <2>1. /\ printing /\ logged' = Append(logged, received)
        /\ received' = Nothing /\ printing' = FALSE
        /\ UNCHANGED <<ready, msg_queue>>
    BY <1>7 DEF LoggerPrint
  <2>2. received = noticed /\ msg_queue = <<>> /\ logged = Log(noticed - 1) /\ noticed # 0
    BY <2>1 DEF LoggerInv, OnItsWay
  <2>3. logged' = Log(noticed)
    BY <1>4, <2>1, <2>2, LogGrows
  <2> QED BY <1>1, <1>3, <1>4, <2>1, <2>2, <2>3 DEF LoggerInv
<1> QED BY <1>5, <1>6, <1>7 DEF Logger

\* No press yet, and both threads are ready.
LEMMA InitInv == Init => Inv /\ Fifo!Init
<1> SUFFICES ASSUME Init PROVE Inv /\ Fifo!Init
  OBVIOUS
<1>1. InputInv /\ Fifo!Init
  BY InputBegins DEF Init
<1>2. ButtonInv
  <2>1. 0 \in 0 .. MaxPresses /\ 0 \in 0 .. 0
    BY BasicDemoAssumption
  <2>2. /\ button = FALSE /\ presses = 0 /\ button_was_pressed = FALSE /\ led2 = FALSE
        /\ noticed = 0
    BY DEF Init
  <2> QED BY <2>1, <2>2 DEF ButtonInv
<1>3. Log(0) = <<>>
  <2>1. Log(0) \in Seq(Nat) /\ Len(Log(0)) = 0
    BY DEF Log
  <2> QED BY <2>1, EmptySeq
<1>4. LoggerInv
  BY <1>3 DEF Init, LoggerInv, Lists
<1> QED BY <1>1, <1>2, <1>4 DEF Inv

\* Every step of the program keeps the invariant, and is a step of the FIFO.
LEMMA InvStep ==
  ASSUME Inv, [Next]_vars
  PROVE  Inv' /\ [Fifo!Next]_(RingContent)
<1>0. InputInv /\ ButtonInv /\ LoggerInv
  BY DEF Inv
<1>1. CASE Input
  <2>1. InputInv' /\ [Fifo!Next]_(RingContent)
    BY <1>0, <1>1, InputStep DEF Input
  <2>2. ButtonInv' /\ LoggerInv'
    BY <1>0, <1>1 DEF Input, ButtonInv, LoggerInv, OnItsWay, buttons, logger
  <2> QED BY <2>1, <2>2 DEF Inv
<1>2. CASE PressOrRelease \/ ButtonWake \/ Poll \/ Logger
  <2>1. UNCHANGED input
    BY <1>2 DEF PressOrRelease, ButtonWake, Poll, Logger, LoggerTake, LoggerWait, LoggerPrint
  <2>2. ButtonInv' /\ LoggerInv'
    BY <1>0, <1>2, PressStep, WakeStep, PollStep, LoggerStep
  <2> QED BY <1>0, <2>1, <2>2, InputKept DEF Inv
<1>3. CASE UNCHANGED vars
  <2>1. UNCHANGED input
    BY <1>3 DEF vars
  <2>2. ButtonInv' /\ LoggerInv'
    BY <1>0, <1>3 DEF vars, ButtonInv, LoggerInv, OnItsWay, buttons, logger
  <2> QED BY <1>0, <2>1, <2>2, InputKept DEF Inv
<1> QED BY <1>1, <1>2, <1>3 DEF Next

-----------------------------------------------------------------------------
(* The theorems.                                                           *)

\* The invariant holds in every state the program can reach.
THEOREM Invariance == Spec => []Inv
<1>1. Init => Inv
  BY InitInv
<1>2. Inv /\ [Next]_vars => Inv'
  BY InvStep
<1> QED BY <1>1, <1>2, PTL DEF Spec

\* A press that was noticed is never lost, logged twice or out of order,
\* although the result of the send is ignored: with a queue of any size.
THEOREM NoPressIsLost == Spec => []PressesAccounted
<1>1. Inv => PressesAccounted
  <2> SUFFICES ASSUME Inv PROVE PressesAccounted
    OBVIOUS
  <2>0. InputInv /\ ButtonInv /\ LoggerInv
    BY DEF Inv
  <2>1. noticed \in Nat /\ noticed \in 0 .. MaxPresses
    BY <2>0, BasicDemoAssumption DEF ButtonInv
  <2>2. ready \in Seq({"button", "logger"}) /\ IsInjective(ready)
    <3>1. ready \in Lists
      BY <2>0 DEF LoggerInv
    <3>2. CASE ready \in {<<>>, <<"button">>, <<"logger">>}
      <4>1. CASE ready = <<>>
        BY <4>1 DEF IsInjective
      <4>2. CASE ready = <<"button">>
        BY <4>2 DEF IsInjective
      <4>3. CASE ready = <<"logger">>
        BY <4>3 DEF IsInjective
      <4> QED BY <3>2, <4>1, <4>2, <4>3
    <3>3. CASE ready = <<"button", "logger">>
      BY <3>3 DEF IsInjective
    <3>4. CASE ready = <<"logger", "button">>
      BY <3>4 DEF IsInjective
    <3> QED BY <3>1, <3>2, <3>3, <3>4 DEF Lists, LoggerAhead
  <2>3. ASSUME NEW n \in 0 .. MaxPresses PROVE Log(n) \in Seq(Press) /\ Log(n) \in Seq(Nat)
    BY <2>3, BasicDemoAssumption DEF Log, Press
  <2>4. /\ msg_queue \in Seq(Press) /\ Len(msg_queue) <= QueueSize
        /\ received \in Press \union {Nothing} /\ logged \in Seq(Press)
        /\ logged \o (IF printing THEN <<received>> ELSE <<>>) \o msg_queue = Log(noticed)
    <3>1. CASE msg_queue = <<>> /\ ~printing
      <4>1. received = Nothing /\ logged = Log(noticed)
        BY <2>0, <3>1 DEF LoggerInv
      <4>2. Log(noticed) \o <<>> = Log(noticed)
        BY <2>1, <2>3, ConcatEmptySeq
      <4> QED BY <2>1, <2>3, <3>1, <4>1, <4>2, BasicDemoAssumption
    <3>2. CASE msg_queue # <<>> \/ printing
      <4>1. /\ logged = Log(noticed - 1) /\ noticed # 0
            /\ \/ printing /\ received = noticed /\ msg_queue = <<>>
               \/ ~printing /\ received = Nothing /\ msg_queue = <<noticed>>
        BY <2>0, <3>2 DEF LoggerInv, OnItsWay
      <4>2. noticed \in Press /\ noticed - 1 \in 0 .. MaxPresses /\ noticed \in Nat \ {0}
        BY <2>1, <4>1, BasicDemoAssumption DEF Press
      <4>3. /\ Log(noticed - 1) \o <<noticed>> = Log(noticed)
            /\ Log(noticed) \o <<>> = Log(noticed)
            /\ Log(noticed - 1) \o <<>> = Log(noticed - 1)
        BY <2>1, <2>3, <4>2, LogGrows, ConcatEmptySeq
      <4>4. logged \in Seq(Press)
        BY <2>3, <4>1, <4>2
      <4>5. /\ <<noticed>> \in Seq(Press) /\ Len(<<noticed>>) <= QueueSize
            /\ <<>> \in Seq(Press) /\ Len(<<>>) <= QueueSize
        BY <4>2, BasicDemoAssumption
      <4> QED BY <4>1, <4>2, <4>3, <4>4, <4>5
    <3> QED BY <3>1, <3>2
  <2>5. TypeOK
    BY <2>0, <2>2, <2>4 DEF InputInv, ButtonInv, LoggerInv, TypeOK
  <2> QED BY <2>4, <2>5 DEF PressesAccounted, Log
<1> QED BY <1>1, Invariance, PTL

\* Handler and thread, without a lock, make the ring a FIFO of RingSize - 1
\* bytes: for every size of the ring, and however they interleave.
THEOREM RingIsFifo == Spec => ImplementsFifo
<1>1. Init => Fifo!Init
  BY InitInv
<1>2. Inv /\ [Next]_vars => [Fifo!Next]_(RingContent)
  BY InvStep
<1> QED BY <1>1, <1>2, Invariance, PTL DEF Spec, ImplementsFifo, Fifo!Spec
=============================================================================
