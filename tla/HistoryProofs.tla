--------------------------- MODULE HistoryProofs ----------------------------
(* The window of the ring, what a reader can be given, how a reload heals, *)
(* and that the ring implements the log, for every compiled maximum, every *)
(* set of configurations and any number of samples, reloads and responses. *)
(* Then when the ring is sampled: the lock of the pass, the accounts of    *)
(* the requests and the smoothed rate, for every number of workers, every  *)
(* lag of their clocks, every interval and resolution.                     *)
EXTENDS HistoryRing, Sampling, SequenceTheorems, FiniteSetTheorems, TLAPS

-----------------------------------------------------------------------------
(* The remainder that places a sample in its row.                          *)
LEMMA ModDef ==
    ASSUME NEW a \in Int, NEW n \in Nat \ {0}
    PROVE  a = n * (a \div n) + (a % n) /\ a \div n \in Int /\ a % n \in 0 .. n - 1
OBVIOUS

LEMMA Between ==
    ASSUME NEW n \in Nat \ {0}, NEW d \in Int, NEW m \in Int, m = n * d, -n < m, m < n
    PROVE  d = 0
OBVIOUS

LEMMA ModUnique ==
    ASSUME NEW a \in Int, NEW n \in Nat \ {0}, NEW q \in Int, NEW r \in 0 .. n - 1,
           a = n * q + r
    PROVE  a % n = r
<1> DEFINE p == a \div n
           s == a % n
<1>1. a = n * p + s /\ p \in Int /\ s \in 0 .. n - 1
  BY ModDef
<1> HIDE DEF p, s
<1>2. r - s = n * (p - q)
  BY <1>1
<1>3. -n < r - s /\ r - s < n /\ r - s \in Int /\ p - q \in Int
  BY <1>1
<1>4. p - q = 0
  BY <1>2, <1>3, Between
<1> QED BY <1>1, <1>2, <1>4 DEF s

LEMMA ModShift ==
    ASSUME NEW a \in Int, NEW n \in Nat \ {0}
    PROVE  (a + n) % n = a % n
<1> DEFINE p == a \div n
           s == a % n
<1>1. a = n * p + s /\ p \in Int /\ s \in 0 .. n - 1
  BY ModDef
<1> HIDE DEF p, s
<1>2. a + n = n * (p + 1) + s /\ p + 1 \in Int /\ a + n \in Int
  BY <1>1
<1>3. (a + n) % n = s
  BY <1>1, <1>2, ModUnique
<1> QED BY <1>3 DEF s

(* Two samples less than a capacity apart that share a row are the same.   *)
LEMMA ModSame ==
    ASSUME NEW a \in Int, NEW b \in Int, NEW n \in Nat \ {0},
           a <= b, b < a + n, a % n = b % n
    PROVE  a = b
<1> DEFINE p == a \div n
           q == b \div n
           r == a % n
<1>1. a = n * p + r /\ b = n * q + r /\ p \in Int /\ q \in Int /\ r \in 0 .. n - 1
  BY ModDef
<1> HIDE DEF p, q, r
<1>2. b - a = n * (q - p) /\ -n < b - a /\ b - a < n /\ b - a \in Int /\ q - p \in Int
  BY <1>1
<1>3. q - p = 0
  BY <1>2, Between
<1> QED BY <1>1, <1>3

LEMMA LeastType ==
    ASSUME NEW a \in Nat, NEW b \in Nat
    PROVE  Least(a, b) \in Nat /\ Least(a, b) <= a /\ Least(a, b) <= b
           /\ (Least(a, b) = a \/ Least(a, b) = b)
BY DEF Least

LEMMA CapacityType == \A c \in Confs : CapacityOf(c) \in 1 .. HistoryMax
<1> SUFFICES ASSUME NEW c \in Confs PROVE CapacityOf(c) \in 1 .. HistoryMax
  OBVIOUS
<1>1. c.history \in Nat /\ Greatest(c.resolution, 1) \in Nat \ {0}
  BY HistoryAssumption DEF Greatest
<1>2. c.history \div Greatest(c.resolution, 1) \in Int
  BY <1>1
<1> DEFINE q == c.history \div Greatest(c.resolution, 1)
<1> HIDE DEF q
<1>3. q \in Int
  BY <1>2 DEF q
<1>4. Least(Greatest(q, 1), HistoryMax) \in 1 .. HistoryMax
  BY <1>3, HistoryAssumption DEF Least, Greatest
<1> QED BY <1>4 DEF q, CapacityOf

-----------------------------------------------------------------------------
(* A sample is done when its append has ended; until then its number is    *)
(* taken but its row is not part of the window.                            *)
Claimed == wpc \in {"zero", "fill", "test", "add"}
Done    == IF Claimed THEN historyWrite - 1 ELSE historyWrite

Shape ==
    /\ TypeOK
    /\ wpc # "idle" => wcap \in 1 .. HistoryMax
    /\ wpc = "claim" => historyWrite < MaxSamples
    /\ wpc = "add" => historyCount < HistoryMax
    /\ Claimed => historyWrite >= 1 /\ wpos = (historyWrite - 1) % wcap
    /\ settled <= Done
    /\ mpc # "idle" => mcap \in 1 .. HistoryMax
    /\ mpc = "clamp" => mcap < HistoryMax
    /\ rpc \in {"capacity", "write"} => out = <<>>
    /\ rpc \in {"write", "rows"} => rcap >= 1
    /\ Len(out) <= rcount

(* The samples appended since the last reload sit in the rows where the    *)
(* new capacity puts them, and the count admits them.                      *)
RingInv ==
    /\ settled > 0 => mpc = "idle" /\ (wpc # "idle" => wcap = historyCapacity)
    /\ historyCount >= Least(settled, historyCapacity)
    /\ \A n \in 1 .. Done :
          n > Done - settled /\ n > historyWrite - historyCapacity =>
              history[(n - 1) % historyCapacity] = n
    /\ wpc \in {"test", "add"} => history[wpos] = historyWrite

(* Before the first reload every sample is settled, the count is exact, and *)
(* a row holds nothing but a sample of the window, in its place.            *)
RowsInv ==
    \A r \in Rows : history[r] # 0 =>
        /\ history[r] > Appended - historyCapacity /\ history[r] <= Appended
        /\ r = (history[r] - 1) % historyCapacity

FirstInv == reloads = 0 =>
    /\ mpc = "idle" /\ (wpc # "idle" => wcap = historyCapacity)
    /\ settled = Done /\ historyCount = Least(Done, historyCapacity)
    /\ wpc = "add" => historyCount < historyCapacity
    /\ RowsInv
    /\ rpc \in {"write", "rows"} => rcap = historyCapacity
    /\ rpc = "rows" => rwrite <= historyWrite

Inv == Shape /\ RingInv /\ FirstInv /\ ReaderFresh

-----------------------------------------------------------------------------
LEMMA InitInv == Init => Inv
<1> SUFFICES ASSUME Init PROVE Inv
  OBVIOUS
<1> USE HistoryAssumption DEF Init
<1>1. historyCapacity \in 1 .. HistoryMax
  BY CapacityType
<1>2. Len(<<>>) = 0 /\ <<>> \in Seq(0 .. MaxSamples)
  OBVIOUS
<1>3. Shape
  BY <1>1, <1>2 DEF Shape, TypeOK, Rows, Claimed, Done
<1>4. RingInv
  BY <1>1 DEF RingInv, Done, Claimed, Least
<1>5. FirstInv
  BY <1>1 DEF FirstInv, RowsInv, Done, Claimed, Least, Rows
<1>6. ReaderFresh
  BY DEF ReaderFresh
<1> QED BY <1>3, <1>4, <1>5, <1>6 DEF Inv

LEMMA StepShape == Shape /\ [Next]_vars => Shape'
<1> SUFFICES ASSUME Shape, [Next]_vars PROVE Shape'
  OBVIOUS
<1> USE HistoryAssumption DEF Shape, TypeOK, Rows, Claimed, Done, ring, writer, master, reader
<1>1. CASE LoadCapacity
  BY <1>1 DEF LoadCapacity
<1>2. CASE Claim
  <2>1. historyWrite % wcap \in 0 .. wcap - 1
    <3>1. wcap \in Nat \ {0} /\ historyWrite \in Int
      BY <1>2 DEF Claim
    <3> QED BY <3>1, ModDef
  <2> QED BY <1>2, <2>1 DEF Claim
<1>3. CASE ZeroRow
  BY <1>3 DEF ZeroRow
<1>4. CASE FillRow
  BY <1>4 DEF FillRow
<1>5. CASE TestCount
  BY <1>5, SMTT(30) DEF TestCount, Ended
<1>6. CASE AddCount
  BY <1>6 DEF AddCount, Ended
<1>7. CASE StoreCapacity
  BY <1>7, CapacityType, SMTT(30) DEF StoreCapacity
<1>8. CASE ClampTest
  BY <1>8 DEF ClampTest
<1>9. CASE ClampStore
  BY <1>9 DEF ClampStore
<1>10. CASE ReadCount
  BY <1>10 DEF ReadCount, Least
<1>11. CASE ReadCapacity
  BY <1>11 DEF ReadCapacity, Least
<1>12. CASE ReadWrite
  BY <1>12 DEF ReadWrite
<1>13. CASE ReadRow
  <2> DEFINE row == RowIndex(rwrite, rcap, rcount, Len(out))
  <2>1. row \in 0 .. rcap - 1
    <3>1. rcap \in Nat \ {0} /\ rwrite + rcap - rcount + Len(out) \in Int
      BY <1>13 DEF ReadRow
    <3> QED BY <3>1, ModDef DEF RowIndex
  <2> HIDE DEF row
  <2>2. history[row] \in 0 .. MaxSamples
    BY <1>13, <2>1 DEF ReadRow
  <2>3. out' = Append(out, history[row])
    BY <1>13 DEF ReadRow, row
  <2>4. out' \in Seq(0 .. MaxSamples) /\ Len(out') = Len(out) + 1
    BY <2>2, <2>3
  <2> QED BY <1>13, <2>4, SMTT(30) DEF ReadRow
<1>14. CASE ReadDone
  BY <1>14 DEF ReadDone
<1>15. CASE UNCHANGED vars
  BY <1>15 DEF vars
<1> QED BY <1>1, <1>2, <1>3, <1>4, <1>5, <1>6, <1>7, <1>8, <1>9, <1>10, <1>11, <1>12,
           <1>13, <1>14, <1>15 DEF Next, WriterNext, MasterNext, ReaderNext

(* A writer that owns the row of sample history_write does not touch the   *)
(* row of an older sample of the window.                                   *)
LEMMA OtherRow ==
    ASSUME Shape, Claimed, wcap = historyCapacity,
           NEW n \in Int, n < historyWrite, n > historyWrite - historyCapacity
    PROVE  (n - 1) % historyCapacity # wpos
<1>1. historyCapacity \in Nat \ {0} /\ n - 1 \in Int /\ historyWrite \in Int
  BY HistoryAssumption DEF Shape, TypeOK
<1>2. n - 1 <= historyWrite - 1 /\ historyWrite - 1 < n - 1 + historyCapacity
  BY <1>1
<1>3. wpos = (historyWrite - 1) % historyCapacity
  BY DEF Shape
<1>4. n - 1 # historyWrite - 1 /\ historyWrite - 1 \in Int
  BY <1>1
<1> QED BY <1>1, <1>2, <1>3, <1>4, ModSame

LEMMA RowInRows ==
    ASSUME Shape, NEW n \in Int
    PROVE  n % historyCapacity \in Rows /\ n % historyCapacity \in 0 .. historyCapacity - 1
<1>1. historyCapacity \in Nat \ {0} /\ historyCapacity <= HistoryMax
  BY HistoryAssumption DEF Shape, TypeOK
<1>2. n % historyCapacity \in 0 .. historyCapacity - 1
  BY <1>1, ModDef
<1> QED BY <1>1, <1>2, HistoryAssumption DEF Rows

LEMMA StepRing == Shape /\ RingInv /\ [Next]_vars => RingInv'
<1> SUFFICES ASSUME Shape, RingInv, [Next]_vars PROVE RingInv'
  OBVIOUS
<1>T. /\ historyWrite \in Nat /\ historyCapacity \in Nat \ {0} /\ settled \in Nat
      /\ historyCount \in Nat /\ wcap \in Nat /\ mcap \in Nat /\ wpos \in Rows
      /\ history \in [Rows -> 0 .. MaxSamples]
      /\ settled <= Done /\ Done \in Int
  BY HistoryAssumption DEF Shape, TypeOK, Done, Claimed
<1> USE <1>T DEF RingInv, Done, Claimed, ring, writer, master, reader
<1>1. CASE LoadCapacity
  <2>1. settled > 0 => wcap' = historyCapacity
    BY <1>1, HistoryAssumption DEF LoadCapacity, Shape, TypeOK
  <2> QED BY <1>1, <2>1 DEF LoadCapacity
<1>2. CASE Claim
  <2> USE <1>2 DEF Claim
  <2>1. Done' = Done /\ historyWrite' = historyWrite + 1
    OBVIOUS
  <2> QED BY <2>1
<1>3. CASE ZeroRow
  <2> USE <1>3 DEF ZeroRow
  <2>1. ASSUME NEW n \in 1 .. Done, n > Done - settled, n > historyWrite - historyCapacity
        PROVE  history'[(n - 1) % historyCapacity] = n
    <3>1. history[(n - 1) % historyCapacity] = n /\ wcap = historyCapacity
      BY <2>1
    <3>2. (n - 1) % historyCapacity # wpos
      BY <2>1, <3>1, OtherRow
    <3>3. (n - 1) % historyCapacity \in Rows
      <4>1. n - 1 \in Int
        OBVIOUS
      <4> QED BY <4>1, RowInRows
    <3> QED BY <3>1, <3>2, <3>3
  <2> QED BY <2>1
<1>4. CASE FillRow
  <2> USE <1>4 DEF FillRow
  <2>1. ASSUME NEW n \in 1 .. Done, n > Done - settled, n > historyWrite - historyCapacity
        PROVE  history'[(n - 1) % historyCapacity] = n
    <3>1. history[(n - 1) % historyCapacity] = n /\ wcap = historyCapacity
      BY <2>1
    <3>2. (n - 1) % historyCapacity # wpos
      BY <2>1, <3>1, OtherRow
    <3>3. (n - 1) % historyCapacity \in Rows
      <4>1. n - 1 \in Int
        OBVIOUS
      <4> QED BY <4>1, RowInRows
    <3> QED BY <3>1, <3>2, <3>3
  <2> QED BY <2>1
<1>5. ASSUME wpc \in {"test", "add"}, wpc' = "idle", Ended,
             UNCHANGED <<history, historyWrite, historyCapacity, wcap, wpos, master>>,
             historyCount' \in Nat, historyCount' >= historyCount,
             wcap = historyCapacity =>
                 (historyCount' >= wcap \/ historyCount' > historyCount)
      PROVE  RingInv'
  <2>1. Done' = historyWrite /\ Done = historyWrite - 1 /\ mpc' = mpc
    BY <1>5
  <2>2. /\ settled > 0 => settled' = settled + 1
        /\ settled' = settled + 1 \/ settled' = settled
        /\ settled' > 0 => wcap = historyCapacity /\ mpc = "idle"
    BY <1>5 DEF Ended
  <2>3. historyCount' >= Least(settled', historyCapacity)
    BY <1>5, <2>2 DEF Least
  <2>4. ASSUME NEW n \in 1 .. historyWrite,
               n > historyWrite - settled', n > historyWrite - historyCapacity
        PROVE  history[(n - 1) % historyCapacity] = n
    <3>1. wcap = historyCapacity
      BY <2>2, <2>4
    <3>2. CASE n = historyWrite
      BY <1>5, <3>1, <3>2 DEF Shape
    <3>3. CASE n < historyWrite
      <4>1. settled > 0
        BY <2>2, <2>4, <3>3
      <4>2. n \in 1 .. Done /\ n > Done - settled
        BY <2>1, <2>2, <2>4, <3>3, <4>1
      <4> QED BY <2>4, <4>2
    <3> QED BY <3>2, <3>3
  <2> QED BY <1>5, <2>1, <2>2, <2>3, <2>4
<1>6. CASE TestCount
  <2>1. CASE historyCount < wcap
    BY <1>6, <2>1 DEF TestCount
  <2>2. CASE ~(historyCount < wcap)
    <3>1. wpc' = "idle" /\ Ended /\ wpc = "test"
      BY <1>6, <2>2 DEF TestCount
    <3>2. historyCount' = historyCount /\ historyCount >= wcap
      BY <1>6, <2>2 DEF TestCount
    <3> QED BY <1>5, <1>6, <3>1, <3>2 DEF TestCount
  <2> QED BY <2>1, <2>2
<1>7. CASE AddCount
  <2>1. historyCount' \in Nat /\ historyCount' > historyCount /\ wpc = "add"
    BY <1>7 DEF AddCount
  <2> QED BY <1>5, <1>7, <2>1 DEF AddCount
<1>8. CASE StoreCapacity
  <2>1. settled' = 0 /\ Done' = Done /\ historyCapacity' \in Nat \ {0}
    BY <1>8, CapacityType DEF StoreCapacity
  <2> QED BY <1>8, <2>1 DEF StoreCapacity, Least
<1>9. CASE ClampTest
  BY <1>9 DEF ClampTest
<1>10. CASE ClampStore
  <2>1. settled = 0 /\ historyCount' = mcap /\ mcap \in Nat
    BY <1>10 DEF ClampStore
  <2> QED BY <1>10, <2>1 DEF ClampStore, Least
<1>11. CASE ReaderNext \/ UNCHANGED vars
  <2>1. UNCHANGED <<ring, writer, master, settled>>
    BY <1>11 DEF ReaderNext, ReadCount, ReadCapacity, ReadWrite, ReadRow, ReadDone, vars
  <2> QED BY <2>1
<1> QED BY <1>1, <1>2, <1>3, <1>4, <1>6, <1>7, <1>8, <1>9, <1>10, <1>11
        DEF Next, WriterNext, MasterNext

LEMMA StepFirst == Shape /\ RingInv /\ FirstInv /\ [Next]_vars => FirstInv'
<1> SUFFICES ASSUME Shape, RingInv, FirstInv, [Next]_vars, reloads' = 0 PROVE
        /\ mpc' = "idle" /\ (wpc' # "idle" => wcap' = historyCapacity')
        /\ settled' = Done' /\ historyCount' = Least(Done', historyCapacity')
        /\ wpc' = "add" => historyCount' < historyCapacity'
        /\ RowsInv'
        /\ rpc' \in {"write", "rows"} => rcap' = historyCapacity'
        /\ rpc' = "rows" => rwrite' <= historyWrite'
  BY DEF FirstInv
<1>T. /\ historyWrite \in Nat /\ historyCapacity \in Nat \ {0}
      /\ historyCapacity <= HistoryMax /\ HistoryMax \in Nat
      /\ reloads \in Nat /\ wpos \in Rows /\ rwrite \in Nat
      /\ history \in [Rows -> 0 .. MaxSamples] /\ MaxSamples \in Nat
  BY HistoryAssumption DEF Shape, TypeOK
<1>0. reloads = 0 /\ ~StoreCapacity /\ ~ClampTest /\ ~ClampStore
  <2>1. ~StoreCapacity
    BY <1>T DEF StoreCapacity
  <2>2. reloads = 0
    BY <2>1 DEF Next, WriterNext, MasterNext, ReaderNext, LoadCapacity, Claim, ZeroRow,
                FillRow, TestCount, AddCount, ClampTest, ClampStore, ReadCount,
                ReadCapacity, ReadWrite, ReadRow, ReadDone, vars, master
  <2>3. mpc = "idle"
    BY <2>2 DEF FirstInv
  <2> QED BY <2>1, <2>2, <2>3 DEF ClampTest, ClampStore
<1>H. /\ mpc = "idle" /\ (wpc # "idle" => wcap = historyCapacity)
      /\ settled = Done /\ historyCount = Least(Done, historyCapacity)
      /\ wpc = "add" => historyCount < historyCapacity
      /\ RowsInv
      /\ rpc \in {"write", "rows"} => rcap = historyCapacity
      /\ rpc = "rows" => rwrite <= historyWrite
  BY <1>0 DEF FirstInv
<1> USE <1>T, <1>H DEF Done, Claimed, Appended, Pending, ring, writer, master, reader
<1>1. CASE LoadCapacity
  <2>1. wcap' = historyCapacity
    BY <1>1 DEF LoadCapacity
  <2> QED BY <1>1, <2>1 DEF LoadCapacity, RowsInv
<1>2. CASE Claim
  <2>1. Done' = Done /\ Appended' = Appended
    BY <1>2 DEF Claim
  <2>2. RowsInv'
    BY <1>2, <2>1 DEF Claim, RowsInv
  <2> QED BY <1>2, <2>1, <2>2 DEF Claim
<1>3. CASE ZeroRow
  <2>1. Done' = Done /\ Appended' = Appended
    BY <1>3 DEF ZeroRow
  <2>2. RowsInv'
    BY <1>3, <2>1 DEF ZeroRow, RowsInv
  <2> QED BY <1>3, <2>1, <2>2 DEF ZeroRow
<1>4. CASE FillRow
  <2>1. Done' = Done /\ Appended' = historyWrite /\ Appended = historyWrite - 1
    BY <1>4 DEF FillRow
  <2>2. ASSUME NEW r \in Rows, history'[r] # 0
        PROVE  /\ history'[r] > historyWrite - historyCapacity
               /\ history'[r] <= historyWrite
               /\ r = (history'[r] - 1) % historyCapacity
    <3>1. CASE r = wpos
      BY <1>4, <3>1 DEF FillRow, Shape
    <3>2. CASE r # wpos
      <4>1. history'[r] = history[r] /\ history[r] \in Int
        BY <1>4, <3>2 DEF FillRow
      <4>2. /\ history[r] > historyWrite - 1 - historyCapacity
            /\ history[r] <= historyWrite
            /\ r = (history[r] - 1) % historyCapacity
        BY <2>1, <2>2, <4>1 DEF RowsInv
      <4>3. history[r] # historyWrite - historyCapacity
        <5>1. SUFFICES ASSUME history[r] = historyWrite - historyCapacity PROVE FALSE
          OBVIOUS
        <5>2. history[r] - 1 \in Int /\ history[r] - 1 + historyCapacity = historyWrite - 1
          BY <4>1, <5>1
        <5>3. r = (historyWrite - 1) % historyCapacity
          BY <4>2, <5>2, ModShift
        <5> QED BY <1>4, <3>2, <5>3 DEF FillRow, Shape
      <4> QED BY <4>1, <4>2, <4>3
    <3> QED BY <3>1, <3>2
  <2>3. RowsInv'
    BY <1>4, <2>1, <2>2 DEF FillRow, RowsInv
  <2> QED BY <1>4, <2>1, <2>3 DEF FillRow
<1>5. CASE TestCount
  <2>1. CASE historyCount < wcap
    BY <1>5, <2>1 DEF TestCount, RowsInv
  <2>2. CASE ~(historyCount < wcap)
    <3>1. Done' = Done + 1 /\ settled' = settled + 1 /\ Appended' = Appended
      BY <1>5, <2>2 DEF TestCount, Ended
    <3>2. historyCount' = Least(Done', historyCapacity)
      BY <1>5, <2>2, <3>1 DEF TestCount, Least
    <3> QED BY <1>5, <2>2, <3>1, <3>2 DEF TestCount, RowsInv
  <2> QED BY <2>1, <2>2
<1>6. CASE AddCount
  <2>1. Done' = Done + 1 /\ settled' = settled + 1 /\ Appended' = Appended
    BY <1>6 DEF AddCount, Ended
  <2>2. historyCount' = Least(Done', historyCapacity)
    BY <1>6, <2>1 DEF AddCount, Least
  <2> QED BY <1>6, <2>1, <2>2 DEF AddCount, RowsInv
<1>7. CASE ReaderNext \/ UNCHANGED vars
  <2>1. UNCHANGED <<ring, writer, master, settled>>
    BY <1>7 DEF ReaderNext, ReadCount, ReadCapacity, ReadWrite, ReadRow, ReadDone, vars
  <2>2. rpc' \in {"write", "rows"} => rcap' = historyCapacity
    BY <1>7 DEF ReaderNext, ReadCount, ReadCapacity, ReadWrite, ReadRow, ReadDone, vars, Least
  <2>3. rpc' = "rows" => rwrite' <= historyWrite
    BY <1>7 DEF ReaderNext, ReadCount, ReadCapacity, ReadWrite, ReadRow, ReadDone, vars
  <2> QED BY <2>1, <2>2, <2>3 DEF RowsInv
<1> QED BY <1>0, <1>1, <1>2, <1>3, <1>4, <1>5, <1>6, <1>7
        DEF Next, WriterNext, MasterNext

(* The row a reader emits comes from the window of the moment, which is    *)
(* never behind the one it set out to read.                                *)
LEMMA StepFresh == Inv /\ [Next]_vars => ReaderFresh'
<1> SUFFICES ASSUME Inv, [Next]_vars, NEW i \in 1 .. Len(out'), rpc' = "rows", reloads' = 0
             PROVE  out'[i] = 0 \/ out'[i] >= rwrite' - rcap'
  BY DEF ReaderFresh
<1>T. /\ historyWrite \in Nat /\ historyCapacity \in Nat \ {0} /\ historyCapacity <= HistoryMax
      /\ rcap \in Nat /\ rcap <= HistoryMax /\ rwrite \in Nat /\ rcount \in Nat
      /\ HistoryMax \in Nat /\ MaxSamples \in Nat
      /\ reloads \in Nat /\ out \in Seq(0 .. MaxSamples) /\ history \in [Rows -> 0 .. MaxSamples]
  BY HistoryAssumption DEF Inv, Shape, TypeOK
<1> USE <1>T DEF ring, writer, master, reader
<1>1. CASE ReadRow
  <2> DEFINE row == RowIndex(rwrite, rcap, rcount, Len(out))
  <2>1. reloads = 0 /\ rpc = "rows" /\ rcap = historyCapacity /\ rwrite <= historyWrite
        /\ RowsInv
    BY <1>1 DEF ReadRow, Inv, FirstInv
  <2>2. row \in Rows
    <3>1. rcap \in Nat \ {0} /\ rwrite + rcap - rcount + Len(out) \in Int
      BY <2>1
    <3>2. row \in 0 .. rcap - 1
      BY <3>1, ModDef DEF RowIndex
    <3> QED BY <3>2 DEF Rows
  <2>3. history[row] \in Nat
    BY <2>2
  <2>4. history[row] = 0 \/ history[row] >= rwrite - rcap
    <3>1. Appended \in Int /\ Appended >= historyWrite - 1
      BY DEF Appended
    <3> QED BY <2>1, <2>2, <2>3, <3>1 DEF RowsInv
  <2> HIDE DEF row
  <2>5. out' = Append(out, history[row]) /\ UNCHANGED <<rwrite, rcap>>
    BY <1>1 DEF ReadRow, row
  <2>6. Len(out') = Len(out) + 1 /\ out'[Len(out) + 1] = history[row]
        /\ \A j \in 1 .. Len(out) : out'[j] = out[j]
    BY <2>3, <2>5
  <2>7. CASE i = Len(out) + 1
    BY <2>4, <2>5, <2>6, <2>7
  <2>8. CASE i \in 1 .. Len(out)
    BY <2>1, <2>5, <2>6, <2>8 DEF Inv, ReaderFresh
  <2> QED BY <2>6, <2>7, <2>8
<1>2. CASE ReadWrite
  <2>1. out' = <<>>
    BY <1>2 DEF ReadWrite, Inv, Shape
  <2> QED BY <2>1
<1>3. CASE ~ReadRow /\ ~ReadWrite
  <2>1. rpc = "rows" /\ UNCHANGED <<out, rwrite, rcap>> /\ reloads = 0
    BY <1>3 DEF Next, WriterNext, MasterNext, ReaderNext, LoadCapacity, Claim, ZeroRow,
                FillRow, TestCount, AddCount, StoreCapacity, ClampTest, ClampStore,
                ReadCount, ReadCapacity, ReadDone, vars
  <2> QED BY <2>1 DEF Inv, ReaderFresh
<1> QED BY <1>1, <1>2, <1>3

THEOREM Invariance == Spec => []Inv
<1>1. Inv /\ [Next]_vars => Inv'
  BY StepShape, StepRing, StepFirst, StepFresh DEF Inv
<1> QED BY <1>1, InitInv, PTL DEF Spec

-----------------------------------------------------------------------------
(* The three window properties follow from the invariant.                  *)
LEMMA WindowFromInv == Inv => WindowExact
<1> SUFFICES ASSUME Inv, Quiet, reloads = 0
             PROVE  View = LastSamples(Least(historyWrite, historyCapacity))
  BY DEF WindowExact, Inv, Shape
<1> DEFINE m == Least(historyWrite, historyCapacity)
<1>T. historyWrite \in Nat /\ historyCapacity \in Nat \ {0}
  BY HistoryAssumption DEF Inv, Shape, TypeOK
<1>1. settled = historyWrite /\ historyCount = m /\ Done = historyWrite
  BY DEF Inv, FirstInv, Quiet, Done, Claimed
<1>2. m \in Nat /\ m <= historyWrite /\ m <= historyCapacity
  BY <1>T, LeastType
<1> HIDE DEF m
<1>3. ASSUME NEW i \in 1 .. m
      PROVE  history[RowIndex(historyWrite, historyCapacity, m, i - 1)] = historyWrite - m + i
  <2> DEFINE n == historyWrite - m + i
  <2>1. n \in 1 .. historyWrite /\ n > historyWrite - historyCapacity /\ n - 1 \in Int
    BY <1>T, <1>2
  <2>2. historyWrite + historyCapacity - m + (i - 1) = (n - 1) + historyCapacity
    BY <1>T, <1>2
  <2> HIDE DEF n
  <2>3. history[(n - 1) % historyCapacity] = n
    BY <1>1, <1>T, <2>1 DEF Inv, RingInv
  <2>4. RowIndex(historyWrite, historyCapacity, m, i - 1) = (n - 1) % historyCapacity
    BY <1>T, <2>1, <2>2, ModShift DEF RowIndex
  <2> QED BY <2>3, <2>4 DEF n
<1> QED BY <1>1, <1>3 DEF View, LastSamples, m

LEMMA HealFromInv == Inv => ReloadHeals
<1> SUFFICES ASSUME Inv, Quiet, settled >= historyCapacity, historyCount <= historyCapacity
             PROVE  View = LastSamples(historyCapacity)
  BY DEF ReloadHeals
<1>T. /\ historyWrite \in Nat /\ historyCapacity \in Nat \ {0} /\ settled \in Nat
      /\ historyCount \in Nat
  BY HistoryAssumption DEF Inv, Shape, TypeOK
<1>1. settled <= historyWrite /\ historyCount = historyCapacity /\ Done = historyWrite
  BY <1>T DEF Inv, Shape, RingInv, Quiet, Done, Claimed, Least
<1>2. ASSUME NEW i \in 1 .. historyCapacity
      PROVE  history[RowIndex(historyWrite, historyCapacity, historyCapacity, i - 1)]
                 = historyWrite - historyCapacity + i
  <2> DEFINE n == historyWrite - historyCapacity + i
  <2>1. /\ n \in 1 .. historyWrite /\ n > historyWrite - historyCapacity
        /\ n > Done - settled /\ n - 1 \in Int
    BY <1>T, <1>1
  <2>2. historyWrite + historyCapacity - historyCapacity + (i - 1) = (n - 1) + historyCapacity
    BY <1>T
  <2> HIDE DEF n
  <2>3. history[(n - 1) % historyCapacity] = n
    BY <1>1, <2>1 DEF Inv, RingInv
  <2>4. RowIndex(historyWrite, historyCapacity, historyCapacity, i - 1)
            = (n - 1) % historyCapacity
    BY <1>T, <2>1, <2>2, ModShift DEF RowIndex
  <2> QED BY <2>3, <2>4 DEF n
<1> QED BY <1>1, <1>2 DEF View, LastSamples

(* Between two appends and before any reload, the response is exactly the  *)
(* most recent samples, oldest first, as many as the capacity holds.       *)
THEOREM ExactWindow == Spec => []WindowExact
BY Invariance, WindowFromInv, PTL

(* A reader that the writer laps emits no sample older than the one being  *)
(* replaced when it loaded history_write.                                  *)
THEOREM FreshRows == Spec => []ReaderFresh
<1>1. Inv => ReaderFresh
  BY DEF Inv
<1> QED BY <1>1, Invariance, PTL

(* Once the capacity of a reload has been filled by appends that began     *)
(* after it, the window is exact again.                                    *)
THEOREM HealedWindow == Spec => []ReloadHeals
BY Invariance, HealFromInv, PTL

-----------------------------------------------------------------------------
(* The refinement of the log.                                              *)
Consecutive(from, k) == [i \in 1 .. k |-> from + i]

LEMMA ConsecutiveLen ==
    ASSUME NEW from \in Int, NEW k \in Nat
    PROVE  Consecutive(from, k) \in Seq(Int) /\ Len(Consecutive(from, k)) = k
BY IsASeq, LenProperties DEF Consecutive

LEMMA ConsecutiveTail ==
    ASSUME NEW from \in Int, NEW k \in Nat \ {0}
    PROVE  Tail(Consecutive(from, k)) = Consecutive(from + 1, k - 1)
<1> DEFINE s == Consecutive(from, k)
           t == Consecutive(from + 1, k - 1)
<1>1. s \in Seq(Int) /\ Len(s) = k /\ t \in Seq(Int) /\ Len(t) = k - 1
  <2>1. from + 1 \in Int /\ k - 1 \in Nat
    OBVIOUS
  <2> QED BY <2>1, ConsecutiveLen
<1>2. \A i \in 1 .. k : s[i] = from + i
  BY DEF Consecutive
<1>3. \A i \in 1 .. k - 1 : t[i] = from + 1 + i
  BY DEF Consecutive
<1> HIDE DEF s, t
<1>4. Tail(s) \in Seq(Int) /\ Len(Tail(s)) = k - 1
      /\ \A i \in 1 .. k - 1 : Tail(s)[i] = s[i + 1]
  BY <1>1
<1>5. \A i \in 1 .. k - 1 : Tail(s)[i] = t[i]
  BY <1>2, <1>3, <1>4
<1>6. Tail(s) = t
  BY <1>1, <1>4, <1>5, SeqEqual
<1> QED BY <1>6 DEF s, t

LEMMA ConsecutiveAppend ==
    ASSUME NEW from \in Int, NEW k \in Nat
    PROVE  Append(Consecutive(from, k), from + k + 1) = Consecutive(from, k + 1)
<1> DEFINE s == Consecutive(from, k)
           t == Consecutive(from, k + 1)
           a == Append(s, from + k + 1)
<1>1. s \in Seq(Int) /\ Len(s) = k /\ t \in Seq(Int) /\ Len(t) = k + 1
  BY ConsecutiveLen
<1>2. /\ \A i \in 1 .. k : s[i] = from + i
      /\ \A i \in 1 .. k + 1 : t[i] = from + i
  BY DEF Consecutive
<1> HIDE DEF s, t
<1>3. a \in Seq(Int) /\ Len(a) = k + 1 /\ a[k + 1] = from + k + 1
      /\ \A i \in 1 .. k : a[i] = s[i]
  BY <1>1, AppendProperties
<1> HIDE DEF a
<1>4. \A i \in 1 .. k + 1 : a[i] = t[i]
  BY <1>2, <1>3
<1>5. a = t
  BY <1>1, <1>3, <1>4, SeqEqual
<1> QED BY <1>5 DEF s, t, a

LEMMA KeptType ==
    ASSUME Inv
    PROVE  Appended \in Nat /\ KeptCount \in Nat /\ KeptCount <= Appended
           /\ KeptCount <= historyCapacity /\ historyCapacity \in Nat \ {0}
BY HistoryAssumption DEF Inv, Shape, TypeOK, Appended, KeptCount, Pending, Claimed, Least

(* The window of the log is the last samples appended.                     *)
LEMMA KeptIsConsecutive ==
    Inv /\ reloads = 0 => Kept = Consecutive(Appended - KeptCount, KeptCount)
<1> SUFFICES ASSUME Inv, reloads = 0
             PROVE  Kept = Consecutive(Appended - KeptCount, KeptCount)
  OBVIOUS
<1>T. /\ Appended \in Nat /\ KeptCount \in Nat /\ KeptCount <= Appended
      /\ historyCapacity \in Nat \ {0} /\ historyWrite \in Nat
  BY KeptType, HistoryAssumption DEF Inv, Shape, TypeOK
<1>1. settled = Done /\ (wpc # "idle" => wcap = historyCapacity)
  BY DEF Inv, FirstInv
<1>2. ASSUME NEW i \in 1 .. KeptCount
      PROVE  history[(Appended - KeptCount + i - 1) % historyCapacity]
                 = Appended - KeptCount + i
  <2> DEFINE n == Appended - KeptCount + i
  <2>1. n \in Nat \ {0} /\ n <= Appended
    BY <1>T
  <2>2. n > historyWrite - historyCapacity
    BY <1>T DEF Appended, KeptCount, Least
  <2>3. n \in 1 .. Done \/ (n = historyWrite /\ wpc \in {"test", "add"})
    BY <1>T, <2>1 DEF Done, Appended, Pending, Claimed
  <2> HIDE DEF n
  <2>4. CASE n \in 1 .. Done
    <3>1. n > Done - settled
      BY <1>T, <1>1, <2>4 DEF Done
    <3>2. history[(n - 1) % historyCapacity] = n
      BY <2>2, <2>4, <3>1 DEF Inv, RingInv
    <3> QED BY <1>T, <3>2 DEF n
  <2>5. CASE n = historyWrite /\ wpc \in {"test", "add"}
    <3>1. history[wpos] = n /\ wpos = (n - 1) % historyCapacity
      BY <1>1, <2>5 DEF Inv, RingInv, Shape, Claimed
    <3> QED BY <1>T, <3>1 DEF n
  <2> QED BY <2>3, <2>4, <2>5
<1> QED BY <1>2 DEF Kept, Consecutive

LEMMA InitLog == Init => Log!LogInit
<1> SUFFICES ASSUME Init PROVE Log!LogInit
  OBVIOUS
<1>1. historyCapacity \in Nat \ {0}
  BY CapacityType, HistoryAssumption DEF Init
<1>2. Appended = 0 /\ KeptCount = 0
  BY <1>1 DEF Init, Appended, KeptCount, Pending, Least
<1>3. Kept = <<>>
  BY <1>2 DEF Kept
<1> QED BY <1>1, <1>2, <1>3 DEF Log!LogInit

(* A claim on a full ring gives up the oldest sample, the fill of the row  *)
(* appends the next one, and no other step changes the log.                *)
LEMMA StepLog == Inv /\ Inv' /\ [Next]_vars /\ reloads' = 0 => Log!LogStep
<1> SUFFICES ASSUME Inv, Inv', [Next]_vars, reloads' = 0 PROVE Log!LogStep
  OBVIOUS
<1>0. reloads = 0 /\ historyCapacity' = historyCapacity
  <2>1. reloads \in Nat
    BY HistoryAssumption DEF Inv, Shape, TypeOK
  <2>2. ~StoreCapacity
    BY <2>1 DEF StoreCapacity
  <2> QED BY <2>2 DEF Next, WriterNext, MasterNext, ReaderNext, LoadCapacity, Claim, ZeroRow,
                      FillRow, TestCount, AddCount, ClampTest, ClampStore, ReadCount,
                      ReadCapacity, ReadWrite, ReadRow, ReadDone, vars, ring, master
<1> DEFINE a == Appended
           k == KeptCount
<1>T. /\ a \in Nat /\ k \in Nat /\ k <= a /\ historyCapacity \in Nat \ {0}
      /\ historyWrite \in Nat
  <2>1. historyWrite \in Nat
    BY HistoryAssumption DEF Inv, Shape, TypeOK
  <2> QED BY <2>1, KeptType
<1>K. Kept = Consecutive(a - k, k) /\ Len(Kept) = k
  BY <1>0, <1>T, KeptIsConsecutive, ConsecutiveLen
<1>L. Kept' = Consecutive(a' - k', k')
  <2>1. (Inv /\ reloads = 0 => Kept = Consecutive(a - k, k))'
    BY KeptIsConsecutive, PTL
  <2> QED BY <2>1
<1>1. CASE Claim
  <2>1. a' = a /\ a = historyWrite /\ k = Least(historyWrite, historyCapacity)
        /\ k' = Least(historyWrite, historyCapacity - 1)
    BY <1>0, <1>1, <1>T DEF Claim, Appended, KeptCount, Pending
  <2>2. CASE historyWrite >= historyCapacity
    <3>1. k = historyCapacity /\ k' = k - 1
      BY <1>T, <2>1, <2>2 DEF Least
    <3>2. a - k + 1 = a' - k' /\ a - k \in Int /\ k \in Nat \ {0}
      BY <1>T, <2>1, <3>1
    <3> HIDE DEF a, k
    <3>3. Kept' = Tail(Kept)
      BY <1>K, <1>L, <3>1, <3>2, ConsecutiveTail
    <3> QED BY <1>0, <1>K, <2>1, <3>1, <3>3 DEF Log!LogStep, Log!LogNext, Log!Evict, a
  <2>3. CASE historyWrite < historyCapacity
    <3>1. k' = k
      BY <1>T, <2>1, <2>3 DEF Least
    <3> QED BY <1>0, <1>K, <1>L, <2>1, <3>1 DEF Log!LogStep, Log!logVars
  <2> QED BY <1>T, <2>2, <2>3
<1>2. CASE FillRow
  <2>1. /\ a = historyWrite - 1 /\ a' = a + 1
        /\ k = Least(historyWrite - 1, historyCapacity - 1)
        /\ k' = Least(historyWrite, historyCapacity)
    BY <1>0, <1>2, <1>T DEF FillRow, Appended, KeptCount, Pending
  <2>2. k' = k + 1 /\ k < historyCapacity
    BY <1>T, <2>1 DEF Least
  <2>3. a' - k' = a - k /\ a - k \in Int /\ a + 1 = (a - k) + k + 1
    BY <1>T, <2>1, <2>2
  <2> HIDE DEF a, k
  <2>4. Kept' = Append(Kept, a + 1)
    BY <1>K, <1>L, <1>T, <2>2, <2>3, ConsecutiveAppend
  <2> QED BY <1>0, <1>K, <2>1, <2>2, <2>4 DEF Log!LogStep, Log!LogNext, Log!AppendSample, a
<1>3. CASE ~Claim /\ ~FillRow
  <2>1. a' = a /\ k' = k
    BY <1>0, <1>3, <1>T DEF Next, WriterNext, MasterNext, ReaderNext, LoadCapacity, ZeroRow,
        TestCount, AddCount, StoreCapacity, ClampTest, ClampStore, ReadCount, ReadCapacity,
        ReadWrite, ReadRow, ReadDone, vars, ring, writer, Appended, KeptCount, Pending
  <2> QED BY <1>0, <1>K, <1>L, <2>1 DEF Log!LogStep, Log!logVars
<1> QED BY <1>1, <1>2, <1>3

(* The ring implements the log up to the first reload: a claim on a full   *)
(* ring is Evict, the fill of a row is AppendSample, the rest stutters.    *)
THEOREM RingImplementsLog == Spec => ImplementsLog
<1>1. Inv /\ Inv' /\ [Next]_vars => [reloads' = 0 => Log!LogStep]_vars
  BY StepLog
<1> QED BY <1>1, InitLog, Invariance, PTL DEF Spec, ImplementsLog

-----------------------------------------------------------------------------
(* Module Sampling: the pass in time.                                      *)
SamplingShape ==
    /\ lag \in Lags /\ time \in 1 .. MaxTime
    /\ clock \in [Workers -> 1 .. MaxTime] /\ \A w \in Workers : clock[w] <= time
    /\ due \in [Workers -> Nat]
    /\ total \in 0 .. MaxRequests /\ prevReq \in 0 .. total
    /\ prev \in 0 .. MaxTime
    /\ pc \in [Workers -> {"idle", "test", "measure", "smooth", "store", "unlock"}]
    /\ req \in [Workers -> 0 .. MaxRequests] /\ dt \in [Workers -> Nat]
    /\ sampledAt \in 0 .. time \cup {Never} /\ gap \in 0 .. MaxTime \cup {Never}
    /\ reported \in 0 .. MaxRequests

(* The lock holds the one worker that is inside the pass.                  *)
LockInv ==
    /\ lock = {w \in Workers : ~Idle(w)}
    /\ \A v, w \in Workers : ~Idle(v) /\ ~Idle(w) => v = w

(* What a worker measured is not behind the last sample, nor ahead of the  *)
(* counter, and the interval it divides by is positive.                    *)
Measured(w) == prevReq <= req[w] /\ req[w] <= total /\ dt[w] > 0

(* A sample counts up to what its worker measured, which becomes the       *)
(* starting point of the next one.                                         *)
AccountInv ==
    /\ \A w \in Workers : pc[w] \in {"smooth", "store"} => Measured(w)
    /\ \A w \in Workers : pc[w] = "store" => reported = req[w]
    /\ (\A w \in Workers : pc[w] # "store") => reported = prevReq

RateInv == ewma \in Nat /\ peak \in Nat /\ ewma <= peak

SamplingInv == SamplingShape /\ LockInv /\ AccountInv

-----------------------------------------------------------------------------
LEMMA SamplingInitInv == SamplingInit => SamplingInv
<1> SUFFICES ASSUME SamplingInit PROVE SamplingInv
  OBVIOUS
<1>1. SamplingShape
  BY SamplingAssumption DEF SamplingInit, SamplingShape, Never
<1>2. LockInv /\ AccountInv
  BY DEF SamplingInit, LockInv, Idle, AccountInv
<1> QED BY <1>1, <1>2 DEF SamplingInv

LEMMA StepInv == SamplingInv /\ [SamplingNext]_samplingVars => SamplingInv'
<1> SUFFICES ASSUME SamplingInv, [SamplingNext]_samplingVars PROVE SamplingInv'
  OBVIOUS
<1> USE SamplingAssumption DEF SamplingInv, Never, shared, local, ghosts, Goto
<1>1. ASSUME Tick PROVE SamplingInv'
  BY <1>1 DEF Tick, SamplingShape, LockInv, Idle, AccountInv, Measured
<1>2. ASSUME Request PROVE SamplingInv'
  BY <1>2 DEF Request, SamplingShape, LockInv, Idle, AccountInv, Measured
<1>3. ASSUME NEW w \in Workers, Fire(w) PROVE SamplingInv'
  <2>1. PICK c \in Larger(clock[w], due[w]) .. time :
          /\ clock' = [clock EXCEPT ![w] = c]
          /\ IF lock = {}
               THEN /\ lock' = {w}
                    /\ Goto(w, "idle", "test")
                    /\ UNCHANGED due
               ELSE /\ due' = [due EXCEPT ![w] = c + Refresh]
                    /\ UNCHANGED <<lock, pc>>
    BY <1>3 DEF Fire
  <2>2. UNCHANGED <<lag, time, total, prev, prevReq, ewma, req, dt, ghosts>> /\ Idle(w)
    BY <1>3 DEF Fire
  <2>3. c \in 1 .. MaxTime /\ c <= time
    BY <2>1 DEF SamplingShape, Larger
  <2>4. SamplingShape'
    BY <2>1, <2>2, <2>3 DEF SamplingShape
  <2>5. LockInv' /\ AccountInv'
    <3>1. CASE lock = {}
      BY <2>1, <2>2, <3>1 DEF SamplingShape, LockInv, Idle, AccountInv, Measured
    <3>2. CASE lock # {}
      BY <2>1, <2>2, <3>2 DEF SamplingShape, LockInv, Idle, AccountInv, Measured
    <3> QED BY <3>1, <3>2
  <2> QED BY <2>4, <2>5
<1>4. ASSUME NEW w \in Workers, PaceTest(w) PROVE SamplingInv'
  BY <1>4 DEF PaceTest, SamplingShape, LockInv, Idle, AccountInv, Measured
<1>5. ASSUME NEW w \in Workers, Measure(w) PROVE SamplingInv'
  <2>1. Elapsed(clock[w]) \in Nat /\ Elapsed(clock[w]) > 0
    BY DEF Elapsed, SamplingShape
  <2>2. SamplingShape'
    BY <1>5, <2>1 DEF Measure, SamplingShape
  <2>3. LockInv' /\ AccountInv'
    BY <1>5, <2>1 DEF Measure, SamplingShape, LockInv, Idle, AccountInv, Measured
  <2> QED BY <2>2, <2>3
<1>6. ASSUME NEW w \in Workers, Smooth(w) PROVE SamplingInv'
  <2>1. Measured(w) /\ reported = prevReq
    BY <1>6 DEF Smooth, AccountInv, LockInv, Idle
  <2>2. reported' = req[w]
    BY <1>6, <2>1 DEF Smooth, Delta, Measured, SamplingShape
  <2>3. SamplingShape'
    <3>1. gap' \in 0 .. MaxTime \cup {Never}
      BY <1>6 DEF Smooth, SamplingShape
    <3>2. pc' \in [Workers -> {"idle", "test", "measure", "smooth", "store", "unlock"}]
      BY <1>6 DEF Smooth, SamplingShape
    <3>3. reported' \in 0 .. MaxRequests
      BY <2>2 DEF SamplingShape
    <3>4. sampledAt' \in 0 .. time \cup {Never}
      BY <1>6 DEF Smooth, SamplingShape
    <3>5. UNCHANGED <<lag, time, clock, due, total, prevReq, prev, req, dt>>
      BY <1>6 DEF Smooth
    <3> HIDE DEF Never, Goto
    <3> QED BY <3>1, <3>2, <3>3, <3>4, <3>5 DEF SamplingShape
  <2>4. LockInv' /\ AccountInv'
    BY <1>6, <2>1, <2>2 DEF Smooth, SamplingShape, LockInv, Idle, AccountInv, Measured
  <2> QED BY <2>3, <2>4
<1>7. ASSUME NEW w \in Workers, StorePrevious(w) PROVE SamplingInv'
  BY <1>7 DEF StorePrevious, SamplingShape, LockInv, Idle, AccountInv, Measured
<1>8. ASSUME NEW w \in Workers, Finish(w) PROVE SamplingInv'
  BY <1>8 DEF Finish, SamplingShape, LockInv, Idle, AccountInv, Measured
<1>9. CASE UNCHANGED samplingVars
  BY <1>9 DEF samplingVars, SamplingShape, LockInv, Idle, AccountInv, Measured
<1> QED
  BY <1>1, <1>2, <1>3, <1>4, <1>5, <1>6, <1>7, <1>8, <1>9 DEF SamplingNext, Pass

-----------------------------------------------------------------------------
(* A quotient of natural numbers is one.                                   *)
LEMMA Quotient ==
    ASSUME NEW a \in Nat, NEW b \in Nat, b > 0
    PROVE  a \div b \in Nat
OBVIOUS

(* A weighted mean lies below the greater of the two.                      *)
LEMMA SmoothedBetween ==
    ASSUME NEW old \in Nat, NEW raw \in Nat
    PROVE  /\ Smoothed(old, raw) \in Nat
           /\ Smoothed(old, raw) <= Larger(old, raw)
BY DEF Smoothed, Larger

LEMMA StepRate == SamplingInv /\ RateInv /\ [SamplingNext]_samplingVars => RateInv'
<1> SUFFICES ASSUME SamplingInv, RateInv, [SamplingNext]_samplingVars PROVE RateInv'
  OBVIOUS
<1>1. ASSUME NEW w \in Workers, Smooth(w) PROVE RateInv'
  <2>1. Measured(w) /\ prevReq \in Nat /\ req[w] \in Nat /\ dt[w] \in Nat
    BY <1>1 DEF Smooth, Goto, SamplingInv, AccountInv, SamplingShape
  <2>2. RawRate(w) \in Nat
    <3>1. Delta(req[w], prevReq) * Scale \in Nat
      BY <2>1, SamplingAssumption DEF Delta
    <3> QED BY <2>1, <3>1, Quotient DEF RawRate, Measured
  <2>3. /\ Smoothed(ewma, RawRate(w)) \in Nat
        /\ Smoothed(ewma, RawRate(w)) <= Larger(ewma, RawRate(w))
    BY <2>2, SmoothedBetween DEF RateInv
  <2>4. /\ ewma' = Smoothed(ewma, RawRate(w))
        /\ peak' = Larger(peak, RawRate(w))
    BY <1>1 DEF Smooth
  <2> QED BY <2>2, <2>3, <2>4 DEF RateInv, Larger
<1>2. CASE UNCHANGED <<ewma, peak>>
  BY <1>2 DEF RateInv
<1> QED
  BY <1>1, <1>2 DEF SamplingNext, Pass, Tick, Request, Fire, PaceTest, Measure, StorePrevious,
                    Finish, samplingVars, shared, local, ghosts

LEMMA Invariant == SamplingSpec => [](SamplingInv /\ RateInv)
<1>1. SamplingInit => SamplingInv /\ RateInv
  BY SamplingInitInv DEF SamplingInit, RateInv
<1>2. SamplingInv /\ RateInv /\ [SamplingNext]_samplingVars => SamplingInv' /\ RateInv'
  BY StepInv, StepRate
<1> QED BY <1>1, <1>2, PTL DEF SamplingSpec

(* Every request is in the one sample that was due after it: those counted *)
(* by all samples are exactly those up to the stored starting point, since *)
(* a pass stores what it measured and nobody else is in the pass.          *)
THEOREM AccountedRequests == SamplingSpec => []RequestsAccounted
<1>1. SamplingInv /\ RateInv => RequestsAccounted
  <2> SUFFICES ASSUME SamplingInv, RateInv PROVE RequestsAccounted
    OBVIOUS
  <2>1. Cardinality(lock) <= 1
    <3>1. CASE lock = {}
      BY <3>1, FS_EmptySet
    <3>2. ASSUME NEW w \in lock PROVE Cardinality(lock) <= 1
      <4>1. lock = {w}
        BY <3>2 DEF SamplingInv, LockInv
      <4> QED BY <4>1, FS_Singleton
    <3> QED BY <3>1, <3>2
  <2>2. sampledAt \in 0 .. MaxTime \cup {Never}
    BY SamplingAssumption DEF SamplingInv, SamplingShape, Never
  <2>3. SamplingTypeOK
    BY <2>1, <2>2 DEF SamplingTypeOK, SamplingInv, SamplingShape, LockInv, RateInv
  <2> QED BY <2>3 DEF SamplingInv, AccountInv, RequestsAccounted
<1> QED BY <1>1, Invariant, PTL

(* The smoothed rate stays within what was ever measured, rounding and     *)
(* uneven intervals included.                                              *)
THEOREM RateWithinPeak == SamplingSpec => []EwmaWithinPeak
<1>1. RateInv => EwmaWithinPeak
  BY DEF RateInv, EwmaWithinPeak
<1> QED BY <1>1, Invariant, PTL

-----------------------------------------------------------------------------
(* With clocks in step, a pass takes no time and a timer is never overdue. *)
(* What the pacing test compares with is when the last sample was taken,   *)
(* and whoever ends a pass has armed a timer soon enough for the next one. *)
Served(w) == IF Idle(w) THEN due[w] >= time ELSE clock[w] = time

InStep ==
    /\ \A w \in Workers : Served(w)
    /\ sampledAt # Never => sampledAt >= 1
    /\ (\A w \in Workers : pc[w] # "store") =>
          prev = IF sampledAt = Never THEN 0 ELSE sampledAt
    /\ \A w \in Workers : pc[w] = "store" => sampledAt = time
    /\ \A w \in Workers : pc[w] \in {"measure", "smooth"} =>
          sampledAt = Never \/ time - sampledAt >= Resolution
    /\ \A w \in Workers : pc[w] = "unlock" =>
          sampledAt # Never /\ time - sampledAt < Resolution
    /\ lock = {} /\ sampledAt # Never =>
          \E w \in Workers : due[w] < sampledAt + Resolution + Refresh

PaceInv == lag = 0 => InStep

(* The remainder of a number below the divisor.                            *)
LEMMA SmallMod ==
    ASSUME NEW n \in Nat \ {0}, NEW a \in 0 .. n - 1
    PROVE  a % n = a
<1> DEFINE q == a \div n
           r == a % n
<1>1. a = n * q + r /\ q \in Int /\ r \in 0 .. n - 1
  OBVIOUS
<1> HIDE DEF q, r
<1>2. a - r = n * q /\ -n < a - r /\ a - r < n
  BY <1>1
<1>3. q = 0
  <2>1. ASSUME NEW m \in Int, m = n * q, -n < m, m < n PROVE q = 0
    BY <1>1, <2>1
  <2> QED BY <1>1, <1>2, <2>1
<1> QED BY <1>1, <1>3 DEF r

(* The unsigned distance of two clocks is their difference, as long as the *)
(* counter of milliseconds has not wrapped.                                *)
LEMMA Distance ==
    ASSUME NEW a \in 0 .. MaxTime, NEW b \in 0 .. a
    PROVE  (a - b) % Wrap = a - b
<1>1. a - b \in 0 .. Wrap - 1 /\ Wrap \in Nat \ {0}
  BY SamplingAssumption
<1> QED BY <1>1, SmallMod

LEMMA InitPace == SamplingInit => PaceInv
BY SamplingAssumption DEF SamplingInit, PaceInv, InStep, Served, Idle

LEMMA StepPace == SamplingInv /\ PaceInv /\ [SamplingNext]_samplingVars => PaceInv'
<1> SUFFICES ASSUME SamplingInv, PaceInv, [SamplingNext]_samplingVars, lag' = 0 PROVE InStep'
  BY DEF PaceInv
<1>0. lag = 0
  BY DEF SamplingNext, Tick, Request, Fire, Pass, PaceTest, Measure, Smooth, StorePrevious, Finish,
     samplingVars
<1>H. InStep
  BY <1>0 DEF PaceInv
<1>T. /\ time \in 1 .. MaxTime /\ clock \in [Workers -> 1 .. MaxTime]
      /\ \A w \in Workers : clock[w] <= time
      /\ due \in [Workers -> Nat] /\ prev \in Nat /\ {Refresh, Resolution, Wrap} \subseteq Nat \ {0}
      /\ pc \in [Workers -> {"idle", "test", "measure", "smooth", "store", "unlock"}]
      /\ sampledAt \in 0 .. time \cup {Never} /\ MaxTime \in Nat
  BY SamplingAssumption DEF SamplingInv, SamplingShape
<1>L. /\ lock = {w \in Workers : ~Idle(w)}
      /\ \A v, w \in Workers : ~Idle(v) /\ ~Idle(w) => v = w
  BY DEF SamplingInv, LockInv
<1> USE DEF Never, shared, local, ghosts
<1>1. CASE Tick
  <2>1. \A w \in Workers : Idle(w) /\ due[w] >= time + 1
    BY <1>0, <1>1, <1>H, <1>T DEF Tick, InStep, Served
  <2> QED BY <1>1, <1>H, <1>T, <2>1 DEF Tick, InStep, Served, Idle
<1>2. CASE Request
  BY <1>2, <1>H DEF Request, InStep, Served, Idle
<1>3. ASSUME NEW w \in Workers, Fire(w) PROVE InStep'
  <2>1. PICK c \in Larger(clock[w], due[w]) .. time :
          /\ time - c <= lag
          /\ clock' = [clock EXCEPT ![w] = c]
          /\ IF lock = {}
               THEN /\ lock' = {w}
                    /\ Goto(w, "idle", "test")
                    /\ UNCHANGED due
               ELSE /\ due' = [due EXCEPT ![w] = c + Refresh]
                    /\ UNCHANGED <<lock, pc>>
    BY <1>3 DEF Fire
  <2>2. UNCHANGED <<lag, time, total, prev, prevReq, ewma, req, dt, ghosts>> /\ Idle(w)
    BY <1>3 DEF Fire
  <2>3. c = time
    BY <1>0, <1>T, <2>1 DEF Larger
  <2>4. CASE lock = {}
    <3>1. \A v \in Workers : Idle(v)
      BY <1>L, <2>4
    <3>2. /\ pc' = [pc EXCEPT ![w] = "test"] /\ clock' = [clock EXCEPT ![w] = time]
          /\ due' = due /\ lock' = {w}
      BY <2>1, <2>3, <2>4 DEF Goto
    <3>3. \A v \in Workers : Served(v)'
      BY <1>H, <1>T, <2>2, <3>1, <3>2 DEF InStep, Served, Idle
    <3> QED BY <1>H, <1>T, <2>2, <3>1, <3>2, <3>3 DEF InStep, Idle
  <2>5. CASE lock # {}
    <3>1. /\ due' = [due EXCEPT ![w] = time + Refresh] /\ clock' = [clock EXCEPT ![w] = time]
          /\ lock' = lock /\ pc' = pc
      BY <2>1, <2>3, <2>5
    <3>2. \A v \in Workers : Served(v)'
      BY <1>H, <1>T, <2>2, <3>1 DEF InStep, Served, Idle
    <3> QED BY <1>H, <1>T, <2>2, <2>5, <3>1, <3>2 DEF InStep
  <2> QED BY <2>4, <2>5
<1>4. ASSUME NEW w \in Workers, PaceTest(w) PROVE InStep'
  <2>1. /\ pc[w] = "test" /\ UNCHANGED <<time, clock, due, lock, prev, sampledAt>>
        /\ pc' = [pc EXCEPT ![w] = IF SampleDue(clock[w]) THEN "measure" ELSE "unlock"]
    BY <1>4 DEF PaceTest, Goto
  <2>2. clock[w] = time /\ prev = IF sampledAt = Never THEN 0 ELSE sampledAt
    BY <1>H, <1>L, <2>1 DEF InStep, Served, Idle
  <2>3. prev \in 0 .. time /\ (time - prev) % Wrap = time - prev
    <3>1. time \in 0 .. MaxTime /\ prev \in 0 .. time
      BY <1>T, <2>2
    <3> QED BY <3>1, Distance
  <2>4. IF SampleDue(clock[w])
          THEN sampledAt = Never \/ time - sampledAt >= Resolution
          ELSE sampledAt # Never /\ time - sampledAt < Resolution
    BY <1>H, <1>T, <2>2, <2>3 DEF SampleDue, InStep
  <2>5. \A v \in Workers : Served(v)'
    BY <1>H, <1>T, <2>1 DEF InStep, Served, Idle
  <2> QED BY <1>H, <1>L, <1>T, <2>1, <2>2, <2>4, <2>5 DEF InStep, Idle
<1>5. ASSUME NEW w \in Workers, Measure(w) PROVE InStep'
  BY <1>5, <1>H, <1>T DEF Measure, Goto, InStep, Served, Idle
<1>6. ASSUME NEW w \in Workers, Smooth(w) PROVE InStep'
  <2>1. /\ pc[w] = "smooth" /\ pc' = [pc EXCEPT ![w] = "store"] /\ sampledAt' = time
        /\ UNCHANGED <<time, clock, due, lock, prev>>
    BY <1>6 DEF Smooth, Goto
  <2>2. lock # {} /\ \A v \in Workers \ {w} : Idle(v)
    BY <1>L, <2>1 DEF Idle
  <2>3. \A v \in Workers : Served(v)'
    BY <1>H, <1>T, <2>1 DEF InStep, Served, Idle
  <2> QED BY <1>T, <2>1, <2>2, <2>3 DEF InStep, Idle
<1>7. ASSUME NEW w \in Workers, StorePrevious(w) PROVE InStep'
  <2>1. /\ pc[w] = "store" /\ pc' = [pc EXCEPT ![w] = "unlock"] /\ prev' = clock[w]
        /\ UNCHANGED <<time, clock, due, lock, sampledAt>>
    BY <1>7 DEF StorePrevious, Goto
  <2>2. clock[w] = time /\ sampledAt = time
    BY <1>H, <2>1 DEF InStep, Served, Idle
  <2>3. lock # {} /\ \A v \in Workers \ {w} : Idle(v)
    BY <1>L, <2>1 DEF Idle
  <2>4. \A v \in Workers : Served(v)'
    BY <1>H, <1>T, <2>1 DEF InStep, Served, Idle
  <2> QED BY <1>T, <2>1, <2>2, <2>3, <2>4 DEF InStep, Idle
<1>8. ASSUME NEW w \in Workers, Finish(w) PROVE InStep'
  <2>1. /\ pc[w] = "unlock" /\ pc' = [pc EXCEPT ![w] = "idle"] /\ lock' = {}
        /\ due' = [due EXCEPT ![w] = clock[w] + Refresh]
        /\ UNCHANGED <<time, clock, prev, sampledAt>>
    BY <1>8 DEF Finish, Goto
  <2>2. clock[w] = time /\ sampledAt # Never /\ time - sampledAt < Resolution
    BY <1>H, <2>1 DEF InStep, Served, Idle
  <2>3. \A v \in Workers \ {w} : Idle(v)
    BY <1>L, <2>1 DEF Idle
  <2>4. \A v \in Workers : Served(v)'
    BY <1>H, <1>T, <2>1, <2>2 DEF InStep, Served, Idle
  <2>5. due'[w] < sampledAt' + Resolution + Refresh
    BY <1>T, <2>1, <2>2
  <2> QED BY <1>H, <1>T, <2>1, <2>2, <2>3, <2>4, <2>5 DEF InStep, Idle
<1>9. CASE UNCHANGED samplingVars
  BY <1>9, <1>H DEF samplingVars, InStep, Served, Idle
<1> QED
  BY <1>1, <1>2, <1>3, <1>4, <1>5, <1>6, <1>7, <1>8, <1>9 DEF SamplingNext, Pass

(* Paced is itself inductive with it: time passes only while nobody is in  *)
(* the pass and no timer is due.                                           *)
LEMMA StepPaced == SamplingInv /\ PaceInv /\ Paced /\ [SamplingNext]_samplingVars => Paced'
<1> SUFFICES ASSUME SamplingInv, PaceInv, Paced, [SamplingNext]_samplingVars, lag' = 0
             PROVE  /\ gap' = Never \/ gap' >= Resolution
                    /\ sampledAt' # Never => time' - sampledAt' < Resolution + Refresh
  BY DEF Paced
<1>0. lag = 0
  BY DEF SamplingNext, Tick, Request, Fire, Pass, PaceTest, Measure, Smooth, StorePrevious, Finish,
     samplingVars
<1>T. /\ time \in 1 .. MaxTime /\ clock \in [Workers -> 1 .. MaxTime]
      /\ \A w \in Workers : clock[w] <= time
      /\ due \in [Workers -> Nat] /\ {Refresh, Resolution} \subseteq Nat \ {0}
      /\ sampledAt \in 0 .. time \cup {Never} /\ MaxTime \in Nat
  BY SamplingAssumption DEF SamplingInv, SamplingShape
<1>H. /\ InStep /\ (gap = Never \/ gap >= Resolution)
      /\ sampledAt # Never => time - sampledAt < Resolution + Refresh
  BY <1>0 DEF PaceInv, Paced
<1> USE DEF Never, shared, local, ghosts
<1>1. CASE Tick
  <2>1. \A w \in Workers : Idle(w) /\ due[w] >= time + 1
    BY <1>0, <1>1, <1>H, <1>T DEF Tick, InStep, Served
  <2>2. lock = {}
    BY <2>1 DEF SamplingInv, LockInv
  <2>3. sampledAt # Never => \E w \in Workers : due[w] < sampledAt + Resolution + Refresh
    BY <1>H, <2>2 DEF InStep
  <2> QED BY <1>1, <1>H, <1>T, <2>1, <2>3 DEF Tick
<1>2. ASSUME NEW w \in Workers, Smooth(w)
      PROVE  /\ gap' = Never \/ gap' >= Resolution
             /\ sampledAt' # Never => time' - sampledAt' < Resolution + Refresh
  BY <1>2, <1>H, <1>T DEF Smooth, Goto, InStep
<1>3. CASE UNCHANGED <<gap, sampledAt, time>>
  BY <1>3, <1>H
<1> QED
  BY <1>1, <1>2, <1>3 DEF SamplingNext, Pass, Request, Fire, PaceTest, Measure, StorePrevious,
                          Finish, samplingVars

(* With clocks in step, samples are neither closer than the resolution nor *)
(* further apart than it and a refresh interval, however many workers      *)
(* compete for the lock.                                                   *)
THEOREM PacedSamples == SamplingSpec => []Paced
<1>1. SamplingInit => SamplingInv /\ PaceInv /\ Paced
  BY SamplingInitInv, InitPace DEF SamplingInit, Paced
<1>2. SamplingInv /\ PaceInv /\ Paced /\ [SamplingNext]_samplingVars
         => SamplingInv' /\ PaceInv' /\ Paced'
  BY StepInv, StepPace, StepPaced
<1> QED BY <1>1, <1>2, PTL DEF SamplingSpec
=============================================================================
