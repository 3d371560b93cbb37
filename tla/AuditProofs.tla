----------------------------- MODULE AuditProofs -----------------------------
(* Proofs about EventAudit, for any capacity of the ring and of the logs.    *)
EXTENDS EventAudit, Smallest, SequenceTheorems

(* The ring holds what came after the start, or the last Capacity of it;     *)
(* what is behind the watermark is in the log or out of the ring.            *)
Watermark ==
    /\ {total, flushed, start} \subseteq Nat /\ front \in Nat \ {0}
    /\ written \in Seq(Nat)
    /\ start <= flushed /\ flushed <= total
    /\ start < front /\ front <= total + 1 /\ total - front < Capacity
    /\ front = start + 1 \/ front = total - Capacity + 1
    /\ LostIsOld

LEMMA WatermarkInit == AInit => Watermark
  BY AuditAssumption DEF AInit, Watermark, LostIsOld, InLog

LEMMA BatchIsRun ==
  ASSUME Watermark
  PROVE  /\ Batch \in Seq(Nat) /\ From \in Nat \ {0} /\ From <= total + 1
         /\ Len(Batch) = total - From + 1
         /\ \A i \in 1 .. Len(Batch) : Batch[i] = From + i - 1
<1>1. From \in Nat \ {0} /\ From <= total + 1 /\ total - From + 1 \in Nat
  BY DEF From, Watermark
<1>2. \A i \in 1 .. total - From + 1 : From + i - 1 \in Nat
  BY <1>1
<1>3. Batch \in [1 .. total - From + 1 -> Nat]
  BY <1>2 DEF Batch
<1>4. Batch \in Seq(Nat) /\ Len(Batch) = total - From + 1
  BY <1>1, <1>3
<1> QED
  BY <1>1, <1>4 DEF Batch

(* The lines of a write number on from From.                                 *)
LEMMA LinesAreRun ==
  ASSUME Watermark, NEW k \in Nat, k <= Len(Batch)
  PROVE  /\ SubSeq(Batch, 1, k) \in Seq(Nat) /\ Len(SubSeq(Batch, 1, k)) = k
         /\ \A i \in 1 .. k : SubSeq(Batch, 1, k)[i] = From + i - 1
<1>1. Batch \in Seq(Nat) /\ From \in Nat \ {0}
      /\ \A i \in 1 .. Len(Batch) : Batch[i] = From + i - 1
  BY BatchIsRun
<1>2. \A i \in 1 .. k : Batch[i] \in Nat
  BY <1>1
<1> DEFINE lines == SubSeq(Batch, 1, k)
<1>3. /\ lines \in Seq(Nat)
      /\ Len(lines) = IF 1 <= k THEN k - 1 + 1 ELSE 0
      /\ \A i \in 1 .. k - 1 + 1 : lines[i] = Batch[1 + i - 1]
  <2>1. k \in Int /\ 1 \in Int
    OBVIOUS
  <2> QED
    BY <1>2, <2>1, SubSeqProperties
<1> HIDE DEF lines
<1>4. Len(lines) = k
  BY <1>3
<1>5. ASSUME NEW i \in 1 .. k PROVE lines[i] = From + i - 1
  <2>1. i \in 1 .. Len(Batch) /\ i \in 1 .. k - 1 + 1 /\ 1 + i - 1 = i
    BY <1>1
  <2> QED
    BY <1>1, <1>3, <2>1
<1> QED
  BY <1>3, <1>4, <1>5 DEF lines

(* Appending only adds to the log, behind what is there.                     *)
LEMMA AppendAdds ==
  ASSUME Watermark, NEW k \in Nat, k <= Len(Batch), NEW r \in BOOLEAN, Append_lines(k, r)
  PROVE  /\ written' \in Seq(Nat) /\ Len(written') = Len(written) + k
         /\ Len(written) \in Nat
         /\ \A i \in 1 .. Len(written) : written'[i] = written[i]
         /\ \A i \in 1 .. k : written'[Len(written) + i] = From + i - 1
<1> DEFINE lines == SubSeq(Batch, 1, k)
<1>2. lines \in Seq(Nat) /\ Len(lines) = k /\ \A i \in 1 .. k : lines[i] = From + i - 1
  BY LinesAreRun
<1>3. written' = written \o lines
  BY DEF Append_lines
<1> HIDE DEF lines
<1>4. /\ written' \in Seq(Nat) /\ Len(written') = Len(written) + k
      /\ \A i \in 1 .. Len(written) + k :
            written'[i] = IF i <= Len(written) THEN written[i] ELSE lines[i - Len(written)]
  BY <1>2, <1>3, ConcatProperties DEF Watermark
<1>5. \A i \in 1 .. Len(written) : written'[i] = written[i]
  <2>1. Len(written) \in Nat
    BY DEF Watermark
  <2> QED
    BY <1>4, <2>1
<1>6. \A i \in 1 .. k : written'[Len(written) + i] = From + i - 1
  <2> SUFFICES ASSUME NEW i \in 1 .. k PROVE written'[Len(written) + i] = From + i - 1
    OBVIOUS
  <2>1. Len(written) \in Nat
    BY DEF Watermark
  <2>2. Len(written) + i \in 1 .. Len(written) + k /\ ~(Len(written) + i <= Len(written))
        /\ Len(written) + i - Len(written) = i
    BY <2>1
  <2>3. written'[Len(written) + i] = lines[Len(written) + i - Len(written)]
    <3> DEFINE x == Len(written) + i
    <3>1. x \in 1 .. Len(written) + k /\ ~(x <= Len(written))
      BY <2>2
    <3> HIDE DEF x
    <3>2. written'[x] = IF x <= Len(written) THEN written[x] ELSE lines[x - Len(written)]
      BY <1>4, <3>1, Zenon
    <3>3. written'[x] = lines[x - Len(written)]
      BY <3>1, <3>2, Zenon
    <3> QED
      BY <3>3 DEF x
  <2> QED
    BY <1>2, <2>2, <2>3, Zenon
<1>7. Len(written) \in Nat
  BY DEF Watermark
<1> QED
  BY <1>4, <1>5, <1>6, <1>7

LEMMA AppendKeeps ==
  ASSUME Watermark, NEW k \in Nat, k <= Len(Batch), NEW r \in BOOLEAN, Append_lines(k, r)
  PROVE  /\ written' \in Seq(Nat)
         /\ \A e \in Nat : InLog(e) => InLog(e)'
         /\ \A e \in From .. From + k - 1 : InLog(e)'
<1>1. From \in Nat \ {0}
  BY BatchIsRun
<1>4. /\ written' \in Seq(Nat) /\ Len(written') = Len(written) + k
      /\ \A i \in 1 .. Len(written) : written'[i] = written[i]
      /\ \A i \in 1 .. k : written'[Len(written) + i] = From + i - 1
  BY AppendAdds
<1>7. DOMAIN written = 1 .. Len(written) /\ DOMAIN written' = 1 .. Len(written')
      /\ Len(written) \in Nat
  BY <1>4 DEF Watermark
<1>8. ASSUME NEW e \in Nat, InLog(e) PROVE InLog(e)'
  BY <1>4, <1>7, <1>8 DEF InLog
<1>9. ASSUME NEW e \in From .. From + k - 1 PROVE InLog(e)'
  <2> DEFINE i == e - From + 1
  <2>1. i \in 1 .. k /\ Len(written) + i \in DOMAIN written'
    <3>1. i \in 1 .. k
      BY <1>1
    <3> QED
      BY <3>1, <1>4, <1>7
  <2>2. written'[Len(written) + i] = e
    <3>1. From + i - 1 = e
      BY <1>1
    <3> QED
      BY <2>1, <1>4, <3>1
  <2> QED
    BY <2>1, <2>2 DEF InLog
<1> QED
  BY <1>4, <1>8, <1>9

LEMMA WatermarkStep == Watermark /\ [ANext]_avars => Watermark'
<1> SUFFICES ASSUME Watermark, [ANext]_avars PROVE Watermark'
  OBVIOUS
<1>1. CASE UNCHANGED avars
  BY <1>1 DEF avars, Watermark, LostIsOld, InLog
<1>2. CASE Push
  <2>1. LostIsOld'
    BY <1>2 DEF Push, Watermark, LostIsOld, InLog
  <2>2. front' \in Nat \ {0} /\ start' < front' /\ front' <= total' + 1
        /\ total' - front' < Capacity
        /\ (front' = start' + 1 \/ front' = total' - Capacity + 1)
    BY <1>2, AuditAssumption DEF Push, Watermark
  <2> QED
    BY <1>2, <2>1, <2>2 DEF Push, Watermark
<1>3. ASSUME NEW r \in BOOLEAN, Flush(r) PROVE Watermark'
  <2>1. Pending # {} /\ Append_lines(Len(Batch), r) /\ flushed' = total
        /\ UNCHANGED <<total, front, start>>
    BY <1>3 DEF Flush
  <2>2. /\ From \in Nat /\ Len(Batch) \in Nat /\ Len(Batch) <= Len(Batch)
        /\ From + Len(Batch) - 1 = total
    <3>1. From \in Nat /\ Len(Batch) = total - From + 1 /\ From <= total + 1
      BY BatchIsRun
    <3>2. total \in Nat
      BY DEF Watermark
    <3> QED
      BY <3>1, <3>2
  <2>3. /\ written' \in Seq(Nat)
        /\ \A e \in Nat : InLog(e) => InLog(e)'
        /\ \A e \in From .. total : InLog(e)'
    BY <2>1, <2>2, AppendKeeps
  <2>4. ASSUME NEW e \in start + 1 .. flushed', ~(e + Capacity <= flushed') PROVE InLog(e)'
    <3>1. CASE e <= flushed
      BY <3>1, <2>1, <2>3, <2>4, AuditAssumption DEF Watermark, LostIsOld
    <3>2. CASE e > flushed
      BY <3>2, <2>1, <2>3, <2>4, AuditAssumption DEF Watermark, From
    <3> QED
      BY <3>1, <3>2 DEF Watermark
  <2> QED
    BY <2>1, <2>3, <2>4 DEF Watermark, LostIsOld
<1>4. ASSUME NEW r \in BOOLEAN, NEW k \in 0 .. Capacity - 1, FlushFails(k, r) PROVE Watermark'
  <2>1. k < Len(Batch) /\ Append_lines(k, r) /\ UNCHANGED <<total, front, flushed, start>>
    BY <1>4 DEF FlushFails
  <2>2. k \in Nat /\ Len(Batch) \in Nat
    BY AuditAssumption, BatchIsRun DEF Watermark
  <2>3. written' \in Seq(Nat) /\ \A e \in Nat : InLog(e) => InLog(e)'
    BY <2>1, <2>2, AppendKeeps
  <2> QED
    BY <2>1, <2>3 DEF Watermark, LostIsOld
<1>5. CASE AuditRestart
  BY <1>5, AuditAssumption DEF AuditRestart, Watermark, LostIsOld, InLog
<1> QED
  BY <1>1, <1>2, <1>3, <1>4, <1>5 DEF ANext

LEMMA WatermarkAlways == ASpec => []Watermark
  BY WatermarkInit, WatermarkStep, PTL DEF ASpec

(* An event behind the watermark is in the log, or it is so old that the     *)
(* ring had overwritten it.                                                  *)
THEOREM LostIsOldAlways == ASpec => []LostIsOld
  BY WatermarkAlways, PTL DEF Watermark

-----------------------------------------------------------------------------
(* What is in the log was pushed, and what is in it beyond the watermark     *)
(* came there with a write that failed.                                      *)
Written ==
    \A i \in DOMAIN written :
        written[i] <= total /\ (written[i] > flushed => written[i] \in torn)
Once == torn \subseteq Nat /\ Written /\ AppendedOnce

LEMMA OnceInit == AInit => Once
  BY DEF AInit, Once, Written, AppendedOnce

(* A write of k lines, whether it got to its end (torn as before) or not.    *)
LEMMA OnceWrites ==
  ASSUME Watermark, Once, NEW k \in Nat, k <= Len(Batch), NEW r \in BOOLEAN,
         Append_lines(k, r), total' = total, flushed' \in {flushed, total},
         torn \subseteq torn', torn' \subseteq Nat,
         flushed' = total \/ Pending \subseteq torn'
  PROVE  Once'
<1>1. /\ written' \in Seq(Nat) /\ Len(written') = Len(written) + k /\ Len(written) \in Nat
      /\ \A i \in 1 .. Len(written) : written'[i] = written[i]
      /\ \A i \in 1 .. k : written'[Len(written) + i] = From + i - 1
  BY AppendAdds
<1>2. /\ From \in Nat /\ From > flushed /\ From >= front /\ From + Len(Batch) - 1 = total
      /\ {total, flushed, front} \subseteq Nat /\ flushed <= total /\ Len(Batch) \in Nat
  <2>1. {total, flushed, front} \subseteq Nat /\ flushed <= total
    BY DEF Watermark
  <2>2. From \in Nat /\ From > flushed /\ From >= front
    BY <2>1 DEF From
  <2>3. Len(Batch) = total - From + 1 /\ From <= total + 1
    BY BatchIsRun
  <2> QED
    BY <2>1, <2>2, <2>3
<1>3. /\ DOMAIN written = 1 .. Len(written)
      /\ \A i \in 1 .. Len(written) : written[i] \in Nat
  BY DEF Watermark
<1>4. DOMAIN written' = 1 .. Len(written) + k
  BY <1>1
<1>5. ASSUME NEW i \in DOMAIN written', i > Len(written)
      PROVE  /\ written'[i] = From + (i - Len(written)) - 1
             /\ written'[i] \in Nat /\ flushed < written'[i] /\ written'[i] <= total
             /\ flushed' = total \/ written'[i] \in torn'
  <2> DEFINE x == i - Len(written)
  <2>1. x \in 1 .. k /\ Len(written) + x = i
    BY <1>1, <1>4, <1>5
  <2>2. written'[i] = From + x - 1
    BY <1>1, <2>1
  <2>3. From + x - 1 \in Nat /\ flushed < From + x - 1 /\ From + x - 1 <= total
        /\ From + x - 1 >= front
    BY <1>2, <2>1
  <2>4. From + x - 1 \in Pending
    BY <1>2, <2>3 DEF Pending
  <2> QED
    BY <2>2, <2>3, <2>4
<1>6. \A i \in DOMAIN written' : i <= Len(written) => i \in DOMAIN written /\ written'[i] = written[i]
  BY <1>1, <1>3, <1>4
<1>7. Written'
  <2> SUFFICES ASSUME NEW i \in DOMAIN written'
               PROVE  written'[i] <= total' /\ (written'[i] > flushed' => written'[i] \in torn')
    BY DEF Written
  <2>1. CASE i <= Len(written)
    <3>1. written'[i] <= total /\ (written'[i] > flushed => written'[i] \in torn)
      BY <1>6, <2>1 DEF Once, Written
    <3>2. written'[i] \in Nat
      BY <1>3, <1>6, <2>1
    <3> QED
      BY <3>1, <3>2, <1>2
  <2>2. CASE i > Len(written)
    <3>1. written'[i] \in Nat /\ written'[i] <= total
          /\ (flushed' = total \/ written'[i] \in torn')
      BY <1>5, <2>2
    <3> QED
      BY <3>1, <1>2
  <2>3. i \in Nat
    BY <1>1, <1>4
  <2> QED
    BY <1>1, <2>1, <2>2, <2>3
<1>8. ASSUME NEW i \in DOMAIN written', NEW j \in DOMAIN written', i < j,
             written'[i] = written'[j]
      PROVE  written'[i] \in torn'
  <2>0. i \in Nat /\ j \in Nat
    BY <1>1, <1>4
  <2>1. CASE j <= Len(written)
    <3>1. i <= Len(written) /\ i # j
      BY <1>1, <1>8, <2>0, <2>1
    <3> QED
      BY <1>6, <1>8, <2>1, <3>1 DEF Once, AppendedOnce
  <2>2. CASE i <= Len(written) /\ j > Len(written)
    <3>1. flushed < written'[i]
      BY <1>5, <1>8, <2>2
    <3>2. written'[i] > flushed => written'[i] \in torn
      BY <1>6, <2>2 DEF Once, Written
    <3> QED
      BY <3>1, <3>2
  <2>3. CASE i > Len(written)
    <3>1. j > Len(written)
      BY <1>1, <1>8, <2>0, <2>3
    <3>2. From + (i - Len(written)) - 1 = From + (j - Len(written)) - 1
      BY <1>5, <1>8, <2>3, <3>1
    <3> QED
      BY <1>1, <1>2, <1>8, <2>0, <3>2
  <2> QED
    BY <1>1, <2>0, <2>1, <2>2, <2>3
<1>9. AppendedOnce'
  <2> SUFFICES ASSUME NEW i \in DOMAIN written', NEW j \in DOMAIN written', i # j,
                      written'[i] = written'[j]
               PROVE  written'[i] \in torn'
    BY DEF AppendedOnce
  <2>1. i \in Nat /\ j \in Nat
    BY <1>1, <1>4
  <2>2. CASE i < j
    BY <1>8, <2>2
  <2>3. CASE j < i
    BY <1>8, <2>3
  <2> QED
    BY <2>1, <2>2, <2>3
<1> QED
  BY <1>7, <1>9 DEF Once

LEMMA OnceStep == Watermark /\ Once /\ [ANext]_avars => Once'
<1> SUFFICES ASSUME Watermark, Once, [ANext]_avars PROVE Once'
  OBVIOUS
<1>0. {total, flushed} \subseteq Nat /\ Len(Batch) \in Nat /\ Pending \subseteq Nat
  BY BatchIsRun DEF Watermark, Pending
<1>1. CASE UNCHANGED avars
  BY <1>1 DEF avars, Once, Written, AppendedOnce
<1>2. CASE Push
  <2>1. /\ total' = total + 1 /\ flushed' = flushed /\ written' = written /\ torn' = torn
    BY <1>2 DEF Push
  <2>2. \A i \in DOMAIN written : written[i] \in Nat
    BY DEF Watermark
  <2> QED
    BY <1>0, <2>1, <2>2 DEF Once, Written, AppendedOnce
<1>3. ASSUME NEW r \in BOOLEAN, Flush(r) PROVE Once'
  <2>1. /\ Append_lines(Len(Batch), r) /\ total' = total /\ flushed' = total /\ torn' = torn
    BY <1>3 DEF Flush
  <2> QED
    BY <1>0, <2>1, OnceWrites DEF Once
<1>4. ASSUME NEW r \in BOOLEAN, NEW k \in 0 .. Capacity - 1, FlushFails(k, r) PROVE Once'
  <2>1. /\ k < Len(Batch) /\ Append_lines(k, r) /\ total' = total /\ flushed' = flushed
        /\ torn' = torn \cup Pending
    BY <1>4 DEF FlushFails
  <2>2. k \in Nat /\ k <= Len(Batch)
    BY <1>0, <2>1, AuditAssumption
  <2> QED
    BY <1>0, <2>1, <2>2, OnceWrites DEF Once
<1>5. CASE AuditRestart
  <2>1. /\ total' = total /\ flushed' = total /\ written' = written /\ torn' = torn
    BY <1>5 DEF AuditRestart
  <2>2. \A i \in DOMAIN written : written[i] \in Nat
    BY DEF Watermark
  <2> QED
    BY <1>0, <2>1, <2>2 DEF Once, Written, AppendedOnce
<1> QED
  BY <1>1, <1>2, <1>3, <1>4, <1>5 DEF ANext

(* An event that is twice in the log was in a write that failed half way.    *)
THEOREM AppendedOnceAlways == ASpec => []AppendedOnce
<1>1. ASpec => []Once
  BY OnceInit, OnceStep, WatermarkAlways, PTL DEF ASpec
<1> QED
  BY <1>1, PTL DEF Once

-----------------------------------------------------------------------------
(* Piles of sequences: c at the bottom and o[i] in front of what is below.   *)
Piles(f, n, c, o) == f = [i \in 0 .. n |-> IF i = 0 THEN c ELSE o[i] \o f[i - 1]]

LEMMA PileExists ==
  ASSUME NEW n \in Nat, NEW c \in Seq(Nat), NEW o \in [1 .. n -> Seq(Nat)]
  PROVE  \E f : Piles(f, n, c, o)
<1> DEFINE Bad == {k \in 0 .. n : ~\E f : Piles(f, k, c, o)}
<1> SUFFICES ASSUME Bad # {} PROVE FALSE
  <2>1. n \in 0 .. n /\ (n \notin Bad => \E f : Piles(f, n, c, o))
    OBVIOUS
  <2> HIDE DEF Bad
  <2> QED
    BY <2>1
<1>1. PICK k \in Bad : \A j \in Bad : k <= j
  <2>1. Bad \subseteq Nat
    OBVIOUS
  <2> HIDE DEF Bad
  <2> QED
    BY <2>1, NatMin
<1>2. CASE k = 0
  <2>1. Piles([i \in 0 .. 0 |-> c], 0, c, o)
    BY DEF Piles
  <2> QED
    BY <1>2, <2>1
<1>3. CASE k # 0
  <2>1. k - 1 \in 0 .. n /\ k - 1 \notin Bad
    <3>1. k \in 0 .. n
      BY <1>1, Zenon
    <3> HIDE DEF Bad
    <3> QED
      BY <1>1, <1>3, <3>1
  <2>2. PICK g : Piles(g, k - 1, c, o)
    BY <2>1, Zenon
  <2> DEFINE f == [i \in 0 .. k |-> IF i = k THEN o[k] \o g[k - 1] ELSE g[i]]
  <2>3. k \in Nat /\ \A i \in 0 .. k : i # k => i \in 0 .. k - 1
    BY <1>1
  <2>4. \A i \in 0 .. k - 1 : f[i] = g[i]
    BY <2>3
  <2>5. \A i \in 0 .. k : f[i] = IF i = 0 THEN c ELSE o[i] \o f[i - 1]
    <3>1. \A i \in 0 .. k - 1 : g[i] = IF i = 0 THEN c ELSE o[i] \o g[i - 1]
      BY <2>2 DEF Piles
    <3>2. ASSUME NEW i \in 0 .. k - 1
          PROVE  f[i] = IF i = 0 THEN c ELSE o[i] \o f[i - 1]
      <4>1. CASE i = 0
        BY <3>1, <2>4, <4>1
      <4>2. CASE i # 0
        <5>1. i - 1 \in 0 .. k - 1
          BY <2>3, <4>2
        <5>2. f[i - 1] = g[i - 1] /\ f[i] = g[i] /\ g[i] = o[i] \o g[i - 1]
          BY <2>4, <3>1, <4>2, <5>1
        <5> QED
          BY <4>2, <5>2
      <4> QED
        BY <4>1, <4>2
    <3>3. f[k] = o[k] \o f[k - 1]
      <4>1. k - 1 \in 0 .. k - 1 /\ k \in 0 .. k
        BY <1>3, <2>3
      <4>2. f[k - 1] = g[k - 1] /\ f[k] = o[k] \o g[k - 1]
        BY <2>4, <4>1
      <4> QED
        BY <4>2
    <3> HIDE DEF f
    <3> QED
      BY <1>3, <2>3, <3>2, <3>3
  <2>6. f = [i \in 0 .. k |-> IF i = 0 THEN c ELSE o[i] \o f[i - 1]]
    <3>1. f = [i \in 0 .. k |-> f[i]]
      OBVIOUS
    <3> HIDE DEF f
    <3> QED
      BY <2>5, <3>1
  <2> QED
    BY <2>6 DEF Piles
<1> QED
  BY <1>2, <1>3

LEMMA PileType ==
  ASSUME NEW n \in Nat, NEW c \in Seq(Nat), NEW o \in [1 .. n -> Seq(Nat)], NEW f,
         Piles(f, n, c, o)
  PROVE  /\ f \in [0 .. n -> Seq(Nat)] /\ f[0] = c
         /\ \A i \in 1 .. n : f[i] = o[i] \o f[i - 1]
<1>1. \A i \in 0 .. n : f[i] = IF i = 0 THEN c ELSE o[i] \o f[i - 1]
  BY DEF Piles
<1>2. f[0] = c /\ \A i \in 1 .. n : f[i] = o[i] \o f[i - 1]
  <2>1. 0 \in 0 .. n /\ \A i \in 1 .. n : i \in 0 .. n /\ i # 0
    OBVIOUS
  <2> QED
    BY <1>1, <2>1, Zenon
<1> DEFINE Bad == {k \in 0 .. n : f[k] \notin Seq(Nat)}
<1>3. ASSUME Bad # {} PROVE FALSE
  <2>1. PICK k \in Bad : \A j \in Bad : k <= j
    <3>1. Bad \subseteq Nat
      OBVIOUS
    <3> HIDE DEF Bad
    <3> QED
      BY <1>3, <3>1, NatMin
  <2>2. k \in 1 .. n
    BY <1>2, <2>1
  <2>3. f[k - 1] \in Seq(Nat)
    BY <2>1, <2>2
  <2>4. o[k] \in Seq(Nat)
    BY <2>2
  <2>5. o[k] \o f[k - 1] \in Seq(Nat)
    BY <2>3, <2>4, ConcatProperties
  <2> QED
    BY <1>2, <2>1, <2>2, <2>5
<1>4. f = [i \in 0 .. n |-> f[i]]
  BY DEF Piles
<1> QED
  BY <1>2, <1>3, <1>4

LEMMA Associative ==
  \A s, t, u \in Seq(Nat) : s \o t \in Seq(Nat) /\ (s \o t) \o u = s \o (t \o u)
BY ConcatProperties, ConcatAssociative

(* Lines appended below the bottom of a pile come to be below all of it.     *)
LEMMA PileGrows ==
  ASSUME NEW n \in Nat, NEW f \in [0 .. n -> Seq(Nat)], NEW g, NEW o \in [1 .. n -> Seq(Nat)],
         NEW l \in Seq(Nat), g[0] = f[0] \o l,
         \A i \in 1 .. n : f[i] = o[i] \o f[i - 1] /\ g[i] = o[i] \o g[i - 1]
  PROVE  g[n] = f[n] \o l
<1> DEFINE Bad == {k \in 0 .. n : g[k] # f[k] \o l}
<1>1. ASSUME Bad # {} PROVE FALSE
  <2>1. PICK k \in Bad : \A j \in Bad : k <= j
    <3>1. Bad \subseteq Nat
      OBVIOUS
    <3> HIDE DEF Bad
    <3> QED
      BY <1>1, <3>1, NatMin
  <2>0. k \in 0 .. n /\ g[k] # f[k] \o l
    BY <2>1
  <2>2. k \in 1 .. n
    <3>1. k # 0
      BY <2>0
    <3> QED
      BY <2>0, <3>1
  <2>3. k - 1 \in 0 .. n /\ k - 1 \notin Bad
    <3> HIDE DEF Bad
    <3> QED
      BY <2>1, <2>2
  <2>4. g[k - 1] = f[k - 1] \o l
    BY <2>3
  <2> HIDE DEF Bad
  <2>5. o[k] \in Seq(Nat) /\ f[k - 1] \in Seq(Nat)
    BY <2>2, <2>3
  <2>6. (o[k] \o f[k - 1]) \o l = o[k] \o (f[k - 1] \o l)
    BY <2>5, Associative
  <2> QED
    BY <2>0, <2>2, <2>4, <2>6
<1>2. n \in 0 .. n
  OBVIOUS
<1> QED
  BY <1>1, <1>2

LEMMA PileOfNothing ==
  ASSUME NEW n \in Nat, NEW f, NEW o, f[0] = <<>>,
         \A i \in 1 .. n : o[i] = <<>> /\ f[i] = o[i] \o f[i - 1]
  PROVE  f[n] = <<>>
<1> DEFINE Bad == {k \in 0 .. n : f[k] # <<>>}
<1>1. ASSUME Bad # {} PROVE FALSE
  <2>1. PICK k \in Bad : \A j \in Bad : k <= j
    <3>1. Bad \subseteq Nat
      OBVIOUS
    <3> HIDE DEF Bad
    <3> QED
      BY <1>1, <3>1, NatMin
  <2>0. k \in 0 .. n /\ f[k] # <<>>
    BY <2>1
  <2>2. k \in 1 .. n
    <3>1. k # 0
      BY <2>0
    <3> QED
      BY <2>0, <3>1
  <2>3. k - 1 \in 0 .. n /\ k - 1 \notin Bad
    <3> HIDE DEF Bad
    <3> QED
      BY <2>1, <2>2
  <2>4. f[k - 1] = <<>>
    BY <2>3
  <2> HIDE DEF Bad
  <2>5. <<>> \o <<>> = <<>>
    OBVIOUS
  <2> QED
    BY <2>0, <2>2, <2>4, <2>5
<1>2. n \in 0 .. n
  OBVIOUS
<1> QED
  BY <1>1, <1>2

(* The files: what is in them, and that no number is missing between two.    *)
Files == current \in Seq(Nat) /\ older \in [1 .. Logs -> Seq(Nat)]
NoGap == \A i \in 2 .. Logs : older[i] # <<>> => older[i - 1] # <<>>
(* The log on disk is the end of what was written.                           *)
KeptIsTail == \E p \in Seq(Nat) : written = p \o Kept[Logs]
History == Files /\ NoGap /\ KeptIsTail

LEMMA KeptType ==
  ASSUME Files
  PROVE  /\ Kept \in [0 .. Logs -> Seq(Nat)] /\ Kept[0] = current
         /\ \A i \in 1 .. Logs : Kept[i] = older[i] \o Kept[i - 1]
<1>1. Logs \in Nat
  BY AuditAssumption
<1>2. \E f : Piles(f, Logs, current, older)
  BY <1>1, PileExists DEF Files
<1>3. Kept = CHOOSE f : f = [i \in 0 .. Logs |-> IF i = 0 THEN current ELSE older[i] \o f[i - 1]]
  BY DEF Kept
<1>4. Piles(Kept, Logs, current, older)
  BY <1>2, <1>3 DEF Piles
<1>5. current \in Seq(Nat) /\ older \in [1 .. Logs -> Seq(Nat)]
  BY DEF Files
<1>6. \A f : Piles(f, Logs, current, older) =>
               /\ f \in [0 .. Logs -> Seq(Nat)] /\ f[0] = current
               /\ \A i \in 1 .. Logs : f[i] = older[i] \o f[i - 1]
  BY <1>1, <1>5, PileType
<1> QED
  BY <1>4, <1>6, Zenon

LEMMA KeptTypeNext ==
  ASSUME Files'
  PROVE  /\ Kept' \in [0 .. Logs -> Seq(Nat)] /\ Kept'[0] = current'
         /\ \A i \in 1 .. Logs : Kept'[i] = older'[i] \o Kept'[i - 1]
<1>1. Logs \in Nat
  BY AuditAssumption
<1>2. current' \in Seq(Nat) /\ older' \in [1 .. Logs -> Seq(Nat)]
  BY DEF Files
<1>3. \E f : Piles(f, Logs, current', older')
  BY <1>1, <1>2, PileExists
<1>4. Kept' = CHOOSE f : f = [i \in 0 .. Logs |->
                               IF i = 0 THEN current' ELSE older'[i] \o f[i - 1]]
  BY DEF Kept
<1>5. Piles(Kept', Logs, current', older')
  BY <1>3, <1>4 DEF Piles
<1>6. \A f : Piles(f, Logs, current', older') =>
               /\ f \in [0 .. Logs -> Seq(Nat)] /\ f[0] = current'
               /\ \A i \in 1 .. Logs : f[i] = older'[i] \o f[i - 1]
  BY <1>1, <1>2, PileType
<1> QED
  BY <1>5, <1>6, Zenon

LEMMA HistoryInit == AInit => History
<1> SUFFICES ASSUME AInit PROVE History
  OBVIOUS
<1>1. Files
  BY DEF AInit, Files
<1>2. \A i \in 1 .. Logs : older[i] = <<>>
  BY DEF AInit
<1>3. NoGap
  BY <1>2, AuditAssumption DEF NoGap
<1>4. Kept \in [0 .. Logs -> Seq(Nat)] /\ Kept[0] = <<>>
      /\ \A i \in 1 .. Logs : Kept[i] = older[i] \o Kept[i - 1]
  BY <1>1, KeptType DEF AInit
<1>5. Kept[Logs] = <<>>
  BY <1>2, <1>4, AuditAssumption, PileOfNothing
<1>6. written = <<>> \o Kept[Logs] /\ <<>> \in Seq(Nat)
  BY <1>5 DEF AInit
<1>7. KeptIsTail
  BY <1>6 DEF KeptIsTail
<1> QED
  BY <1>1, <1>3, <1>7 DEF History

(* Without a rotation the lines go behind everything that is kept.           *)
LEMMA AppendStays ==
  ASSUME Watermark, History, NEW k \in Nat, k <= Len(Batch), NEW r \in BOOLEAN,
         Append_lines(k, r), ~(Rotates /\ r)
  PROVE  History'
<1> DEFINE lines == SubSeq(Batch, 1, k)
<1>1. lines \in Seq(Nat)
  BY LinesAreRun
<1>2. older' = older /\ current' = current \o lines /\ written' = written \o lines
  BY DEF Append_lines
<1> HIDE DEF lines
<1>3. Files /\ Files' /\ NoGap'
  BY <1>1, <1>2, Associative DEF History, Files, NoGap
<1>4. /\ Kept \in [0 .. Logs -> Seq(Nat)] /\ Kept[0] = current
      /\ \A i \in 1 .. Logs : Kept[i] = older[i] \o Kept[i - 1]
  BY <1>3, KeptType
<1>5. /\ Kept' \in [0 .. Logs -> Seq(Nat)] /\ Kept'[0] = current'
      /\ \A i \in 1 .. Logs : Kept'[i] = older'[i] \o Kept'[i - 1]
  BY <1>3, KeptTypeNext
<1>6. Kept'[Logs] = Kept[Logs] \o lines
  <2>1. Logs \in Nat /\ older \in [1 .. Logs -> Seq(Nat)] /\ Kept'[0] = Kept[0] \o lines
    BY <1>2, <1>3, <1>4, <1>5, AuditAssumption DEF Files
  <2>2. \A i \in 1 .. Logs : Kept[i] = older[i] \o Kept[i - 1] /\ Kept'[i] = older[i] \o Kept'[i - 1]
    BY <1>2, <1>4, <1>5
  <2> QED
    BY <1>1, <1>4, <2>1, <2>2, PileGrows
<1>7. PICK p \in Seq(Nat) : written = p \o Kept[Logs]
  BY DEF History, KeptIsTail
<1>8. Kept[Logs] \in Seq(Nat)
  BY <1>4, AuditAssumption
<1>9. written' = p \o Kept'[Logs]
  <2>1. (p \o Kept[Logs]) \o lines = p \o (Kept[Logs] \o lines)
    BY <1>1, <1>8, Associative, Zenon
  <2> QED
    BY <1>2, <1>6, <1>7, <2>1, Zenon
<1> QED
  BY <1>3, <1>9 DEF History, KeptIsTail

(* A rotation moves every log up one place, and the oldest goes.             *)
LEMMA MovedIsShifted ==
  ASSUME Files, NoGap, Rotates
  PROVE  /\ Moved \in [1 .. Logs -> Seq(Nat)] /\ Moved[1] = current /\ current # <<>>
         /\ \A i \in 2 .. Logs : Moved[i] = older[i - 1]
<1>1. current \in Seq(Nat) /\ older \in [1 .. Logs -> Seq(Nat)] /\ Logs \in Nat \ {0}
      /\ RotateAt \in Nat \ {0}
  BY AuditAssumption DEF Files
<1>2. current # <<>>
  BY <1>1 DEF Rotates
<1>3. 1 \in 1 .. Logs /\ Moved[1] = current
  BY <1>1 DEF Moved
<1>4. ASSUME NEW i \in 2 .. Logs PROVE Moved[i] = older[i - 1] /\ i - 1 \in 1 .. Logs
  <2>1. i \in 1 .. Logs /\ i # 1 /\ i - 1 \in 1 .. Logs
    BY <1>1
  <2>2. Moved[i] = IF older[i - 1] # <<>> THEN older[i - 1] ELSE older[i]
    BY <2>1 DEF Moved
  <2>3. older[i] # <<>> => older[i - 1] # <<>>
    BY DEF NoGap
  <2> QED
    BY <2>1, <2>2, <2>3
<1>5. \A i \in 1 .. Logs : Moved[i] \in Seq(Nat)
  <2> SUFFICES ASSUME NEW i \in 1 .. Logs PROVE Moved[i] \in Seq(Nat)
    OBVIOUS
  <2>1. CASE i = 1
    BY <1>1, <1>3, <2>1
  <2>2. CASE i # 1
    <3>1. i \in 2 .. Logs
      BY <1>1, <2>2
    <3> QED
      BY <1>1, <1>4, <3>1
  <2> QED
    BY <2>1, <2>2
<1>6. Moved \in [1 .. Logs -> Seq(Nat)]
  <2>1. Moved = [i \in 1 .. Logs |-> Moved[i]]
    BY DEF Moved
  <2> QED
    BY <1>5, <2>1
<1> QED
  BY <1>2, <1>3, <1>4, <1>6

LEMMA AppendRotates ==
  ASSUME Watermark, History, NEW k \in Nat, k <= Len(Batch), NEW r \in BOOLEAN,
         Append_lines(k, r), Rotates /\ r
  PROVE  History'
<1> DEFINE lines == SubSeq(Batch, 1, k)
<1>1. lines \in Seq(Nat)
  BY LinesAreRun
<1>2. older' = Moved /\ current' = <<>> \o lines /\ written' = written \o lines
  BY DEF Append_lines
<1> HIDE DEF lines
<1>3. current' = lines
  BY <1>1, <1>2, ConcatEmptySeq
<1>4. Files /\ NoGap
  BY DEF History
<1>5. /\ Moved \in [1 .. Logs -> Seq(Nat)] /\ Moved[1] = current /\ current # <<>>
      /\ \A i \in 2 .. Logs : Moved[i] = older[i - 1]
  BY <1>4, MovedIsShifted
<1>6. Logs \in Nat \ {0} /\ older \in [1 .. Logs -> Seq(Nat)]
  BY <1>4, AuditAssumption DEF Files
<1>7. Files'
  BY <1>1, <1>2, <1>3, <1>5 DEF Files
<1>8. NoGap'
  <2> SUFFICES ASSUME NEW i \in 2 .. Logs, Moved[i] # <<>> PROVE Moved[i - 1] # <<>>
    BY <1>2 DEF NoGap
  <2>1. CASE i = 2
    BY <1>5, <2>1
  <2>2. CASE i # 2
    <3>1. i - 1 \in 2 .. Logs
      BY <1>6, <2>2
    <3>2. Moved[i] = older[i - 1] /\ Moved[i - 1] = older[i - 1 - 1]
      BY <1>5, <3>1
    <3> QED
      BY <1>4, <3>1, <3>2 DEF NoGap
  <2> QED
    BY <2>1, <2>2
<1>9. /\ Kept \in [0 .. Logs -> Seq(Nat)] /\ Kept[0] = current
      /\ \A i \in 1 .. Logs : Kept[i] = older[i] \o Kept[i - 1]
  BY <1>4, KeptType
<1>10. /\ Kept' \in [0 .. Logs -> Seq(Nat)] /\ Kept'[0] = lines
       /\ \A i \in 1 .. Logs : Kept'[i] = Moved[i] \o Kept'[i - 1]
  BY <1>2, <1>3, <1>7, KeptTypeNext
<1>11. Kept'[Logs] = Kept[Logs - 1] \o lines
  <2> DEFINE n == Logs - 1
             f == [i \in 0 .. n |-> Kept[i]]
             g == [i \in 0 .. n |-> Kept'[i + 1]]
             o == [i \in 1 .. n |-> older[i]]
  <2>1. n \in Nat /\ f \in [0 .. n -> Seq(Nat)] /\ o \in [1 .. n -> Seq(Nat)]
    BY <1>6, <1>9
  <2>2. g[0] = f[0] \o lines
    <3>1. 0 \in 0 .. n /\ 1 \in 1 .. Logs /\ 0 + 1 = 1 /\ 1 - 1 = 0
      BY <1>6
    <3>2. g[0] = Kept'[1] /\ f[0] = Kept[0]
      BY <3>1
    <3>3. Kept'[1] = Moved[1] \o Kept'[0]
      BY <1>10, <3>1
    <3> QED
      BY <1>5, <1>9, <1>10, <3>2, <3>3
  <2>3. ASSUME NEW i \in 1 .. n
        PROVE  f[i] = o[i] \o f[i - 1] /\ g[i] = o[i] \o g[i - 1]
    <3>1. /\ i \in 0 .. n /\ i - 1 \in 0 .. n /\ i \in 1 .. Logs /\ i + 1 \in 2 .. Logs
          /\ i + 1 \in 1 .. Logs /\ i + 1 - 1 = i /\ i - 1 + 1 = i
      BY <1>6
    <3>2. f[i] = Kept[i] /\ f[i - 1] = Kept[i - 1] /\ o[i] = older[i]
          /\ g[i] = Kept'[i + 1] /\ g[i - 1] = Kept'[i]
      BY <3>1
    <3>3. Kept[i] = older[i] \o Kept[i - 1]
      BY <1>9, <3>1
    <3>4. Kept'[i + 1] = Moved[i + 1] \o Kept'[i] /\ Moved[i + 1] = older[i]
      BY <1>5, <1>10, <3>1
    <3> QED
      BY <3>2, <3>3, <3>4
  <2> HIDE DEF f, g, o
  <2>4. g[n] = f[n] \o lines
    <3> HIDE DEF n
    <3> QED
      BY <1>1, <2>1, <2>2, <2>3, PileGrows
  <2>5. n \in 0 .. n /\ n + 1 = Logs
    BY <1>6
  <2> QED
    BY <2>4, <2>5 DEF f, g
<1>12. PICK p \in Seq(Nat) : written = p \o Kept[Logs]
  BY DEF History, KeptIsTail
<1>13. /\ Kept[Logs] = older[Logs] \o Kept[Logs - 1]
       /\ older[Logs] \in Seq(Nat) /\ Kept[Logs - 1] \in Seq(Nat)
  <2>1. Logs \in 1 .. Logs /\ Logs - 1 \in 0 .. Logs
    BY <1>6
  <2> QED
    BY <1>6, <1>9, <2>1, Zenon
<1>14. written' = (p \o older[Logs]) \o Kept'[Logs] /\ p \o older[Logs] \in Seq(Nat)
  <2>1. written = (p \o older[Logs]) \o Kept[Logs - 1] /\ p \o older[Logs] \in Seq(Nat)
    <3>1. p \o older[Logs] \in Seq(Nat)
          /\ (p \o older[Logs]) \o Kept[Logs - 1] = p \o (older[Logs] \o Kept[Logs - 1])
      BY <1>12, <1>13, Associative, Zenon
    <3> QED
      BY <1>12, <1>13, <3>1
  <2>2. ((p \o older[Logs]) \o Kept[Logs - 1]) \o lines
          = (p \o older[Logs]) \o (Kept[Logs - 1] \o lines)
    BY <1>1, <1>13, <2>1, Associative, Zenon
  <2> QED
    BY <1>2, <1>11, <2>1, <2>2, Zenon
<1>15. KeptIsTail'
  BY <1>14 DEF KeptIsTail
<1> QED
  BY <1>7, <1>8, <1>15 DEF History

LEMMA HistoryStep == Watermark /\ History /\ [ANext]_avars => History'
<1> SUFFICES ASSUME Watermark, History, [ANext]_avars PROVE History'
  OBVIOUS
<1>1. CASE UNCHANGED <<current, older, written>>
  BY <1>1 DEF History, Files, NoGap, KeptIsTail, Kept
<1>2. ASSUME NEW k \in Nat, k <= Len(Batch), NEW r \in BOOLEAN, Append_lines(k, r)
      PROVE  History'
  BY <1>2, AppendStays, AppendRotates
<1>3. Len(Batch) \in Nat /\ \A k \in 0 .. Capacity - 1 : k \in Nat
  BY BatchIsRun, AuditAssumption
<1> QED
  BY <1>1, <1>2, <1>3 DEF ANext, avars, Push, Flush, FlushFails, AuditRestart

LEMMA HistoryAlways == ASpec => []History
  BY HistoryInit, HistoryStep, WatermarkAlways, PTL DEF ASpec

(* Read from the oldest file to the current one, the logs on disk are the    *)
(* last lines that were appended, whatever renames and writes failed.        *)
THEOREM HistoryIsSuffixAlways == ASpec => []HistoryIsSuffix
<1>1. (History /\ Watermark) => HistoryIsSuffix
  <2> SUFFICES ASSUME History, Watermark PROVE HistoryIsSuffix
    OBVIOUS
  <2>1. PICK p \in Seq(Nat) : written = p \o Kept[Logs]
    BY DEF History, KeptIsTail
  <2>2. Kept[Logs] \in Seq(Nat)
    BY KeptType, AuditAssumption DEF History
  <2> DEFINE K == Kept[Logs]
  <2>3. /\ Len(p) \in Nat /\ Len(K) \in Nat /\ Len(written) = Len(p) + Len(K)
        /\ written \in Seq(Nat)
        /\ \A i \in 1 .. Len(p) + Len(K) :
              written[i] = IF i <= Len(p) THEN p[i] ELSE K[i - Len(p)]
    BY <2>1, <2>2, ConcatProperties
  <2> HIDE DEF K
  <2> DEFINE a == Len(written) - Len(K) + 1
             b == Len(written)
             s == SubSeq(written, a, b)
  <2>4. a = Len(p) + 1 /\ a \in Int /\ b \in Int /\ \A i \in a .. b : written[i] \in Nat
    BY <2>3
  <2>5. /\ s \in Seq(Nat) /\ Len(s) = IF a <= b THEN b - a + 1 ELSE 0
        /\ \A i \in 1 .. b - a + 1 : s[i] = written[a + i - 1]
    <3> HIDE DEF a, b
    <3> QED
      BY <2>4, SubSeqProperties
  <2> HIDE DEF s
  <2>6. Len(s) = Len(K) /\ b - a + 1 = Len(K)
    BY <2>3, <2>5
  <2>7. ASSUME NEW i \in 1 .. Len(K) PROVE s[i] = K[i]
    <3>1. s[i] = written[a + i - 1]
      BY <2>5, <2>6
    <3>2. a + i - 1 = Len(p) + i /\ Len(p) + i \in 1 .. Len(p) + Len(K)
          /\ ~(Len(p) + i <= Len(p)) /\ Len(p) + i - Len(p) = i
      BY <2>3
    <3> DEFINE x == Len(p) + i
    <3>3. x \in 1 .. Len(p) + Len(K) /\ ~(x <= Len(p)) /\ x - Len(p) = i
      BY <3>2
    <3> HIDE DEF x
    <3>4. written[x] = K[x - Len(p)]
      BY <2>3, <3>3
    <3> QED
      BY <3>1, <3>2, <3>3, <3>4 DEF x
  <2>8. s = K
    BY <2>2, <2>5, <2>6, <2>7, SeqEqual DEF K
  <2>9. Len(K) <= Len(written)
    BY <2>3
  <2> QED
    BY <2>8, <2>9 DEF K, s, HistoryIsSuffix
<1> QED
  BY <1>1, HistoryAlways, WatermarkAlways, PTL

(* The ring, the watermark and the files keep their shape.                   *)
THEOREM AuditTypeCorrect == ASpec => []ATypeOK
<1>1. (History /\ Watermark /\ Once) => ATypeOK
  BY DEF History, Files, Watermark, Once, ATypeOK
<1>2. ASpec => []Once
  BY OnceInit, OnceStep, WatermarkAlways, PTL DEF ASpec
<1> QED
  BY <1>1, <1>2, HistoryAlways, WatermarkAlways, PTL
=============================================================================
