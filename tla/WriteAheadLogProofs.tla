------------------------ MODULE WriteAheadLogProofs ------------------------
(***************************************************************************)
(* What the log promises, for any number of records, calls and restarts:   *)
(* an acknowledged record is read back after any crash or power failure,   *)
(* and none is read on the wrong side of it; with the tables only what was *)
(* in a table file that had not reached the disk can be lost.              *)
(***************************************************************************)
EXTENDS FlushedLog, Induction, SequenceTheorems

-----------------------------------------------------------------------------
(***************************************************************************)
(* Reading.                                                                *)
(***************************************************************************)

StartsWith(g, f) == Len(f) <= Len(g) /\ \A i \in 1 .. Len(f) : g[i] = f[i]

LEMMA StartsWithIsPrefix ==
  ASSUME NEW f \in Seq(Piece), NEW g \in Seq(Piece), StartsWith(g, f)
  PROVE  IsPrefix(f, g)
<1>1. /\ Len(f) \in Nat /\ Len(g) \in Nat /\ Len(f) <= Len(g)
      /\ \A i \in 1 .. Len(f) : g[i] = f[i]
  BY DEF StartsWith
<1>2. \A i \in 1 .. Len(f) : f[i] \in Piece /\ g[i] \in Piece
  BY <1>1
<1> DEFINE n == Len(f)
           s == SubSeq(f, 1, n)
           t == SubSeq(g, 1, n)
<1> HIDE DEF n
<1>3. n \in Nat /\ n - 1 + 1 = n /\ (IF 1 <= n THEN n - 1 + 1 ELSE 0) = n
  BY <1>1 DEF n
<1>4. /\ s \in Seq(Piece) /\ Len(s) = n /\ \A i \in 1 .. n : s[i] = f[1 + i - 1]
      /\ t \in Seq(Piece) /\ Len(t) = n /\ \A i \in 1 .. n : t[i] = g[1 + i - 1]
  BY <1>2, <1>3, SubSeqProperties DEF n
<1>5. \A i \in 1 .. n : 1 + i - 1 = i
  BY <1>3
<1>6. s = t
  <2> HIDE DEF s, t
  <2> QED
    BY <1>1, <1>4, <1>5, SeqEqual DEF n
<1> QED
  BY <1>1, <1>6 DEF IsPrefix, n

LEMMA StartsWithTransitive ==
  ASSUME NEW f \in Seq(Piece), NEW g \in Seq(Piece), NEW h \in Seq(Piece),
         StartsWith(g, f), StartsWith(h, g)
  PROVE  StartsWith(h, f)
BY DEF StartsWith

\* The records that are read are the longest run of records at the beginning.
LEMMA ReadableIsGreatest ==
  ASSUME NEW f \in Seq(Piece)
  PROVE  /\ Readable(f) \in 0 .. Len(f)
         /\ \A i \in 1 .. Readable(f) : IsRecord(f, i)
         /\ \A n \in 1 .. Len(f) : (\A i \in 1 .. n : IsRecord(f, i)) => n <= Readable(f)
<1> DEFINE S == {0} \union {n \in 1 .. Len(f) : \A i \in 1 .. n : IsRecord(f, i)}
<1>1. S \in SUBSET Nat /\ S # {} /\ Len(f) \in Nat /\ \A n \in S : n <= Len(f)
  OBVIOUS
<1>2. \E n \in S : \A m \in S : m <= n
  <2> HIDE DEF S
  <2> QED
    BY <1>1, GreatestNumber
<1>3. Readable(f) \in S /\ \A m \in S : m <= Readable(f)
  <2>1. Readable(f) = Max(S)
    BY DEF Readable
  <2> HIDE DEF S
  <2>2. \E n \in S : \A m \in S : n >= m
    BY <1>1, <1>2
  <2>3. Max(S) \in S /\ \A m \in S : Max(S) >= m
    BY <2>2 DEF Max
  <2> QED
    BY <1>1, <2>1, <2>3
<1> QED
  BY <1>1, <1>3

LEMMA ReadIsRead ==
  ASSUME NEW f \in Seq(Piece), NEW r
  PROVE  r \in Read(f) <=> \E n \in 1 .. Readable(f) : r = f[2 * n - 1][1]
<1>1. Readable(f) \in Nat
  BY ReadableIsGreatest
<1>2. DOMAIN read_all(f) = 1 .. Readable(f)
  BY DEF read_all
<1> QED
  BY <1>2 DEF Read, Range, read_all

\* What is read from a file is read from a longer one too.
LEMMA ReadGrows ==
  ASSUME NEW f \in Seq(Piece), NEW g \in Seq(Piece), StartsWith(g, f)
  PROVE  Read(f) \subseteq Read(g) /\ Readable(f) <= Readable(g)
<1>1. /\ Len(f) \in Nat /\ Len(g) \in Nat /\ Len(f) <= Len(g)
      /\ \A i \in 1 .. Len(f) : g[i] = f[i]
  BY DEF StartsWith
<1>2. /\ Readable(f) \in 0 .. Len(f) /\ Readable(g) \in Nat
      /\ \A i \in 1 .. Readable(f) : IsRecord(f, i)
  BY ReadableIsGreatest
<1>3. \A i \in 1 .. Readable(f) : IsRecord(g, i) /\ g[2 * i - 1] = f[2 * i - 1]
  <2> SUFFICES ASSUME NEW i \in 1 .. Readable(f)
               PROVE  IsRecord(g, i) /\ g[2 * i - 1] = f[2 * i - 1]
    OBVIOUS
  <2>1. i \in Nat /\ 2 * i <= Len(f)
    BY <1>2 DEF IsRecord
  <2>2. 2 * i - 1 \in 1 .. Len(f) /\ 2 * i \in 1 .. Len(f) /\ 2 * i <= Len(g)
    BY <1>1, <1>2, <2>1
  <2>3. g[2 * i - 1] = f[2 * i - 1] /\ g[2 * i] = f[2 * i]
    BY <1>1, <2>2
  <2> QED
    BY <1>2, <2>2, <2>3 DEF IsRecord
<1>4. Readable(f) <= Readable(g)
  <2>1. CASE Readable(f) = 0
    BY <1>2, <2>1
  <2>2. CASE Readable(f) # 0
    <3>1. Readable(f) \in 1 .. Len(g)
      BY <1>1, <1>2, <2>2
    <3> QED
      BY <1>3, <3>1, ReadableIsGreatest
  <2> QED
    BY <2>1, <2>2
<1>5. \A n \in 1 .. Readable(f) : n \in 1 .. Readable(g) /\ f[2 * n - 1][1] = g[2 * n - 1][1]
  BY <1>2, <1>3, <1>4
<1> QED
  BY <1>4, <1>5, ReadIsRead

\* A whole log with one record more is whole, and the record is read from it.
LEMMA WholeGrows ==
  ASSUME NEW f \in Seq(Piece), IsWhole(f), NEW r \in 1 .. MaxRecords
  PROVE  /\ f \o Encoded(r) \in Seq(Piece)
         /\ StartsWith(f \o Encoded(r), f)
         /\ IsWhole(f \o Encoded(r)) /\ r \in Read(f \o Encoded(r))
<1> DEFINE g == f \o Encoded(r)
           n == Readable(f)
<1>1. Encoded(r) \in Seq(Piece) /\ Len(Encoded(r)) = 2
      /\ Encoded(r)[1] = <<r, 1>> /\ Encoded(r)[2] = <<r, 2>>
  BY DEF Encoded, Piece
<1>2. n \in Nat /\ Len(f) \in Nat /\ 2 * n = Len(f) /\ \A i \in 1 .. n : IsRecord(f, i)
  BY ReadableIsGreatest DEF IsWhole
<1> HIDE DEF n
<1>3. /\ g \in Seq(Piece) /\ Len(g) = Len(f) + 2
      /\ \A i \in 1 .. Len(f) + 2 : g[i] = IF i <= Len(f) THEN f[i] ELSE Encoded(r)[i - Len(f)]
  <2> HIDE DEF g
  <2> DEFINE e == Encoded(r)
  <2>1. e \in Seq(Piece) /\ Len(e) = 2 /\ g = f \o e
    BY <1>1 DEF g
  <2> HIDE DEF e
  <2>2. /\ g \in Seq(Piece) /\ Len(g) = Len(f) + Len(e)
        /\ \A i \in 1 .. Len(f) + Len(e) : g[i] = IF i <= Len(f) THEN f[i] ELSE e[i - Len(f)]
    BY <2>1, ConcatProperties
  <2> QED
    BY <2>1, <2>2 DEF e
<1> HIDE DEF g
<1>4. StartsWith(g, f)
  BY <1>2, <1>3 DEF StartsWith
<1>5. g[2 * n + 1] = <<r, 1>> /\ g[2 * n + 2] = <<r, 2>>
  <2>1. /\ 2 * n + 1 \in 1 .. Len(f) + 2 /\ 2 * n + 2 \in 1 .. Len(f) + 2
        /\ ~(2 * n + 1 <= Len(f)) /\ ~(2 * n + 2 <= Len(f))
        /\ (2 * n + 1) - Len(f) = 1 /\ (2 * n + 2) - Len(f) = 2
    BY <1>2
  <2> QED
    BY <1>1, <1>3, <2>1
<1>6. IsRecord(g, n + 1)
  <2>1. 2 * (n + 1) = 2 * n + 2 /\ 2 * (n + 1) - 1 = 2 * n + 1 /\ 2 * n + 2 <= Len(g)
    BY <1>2, <1>3
  <2> QED
    BY <1>5, <2>1 DEF IsRecord
<1>7. \A i \in 1 .. n + 1 : IsRecord(g, i)
  <2>1. \A i \in 1 .. n : IsRecord(g, i)
    <3>1. n <= Readable(g)
      BY <1>3, <1>4, ReadGrows DEF n
    <3>2. Readable(g) \in Nat
      BY <1>3, ReadableIsGreatest
    <3> QED
      BY <1>2, <1>3, <3>1, <3>2, ReadableIsGreatest
  <2>2. \A i \in 1 .. n + 1 : i \in 1 .. n \/ i = n + 1
    BY <1>2
  <2> QED
    BY <1>6, <2>1, <2>2
<1>8. n + 1 <= Readable(g)
  <2>1. n + 1 \in 1 .. Len(g)
    BY <1>2, <1>3
  <2> QED
    BY <1>3, <1>7, <2>1, ReadableIsGreatest
<1>9. Readable(g) = n + 1
  <2>1. Readable(g) \in Nat /\ Readable(g) \in 1 .. Readable(g)
    BY <1>2, <1>3, <1>8, ReadableIsGreatest
  <2>2. 2 * Readable(g) <= Len(g)
    BY <1>3, <2>1, ReadableIsGreatest DEF IsRecord
  <2> QED
    BY <1>2, <1>3, <1>8, <2>1, <2>2
<1>10. IsWhole(g)
  BY <1>2, <1>3, <1>9 DEF IsWhole
<1>11. r \in Read(g)
  <2>1. n + 1 \in 1 .. Readable(g) /\ 2 * (n + 1) - 1 = 2 * n + 1
    BY <1>2, <1>9
  <2>2. g[2 * (n + 1) - 1][1] = r
    BY <1>5, <2>1
  <2> QED
    BY <1>3, <2>1, <2>2, ReadIsRead
<1> QED
  BY <1>3, <1>4, <1>10, <1>11 DEF g

LEMMA Associative ==
  ASSUME NEW P, NEW f \in Seq(P), NEW g \in Seq(P), NEW h \in Seq(P)
  PROVE  (f \o g) \o h = f \o (g \o h)
OBVIOUS

\* What a stream writes goes behind the file, the rest stays in the buffer.
LEMMA SpillSplits ==
  ASSUME NEW f \in Seq(Piece), NEW t \in Seq(Piece), NEW n \in 0 .. Len(t)
  PROVE  LET g == f \o SubSeq(t, 1, n)
             b == SubSeq(t, n + 1, Len(t))
         IN  /\ g \in Seq(Piece) /\ b \in Seq(Piece)
             /\ StartsWith(g, f)
             /\ Len(g) = Len(f) + n /\ Len(b) = Len(t) - n
             /\ g \o b = f \o t
<1> DEFINE a == SubSeq(t, 1, n)
           b == SubSeq(t, n + 1, Len(t))
           g == f \o a
<1>1. Len(t) \in Nat /\ Len(f) \in Nat /\ \A i \in 1 .. Len(t) : t[i] \in Piece
  OBVIOUS
<1>2. a \in Seq(Piece) /\ Len(a) = n
  <2>1. 1 \in Int /\ n \in Int /\ \A i \in 1 .. n : t[i] \in Piece
    BY <1>1
  <2>2. a \in Seq(Piece) /\ Len(a) = IF 1 <= n THEN n - 1 + 1 ELSE 0
    BY <2>1, SubSeqProperties
  <2> QED
    BY <2>2
<1>3. b \in Seq(Piece) /\ Len(b) = Len(t) - n
  <2>1. n + 1 \in Int /\ Len(t) \in Int /\ \A i \in n + 1 .. Len(t) : t[i] \in Piece
    BY <1>1
  <2>2. b \in Seq(Piece) /\ Len(b) = IF n + 1 <= Len(t) THEN Len(t) - (n + 1) + 1 ELSE 0
    BY <2>1, SubSeqProperties
  <2> QED
    BY <1>1, <2>2
<1>4. a \o b = t
  <2>1. SubSeq(t, 1, n) \o SubSeq(t, n + 1, Len(t)) = SubSeq(t, 1, Len(t))
    <3>1. 1 \in 1 .. Len(t) + 1 /\ n \in 1 - 1 .. Len(t) /\ Len(t) \in n .. Len(t)
      BY <1>1
    <3> QED
      BY <3>1, ConcatAdjacentSubSeq
  <2>2. SubSeq(t, 1, Len(t)) = t
    BY SubSeqFull
  <2> QED
    BY <2>1, <2>2
<1> HIDE DEF a, b
<1>5. /\ g \in Seq(Piece) /\ Len(g) = Len(f) + Len(a)
      /\ \A i \in 1 .. Len(f) + Len(a) : g[i] = IF i <= Len(f) THEN f[i] ELSE a[i - Len(f)]
  BY <1>2, ConcatProperties
<1>6. StartsWith(g, f)
  BY <1>1, <1>2, <1>5 DEF StartsWith
<1>7. g \o b = f \o t
  <2>1. (f \o a) \o b = f \o (a \o b)
    <3>1. a \in Seq(Piece) /\ b \in Seq(Piece)
      BY <1>2, <1>3
    <3> QED
      BY <3>1, Associative
  <2> QED
    BY <1>4, <2>1
<1> QED
  BY <1>2, <1>3, <1>5, <1>6, <1>7 DEF a, b

-----------------------------------------------------------------------------
(***************************************************************************)
(* The invariant of the log.                                               *)
(***************************************************************************)

CanWrite == is_open /\ good

\* As long as a stream that found a whole log is good, file and buffer together
\* are a whole log, which holds what the running call has handed over.
FileOK ==
  /\ pc \in {"down", "truncate", "reopen"} => ~is_open
  /\ pc = "fsync" => CanWrite /\ buf = <<>> /\ todo = <<>>
  /\ CanWrite /\ whole => IsWhole(file \o buf)
  /\ CanWrite /\ whole /\ pc \in {"write", "fsync"} =>
       call \subseteq Read(file \o buf) \union Range(todo)

\* What is acknowledged is on the disk, and the disk has not been overtaken by
\* a truncation.
AckedOK ==
  /\ acked \subseteq Read(disk)
  /\ acked # {} => StartsWith(file, disk)
  /\ pc \in {"truncate", "reopen"} => acked = {}

SizeOK == is_open => current_size_ <= Len(file) + Len(buf)

LogInv == LogTypeOK /\ FileOK /\ AckedOK /\ SizeOK

LEMMA EmptyBuffer ==
  ASSUME NEW f \in Seq(Piece)
  PROVE  f \o <<>> = f /\ Len(f) \in Nat /\ StartsWith(f, f) /\ <<>> \in Seq(Piece)
BY DEF StartsWith

LEMMA ReadIsInPiece ==
  ASSUME NEW f \in Seq(Piece)
  PROVE  Read(f) \subseteq 1 .. MaxRecords
<1> SUFFICES ASSUME NEW n \in 1 .. Readable(f)
             PROVE  f[2 * n - 1][1] \in 1 .. MaxRecords
  BY ReadIsRead
<1>1. Readable(f) \in Nat /\ Len(f) \in Nat /\ 2 * n <= Len(f)
  BY ReadableIsGreatest DEF IsRecord
<1>2. 2 * n - 1 \in 1 .. Len(f)
  BY <1>1
<1> QED
  BY <1>2 DEF Piece

LEMMA WhatSpills ==
  ASSUME LogTypeOK, NEW t \in Seq(Piece), NEW n \in 0 .. Len(t), Spill(t, n)
  PROVE  /\ file' \in Seq(Piece) /\ StartsWith(file', file) /\ Len(file') = Len(file) + n
         /\ SubSeq(t, n + 1, Len(t)) \in Seq(Piece) /\ Len(SubSeq(t, n + 1, Len(t))) = Len(t) - n
         /\ file' \o SubSeq(t, n + 1, Len(t)) = file \o t
         /\ Len(file) \in Nat /\ Len(t) \in Nat
<1>1. file \in Seq(Piece) /\ Len(file) \in Nat /\ Len(t) \in Nat
  BY DEF LogTypeOK
<1>2. file' = file \o SubSeq(t, 1, n)
  BY DEF Spill
<1> QED
  BY <1>1, <1>2, SpillSplits

\* As long as the file only grows and nothing is acknowledged, nothing that is
\* acknowledged gets lost.
LEMMA AckedStays ==
  ASSUME LogInv, file' \in Seq(Piece), StartsWith(file', file), disk' = disk,
         acked' = acked \/ acked' = {},
         pc' \in {"truncate", "reopen"} => acked' = {}
  PROVE  AckedOK'
<1>1. acked' # {} => StartsWith(file, disk)
  BY DEF LogInv, AckedOK
<1>2. acked' # {} => StartsWith(file', disk)
  BY <1>1, StartsWithTransitive DEF LogInv, LogTypeOK
<1> QED
  BY <1>2 DEF LogInv, AckedOK

LEMMA FirstIsMember == ASSUME NEW S, NEW s \in Seq(S), s # <<>> PROVE s[1] \in S
OBVIOUS

LEMMA EmptyTyped == <<>> \in Seq(Piece) /\ <<>> \in Seq(1 .. MaxRecords)
OBVIOUS

LEMMA StopsAreBounded ==
  ASSUME LogTypeOK, stops < MaxStops, stops' = stops + 1
  PROVE  stops' \in 0 .. MaxStops
BY LogParametersAreSane DEF LogTypeOK

LEMMA LogInit == Init => LogInv
<1> SUFFICES ASSUME Init
             PROVE  LogInv
  OBVIOUS
<1>1. LogTypeOK
  <2>1. 1 \in 1 .. MaxRecords + 1 /\ 0 \in 0 .. MaxStops
    BY LogParametersAreSane
  <2> QED
    BY <2>1, EmptyTyped DEF Init, LogTypeOK
<1>2. FileOK /\ AckedOK /\ SizeOK
  BY DEF Init, FileOK, AckedOK, SizeOK, CanWrite
<1> QED
  BY <1>1, <1>2 DEF LogInv

LEMMA ConstructKeeps == ASSUME LogInv, Construct PROVE LogInv'
<1> USE DEF LogInv
<1>1. /\ pc = "down" /\ ~is_open /\ buf = <<>> /\ Len(file) \in Nat
      /\ file \o <<>> = file
  BY EmptyBuffer DEF Construct, FileOK, LogTypeOK
<1>2. PICK fails \in Fails("open") :
        /\ is_open' = ~fails /\ good' = ~fails
        /\ current_size_' = IF fails THEN 0 ELSE Len(file)
  BY DEF Construct
<1>3. /\ pc' = "idle" /\ whole' = IsWhole(file) /\ fails \in BOOLEAN
      /\ UNCHANGED <<file, disk, buf, todo, call, next, acked, stops>>
  BY DEF Construct, Fails
<1>4. IsWhole(file) \in BOOLEAN
  BY DEF IsWhole
<1>5. LogTypeOK'
  BY <1>1, <1>2, <1>3, <1>4 DEF LogTypeOK
<1>6. FileOK' /\ SizeOK'
  BY <1>1, <1>2, <1>3 DEF FileOK, SizeOK
<1>7. AckedOK'
  BY <1>3, EmptyBuffer, AckedStays DEF LogTypeOK
<1> QED
  BY <1>5, <1>6, <1>7

LEMMA AppendKeeps == ASSUME LogInv, NEW n \in Nat, append(n) PROVE LogInv'
<1> USE DEF LogInv
<1>1. /\ pc' = "write" /\ next + n <= MaxRecords + 1 /\ next' = next + n
      /\ call' = next .. next + n - 1 /\ todo' = Batch(n)
      /\ UNCHANGED <<file, disk, stream, whole, acked, stops>>
  BY DEF append
<1>2. next \in 1 .. MaxRecords + 1 /\ MaxRecords \in Nat
  BY LogParametersAreSane DEF LogTypeOK
<1>3. /\ Batch(n) \in Seq(1 .. MaxRecords) /\ DOMAIN Batch(n) = 1 .. n
      /\ \A i \in 1 .. n : Batch(n)[i] = next + i - 1
  <2>1. \A i \in 1 .. n : next + i - 1 \in 1 .. MaxRecords
    BY <1>1, <1>2
  <2>2. Batch(n) \in [1 .. n -> 1 .. MaxRecords]
    BY <2>1 DEF Batch
  <2> QED
    BY <2>1, <2>2 DEF Batch
<1>4. LogTypeOK'
  BY <1>1, <1>2, <1>3 DEF LogTypeOK, stream
<1>5. FileOK'
  <2>1. call' \subseteq Range(todo')
    <3> SUFFICES ASSUME NEW r \in next .. next + n - 1
                 PROVE  \E i \in 1 .. n : Batch(n)[i] = r
      BY <1>1, <1>3 DEF Range
    <3>1. r - next + 1 \in 1 .. n /\ next + (r - next + 1) - 1 = r
      BY <1>2
    <3> QED
      BY <1>3, <3>1
  <2> QED
    BY <1>1, <2>1 DEF FileOK, CanWrite, stream
<1>6. AckedOK'
  BY <1>1, EmptyBuffer, AckedStays DEF LogTypeOK
<1>7. SizeOK'
  BY <1>1 DEF SizeOK, stream
<1> QED
  BY <1>4, <1>5, <1>6, <1>7

\* A write that fails.
LEMMA WriteFailsKeeps ==
  ASSUME LogInv, pc = "write", CanWrite, NEW t \in Seq(Piece), Len(buf) <= Len(t), WriteFails(t)
  PROVE  LogInv'
<1> USE DEF LogInv
<1>1. PICK n \in 0 .. Len(t) - 1 : Spill(t, n)
  BY DEF WriteFails
<1>2. /\ buf' = t /\ good' = FALSE /\ pc' = "idle" /\ todo' = <<>> /\ call' = {}
      /\ UNCHANGED <<disk, is_open, current_size_, next, whole, acked, stops>>
  BY DEF WriteFails, GoesBad, Return
<1>3. n \in 0 .. Len(t)
  OBVIOUS
<1>4. /\ file' \in Seq(Piece) /\ StartsWith(file', file) /\ Len(file') = Len(file) + n
      /\ Len(file) \in Nat /\ Len(t) \in Nat
  BY <1>1, <1>3, WhatSpills
<1>5. LogTypeOK'
  BY <1>2, <1>4, EmptyTyped DEF LogTypeOK, CanWrite
<1>6. FileOK'
  BY <1>2 DEF FileOK, CanWrite
<1>7. AckedOK'
  BY <1>2, <1>4, AckedStays
<1>8. SizeOK'
  <2>1. /\ Len(buf) \in Nat /\ current_size_ \in Nat
        /\ current_size_ <= Len(file) + Len(buf)
    BY DEF CanWrite, SizeOK, LogTypeOK
  <2> QED
    BY <1>2, <1>4, <2>1 DEF SizeOK
<1> QED
  BY <1>5, <1>6, <1>7, <1>8

LEMMA do_appendKeeps == ASSUME LogInv, do_append PROVE LogInv'
<1> USE DEF LogInv
<1>1. pc = "write" /\ todo # <<>> /\ CanWrite
  BY DEF do_append, CanWrite
<1>2. /\ todo \in Seq(1 .. MaxRecords) /\ todo[1] \in 1 .. MaxRecords
      /\ Tail(todo) \in Seq(1 .. MaxRecords)
      /\ Range(todo) \subseteq Range(Tail(todo)) \union {todo[1]}
  <2>1. todo \in Seq(1 .. MaxRecords) /\ todo[1] \in 1 .. MaxRecords
        /\ Tail(todo) \in Seq(1 .. MaxRecords)
    <3>1. todo \in Seq(1 .. MaxRecords) /\ Len(todo) \in Nat /\ Len(todo) # 0
      BY <1>1 DEF LogTypeOK
    <3>2. Tail(todo) \in Seq(1 .. MaxRecords)
      BY <1>1, <3>1, HeadTailProperties
    <3> QED
      <4>1. todo[1] \in 1 .. MaxRecords
        BY <1>1, <3>1, FirstIsMember
      <4> QED
        BY <3>1, <3>2, <4>1
  <2>2. ASSUME NEW i \in DOMAIN todo, i # 1
        PROVE  i - 1 \in DOMAIN Tail(todo) /\ Tail(todo)[i - 1] = todo[i]
    BY <1>1, <2>1, <2>2
  <2> QED
    BY <2>1, <2>2 DEF Range
<1> DEFINE r == todo[1]
           t == Taken(r)
<1> HIDE DEF r
<1>3. /\ buf \in Seq(Piece) /\ file \in Seq(Piece) /\ Len(buf) \in Nat /\ Len(file) \in Nat
      /\ Encoded(r) \in Seq(Piece) /\ Len(Encoded(r)) = 2
      /\ t \in Seq(Piece) /\ Len(t) = Len(buf) + 2
      /\ file \o t = (file \o buf) \o Encoded(r) /\ file \o buf \in Seq(Piece)
  <2>1. buf \in Seq(Piece) /\ file \in Seq(Piece)
    BY DEF LogTypeOK
  <2>2. Encoded(r) \in Seq(Piece) /\ Len(Encoded(r)) = 2
    BY <1>2 DEF Encoded, Piece, r
  <2>3. t = buf \o Encoded(r)
    BY DEF Taken
  <2>4. t \in Seq(Piece) /\ Len(t) = Len(buf) + Len(Encoded(r)) /\ file \o buf \in Seq(Piece)
    BY <2>1, <2>2, <2>3, ConcatProperties
  <2>5. file \o t = (file \o buf) \o Encoded(r)
    <3>1. (file \o buf) \o Encoded(r) = file \o (buf \o Encoded(r))
      BY <2>1, <2>2, Associative
    <3> QED
      BY <2>3, <3>1
  <2> QED
    BY <2>1, <2>2, <2>4, <2>5
<1>4. CASE WriteFails(t)
  BY <1>1, <1>3, <1>4, WriteFailsKeeps
<1>5. CASE ~WriteFails(t)
  <2>1. PICK n \in 0 .. Len(t) : Spill(t, n) /\ buf' = SubSeq(t, n + 1, Len(t))
    BY <1>5 DEF do_append, r
  <2>2. /\ current_size_' = current_size_ + Len(Encoded(r))
        /\ todo' = Tail(todo)
        /\ UNCHANGED <<disk, is_open, good, pc, call, next, whole, acked, stops>>
    BY <1>5 DEF do_append, r
  <2>3. /\ file' \in Seq(Piece) /\ StartsWith(file', file) /\ Len(file') = Len(file) + n
        /\ buf' \in Seq(Piece) /\ Len(buf') = Len(t) - n
        /\ file' \o buf' = file \o t
    BY <1>3, <2>1, WhatSpills
  <2>4. LogTypeOK'
    <3>1. file' \in Seq(Piece) /\ buf' \in Seq(Piece) /\ todo' \in Seq(1 .. MaxRecords)
      BY <1>2, <2>2, <2>3
    <3>2. is_open'
      BY <1>1, <2>2 DEF CanWrite
    <3>3. current_size_' \in Nat
      BY <1>3, <2>2 DEF LogTypeOK
    <3> QED
      BY <2>2, <3>1, <3>2, <3>3 DEF LogTypeOK
  <2>5. FileOK'
    <3>1. ASSUME whole
          PROVE  /\ IsWhole(file' \o buf')
                 /\ call \subseteq Read(file' \o buf') \union Range(Tail(todo))
      <4>1. IsWhole(file \o buf) /\ call \subseteq Read(file \o buf) \union Range(todo)
        BY <1>1, <3>1 DEF FileOK
      <4>2. r \in 1 .. MaxRecords
        BY <1>2 DEF r
      <4> DEFINE h == (file \o buf) \o Encoded(r)
      <4>3. h \in Seq(Piece) /\ StartsWith(h, file \o buf) /\ IsWhole(h) /\ r \in Read(h)
        BY <1>3, <4>1, <4>2, WholeGrows
      <4>4. Read(file \o buf) \subseteq Read(h)
        BY <1>3, <4>3, ReadGrows
      <4>5. h = file' \o buf'
        BY <1>3, <2>3
      <4> HIDE DEF h
      <4> QED
        BY <1>2, <4>1, <4>3, <4>4, <4>5 DEF r
    <3> QED
      BY <1>1, <2>2, <3>1 DEF FileOK, CanWrite
  <2>6. AckedOK'
    BY <1>1, <2>2, <2>3, AckedStays
  <2>7. SizeOK'
    <3>1. current_size_ \in Nat /\ current_size_ <= Len(file) + Len(buf)
      BY <1>1 DEF CanWrite, SizeOK, LogTypeOK
    <3> QED
      BY <1>3, <2>2, <2>3, <3>1 DEF SizeOK
  <2> QED
    BY <2>4, <2>5, <2>6, <2>7
<1> QED
  BY <1>4, <1>5

LEMMA flushKeeps == ASSUME LogInv, flush PROVE LogInv'
<1> USE DEF LogInv
<1>1. pc = "write" /\ todo = <<>> /\ CanWrite /\ buf \in Seq(Piece) /\ Len(buf) \in Nat
  BY DEF flush, CanWrite, LogTypeOK
<1>2. CASE WriteFails(buf)
  BY <1>1, <1>2, WriteFailsKeeps
<1>3. CASE ~WriteFails(buf)
  <2>1. /\ Spill(buf, Len(buf)) /\ buf' = <<>> /\ pc' = "fsync"
        /\ UNCHANGED <<disk, is_open, good, current_size_, todo, call, next,
                       whole, acked, stops>>
    BY <1>3 DEF flush
  <2>2. /\ file' \in Seq(Piece) /\ StartsWith(file', file) /\ Len(file') = Len(file) + Len(buf)
        /\ Len(SubSeq(buf, Len(buf) + 1, Len(buf))) = 0
        /\ SubSeq(buf, Len(buf) + 1, Len(buf)) \in Seq(Piece)
        /\ file' \o SubSeq(buf, Len(buf) + 1, Len(buf)) = file \o buf
    <3>1. Len(buf) \in 0 .. Len(buf)
      BY <1>1
    <3>2. Len(buf) - Len(buf) = 0
      BY <1>1
    <3> QED
      BY <1>1, <2>1, <3>1, <3>2, WhatSpills
  <2>3. SubSeq(buf, Len(buf) + 1, Len(buf)) = <<>>
    BY <2>2, EmptySeq
  <2>4. file' \o buf' = file \o buf
    BY <2>1, <2>2, <2>3
  <2>5. LogTypeOK'
    BY <2>1, <2>2, EmptyBuffer DEF LogTypeOK
  <2>6. FileOK'
    BY <1>1, <2>1, <2>4 DEF FileOK, CanWrite
  <2>7. AckedOK'
    BY <1>1, <2>1, <2>2, AckedStays
  <2>8. SizeOK'
    <3>1. current_size_ \in Nat /\ current_size_ <= Len(file) + Len(buf)
      BY <1>1 DEF CanWrite, SizeOK, LogTypeOK
    <3>2. Len(buf') = 0
      BY <2>1
    <3> QED
      BY <1>1, <2>1, <2>2, <3>1, <3>2 DEF SizeOK
  <2> QED
    BY <2>5, <2>6, <2>7, <2>8
<1> QED
  BY <1>2, <1>3

LEMMA RefuseKeeps == ASSUME LogInv, Refuse PROVE LogInv'
<1> USE DEF LogInv
<1>1. /\ ~CanWrite /\ pc' = "idle" /\ todo' = <<>> /\ call' = {}
      /\ UNCHANGED <<file, disk, stream, next, whole, acked, stops>>
  BY DEF Refuse, Return, CanWrite
<1>2. LogTypeOK'
  BY <1>1 DEF LogTypeOK, stream
<1>3. FileOK' /\ SizeOK'
  BY <1>1 DEF FileOK, SizeOK, CanWrite, stream
<1>4. AckedOK'
  BY <1>1, EmptyBuffer, AckedStays DEF LogTypeOK
<1> QED
  BY <1>2, <1>3, <1>4

LEMMA fsyncKeeps == ASSUME LogInv, NEW fails \in BOOLEAN, fsync(fails) PROVE LogInv'
<1> USE DEF LogInv
<1>1. /\ pc = "fsync" /\ CanWrite /\ buf = <<>> /\ todo = <<>>
      /\ pc' = "idle" /\ todo' = <<>> /\ call' = {}
      /\ UNCHANGED <<file, stream, next, whole, stops>>
  BY DEF fsync, FileOK, Return
<1>2. file \in Seq(Piece) /\ disk \in Seq(Piece) /\ file \o buf = file
  BY <1>1, EmptyBuffer DEF LogTypeOK
<1>3. CASE fails
  <2>1. UNCHANGED <<disk, acked>>
    BY <1>3 DEF fsync
  <2>2. LogTypeOK' /\ FileOK' /\ SizeOK'
    BY <1>1, <2>1 DEF LogTypeOK, FileOK, SizeOK, CanWrite, stream
  <2>3. AckedOK'
    BY <1>1, <1>2, <2>1, EmptyBuffer, AckedStays
  <2> QED
    BY <2>2, <2>3
<1>4. CASE ~fails
  <2>1. disk' = file /\ acked' = IF whole THEN acked \union call ELSE acked
    BY <1>4 DEF fsync, Synced
  <2>2. LogTypeOK'
    BY <1>1, <1>2, <2>1 DEF LogTypeOK, stream
  <2>3. FileOK' /\ SizeOK'
    BY <1>1 DEF FileOK, SizeOK, CanWrite, stream
  <2>4. AckedOK'
    <3>1. acked \subseteq Read(file)
      BY <1>2, ReadGrows DEF AckedOK
    <3>2. whole => call \subseteq Read(file)
      BY <1>1, <1>2 DEF FileOK, Range
    <3>3. StartsWith(file', disk')
      BY <1>1, <1>2, <2>1, EmptyBuffer
    <3> QED
      BY <1>1, <2>1, <3>1, <3>2, <3>3 DEF AckedOK
  <2> QED
    BY <2>2, <2>3, <2>4
<1> QED
  BY <1>3, <1>4

LEMMA WhatCloses ==
  ASSUME LogTypeOK, close
  PROVE  /\ file' \in Seq(Piece) /\ StartsWith(file', file)
         /\ buf' = <<>> /\ is_open' = FALSE /\ good' = good
<1>1. buf \in Seq(Piece) /\ Len(buf) \in 0 .. Len(buf)
  BY DEF LogTypeOK
<1>2. \E n \in 0 .. Len(buf) : Spill(buf, n)
  BY <1>1 DEF close
<1> QED
  BY <1>1, <1>2, WhatSpills DEF close, Dropped

LEMMA clearKeeps == ASSUME LogInv, clear PROVE LogInv'
<1> USE DEF LogInv
<1>1. /\ file' \in Seq(Piece) /\ StartsWith(file', file)
      /\ buf' = <<>> /\ is_open' = FALSE /\ good' = good
      /\ pc' = "truncate" /\ acked' = {}
      /\ UNCHANGED <<disk, current_size_, todo, call, next, whole, stops>>
  BY WhatCloses DEF clear
<1>2. LogTypeOK'
  BY <1>1, EmptyBuffer DEF LogTypeOK
<1>3. FileOK' /\ SizeOK'
  BY <1>1 DEF FileOK, SizeOK, CanWrite
<1>4. AckedOK'
  BY <1>1, AckedStays
<1> QED
  BY <1>2, <1>3, <1>4

LEMMA TruncateKeeps == ASSUME LogInv, Truncate PROVE LogInv'
<1> USE DEF LogInv
<1>1. /\ pc = "truncate" /\ pc' = "reopen" /\ file' \in {file, <<>>}
      /\ UNCHANGED <<disk, stream, todo, call, next, whole, acked, stops>>
  BY DEF Truncate, Fails
<1>2. ~is_open /\ acked = {}
  BY <1>1 DEF FileOK, AckedOK
<1>3. LogTypeOK'
  BY <1>1, EmptyBuffer DEF LogTypeOK, stream
<1>4. FileOK' /\ SizeOK' /\ AckedOK'
  BY <1>1, <1>2 DEF FileOK, SizeOK, AckedOK, CanWrite, stream
<1> QED
  BY <1>3, <1>4

LEMMA ReopenKeeps == ASSUME LogInv, Reopen PROVE LogInv'
<1> USE DEF LogInv
<1>1. /\ pc = "reopen" /\ pc' = "idle" /\ whole' = IsWhole(file) /\ current_size_' = 0
      /\ UNCHANGED <<file, disk, buf, todo, call, next, acked, stops>>
  BY DEF Reopen, SizeReset
<1>2. PICK fails \in BOOLEAN : is_open' = ~fails /\ good' = ~fails
  BY DEF Reopen, Fails
<1>3. ~is_open /\ buf = <<>> /\ file \o <<>> = file /\ Len(file) \in Nat /\ Len(buf) = 0
  BY <1>1, EmptyBuffer DEF FileOK, LogTypeOK
<1>4. IsWhole(file) \in BOOLEAN
  BY DEF IsWhole
<1>5. LogTypeOK'
  BY <1>1, <1>2, <1>3, <1>4 DEF LogTypeOK
<1>6. FileOK' /\ SizeOK'
  BY <1>1, <1>2, <1>3 DEF FileOK, SizeOK
<1>7. AckedOK'
  BY <1>1, EmptyBuffer, AckedStays DEF LogTypeOK
<1> QED
  BY <1>5, <1>6, <1>7

LEMMA DestructKeeps == ASSUME LogInv, Destruct PROVE LogInv'
<1> USE DEF LogInv
<1>1. /\ file' \in Seq(Piece) /\ StartsWith(file', file)
      /\ buf' = <<>> /\ is_open' = FALSE /\ good' = good
      /\ pc' = "down" /\ stops < MaxStops /\ stops' = stops + 1
      /\ UNCHANGED <<disk, current_size_, todo, call, next, whole, acked>>
  BY WhatCloses DEF Destruct
<1>2. LogTypeOK'
  BY <1>1, EmptyTyped, StopsAreBounded DEF LogTypeOK
<1>3. FileOK' /\ SizeOK'
  BY <1>1 DEF FileOK, SizeOK, CanWrite
<1>4. AckedOK'
  BY <1>1, AckedStays
<1> QED
  BY <1>2, <1>3, <1>4

LEMMA CrashKeeps == ASSUME LogInv, Crash PROVE LogInv'
<1> USE DEF LogInv
<1>1. /\ stops < MaxStops /\ stops' = stops + 1
      /\ pc' = "down" /\ todo' = <<>> /\ call' = {}
      /\ is_open' = FALSE /\ good' = FALSE /\ buf' = <<>>
      /\ UNCHANGED <<file, disk, current_size_, next, whole, acked>>
  BY DEF Crash, GoesDown
<1>2. LogTypeOK'
  BY <1>1, EmptyTyped, StopsAreBounded DEF LogTypeOK
<1>3. FileOK' /\ SizeOK'
  BY <1>1 DEF FileOK, SizeOK, CanWrite
<1>4. AckedOK'
  BY <1>1, EmptyBuffer, AckedStays DEF LogTypeOK
<1> QED
  BY <1>2, <1>3, <1>4

\* What a power failure may leave holds all that was acknowledged.
LEMMA SurvivorsHoldAcked ==
  ASSUME LogInv, NEW f \in Survivors
  PROVE  f \in Seq(Piece) /\ acked \subseteq Read(f) /\ (acked # {} => StartsWith(f, disk))
<1> USE DEF LogInv
<1>1. disk \in Seq(Piece) /\ file \in Seq(Piece) /\ Len(disk) \in Nat /\ Len(file) \in Nat
  BY DEF LogTypeOK
<1> DEFINE least == IF IsPrefix(disk, file) THEN Len(disk) ELSE 0
<1>2. CASE f = disk
  BY <1>1, <1>2, EmptyBuffer DEF AckedOK
<1>3. CASE f # disk
  <2>1. PICK n \in least .. Len(file) : f = SubSeq(file, 1, n)
    BY <1>3 DEF Survivors
  <2>2. n \in 0 .. Len(file)
    BY <1>1
  <2>3. \A i \in 1 .. n : file[i] \in Piece
    BY <1>1, <2>2
  <2>4. /\ f \in Seq(Piece) /\ Len(f) = (IF 1 <= n THEN n - 1 + 1 ELSE 0)
        /\ \A i \in 1 .. n - 1 + 1 : f[i] = file[1 + i - 1]
    BY <2>1, <2>2, <2>3, SubSeqProperties
  <2>5. Len(f) = n /\ \A i \in 1 .. n : f[i] = file[i]
    <3>1. (IF 1 <= n THEN n - 1 + 1 ELSE 0) = n
      BY <2>2
    <3>2. \A i \in 1 .. n : i \in 1 .. n - 1 + 1 /\ 1 + i - 1 = i
      BY <2>2
    <3> QED
      BY <2>4, <3>1, <3>2
  <2>6. ASSUME acked # {}
        PROVE  StartsWith(f, disk)
    <3>1. StartsWith(file, disk)
      BY <2>6 DEF AckedOK
    <3>2. IsPrefix(disk, file)
      BY <1>1, <3>1, StartsWithIsPrefix
    <3>3. Len(disk) <= n
      BY <1>1, <3>2
    <3> QED
      BY <1>1, <2>2, <2>5, <3>1, <3>3 DEF StartsWith
  <2>7. acked # {} => Read(disk) \subseteq Read(f)
    BY <1>1, <2>4, <2>6, ReadGrows
  <2> QED
    BY <2>4, <2>6, <2>7 DEF AckedOK
<1> QED
  BY <1>2, <1>3

LEMMA PowerFailsKeeps == ASSUME LogInv, PowerFails PROVE LogInv'
<1>1. /\ stops < MaxStops /\ stops' = stops + 1
      /\ pc' = "down" /\ todo' = <<>> /\ call' = {}
      /\ is_open' = FALSE /\ good' = FALSE /\ buf' = <<>>
      /\ file' \in Survivors /\ disk' = file'
      /\ UNCHANGED <<current_size_, next, whole, acked>>
  BY DEF PowerFails, GoesDown
<1>2. file' \in Seq(Piece) /\ acked \subseteq Read(file')
  BY <1>1, SurvivorsHoldAcked
<1>3. LogTypeOK'
  BY <1>1, <1>2, EmptyTyped, StopsAreBounded DEF LogInv, LogTypeOK
<1>4. FileOK' /\ SizeOK'
  BY <1>1 DEF FileOK, SizeOK, CanWrite
<1>5. AckedOK'
  BY <1>1, <1>2, EmptyBuffer DEF AckedOK
<1> QED
  BY <1>3, <1>4, <1>5 DEF LogInv

LEMMA LogStep == ASSUME LogInv, [Next]_vars PROVE LogInv'
<1>1. CASE UNCHANGED vars
  BY <1>1 DEF vars, stream, LogInv, LogTypeOK, FileOK, AckedOK, SizeOK, CanWrite
<1>2. CASE \E n \in 0 .. MaxBatch : append(n)
  BY <1>2, AppendKeeps, LogParametersAreSane
<1>3. CASE \E fails \in BOOLEAN : fsync(fails)
  BY <1>3, fsyncKeeps
<1>4. CASE Work
  BY <1>4, do_appendKeeps, flushKeeps, RefuseKeeps, TruncateKeeps, ReopenKeeps DEF Work
<1> QED
  BY <1>1, <1>2, <1>3, <1>4, ConstructKeeps, clearKeeps, DestructKeeps, CrashKeeps,
     PowerFailsKeeps DEF Next

-----------------------------------------------------------------------------
(***************************************************************************)
(* The order in which the records are read.                                *)
(*                                                                         *)
(* A stream that went bad repeats its buffer, so that neither the file nor *)
(* the log as it will be is sorted.  But the buffer holds records of the   *)
(* running call only, and as soon as one of them is out of place, the      *)
(* stream is bad and the call fails.                                       *)
(***************************************************************************)

InOrder(f) ==
  \A p, q \in 1 .. Len(f) :
    p < q /\ f[q][1] < f[p][1] => acked \intersect (f[q][1] .. f[p][1]) = {}

Below(f) == \A p \in 1 .. Len(f) : f[p][1] < next

NumbersOK ==
  /\ Below(file \o buf) /\ Below(disk)
  /\ \A a \in acked : a < next

\* The running call has handed over the newest records.
CallOK ==
  /\ pc \notin {"write", "fsync"} => call = {} /\ todo = <<>>
  /\ \A c \in call : c < next /\ c .. next - 1 \subseteq call
  /\ acked \intersect call = {}

TodoOK == \A i \in 1 .. Len(todo) : todo[i] \in call /\ \A j \in i .. Len(todo) : todo[i] <= todo[j]

\* While the stream is good, the records of the call are in their order, and
\* before those that are still to come.
RunOK ==
  CanWrite =>
    /\ \A p \in 1 .. Len(buf) : buf[p][1] \in call
    /\ \A p, q \in 1 .. Len(file \o buf) :
         p < q /\ (file \o buf)[p][1] \in call => (file \o buf)[p][1] <= (file \o buf)[q][1]
    /\ \A p \in 1 .. Len(file \o buf) : \A i \in 1 .. Len(todo) : (file \o buf)[p][1] <= todo[i]

OrderOK ==
  /\ InOrder(file \o buf) /\ InOrder(disk)
  /\ NumbersOK /\ CallOK /\ TodoOK /\ RunOK

LEMMA NumbersAreTyped ==
  ASSUME NEW f \in Seq(Piece)
  PROVE  Len(f) \in Nat /\ \A p \in 1 .. Len(f) : f[p] \in Piece /\ f[p][1] \in 1 .. MaxRecords
<1>1. \A p \in 1 .. Len(f) : f[p] \in Piece
  OBVIOUS
<1> QED
  BY <1>1 DEF Piece

LEMMA Joined ==
  ASSUME NEW f \in Seq(Piece), NEW t \in Seq(Piece)
  PROVE  /\ f \o t \in Seq(Piece) /\ Len(f \o t) = Len(f) + Len(t)
         /\ Len(f) \in Nat /\ Len(t) \in Nat
         /\ \A p \in 1 .. Len(f) : (f \o t)[p] = f[p]
         /\ \A p \in 1 .. Len(t) : (f \o t)[Len(f) + p] = t[p]
         /\ \A p \in 1 .. Len(f \o t) :
              p \in 1 .. Len(f) \/ \E i \in 1 .. Len(t) : p = Len(f) + i
         /\ StartsWith(f \o t, f)
<1> DEFINE g == f \o t
<1>1. Len(f) \in Nat /\ Len(t) \in Nat
  OBVIOUS
<1>2. /\ g \in Seq(Piece) /\ Len(g) = Len(f) + Len(t)
      /\ \A p \in 1 .. Len(f) + Len(t) : g[p] = IF p <= Len(f) THEN f[p] ELSE t[p - Len(f)]
  BY ConcatProperties
<1> HIDE DEF g
<1>3. \A p \in 1 .. Len(f) : g[p] = f[p]
  BY <1>1, <1>2
<1>4. \A p \in 1 .. Len(t) : g[Len(f) + p] = t[p]
  <2> SUFFICES ASSUME NEW p \in 1 .. Len(t)
               PROVE  g[Len(f) + p] = t[p]
    OBVIOUS
  <2>1. Len(f) + p \in 1 .. Len(f) + Len(t) /\ ~(Len(f) + p <= Len(f)) /\ (Len(f) + p) - Len(f) = p
    BY <1>1
  <2> QED
    BY <1>2, <2>1
<1>5. \A p \in 1 .. Len(g) : p \in 1 .. Len(f) \/ \E i \in 1 .. Len(t) : p = Len(f) + i
  <2> SUFFICES ASSUME NEW p \in 1 .. Len(g), p \notin 1 .. Len(f)
               PROVE  \E i \in 1 .. Len(t) : p = Len(f) + i
    OBVIOUS
  <2>1. p - Len(f) \in 1 .. Len(t) /\ p = Len(f) + (p - Len(f))
    BY <1>1, <1>2
  <2> QED
    BY <2>1
<1> QED
  BY <1>1, <1>2, <1>3, <1>4, <1>5 DEF g, StartsWith

LEMMA PrefixInOrder ==
  ASSUME NEW f \in Seq(Piece), NEW g \in Seq(Piece), StartsWith(g, f)
  PROVE  (InOrder(g) => InOrder(f)) /\ (Below(g) => Below(f))
<1>1. \A p \in 1 .. Len(f) : p \in 1 .. Len(g) /\ g[p] = f[p]
  BY DEF StartsWith
<1> QED
  BY <1>1 DEF InOrder, Below

\* A step after which no call runs, and which adds nothing to the log.
LEMMA QuietKeepsOrder ==
  ASSUME LogTypeOK, LogTypeOK', OrderOK, StartsWith(file \o buf, file' \o buf'), disk' = disk,
         next' = next, call' = {}, todo' = <<>>, acked' = acked \/ acked' = {},
         CanWrite' => buf' = <<>>
  PROVE  OrderOK'
<1>1. file \o buf \in Seq(Piece) /\ file' \o buf' \in Seq(Piece)
  BY DEF LogTypeOK
<1>2. InOrder(file' \o buf') /\ Below(file' \o buf')
  BY <1>1, PrefixInOrder DEF OrderOK, NumbersOK
<1>3. acked' \subseteq acked
  OBVIOUS
<1>4. InOrder(file \o buf)' /\ InOrder(disk)'
  BY <1>2, <1>3 DEF OrderOK, InOrder
<1>5. NumbersOK'
  BY <1>2, <1>3 DEF OrderOK, NumbersOK, Below
<1>6. CallOK' /\ TodoOK'
  BY DEF CallOK, TodoOK
<1>7. RunOK'
  BY DEF RunOK
<1> QED
  BY <1>4, <1>5, <1>6, <1>7 DEF OrderOK

LEMMA StartsWithItself == ASSUME NEW f \in Seq(Piece) PROVE StartsWith(f, f)
BY DEF StartsWith

LEMMA AppendKeepsOrder ==
  ASSUME LogTypeOK, OrderOK, NEW n \in Nat, append(n)
  PROVE  OrderOK'
<1> USE DEF OrderOK
<1>1. /\ pc = "idle" /\ pc' = "write" /\ next' = next + n
      /\ call' = next .. next + n - 1 /\ todo' = [i \in 1 .. n |-> next + i - 1]
      /\ UNCHANGED <<file, disk, buf, is_open, good, acked>>
  BY DEF append, Batch, stream
<1>2. next \in Nat /\ file \o buf \in Seq(Piece) /\ disk \in Seq(Piece) /\ acked \subseteq Nat
  BY LogParametersAreSane DEF LogTypeOK
<1> DEFINE T == file \o buf
<1>3. /\ \A p \in 1 .. Len(T) : T[p][1] \in Nat /\ T[p][1] < next
      /\ \A p \in 1 .. Len(disk) : disk[p][1] \in Nat /\ disk[p][1] < next
  BY <1>2, NumbersAreTyped DEF NumbersOK, Below
<1> HIDE DEF T
<1>4. InOrder(file \o buf)' /\ InOrder(disk)'
  BY <1>1 DEF InOrder
<1>5. NumbersOK'
  <2>1. \A a \in acked : a < next
    BY DEF NumbersOK
  <2>2. next \in Nat /\ next' \in Nat /\ next <= next'
    BY <1>1, <1>2
  <2>3. \A a \in acked' : a < next'
    BY <1>1, <1>2, <2>1, <2>2
  <2>4. /\ \A p \in 1 .. Len(T) : T[p][1] < next'
        /\ \A p \in 1 .. Len(disk) : disk[p][1] < next'
    BY <1>3, <2>2
  <2> QED
    BY <1>1, <2>3, <2>4 DEF NumbersOK, Below, T
<1>6. CallOK'
  BY <1>1, <1>2 DEF CallOK, NumbersOK
<1>7. TodoOK'
  <2>1. Len(todo') = n /\ \A i \in 1 .. n : todo'[i] = next + i - 1
    BY <1>1
  <2> QED
    BY <1>1, <1>2, <2>1 DEF TodoOK
<1>8. RunOK'
  <2>1. Len(todo') = n /\ \A i \in 1 .. n : todo'[i] = next + i - 1
    BY <1>1
  <2>2. CanWrite => \A p \in 1 .. Len(buf) : buf[p][1] \in call'
    BY <1>1 DEF RunOK, CallOK
  <2>3. \A p \in 1 .. Len(T) : T[p][1] \notin call'
    BY <1>1, <1>2, <1>3
  <2>4. \A p \in 1 .. Len(T) : \A i \in 1 .. Len(todo') : T[p][1] <= todo'[i]
    BY <1>2, <1>3, <2>1
  <2> QED
    BY <1>1, <2>2, <2>3, <2>4 DEF RunOK, CanWrite, T
<1> QED
  BY <1>4, <1>5, <1>6, <1>7, <1>8

\* What a bad stream repeats are records of the call, which is not acknowledged.
LEMMA WriteFailsKeepsOrder ==
  ASSUME LogTypeOK, OrderOK, NEW t \in Seq(Piece), WriteFails(t),
         \A p \in 1 .. Len(t) : t[p][1] \in call,
         InOrder(file \o t), Below(file \o t)
  PROVE  OrderOK'
<1> USE DEF OrderOK
<1>1. PICK n \in 0 .. Len(t) - 1 : Spill(t, n)
  BY DEF WriteFails
<1>2. /\ buf' = t /\ good' = FALSE /\ todo' = <<>> /\ call' = {}
      /\ UNCHANGED <<disk, next, acked>>
  BY DEF WriteFails, GoesBad, Return
<1> DEFINE s == SubSeq(t, 1, n)
           h == file \o t
           g == file'
           w == g \o t
<1>3. file \in Seq(Piece) /\ n \in 0 .. Len(t) /\ Len(t) \in Nat /\ next \in Nat
  BY LogParametersAreSane DEF LogTypeOK
<1>4. /\ s \in Seq(Piece) /\ Len(s) = n /\ \A i \in 1 .. n : s[i] = t[i]
      /\ g = file \o s
  <2>1. \A i \in 1 .. n : t[i] \in Piece
    BY <1>3
  <2>2. s \in Seq(Piece) /\ Len(s) = (IF 1 <= n THEN n - 1 + 1 ELSE 0)
        /\ \A i \in 1 .. n - 1 + 1 : s[i] = t[1 + i - 1]
    BY <1>3, <2>1, SubSeqProperties
  <2>3. (IF 1 <= n THEN n - 1 + 1 ELSE 0) = n
        /\ \A i \in 1 .. n : i \in 1 .. n - 1 + 1 /\ 1 + i - 1 = i
    BY <1>3
  <2> HIDE DEF s
  <2> QED
    BY <1>1, <2>2, <2>3 DEF Spill, s
<1> HIDE DEF s
<1>5. /\ g \in Seq(Piece) /\ Len(g) = Len(file) + n /\ Len(file) \in Nat
      /\ \A p \in 1 .. Len(file) : g[p] = file[p]
      /\ \A p \in 1 .. n : g[Len(file) + p] = t[p]
      /\ \A p \in 1 .. Len(g) : p \in 1 .. Len(file) \/ \E i \in 1 .. n : p = Len(file) + i
  BY <1>3, <1>4, Joined
<1>6. /\ h \in Seq(Piece) /\ Len(h) = Len(file) + Len(t)
      /\ \A p \in 1 .. Len(file) : h[p] = file[p]
      /\ \A p \in 1 .. Len(t) : h[Len(file) + p] = t[p]
  BY <1>3, Joined
<1> HIDE DEF g
<1>7. /\ w \in Seq(Piece) /\ Len(w) = Len(g) + Len(t)
      /\ \A p \in 1 .. Len(g) : w[p] = g[p]
      /\ \A p \in 1 .. Len(t) : w[Len(g) + p] = t[p]
      /\ \A p \in 1 .. Len(w) : p \in 1 .. Len(g) \/ \E i \in 1 .. Len(t) : p = Len(g) + i
  BY <1>5, Joined
<1> HIDE DEF h, w
<1>8. /\ \A p \in 1 .. Len(g) : p \in 1 .. Len(h) /\ w[p] = h[p]
      /\ \A p \in 1 .. Len(t) : Len(file) + p \in 1 .. Len(h) /\ w[Len(g) + p] = h[Len(file) + p]
  <2>1. \A p \in 1 .. Len(file) : p \in 1 .. Len(h) /\ g[p] = h[p]
    BY <1>3, <1>5, <1>6
  <2>2. \A p \in 1 .. n : Len(file) + p \in 1 .. Len(h) /\ g[Len(file) + p] = h[Len(file) + p]
    <3> SUFFICES ASSUME NEW p \in 1 .. n
                 PROVE  Len(file) + p \in 1 .. Len(h) /\ g[Len(file) + p] = h[Len(file) + p]
      OBVIOUS
    <3>1. p \in 1 .. Len(t) /\ Len(file) + p \in 1 .. Len(file) + Len(t)
      BY <1>3, <1>5
    <3>2. g[Len(file) + p] = t[p] /\ h[Len(file) + p] = t[p]
      BY <1>5, <1>6, <3>1
    <3> QED
      BY <1>6, <3>1, <3>2
  <2>3. \A p \in 1 .. Len(g) : p \in 1 .. Len(h) /\ g[p] = h[p]
    BY <1>5, <2>1, <2>2
  <2>4. \A p \in 1 .. Len(t) : Len(file) + p \in 1 .. Len(h)
    BY <1>3, <1>5, <1>6
  <2> QED
    BY <1>6, <1>7, <2>3, <2>4
<1>9. Below(w)
  <2>1. \A p \in 1 .. Len(w) : \E q \in 1 .. Len(h) : w[p] = h[q]
    BY <1>7, <1>8
  <2> QED
    BY <2>1 DEF Below, h
<1>10. InOrder(w)
  <2> SUFFICES ASSUME NEW p \in 1 .. Len(w), NEW q \in 1 .. Len(w), p < q, w[q][1] < w[p][1]
               PROVE  acked \intersect (w[q][1] .. w[p][1]) = {}
    BY DEF InOrder
  <2>1. CASE p \in 1 .. Len(g) /\ q \in 1 .. Len(g)
    BY <1>8, <2>1 DEF InOrder, h
  <2>2. CASE p \in 1 .. Len(file) /\ q \notin 1 .. Len(g)
    <3>1. PICK i \in 1 .. Len(t) : q = Len(g) + i
      BY <1>7, <2>2
    <3>2. w[q] = h[Len(file) + i] /\ Len(file) + i \in 1 .. Len(h) /\ p < Len(file) + i
      BY <1>3, <1>5, <1>8, <2>2, <3>1
    <3>3. p \in 1 .. Len(h) /\ w[p] = h[p]
      BY <1>3, <1>5, <1>8, <2>2
    <3> QED
      BY <3>2, <3>3 DEF InOrder, h
  <2>3. CASE p \notin 1 .. Len(g)
    <3>1. PICK i \in 1 .. Len(t) : p = Len(g) + i
      BY <1>7, <2>3
    <3>2. q \notin 1 .. Len(g)
      BY <1>3, <1>5, <2>3
    <3>3. PICK j \in 1 .. Len(t) : q = Len(g) + j
      BY <1>7, <3>2
    <3>4. Len(file) + i < Len(file) + j
      BY <1>3, <1>5, <3>1, <3>3
    <3>5. /\ Len(file) + i \in 1 .. Len(h) /\ Len(file) + j \in 1 .. Len(h)
          /\ w[p] = h[Len(file) + i] /\ w[q] = h[Len(file) + j]
      BY <1>8, <3>1, <3>3
    <3> QED
      BY <3>4, <3>5 DEF InOrder, h
  <2>4. CASE p \in 1 .. Len(g) /\ p \notin 1 .. Len(file) /\ q \notin 1 .. Len(g)
    <3>1. PICK i \in 1 .. n : p = Len(file) + i
      BY <1>5, <2>4
    <3>2. PICK j \in 1 .. Len(t) : q = Len(g) + j
      BY <1>7, <2>4
    <3>3. w[p] = t[i] /\ w[q] = t[j] /\ i \in 1 .. Len(t)
      <4>1. i \in 1 .. Len(t)
        BY <1>3
      <4>2. w[p] = g[p] /\ g[p] = t[i]
        BY <1>5, <1>7, <2>4, <3>1
      <4>3. w[q] = t[j]
        BY <1>7, <3>2
      <4> QED
        BY <4>1, <4>2, <4>3
    <3>4. w[p][1] \in call /\ w[q][1] \in call
      BY <3>3
    <3>5. w[p][1] \in Nat /\ w[q][1] \in Nat
      <4>1. call \subseteq Nat
        BY DEF LogTypeOK
      <4> QED
        BY <3>4, <4>1
    <3>6. w[q][1] .. w[p][1] \subseteq call
      <4>1. w[p][1] < next /\ w[q][1] .. next - 1 \subseteq call
        BY <3>4 DEF CallOK
      <4>2. w[q][1] .. w[p][1] \subseteq w[q][1] .. next - 1
        BY <1>3, <3>5, <4>1
      <4> QED
        BY <4>1, <4>2
    <3> QED
      BY <3>6 DEF CallOK
  <2> QED
    BY <2>1, <2>2, <2>3, <2>4
<1>11. InOrder(file \o buf)' /\ InOrder(disk)'
  BY <1>2, <1>10 DEF InOrder, w, g
<1>12. NumbersOK'
  BY <1>2, <1>9 DEF NumbersOK, Below, w, g
<1>13. CallOK' /\ TodoOK' /\ RunOK'
  BY <1>2 DEF CallOK, TodoOK, RunOK, CanWrite
<1> QED
  BY <1>11, <1>12, <1>13

\* The record that the stream takes next is in its place, behind all others.
LEMMA TakenIsInOrder ==
  ASSUME LogTypeOK, OrderOK, CanWrite, todo # <<>>
  PROVE  LET t == Taken(todo[1])
         IN  /\ t \in Seq(Piece) /\ Len(t) = Len(buf) + 2
             /\ \A p \in 1 .. Len(t) : t[p][1] \in call
             /\ InOrder(file \o t) /\ Below(file \o t)
             /\ \A p, q \in 1 .. Len(file \o t) :
                  p < q /\ (file \o t)[p][1] \in call => (file \o t)[p][1] <= (file \o t)[q][1]
             /\ \A p \in 1 .. Len(file \o t) : \A i \in 1 .. Len(Tail(todo)) :
                  (file \o t)[p][1] <= Tail(todo)[i]
<1> USE DEF OrderOK
<1> DEFINE r == todo[1]
           e == Encoded(r)
           t == Taken(r)
           T == file \o buf
           h == file \o t
<1>1. /\ todo \in Seq(1 .. MaxRecords) /\ Len(todo) \in Nat /\ 1 \in 1 .. Len(todo)
      /\ r \in 1 .. MaxRecords /\ r \in call /\ r \in Nat /\ r < next
      /\ Len(Tail(todo)) = Len(todo) - 1
      /\ \A i \in 1 .. Len(todo) - 1 : Tail(todo)[i] = todo[i + 1]
  <2>1. todo \in Seq(1 .. MaxRecords) /\ Len(todo) \in Nat /\ Len(todo) # 0
    BY DEF LogTypeOK
  <2>2. /\ Len(Tail(todo)) = Len(todo) - 1
        /\ \A i \in 1 .. Len(Tail(todo)) : Tail(todo)[i] = todo[i + 1]
    BY <2>1, HeadTailProperties
  <2>3. r \in 1 .. MaxRecords
    BY <2>1, FirstIsMember
  <2>4. 1 \in 1 .. Len(todo)
    BY <2>1
  <2>5. r \in call /\ r < next
    BY <2>4 DEF TodoOK, CallOK
  <2> QED
    BY <2>1, <2>2, <2>3, <2>4, <2>5
<1> HIDE DEF r
<1>2. /\ e \in Seq(Piece) /\ Len(e) = 2 /\ \A p \in 1 .. 2 : e[p][1] = r
  BY <1>1 DEF Encoded, Piece
<1> HIDE DEF e
<1>3. buf \in Seq(Piece) /\ file \in Seq(Piece)
  BY DEF LogTypeOK
<1>4. /\ t \in Seq(Piece) /\ Len(t) = Len(buf) + 2
      /\ \A p \in 1 .. Len(t) : t[p][1] \in call
  <2>1. t = buf \o e
    BY DEF Taken, e
  <2> HIDE DEF t
  <2>2. /\ t \in Seq(Piece) /\ Len(t) = Len(buf) + 2
        /\ \A p \in 1 .. Len(buf) : t[p] = buf[p]
        /\ \A p \in 1 .. 2 : t[Len(buf) + p] = e[p]
        /\ \A p \in 1 .. Len(t) : p \in 1 .. Len(buf) \/ \E i \in 1 .. 2 : p = Len(buf) + i
    <3>1. /\ t \in Seq(Piece) /\ Len(t) = Len(buf) + Len(e)
          /\ \A p \in 1 .. Len(buf) : t[p] = buf[p]
          /\ \A p \in 1 .. Len(e) : t[Len(buf) + p] = e[p]
          /\ \A p \in 1 .. Len(t) :
               p \in 1 .. Len(buf) \/ \E i \in 1 .. Len(e) : p = Len(buf) + i
      <4>1. buf \in Seq(Piece) /\ e \in Seq(Piece)
        BY <1>2, <1>3
      <4> QED
        BY <2>1, <4>1, Joined
    <3>2. Len(e) = 2
      BY <1>2
    <3> QED
      BY <3>1, <3>2, Zenon
  <2>3. \A p \in 1 .. Len(buf) : buf[p][1] \in call
    BY DEF RunOK
  <2> QED
    BY <1>1, <1>2, <2>2, <2>3
<1>5. T \in Seq(Piece) /\ h = T \o e
  <2>1. T \in Seq(Piece)
    BY <1>3, Joined
  <2>2. (file \o buf) \o e = file \o (buf \o e)
    BY <1>2, <1>3, Associative
  <2> QED
    BY <2>1, <2>2 DEF Taken, e
<1> HIDE DEF T, h, t
<1>6. /\ Len(T) \in Nat /\ Len(h) = Len(T) + 2
      /\ \A p \in 1 .. Len(T) : h[p] = T[p]
      /\ \A p \in 1 .. Len(h) : p \in 1 .. Len(T) \/ h[p][1] = r
  <2>1. /\ Len(T) \in Nat /\ Len(h) = Len(T) + 2
        /\ \A p \in 1 .. Len(T) : h[p] = T[p]
        /\ \A p \in 1 .. 2 : h[Len(T) + p] = e[p]
        /\ \A p \in 1 .. Len(h) : p \in 1 .. Len(T) \/ \E i \in 1 .. 2 : p = Len(T) + i
    <3>1. /\ Len(T) \in Nat /\ Len(h) = Len(T) + Len(e)
          /\ \A p \in 1 .. Len(T) : h[p] = T[p]
          /\ \A p \in 1 .. Len(e) : h[Len(T) + p] = e[p]
          /\ \A p \in 1 .. Len(h) : p \in 1 .. Len(T) \/ \E i \in 1 .. Len(e) : p = Len(T) + i
      <4>1. T \in Seq(Piece) /\ e \in Seq(Piece)
        BY <1>2, <1>5
      <4> QED
        BY <1>5, <4>1, Joined
    <3>2. Len(e) = 2
      BY <1>2
    <3> QED
      BY <3>1, <3>2, Zenon
  <2> QED
    BY <1>2, <2>1
<1>7. /\ \A p \in 1 .. Len(T) : T[p][1] \in Nat /\ T[p][1] < next /\ T[p][1] <= r
      /\ \A p \in 1 .. Len(T) : \A i \in 1 .. Len(todo) : T[p][1] <= todo[i]
      /\ \A p, q \in 1 .. Len(T) : p < q /\ T[p][1] \in call => T[p][1] <= T[q][1]
  <2>1. \A p \in 1 .. Len(T) : T[p][1] \in Nat
    BY <1>5, NumbersAreTyped
  <2> QED
    BY <1>1, <2>1 DEF RunOK, NumbersOK, Below, T, r
<1>8. \A p \in 1 .. Len(h) : h[p][1] \in Nat /\ h[p][1] <= r
  BY <1>1, <1>6, <1>7
<1>9. Below(h)
  BY <1>1, <1>6, <1>7 DEF Below
<1>10. \A p, q \in 1 .. Len(h) : q \notin 1 .. Len(T) => ~(h[q][1] < h[p][1])
  BY <1>1, <1>6, <1>8
<1>11. \A p, q \in 1 .. Len(h) : p < q /\ q \in 1 .. Len(T) => p \in 1 .. Len(T)
  BY <1>6
<1>12. InOrder(h)
  BY <1>6, <1>10, <1>11 DEF InOrder, T
<1>13. \A p, q \in 1 .. Len(h) : p < q /\ h[p][1] \in call => h[p][1] <= h[q][1]
  <2> SUFFICES ASSUME NEW p \in 1 .. Len(h), NEW q \in 1 .. Len(h), p < q, h[p][1] \in call
               PROVE  h[p][1] <= h[q][1]
    OBVIOUS
  <2>1. CASE q \in 1 .. Len(T)
    BY <1>6, <1>7, <1>11, <2>1
  <2>2. CASE q \notin 1 .. Len(T)
    BY <1>6, <1>8, <2>2
  <2> QED
    BY <2>1, <2>2
<1>14. \A p \in 1 .. Len(h) : \A i \in 1 .. Len(Tail(todo)) : h[p][1] <= Tail(todo)[i]
  <2> SUFFICES ASSUME NEW p \in 1 .. Len(h), NEW i \in 1 .. Len(Tail(todo))
               PROVE  h[p][1] <= Tail(todo)[i]
    OBVIOUS
  <2>1. i + 1 \in 1 .. Len(todo) /\ Tail(todo)[i] = todo[i + 1]
    BY <1>1
  <2>2. r <= todo[i + 1]
    <3> DEFINE j == i + 1
    <3>1. 1 \in 1 .. Len(todo) /\ j \in 1 .. Len(todo)
      BY <1>1, <2>1
    <3> HIDE DEF j
    <3>2. \A k \in 1 .. Len(todo) : todo[1] <= todo[k]
      BY <3>1 DEF TodoOK
    <3>3. r <= todo[j]
      BY <3>1, <3>2 DEF r
    <3> QED
      BY <3>3 DEF j
  <2>3. todo[i + 1] \in Nat
    <3>1. todo \in Seq(1 .. MaxRecords)
      BY <1>1
    <3>2. \A j \in 1 .. Len(todo) : todo[j] \in 1 .. MaxRecords
      BY <3>1, ElementOfSeq
    <3> QED
      BY <2>1, <3>2
  <2> QED
    BY <1>1, <1>8, <2>1, <2>2, <2>3
<1> QED
  BY <1>4, <1>9, <1>12, <1>13, <1>14 DEF h, t, r

LEMMA do_appendKeepsOrder ==
  ASSUME LogTypeOK, OrderOK, do_append
  PROVE  OrderOK'
<1> USE DEF OrderOK
<1>1. todo # <<>> /\ CanWrite
  BY DEF do_append, CanWrite
<1> DEFINE t == Taken(todo[1])
           h == file \o t
<1>2. /\ t \in Seq(Piece) /\ Len(t) = Len(buf) + 2
      /\ \A p \in 1 .. Len(t) : t[p][1] \in call
      /\ InOrder(h) /\ Below(h)
      /\ \A p, q \in 1 .. Len(h) : p < q /\ h[p][1] \in call => h[p][1] <= h[q][1]
      /\ \A p \in 1 .. Len(h) : \A i \in 1 .. Len(Tail(todo)) : h[p][1] <= Tail(todo)[i]
  BY <1>1, TakenIsInOrder
<1> HIDE DEF t
<1>3. CASE WriteFails(t)
  BY <1>2, <1>3, WriteFailsKeepsOrder
<1>4. CASE ~WriteFails(t)
  <2>1. PICK n \in 0 .. Len(t) : Spill(t, n) /\ buf' = SubSeq(t, n + 1, Len(t))
    BY <1>4 DEF do_append, t
  <2>2. /\ todo' = Tail(todo)
        /\ UNCHANGED <<disk, is_open, good, pc, call, next, acked>>
    BY <1>4 DEF do_append, t
  <2>3. file' \o buf' = h
    BY <1>2, <2>1, WhatSpills
  <2>4. InOrder(file \o buf)' /\ InOrder(disk)' /\ NumbersOK'
    BY <1>2, <2>2, <2>3 DEF InOrder, NumbersOK, Below
  <2>5. CallOK'
    BY <1>1, <2>2 DEF CallOK
  <2>6. TodoOK'
    <3>1. /\ Len(todo) \in Nat /\ Len(Tail(todo)) = Len(todo) - 1
          /\ \A i \in 1 .. Len(Tail(todo)) : Tail(todo)[i] = todo[i + 1]
      BY <1>1, HeadTailProperties DEF LogTypeOK
    <3>2. \A i \in 1 .. Len(Tail(todo)) : i + 1 \in 1 .. Len(todo)
      BY <3>1
    <3>3. \A i \in 1 .. Len(Tail(todo)) : \A j \in i .. Len(Tail(todo)) :
            j \in 1 .. Len(Tail(todo)) /\ j + 1 \in i + 1 .. Len(todo)
      BY <3>1
    <3> QED
      BY <2>2, <3>1, <3>2, <3>3 DEF TodoOK
  <2>7. RunOK'
    <3>1. \A p \in 1 .. Len(buf') : buf'[p][1] \in call
      <4>1. n \in Int /\ Len(t) \in Nat /\ n + 1 \in Int /\ \A i \in n + 1 .. Len(t) : t[i] \in Piece
        BY <1>2
      <4>2. /\ Len(buf') = (IF n + 1 <= Len(t) THEN Len(t) - (n + 1) + 1 ELSE 0)
            /\ \A i \in 1 .. Len(t) - (n + 1) + 1 : buf'[i] = t[n + 1 + i - 1]
        BY <2>1, <4>1, SubSeqProperties
      <4>3. \A i \in 1 .. Len(buf') : /\ i \in 1 .. Len(t) - (n + 1) + 1
                                      /\ n + 1 + i - 1 \in 1 .. Len(t)
        BY <4>1, <4>2
      <4> QED
        BY <1>2, <4>2, <4>3
    <3> QED
      BY <1>2, <2>2, <2>3, <3>1 DEF RunOK, CanWrite
  <2> QED
    BY <2>4, <2>5, <2>6, <2>7
<1> QED
  BY <1>3, <1>4

LEMMA flushKeepsOrder ==
  ASSUME LogTypeOK, OrderOK, flush
  PROVE  OrderOK'
<1> USE DEF OrderOK
<1>1. /\ CanWrite /\ todo = <<>> /\ pc = "write"
      /\ buf \in Seq(Piece) /\ Len(buf) \in Nat /\ file \in Seq(Piece)
  BY DEF flush, CanWrite, LogTypeOK
<1>2. CASE WriteFails(buf)
  <2>1. \A p \in 1 .. Len(buf) : buf[p][1] \in call
    BY <1>1 DEF RunOK
  <2>2. InOrder(file \o buf) /\ Below(file \o buf)
    BY DEF NumbersOK
  <2> QED
    BY <1>1, <1>2, <2>1, <2>2, WriteFailsKeepsOrder
<1>3. CASE ~WriteFails(buf)
  <2>1. /\ Spill(buf, Len(buf)) /\ buf' = <<>> /\ pc' = "fsync"
        /\ UNCHANGED <<disk, is_open, good, todo, call, next, acked>>
    BY <1>3 DEF flush
  <2>2. file' \o buf' = file \o buf
    <3>1. Len(buf) \in 0 .. Len(buf) /\ Len(buf) - Len(buf) = 0
      BY <1>1
    <3>2. /\ file' \in Seq(Piece)
          /\ SubSeq(buf, Len(buf) + 1, Len(buf)) \in Seq(Piece)
          /\ Len(SubSeq(buf, Len(buf) + 1, Len(buf))) = 0
          /\ file' \o SubSeq(buf, Len(buf) + 1, Len(buf)) = file \o buf
      BY <1>1, <2>1, <3>1, WhatSpills
    <3>3. SubSeq(buf, Len(buf) + 1, Len(buf)) = <<>>
      BY <3>2, EmptySeq
    <3> QED
      BY <2>1, <3>2, <3>3
  <2>3. InOrder(file \o buf)' /\ InOrder(disk)' /\ NumbersOK'
    BY <2>1, <2>2 DEF InOrder, NumbersOK, Below
  <2>4. CallOK' /\ TodoOK'
    BY <1>1, <2>1 DEF CallOK, TodoOK
  <2>5. RunOK'
    <3>1. Len(buf') = 0
      BY <2>1
    <3> DEFINE T == file \o buf
    <3>2. /\ \A p, q \in 1 .. Len(T) : p < q /\ T[p][1] \in call => T[p][1] <= T[q][1]
          /\ \A p \in 1 .. Len(T) : \A i \in 1 .. Len(todo) : T[p][1] <= todo[i]
      BY <1>1 DEF RunOK
    <3>3. T' = T
      BY <2>2
    <3> HIDE DEF T
    <3>4. \A p \in 1 .. Len(buf') : buf'[p][1] \in call'
      BY <3>1
    <3>5. /\ \A p, q \in 1 .. Len(T') : p < q /\ T'[p][1] \in call' => T'[p][1] <= T'[q][1]
          /\ \A p \in 1 .. Len(T') : \A i \in 1 .. Len(todo') : T'[p][1] <= todo'[i]
      BY <2>1, <3>2, <3>3
    <3> QED
      BY <3>4, <3>5 DEF RunOK, T
  <2> QED
    BY <2>3, <2>4, <2>5
<1> QED
  BY <1>2, <1>3

\* Nothing that is out of place lies across the records that fsync() puts on
\* the disk.
LEMMA fsyncKeepsOrder ==
  ASSUME LogInv, LogTypeOK', OrderOK, NEW fails \in BOOLEAN, fsync(fails)
  PROVE  OrderOK'
<1>1. /\ pc = "fsync" /\ CanWrite /\ buf = <<>> /\ todo = <<>>
      /\ pc' = "idle" /\ todo' = <<>> /\ call' = {}
      /\ UNCHANGED <<file, buf, is_open, good, next>>
  BY DEF fsync, LogInv, FileOK, Return, stream
<1>2. /\ file \in Seq(Piece) /\ disk \in Seq(Piece) /\ file \o buf = file
      /\ acked \subseteq Nat /\ call \subseteq Nat
  BY <1>1, EmptyBuffer DEF LogInv, LogTypeOK
<1>3. CASE fails
  <2>1. UNCHANGED <<disk, acked>>
    BY <1>3 DEF fsync
  <2>2. StartsWith(file \o buf, file' \o buf')
    BY <1>1, <1>2, StartsWithItself
  <2> QED
    BY <1>1, <2>1, <2>2, QuietKeepsOrder DEF LogInv
<1>4. CASE ~fails
  <2>1. disk' = file /\ acked' \subseteq acked \union call
    BY <1>4 DEF fsync, Synced
  <2>2. InOrder(file)'
    <3> SUFFICES ASSUME NEW p \in 1 .. Len(file), NEW q \in 1 .. Len(file), p < q,
                        file[q][1] < file[p][1],
                        NEW c \in call, c \in file[q][1] .. file[p][1]
                 PROVE  FALSE
      BY <1>1, <1>2, <2>1 DEF OrderOK, InOrder
    <3>1. file[p][1] \in Nat /\ file[q][1] \in Nat
      BY <1>2, NumbersAreTyped
    <3>2. file[p][1] < next
      BY <1>2 DEF OrderOK, NumbersOK, Below
    <3>3. file[p][1] \in c .. next - 1
      <4>1. next \in Int
        BY DEF LogInv, LogTypeOK
      <4>2. c \in Nat /\ c <= file[p][1]
        BY <1>2, <3>1
      <4> QED
        BY <3>1, <3>2, <4>1, <4>2
    <3>4. file[p][1] \in call
      BY <3>3 DEF OrderOK, CallOK
    <3>5. file[p][1] <= file[q][1]
      BY <1>1, <1>2, <3>4 DEF OrderOK, RunOK
    <3> QED
      BY <3>1, <3>5
  <2>3. InOrder(file \o buf)' /\ InOrder(disk)'
    BY <1>1, <1>2, <2>1, <2>2 DEF InOrder
  <2>4. NumbersOK'
    BY <1>1, <1>2, <2>1 DEF OrderOK, NumbersOK, CallOK, Below
  <2>5. CallOK' /\ TodoOK' /\ RunOK'
    <3>1. Len(buf) = 0 /\ Len(todo') = 0
      BY <1>1
    <3> QED
      BY <1>1, <3>1 DEF CallOK, TodoOK, RunOK
  <2> QED
    BY <2>3, <2>4, <2>5 DEF OrderOK
<1> QED
  BY <1>3, <1>4

LEMMA SurvivorsInOrder ==
  ASSUME LogTypeOK, OrderOK, NEW f \in Survivors
  PROVE  f \in Seq(Piece) /\ InOrder(f) /\ Below(f)
<1>1. disk \in Seq(Piece) /\ file \in Seq(Piece) /\ buf \in Seq(Piece) /\ Len(file) \in Nat
  BY DEF LogTypeOK
<1>2. CASE f = disk
  BY <1>1, <1>2 DEF OrderOK, NumbersOK
<1>3. CASE f # disk
  <2>1. PICK n \in 0 .. Len(file) : f = SubSeq(file, 1, n)
    <3>1. Len(disk) \in Nat
      BY <1>1
    <3> QED
      BY <1>3, <3>1 DEF Survivors
  <2>2. \A i \in 1 .. n : file[i] \in Piece
    BY <1>1
  <2>3. /\ f \in Seq(Piece) /\ Len(f) = (IF 1 <= n THEN n - 1 + 1 ELSE 0)
        /\ \A i \in 1 .. n - 1 + 1 : f[i] = file[1 + i - 1]
    BY <2>1, <2>2, SubSeqProperties
  <2>4. /\ (IF 1 <= n THEN n - 1 + 1 ELSE 0) = n
        /\ \A i \in 1 .. n : i \in 1 .. n - 1 + 1 /\ 1 + i - 1 = i
    OBVIOUS
  <2>5. StartsWith(file, f)
    BY <1>1, <2>3, <2>4 DEF StartsWith
  <2>6. file \o buf \in Seq(Piece) /\ StartsWith(file \o buf, file)
    BY <1>1, Joined
  <2>7. StartsWith(file \o buf, f)
    BY <1>1, <2>3, <2>5, <2>6, StartsWithTransitive
  <2> QED
    BY <2>3, <2>6, <2>7, PrefixInOrder DEF OrderOK, NumbersOK
<1> QED
  BY <1>2, <1>3

LEMMA PowerFailsKeepsOrder ==
  ASSUME LogTypeOK, LogTypeOK', OrderOK, PowerFails
  PROVE  OrderOK'
<1>1. /\ todo' = <<>> /\ call' = {} /\ is_open' = FALSE /\ buf' = <<>>
      /\ file' \in Survivors /\ disk' = file' /\ UNCHANGED <<next, acked>>
  BY DEF PowerFails, GoesDown
<1>2. InOrder(file') /\ Below(file') /\ file' \o buf' = file'
  BY <1>1, SurvivorsInOrder, EmptyBuffer
<1>3. InOrder(file \o buf)' /\ InOrder(disk)'
  BY <1>1, <1>2 DEF InOrder
<1>4. NumbersOK'
  BY <1>1, <1>2 DEF OrderOK, NumbersOK, Below
<1>5. CallOK' /\ TodoOK' /\ RunOK'
  BY <1>1 DEF CallOK, TodoOK, RunOK, CanWrite
<1> QED
  BY <1>3, <1>4, <1>5 DEF OrderOK

\* close() writes a part of what the buffer holds, and drops it.
LEMMA CloseShortens ==
  ASSUME LogTypeOK, close
  PROVE  StartsWith(file \o buf, file' \o buf') /\ buf' = <<>>
<1>1. /\ buf \in Seq(Piece) /\ file \in Seq(Piece) /\ Len(buf) \in 0 .. Len(buf)
      /\ buf' = <<>>
  BY DEF LogTypeOK, close, Dropped
<1>2. PICK n \in 0 .. Len(buf) : Spill(buf, n)
  BY <1>1 DEF close
<1> DEFINE rest == SubSeq(buf, n + 1, Len(buf))
<1>3. file' \in Seq(Piece) /\ rest \in Seq(Piece) /\ file' \o rest = file \o buf
  BY <1>1, <1>2, WhatSpills
<1> HIDE DEF rest
<1>4. StartsWith(file' \o rest, file')
  BY <1>3, Joined
<1>5. file' \o buf' = file'
  BY <1>1, <1>3, EmptyBuffer
<1> QED
  BY <1>1, <1>3, <1>4, <1>5

LEMMA OrderInit == Init => OrderOK
<1> SUFFICES ASSUME Init
             PROVE  OrderOK
  OBVIOUS
<1>1. Len(file \o buf) = 0 /\ Len(disk) = 0 /\ Len(todo) = 0
  BY DEF Init
<1> QED
  BY <1>1 DEF Init, OrderOK, InOrder, NumbersOK, Below, CallOK, TodoOK, RunOK, CanWrite

LEMMA OrderStep ==
  ASSUME LogInv, LogInv', OrderOK, [Next]_vars
  PROVE  OrderOK'
<1>1. LogTypeOK /\ LogTypeOK' /\ file \o buf \in Seq(Piece) /\ file \in Seq(Piece)
  BY DEF LogInv, LogTypeOK
<1>2. CASE UNCHANGED vars
  BY <1>2 DEF vars, stream, OrderOK, InOrder, NumbersOK, Below, CallOK, TodoOK, RunOK, CanWrite
<1>3. CASE Construct \/ Refuse \/ Reopen
  <2>1. /\ UNCHANGED <<file, buf, disk, next, acked>> /\ call' = {} /\ todo' = <<>>
        /\ CanWrite' => buf' = <<>>
    <3>1. CASE Construct
      <4>1. ~is_open /\ pc = "down"
        BY <3>1 DEF Construct, LogInv, FileOK
      <4>2. buf = <<>> /\ call = {} /\ todo = <<>>
        BY <4>1 DEF LogInv, LogTypeOK, OrderOK, CallOK
      <4> QED
        BY <3>1, <4>2 DEF Construct
    <3>2. CASE Refuse
      BY <3>2 DEF Refuse, Return, stream, CanWrite
    <3>3. CASE Reopen
      <4>1. ~is_open /\ pc = "reopen"
        BY <3>3 DEF Reopen, LogInv, FileOK
      <4>2. buf = <<>> /\ call = {} /\ todo = <<>>
        BY <4>1 DEF LogInv, LogTypeOK, OrderOK, CallOK
      <4> QED
        BY <3>3, <4>2 DEF Reopen
    <3> QED
      BY <1>3, <3>1, <3>2, <3>3
  <2>2. StartsWith(file \o buf, file' \o buf')
    BY <1>1, <2>1, StartsWithItself
  <2> QED
    BY <1>1, <2>1, <2>2, QuietKeepsOrder
<1>4. CASE clear \/ Destruct
  <2>1. close /\ pc = "idle" /\ UNCHANGED <<disk, next, call, todo>> /\ acked' \in {acked, {}}
    BY <1>4 DEF clear, Destruct
  <2>2. call' = {} /\ todo' = <<>>
    BY <2>1 DEF OrderOK, CallOK
  <2> QED
    BY <1>1, <2>1, <2>2, CloseShortens, QuietKeepsOrder
<1>5. CASE Truncate
  <2>1. /\ ~is_open /\ pc = "truncate" /\ file' \in {file, <<>>}
        /\ UNCHANGED <<disk, buf, is_open, good, next, acked, call, todo>>
    BY <1>5 DEF Truncate, Fails, LogInv, FileOK, stream
  <2>2. buf = <<>> /\ call = {} /\ todo = <<>>
    BY <2>1 DEF LogInv, LogTypeOK, OrderOK, CallOK
  <2>3. StartsWith(file \o buf, file' \o buf')
    <3>1. CASE file' = file
      BY <1>1, <2>1, <3>1, StartsWithItself
    <3>2. CASE file' = <<>>
      BY <1>1, <2>1, <2>2, <3>2 DEF StartsWith
    <3> QED
      BY <2>1, <3>1, <3>2
  <2> QED
    BY <1>1, <2>1, <2>2, <2>3, QuietKeepsOrder
<1>6. CASE Crash
  <2>1. /\ call' = {} /\ todo' = <<>> /\ buf' = <<>> /\ UNCHANGED <<file, disk, next, acked>>
    BY <1>6 DEF Crash, GoesDown
  <2>2. file' \o buf' = file /\ StartsWith(file \o buf, file)
    BY <1>1, <2>1, EmptyBuffer, Joined DEF LogTypeOK
  <2> QED
    BY <1>1, <2>1, <2>2, QuietKeepsOrder
<1>7. CASE PowerFails
  BY <1>1, <1>7, PowerFailsKeepsOrder
<1>8. CASE \E n \in 0 .. MaxBatch : append(n)
  BY <1>1, <1>8, AppendKeepsOrder, LogParametersAreSane
<1>9. CASE \E fails \in BOOLEAN : fsync(fails)
  BY <1>1, <1>9, fsyncKeepsOrder
<1>10. CASE do_append \/ flush
  BY <1>1, <1>10, do_appendKeepsOrder, flushKeepsOrder
<1> QED
  BY <1>2, <1>3, <1>4, <1>5, <1>6, <1>7, <1>8, <1>9, <1>10 DEF Next, Work

\* What is in order is read in order.
LEMMA OrderIsRead == ASSUME LogInv, OrderOK PROVE ReadInOrder
<1> SUFFICES ASSUME NEW f \in Survivors,
                    NEW i \in DOMAIN read_all(f), NEW j \in DOMAIN read_all(f),
                    i < j, read_all(f)[j] < read_all(f)[i]
             PROVE  acked \intersect (read_all(f)[j] .. read_all(f)[i]) = {}
  BY DEF ReadInOrder
<1>1. f \in Seq(Piece) /\ InOrder(f)
  BY SurvivorsInOrder DEF LogInv
<1>2. Readable(f) \in Nat /\ Len(f) \in Nat /\ \A n \in 1 .. Readable(f) : 2 * n <= Len(f)
  BY <1>1, ReadableIsGreatest DEF IsRecord
<1>3. /\ DOMAIN read_all(f) = 1 .. Readable(f)
      /\ \A n \in 1 .. Readable(f) : read_all(f)[n] = f[2 * n - 1][1]
  BY DEF read_all
<1> DEFINE p == 2 * i - 1
           q == 2 * j - 1
<1>4. p \in 1 .. Len(f) /\ q \in 1 .. Len(f) /\ p < q
  BY <1>2, <1>3
<1>5. read_all(f)[i] = f[p][1] /\ read_all(f)[j] = f[q][1]
  BY <1>3
<1> HIDE DEF p, q
<1> QED
  BY <1>1, <1>4, <1>5 DEF InOrder

-----------------------------------------------------------------------------
(***************************************************************************)
(* The log and the tables.                                                 *)
(***************************************************************************)

KeptOK ==
  /\ acked \subseteq kept
  /\ kept \subseteq acked \union tables \union lost
  /\ MemtableHoldsTheLog

FlushedInv == LogInv /\ KeptOK

\* Every step of the log with its tables is a step of the log, or leaves it.
LEMMA FlushedStepIsLogStep ==
  ASSUME [FlushedNext]_flushedVars
  PROVE  [Next]_vars
BY DEF FlushedNext, flushedVars, Start, Put, WriteTable, WriteBack, Stop, PowerFailure, Next, Work

LEMMA FlushedInitKeeps == FlushedInit => FlushedInv
BY LogInit DEF FlushedInit, FlushedInv, KeptOK, MemtableHoldsTheLog, Init

LEMMA WorkAcks == ASSUME Work PROVE acked' = acked /\ pc # "down" /\ pc' # "down"
BY DEF Work, do_append, flush, Refuse, Truncate, Reopen, WriteFails, Return

LEMMA FlushedStep == ASSUME FlushedInv, [FlushedNext]_flushedVars PROVE FlushedInv'
<1> USE DEF FlushedInv
<1>1. LogInv'
  BY FlushedStepIsLogStep, LogStep
<1> SUFFICES KeptOK'
  BY <1>1
<1>2. CASE UNCHANGED flushedVars
  BY <1>2 DEF flushedVars, vars, KeptOK, MemtableHoldsTheLog
<1>3. CASE Start
  <2>1. /\ acked' = acked /\ file' = file /\ mem' = Read(file)
        /\ UNCHANGED <<tables, synced, lost, kept>>
    BY <1>3 DEF Start, Construct, Recovered, TablesStay
  <2>2. acked \subseteq Read(file)
    <3>1. acked # {} => StartsWith(file, disk)
      BY DEF LogInv, AckedOK
    <3> QED
      BY <3>1, ReadGrows DEF LogInv, AckedOK, LogTypeOK
  <2> QED
    BY <2>1, <2>2 DEF KeptOK, MemtableHoldsTheLog
<1>4. CASE Put
  <2>1. kept' = kept \union acked' /\ UNCHANGED <<tables, synced, lost>>
    BY <1>4 DEF Put, TablesStay
  <2>2. CASE (Work \/ \E n \in 0 .. MaxBatch : append(n)) /\ UNCHANGED mem
    <3>1. acked' = acked /\ pc # "down"
      BY <2>2, WorkAcks DEF append
    <3> QED
      BY <2>1, <2>2, <3>1 DEF KeptOK, MemtableHoldsTheLog
  <2>3. CASE fsync(TRUE) /\ UNCHANGED mem
    <3>1. acked' = acked /\ pc # "down"
      BY <2>3 DEF fsync
    <3> QED
      BY <2>1, <2>3, <3>1 DEF KeptOK, MemtableHoldsTheLog
  <2>4. CASE fsync(FALSE) /\ mem' = mem \union call
    <3>1. pc # "down" /\ acked \subseteq acked' /\ acked' \subseteq acked \union call
      BY <2>4 DEF fsync
    <3> QED
      BY <2>1, <2>4, <3>1 DEF KeptOK, MemtableHoldsTheLog
  <2> QED
    BY <1>4, <2>2, <2>3, <2>4 DEF Put
<1>5. CASE WriteTable
  <2>1. /\ pc # "down" /\ tables' = tables \union mem /\ UNCHANGED <<kept, lost>>
        /\ acked' = {} \/ acked' = acked
    BY <1>5 DEF WriteTable, TableOf, clear, Crash
  <2> QED
    BY <2>1 DEF KeptOK, MemtableHoldsTheLog
<1>6. CASE WriteBack
  BY <1>6 DEF WriteBack, vars, KeptOK, MemtableHoldsTheLog
<1>7. CASE Stop
  <2>1. /\ pc' = "down" /\ acked' = acked
        /\ UNCHANGED <<tables, lost, kept>>
    BY <1>7 DEF Stop, Destruct, Crash, GoesDown, TablesStay
  <2> QED
    BY <2>1 DEF KeptOK, MemtableHoldsTheLog
<1>8. CASE PowerFailure
  <2>1. /\ pc' = "down" /\ acked' = acked /\ kept' = kept
        /\ tables \union lost \subseteq tables' \union lost' \union acked
    BY <1>8 DEF PowerFailure, PowerFails, GoesDown
  <2> QED
    BY <2>1 DEF KeptOK, MemtableHoldsTheLog
<1> QED
  BY <1>2, <1>3, <1>4, <1>5, <1>6, <1>7, <1>8 DEF FlushedNext

THEOREM FlushedInvariant == FlushedSpec => []FlushedInv
BY FlushedInitKeeps, FlushedStep, PTL DEF FlushedSpec

-----------------------------------------------------------------------------
(***************************************************************************)
(* What the invariant says.                                                *)
(***************************************************************************)

\* The variables of the log always have their types.
THEOREM LogTypeIsRight == FlushedSpec => []LogTypeOK
<1>1. FlushedInv => LogTypeOK
  BY DEF FlushedInv, LogInv
<1> QED
  BY <1>1, FlushedInvariant, PTL

\* A record that append() has reported as written is read back by read_all()
\* after a crash at any point and after a power failure, until clear().
THEOREM AckedIsAlwaysRead == FlushedSpec => []AckedIsRead
<1>1. FlushedInv => AckedIsRead
  BY SurvivorsHoldAcked DEF FlushedInv, AckedIsRead
<1> QED
  BY <1>1, FlushedInvariant, PTL

\* Whatever has failed, recovery reads no record after a later one if either,
\* or any between them, is acknowledged.
THEOREM ReadIsAlwaysInOrder == FlushedSpec => []ReadInOrder
<1>1. FlushedInit => FlushedInv /\ OrderOK
  BY FlushedInitKeeps, OrderInit DEF FlushedInit
<1>2. FlushedInv /\ OrderOK /\ [FlushedNext]_flushedVars => (FlushedInv /\ OrderOK)'
  <2> SUFFICES ASSUME FlushedInv, OrderOK, [FlushedNext]_flushedVars
               PROVE  FlushedInv' /\ OrderOK'
    OBVIOUS
  <2>1. FlushedInv'
    BY FlushedStep
  <2>2. [Next]_vars
    BY FlushedStepIsLogStep
  <2> QED
    BY <2>1, <2>2, OrderStep DEF FlushedInv
<1>3. FlushedInv /\ OrderOK => ReadInOrder
  BY OrderIsRead DEF FlushedInv
<1> QED
  BY <1>1, <1>2, <1>3, PTL DEF FlushedSpec

\* size() never counts more than has been written.
THEOREM SizeIsAlwaysAtMostFile == FlushedSpec => []SizeIsAtMostFile
<1>1. FlushedInv => SizeIsAtMostFile
  BY DEF FlushedInv, LogInv, SizeOK, SizeIsAtMostFile
<1> QED
  BY <1>1, FlushedInvariant, PTL

\* With the tables that flush_immutable writes, nothing acknowledged is lost
\* but what was in a table file that had not reached the disk.
THEOREM OnlyUnsyncedTablesAreEverLost == FlushedSpec => []OnlyUnsyncedTablesAreLost
<1>1. FlushedInv => OnlyUnsyncedTablesAreLost
  <2> SUFFICES ASSUME FlushedInv, NEW f \in Survivors
               PROVE  kept \subseteq Read(f) \union tables \union lost
    BY DEF OnlyUnsyncedTablesAreLost
  <2>1. acked \subseteq Read(f)
    BY SurvivorsHoldAcked DEF FlushedInv
  <2> QED
    BY <2>1 DEF FlushedInv, KeptOK
<1> QED
  BY <1>1, FlushedInvariant, PTL

\* Recovery leaves no acknowledged record out of the memtable that is in no
\* table.
THEOREM MemtableAlwaysHoldsTheLog == FlushedSpec => []MemtableHoldsTheLog
<1>1. FlushedInv => MemtableHoldsTheLog
  BY DEF FlushedInv, KeptOK
<1> QED
  BY <1>1, FlushedInvariant, PTL
=============================================================================
