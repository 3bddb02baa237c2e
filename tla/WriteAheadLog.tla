--------------------------- MODULE WriteAheadLog ---------------------------
(***************************************************************************)
(* The write-ahead log below the level of records: the buffer of the       *)
(* output stream, the file as the operating system holds it, and what of   *)
(* it has reached the disk.                                                *)
(*                                                                         *)
(* A record is written in two pieces, so that a cut can fall inside it;    *)
(* the records are numbered in the order in which they are handed over.    *)
(* `pc' names what comes next:                                             *)
(*                                                                         *)
(*   idle      no call is running                                          *)
(*   write     append() hands the next record to the stream, or flushes it *)
(*   fsync     sync() is about to call fsync                               *)
(*   truncate  clear() has closed the stream                               *)
(*   reopen    clear() has truncated the file                              *)
(*   down      the process is not running                                  *)
(***************************************************************************)
EXTENDS Integers, Sequences, FiniteSets, SequencesExt, FiniteSetsExt

CONSTANTS
  MaxBatch,    \* bound: records of one call of append
  MaxRecords,  \* bound: records of all calls
  MaxStops,    \* bound: how often the process stops
  Faults       \* the faults that may occur

ASSUME LogParametersAreSane ==
  /\ MaxBatch \in Nat /\ MaxRecords \in Nat /\ MaxStops \in Nat
  /\ Faults \subseteq {"write", "fsync", "open", "crash", "power"}

VARIABLES
  file,          \* the file as every process sees it
  disk,          \* what of it the last successful fsync has put on the disk
  buf,           \* what the stream has taken and not written
  is_open,       \* file_.is_open()
  good,          \* file_.good()
  current_size_, \* in pieces
  pc,
  todo,          \* the records append() has still to hand to the stream
  call,          \* the records of the running append()
  next,          \* the number of the next record
  whole,         \* read_all() reads to the end of the file that was opened
  acked,         \* records appended with success while `whole' was true
  stops          \* how often the process has stopped

stream == <<buf, is_open, good, current_size_>>
vars == <<file, disk, stream, pc, todo, call, next, whole, acked, stops>>

Piece == (1 .. MaxRecords) \X {1, 2}

\* The length and the checksum, and the entry they are about.
Encoded(r) == <<<<r, 1>>, <<r, 2>>>>

-----------------------------------------------------------------------------
(***************************************************************************)
(* Reading.  A record that is cut short shifts the reader into the next    *)
(* one, where the checksum ends the reading.                               *)
(***************************************************************************)

IsRecord(f, i) ==
  /\ 2 * i <= Len(f)
  /\ f[2 * i - 1][2] = 1
  /\ f[2 * i] = <<f[2 * i - 1][1], 2>>

\* How many records are read.
Readable(f) == Max({0} \union {n \in 1 .. Len(f) : \A i \in 1 .. n : IsRecord(f, i)})

read_all(f) == [i \in 1 .. Readable(f) |-> f[2 * i - 1][1]]

Read(f) == Range(read_all(f))

IsWhole(f) == 2 * Readable(f) = Len(f)

-----------------------------------------------------------------------------
Init ==
  /\ file = <<>> /\ disk = <<>> /\ buf = <<>>
  /\ is_open = FALSE /\ good = FALSE /\ current_size_ = 0
  /\ pc = "down" /\ todo = <<>> /\ call = {} /\ next = 1
  /\ whole = TRUE /\ acked = {} /\ stops = 0

\* Whether a fault of kind f happens: never if it is not among Faults.
Fails(f) == IF f \in Faults THEN BOOLEAN ELSE {FALSE}

\* The constructor opens the file at its end.
Construct ==
  /\ pc = "down"
  /\ \E fails \in Fails("open") :
       /\ is_open' = ~fails /\ good' = ~fails
       /\ current_size_' = IF fails THEN 0 ELSE Len(file)
  /\ pc' = "idle" /\ whole' = IsWhole(file)
  /\ UNCHANGED <<file, disk, buf, todo, call, next, acked, stops>>

\* Faulty variant: the last one first.
BatchReversed(n) == [i \in 1 .. n |-> next + n - i]

\* The n records of one call.
Batch(n) == [i \in 1 .. n |-> next + i - 1]

\* Both kinds of append: one record, or a list of them with one sync.
append(n) ==
  /\ pc = "idle" /\ next + n <= MaxRecords + 1
  /\ call' = next .. next + n - 1
  /\ todo' = Batch(n)
  /\ next' = next + n
  /\ pc' = "write"
  /\ UNCHANGED <<file, disk, stream, whole, acked, stops>>

Return == pc' = "idle" /\ todo' = <<>> /\ call' = {}

\* The stream writes the first n pieces of what it has taken.
Spill(taken, n) == file' = file \o SubSeq(taken, 1, n)

\* Faulty variant: the state of the stream is not looked at.
StaysGood == good' = TRUE

GoesBad == good' = FALSE

\* A write that fails leaves part of the data in the file, all of it in the
\* buffer, and the stream bad; nothing is written to a bad stream.
WriteFails(taken) ==
  /\ "write" \in Faults
  /\ \E n \in 0 .. Len(taken) - 1 : Spill(taken, n)
  /\ buf' = taken /\ GoesBad
  /\ Return
  /\ UNCHANGED <<disk, is_open, current_size_, next, whole, acked, stops>>

\* Faulty variant: a record is written without its second piece.
TakenCutShort(r) == Append(buf, <<r, 1>>)

Taken(r) == buf \o Encoded(r)

\* The stream takes the record; it may write any part of its buffer.
do_append ==
  /\ pc = "write" /\ todo # <<>> /\ is_open /\ good
  /\ LET taken == Taken(todo[1])
     IN \/ /\ \E n \in 0 .. Len(taken) :
                Spill(taken, n) /\ buf' = SubSeq(taken, n + 1, Len(taken))
           /\ current_size_' = current_size_ + Len(Encoded(todo[1]))
           /\ todo' = Tail(todo)
           /\ UNCHANGED <<disk, is_open, good, pc, call, next, whole, acked, stops>>
        \/ WriteFails(taken)

\* The first half of sync(): flush the stream.
flush ==
  /\ pc = "write" /\ todo = <<>> /\ is_open /\ good
  /\ \/ /\ Spill(buf, Len(buf)) /\ buf' = <<>> /\ pc' = "fsync"
        /\ UNCHANGED <<disk, is_open, good, current_size_, todo, call, next,
                       whole, acked, stops>>
     \/ WriteFails(buf)

\* do_append() and sync() refuse a closed and a bad stream.
Refuse ==
  /\ pc = "write" /\ ~(is_open /\ good)
  /\ Return
  /\ UNCHANGED <<file, disk, stream, next, whole, acked, stops>>

\* Faulty variant: fsync is not called.
NotSynced == UNCHANGED disk

Synced == disk' = file

\* The second half of sync().  A failure is reported, the stream stays good.
fsync(fails) ==
  /\ pc = "fsync" /\ fails \in Fails("fsync")
  /\ \/ fails /\ UNCHANGED <<disk, acked>>
     \/ ~fails /\ Synced /\ acked' = IF whole THEN acked \union call ELSE acked
  /\ Return
  /\ UNCHANGED <<file, stream, next, whole, stops>>

-----------------------------------------------------------------------------
\* Faulty variant: the next stream writes the data once more.
NotDropped == UNCHANGED buf

Dropped == buf' = <<>>

\* close(): an open stream writes what it holds, also one that is bad.
close ==
  /\ \/ Spill(buf, Len(buf))
     \/ "write" \in Faults /\ \E n \in 0 .. Len(buf) : Spill(buf, n)
  /\ Dropped /\ is_open' = FALSE
  /\ UNCHANGED good

\* The caller of clear() needs the records no more.
clear ==
  /\ pc = "idle"
  /\ close
  /\ pc' = "truncate" /\ acked' = {}
  /\ UNCHANGED <<disk, current_size_, todo, call, next, whole, stops>>

\* The file is opened for truncation, without a sync.
Truncate ==
  /\ pc = "truncate"
  /\ \E fails \in Fails("open") : file' = IF fails THEN file ELSE <<>>
  /\ pc' = "reopen"
  /\ UNCHANGED <<disk, stream, todo, call, next, whole, acked, stops>>

\* Faulty variant: the size is not reset.
SizeKept == UNCHANGED current_size_

SizeReset == current_size_' = 0

\* open() makes the stream good again.
Reopen ==
  /\ pc = "reopen"
  /\ \E fails \in Fails("open") : is_open' = ~fails /\ good' = ~fails
  /\ SizeReset
  /\ pc' = "idle" /\ whole' = IsWhole(file)
  /\ UNCHANGED <<file, disk, buf, todo, call, next, acked, stops>>

-----------------------------------------------------------------------------
GoesDown ==
  /\ stops < MaxStops /\ stops' = stops + 1
  /\ pc' = "down" /\ todo' = <<>> /\ call' = {}
  /\ is_open' = FALSE /\ good' = FALSE

\* The destructor.
Destruct ==
  /\ pc = "idle"
  /\ close
  /\ stops < MaxStops /\ stops' = stops + 1
  /\ pc' = "down"
  /\ UNCHANGED <<disk, current_size_, todo, call, next, whole, acked>>

\* The process dies: what the operating system has taken stays.
Crash ==
  /\ "crash" \in Faults /\ pc # "down" /\ GoesDown
  /\ buf' = <<>>
  /\ UNCHANGED <<file, disk, current_size_, next, whole, acked>>

\* What a power failure may leave: the file as it was synced, or with more of
\* what was written since; a truncation and all that followed may be undone.
Survivors ==
  LET least == IF IsPrefix(disk, file) THEN Len(disk) ELSE 0
  IN  {disk} \union {SubSeq(file, 1, n) : n \in least .. Len(file)}

\* The machine loses its power, running or stopped.
PowerFails ==
  /\ "power" \in Faults /\ GoesDown
  /\ file' \in Survivors /\ disk' = file'
  /\ buf' = <<>>
  /\ UNCHANGED <<current_size_, next, whole, acked>>

\* The steps of a running call, but for the fsync that ends an append.
Work == do_append \/ flush \/ Refuse \/ Truncate \/ Reopen

Next ==
  \/ Construct \/ clear \/ Work \/ Destruct \/ Crash \/ PowerFails
  \/ \E n \in 0 .. MaxBatch : append(n)
  \/ \E fails \in BOOLEAN : fsync(fails)

Spec == Init /\ [][Next]_vars

-----------------------------------------------------------------------------
\* Every variable has its type; a stream holds data only while it is open.
LogTypeOK ==
  /\ file \in Seq(Piece) /\ disk \in Seq(Piece) /\ buf \in Seq(Piece)
  /\ is_open \in BOOLEAN /\ good \in BOOLEAN
  /\ current_size_ \in Nat
  /\ pc \in {"idle", "write", "fsync", "truncate", "reopen", "down"}
  /\ todo \in Seq(1 .. MaxRecords) /\ call \subseteq 1 .. MaxRecords
  /\ next \in 1 .. MaxRecords + 1
  /\ whole \in BOOLEAN /\ acked \subseteq 1 .. MaxRecords
  /\ stops \in 0 .. MaxStops
  /\ ~is_open => buf = <<>>

\* A record that was appended with success is found by read_all() after the
\* death of the process and after a power failure, whatever write, sync or
\* open has failed before or since, until clear() is called.  (Not so if the
\* log was opened with a torn end: all that is appended there is unreadable.)
AckedIsRead == \A f \in Survivors : acked \subseteq Read(f)

\* Recovery applies records in the order in which they were appended.  A stream
\* that went bad writes its buffer a second time on close(), and a record may
\* be read once more after later ones: only such as lie with them in a call
\* that has failed, never an acknowledged one, nor any across one.
ReadInOrder ==
  \A f \in Survivors : \A i, j \in DOMAIN read_all(f) :
    i < j /\ read_all(f)[j] < read_all(f)[i]
      => acked \intersect (read_all(f)[j] .. read_all(f)[i]) = {}

\* size() never counts data that is neither in the file nor in the buffer.
SizeIsAtMostFile == pc = "idle" /\ is_open => current_size_ <= Len(file) + Len(buf)
=============================================================================
