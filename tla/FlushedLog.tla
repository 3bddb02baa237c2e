----------------------------- MODULE FlushedLog -----------------------------
(***************************************************************************)
(* The write-ahead log together with the table files that replace it.      *)
(*                                                                         *)
(* The store keeps in its memtable what the log holds.  A flush writes the *)
(* memtable to a table file and clears the log.  A table file is closed,   *)
(* but never synced: the operating system writes it to the disk when it    *)
(* pleases, and the log may be gone before.  Tables are sets of records    *)
(* here; KVStore models what becomes of them, and flushes that fail.       *)
(***************************************************************************)
EXTENDS WriteAheadLog

VARIABLES
  mem,     \* the records in the memtable
  tables,  \* the records in table files, as every process sees them
  synced,  \* the records of tables that the disk holds
  kept,    \* all that were ever in acked
  lost     \* the records that power failures took with tables, and the log had dropped

flushedVars == <<vars, mem, tables, synced, kept, lost>>

FlushedInit ==
  /\ Init
  /\ mem = {} /\ tables = {} /\ synced = {} /\ kept = {} /\ lost = {}

TablesStay == UNCHANGED <<tables, synced, lost>>

\* Faulty variant: what the log held before the start is not applied.
NotRecovered == mem' = {}

Recovered == mem' = Read(file)

\* The store constructs its log and applies what it reads there.
Start == Construct /\ Recovered /\ TablesStay /\ UNCHANGED kept

\* A record enters the memtable when append() has returned true.
Put ==
  /\ \/ (Work \/ \E n \in 0 .. MaxBatch : append(n)) /\ UNCHANGED mem
     \/ fsync(TRUE) /\ UNCHANGED mem
     \/ fsync(FALSE) /\ mem' = mem \union call
  /\ kept' = kept \union acked' /\ TablesStay

\* Faulty variant: the log is cleared although the table was not written.
NoTable(m) == UNCHANGED tables

TableOf(m) == tables' = tables \union m

\* flush_immutable: write the table, drop the memtable, clear the log.  A
\* crash after the table and before the clear leaves both.
WriteTable ==
  /\ pc = "idle" /\ mem # {}
  /\ TableOf(mem)
  /\ \/ mem' = {} /\ clear
     \/ "crash" \in Faults /\ mem' = {} /\ Crash
  /\ UNCHANGED <<synced, kept, lost>>

\* The operating system writes the table files to the disk.
WriteBack == synced # tables /\ synced' = tables
             /\ UNCHANGED <<vars, mem, tables, kept, lost>>

Stop == (Destruct \/ Crash) /\ mem' = {} /\ TablesStay /\ UNCHANGED kept

\* A power failure also takes any of the tables that are not on the disk.
\* What the log still has to keep is not lost with them.
PowerFailure ==
  /\ PowerFails
  /\ \E took \in SUBSET (tables \ synced) :
       tables' = tables \ took /\ lost' = lost \union (took \ acked)
  /\ synced' = tables' /\ mem' = {}
  /\ UNCHANGED kept

FlushedNext == Start \/ Put \/ WriteTable \/ WriteBack \/ Stop \/ PowerFailure

FlushedSpec == FlushedInit /\ [][FlushedNext]_flushedVars

-----------------------------------------------------------------------------
\* A record that was put with success can always be read back from the log
\* or from a table, except for those that a power failure took with a table
\* file that was not on the disk yet: those the log has dropped too early.
OnlyUnsyncedTablesAreLost ==
  \A f \in Survivors : kept \subseteq Read(f) \union tables \union lost

\* While the process runs, what it has acknowledged it also answers: the
\* memtable holds every such record that is in no table.
MemtableHoldsTheLog == pc # "down" => kept \subseteq mem \union tables \union lost
=============================================================================
