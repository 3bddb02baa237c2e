---------------------------- MODULE KVStoreBatch ----------------------------
(***************************************************************************)
(* The batch calls of KVStore: put and remove of a list of keys.           *)
(*                                                                         *)
(* A batch is a loop over the single call that stops at the first one that *)
(* fails.  The actions of the single calls are those of KVStore: a batch   *)
(* adds the position of the loop, and remembers what get() answered when   *)
(* it started, and what it would have answered after a restart, so that    *)
(* its effect can be stated: the two differ once a put that was rejected   *)
(* has left its record in the log.                                         *)
(***************************************************************************)
EXTENDS KVStore

CONSTANT Batches  \* the lists of <<key, value>> pairs clients submit

\* A batch puts every value it names or removes every key it names.
ASSUME BatchesAreSane == Batches \subseteq Seq(Keys \X (Values \union {Tombstone}))

VARIABLES
  batch,   \* the list of the last batch call
  done,    \* how many of its entries have been logged
  before,  \* what get() answered for each key when it was called
  logged,  \* what it would have answered then after a restart
  status   \* what it returned; "lost" if the process stopped since

batchVars == <<batch, done, before, logged, status>>
allVars   == <<vars, batchVars>>

BatchTypeOK ==
  /\ batch \in Batches \union {<<>>}
  /\ done \in 0 .. Len(batch)
  /\ before \in [Keys -> Values \union {None}]
  /\ logged \in [Keys -> Values \union {None}]
  /\ status \in {"none", "running", "true", "false", "lost"}

BatchInit == /\ Init
             /\ batch = <<>> /\ done = 0 /\ status = "none"
             /\ before = [k \in Keys |-> None] /\ logged = before

\* Faulty variant: the loop goes on where the last one stopped.
NotRewound == UNCHANGED done

Rewound == done' = 0

\* A batch call begins, if the bound leaves timestamps for all its entries.
BatchBegin ==
  /\ pc = "idle" /\ status # "running"
  /\ batch' \in Batches
  /\ next_ts + Len(batch') - 1 <= TimestampBound[stops]
  /\ Rewound /\ status' = "running"
  /\ before' = [k \in Keys |-> Visible(k)]
  /\ logged' = [k \in Keys |-> Durable(k)]
  /\ UNCHANGED vars

\* Faulty variant: the list is taken from its end.
LastPair == batch[Len(batch) - done]

NextPair == batch[done + 1]

\* The loop makes the next single call ...
BatchNext ==
  /\ status = "running" /\ done < Len(batch)
  /\ Log(NextPair[1], NextPair[2])
  /\ done' = done + 1
  /\ UNCHANGED <<batch, before, logged, status>>

\* ... and returns false if that fails.
BatchStops ==
  /\ status = "running" /\ done < Len(batch)
  /\ LogFails(NextPair[1], NextPair[2])
  /\ status' = "false"
  /\ UNCHANGED <<batch, done, before, logged>>

BatchReturns ==
  /\ pc = "idle" /\ status = "running" /\ done = Len(batch)
  /\ status' = "true"
  /\ UNCHANGED <<vars, batch, done, before, logged>>

\* A single call between batches.
SingleCall ==
  /\ status # "running"
  /\ Call
  /\ batch' = <<>> /\ done' = 0 /\ status' = "none"
  /\ before' = [k \in Keys |-> None] /\ logged' = before'

StepOfCall == Step /\ UNCHANGED batchVars

BatchLost ==
  /\ StopOrCrash
  /\ status' = IF status = "none" THEN "none" ELSE "lost"
  /\ UNCHANGED <<batch, done, before, logged>>

Reopen == Open /\ UNCHANGED batchVars

BatchStep == BatchBegin \/ BatchNext \/ BatchStops \/ BatchReturns
               \/ SingleCall \/ StepOfCall \/ BatchLost \/ Reopen

BatchSpec == /\ BatchInit /\ [][BatchStep]_allVars
             /\ WF_allVars(StepOfCall) /\ WF_allVars(BatchNext \/ BatchStops \/ BatchReturns)

-----------------------------------------------------------------------------
\* What get() answers for key k when the first n entries of the batch have
\* been applied to base.
After(base, n, k) ==
  LET hits == {i \in 1 .. n : batch[i][1] = k}
      v    == batch[Max(hits)][2]
  IN  IF hits = {} THEN base[k] ELSE IF v = Tombstone THEN None ELSE v

\* Between its single calls and after it has returned, a batch has had the
\* effect of exactly its first entries in their order, up to the one it has
\* reached.  After a crash and a restart the entry it was at may come on top,
\* as may a put that had been rejected before.  Flushes in the middle of a
\* batch and keys named twice make no difference.
BatchAppliesPrefix ==
  (pc = "idle" /\ status # "none") =>
    \/ \A k \in Keys : Visible(k) = After(before, done, k)
    \/ /\ status = "lost"
       /\ \E base \in {before, logged}, n \in done .. Len(batch) :
            /\ n <= done + 1
            /\ \A k \in Keys : Visible(k) = After(base, n, k)

\* What docs/api.md:26 promises of a batch put, "returns whether it succeeded
\* (everything is written or everything fails)": once one has returned false,
\* get() answers for every key what it did before the call.
BatchIsAtomic ==
  (pc = "idle" /\ status = "false" /\ \A i \in DOMAIN batch : batch[i][2] # Tombstone)
    => \A k \in Keys : Visible(k) = before[k]

\* A batch call returns unless the process stops.
BatchCallReturns == status = "running" ~> status # "running"
=============================================================================
