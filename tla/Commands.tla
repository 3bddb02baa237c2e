------------------------------ MODULE Commands ------------------------------
(***************************************************************************)
(* The commands of the command line that change the store.                 *)
(*                                                                         *)
(* A handler reads the store, works out what to write, and makes one or    *)
(* two calls of put or remove; each may fail, and the process may die      *)
(* between them.  The store is the map of KVMap, which KVStore implements: *)
(* a call takes effect in one step, and what it has written survives.      *)
(* (Not so a clear that is cut short by the death of the process.)         *)
(*                                                                         *)
(* No other process changes the store, so that a handler's reads, which    *)
(* come before its writes, are taken together when it begins.              *)
(***************************************************************************)
EXTENDS Integers, Sequences

CONSTANTS
  Keys, Values, None,
  LongMax,           \* LONG_MAX
  NumberOf,          \* std::stol: the number a value begins with, None if none
  TextOf,            \* std::to_string of a long
  Concat             \* the concatenation of two values

\* long is a two's complement number.
LongMin == -LongMax - 1

Long == LongMin .. LongMax

\* Text and numbers are told apart from None.
ASSUME NumbersAreSane ==
  /\ LongMax \in Nat \ {0}
  /\ None \notin Values /\ None \notin Long

\* What is written as a number is read back as that number.
ASSUME ConversionsAreSane ==
  /\ NumberOf \in [Values -> Long \union {None}]
  /\ TextOf \in [Long -> Values]
  /\ \A n \in Long : NumberOf[TextOf[n]] = n
  /\ Concat \in [Values \X Values -> Values]

VARIABLES
  dict,    \* the store: the value of each key
  busy,    \* the store has taken a write and has not returned
  cmd,     \* the command that runs or was the last to run
  todo,    \* the writes it still has to make
  verdict, \* what it prints if none of them fails
  answer,  \* what it has printed
  before   \* the store when it began

Store == INSTANCE KVMap

vars == <<dict, busy, cmd, todo, verdict, answer, before>>

Names == {"PUT", "DEL", "APPEND", "SETNX", "INCRBY", "DECRBY", "GETSET", "RENAME", "FLUSHDB"}

Command == [name : Names \ {"RENAME"}, key : Keys, arg : Values \union {None}]
             \union [name : {"RENAME"}, key : Keys, arg : Keys]

\* A write of the list; if one that `must' succeed fails, the handler prints
\* an error and returns, otherwise it does not look.
Write == [key : Keys, val : Values \union {None}, must : BOOLEAN]

Must(k, v)    == [key |-> k, val |-> v, must |-> TRUE]
Ignored(k, v) == [key |-> k, val |-> v, must |-> FALSE]

-----------------------------------------------------------------------------
(***************************************************************************)
(* Arithmetic on long.  A result out of range is undefined behaviour; it   *)
(* wraps in the builds at hand.                                            *)
(***************************************************************************)

Wrap(n) == IF n > LongMax THEN n - (LongMax - LongMin + 1)
           ELSE IF n < LongMin THEN n + (LongMax - LongMin + 1)
           ELSE n

\* Faulty variant: one too late.
TooBigTooLate(a, d) == d > 0 /\ a - 1 > Wrap(LongMax - d)

TooBig(a, d)   == d > 0 /\ a > Wrap(LongMax - d)
TooSmall(a, d) == d < 0 /\ a < Wrap(LongMin - d)

\* a + d, None if the guards reject it.
Sum(a, d) == IF TooBig(a, d) \/ TooSmall(a, d) THEN None ELSE Wrap(a + d)

\* a - d, None if the guards reject it.
Difference(a, d) ==
  IF \/ d > 0 /\ a < Wrap(LongMin + d)
     \/ d < 0 /\ a > Wrap(LongMax + d)
    THEN None ELSE Wrap(a - d)

-----------------------------------------------------------------------------
Init == /\ Store!Init
        /\ cmd = None /\ todo = <<>> /\ verdict = "ok" /\ answer = "none"
        /\ before = dict

Begin(c, writes, result) ==
  /\ answer # "pending"
  /\ cmd' = c /\ todo' = writes /\ verdict' = result
  /\ answer' = "pending" /\ before' = dict
  /\ UNCHANGED <<dict, busy>>

Cmd(name, k, a) == [name |-> name, key |-> k, arg |-> a]

handle_put(k, v) == Begin(Cmd("PUT", k, v), <<Must(k, v)>>, "ok")

handle_delete(k) == Begin(Cmd("DEL", k, None), <<Must(k, None)>>, "ok")

handle_getset(k, v) == Begin(Cmd("GETSET", k, v), <<Must(k, v)>>, "ok")

handle_append(k, v) ==
  LET new == IF dict[k] = None THEN v ELSE Concat[dict[k], v]
  IN  Begin(Cmd("APPEND", k, v), <<Must(k, new)>>, "ok")

\* Faulty variant: does not look.
AlwaysVacant(k) == TRUE

Vacant(k) == dict[k] = None

\* A failed put prints 0, as a key that exists does; it counts as an error here.
handle_setnx(k, v) ==
  Begin(Cmd("SETNX", k, v), IF Vacant(k) THEN <<Must(k, v)>> ELSE <<>>, "ok")

\* The number a counter holds; a missing one counts as 0.
Counter(k) == IF dict[k] = None THEN 0 ELSE NumberOf[dict[k]]

\* A missing counter is stored as 0 before anything is checked; then a new
\* number is stored if there is one.
CounterWrites(k, n) ==
  (IF dict[k] = None THEN <<Ignored(k, TextOf[0])>> ELSE <<>>)
    \o (IF n = None THEN <<>> ELSE <<Must(k, TextOf[n])>>)

\* Begins a command that sets counter k to n, or fails if n is None.
Count(c, k, n) == Begin(c, CounterWrites(k, n), IF n = None THEN "error" ELSE "ok")

handle_incrby(k, v) ==
  Count(Cmd("INCRBY", k, v), k,
        IF Counter(k) = None \/ NumberOf[v] = None THEN None
        ELSE Sum(Counter(k), NumberOf[v]))

handle_decrby(k, v) ==
  Count(Cmd("DECRBY", k, v), k,
        IF Counter(k) = None \/ NumberOf[v] = None THEN None
        ELSE Difference(Counter(k), NumberOf[v]))

\* INCR and DECR write out the same with the constant 1.
handle_incr(k) == handle_incrby(k, TextOf[1])
handle_decr(k) == handle_decrby(k, TextOf[1])

\* Faulty variant: the other way round.
RenameWritesSwapped(k, n) == <<Must(k, None), Ignored(n, dict[k])>>

RenameWrites(k, n) == <<Must(n, dict[k]), Ignored(k, None)>>

handle_rename(k, n) ==
  \/ /\ dict[k] = None
     /\ Begin(Cmd("RENAME", k, n), <<>>, "error")
  \/ /\ dict[k] # None
     /\ Begin(Cmd("RENAME", k, n), RenameWrites(k, n), "ok")

\* After the user has confirmed.
handle_flushdb(k) ==
  /\ answer # "pending"
  /\ Store!Clear
  /\ cmd' = Cmd("FLUSHDB", k, None) /\ todo' = <<>> /\ verdict' = "ok"
  /\ answer' = "pending" /\ before' = dict

\* GET, MGET, EXISTS, STRLEN, KEYS, INFO, PING and HELP write nothing, and
\* neither does a command with the wrong number of arguments.
Query == answer # "pending" /\ UNCHANGED vars

-----------------------------------------------------------------------------
\* The next write succeeds ...
WriteNext ==
  /\ answer = "pending" /\ todo # <<>>
  /\ Store!Set(todo[1].key, todo[1].val)
  /\ todo' = Tail(todo)
  /\ UNCHANGED <<cmd, verdict, answer, before>>

StoreReturns == /\ answer = "pending"
                /\ Store!Return
                /\ UNCHANGED <<cmd, todo, verdict, answer, before>>

\* Faulty variant: the handler goes on after an error.
NotAbandoned == todo' = Tail(todo)

Abandoned == todo' = <<>>

\* ... or fails; the handler returns if it looks at the result.
WriteFails ==
  /\ answer = "pending" /\ todo # <<>>
  /\ Store!SetFails(todo[1].key, todo[1].val)
  /\ \/ todo[1].must /\ Abandoned /\ answer' = "error"
     \/ ~todo[1].must /\ todo' = Tail(todo) /\ UNCHANGED answer
  /\ UNCHANGED <<cmd, verdict, before>>

Finish == /\ answer = "pending" /\ todo = <<>> /\ ~busy
          /\ answer' = verdict
          /\ UNCHANGED <<dict, busy, cmd, todo, verdict, before>>

\* The process dies and is started again on the same data.
Die == /\ answer = "pending"
       /\ busy' = FALSE /\ todo' = <<>> /\ answer' = "died"
       /\ UNCHANGED <<dict, cmd, verdict, before>>

Typed == \E k \in Keys :
  \/ handle_delete(k)
  \/ handle_flushdb(k)
  \/ handle_incr(k) \/ handle_decr(k)
  \/ \E v \in Values : \/ handle_put(k, v) \/ handle_getset(k, v) \/ handle_append(k, v)
                       \/ handle_setnx(k, v) \/ handle_incrby(k, v) \/ handle_decrby(k, v)
  \/ \E n \in Keys : handle_rename(k, n)

Continue == WriteNext \/ StoreReturns \/ WriteFails \/ Finish

Next == Typed \/ Query \/ Continue \/ Die

Spec == Init /\ [][Next]_vars

-----------------------------------------------------------------------------
\* Every variable has its type, and a handler that has returned has no write
\* left to make.
CommandsTypeOK ==
  /\ dict \in [Keys -> Values \union {None}]
  /\ busy \in BOOLEAN
  /\ cmd \in Command \union {None}
  /\ todo \in Seq(Write)
  /\ verdict \in {"ok", "error"}
  /\ answer \in {"none", "pending", "ok", "error", "died"}
  /\ before \in [Keys -> Values \union {None}]
  /\ answer # "none" => cmd \in Command
  /\ answer # "pending" => todo = <<>> /\ ~busy

\* The value of key k after the command c has been carried out on the store
\* m, with the arithmetic of the integers.  (RENAME of a key to itself removes
\* it: of two EXCEPTs of one key the second counts.)
NumberIn(m, k) == IF m[k] = None THEN 0 ELSE NumberOf[m[k]]

Counted(m, c, n) == IF n \in Long THEN [m EXCEPT ![c.key] = TextOf[n]] ELSE m

Carried(c, m) ==
  CASE c.name \in {"PUT", "GETSET", "DEL"} -> [m EXCEPT ![c.key] = c.arg]
    [] c.name = "SETNX" -> IF m[c.key] = None THEN [m EXCEPT ![c.key] = c.arg] ELSE m
    [] c.name = "APPEND" ->
         [m EXCEPT ![c.key] = IF @ = None THEN c.arg ELSE Concat[@, c.arg]]
    [] c.name \in {"INCRBY", "DECRBY"} ->
         IF NumberIn(m, c.key) = None \/ NumberOf[c.arg] = None THEN m
         ELSE IF c.name = "INCRBY" THEN Counted(m, c, NumberIn(m, c.key) + NumberOf[c.arg])
         ELSE Counted(m, c, NumberIn(m, c.key) - NumberOf[c.arg])
    [] c.name = "RENAME" -> IF m[c.key] = None THEN m
                            ELSE [m EXCEPT ![c.arg] = m[c.key], ![c.key] = None]
    [] c.name = "FLUSHDB" -> [k \in Keys |-> None]

\* What the first of the two writes of a command leaves.
HalfWay(c, m) ==
  IF c.name \in {"INCRBY", "DECRBY"} /\ m[c.key] = None
    THEN [m EXCEPT ![c.key] = TextOf[0]]
  ELSE IF c.name = "RENAME" /\ m[c.key] # None
    THEN [m EXCEPT ![c.arg] = m[c.key]]
  ELSE m

\* The handler of a counter that prints no error has stored the exact sum or
\* difference, whatever has become of the initial 0; every other command
\* that prints no error has been carried out, but for a RENAME that may have
\* left the old key, because it does not look whether remove has failed.
OkMeansDone ==
  answer = "ok" =>
    \/ dict = Carried(cmd, before)
    \/ cmd.name = "RENAME" /\ dict = HalfWay(cmd, before)

\* At every moment, also after an error, a failed write or the death of the
\* process, the store is as before the command, half way, or as after it: no
\* command ever touches another key or leaves a value it was not given.
OneOfThreeStores ==
  cmd # None => dict \in {before, HalfWay(cmd, before), Carried(cmd, before)}

\* RENAME to another key never loses the value, whatever fails and wherever
\* the process dies.
RenameKeepsValue ==
  (cmd # None /\ cmd.name = "RENAME" /\ cmd.key # cmd.arg)
    => before[cmd.key] \in {dict[cmd.key], dict[cmd.arg]} \union {None}
=============================================================================
