--------------------------- MODULE CommandsProofs ---------------------------
(***************************************************************************)
(* Proofs about Commands: its arithmetic is exact for longs of any width,  *)
(* its types are kept, and RENAME never loses a value.                     *)
(***************************************************************************)
EXTENDS Commands, SequenceTheorems, TLAPS

-----------------------------------------------------------------------------
(***************************************************************************)
(* Arithmetic.                                                             *)
(***************************************************************************)

\* The guards of INCR and INCRBY reject exactly the sums that do not fit in a
\* long, and neither the sum nor what they compute themselves overflows.
THEOREM SumIsExact ==
  ASSUME NEW a \in Long, NEW d \in Long
  PROVE  /\ Sum(a, d) = IF a + d \in Long THEN a + d ELSE None
         /\ d > 0 => LongMax - d \in Long
         /\ d < 0 => LongMin - d \in Long
BY NumbersAreSane DEF Sum, TooBig, TooSmall, Wrap, Long, LongMin

\* So do the guards of DECR and DECRBY with differences.
THEOREM DifferenceIsExact ==
  ASSUME NEW a \in Long, NEW d \in Long
  PROVE  /\ Difference(a, d) = IF a - d \in Long THEN a - d ELSE None
         /\ d > 0 => LongMin + d \in Long
         /\ d < 0 => LongMax + d \in Long
BY NumbersAreSane DEF Difference, Wrap, Long, LongMin

-----------------------------------------------------------------------------
(***************************************************************************)
(* Types.                                                                  *)
(***************************************************************************)

LEMMA ZeroIsLong == 0 \in Long
BY NumbersAreSane DEF Long, LongMin

LEMMA WriteType ==
  ASSUME NEW k \in Keys, NEW v \in Values \union {None}
  PROVE  Must(k, v) \in Write /\ Ignored(k, v) \in Write
BY DEF Must, Ignored, Write

\* A handler begins with a well-typed command and well-typed writes.
LEMMA BeginType ==
  ASSUME CommandsTypeOK, NEW c \in Command, NEW w \in Seq(Write),
         NEW r \in {"ok", "error"}, Begin(c, w, r)
  PROVE  CommandsTypeOK'
BY DEF CommandsTypeOK, Begin

LEMMA CmdType ==
  ASSUME NEW n \in Names \ {"RENAME"}, NEW k \in Keys, NEW a \in Values \union {None}
  PROVE  Cmd(n, k, a) \in Command
BY DEF Cmd, Command

LEMMA RenameType ==
  ASSUME NEW k \in Keys, NEW n \in Keys
  PROVE  Cmd("RENAME", k, n) \in Command
BY DEF Cmd, Command

LEMMA RenamedIsKey ==
  ASSUME NEW c \in Command
  PROVE  c.key \in Keys /\ (c.name = "RENAME" => c.arg \in Keys)
BY DEF Command

LEMMA NoWriteType == <<>> \in Seq(Write)
OBVIOUS

LEMMA OneWriteType ==
  ASSUME NEW k \in Keys, NEW v \in Values \union {None}
  PROVE  <<Must(k, v)>> \in Seq(Write) /\ <<Ignored(k, v)>> \in Seq(Write)
BY WriteType

LEMMA CounterWritesType ==
  ASSUME CommandsTypeOK, NEW k \in Keys, NEW n \in Long \union {None}
  PROVE  CounterWrites(k, n) \in Seq(Write)
<1>1. TextOf[0] \in Values /\ (n # None => TextOf[n] \in Values)
  BY ZeroIsLong, ConversionsAreSane
<1>2. <<Ignored(k, TextOf[0])>> \in Seq(Write) /\ <<>> \in Seq(Write)
  BY <1>1, OneWriteType
<1>3. n # None => <<Must(k, TextOf[n])>> \in Seq(Write)
  BY <1>1, OneWriteType
<1> QED  BY <1>2, <1>3 DEF CounterWrites

LEMMA CountType ==
  ASSUME CommandsTypeOK, NEW c \in Command, NEW k \in Keys, NEW n \in Long \union {None},
         Count(c, k, n)
  PROVE  CommandsTypeOK'
BY CounterWritesType, BeginType DEF Count

LEMMA CounterType ==
  ASSUME CommandsTypeOK, NEW k \in Keys
  PROVE  Counter(k) \in Long \union {None}
BY ZeroIsLong, ConversionsAreSane DEF Counter, CommandsTypeOK

LEMMA SumType ==
  ASSUME NEW a \in Long, NEW d \in Long
  PROVE  Sum(a, d) \in Long \union {None} /\ Difference(a, d) \in Long \union {None}
BY SumIsExact, DifferenceIsExact

LEMMA OneIsText == TextOf[1] \in Values
BY NumbersAreSane, ConversionsAreSane DEF Long, LongMin

\* One step per command.
LEMMA TypedType == ASSUME CommandsTypeOK, Typed PROVE CommandsTypeOK'
<1>1. PICK k \in Keys :
        \/ handle_delete(k) \/ handle_flushdb(k) \/ handle_incr(k) \/ handle_decr(k)
        \/ \E v \in Values : \/ handle_put(k, v) \/ handle_getset(k, v)
                             \/ handle_append(k, v) \/ handle_setnx(k, v)
                             \/ handle_incrby(k, v) \/ handle_decrby(k, v)
        \/ \E n \in Keys : handle_rename(k, n)
  BY DEF Typed
<1> USE DEF Names
<1>2. CASE handle_delete(k)
  BY <1>2, OneWriteType, CmdType, BeginType DEF handle_delete
<1>3. CASE handle_flushdb(k)
  BY <1>3, CmdType DEF handle_flushdb, Store!Clear, CommandsTypeOK
<1>4. ASSUME NEW v \in Values, handle_put(k, v) PROVE CommandsTypeOK'
  BY <1>4, OneWriteType, CmdType, BeginType DEF handle_put
<1>5. ASSUME NEW v \in Values, handle_getset(k, v) PROVE CommandsTypeOK'
  BY <1>5, OneWriteType, CmdType, BeginType DEF handle_getset
<1>6. ASSUME NEW v \in Values, handle_append(k, v) PROVE CommandsTypeOK'
  <2> DEFINE new == IF dict[k] = None THEN v ELSE Concat[dict[k], v]
  <2>1. new \in Values
    <3>1. CASE dict[k] = None
      BY <3>1
    <3>2. CASE dict[k] # None
      <4>1. <<dict[k], v>> \in Values \X Values
        BY <3>2 DEF CommandsTypeOK
      <4> QED  BY <3>2, <4>1, ConversionsAreSane
    <3> QED  BY <3>1, <3>2
  <2>2. Begin(Cmd("APPEND", k, v), <<Must(k, new)>>, "ok")
    BY <1>6, Zenon DEF handle_append
  <2> HIDE DEF new
  <2> QED  BY <2>1, <2>2, OneWriteType, CmdType, BeginType
<1>7. ASSUME NEW v \in Values, handle_setnx(k, v) PROVE CommandsTypeOK'
  <2>1. <<Must(k, v)>> \in Seq(Write) /\ <<>> \in Seq(Write)
    BY OneWriteType
  <2> QED  BY <1>7, <2>1, CmdType, BeginType DEF handle_setnx
<1>8. ASSUME NEW v \in Values, handle_incrby(k, v) PROVE CommandsTypeOK'
  <2> DEFINE n == IF Counter(k) = None \/ NumberOf[v] = None THEN None
                  ELSE Sum(Counter(k), NumberOf[v])
  <2>1. n \in Long \union {None}
    BY CounterType, SumType, ConversionsAreSane
  <2>2. Count(Cmd("INCRBY", k, v), k, n)
    BY <1>8 DEF handle_incrby
  <2> HIDE DEF n
  <2> QED  BY <2>1, <2>2, CmdType, CountType
<1>9. ASSUME NEW v \in Values, handle_decrby(k, v) PROVE CommandsTypeOK'
  <2> DEFINE n == IF Counter(k) = None \/ NumberOf[v] = None THEN None
                  ELSE Difference(Counter(k), NumberOf[v])
  <2>1. n \in Long \union {None}
    BY CounterType, SumType, ConversionsAreSane
  <2>2. Count(Cmd("DECRBY", k, v), k, n)
    BY <1>9 DEF handle_decrby
  <2> HIDE DEF n
  <2> QED  BY <2>1, <2>2, CmdType, CountType
<1>10. ASSUME NEW n \in Keys, handle_rename(k, n) PROVE CommandsTypeOK'
  <2>1. CASE dict[k] = None
    BY <1>10, <2>1, NoWriteType, RenameType, BeginType DEF handle_rename
  <2>2. CASE dict[k] # None
    <3>1. RenameWrites(k, n) \in Seq(Write)
      BY <2>2, WriteType DEF RenameWrites, CommandsTypeOK
    <3> QED  BY <1>10, <2>2, <3>1, RenameType, BeginType DEF handle_rename
  <2> QED  BY <2>1, <2>2
<1>11. handle_incr(k) \/ handle_decr(k) => CommandsTypeOK'
  BY <1>8, <1>9, OneIsText DEF handle_incr, handle_decr
<1> QED  BY <1>1, <1>2, <1>3, <1>4, <1>5, <1>6, <1>7, <1>8, <1>9, <1>10, <1>11

LEMMA ContinueType == ASSUME CommandsTypeOK, Continue \/ Die PROVE CommandsTypeOK'
<1>1. ASSUME todo # <<>> PROVE todo[1] \in Write /\ Tail(todo) \in Seq(Write)
  BY <1>1 DEF CommandsTypeOK
<1>2. CASE WriteNext
  BY <1>1, <1>2 DEF WriteNext, Store!Set, CommandsTypeOK, Write
<1>3. CASE StoreReturns
  BY <1>3 DEF StoreReturns, Store!Return, CommandsTypeOK
<1>4. CASE WriteFails
  <2>1. dict' \in [Keys -> Values \union {None}] /\ UNCHANGED busy /\ ~busy
    BY <1>1, <1>4 DEF WriteFails, Store!SetFails, CommandsTypeOK, Write
  <2>2. CASE answer' = "error"
    BY <1>1, <1>4, <2>1, <2>2 DEF WriteFails, Abandoned, CommandsTypeOK
  <2>3. CASE answer' # "error"
    BY <1>1, <1>4, <2>1, <2>3 DEF WriteFails, CommandsTypeOK
  <2> QED  BY <2>2, <2>3
<1>5. CASE Finish
  BY <1>5 DEF Finish, CommandsTypeOK
<1>6. CASE Die
  BY <1>6, NoWriteType DEF Die, CommandsTypeOK
<1> QED  BY <1>2, <1>3, <1>4, <1>5, <1>6 DEF Continue

\* Every variable keeps its type, and a handler that has returned has left no
\* write behind, for all keys, values and widths of long.
THEOREM CommandsTypeCorrect == Spec => []CommandsTypeOK
<1>1. Init => CommandsTypeOK
  BY NoWriteType DEF Init, Store!Init, CommandsTypeOK
<1>2. CommandsTypeOK /\ [Next]_vars => CommandsTypeOK'
  <2> SUFFICES ASSUME CommandsTypeOK, [Next]_vars PROVE CommandsTypeOK'
    OBVIOUS
  <2>1. CASE UNCHANGED vars
    BY <2>1 DEF vars, CommandsTypeOK
  <2> QED  BY <2>1, TypedType, ContinueType DEF Next, Query
<1> QED  BY <1>1, <1>2, PTL DEF Spec

-----------------------------------------------------------------------------
(***************************************************************************)
(* What the commands do.                                                   *)
(***************************************************************************)

Applied(w, m) == [m EXCEPT ![w.key] = w.val]

\* The writes w take the store d to what command c, begun on the store m, is
\* to leave, also if the first of them fails without being looked at; then
\* the command prints r.
Ready(c, m, d, w, r) ==
  LET P == HalfWay(c, m)
      C == Carried(c, m)
  IN  \/ /\ Len(w) = 0
         /\ d \in {m, P, C}
         /\ r = "ok" => d = C \/ (c.name = "RENAME" /\ d = P)
      \/ /\ Len(w) = 1
         /\ d \in {m, P}
         /\ Applied(w[1], d) \in {P, C}
         /\ r = "ok" => /\ Applied(w[1], d) = C
                        /\ w[1].must \/ (c.name = "RENAME" /\ d = P)
      \/ /\ Len(w) = 2
         /\ d = m /\ r = "ok"
         /\ Applied(w[1], m) = P
         /\ Applied(w[2], P) = C
         /\ w[1].must \/ (w[2].must /\ Applied(w[2], m) = C)
         /\ w[2].must \/ c.name = "RENAME"

ScriptInv ==
  /\ CommandsTypeOK
  /\ OneOfThreeStores
  /\ OkMeansDone
  /\ answer = "pending" => Ready(cmd, before, dict, todo, verdict)

\* A command that is ready when it begins is ready from then on.
LEMMA BeginScript ==
  ASSUME ScriptInv, CommandsTypeOK', NEW c \in Command, NEW w, NEW r, Begin(c, w, r),
         Ready(c, dict, dict, w, r)
  PROVE  ScriptInv'
BY DEF ScriptInv, Begin, OneOfThreeStores, OkMeansDone

LEMMA TailOfTwo ==
  ASSUME NEW s \in Seq(Write), Len(s) = 2
  PROVE  Len(Tail(s)) = 1 /\ Tail(s)[1] = s[2]
<1>1. s # <<>>
  OBVIOUS
<1>2. Len(Tail(s)) = 1
  BY <1>1, HeadTailProperties
<1>3. \A i \in 1 .. 1 : Tail(s)[i] = s[i + 1]
  BY <1>1, <1>2, HeadTailProperties
<1>4. 1 \in 1 .. 1 /\ 1 + 1 = 2
  OBVIOUS
<1>5. Tail(s)[1] = s[1 + 1]
  BY <1>3, <1>4, Zenon
<1> QED  BY <1>2, <1>4, <1>5, Zenon

LEMMA WriteNextScript ==
  ASSUME ScriptInv, CommandsTypeOK', WriteNext PROVE ScriptInv'
<1> DEFINE P == HalfWay(cmd, before)
           C == Carried(cmd, before)
<1>1. /\ todo \in Seq(Write) /\ todo # <<>> /\ todo' = Tail(todo)
      /\ dict' = Applied(todo[1], dict)
      /\ answer = "pending" /\ UNCHANGED <<cmd, verdict, answer, before>>
  BY DEF WriteNext, Store!Set, Applied, ScriptInv, CommandsTypeOK
<1>2. CASE Len(todo) = 1
  <2>1. Len(todo') = 0 /\ dict' \in {P, C}
    BY <1>1, <1>2 DEF ScriptInv, Ready
  <2>2. verdict = "ok" => dict' = C
    BY <1>1, <1>2 DEF ScriptInv, Ready
  <2> QED  BY <1>1, <2>1, <2>2 DEF ScriptInv, Ready, OneOfThreeStores, OkMeansDone
<1>3. CASE Len(todo) = 2
  <2>1. Len(todo') = 1 /\ todo'[1] = todo[2]
    BY <1>1, <1>3, TailOfTwo
  <2>2. dict' = P /\ Applied(todo[2], dict') = C
    BY <1>1, <1>3 DEF ScriptInv, Ready
  <2>3. todo[2].must \/ cmd.name = "RENAME"
    BY <1>1, <1>3 DEF ScriptInv, Ready
  <2> QED  BY <1>1, <2>1, <2>2, <2>3 DEF ScriptInv, Ready, OneOfThreeStores, OkMeansDone
<1> QED  BY <1>1, <1>2, <1>3 DEF ScriptInv, Ready

LEMMA WriteFailsScript ==
  ASSUME ScriptInv, CommandsTypeOK', WriteFails PROVE ScriptInv'
<1> DEFINE P == HalfWay(cmd, before)
           C == Carried(cmd, before)
<1>1. /\ todo \in Seq(Write) /\ todo # <<>>
      /\ dict' \in {dict, Applied(todo[1], dict)}
      /\ answer = "pending" /\ UNCHANGED <<cmd, verdict, before>>
      /\ \/ todo[1].must /\ answer' = "error"
         \/ ~todo[1].must /\ todo' = Tail(todo) /\ answer' = "pending"
  BY DEF WriteFails, Store!SetFails, Applied, ScriptInv, CommandsTypeOK
<1>2. dict' \in {before, P, C}
  BY <1>1 DEF ScriptInv, Ready
<1>3. CASE answer' = "error"
  BY <1>1, <1>2, <1>3 DEF ScriptInv, OneOfThreeStores, OkMeansDone
<1>4. CASE answer' = "pending" /\ Len(todo) = 1
  <2>1. Len(todo') = 0 /\ ~todo[1].must
    BY <1>1, <1>4
  <2>2. verdict = "ok" => cmd.name = "RENAME" /\ dict' \in {P, C}
    BY <1>1, <1>4, <2>1 DEF ScriptInv, Ready
  <2> QED  BY <1>1, <1>2, <1>4, <2>1, <2>2 DEF ScriptInv, Ready, OneOfThreeStores, OkMeansDone
<1>5. CASE answer' = "pending" /\ Len(todo) = 2
  <2>1. Len(todo') = 1 /\ todo'[1] = todo[2] /\ ~todo[1].must
    BY <1>1, <1>5, TailOfTwo
  <2>2. dict' \in {before, P} /\ Applied(todo[2], dict') = C /\ todo[2].must
    BY <1>1, <1>5, <2>1 DEF ScriptInv, Ready
  <2> QED  BY <1>1, <1>2, <1>5, <2>1, <2>2 DEF ScriptInv, Ready, OneOfThreeStores, OkMeansDone
<1> QED  BY <1>1, <1>3, <1>4, <1>5 DEF ScriptInv, Ready

\* The steps that leave the store alone.
LEMMA RestScript ==
  ASSUME ScriptInv, CommandsTypeOK', StoreReturns \/ Finish \/ Die PROVE ScriptInv'
<1>1. CASE StoreReturns
  BY <1>1 DEF StoreReturns, Store!Return, ScriptInv, OneOfThreeStores, OkMeansDone
<1>2. CASE Finish
  BY <1>2 DEF Finish, ScriptInv, Ready, OneOfThreeStores, OkMeansDone
<1>3. CASE Die
  BY <1>3 DEF Die, ScriptInv, OneOfThreeStores, OkMeansDone
<1> QED  BY <1>1, <1>2, <1>3

\* Commands of at most one write.
LEMMA OneWriteReady ==
  ASSUME NEW c \in Command, NEW m, NEW k \in Keys, NEW v,
         Carried(c, m) = [m EXCEPT ![k] = v]
  PROVE  Ready(c, m, m, <<Must(k, v)>>, "ok")
BY DEF Ready, Applied, Must

LEMMA NoWriteReady ==
  ASSUME NEW c \in Command, NEW m, NEW r \in {"ok", "error"},
         r = "ok" => Carried(c, m) = m
  PROVE  Ready(c, m, m, <<>>, r)
BY DEF Ready

LEMMA TwoWrites ==
  ASSUME NEW a \in Write, NEW b \in Write
  PROVE  LET w == <<a>> \o <<b>> IN w[1] = a /\ w[2] = b /\ Len(w) = 2
<1>1. <<a>> \in Seq(Write) /\ <<b>> \in Seq(Write) /\ Len(<<a>>) = 1 /\ Len(<<b>>) = 1
  OBVIOUS
<1> QED  BY <1>1, ConcatProperties

LEMMA SecondWriteCounts ==
  ASSUME NEW m \in [Keys -> Values \union {None}], NEW k, NEW x, NEW y
  PROVE  [[m EXCEPT ![k] = x] EXCEPT ![k] = y] = [m EXCEPT ![k] = y]
OBVIOUS

\* A command on a counter, given that n is the number the integers say.
LEMMA CountScript ==
  ASSUME ScriptInv, CommandsTypeOK', NEW name \in {"INCRBY", "DECRBY"},
         NEW k \in Keys, NEW v \in Values, NEW n \in Long \union {None},
         Count(Cmd(name, k, v), k, n),
         Carried(Cmd(name, k, v), dict) =
           IF n = None THEN dict ELSE [dict EXCEPT ![k] = TextOf[n]]
  PROVE  ScriptInv'
<1> DEFINE c == Cmd(name, k, v)
           w == CounterWrites(k, n)
           r == IF n = None THEN "error" ELSE "ok"
<1>1. c \in Command /\ c.name = name /\ c.key = k
  BY CmdType DEF Cmd, Names
<1>2. HalfWay(c, dict) = IF dict[k] = None THEN [dict EXCEPT ![k] = TextOf[0]] ELSE dict
  BY <1>1 DEF HalfWay
<1>3. CASE dict[k] = None /\ n = None
  <2>1. w = <<Ignored(k, TextOf[0])>>
    BY <1>3 DEF CounterWrites
  <2> QED  BY <1>2, <1>3, <2>1, <1>1, BeginScript DEF Count, Ready, Applied, Ignored
<1>4. CASE dict[k] = None /\ n # None
  <2>1. TextOf[0] \in Values /\ TextOf[n] \in Values
    BY <1>4, ZeroIsLong, ConversionsAreSane
  <2>2. Ignored(k, TextOf[0]) \in Write /\ Must(k, TextOf[n]) \in Write
    BY <2>1, WriteType
  <2>3. w = <<Ignored(k, TextOf[0])>> \o <<Must(k, TextOf[n])>>
    BY <1>4 DEF CounterWrites
  <2>4. w[1] = Ignored(k, TextOf[0]) /\ w[2] = Must(k, TextOf[n]) /\ Len(w) = 2
    BY <2>2, <2>3, TwoWrites
  <2> HIDE DEF w
  <2>5. HalfWay(c, dict) = Applied(w[1], dict)
    BY <1>2, <1>4, <2>4 DEF Applied, Ignored
  <2>6. Applied(w[2], dict) = [dict EXCEPT ![k] = TextOf[n]] /\ w[2].must
    BY <2>4 DEF Applied, Must
  <2>7. Applied(w[2], HalfWay(c, dict)) = [dict EXCEPT ![k] = TextOf[n]]
    <3>1. dict \in [Keys -> Values \union {None}]
      BY DEF ScriptInv, CommandsTypeOK
    <3>2. w[2].key = k /\ w[2].val = TextOf[n]
      BY <2>4 DEF Must
    <3> QED  BY <1>2, <1>4, <3>1, <3>2, SecondWriteCounts DEF Applied
  <2>8. Ready(c, dict, dict, w, "ok")
    BY <1>4, <2>4, <2>5, <2>6, <2>7 DEF Ready
  <2>9. Begin(c, w, "ok")
    BY <1>4 DEF Count, w
  <2> QED  BY <1>1, <2>8, <2>9, BeginScript
<1>5. CASE dict[k] # None /\ n = None
  <2>1. w = <<>>
    BY <1>5 DEF CounterWrites
  <2>2. Ready(c, dict, dict, w, r)
    BY <1>1, <1>5, <2>1, NoWriteReady
  <2> QED  BY <1>1, <1>5, <2>2, BeginScript DEF Count
<1>6. CASE dict[k] # None /\ n # None
  <2>1. w = <<Must(k, TextOf[n])>>
    BY <1>6 DEF CounterWrites
  <2>2. Ready(c, dict, dict, w, r)
    BY <1>1, <1>6, <2>1, OneWriteReady
  <2> QED  BY <1>1, <1>6, <2>2, BeginScript DEF Count
<1> QED  BY <1>3, <1>4, <1>5, <1>6

LEMMA IncrbyScript ==
  ASSUME ScriptInv, CommandsTypeOK', NEW k \in Keys, NEW v \in Values, handle_incrby(k, v)
  PROVE  ScriptInv'
<1> DEFINE a == Counter(k)
           d == NumberOf[v]
           n == IF a = None \/ d = None THEN None ELSE Sum(a, d)
<1>1. a \in Long \union {None} /\ d \in Long \union {None} /\ a = NumberIn(dict, k)
  BY CounterType, ConversionsAreSane DEF ScriptInv, Counter, NumberIn
<1>2. n = IF a = None \/ d = None \/ a + d \notin Long THEN None ELSE a + d
  BY <1>1, SumIsExact
<1>3. n \in Long \union {None} /\ None \notin Long
  BY <1>2, NumbersAreSane
<1>4. Carried(Cmd("INCRBY", k, v), dict) = IF n = None THEN dict ELSE [dict EXCEPT ![k] = TextOf[n]]
  BY <1>1, <1>2, <1>3 DEF Carried, Cmd, Counted
<1>5. Count(Cmd("INCRBY", k, v), k, n)
  BY DEF handle_incrby
<1> HIDE DEF n
<1> QED  BY <1>3, <1>4, <1>5, CountScript

LEMMA DecrbyScript ==
  ASSUME ScriptInv, CommandsTypeOK', NEW k \in Keys, NEW v \in Values, handle_decrby(k, v)
  PROVE  ScriptInv'
<1> DEFINE a == Counter(k)
           d == NumberOf[v]
           n == IF a = None \/ d = None THEN None ELSE Difference(a, d)
<1>1. a \in Long \union {None} /\ d \in Long \union {None} /\ a = NumberIn(dict, k)
  BY CounterType, ConversionsAreSane DEF ScriptInv, Counter, NumberIn
<1>2. n = IF a = None \/ d = None \/ a - d \notin Long THEN None ELSE a - d
  BY <1>1, DifferenceIsExact
<1>3. n \in Long \union {None} /\ None \notin Long
  BY <1>2, NumbersAreSane
<1>4. Carried(Cmd("DECRBY", k, v), dict) = IF n = None THEN dict ELSE [dict EXCEPT ![k] = TextOf[n]]
  BY <1>1, <1>2, <1>3 DEF Carried, Cmd, Counted
<1>5. Count(Cmd("DECRBY", k, v), k, n)
  BY DEF handle_decrby
<1> HIDE DEF n
<1> QED  BY <1>3, <1>4, <1>5, CountScript

LEMMA RenameScript ==
  ASSUME ScriptInv, CommandsTypeOK', NEW k \in Keys, NEW n \in Keys, handle_rename(k, n)
  PROVE  ScriptInv'
<1> DEFINE c == Cmd("RENAME", k, n)
<1>1. c \in Command /\ c.name = "RENAME" /\ c.key = k /\ c.arg = n
  BY RenameType DEF Cmd
<1>2. CASE dict[k] = None
  BY <1>1, <1>2, NoWriteReady, BeginScript DEF handle_rename
<1>3. CASE dict[k] # None
  <2> DEFINE w == RenameWrites(k, n)
  <2>1. HalfWay(c, dict) = [dict EXCEPT ![n] = dict[k]]
    BY <1>1, <1>3 DEF HalfWay
  <2>2. Carried(c, dict) = [dict EXCEPT ![n] = dict[k], ![k] = None]
    BY <1>1, <1>3 DEF Carried
  <2>3. /\ w[1] = Must(n, dict[k]) /\ w[2] = Ignored(k, None) /\ Len(w) = 2
    BY DEF RenameWrites
  <2>4. Ready(c, dict, dict, w, "ok")
    BY <1>1, <2>1, <2>2, <2>3 DEF Ready, Applied, Must, Ignored
  <2> QED  BY <1>1, <1>3, <2>4, BeginScript DEF handle_rename
<1> QED  BY <1>2, <1>3

\* One step per command.
LEMMA TypedScript ==
  ASSUME ScriptInv, CommandsTypeOK', Typed PROVE ScriptInv'
<1>1. PICK k \in Keys :
        \/ handle_delete(k) \/ handle_flushdb(k) \/ handle_incr(k) \/ handle_decr(k)
        \/ \E v \in Values : \/ handle_put(k, v) \/ handle_getset(k, v)
                             \/ handle_append(k, v) \/ handle_setnx(k, v)
                             \/ handle_incrby(k, v) \/ handle_decrby(k, v)
        \/ \E n \in Keys : handle_rename(k, n)
  BY DEF Typed
<1> USE DEF Names
<1>2. CASE handle_delete(k)
  <2> DEFINE c == Cmd("DEL", k, None)
  <2>1. c \in Command /\ Carried(c, dict) = [dict EXCEPT ![k] = None]
    BY CmdType DEF Carried, Cmd
  <2> QED  BY <1>2, <2>1, OneWriteReady, BeginScript DEF handle_delete
<1>3. CASE handle_flushdb(k)
  <2> DEFINE c == Cmd("FLUSHDB", k, None)
  <2>1. \A m : Carried(c, m) = [l \in Keys |-> None]
    BY DEF Carried, Cmd
  <2>2. /\ cmd' = c /\ todo' = <<>> /\ verdict' = "ok" /\ answer' = "pending"
        /\ dict' = [l \in Keys |-> None] /\ before' = dict
    BY <1>3 DEF handle_flushdb, Store!Clear
  <2> QED  BY <2>1, <2>2 DEF ScriptInv, Ready, OneOfThreeStores, OkMeansDone
<1>4. ASSUME NEW v \in Values, handle_put(k, v) PROVE ScriptInv'
  <2> DEFINE c == Cmd("PUT", k, v)
  <2>1. c \in Command /\ Carried(c, dict) = [dict EXCEPT ![k] = v]
    BY CmdType DEF Carried, Cmd
  <2> QED  BY <1>4, <2>1, OneWriteReady, BeginScript DEF handle_put
<1>5. ASSUME NEW v \in Values, handle_getset(k, v) PROVE ScriptInv'
  <2> DEFINE c == Cmd("GETSET", k, v)
  <2>1. c \in Command /\ Carried(c, dict) = [dict EXCEPT ![k] = v]
    BY CmdType DEF Carried, Cmd
  <2> QED  BY <1>5, <2>1, OneWriteReady, BeginScript DEF handle_getset
<1>6. ASSUME NEW v \in Values, handle_append(k, v) PROVE ScriptInv'
  <2> DEFINE c == Cmd("APPEND", k, v)
             new == IF dict[k] = None THEN v ELSE Concat[dict[k], v]
  <2>1. c \in Command /\ Carried(c, dict) = [dict EXCEPT ![k] = new]
    BY CmdType DEF Carried, Cmd
  <2>2. Begin(c, <<Must(k, new)>>, "ok")
    BY <1>6, Zenon DEF handle_append
  <2> HIDE DEF new
  <2> QED  BY <2>1, <2>2, OneWriteReady, BeginScript
<1>7. ASSUME NEW v \in Values, handle_setnx(k, v) PROVE ScriptInv'
  <2> DEFINE c == Cmd("SETNX", k, v)
  <2>1. c \in Command
        /\ Carried(c, dict) = IF dict[k] = None THEN [dict EXCEPT ![k] = v] ELSE dict
    BY CmdType DEF Carried, Cmd
  <2>2. CASE Vacant(k)
    BY <1>7, <2>1, <2>2, OneWriteReady, BeginScript DEF handle_setnx, Vacant
  <2>3. CASE ~Vacant(k)
    BY <1>7, <2>1, <2>3, NoWriteReady, BeginScript DEF handle_setnx, Vacant
  <2> QED  BY <2>2, <2>3
<1>8. handle_incr(k) \/ handle_decr(k) => ScriptInv'
  BY OneIsText, IncrbyScript, DecrbyScript DEF handle_incr, handle_decr
<1> QED  BY <1>1, <1>2, <1>3, <1>4, <1>5, <1>6, <1>7, <1>8, IncrbyScript, DecrbyScript, RenameScript

LEMMA ScriptCorrect == Spec => []ScriptInv
<1>1. Init => ScriptInv
  BY NoWriteType DEF Init, Store!Init, ScriptInv, CommandsTypeOK, OneOfThreeStores, OkMeansDone
<1>2. ScriptInv /\ CommandsTypeOK' /\ [Next]_vars => ScriptInv'
  <2> SUFFICES ASSUME ScriptInv, CommandsTypeOK', [Next]_vars PROVE ScriptInv'
    OBVIOUS
  <2>1. CASE UNCHANGED vars
    BY <2>1 DEF vars, ScriptInv, OneOfThreeStores, OkMeansDone
  <2> QED  BY <2>1, TypedScript, WriteNextScript, WriteFailsScript, RestScript DEF Next, Continue, Query
<1> QED  BY <1>1, <1>2, CommandsTypeCorrect, PTL DEF Spec

\* A command that prints no error has been carried out.
THEOREM OkIsDone == Spec => []OkMeansDone
BY ScriptCorrect, PTL DEF ScriptInv

\* Errors, failed writes and the death of the process leave one of three stores.
THEOREM CutShortIsOneOfThree == Spec => []OneOfThreeStores
BY ScriptCorrect, PTL DEF ScriptInv

\* RENAME to another key never loses the value: it follows from the three stores.
THEOREM RenameIsSafe == Spec => []RenameKeepsValue
<1>1. ScriptInv => RenameKeepsValue
  <2> SUFFICES ASSUME ScriptInv, cmd # None, cmd.name = "RENAME", cmd.key # cmd.arg
               PROVE  before[cmd.key] \in {dict[cmd.key], dict[cmd.arg]} \union {None}
    BY DEF RenameKeepsValue
  <2>1. cmd.key \in Keys /\ cmd.arg \in Keys /\ before \in [Keys -> Values \union {None}]
    BY RenamedIsKey DEF ScriptInv, CommandsTypeOK
  <2>2. dict \in [Keys -> Values \union {None}]
    BY DEF ScriptInv, CommandsTypeOK
  <2>3. dict \in {before, HalfWay(cmd, before), Carried(cmd, before)}
    BY DEF ScriptInv, OneOfThreeStores
  <2> QED  BY <2>1, <2>2, <2>3 DEF HalfWay, Carried
<1> QED  BY <1>1, ScriptCorrect, PTL
=============================================================================
