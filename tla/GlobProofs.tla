----------------------------- MODULE GlobProofs -----------------------------
(***************************************************************************)
(* glob_match finds the right answer for every pattern and every text, its *)
(* recursion is never deeper than the pattern is long, and it evaluates no *)
(* place twice.                                                            *)
(***************************************************************************)
EXTENDS Glob, Induction, SequenceTheorems

StringsOK ==
  /\ pattern \in Seq(Characters \union {Star, Any})
  /\ text \in Seq(Characters)

Frame == [p : 1 .. PatternEnd, t : 1 .. TextEnd, rest : 0 .. PatternEnd, at : 0 .. TextEnd]

GlobTypeOK ==
  /\ StringsOK
  /\ stack \in Seq(Frame)
  /\ cache \in [Places -> BOOLEAN \union {Unknown}]
  /\ returned \in BOOLEAN \union {Unknown}
  /\ evaluations \in Nat

-----------------------------------------------------------------------------
(***************************************************************************)
(* What matching means, unfolded at the first character of the pattern.    *)
(***************************************************************************)

IsCut(p, t, cut) ==
  /\ cut \in [p - 1 .. Len(pattern) -> t - 1 .. Len(text)]
  /\ cut[p - 1] = t - 1 /\ cut[Len(pattern)] = Len(text)
  /\ \A i, j \in p - 1 .. Len(pattern) : i <= j => cut[i] <= cut[j]
  /\ \A i \in p .. Len(pattern) :
       \/ pattern[i] = Star
       \/ cut[i] = cut[i - 1] + 1 /\ pattern[i] \in {Any, text[cut[i]]}

LEMMA MatchHasCut ==
  ASSUME NEW p, NEW t
  PROVE  /\ Match(p, t) <=> \E cut : IsCut(p, t, cut)
         /\ Match(p, t) \in BOOLEAN
BY DEF Match, IsCut

LEMMA MatchAtEnd ==
  ASSUME StringsOK, NEW t \in 1 .. TextEnd
  PROVE  Match(PatternEnd, t) <=> t = TextEnd
<1>1. Len(pattern) \in Nat /\ Len(text) \in Nat
  BY DEF StringsOK
<1>2. ASSUME Match(PatternEnd, t)
      PROVE  t = TextEnd
  <2>1. PICK cut : IsCut(PatternEnd, t, cut)
    BY <1>2, MatchHasCut
  <2> QED
    BY <1>1, <2>1 DEF IsCut, PatternEnd, TextEnd
<1>3. ASSUME t = TextEnd
      PROVE  Match(PatternEnd, t)
  <2> DEFINE cut == [i \in Len(pattern) .. Len(pattern) |-> Len(text)]
  <2>1. IsCut(PatternEnd, t, cut)
    BY <1>1, <1>3 DEF IsCut, PatternEnd, TextEnd
  <2> QED
    BY <2>1, MatchHasCut
<1> QED
  BY <1>2, <1>3

\* A character of the pattern that is no star takes one character of the text.
LEMMA MatchOne ==
  ASSUME StringsOK, NEW p \in 1 .. Len(pattern), NEW t \in 1 .. TextEnd, pattern[p] # Star
  PROVE  Match(p, t) <=> /\ t # TextEnd /\ pattern[p] \in {Any, text[t]}
                         /\ Match(p + 1, t + 1)
<1>1. Len(pattern) \in Nat /\ Len(text) \in Nat
  BY DEF StringsOK
<1>2. ASSUME Match(p, t)
      PROVE  t # TextEnd /\ pattern[p] \in {Any, text[t]} /\ Match(p + 1, t + 1)
  <2>1. PICK cut : IsCut(p, t, cut)
    BY <1>2, MatchHasCut
  <2>2. cut[p] = t /\ pattern[p] \in {Any, text[t]} /\ cut[p] <= Len(text)
    BY <1>1, <2>1 DEF IsCut
  <2> DEFINE rest == [i \in p .. Len(pattern) |-> cut[i]]
  <2>3. IsCut(p + 1, t + 1, rest)
    <3>1. \A i \in p .. Len(pattern) : cut[p] <= cut[i] /\ cut[i] \in t - 1 .. Len(text)
      BY <1>1, <2>1 DEF IsCut
    <3>2. rest \in [(p + 1) - 1 .. Len(pattern) -> (t + 1) - 1 .. Len(text)]
      BY <1>1, <2>2, <3>1
    <3>3. rest[(p + 1) - 1] = (t + 1) - 1 /\ rest[Len(pattern)] = Len(text)
      BY <1>1, <2>1, <2>2 DEF IsCut
    <3>4. \A i, j \in (p + 1) - 1 .. Len(pattern) : i <= j => rest[i] <= rest[j]
      BY <1>1, <2>1 DEF IsCut
    <3>5. \A i \in p + 1 .. Len(pattern) :
            \/ pattern[i] = Star
            \/ rest[i] = rest[i - 1] + 1 /\ pattern[i] \in {Any, text[rest[i]]}
      BY <1>1, <2>1 DEF IsCut
    <3> QED
      BY <3>2, <3>3, <3>4, <3>5 DEF IsCut
  <2> QED
    BY <1>1, <2>2, <2>3, MatchHasCut DEF TextEnd
<1>3. ASSUME t # TextEnd, pattern[p] \in {Any, text[t]}, Match(p + 1, t + 1)
      PROVE  Match(p, t)
  <2>1. PICK rest : IsCut(p + 1, t + 1, rest)
    BY <1>3, MatchHasCut
  <2>2. /\ rest \in [p .. Len(pattern) -> t .. Len(text)]
        /\ rest[p] = t /\ rest[Len(pattern)] = Len(text)
    BY <1>1, <2>1 DEF IsCut
  <2> DEFINE cut == [i \in p - 1 .. Len(pattern) |-> IF i = p - 1 THEN t - 1 ELSE rest[i]]
  <2>3. cut \in [p - 1 .. Len(pattern) -> t - 1 .. Len(text)]
    BY <1>1, <1>3, <2>2 DEF TextEnd
  <2>4. cut[p - 1] = t - 1 /\ cut[Len(pattern)] = Len(text)
    BY <1>1, <2>2
  <2>5. \A i, j \in p - 1 .. Len(pattern) : i <= j => cut[i] <= cut[j]
    <3> SUFFICES ASSUME NEW i \in p - 1 .. Len(pattern), NEW j \in p - 1 .. Len(pattern), i <= j
                 PROVE  cut[i] <= cut[j]
      OBVIOUS
    <3>1. CASE i = p - 1
      BY <1>1, <2>3, <3>1
    <3>2. CASE i # p - 1
      <4>1. rest[i] <= rest[j]
        BY <1>1, <2>1, <3>2 DEF IsCut
      <4> QED
        BY <1>1, <3>2, <4>1
    <3> QED
      BY <3>1, <3>2
  <2>6. \A i \in p .. Len(pattern) :
          \/ pattern[i] = Star
          \/ cut[i] = cut[i - 1] + 1 /\ pattern[i] \in {Any, text[cut[i]]}
    <3> SUFFICES ASSUME NEW i \in p .. Len(pattern), pattern[i] # Star
                 PROVE  cut[i] = cut[i - 1] + 1 /\ pattern[i] \in {Any, text[cut[i]]}
      OBVIOUS
    <3>1. CASE i = p
      BY <1>1, <1>3, <2>2, <3>1
    <3>2. CASE i # p
      BY <1>1, <2>1, <3>2 DEF IsCut
    <3> QED
      BY <3>1, <3>2
  <2>7. IsCut(p, t, cut)
    BY <2>3, <2>4, <2>5, <2>6 DEF IsCut
  <2> QED
    BY <2>7, MatchHasCut
<1> QED
  BY <1>2, <1>3

\* There is a first position behind a run of stars.
LEMMA BehindStarsIsBehind ==
  ASSUME StringsOK, NEW p \in 1 .. Len(pattern), pattern[p] = Star
  PROVE  LET q == BehindStars(p)
         IN  /\ q \in p + 1 .. PatternEnd
             /\ \A i \in p .. q - 1 : pattern[i] = Star
             /\ q = PatternEnd \/ pattern[q] # Star
<1>1. Len(pattern) \in Nat
  BY DEF StringsOK
<1> DEFINE Stop == {i \in p .. PatternEnd : i = PatternEnd \/ pattern[i] # Star}
<1>2. Stop \in SUBSET Nat /\ PatternEnd \in Stop
  BY <1>1 DEF PatternEnd
<1>3. PICK q \in Stop : \A i \in Stop : q <= i
  <2> HIDE DEF Stop
  <2> QED
    BY <1>2, LeastNumber
<1>4. q \in p .. PatternEnd /\ (q = PatternEnd \/ pattern[q] # Star)
  OBVIOUS
<1>5. \A i \in p .. q - 1 : pattern[i] = Star
  BY <1>1, <1>3, <1>4 DEF PatternEnd
<1> HIDE DEF Stop
<1>6. /\ BehindStars(p) \in p .. PatternEnd
      /\ \A i \in p .. BehindStars(p) - 1 : pattern[i] = Star
      /\ BehindStars(p) = PatternEnd \/ pattern[BehindStars(p)] # Star
  BY <1>4, <1>5 DEF BehindStars
<1>7. BehindStars(p) # p
  BY <1>1, <1>6 DEF PatternEnd
<1> QED
  BY <1>1, <1>6, <1>7 DEF PatternEnd

\* A run of stars up to the end of the pattern matches anything ...
LEMMA MatchStarsAtEnd ==
  ASSUME StringsOK, NEW p \in 1 .. Len(pattern), NEW t \in 1 .. TextEnd,
         pattern[p] = Star, BehindStars(p) = PatternEnd
  PROVE  Match(p, t)
<1>1. Len(pattern) \in Nat /\ Len(text) \in Nat
  BY DEF StringsOK
<1>2. \A i \in p .. Len(pattern) : pattern[i] = Star
  BY <1>1, BehindStarsIsBehind DEF PatternEnd
<1> DEFINE cut == [i \in p - 1 .. Len(pattern) |-> IF i = p - 1 THEN t - 1 ELSE Len(text)]
<1>3. IsCut(p, t, cut)
  BY <1>1, <1>2 DEF IsCut, TextEnd
<1> QED
  BY <1>3, MatchHasCut

\* ... and in front of more of the pattern a piece of the text of any length.
LEMMA MatchStars ==
  ASSUME StringsOK, NEW p \in 1 .. Len(pattern), NEW t \in 1 .. TextEnd,
         pattern[p] = Star
  PROVE  Match(p, t) <=> \E a \in t .. TextEnd : Match(BehindStars(p), a)
<1> DEFINE q == BehindStars(p)
<1>1. Len(pattern) \in Nat /\ Len(text) \in Nat
  BY DEF StringsOK
<1>2. /\ q \in p + 1 .. PatternEnd
      /\ \A i \in p .. q - 1 : pattern[i] = Star
  BY BehindStarsIsBehind
<1> HIDE DEF q
<1>3. ASSUME Match(p, t)
      PROVE  \E a \in t .. TextEnd : Match(q, a)
  <2>1. PICK cut : IsCut(p, t, cut)
    BY <1>3, MatchHasCut
  <2> DEFINE rest == [i \in q - 1 .. Len(pattern) |-> cut[i]]
  <2>0. /\ q - 1 \in p - 1 .. Len(pattern)
        /\ \A i \in q - 1 .. Len(pattern) : i \in p - 1 .. Len(pattern) /\ q - 1 <= i
    BY <1>1, <1>2 DEF PatternEnd
  <2>2. cut[q - 1] \in t - 1 .. Len(text)
    BY <2>1, <2>0 DEF IsCut
  <2>3. \A i \in q - 1 .. Len(pattern) : cut[q - 1] <= cut[i] /\ cut[i] \in t - 1 .. Len(text)
    BY <2>1, <2>0 DEF IsCut
  <2>4. rest \in [q - 1 .. Len(pattern) -> (cut[q - 1] + 1) - 1 .. Len(text)]
    BY <1>1, <2>2, <2>3
  <2>5. rest[q - 1] = (cut[q - 1] + 1) - 1 /\ rest[Len(pattern)] = Len(text)
    BY <1>1, <1>2, <2>1, <2>2 DEF IsCut, PatternEnd
  <2>6. \A i, j \in q - 1 .. Len(pattern) : i <= j => rest[i] <= rest[j]
    <3>1. \A i \in q - 1 .. Len(pattern) : i \in p - 1 .. Len(pattern) /\ rest[i] = cut[i]
      BY <1>1, <1>2 DEF PatternEnd
    <3> HIDE DEF rest
    <3> QED
      BY <2>1, <3>1 DEF IsCut
  <2>7. \A i \in q .. Len(pattern) :
          \/ pattern[i] = Star
          \/ rest[i] = rest[i - 1] + 1 /\ pattern[i] \in {Any, text[rest[i]]}
    <3>1. \A i \in q .. Len(pattern) :
            i \in p .. Len(pattern) /\ rest[i] = cut[i] /\ rest[i - 1] = cut[i - 1]
      BY <1>1, <1>2 DEF PatternEnd
    <3> HIDE DEF rest
    <3> QED
      BY <2>1, <3>1 DEF IsCut
  <2>8. IsCut(q, cut[q - 1] + 1, rest)
    BY <2>4, <2>5, <2>6, <2>7 DEF IsCut
  <2>9. cut[q - 1] + 1 \in t .. TextEnd
    BY <1>1, <2>2 DEF TextEnd
  <2> QED
    BY <2>8, <2>9, MatchHasCut
<1>4. ASSUME NEW a \in t .. TextEnd, Match(q, a)
      PROVE  Match(p, t)
  <2>1. PICK rest : IsCut(q, a, rest)
    BY <1>4, MatchHasCut
  <2>2. /\ rest \in [q - 1 .. Len(pattern) -> a - 1 .. Len(text)]
        /\ rest[q - 1] = a - 1 /\ rest[Len(pattern)] = Len(text)
    BY <2>1 DEF IsCut
  <2> DEFINE cut == [i \in p - 1 .. Len(pattern) |-> IF i < q - 1 THEN t - 1 ELSE rest[i]]
  <2>3. cut \in [p - 1 .. Len(pattern) -> t - 1 .. Len(text)]
    BY <1>1, <1>2, <2>2 DEF TextEnd
  <2>4. cut[p - 1] = t - 1 /\ cut[Len(pattern)] = Len(text)
    BY <1>1, <1>2, <2>2 DEF PatternEnd
  <2>5. \A i, j \in p - 1 .. Len(pattern) : i <= j => cut[i] <= cut[j]
    <3> SUFFICES ASSUME NEW i \in p - 1 .. Len(pattern), NEW j \in p - 1 .. Len(pattern), i <= j
                 PROVE  cut[i] <= cut[j]
      OBVIOUS
    <3>1. CASE i < q - 1
      BY <1>1, <2>3, <3>1
    <3>2. CASE ~(i < q - 1)
      <4>1. rest[i] <= rest[j]
        BY <1>1, <1>2, <2>1, <3>2 DEF IsCut, PatternEnd
      <4> QED
        BY <1>1, <1>2, <3>2, <4>1 DEF PatternEnd
    <3> QED
      BY <3>1, <3>2
  <2>6. \A i \in p .. Len(pattern) :
          \/ pattern[i] = Star
          \/ cut[i] = cut[i - 1] + 1 /\ pattern[i] \in {Any, text[cut[i]]}
    <3> SUFFICES ASSUME NEW i \in p .. Len(pattern), pattern[i] # Star
                 PROVE  cut[i] = cut[i - 1] + 1 /\ pattern[i] \in {Any, text[cut[i]]}
      OBVIOUS
    <3>1. i \in q .. Len(pattern)
      BY <1>1, <1>2 DEF PatternEnd
    <3> QED
      BY <1>1, <1>2, <2>1, <3>1 DEF IsCut, PatternEnd
  <2>7. IsCut(p, t, cut)
    BY <2>3, <2>4, <2>5, <2>6 DEF IsCut
  <2> QED
    BY <2>7, MatchHasCut
<1> QED
  BY <1>3, <1>4 DEF q

-----------------------------------------------------------------------------
(***************************************************************************)
(* The invariant.                                                          *)
(***************************************************************************)

Matching == {place \in Places : Match(place[1], place[2])}
Cached   == {place \in Places : cache[place] # Unknown}

\* The calls that wait: all, or all below the one to be evaluated.
Waiting == IF returned = Unknown THEN Len(stack) - 1 ELSE Len(stack)

\* The place the call that has just returned was about.
Asked == IF stack = <<>> THEN <<1, 1>> ELSE <<Top.rest, Top.at>>

StackOK ==
  /\ \A i \in DOMAIN stack : i <= stack[i].p
  /\ \A i, j \in DOMAIN stack : i < j => stack[i].p < stack[j].p
  /\ \A i \in 1 .. Len(stack) - 1 :
       stack[i].rest # 0 /\ Place(stack[i + 1]) = <<stack[i].rest, stack[i].at>>
  /\ stack # <<>> => Place(stack[1]) = <<1, 1>>
  /\ stack # <<>> => (Top.rest = 0 <=> returned = Unknown)
  /\ stack = <<>> => returned # Unknown

\* What is left to try decides the call's result.
Decides(p, t, rest, at) ==
  <<p, t>> \in Matching <=>
    IF pattern[p] = Star THEN \E a \in at .. TextEnd : <<rest, a>> \in Matching
                         ELSE <<rest, at>> \in Matching

WaitingOK ==
  \A i \in DOMAIN stack :
    stack[i].rest # 0 =>
      /\ stack[i].p < stack[i].rest /\ stack[i].at \in 1 .. TextEnd
      /\ cache[Place(stack[i])] = Unknown
      /\ Decides(stack[i].p, stack[i].t, stack[i].rest, stack[i].at)

CacheOK ==
  \A place \in Places : /\ cache[place] = TRUE => place \in Matching
                        /\ cache[place] = FALSE => place \notin Matching

ReturnedOK ==
  /\ returned = TRUE => Asked \in Matching
  /\ returned = FALSE => Asked \notin Matching

WorkOK == evaluations <= Cardinality(Cached) + Waiting

GlobInv == GlobTypeOK /\ StackOK /\ WaitingOK /\ CacheOK /\ ReturnedOK /\ WorkOK

LEMMA SameStrings ==
  ASSUME UNCHANGED <<pattern, text>>
  PROVE  /\ StringsOK' = StringsOK /\ PatternEnd' = PatternEnd /\ TextEnd' = TextEnd
         /\ Places' = Places /\ Frame' = Frame /\ Matching' = Matching
         /\ \A p, t, rest, at : Decides(p, t, rest, at)' <=> Decides(p, t, rest, at)
<1>1. StringsOK' = StringsOK /\ PatternEnd' = PatternEnd /\ TextEnd' = TextEnd
  BY DEF StringsOK, PatternEnd, TextEnd
<1>2. Places' = Places
  BY <1>1 DEF Places
<1>3. Frame' = Frame
  BY <1>1 DEF Frame
<1>4. \A p, t : Match(p, t)' <=> Match(p, t)
  BY DEF Match
<1>5. Matching' = Matching
  BY <1>2, <1>4 DEF Matching
<1>6. \A p, t, rest, at : Decides(p, t, rest, at)' <=> Decides(p, t, rest, at)
  BY <1>1, <1>5 DEF Decides
<1> QED
  BY <1>1, <1>2, <1>3, <1>5, <1>6

LEMMA GlobInit == Init => GlobInv
<1> SUFFICES ASSUME Init
             PROVE  GlobInv
  OBVIOUS
<1>1. StringsOK
  <2>1. \A chars, n : n \in Nat => Strings(chars, n) \subseteq Seq(chars)
    BY DEF Strings
  <2> QED
    BY <2>1, GlobParametersAreSane DEF Init, StringsOK
<1>2. Len(pattern) \in Nat /\ Len(text) \in Nat
  BY <1>1 DEF StringsOK
<1>3. stack = <<Called(1, 1)>> /\ Called(1, 1) \in Frame
  BY <1>2 DEF Init, Called, Frame, PatternEnd, TextEnd
<1>4. GlobTypeOK
  BY <1>1, <1>3 DEF Init, GlobTypeOK
<1>5. Len(stack) = 1 /\ DOMAIN stack = {1} /\ stack # <<>> /\ Top = Called(1, 1)
  BY <1>3 DEF Top
<1>6. StackOK
  BY <1>5, <1>3, GlobParametersAreSane DEF Init, StackOK, Called, Place
<1>7. WaitingOK
  BY <1>5, <1>3 DEF WaitingOK, Called
<1>8. CacheOK /\ ReturnedOK
  BY GlobParametersAreSane DEF Init, CacheOK, ReturnedOK
<1>9. WorkOK
  <2>1. Cached = {}
    BY DEF Init, Cached
  <2> QED
    BY <1>5, <2>1, FS_EmptySet DEF Init, WorkOK, Waiting
<1> QED
  BY <1>4, <1>6, <1>7, <1>8, <1>9 DEF GlobInv

LEMMA FrameFields ==
  ASSUME StringsOK, NEW f \in Frame
  PROVE  /\ PatternEnd \in Nat /\ TextEnd \in Nat
         /\ f.p \in 1 .. PatternEnd /\ f.p \in Int /\ f.t \in 1 .. TextEnd
         /\ f.rest \in 0 .. PatternEnd /\ f.rest \in Int /\ f.at \in 0 .. TextEnd
         /\ Place(f) \in Places
<1>1. PatternEnd \in Nat /\ TextEnd \in Nat
  BY DEF StringsOK, PatternEnd, TextEnd
<1>2. /\ f.p \in 1 .. PatternEnd /\ f.t \in 1 .. TextEnd
      /\ f.rest \in 0 .. PatternEnd /\ f.at \in 0 .. TextEnd
  BY DEF Frame
<1> QED
  BY <1>1, <1>2 DEF Place, Places

\* The top call and those below it.
LEMMA TopAndBelow ==
  ASSUME GlobTypeOK, stack # <<>>
  PROVE  /\ Len(stack) \in Nat \ {0} /\ Top \in Frame
         /\ Below \in Seq(Frame) /\ Len(Below) = Len(stack) - 1
         /\ \A i \in 1 .. Len(stack) - 1 : Below[i] = stack[i]
         /\ Place(Top) \in Places
<1>1. stack \in Seq(Frame) /\ Len(stack) \in Nat \ {0}
  BY DEF GlobTypeOK
<1>2. Top \in Frame
  BY <1>1 DEF Top
<1>0. \A i \in 1 .. Len(stack) - 1 : stack[i] \in Frame
  BY <1>1
<1>3. Below \in Seq(Frame) /\ Len(Below) = Len(stack) - 1
  <2> DEFINE m == Len(stack) - 1
  <2>1. m \in Int /\ (IF 1 <= m THEN m - 1 + 1 ELSE 0) = m
    <3>1. PICK n \in Nat \ {0} : n = Len(stack)
      BY <1>1
    <3> QED
      BY <3>1
  <2> HIDE DEF m
  <2>2. \A i \in 1 .. m : stack[i] \in Frame
    BY <1>0 DEF m
  <2>3. Below = SubSeq(stack, 1, m)
    BY DEF Below, m
  <2>4. Below \in Seq(Frame) /\ Len(Below) = (IF 1 <= m THEN m - 1 + 1 ELSE 0)
    BY <2>1, <2>2, <2>3, SubSeqProperties
  <2> QED
    BY <2>1, <2>4 DEF m
<1>4. \A i \in 1 .. Len(stack) - 1 : Below[i] = stack[i]
  <2> SUFFICES ASSUME NEW i \in 1 .. Len(stack) - 1
               PROVE  Below[i] = stack[i]
    OBVIOUS
  <2>1. Below[i] = stack[1 + i - 1] /\ 1 + i - 1 = i
    BY <1>0, <1>1, SubSeqProperties DEF Below
  <2> QED
    BY <2>1
<1>5. Place(Top) \in Places
  BY <1>2, FrameFields DEF GlobTypeOK
<1> QED
  BY <1>1, <1>2, <1>3, <1>4, <1>5

\* When the top call returns the right answer, the invariant is kept, whether
\* it stores it or not.
LEMMA ReturnKeeps ==
  ASSUME GlobInv, stack # <<>>, NEW b \in BOOLEAN,
         b <=> Place(Top) \in Matching,
         stack' = Below, returned' = b, UNCHANGED <<pattern, text>>,
         UNCHANGED cache \/ Stored(b)
  PROVE  /\ stack' \in Seq(Frame)' /\ cache' \in [Places -> BOOLEAN \union {Unknown}]'
         /\ StackOK' /\ WaitingOK' /\ CacheOK' /\ ReturnedOK'
<1> USE DEF GlobInv
<1>0. /\ Len(stack) \in Nat \ {0} /\ Top \in Frame /\ Place(Top) \in Places
      /\ Below \in Seq(Frame) /\ Len(Below) = Len(stack) - 1
      /\ \A i \in 1 .. Len(stack) - 1 : Below[i] = stack[i]
  BY TopAndBelow
<1>1. /\ DOMAIN stack' = 1 .. Len(stack) - 1 /\ DOMAIN stack = 1 .. Len(stack)
      /\ Len(stack') = Len(stack) - 1
      /\ \A i \in 1 .. Len(stack) - 1 : stack'[i] = stack[i] /\ stack[i] \in Frame
  BY <1>0 DEF GlobTypeOK
<1>2. returned' # Unknown
  BY GlobParametersAreSane
<1>3. stack' \in Seq(Frame)'
  BY <1>0, SameStrings
<1>4. cache' \in [Places -> BOOLEAN \union {Unknown}]'
  BY <1>0, SameStrings DEF GlobTypeOK, Stored
<1>5. \A place \in Places : place # Place(Top) => cache'[place] = cache[place]
  BY <1>0 DEF GlobTypeOK, Stored
<1>6. StackOK'
  <2>1. \A i \in DOMAIN stack' : i <= stack'[i].p
    BY <1>0, <1>1 DEF StackOK
  <2>2. \A i, j \in DOMAIN stack' : i < j => stack'[i].p < stack'[j].p
    BY <1>0, <1>1 DEF StackOK
  <2>3. \A i \in 1 .. Len(stack') - 1 :
          stack'[i].rest # 0 /\ Place(stack[i + 1])' = <<stack'[i].rest, stack'[i].at>>
    <3> SUFFICES ASSUME NEW i \in 1 .. Len(stack') - 1
                 PROVE  /\ stack'[i].rest # 0
                        /\ Place(stack'[i + 1]) = <<stack'[i].rest, stack'[i].at>>
      BY DEF Place
    <3>1. /\ i \in 1 .. Len(stack) - 1 /\ i + 1 \in 1 .. Len(stack) - 1
      BY <1>0, <1>1
    <3>2. stack'[i] = stack[i] /\ stack'[i + 1] = stack[i + 1]
      BY <1>1, <3>1
    <3> QED
      BY <3>1, <3>2 DEF StackOK
  <2>4. stack' # <<>> => Place(stack[1])' = <<1, 1>>
    BY <1>0, <1>1 DEF StackOK, Place
  <2>5. stack' # <<>> => Top'.rest # 0
    BY <1>0, <1>1 DEF StackOK, Top
  <2> QED
    BY <1>2, <2>1, <2>2, <2>3, <2>4, <2>5 DEF StackOK
<1>7. WaitingOK'
  <2> SUFFICES ASSUME NEW i \in 1 .. Len(stack) - 1, stack[i].rest # 0
               PROVE  /\ stack[i].p < stack[i].rest /\ stack[i].at \in 1 .. TextEnd
                      /\ cache'[Place(stack[i])] = Unknown
                      /\ Decides(stack[i].p, stack[i].t, stack[i].rest, stack[i].at)
    <3>1. \A i \in DOMAIN stack' : Place(stack[i])' = Place(stack'[i])
      BY DEF Place
    <3>2. \A i \in DOMAIN stack' :
            Decides(stack[i].p, stack[i].t, stack[i].rest, stack[i].at)'
              <=> Decides(stack'[i].p, stack'[i].t, stack'[i].rest, stack'[i].at)
      BY SameStrings DEF Decides
    <3> QED
      BY <1>1, <3>1, <3>2, SameStrings DEF WaitingOK
  <2>1. i \in DOMAIN stack /\ i < Len(stack) /\ Len(stack) \in DOMAIN stack
    BY <1>0, <1>1
  <2>2. stack[i].p < Top.p
    BY <2>1 DEF StackOK, Top
  <2>3. Place(stack[i]) # Place(Top) /\ Place(stack[i]) \in Places
    <3>1. stack[i].p \in Int /\ Place(stack[i]) \in Places
      BY <1>1, FrameFields DEF GlobTypeOK
    <3> QED
      BY <2>2, <3>1 DEF Place
  <2> QED
    BY <1>5, <2>1, <2>3 DEF WaitingOK
<1>8. CacheOK'
  <2>1. \A place \in Places : /\ cache'[place] = TRUE => place \in Matching
                              /\ cache'[place] = FALSE => place \notin Matching
    BY <1>0 DEF CacheOK, GlobTypeOK, Stored
  <2> QED
    BY <2>1, SameStrings DEF CacheOK
<1>9. ReturnedOK'
  <2>1. Asked' = Place(Top)
    <3>1. CASE Len(stack) = 1
      <4>1. stack' = <<>>
        BY <1>0, <1>1, <3>1
      <4>2. Place(stack[1]) = <<1, 1>> /\ Top = stack[1]
        BY <1>0, <3>1 DEF StackOK, Top
      <4> QED
        BY <4>1, <4>2 DEF Asked
    <3>2. CASE Len(stack) # 1
      <4>1. Len(stack) - 1 \in 1 .. Len(stack) - 1 /\ Len(stack) - 1 + 1 = Len(stack)
        BY <1>0, <3>2
      <4>2. /\ stack' # <<>> /\ Top' = stack'[Len(stack) - 1]
            /\ stack'[Len(stack) - 1] = stack[Len(stack) - 1]
        BY <1>0, <1>1, <4>1 DEF Top
      <4>3. Place(Top) = <<stack[Len(stack) - 1].rest, stack[Len(stack) - 1].at>>
        BY <4>1 DEF StackOK, Top
      <4> QED
        BY <4>2, <4>3 DEF Asked
    <3> QED
      BY <3>1, <3>2
  <2> QED
    BY <2>1, SameStrings DEF ReturnedOK
<1> QED
  BY <1>3, <1>4, <1>6, <1>7, <1>8, <1>9

\* When the top call calls a place that decides its result, and has not stored
\* one, the invariant is kept.
LEMMA TryKeeps ==
  ASSUME GlobInv, stack # <<>>, cache[Place(Top)] = Unknown,
         NEW rest \in Top.p + 1 .. PatternEnd, NEW at \in 1 .. TextEnd,
         Decides(Top.p, Top.t, rest, at),
         Try(rest, at)
  PROVE  /\ stack' \in Seq(Frame)' /\ cache' \in [Places -> BOOLEAN \union {Unknown}]'
         /\ StackOK' /\ WaitingOK' /\ CacheOK' /\ ReturnedOK'
         /\ Len(stack') = Len(stack) + 1
<1> USE DEF GlobInv
<1> DEFINE n == Len(stack)
           caller == [Top EXCEPT !.rest = rest, !.at = at]
<1>0. /\ n \in Nat \ {0} /\ Top \in Frame /\ Place(Top) \in Places
      /\ Below \in Seq(Frame) /\ Len(Below) = n - 1
      /\ \A i \in 1 .. n - 1 : Below[i] = stack[i]
  BY TopAndBelow
<1>1. /\ caller \in Frame /\ Called(rest, at) \in Frame
      /\ caller.p = Top.p /\ caller.t = Top.t /\ caller.rest = rest /\ caller.at = at
      /\ Called(rest, at).p = rest /\ Called(rest, at).t = at /\ Called(rest, at).rest = 0
  <2>1. Top.p \in 1 .. PatternEnd /\ PatternEnd \in Nat /\ TextEnd \in Nat
    BY <1>0, FrameFields DEF GlobTypeOK
  <2>2. rest \in 1 .. PatternEnd /\ rest \in 0 .. PatternEnd /\ at \in 0 .. TextEnd
    BY <2>1
  <2>3. caller \in Frame
    BY <1>0, <2>2 DEF Frame
  <2>4. caller.p = Top.p /\ caller.t = Top.t /\ caller.rest = rest /\ caller.at = at
    BY <1>0 DEF Frame
  <2>5. Called(rest, at) \in Frame
    BY <2>1, <2>2 DEF Frame, Called
  <2> QED
    BY <2>3, <2>4, <2>5 DEF Called
<1> HIDE DEF caller
<1>2. stack' = Below \o <<caller, Called(rest, at)>>
  BY DEF Try, caller
<1> DEFINE two == <<caller, Called(rest, at)>>
<1>10. two \in Seq(Frame) /\ Len(two) = 2 /\ two[1] = caller /\ two[2] = Called(rest, at)
  BY <1>1
<1> HIDE DEF two
<1>11. /\ stack' \in Seq(Frame) /\ Len(stack') = n + 1
      /\ \A i \in 1 .. n + 1 : stack'[i] = IF i <= n - 1 THEN Below[i] ELSE two[i - (n - 1)]
  <2>1. stack' = Below \o two
    BY <1>2 DEF two
  <2> QED
    <3>1. /\ Len(Below) = n - 1 /\ n \in Nat
          /\ Len(Below) + Len(two) = n + 1
      BY <1>0, <1>10
    <3>2. /\ Below \o two \in Seq(Frame) /\ Len(Below \o two) = Len(Below) + Len(two)
          /\ \A i \in 1 .. Len(Below) + Len(two) :
               (Below \o two)[i] = IF i <= Len(Below) THEN Below[i] ELSE two[i - Len(Below)]
      BY <1>0, <1>10, ConcatProperties
    <3> QED
      BY <2>1, <3>1, <3>2
<1>3. stack' \in Seq(Frame) /\ Len(stack') = n + 1 /\ DOMAIN stack' = 1 .. n + 1
  BY <1>0, <1>11
<1>4. /\ \A i \in 1 .. n - 1 : stack'[i] = stack[i] /\ stack[i] \in Frame
      /\ stack'[n] = caller /\ stack'[n + 1] = Called(rest, at)
  <2>1. \A i \in 1 .. n - 1 : i \in 1 .. n + 1 /\ i <= n - 1 /\ i \in DOMAIN stack
    BY <1>0 DEF GlobTypeOK
  <2>2. \A i \in 1 .. n - 1 : stack'[i] = stack[i] /\ stack[i] \in Frame
    <3>1. \A i \in DOMAIN stack : stack[i] \in Frame
      BY DEF GlobTypeOK
    <3> QED
      BY <1>0, <1>11, <2>1, <3>1
  <2>3. /\ n \in 1 .. n + 1 /\ ~(n <= n - 1) /\ n - (n - 1) = 1
        /\ n + 1 \in 1 .. n + 1 /\ ~(n + 1 <= n - 1) /\ (n + 1) - (n - 1) = 2
    BY <1>0
  <2>4. stack'[n] = two[1] /\ stack'[n + 1] = two[2]
    BY <1>11, <2>3
  <2> QED
    BY <1>10, <2>2, <2>4
<1>5. UNCHANGED <<pattern, text, cache>> /\ returned' = Unknown
  BY DEF Try
<1>6. stack' \in Seq(Frame)' /\ cache' \in [Places -> BOOLEAN \union {Unknown}]'
  BY <1>3, <1>5, SameStrings DEF GlobTypeOK
<1> HIDE DEF n
<1>7. StackOK'
  <2>0. n = Len(stack) /\ DOMAIN stack = 1 .. n /\ Top = stack[n]
    BY DEF n, Top, GlobTypeOK
  <2>1. \A i \in 1 .. n : stack'[i].p = stack[i].p
    BY <1>0, <1>1, <1>4, <2>0
  <2>2. \A i \in 1 .. n : stack[i].p \in Int /\ stack[i].p < rest
    <3>1. \A i \in 1 .. n : stack[i].p \in Int /\ stack[i].p <= Top.p
      <4> SUFFICES ASSUME NEW i \in 1 .. n
                   PROVE  stack[i].p \in Int /\ stack[i].p <= Top.p
        OBVIOUS
      <4>1. stack[i].p \in Int /\ Top.p \in Int /\ n \in 1 .. n
        BY <1>0, <1>4, <2>0, FrameFields DEF GlobTypeOK
      <4>2. i < n => stack[i].p < Top.p
        BY <2>0, <4>1 DEF StackOK
      <4> QED
        BY <1>0, <2>0, <4>1, <4>2
    <3>2. Top.p \in Int /\ PatternEnd \in Nat
      BY <1>0, FrameFields DEF GlobTypeOK
    <3> QED
      BY <3>1, <3>2
  <2>3. \A i \in DOMAIN stack' : i <= stack'[i].p
    <3>1. \A i \in 1 .. n : i <= stack[i].p
      BY <2>0 DEF StackOK
    <3>2. n < rest
      BY <1>0, <2>2, <3>1
    <3> QED
      BY <1>0, <1>1, <1>3, <1>4, <2>1, <3>1, <3>2
  <2>4. \A i, j \in DOMAIN stack' : i < j => stack'[i].p < stack'[j].p
    <3> SUFFICES ASSUME NEW i \in 1 .. n + 1, NEW j \in 1 .. n + 1, i < j
                 PROVE  stack'[i].p < stack'[j].p
      BY <1>3
    <3>1. CASE j = n + 1
      BY <1>0, <1>1, <1>4, <2>1, <2>2, <3>1
    <3>2. CASE j # n + 1
      <4>1. i \in 1 .. n /\ j \in 1 .. n
        BY <1>0, <3>2
      <4>2. stack[i].p < stack[j].p
        BY <2>0, <4>1 DEF StackOK
      <4> QED
        BY <2>1, <4>1, <4>2
    <3> QED
      BY <3>1, <3>2
  <2>5. \A i \in 1 .. n :
          /\ stack'[i].rest # 0
          /\ stack'[i + 1].p = stack'[i].rest /\ stack'[i + 1].t = stack'[i].at
    <3> SUFFICES ASSUME NEW i \in 1 .. n
                 PROVE  /\ stack'[i].rest # 0
                        /\ stack'[i + 1].p = stack'[i].rest
                        /\ stack'[i + 1].t = stack'[i].at
      OBVIOUS
    <3>1. CASE i = n
      <4>1. rest # 0
        BY <1>0, FrameFields DEF GlobTypeOK
      <4> QED
        BY <1>1, <1>4, <3>1, <4>1
    <3>2. CASE i # n
      <4>1. i \in 1 .. n - 1 /\ i + 1 \in 1 .. n
        BY <1>0, <3>2
      <4>2. stack[i].rest # 0 /\ stack[i + 1].p = stack[i].rest /\ stack[i + 1].t = stack[i].at
        BY <2>0, <4>1 DEF StackOK, Place
      <4>3. stack'[i + 1].p = stack[i + 1].p /\ stack'[i + 1].t = stack[i + 1].t
        BY <1>0, <1>1, <1>4, <2>0, <4>1
      <4> QED
        BY <1>4, <4>1, <4>2, <4>3
    <3> QED
      BY <3>1, <3>2
  <2>6. stack'[1].p = 1 /\ stack'[1].t = 1
    <3>1. stack[1].p = 1 /\ stack[1].t = 1
      BY DEF StackOK, Place
    <3> QED
      BY <1>0, <1>1, <1>4, <2>0, <3>1
  <2>7. stack' # <<>> /\ Top' = Called(rest, at)
    BY <1>0, <1>3, <1>4 DEF Top
  <2>8. \A i \in 1 .. n : Place(stack[i + 1])' = <<stack'[i].rest, stack'[i].at>>
    BY <2>5 DEF Place
  <2>9. Place(stack[1])' = <<1, 1>>
    BY <2>6 DEF Place
  <2> QED
    BY <1>0, <1>1, <1>3, <1>5, <2>3, <2>4, <2>5, <2>7, <2>8, <2>9 DEF StackOK
<1>8. WaitingOK'
  <2> SUFFICES ASSUME NEW i \in 1 .. n
               PROVE  /\ stack'[i].p < stack'[i].rest /\ stack'[i].at \in 1 .. TextEnd
                      /\ cache[<<stack'[i].p, stack'[i].t>>] = Unknown
                      /\ Decides(stack'[i].p, stack'[i].t, stack'[i].rest, stack'[i].at)
    <3>1. \A i \in DOMAIN stack' : Place(stack[i])' = <<stack'[i].p, stack'[i].t>>
      BY DEF Place
    <3>2. \A i \in DOMAIN stack' :
            Decides(stack[i].p, stack[i].t, stack[i].rest, stack[i].at)'
              <=> Decides(stack'[i].p, stack'[i].t, stack'[i].rest, stack'[i].at)
      BY <1>5, SameStrings DEF Decides
    <3>3. \A i \in DOMAIN stack' : stack'[i].rest # 0 => i \in 1 .. n
      BY <1>0, <1>1, <1>3, <1>4
    <3>4. TextEnd' = TextEnd /\ cache' = cache
      BY <1>5, SameStrings
    <3> QED
      BY <3>1, <3>2, <3>3, <3>4 DEF WaitingOK
  <2>1. CASE i = n
    <3>1. Top.p < rest
      BY <1>0, FrameFields DEF GlobTypeOK
    <3> QED
      BY <1>1, <1>4, <2>1, <3>1 DEF Place
  <2>2. CASE i # n
    <3>1. i \in 1 .. n - 1 /\ i \in DOMAIN stack /\ stack'[i] = stack[i]
      BY <1>0, <1>4, <2>2 DEF n, GlobTypeOK
    <3>2. stack[i].rest # 0
      BY <3>1 DEF n, StackOK
    <3> QED
      BY <3>1, <3>2 DEF WaitingOK, Place
  <2> QED
    BY <2>1, <2>2
<1>9. CacheOK' /\ ReturnedOK'
  BY <1>5, SameStrings, GlobParametersAreSane DEF CacheOK, ReturnedOK
<1> QED
  BY <1>3, <1>6, <1>7, <1>8, <1>9 DEF n

LEMMA InMatching ==
  ASSUME NEW p \in 1 .. PatternEnd, NEW t \in 1 .. TextEnd
  PROVE  <<p, t>> \in Matching <=> Match(p, t)
BY DEF Matching, Places

\* The results in the cache can be counted, and one that is stored counts.
LEMMA CachedIsFinite ==
  ASSUME GlobTypeOK
  PROVE  IsFiniteSet(Cached) /\ Cardinality(Cached) \in Nat
<1>1. PatternEnd \in Nat /\ TextEnd \in Nat
  BY DEF GlobTypeOK, StringsOK, PatternEnd, TextEnd
<1>2. IsFiniteSet(1 .. PatternEnd) /\ IsFiniteSet(1 .. TextEnd)
  BY <1>1, FS_Interval
<1>3. IsFiniteSet(Places)
  BY <1>2, FS_Product DEF Places
<1>4. Cached \subseteq Places
  BY DEF Cached
<1>5. IsFiniteSet(Cached)
  BY <1>3, <1>4, FS_Subset
<1> QED
  BY <1>5, FS_CardinalityType

LEMMA StoredCounts ==
  ASSUME GlobTypeOK, UNCHANGED <<pattern, text>>, NEW b \in BOOLEAN,
         Place(Top) \in Places, cache[Place(Top)] = Unknown, Stored(b)
  PROVE  Cardinality(Cached') = Cardinality(Cached) + 1
<1>1. b # Unknown
  BY GlobParametersAreSane
<1> DEFINE place == Place(Top)
<1>2. Cached' = Cached \union {place} /\ place \notin Cached
  <2>1. cache' = [cache EXCEPT ![place] = b] /\ cache \in [Places -> BOOLEAN \union {Unknown}]
    BY DEF Stored, GlobTypeOK
  <2>2. Cached' = {x \in Places : cache'[x] # Unknown}
    BY SameStrings DEF Cached
  <2> HIDE DEF place
  <2>3. place \in Places /\ cache[place] = Unknown
    BY DEF place
  <2> QED
    BY <1>1, <2>1, <2>2, <2>3 DEF Cached
<1>3. IsFiniteSet(Cached)
  BY CachedIsFinite
<1> QED
  BY <1>2, <1>3, FS_AddElement

-----------------------------------------------------------------------------
(***************************************************************************)
(* Every step keeps the invariant.                                         *)
(***************************************************************************)

\* The facts about the top call that every action needs.
LEMMA TopFacts ==
  ASSUME GlobInv, stack # <<>>
  PROVE  /\ Len(pattern) \in Nat /\ PatternEnd = Len(pattern) + 1 /\ PatternEnd \in Nat
         /\ TextEnd \in Nat /\ Len(stack) \in Nat \ {0}
         /\ Top.p \in 1 .. PatternEnd /\ Top.t \in 1 .. TextEnd
         /\ Top.p # PatternEnd => Top.p \in 1 .. Len(pattern)
         /\ Place(Top) \in Places /\ Place(Top) = <<Top.p, Top.t>>
         /\ Place(Top) \in Matching <=> Match(Top.p, Top.t)
         /\ evaluations \in Nat /\ Cardinality(Cached) \in Nat
         /\ evaluations <= Cardinality(Cached) + Waiting
         /\ StringsOK
<1>1. Top \in Frame /\ Place(Top) \in Places /\ Len(stack) \in Nat \ {0}
  BY TopAndBelow DEF GlobInv
<1>2. StringsOK /\ evaluations \in Nat /\ Len(pattern) \in Nat /\ PatternEnd = Len(pattern) + 1
  BY DEF GlobInv, GlobTypeOK, StringsOK, PatternEnd
<1>3. /\ PatternEnd \in Nat /\ TextEnd \in Nat
      /\ Top.p \in 1 .. PatternEnd /\ Top.t \in 1 .. TextEnd
  BY <1>1, <1>2, FrameFields
<1>4. Top.p # PatternEnd => Top.p \in 1 .. Len(pattern)
  BY <1>2, <1>3
<1>5. Place(Top) = <<Top.p, Top.t>> /\ (Place(Top) \in Matching <=> Match(Top.p, Top.t))
  BY <1>3, InMatching DEF Place
<1>6. Cardinality(Cached) \in Nat /\ evaluations <= Cardinality(Cached) + Waiting
  BY CachedIsFinite DEF GlobInv, WorkOK
<1> QED
  BY <1>1, <1>2, <1>3, <1>4, <1>5, <1>6

LEMMA AnswerStep ==
  ASSUME GlobInv, IsFresh, NEW b \in BOOLEAN, b <=> Place(Top) \in Matching,
         Answer(b), UNCHANGED evaluations
  PROVE  GlobInv'
<1>1. stack # <<>> /\ Top.rest = 0
  BY DEF IsFresh
<1>2. /\ stack' = Below /\ returned' = b /\ UNCHANGED <<pattern, text>> /\ cache' = cache
  BY DEF Answer
<1>3. /\ stack' \in Seq(Frame)' /\ cache' \in [Places -> BOOLEAN \union {Unknown}]'
      /\ StackOK' /\ WaitingOK' /\ CacheOK' /\ ReturnedOK'
  BY <1>1, <1>2, ReturnKeeps
<1>4. GlobTypeOK'
  BY <1>2, <1>3, SameStrings DEF GlobInv, GlobTypeOK
<1>5. WorkOK'
  <2>1. returned = Unknown /\ Waiting = Len(stack) - 1
    BY <1>1 DEF GlobInv, StackOK, Waiting
  <2>2. Waiting' = Len(stack) - 1
    BY <1>1, <1>2, TopAndBelow, GlobParametersAreSane DEF GlobInv, Waiting
  <2>3. Cached' = Cached
    BY <1>2, SameStrings DEF Cached
  <2> QED
    BY <2>1, <2>2, <2>3 DEF GlobInv, WorkOK
<1> QED
  BY <1>3, <1>4, <1>5 DEF GlobInv

\* The call evaluated is counted when it is evaluated: n is 1 if it has not
\* called anything, and 0 when it goes on.
LEMMA FinishStep ==
  ASSUME GlobInv, stack # <<>>, NEW b \in BOOLEAN, b <=> Place(Top) \in Matching,
         cache[Place(Top)] = Unknown, Finish(b),
         evaluations' = evaluations + (IF returned = Unknown THEN 1 ELSE 0)
  PROVE  GlobInv'
<1>2. /\ stack' = Below /\ returned' = b /\ UNCHANGED <<pattern, text>> /\ Stored(b)
  BY DEF Finish
<1>3. /\ stack' \in Seq(Frame)' /\ cache' \in [Places -> BOOLEAN \union {Unknown}]'
      /\ StackOK' /\ WaitingOK' /\ CacheOK' /\ ReturnedOK'
  BY <1>2, ReturnKeeps
<1>4. GlobTypeOK'
  <2>1. evaluations' \in Nat
    BY TopFacts
  <2> QED
    BY <1>2, <1>3, <2>1, SameStrings DEF GlobInv, GlobTypeOK
<1>5. WorkOK'
  <2>1. Waiting' = Len(stack) - 1
    BY <1>2, TopAndBelow, GlobParametersAreSane DEF GlobInv, Waiting
  <2>2. Cardinality(Cached') = Cardinality(Cached) + 1
    BY <1>2, TopFacts, StoredCounts DEF GlobInv
  <2>3. Cardinality(Cached)' = Cardinality(Cached')
    OBVIOUS
  <2>4. /\ Cardinality(Cached) \in Nat /\ evaluations \in Nat /\ Len(stack) \in Nat \ {0}
        /\ evaluations <= Cardinality(Cached) + Waiting
    BY TopFacts
  <2>5. Waiting = IF returned = Unknown THEN Len(stack) - 1 ELSE Len(stack)
    BY DEF Waiting
  <2>6. evaluations' <= Cardinality(Cached)' + Waiting'
    BY <2>1, <2>2, <2>3, <2>4, <2>5
  <2> QED
    BY <2>6 DEF WorkOK
<1> QED
  BY <1>3, <1>4, <1>5 DEF GlobInv

LEMMA TryStep ==
  ASSUME GlobInv, stack # <<>>, cache[Place(Top)] = Unknown,
         NEW rest \in Top.p + 1 .. PatternEnd, NEW at \in 1 .. TextEnd,
         Decides(Top.p, Top.t, rest, at), Try(rest, at),
         evaluations' = evaluations + (IF returned = Unknown THEN 1 ELSE 0)
  PROVE  GlobInv'
<1>2. returned' = Unknown /\ UNCHANGED <<pattern, text, cache>>
  BY DEF Try
<1>3. /\ stack' \in Seq(Frame)' /\ cache' \in [Places -> BOOLEAN \union {Unknown}]'
      /\ StackOK' /\ WaitingOK' /\ CacheOK' /\ ReturnedOK'
      /\ Len(stack') = Len(stack) + 1
  BY TryKeeps
<1>4. GlobTypeOK'
  <2>1. evaluations' \in Nat
    BY TopFacts
  <2> QED
    BY <1>2, <1>3, <2>1, SameStrings DEF GlobInv, GlobTypeOK
<1>5. WorkOK'
  <2>1. Waiting' = Len(stack)
    BY <1>2, <1>3, TopFacts DEF Waiting
  <2>2. Cardinality(Cached)' = Cardinality(Cached)
    BY <1>2, SameStrings DEF Cached
  <2>3. /\ Cardinality(Cached) \in Nat /\ evaluations \in Nat /\ Len(stack) \in Nat \ {0}
        /\ evaluations <= Cardinality(Cached) + Waiting
    BY TopFacts
  <2>4. Waiting = IF returned = Unknown THEN Len(stack) - 1 ELSE Len(stack)
    BY DEF Waiting
  <2>5. evaluations' <= Cardinality(Cached)' + Waiting'
    BY <2>1, <2>2, <2>3, <2>4
  <2> QED
    BY <2>5 DEF WorkOK
<1> QED
  BY <1>3, <1>4, <1>5 DEF GlobInv

LEMMA AtEndKeeps == ASSUME GlobInv, AtEnd PROVE GlobInv'
<1> DEFINE b == (Top.t = TextEnd)
<1>1. IsFresh /\ stack # <<>> /\ Top.p = PatternEnd /\ Answer(b) /\ UNCHANGED evaluations
  BY DEF AtEnd, IsFresh, EndMatches
<1>2. b <=> Place(Top) \in Matching
  BY <1>1, TopFacts, MatchAtEnd
<1> QED
  BY <1>1, <1>2, AnswerStep

LEMMA FromCacheKeeps == ASSUME GlobInv, FromCache PROVE GlobInv'
<1> DEFINE b == cache[Place(Top)]
<1>1. IsFresh /\ stack # <<>> /\ b # Unknown /\ Answer(b) /\ UNCHANGED evaluations
  BY DEF FromCache, IsFresh
<1>2. Place(Top) \in Places
  BY <1>1, TopFacts
<1>3. b \in BOOLEAN
  BY <1>1, <1>2 DEF GlobInv, GlobTypeOK
<1>4. b <=> Place(Top) \in Matching
  BY <1>2, <1>3 DEF GlobInv, CacheOK
<1> QED
  BY <1>1, <1>3, <1>4, AnswerStep

\* What every evaluation starts with.
LEMMA Evaluation ==
  ASSUME GlobInv, Evaluates
  PROVE  /\ stack # <<>> /\ cache[Place(Top)] = Unknown /\ Top.p \in 1 .. Len(pattern)
         /\ evaluations' = evaluations + (IF returned = Unknown THEN 1 ELSE 0)
<1>1. /\ stack # <<>> /\ Top.rest = 0 /\ Top.p # PatternEnd /\ cache[Place(Top)] = Unknown
      /\ evaluations' = evaluations + 1
  BY DEF Evaluates, IsFresh
<1>2. returned = Unknown
  BY <1>1 DEF GlobInv, StackOK
<1> QED
  BY <1>1, <1>2, TopFacts

LEMMA EvaluateStarKeeps == ASSUME GlobInv, EvaluateStar PROVE GlobInv'
<1> DEFINE q == BehindStars(Top.p)
<1>1. /\ stack # <<>> /\ cache[Place(Top)] = Unknown /\ Top.p \in 1 .. Len(pattern)
      /\ evaluations' = evaluations + (IF returned = Unknown THEN 1 ELSE 0)
      /\ pattern[Top.p] = Star
  BY Evaluation DEF EvaluateStar
<1>2. q \in Top.p + 1 .. PatternEnd
  BY <1>1, TopFacts, BehindStarsIsBehind
<1>3. CASE q = PatternEnd
  <2>1. Finish(TRUE)
    BY <1>3 DEF EvaluateStar
  <2>2. Match(Top.p, Top.t)
    BY <1>1, <1>3, TopFacts, MatchStarsAtEnd
  <2> QED
    BY <1>1, <2>1, <2>2, TopFacts, FinishStep
<1>4. CASE q # PatternEnd
  <2>1. Try(q, Top.t)
    BY <1>4 DEF EvaluateStar
  <2>2. Match(Top.p, Top.t) <=> \E a \in Top.t .. TextEnd : Match(q, a)
    BY <1>1, TopFacts, MatchStars
  <2> HIDE DEF q
  <2>3. \A a \in Top.t .. TextEnd : <<q, a>> \in Matching <=> Match(q, a)
    <3>1. q \in 1 .. PatternEnd
      BY <1>1, <1>2, TopFacts
    <3>2. \A a \in Top.t .. TextEnd : a \in 1 .. TextEnd
      BY <1>1, TopFacts
    <3> QED
      BY <3>1, <3>2, InMatching
  <2>4. Decides(Top.p, Top.t, q, Top.t)
    BY <1>1, <2>2, <2>3, TopFacts DEF Decides
  <2> QED
    BY <1>1, <1>2, <2>1, <2>4, TopFacts, TryStep
<1> QED
  BY <1>3, <1>4

LEMMA EvaluateOneKeeps == ASSUME GlobInv, EvaluateOne PROVE GlobInv'
<1>1. /\ stack # <<>> /\ cache[Place(Top)] = Unknown /\ Top.p \in 1 .. Len(pattern)
      /\ evaluations' = evaluations + (IF returned = Unknown THEN 1 ELSE 0)
      /\ pattern[Top.p] # Star
  BY Evaluation DEF EvaluateOne
<1>2. Match(Top.p, Top.t) <=> Matches /\ Match(Top.p + 1, Top.t + 1)
  BY <1>1, TopFacts, MatchOne DEF Matches
<1>3. CASE Matches
  <2>1. Try(Top.p + 1, Top.t + 1)
    BY <1>3 DEF EvaluateOne
  <2>2. Top.p + 1 \in Top.p + 1 .. PatternEnd /\ Top.p + 1 \in 1 .. PatternEnd
    <3>1. /\ Top.p \in 1 .. Len(pattern) /\ Len(pattern) \in Nat
          /\ PatternEnd = Len(pattern) + 1
      BY <1>1, TopFacts
    <3> QED
      BY <3>1
  <2>3. Top.t + 1 \in 1 .. TextEnd
    <3>1. Top.t # TextEnd
      BY <1>3 DEF Matches
    <3>2. TextEnd \in Nat /\ Top.t \in 1 .. TextEnd
      BY <1>1, TopFacts
    <3> QED
      BY <3>1, <3>2
  <2>4. Decides(Top.p, Top.t, Top.p + 1, Top.t + 1)
    BY <1>1, <1>2, <1>3, <2>2, <2>3, TopFacts, InMatching DEF Decides
  <2> QED
    BY <1>1, <2>1, <2>2, <2>3, <2>4, TryStep
<1>4. CASE ~Matches
  <2>1. Finish(FALSE)
    BY <1>4 DEF EvaluateOne
  <2> QED
    BY <1>1, <1>2, <1>4, <2>1, TopFacts, FinishStep
<1> QED
  BY <1>3, <1>4

LEMMA ResumeKeeps == ASSUME GlobInv, Resume PROVE GlobInv'
<1>1. stack # <<>> /\ Top.rest # 0 /\ returned # Unknown /\ UNCHANGED evaluations
  BY DEF Resume
<1>2. returned \in BOOLEAN
  BY <1>1 DEF GlobInv, GlobTypeOK
<1>3. /\ Top.p < Top.rest /\ Top.at \in 1 .. TextEnd
      /\ cache[Place(Top)] = Unknown
      /\ Decides(Top.p, Top.t, Top.rest, Top.at)
  <2>1. Len(stack) \in DOMAIN stack
    BY <1>1, TopFacts DEF GlobInv, GlobTypeOK
  <2> QED
    BY <1>1, <2>1 DEF GlobInv, WaitingOK, Top
<1>4. returned <=> <<Top.rest, Top.at>> \in Matching
  BY <1>1, <1>2 DEF GlobInv, ReturnedOK, Asked
<1>5. evaluations' = evaluations + (IF returned = Unknown THEN 1 ELSE 0)
  BY <1>1, TopFacts
<1>6. CASE ~returned /\ pattern[Top.p] = Star /\ TriesMore(Top)
  <2>1. Try(Top.rest, Top.at + 1)
    BY <1>6 DEF Resume, Longer
  <2>2. Top.rest \in Top.p + 1 .. PatternEnd
    <3>1. Top \in Frame /\ StringsOK
      BY <1>1, TopAndBelow, TopFacts DEF GlobInv
    <3>2. Top.rest \in 0 .. PatternEnd /\ PatternEnd \in Nat /\ Top.p \in 1 .. PatternEnd
      BY <3>1, FrameFields
    <3> QED
      BY <1>3, <3>2
  <2>3. Top.at + 1 \in 1 .. TextEnd /\ Top.at \in Int /\ TextEnd \in Nat
    <3>1. Top.at < TextEnd
      BY <1>6 DEF TriesMore
    <3>2. TextEnd \in Nat /\ Top.t \in 1 .. TextEnd
      BY <1>1, TopFacts
    <3> QED
      BY <1>3, <3>1, <3>2
  <2>4. \A a \in Top.at .. TextEnd : a = Top.at \/ a \in Top.at + 1 .. TextEnd
    BY <2>3
  <2>5. \A a \in Top.at + 1 .. TextEnd : a \in Top.at .. TextEnd
    BY <2>3
  <2>6. Decides(Top.p, Top.t, Top.rest, Top.at + 1)
    BY <1>3, <1>4, <1>6, <2>4, <2>5 DEF Decides
  <2> QED
    BY <1>1, <1>3, <1>5, <2>1, <2>2, <2>3, <2>6, TryStep
<1>7. CASE ~(~returned /\ pattern[Top.p] = Star /\ TriesMore(Top))
  <2>1. Finish(returned)
    BY <1>7 DEF Resume
  <2>2. Place(Top) \in Matching <=>
          IF pattern[Top.p] = Star
            THEN \E a \in Top.at .. TextEnd : <<Top.rest, a>> \in Matching
            ELSE <<Top.rest, Top.at>> \in Matching
    BY <1>1, <1>3, TopFacts DEF Decides
  <2>3. Top.at \in Top.at .. TextEnd /\ TextEnd \in Nat
    BY <1>1, <1>3, TopFacts
  <2>4. ~TriesMore(Top) => \A a \in Top.at .. TextEnd : a = Top.at
    BY <1>3, <2>3 DEF TriesMore
  <2>5. returned <=> Place(Top) \in Matching
    BY <1>4, <1>7, <2>2, <2>3, <2>4
  <2> QED
    BY <1>1, <1>2, <1>3, <1>5, <2>1, <2>5, FinishStep
<1> QED
  BY <1>6, <1>7

LEMMA GlobStep == ASSUME GlobInv, [Next]_vars PROVE GlobInv'
<1>1. CASE UNCHANGED vars
  <2>1. UNCHANGED <<pattern, text, stack, cache, returned, evaluations>>
    BY <1>1 DEF vars
  <2>2. GlobTypeOK'
    BY <2>1, SameStrings DEF GlobInv, GlobTypeOK
  <2>3. StackOK'
    BY <2>1 DEF GlobInv, StackOK, Place, Top
  <2>4. WaitingOK'
    BY <2>1, SameStrings DEF GlobInv, WaitingOK, Place, Decides
  <2>5. CacheOK' /\ ReturnedOK'
    BY <2>1, SameStrings DEF GlobInv, CacheOK, ReturnedOK, Asked, Top
  <2>6. WorkOK'
    BY <2>1, SameStrings DEF GlobInv, WorkOK, Cached, Waiting
  <2> QED
    BY <2>2, <2>3, <2>4, <2>5, <2>6 DEF GlobInv
<1> QED
  BY <1>1, AtEndKeeps, FromCacheKeeps, EvaluateStarKeeps, EvaluateOneKeeps, ResumeKeeps
  DEF Next

THEOREM GlobIsInvariant == Spec => []GlobInv
BY GlobInit, GlobStep, PTL DEF Spec

-----------------------------------------------------------------------------
(***************************************************************************)
(* What the invariant says.                                                *)
(***************************************************************************)

\* However long the pattern and the text are, the recursion of glob_match is
\* not deeper than the pattern is long, and one.
THEOREM DepthIsAlwaysBounded == Spec => []DepthIsBounded
<1>1. ASSUME GlobInv
      PROVE  DepthIsBounded
  <2>1. \A i, j \in DOMAIN stack : i < j => stack[i].p < stack[j].p
    BY <1>1 DEF GlobInv, StackOK
  <2>2. \A i \in 1 .. Len(stack) - 1 : stack[i].rest # 0
    BY <1>1 DEF GlobInv, StackOK
  <2>3. Len(stack) <= PatternEnd
    <3>1. CASE stack = <<>>
      BY <1>1, <3>1 DEF GlobInv, GlobTypeOK, StringsOK, PatternEnd
    <3>2. CASE stack # <<>>
      <4>1. Len(stack) \in DOMAIN stack
        BY <1>1, <3>2, TopFacts DEF GlobInv, GlobTypeOK
      <4>2. Len(stack) <= Top.p
        BY <1>1, <4>1 DEF GlobInv, StackOK, Top
      <4> QED
        BY <1>1, <3>2, <4>2, TopFacts
    <3> QED
      BY <3>1, <3>2
  <2> QED
    BY <2>1, <2>2, <2>3 DEF DepthIsBounded
<1> QED
  BY <1>1, GlobIsInvariant, PTL

\* glob_match evaluates no place twice, whatever the number of stars.
THEOREM WorkIsAlwaysBounded == Spec => []WorkIsBounded
<1>1. ASSUME GlobInv
      PROVE  WorkIsBounded
  <2> DEFINE W == {i \in DOMAIN stack : stack[i].rest # 0}
  <2>1. stack \in Seq(Frame) /\ Len(stack) \in Nat /\ DOMAIN stack = 1 .. Len(stack)
    BY <1>1 DEF GlobInv, GlobTypeOK
  <2>2. W = 1 .. Waiting /\ Waiting \in Nat
    <3>1. CASE stack = <<>>
      BY <1>1, <2>1, <3>1 DEF GlobInv, StackOK, Waiting
    <3>2. CASE stack # <<>>
      <4>1. Len(stack) \in Nat \ {0}
        BY <1>1, <3>2, TopFacts
      <4>2. \A i \in 1 .. Len(stack) - 1 : stack[i].rest # 0
        BY <1>1 DEF GlobInv, StackOK
      <4>3. stack[Len(stack)].rest = 0 <=> returned = Unknown
        BY <1>1, <3>2 DEF GlobInv, StackOK, Top
      <4> QED
        BY <2>1, <4>1, <4>2, <4>3 DEF Waiting
    <3> QED
      BY <3>1, <3>2
  <2>3. Cardinality(W) = Waiting
    <3> HIDE DEF W
    <3> QED
      BY <2>2, FS_Interval
  <2> QED
    BY <1>1, <2>3 DEF GlobInv, WorkOK, WorkIsBounded, Cached
<1> QED
  BY <1>1, GlobIsInvariant, PTL

\* When glob_match has returned, it has found out whether the text matches the
\* pattern, for every pattern and every text.
THEOREM MatchIsAlwaysRight == Spec => []MatchIsRight
<1>1. ASSUME GlobInv
      PROVE  MatchIsRight
  <2> SUFFICES ASSUME stack = <<>>
               PROVE  /\ returned = Match(1, 1)
                      /\ \A place \in Places :
                           cache[place] \in {Match(place[1], place[2]), Unknown}
    BY DEF MatchIsRight, Done
  <2>1. \A p, t : Match(p, t) \in BOOLEAN
    BY MatchHasCut
  <2>2. returned = Match(1, 1)
    <3>1. returned \in BOOLEAN
      BY <1>1 DEF GlobInv, GlobTypeOK, StackOK
    <3>2. PatternEnd \in Nat \ {0} /\ TextEnd \in Nat \ {0}
      BY <1>1 DEF GlobInv, GlobTypeOK, StringsOK, PatternEnd, TextEnd
    <3>3. <<1, 1>> \in Matching <=> Match(1, 1)
      BY <3>2, InMatching
    <3>4. returned <=> <<1, 1>> \in Matching
      BY <1>1, <3>1 DEF GlobInv, ReturnedOK, Asked
    <3> QED
      BY <2>1, <3>1, <3>3, <3>4
  <2>3. ASSUME NEW place \in Places
        PROVE  cache[place] \in {Match(place[1], place[2]), Unknown}
    <3>1. cache[place] \in BOOLEAN \union {Unknown}
      BY <1>1, <2>3 DEF GlobInv, GlobTypeOK
    <3>2. place \in Matching <=> Match(place[1], place[2])
      BY <2>3 DEF Matching
    <3>3. cache[place] \in BOOLEAN => (cache[place] <=> place \in Matching)
      BY <1>1, <2>3 DEF GlobInv, CacheOK
    <3> QED
      BY <2>1, <3>1, <3>2, <3>3
  <2> QED
    BY <2>2, <2>3
<1> QED
  BY <1>1, GlobIsInvariant, PTL
=============================================================================
