-------------------------------- MODULE Glob --------------------------------
(***************************************************************************)
(* glob_match, the matcher of the KEYS command: a recursive function with  *)
(* a cache, as a machine with a stack of calls.                            *)
(*                                                                         *)
(* A call is about the place <<p, t>>: the rest of the pattern from p and  *)
(* the rest of the text from t.  A position behind the last character is   *)
(* the end.  A call on top of the stack is evaluated; when it returns, the *)
(* call below it goes on.                                                  *)
(***************************************************************************)
EXTENDS Integers, Sequences, FiniteSets

CONSTANTS
  Characters,  \* the characters of texts
  Star, Any,   \* '*' and '?'
  Unknown,     \* a place that is not in the cache, a result still to come
  MaxPattern,  \* bound: length of the pattern
  MaxText      \* bound: length of the text

ASSUME GlobParametersAreSane ==
  /\ Star \notin Characters /\ Any \notin Characters /\ Star # Any
  /\ Unknown \notin BOOLEAN
  /\ MaxPattern \in Nat /\ MaxText \in Nat

VARIABLES
  pattern, text,
  stack,        \* the calls that have not returned, the oldest first
  cache,        \* the result of each place, Unknown if it is not cached
  returned,     \* what the call that has just returned has answered
  evaluations   \* how many calls the cache has not answered

vars == <<pattern, text, stack, cache, returned, evaluations>>

PatternEnd == Len(pattern) + 1
TextEnd    == Len(text) + 1
Places     == (1 .. PatternEnd) \X (1 .. TextEnd)

Strings(chars, n) == UNION {[1 .. m -> chars] : m \in 0 .. n}

\* A call that has not done anything: it tries what follows the pattern's
\* position `rest' from the text's position `at' on.
Called(p, t) == [p |-> p, t |-> t, rest |-> 0, at |-> 0]

Init ==
  /\ pattern \in Strings(Characters \union {Star, Any}, MaxPattern)
  /\ text \in Strings(Characters, MaxText)
  /\ stack = <<Called(1, 1)>>
  /\ cache = [place \in Places |-> Unknown]
  /\ returned = Unknown /\ evaluations = 0

Top   == stack[Len(stack)]
Below == SubSeq(stack, 1, Len(stack) - 1)
Place(call) == <<call.p, call.t>>

-----------------------------------------------------------------------------
\* The top call returns b without storing it.
Answer(b) ==
  /\ stack' = Below /\ returned' = b
  /\ UNCHANGED <<pattern, text, cache>>

\* Faulty variant: nothing is stored.
NotStored(b) == UNCHANGED cache

Stored(b) == cache' = [cache EXCEPT ![Place(Top)] = b]

\* The top call stores its result b and returns.
Finish(b) ==
  /\ stack' = Below /\ returned' = b
  /\ Stored(b)
  /\ UNCHANGED <<pattern, text>>

\* The top call goes on as `call' and calls the place <<rest, at>>.
Try(rest, at) ==
  /\ stack' = Below \o <<[Top EXCEPT !.rest = rest, !.at = at], Called(rest, at)>>
  /\ returned' = Unknown
  /\ UNCHANGED <<pattern, text, cache>>

\* Faulty variant: the stars are not skipped.
AtStars(p) == p

\* The first position from p on that is no star.
BehindStars(p) ==
  CHOOSE q \in p .. PatternEnd :
    /\ \A i \in p .. q - 1 : pattern[i] = Star
    /\ q = PatternEnd \/ pattern[q] # Star

\* Evaluating the top call: it has not called anything.
IsFresh == stack # <<>> /\ Top.rest = 0

\* Faulty variant: text may be left over.
EndMatchesAll(t) == TRUE

EndMatches(t) == t = TextEnd

AtEnd ==
  /\ IsFresh /\ Top.p = PatternEnd
  /\ Answer(EndMatches(Top.t))
  /\ UNCHANGED evaluations

FromCache ==
  /\ IsFresh /\ Top.p # PatternEnd /\ cache[Place(Top)] # Unknown
  /\ Answer(cache[Place(Top)])
  /\ UNCHANGED evaluations

Evaluates ==
  /\ IsFresh /\ Top.p # PatternEnd /\ cache[Place(Top)] = Unknown
  /\ evaluations' = evaluations + 1

\* A run of stars matches nothing at first, then one character more each time.
EvaluateStar ==
  /\ Evaluates /\ pattern[Top.p] = Star
  /\ LET q == BehindStars(Top.p)
     IN  IF q = PatternEnd THEN Finish(TRUE) ELSE Try(q, Top.t)

Matches == Top.t # TextEnd /\ pattern[Top.p] \in {Any, text[Top.t]}

\* A question mark matches any character, any other character itself.
EvaluateOne ==
  /\ Evaluates /\ pattern[Top.p] # Star
  /\ IF Matches THEN Try(Top.p + 1, Top.t + 1) ELSE Finish(FALSE)

\* Also the empty piece at the end of the text is tried.
TriesMore(call) == call.at < TextEnd

\* Faulty variant: the same piece once more.
NotLonger(call) == call.at

Longer(call) == call.at + 1

\* A call goes on with what the one above it has returned.
Resume ==
  /\ stack # <<>> /\ Top.rest # 0 /\ returned # Unknown
  /\ IF ~returned /\ pattern[Top.p] = Star /\ TriesMore(Top)
       THEN Try(Top.rest, Longer(Top)) ELSE Finish(returned)
  /\ UNCHANGED evaluations

Next == AtEnd \/ FromCache \/ EvaluateStar \/ EvaluateOne \/ Resume

Spec == Init /\ [][Next]_vars /\ WF_vars(Next)

-----------------------------------------------------------------------------
Done == stack = <<>>

\* The calls that wait are about later and later positions of the pattern:
\* the recursion is not deeper than the pattern is long, and one, and no call
\* waits for itself.
DepthIsBounded ==
  /\ Len(stack) <= PatternEnd
  /\ \A i, j \in DOMAIN stack : i < j => stack[i].p < stack[j].p
  /\ \A i \in 1 .. Len(stack) - 1 : stack[i].rest # 0

\* No place is evaluated twice, however many stars the pattern has: the calls
\* evaluated are those that wait and one for each place in the cache.
WorkIsBounded ==
  evaluations <= Cardinality({place \in Places : cache[place] # Unknown})
                   + Cardinality({i \in DOMAIN stack : stack[i].rest # 0})

\* What matching means: the text is cut into one piece for each character of
\* the pattern, a piece of any length for a star, and of one character for
\* any other, which it is unless the pattern has a question mark.
Match(p, t) ==
  \E cut \in [p - 1 .. Len(pattern) -> t - 1 .. Len(text)] :
    /\ cut[p - 1] = t - 1 /\ cut[Len(pattern)] = Len(text)
    /\ \A i, j \in p - 1 .. Len(pattern) : i <= j => cut[i] <= cut[j]
    /\ \A i \in p .. Len(pattern) :
         \/ pattern[i] = Star
         \/ cut[i] = cut[i - 1] + 1 /\ pattern[i] \in {Any, text[cut[i]]}

\* The result, and every result the cache holds, is right.
MatchIsRight ==
  Done => /\ returned = Match(1, 1)
          /\ \A place \in Places :
               cache[place] \in {Match(place[1], place[2]), Unknown}

\* Every match ends.
Terminates == <>Done
=============================================================================
