-------------------------- MODULE RolloutContinuation --------------------------
(***************************************************************************)
(* Theorems about RolloutSync: a trajectory that updates cut goes on as if *)
(* it had not been cut, an answer of the validation comes from the steps   *)
(* it reports, and the types.                                              *)
(*                                                                         *)
(* The words of a trajectory, of its request and the place of its          *)
(* coroutine are tied together by ContinuationInv; the validation's words  *)
(* by ValidationInv.                                                       *)
(***************************************************************************)
EXTENDS RolloutSyncProofs

\* Words that follow the first n of the script.
Follow(words, n) == \A k \in 1 .. Len(words) : words[k].i = n + k

\* Where a turn ends that a request takes up behind n words.
TurnEnd(n) == IF agent = "tool" /\ n <= 1 THEN 2 ELSE Len(Script)

\* Where words are asked for: not behind a call that has not been answered.
Asks(n) == n < Len(Script) /\ (agent = "tool" => n # 2)

\* Where an uninterrupted trajectory ends.
Ending ==
    IF agent = "tool" /\ limit = 3 THEN 2
    ELSE IF limit < Len(Script) THEN limit ELSE Len(Script)

\* A trajectory's words are those of the script, each with its mask and logprob.
WordsExact(d) ==
    /\ Len(d.logprobs) = Len(d.text) /\ Len(d.text) <= Len(Script)
    /\ d.logprobs \in Seq(Nat) /\ Follow(d.text, 0)
    /\ \A k \in 1 .. Len(d.text) :
          /\ d.mask[k] = IF WordAt(k) = "answer" THEN 0 ELSE 1
          /\ d.mask[k] = 0 => d.text[k].v = NotGenerated
          /\ d.logprobs[k] = k * d.mask[k]

\* A trajectory that can be taken up: before a turn, inside one, or before the tools.
Resumable(d) ==
    /\ d.scored = 0 /\ Len(d.text) < Len(Script) /\ (Len(d.text) = 0 \/ Len(d.text) < limit)
    /\ agent = "single" => d.state = "PENDING"
    /\ agent = "tool" =>
          \/ d.state = "PENDING" /\ Len(d.text) = 0
          \/ d.state = "GENERATING" /\ Len(d.text) # 2
          \/ d.state = "PROCESSING_TOOLS" /\ Len(d.text) = 2

\* One that ended where an uninterrupted one ends, or after a tool call in two parts.
Finished(d) ==
    /\ d.scored = 1
    /\ \/ Len(d.text) = Ending
       \/ agent = "tool" /\ Len(d.text) = 2 /\ d.text[1].v # d.text[2].v

Taken(d) == IF d.cancel THEN Resumable(d) ELSE Finished(d)

\* What a request of trajectory d asks for and has, where its coroutine is at place w.
Asked(d, r, w) ==
    /\ w \in {"sent", "serving"} => Asks(Len(d.text)) /\ (agent = "tool" => d.state = "GENERATING")
    /\ w = "tools" => d.state = "PROCESSING_TOOLS"
    /\ w # "serving" => r.out = << >>
    /\ w = "serving" =>
          /\ r.prompt = d.text /\ r.server = d.home /\ Follow(r.out, Len(d.text))
          /\ IF r.over THEN Len(d.text) + Len(r.out) = TurnEnd(Len(d.text))
                       ELSE Len(d.text) + Len(r.out) < TurnEnd(Len(d.text))

\* Text and mask, as VersionsInv has them.
Texts(d) == d.text \in Seq(Word) /\ d.mask \in Seq({0, 1}) /\ Len(d.mask) = Len(d.text)

-----------------------------------------------------------------------------
(* The script.                                                             *)

\* What a script of the shape is, for the agent of the run.
LEMMA ScriptFacts ==
    ASSUME ScriptShape, agent \in DOMAIN Scripts
    PROVE  /\ agent \in {"single", "tool"} /\ Script \in Seq(STRING)
           /\ Len(Script) \in Nat /\ Len(Script) > 0 /\ Len(Script) <= Cap /\ Cap \in Nat
           /\ agent = "tool" => Len(Script) > 3
           /\ \A i \in 1 .. Len(Script) : WordAt(i) = Script[i]
           /\ \A i \in Nat : i > Len(Script) => WordAt(i) = "beyond"
           /\ agent = "single" => \A i \in 1 .. Len(Script) : Script[i] = "word"
           /\ agent = "tool" =>
                 /\ Script[1] = "open" /\ Script[2] = "close" /\ Script[3] = "answer"
                 /\ \A i \in 4 .. Len(Script) : Script[i] = "word"
<1>1. agent \in {"single", "tool"} /\ Script \in Seq(STRING) /\ Len(Script) <= Cap /\ Cap \in Nat
  BY DEF ScriptShape, Script
<1>2. DOMAIN Script = 1 .. Len(Script) /\ Len(Script) \in Nat
  BY <1>1
<1>3. CASE agent = "single"
  BY <1>1, <1>2, <1>3 DEF ScriptShape, Script, WordAt
<1>4. CASE agent = "tool"
  BY <1>1, <1>2, <1>4 DEF ScriptShape, Script, WordAt
<1> QED
  BY <1>1, <1>3, <1>4

\* The turn behind n words: none of it is a tool's answer, and only its last word ends it.
LEMMA TurnFacts ==
    ASSUME ScriptShape, agent \in DOMAIN Scripts, NEW n \in Nat, Asks(n)
    PROVE  /\ TurnEnd(n) \in Nat /\ n < TurnEnd(n) /\ TurnEnd(n) <= Len(Script)
           /\ \A i \in Nat : n < i /\ i <= TurnEnd(n) =>
                 WordAt(i) # "answer" /\ (EndsTurn(i) <=> i = TurnEnd(n))
<1>1. CASE agent = "single"
  <2>1. TurnEnd(n) = Len(Script)
    BY <1>1 DEF TurnEnd
  <2>2. ASSUME NEW i \in Nat, n < i, i <= Len(Script)
        PROVE  WordAt(i) # "answer" /\ (EndsTurn(i) <=> i = Len(Script))
    <3>1. WordAt(i) = "word" /\ (i < Len(Script) => WordAt(i + 1) = "word")
      BY <1>1, <2>2, ScriptFacts
    <3>2. Len(Script) \in Nat
      BY ScriptFacts
    <3> QED
      BY <2>2, <3>1, <3>2 DEF EndsTurn
  <2> QED
    BY <2>1, <2>2, ScriptFacts DEF Asks
<1>2. CASE agent = "tool" /\ n <= 1
  <2>1. TurnEnd(n) = 2 /\ Len(Script) > 3 /\ Len(Script) \in Nat
    BY <1>2, ScriptFacts DEF TurnEnd
  <2>2. WordAt(1) = "open" /\ WordAt(2) = "close" /\ WordAt(3) = "answer"
    BY <1>2, <2>1, ScriptFacts
  <2>3. ASSUME NEW i \in Nat, n < i, i <= 2
        PROVE  WordAt(i) # "answer" /\ (EndsTurn(i) <=> i = 2)
    <3>1. CASE i = 1
      BY <2>1, <2>2, <3>1 DEF EndsTurn
    <3>2. CASE i = 2
      BY <2>1, <2>2, <3>2 DEF EndsTurn
    <3> QED
      BY <2>3, <3>1, <3>2
  <2> QED
    BY <1>2, <2>1, <2>3
<1>3. CASE agent = "tool" /\ ~(n <= 1)
  <2>1. TurnEnd(n) = Len(Script) /\ Len(Script) \in Nat /\ n > 2 /\ n < Len(Script)
    BY <1>3, ScriptFacts DEF TurnEnd, Asks
  <2>2. ASSUME NEW i \in Nat, n < i, i <= Len(Script)
        PROVE  WordAt(i) # "answer" /\ (EndsTurn(i) <=> i = Len(Script))
    <3>1. WordAt(i) = "word" /\ (i < Len(Script) => WordAt(i + 1) = "word")
      <4>1. i \in 4 .. Len(Script) /\ (i < Len(Script) => i + 1 \in 4 .. Len(Script))
        BY <2>1, <2>2
      <4>2. \A j \in 4 .. Len(Script) : WordAt(j) = "word"
        BY <1>3, ScriptFacts
      <4> QED
        BY <4>1, <4>2
    <3> QED
      BY <2>1, <2>2, <3>1 DEF EndsTurn
  <2> QED
    BY <2>1, <2>2
<1> QED
  BY <1>1, <1>2, <1>3, ScriptFacts

\* Ending is where the definition of an uninterrupted loop says.
LEMMA EndingIsUninterrupted ==
    ASSUME ScriptShape, agent \in DOMAIN Scripts, limit \in Nat
    PROVE  Uninterrupted = Ending /\ Ending \in Nat
<1> DEFINE unfit == {i \in DOMAIN Script : Script[i] = "answer" /\ i >= limit}
           least(m, n) == IF m < n THEN m ELSE n
           bound == IF unfit = {} THEN Len(Script)
                    ELSE (CHOOSE i \in unfit : \A j \in unfit : i <= j) - 1
<1>1. Uninterrupted = least(limit, bound)
  BY Zenon DEF Uninterrupted
<1>2. DOMAIN Script = 1 .. Len(Script) /\ Len(Script) \in Nat
  BY ScriptFacts
<1>3. CASE agent = "single" \/ limit > 3
  <2>1. unfit = {}
    <3> SUFFICES ASSUME NEW i \in 1 .. Len(Script), Script[i] = "answer", i >= limit PROVE FALSE
      BY <1>2
    <3>1. CASE agent = "single"
      BY <3>1, ScriptFacts
    <3>2. CASE agent = "tool" /\ limit > 3
      <4>1. i \in 4 .. Len(Script)
        BY <1>2, <3>2
      <4>2. Script[i] = "word"
        BY <3>2, <4>1, ScriptFacts
      <4> QED
        BY <4>2
    <3> QED
      BY <1>3, <3>1, <3>2, ScriptFacts
  <2>2. Uninterrupted = least(limit, Len(Script))
    BY <1>1, <2>1
  <2> HIDE DEF bound, unfit
  <2>3. Ending = IF limit < Len(Script) THEN limit ELSE Len(Script)
    BY <1>3 DEF Ending
  <2> QED
    BY <1>2, <2>2, <2>3
<1>4. CASE agent = "tool" /\ limit <= 3
  <2>1. unfit = {3}
    <3>1. Len(Script) > 3 /\ Script[1] = "open" /\ Script[2] = "close" /\ Script[3] = "answer"
          /\ \A i \in 4 .. Len(Script) : Script[i] = "word"
      BY <1>4, ScriptFacts
    <3>2. 3 \in unfit
      BY <1>2, <1>4, <3>1
    <3>3. ASSUME NEW i \in 1 .. Len(Script), Script[i] = "answer" PROVE i = 3
      <4>1. i = 1 \/ i = 2 \/ i = 3 \/ i \in 4 .. Len(Script)
        BY <1>2
      <4> QED
        BY <3>1, <3>3, <4>1
    <3> QED
      BY <1>2, <3>2, <3>3
  <2>2. (CHOOSE i \in unfit : \A j \in unfit : i <= j) = 3
    BY <2>1
  <2>3. bound = 2
    BY <2>1, <2>2
  <2> HIDE DEF bound
  <2>4. Uninterrupted = least(limit, 2) /\ Len(Script) > 3
    BY <1>1, <1>4, <2>3, ScriptFacts
  <2> QED
    BY <1>2, <1>4, <2>4 DEF Ending
<1> QED
  BY <1>3, <1>4, ScriptFacts

-----------------------------------------------------------------------------
(* What the loops do with words.                                           *)

\* The index that follows the words of a prompt and of what came behind it.
LEMMA NextFollows ==
    ASSUME NEW p \in Seq(Word), NEW out \in Seq(Word), Follow(p, 0), Follow(out, Len(p))
    PROVE  NextIndex(p \o out) = Len(p) + Len(out) + 1
<1> DEFINE q == p \o out
<1>1. /\ q \in Seq(Word) /\ Len(q) = Len(p) + Len(out)
      /\ \A i \in 1 .. Len(p) + Len(out) : q[i] = IF i <= Len(p) THEN p[i] ELSE out[i - Len(p)]
  BY ConcatProperties
<1> HIDE DEF q
<1>2. Len(p) \in Nat /\ Len(out) \in Nat
  OBVIOUS
<1>3. CASE q = << >>
  <2>1. Len(q) = 0
    BY <1>3
  <2> QED
    BY <1>1, <1>2, <1>3, <2>1 DEF NextIndex, q
<1>4. CASE q # << >>
  <2>1. Len(q) > 0
    BY <1>1, <1>2, <1>4, EmptySeq
  <2>2. q[Len(q)].i = Len(q)
    <3>1. CASE Len(out) = 0
      BY <1>1, <1>2, <2>1, <3>1 DEF Follow
    <3>2. CASE Len(out) > 0
      <4> DEFINE i == Len(p) + Len(out)
      <4>3. i \in 1 .. Len(p) + Len(out) /\ ~(i <= Len(p)) /\ i - Len(p) = Len(out)
        BY <1>2, <3>2
      <4>1. q[Len(q)] = out[Len(out)] /\ Len(out) \in 1 .. Len(out)
        <5>1. q[i] = out[i - Len(p)]
          BY <1>1, <4>3, Zenon
        <5> QED
          BY <1>1, <1>2, <3>2, <4>3, <5>1
      <4>2. out[Len(out)].i = Len(p) + Len(out)
        BY <4>1 DEF Follow
      <4> QED
        BY <1>1, <4>1, <4>2
    <3> QED
      BY <1>2, <3>1, <3>2
  <2> QED
    BY <1>1, <1>4, <2>2 DEF NextIndex, q
<1> QED
  BY <1>3, <1>4

\* The next word of a request, and when it is the last.
LEMMA EmitFollows ==
    ASSUME ScriptShape, agent \in DOMAIN Scripts, NEW p \in Seq(Word), NEW out \in Seq(Word),
           Follow(p, 0), Asks(Len(p)), Follow(out, Len(p)),
           Len(p) + Len(out) < TurnEnd(Len(p)), NEW v \in Int
    PROVE  LET word == [i |-> NextIndex(p \o out), v |-> v]
               more == Append(out, word)
           IN  /\ more \in Seq(Word) /\ Len(more) = Len(out) + 1 /\ Follow(more, Len(p))
               /\ (EndsTurn(word.i) \/ Len(p) + Len(more) >= Cap)
                    <=> Len(p) + Len(more) = TurnEnd(Len(p))
               /\ Len(p) + Len(more) <= TurnEnd(Len(p))
<1> DEFINE word == [i |-> NextIndex(p \o out), v |-> v]
           more == Append(out, word)
<1>1. word.i = Len(p) + Len(out) + 1 /\ word \in Word
  BY NextFollows DEF Word
<1> HIDE DEF word
<1>2. more \in Seq(Word) /\ Len(more) = Len(out) + 1
  BY <1>1
<1>3. Follow(more, Len(p))
  <2> SUFFICES ASSUME NEW k \in 1 .. Len(more) PROVE more[k].i = Len(p) + k
    BY DEF Follow
  <2>1. CASE k = Len(out) + 1
    BY <1>1, <2>1
  <2>2. CASE k # Len(out) + 1
    BY <1>2, <2>2 DEF Follow
  <2> QED
    BY <2>1, <2>2
<1> HIDE DEF more
<1>4. /\ TurnEnd(Len(p)) \in Nat /\ TurnEnd(Len(p)) <= Len(Script)
      /\ EndsTurn(word.i) <=> word.i = TurnEnd(Len(p))
  BY <1>1, TurnFacts
<1>5. Cap \in Nat /\ Len(Script) <= Cap /\ Len(Script) \in Nat
  BY ScriptFacts
<1> QED
  BY <1>1, <1>2, <1>3, <1>4, <1>5 DEF word, more

\* A call is found in the words of a request only if the request began with it.
LEMMA CallFound ==
    ASSUME ScriptShape, agent \in DOMAIN Scripts, agent = "tool", NEW n \in Nat, Asks(n),
           NEW out \in Seq(Word), Follow(out, n), n + Len(out) = TurnEnd(n)
    PROVE  HasCall(out) <=> n = 0
<1>1. /\ WordAt(1) = "open" /\ WordAt(2) = "close" /\ Len(Script) > 3 /\ Len(Script) \in Nat
      /\ \A i \in 4 .. Len(Script) : WordAt(i) = "word"
  BY ScriptFacts
<1>2. DOMAIN out = 1 .. Len(out) /\ Len(out) \in Nat
  OBVIOUS
<1>3. CASE n = 0
  <2>1. Len(out) = 2
    BY <1>2, <1>3 DEF TurnEnd
  <2>2. WordAt(out[1].i) = "open" /\ WordAt(out[2].i) = "close"
    BY <1>1, <1>3, <2>1 DEF Follow
  <2> QED
    BY <1>2, <1>3, <2>1, <2>2 DEF HasCall
<1>4. CASE n = 1
  <2>1. Len(out) = 1
    BY <1>2, <1>4 DEF TurnEnd
  <2>2. WordAt(out[1].i) = "close"
    BY <1>1, <1>4, <2>1 DEF Follow
  <2>3. \A k \in DOMAIN out : WordAt(out[k].i) # "open"
    BY <1>2, <2>1, <2>2
  <2> QED
    BY <1>4, <2>3 DEF HasCall
<1>5. CASE n > 1
  <2>1. TurnEnd(n) = Len(Script) /\ n > 2
    BY <1>5 DEF TurnEnd, Asks
  <2>2. \A k \in DOMAIN out : WordAt(out[k].i) # "open"
    <3> TAKE k \in DOMAIN out
    <3>1. out[k].i = n + k /\ n + k \in 4 .. Len(Script)
      BY <1>1, <1>2, <2>1 DEF Follow
    <3> QED
      BY <1>1, <3>1
  <2> QED
    BY <1>5, <2>2 DEF HasCall
<1> QED
  BY <1>3, <1>4, <1>5

\* Words behind a trajectory's own keep it exact.
LEMMA ExtendedExact ==
    ASSUME ScriptShape, agent \in DOMAIN Scripts, NEW d, Row(d), Texts(d), WordsExact(d),
           Asks(Len(d.text)), NEW out \in Seq(Word), Follow(out, Len(d.text)),
           Len(d.text) + Len(out) <= TurnEnd(Len(d.text))
    PROVE  LET e == Extended(d, out)
           IN  /\ Row(e) /\ Texts(e) /\ WordsExact(e) /\ e.text = d.text \o out
               /\ Len(e.text) = Len(d.text) + Len(out)
               /\ e.scored = d.scored /\ e.state = d.state /\ e.cancel = d.cancel
               /\ e.home = d.home
<1> DEFINE e == Extended(d, out)
           n == Len(d.text)
<1>1. /\ e.text = d.text \o out /\ e.mask = d.mask \o Ones(Len(out))
      /\ e.logprobs = d.logprobs \o Indices(out)
      /\ e.scored = d.scored /\ e.state = d.state /\ e.cancel = d.cancel /\ e.home = d.home
      /\ Row(e)
  BY DEF Extended, Row, Fields
<1> HIDE DEF e
<1>2. /\ d.text \in Seq(Word) /\ d.mask \in Seq({0, 1}) /\ d.logprobs \in Seq(Nat)
      /\ Len(d.mask) = n /\ Len(d.logprobs) = n /\ n \in Nat /\ Len(out) \in Nat
  BY DEF Texts, WordsExact
<1>0. Follow(out, n) /\ Asks(n) /\ n + Len(out) <= TurnEnd(n)
  OBVIOUS
<1> HIDE DEF n
<1>3. Ones(Len(out)) \in Seq({0, 1}) /\ Len(Ones(Len(out))) = Len(out)
      /\ \A k \in 1 .. Len(out) : Ones(Len(out))[k] = 1
  BY <1>2 DEF Ones
<1>4. /\ Indices(out) \in Seq(Nat) /\ Len(Indices(out)) = Len(out)
      /\ \A k \in 1 .. Len(out) : Indices(out)[k] = n + k
  <2>1. \A k \in 1 .. Len(out) : out[k].i = n + k
    BY <1>0 DEF Follow
  <2>2. Indices(out) = [k \in 1 .. Len(out) |-> out[k].i]
    BY DEF Indices
  <2>3. \A k \in 1 .. Len(out) : out[k].i \in Nat
    BY <1>2, <2>1
  <2> QED
    BY <1>2, <2>1, <2>2, <2>3
<1>5. /\ e.text \in Seq(Word) /\ Len(e.text) = n + Len(out)
      /\ e.mask \in Seq({0, 1}) /\ Len(e.mask) = n + Len(out)
      /\ e.logprobs \in Seq(Nat) /\ Len(e.logprobs) = n + Len(out)
  <2>1. /\ d.text \o out \in Seq(Word) /\ Len(d.text \o out) = n + Len(out)
    BY <1>2, ConcatProperties DEF n
  <2>2. \A a, b \in Seq({0, 1}) : a \o b \in Seq({0, 1}) /\ Len(a \o b) = Len(a) + Len(b)
    BY ConcatProperties
  <2>3. \A a, b \in Seq(Nat) : a \o b \in Seq(Nat) /\ Len(a \o b) = Len(a) + Len(b)
    BY ConcatProperties
  <2> DEFINE ones == Ones(Len(out))
             indices == Indices(out)
  <2>4. ones \in Seq({0, 1}) /\ Len(ones) = Len(out) /\ e.mask = d.mask \o ones
    BY <1>1, <1>3
  <2>5. indices \in Seq(Nat) /\ Len(indices) = Len(out) /\ e.logprobs = d.logprobs \o indices
    BY <1>1, <1>4
  <2> HIDE DEF ones, indices
  <2>6. e.mask \in Seq({0, 1}) /\ Len(e.mask) = n + Len(out)
    BY <1>2, <2>2, <2>4
  <2>7. e.logprobs \in Seq(Nat) /\ Len(e.logprobs) = n + Len(out)
    BY <1>2, <2>3, <2>5
  <2> QED
    BY <1>1, <2>1, <2>6, <2>7
<1>6. /\ TurnEnd(n) \in Nat /\ TurnEnd(n) <= Len(Script)
      /\ \A i \in Nat : n < i /\ i <= TurnEnd(n) => WordAt(i) # "answer"
  BY <1>2, <1>0, TurnFacts
<1>7. Len(Script) \in Nat
  BY ScriptFacts
<1>8. \A k \in 1 .. n + Len(out) :
        /\ e.text[k] = IF k <= n THEN d.text[k] ELSE out[k - n]
        /\ e.mask[k] = IF k <= n THEN d.mask[k] ELSE Ones(Len(out))[k - n]
        /\ e.logprobs[k] = IF k <= n THEN d.logprobs[k] ELSE Indices(out)[k - n]
  <2>1. \A k \in 1 .. n + Len(out) : e.text[k] = IF k <= n THEN d.text[k] ELSE out[k - n]
    BY <1>1, <1>2, ConcatProperties DEF n
  <2>2. \A k \in 1 .. n + Len(out) :
          e.mask[k] = IF k <= n THEN d.mask[k] ELSE Ones(Len(out))[k - n]
    <3>1. \A a, b \in Seq({0, 1}) : \A k \in 1 .. Len(a) + Len(b) :
            (a \o b)[k] = IF k <= Len(a) THEN a[k] ELSE b[k - Len(a)]
      BY ConcatProperties
    <3> QED
      BY <1>1, <1>2, <1>3, <3>1
  <2>3. \A k \in 1 .. n + Len(out) :
          e.logprobs[k] = IF k <= n THEN d.logprobs[k] ELSE Indices(out)[k - n]
    <3> DEFINE p == d.logprobs
               q == Indices(out)
    <3>1. p \in Seq(Nat) /\ q \in Seq(Nat) /\ Len(p) = n /\ Len(q) = Len(out)
          /\ e.logprobs = p \o q
      BY <1>1, <1>2, <1>4
    <3> HIDE DEF p, q
    <3>2. \A k \in 1 .. Len(p) + Len(q) : (p \o q)[k] = IF k <= Len(p) THEN p[k] ELSE q[k - Len(p)]
      BY <3>1, ConcatProperties
    <3>3. \A k \in 1 .. n + Len(out) : e.logprobs[k] = IF k <= n THEN p[k] ELSE q[k - n]
      BY <3>1, <3>2
    <3> QED
      BY <3>3 DEF p, q
  <2> QED
    BY <2>1, <2>2, <2>3
<1>9. ASSUME NEW k \in 1 .. Len(e.text)
      PROVE  /\ e.text[k].i = k /\ e.mask[k] = IF WordAt(k) = "answer" THEN 0 ELSE 1
             /\ e.mask[k] = 0 => e.text[k].v = NotGenerated
             /\ e.logprobs[k] = k * e.mask[k]
  <2>1. CASE k <= n
    <3>1. e.text[k] = d.text[k] /\ e.mask[k] = d.mask[k] /\ e.logprobs[k] = d.logprobs[k]
          /\ k \in 1 .. n
      BY <1>2, <1>5, <1>8, <2>1
    <3>2. d.text[k].i = k
      BY <3>1 DEF WordsExact, Follow, n
    <3> QED
      BY <3>1, <3>2 DEF WordsExact, n
  <2>2. CASE k > n
    <3> DEFINE j == k - n
    <3>1. j \in 1 .. Len(out) /\ k = n + j
      BY <1>2, <1>5, <2>2
    <3>2. e.text[k] = out[j] /\ e.mask[k] = Ones(Len(out))[j]
          /\ e.logprobs[k] = Indices(out)[j]
      BY <1>2, <1>5, <1>8, <2>2
    <3> HIDE DEF j
    <3>3. e.text[k].i = k /\ e.mask[k] = 1 /\ e.logprobs[k] = k
      BY <1>0, <1>3, <1>4, <3>1, <3>2 DEF Follow
    <3>4. WordAt(k) # "answer"
      <4>1. k \in Nat /\ n < k /\ k <= TurnEnd(n)
        BY <1>2, <1>0, <1>5, <1>6, <2>2
      <4> QED
        BY <1>6, <4>1
    <3> QED
      BY <3>3, <3>4
  <2> QED
    BY <1>2, <1>5, <2>1, <2>2
<1>10. Follow(e.text, 0)
  BY <1>9 DEF Follow
<1>11. Len(e.text) <= Len(Script)
  BY <1>2, <1>0, <1>5, <1>6, <1>7
<1> QED
  BY <1>1, <1>5, <1>9, <1>10, <1>11 DEF e, Texts, WordsExact, n

\* A completed trajectory is cut to the limit and scored.
LEMMA CompletedExact ==
    ASSUME ScriptShape, agent \in DOMAIN Scripts, limit \in Nat, NEW d, Row(d), Texts(d),
           WordsExact(d)
    PROVE  LET e == Completed(d)
           IN  /\ WordsExact(e) /\ ~e.cancel /\ e.scored = d.scored + 1 /\ e.home = d.home
               /\ Len(e.text) = (IF limit < Len(d.text) THEN limit ELSE Len(d.text))
               /\ \A k \in 1 .. Len(e.text) : e.text[k] = d.text[k]
<1> DEFINE e == Completed(d)
<1>1. /\ e.text = Upto(limit, d.text) /\ e.mask = Upto(limit, d.mask)
      /\ e.logprobs = Upto(limit, d.logprobs) /\ e.scored = d.scored + 1 /\ ~e.cancel
      /\ e.home = d.home
  BY DEF Completed, Row, Fields
<1> HIDE DEF e
<1>2. /\ d.text \in Seq(Word) /\ d.mask \in Seq({0, 1}) /\ d.logprobs \in Seq(Nat)
      /\ Len(d.mask) = Len(d.text) /\ Len(d.logprobs) = Len(d.text) /\ Len(d.text) \in Nat
  BY DEF Texts, WordsExact
<1>3. /\ e.logprobs \in Seq(Nat) /\ Len(e.logprobs) = Len(e.text)
      /\ Len(e.text) = (IF limit < Len(d.text) THEN limit ELSE Len(d.text))
      /\ Len(e.mask) = Len(e.text)
  BY <1>1, <1>2, UptoCut
<1>4. ASSUME NEW k \in 1 .. Len(e.text)
      PROVE  /\ k \in 1 .. Len(d.text) /\ e.text[k] = d.text[k]
             /\ e.mask[k] = d.mask[k] /\ e.logprobs[k] = d.logprobs[k]
  <2>1. k \in 1 .. Len(d.text) /\ e.text[k] = d.text[k]
    BY <1>1, <1>2, UptoCut
  <2>2. e.mask[k] = d.mask[k]
    <3>1. \A s \in Seq({0, 1}) : \A j \in 1 .. Len(Upto(limit, s)) : Upto(limit, s)[j] = s[j]
      BY UptoCut
    <3> QED
      BY <1>1, <1>2, <1>3, <3>1
  <2>3. e.logprobs[k] = d.logprobs[k]
    <3>1. \A s \in Seq(Nat) : \A j \in 1 .. Len(Upto(limit, s)) : Upto(limit, s)[j] = s[j]
      BY UptoCut
    <3> QED
      BY <1>1, <1>2, <1>3, <3>1
  <2> QED
    BY <2>1, <2>2, <2>3
<1>5. Len(e.text) <= Len(Script)
  BY <1>2, <1>3, ScriptFacts DEF WordsExact
<1>6. Follow(e.text, 0)
  BY <1>4 DEF WordsExact, Follow
<1> QED
  BY <1>1, <1>3, <1>4, <1>5, <1>6 DEF e, WordsExact

\* Where a trajectory that ends behind a request's words ends.
LEMMA EndsRight ==
    ASSUME ScriptShape, agent \in DOMAIN Scripts, limit \in Nat, NEW n \in Nat, Asks(n),
           n = 0 \/ n < limit, NEW m \in Nat, n <= m, m <= TurnEnd(n)
    PROVE  /\ m >= limit => limit = Ending
           /\ m < limit /\ m = TurnEnd(n) => m = Ending \/ (agent = "tool" /\ n <= 1 /\ m = 2)
<1>1. /\ agent \in {"single", "tool"} /\ Len(Script) \in Nat
      /\ agent = "tool" => Len(Script) > 3
  BY ScriptFacts
<1>2. n < Len(Script) /\ (agent = "tool" => n # 2)
  BY DEF Asks
<1>3. CASE agent = "single"
  BY <1>1, <1>2, <1>3 DEF TurnEnd, Ending
<1>4. CASE agent = "tool" /\ n <= 1
  BY <1>1, <1>2, <1>4 DEF TurnEnd, Ending
<1>5. CASE agent = "tool" /\ n > 1
  BY <1>1, <1>2, <1>5 DEF TurnEnd, Ending
<1> QED
  BY <1>1, <1>3, <1>4, <1>5

\* A request that stopped short did not stop behind the call.
LEMMA CutShort ==
    ASSUME agent = "tool", NEW n \in Nat, Asks(n), NEW k \in Nat, n + k < TurnEnd(n)
    PROVE  n + k # 2
<1>1. n # 2
  BY DEF Asks
<1>2. CASE n <= 1
  BY <1>2 DEF TurnEnd
<1> QED
  BY <1>1, <1>2

\* Where the second word of a call was asked for alone, it is one word behind one.
LEMMA SecondPart ==
    ASSUME NEW n \in Nat, NEW k \in Nat, n <= 1, n # 0, n + k = 2
    PROVE  n = 1 /\ k = 1
  OBVIOUS

\* A call of two parts.
LEMMA TwoParts ==
    ASSUME NEW p \in Seq(Word), NEW q \in Seq(Word), Len(p) = 1, Len(q) = 1
    PROVE  (p \o q)[1] = p[1] /\ (p \o q)[2] = q[1]
<1>1. 1 \in 1 .. Len(p) + Len(q) /\ 2 \in 1 .. Len(p) + Len(q)
  OBVIOUS
<1> QED
  BY <1>1, ConcatProperties

\* The words of a request that stops or ends leave a trajectory exact.
LEMMA ReceiveExact ==
    ASSUME ScriptShape, agent \in DOMAIN Scripts, limit \in Nat, Shaped,
           NEW t \in Trajectories, data[t].cancel, Texts(data[t]), WordsExact(data[t]),
           Resumable(data[t]), Asks(Len(data[t].text)),
           agent = "tool" => data[t].state = "GENERATING",
           NEW out \in Seq(Word), Follow(out, Len(data[t].text)), NEW cancelled \in BOOLEAN,
           IF cancelled THEN Len(data[t].text) + Len(out) < TurnEnd(Len(data[t].text))
                        ELSE Len(data[t].text) + Len(out) = TurnEnd(Len(data[t].text)),
           agent = "tool" /\ Len(data[t].text) = 1 /\ Len(out) > 0 =>
               data[t].text[1].v # out[1].v,
           Receive(t, out, cancelled)
    PROVE  /\ WordsExact(data'[t]) /\ Taken(data'[t])
           /\ data'[t].cancel /\ agent = "tool" =>
                 /\ data'[t].text = data[t].text \o out /\ data'[t].home = data[t].home
                 /\ Len(data'[t].text) = Len(data[t].text) + Len(out)
<1> DEFINE d == Extended(data[t], out)
           n == Len(data[t].text)
           e == Completed(d)
<1>1. n \in Nat /\ Len(out) \in Nat /\ Row(data[t]) /\ DOMAIN data = Trajectories
  BY DEF Texts, Shaped
<1>2. /\ TurnEnd(n) \in Nat /\ n < TurnEnd(n) /\ TurnEnd(n) <= Len(Script) /\ Len(Script) \in Nat
      /\ n + Len(out) <= TurnEnd(n)
  BY <1>1, TurnFacts, ScriptFacts
<1>3. /\ Row(d) /\ Texts(d) /\ WordsExact(d) /\ d.text = data[t].text \o out
      /\ Len(d.text) = n + Len(out) /\ d.scored = data[t].scored /\ d.state = data[t].state
      /\ d.cancel /\ d.home = data[t].home
  BY <1>1, <1>2, ExtendedExact
<1>4. Len(d.mask) = n + Len(out)
  BY <1>3 DEF Texts
<1>5. /\ data[t].scored = 0 /\ (n = 0 \/ n < limit) /\ n < Len(Script)
      /\ agent = "single" => data[t].state = "PENDING"
  BY DEF Resumable
<1> HIDE DEF d
<1>6. /\ WordsExact(e) /\ ~e.cancel /\ e.scored = 1
      /\ Len(e.text) = (IF limit < n + Len(out) THEN limit ELSE n + Len(out))
      /\ \A k \in 1 .. Len(e.text) : e.text[k] = d.text[k]
  <2>1. /\ WordsExact(e) /\ ~e.cancel /\ e.scored = d.scored + 1
        /\ Len(e.text) = (IF limit < Len(d.text) THEN limit ELSE Len(d.text))
        /\ \A k \in 1 .. Len(e.text) : e.text[k] = d.text[k]
    BY <1>3, CompletedExact
  <2> HIDE DEF e
  <2> QED
    BY <1>3, <1>5, <2>1
<1> HIDE DEF e
<1>7. ASSUME n + Len(out) >= limit PROVE Taken(e)
  <2>1. limit = Ending
    BY <1>1, <1>2, <1>5, <1>7, EndsRight
  <2>2. Len(e.text) = limit
    BY <1>1, <1>6, <1>7
  <2> QED
    BY <1>6, <2>1, <2>2 DEF Taken, Finished
<1>8. ASSUME n + Len(out) < limit, ~cancelled, agent = "single" \/ ~HasCall(out) PROVE Taken(e)
  <2>1. n + Len(out) = TurnEnd(n) /\ Len(e.text) = n + Len(out)
    BY <1>1, <1>6, <1>8
  <2>2. CASE n + Len(out) = Ending
    BY <1>6, <2>1, <2>2 DEF Taken, Finished
  <2>3. CASE agent = "tool" /\ n <= 1 /\ n + Len(out) = 2
    <3>1. HasCall(out) <=> n = 0
      BY <1>1, <2>1, <2>3, CallFound
    <3>2. n = 1 /\ Len(out) = 1
      <4>1. n # 0
        BY <1>8, <2>3, <3>1
      <4> QED
        BY <1>1, <2>3, <4>1, SecondPart, Zenon
    <3>3. e.text[1] = data[t].text[1] /\ e.text[2] = out[1]
      <4>1. Len(e.text) = 2
        BY <2>1, <2>3
      <4>2. e.text[1] = d.text[1] /\ e.text[2] = d.text[2]
        <5>1. 1 \in 1 .. Len(e.text) /\ 2 \in 1 .. Len(e.text)
          BY <4>1
        <5> QED
          BY <1>6, <5>1
      <4>3. data[t].text \in Seq(Word)
        BY DEF Texts
      <4>4. (data[t].text \o out)[1] = data[t].text[1] /\ (data[t].text \o out)[2] = out[1]
        BY <3>2, <4>3, TwoParts
      <4> QED
        BY <1>3, <4>2, <4>4
    <3>4. data[t].text[1].v # out[1].v
      BY <2>3, <3>2
    <3> QED
      BY <1>6, <2>1, <2>3, <3>3, <3>4 DEF Taken, Finished
  <2> QED
    BY <1>1, <1>2, <1>5, <1>8, <2>1, <2>2, <2>3, EndsRight
<1>9. CASE agent = "single"
  <2>1. data'[t] = IF cancelled /\ Len(d.text) < limit THEN d ELSE e
    BY <1>1, <1>9 DEF Receive, SingleTurn, d, e
  <2>2. CASE cancelled /\ Len(d.text) < limit
    <3>1. n + Len(out) < Len(Script)
      BY <1>1, <1>2, <2>2
    <3>2. Taken(d)
      BY <1>3, <1>5, <1>9, <2>2, <3>1 DEF Taken, Resumable
    <3> QED
      BY <1>3, <1>9, <2>1, <2>2, <3>2
  <2>3. CASE ~(cancelled /\ Len(d.text) < limit)
    BY <1>1, <1>3, <1>6, <1>7, <1>8, <1>9, <2>1, <2>3
  <2> QED
    BY <2>2, <2>3
<1>10. CASE agent = "tool"
  <2>1. CASE Len(d.mask) >= limit \/ (~cancelled /\ ~HasCall(out))
    <3>1. data'[t] = e
      BY <1>1, <1>10, <2>1 DEF Receive, ToolTurn, d, e
    <3> QED
      BY <1>1, <1>4, <1>6, <1>7, <1>8, <2>1, <3>1
  <2>2. CASE ~(Len(d.mask) >= limit \/ (~cancelled /\ ~HasCall(out)))
    <3> DEFINE st == IF cancelled THEN "GENERATING" ELSE "PROCESSING_TOOLS"
               g == [d EXCEPT !.state = st]
    <3>1. data'[t] = g
      BY <1>1, <1>10, <2>2 DEF Receive, ToolTurn, d
    <3>2. /\ g.text = d.text /\ g.mask = d.mask /\ g.logprobs = d.logprobs /\ g.scored = d.scored
          /\ g.cancel = d.cancel /\ g.home = d.home /\ g.state = st
      BY <1>3 DEF Row, Fields
    <3> HIDE DEF g
    <3>3. WordsExact(g)
      BY <1>3, <3>2 DEF WordsExact
    <3>4. n + Len(out) < limit
      BY <1>1, <1>4, <2>2
    <3>5. n + Len(out) < Len(Script)
          /\ \/ st = "GENERATING" /\ n + Len(out) # 2
             \/ st = "PROCESSING_TOOLS" /\ n + Len(out) = 2
      <4>1. Len(Script) > 3 /\ n # 2
        BY <1>10, ScriptFacts DEF Asks
      <4>2. CASE cancelled
        <5>1. n + Len(out) < TurnEnd(n) /\ st = "GENERATING"
          BY <4>2
        <5>2. n + Len(out) < Len(Script)
          BY <1>1, <1>2, <5>1
        <5>4. n + Len(out) # 2
          BY <1>1, <1>10, <5>1, CutShort
        <5> QED
          BY <5>1, <5>2, <5>4
      <4>3. CASE ~cancelled
        <5>1. n + Len(out) = TurnEnd(n) /\ HasCall(out)
          BY <1>4, <2>2, <4>3
        <5>2. n = 0
          BY <1>1, <1>10, <5>1, CallFound
        <5>3. TurnEnd(n) = 2
          BY <1>10, <5>2 DEF TurnEnd
        <5>4. st = "PROCESSING_TOOLS"
          BY <4>3
        <5>5. n + Len(out) = 2 /\ 2 < Len(Script)
          BY <1>2, <4>1, <5>1, <5>3
        <5> QED
          BY <5>4, <5>5
      <4> QED
        BY <4>2, <4>3
    <3>6. Taken(g)
      BY <1>3, <1>5, <1>10, <3>2, <3>4, <3>5 DEF Taken, Resumable
    <3> QED
      BY <1>3, <3>1, <3>2, <3>3, <3>6
  <2> QED
    BY <2>1, <2>2
<1> QED
  BY <1>9, <1>10, ScriptFacts

-----------------------------------------------------------------------------
(* The inductive invariant.                                                *)

Exact(t) ==
    WordsExact(data[t]) /\ Taken(data[t]) /\ Asked(data[t], req[t], task[t])

\* A request is told to stop by the server that was closed.
ToldClosed(t) == task[t] = "serving" /\ req[t].event => closed[req[t].server]

\* The second part of a tool call that was cut comes from a later version: until the
\* version is another its trajectory waits, or asks servers that are closed.
Parted(t) ==
    agent = "tool" /\ data[t].cancel /\ Len(data[t].text) = 1 =>
        \/ data[t].text[1].v < version
        \/ /\ phase \in {"cancelling", "paused"}
           /\ task[t] \in {"off", "returned", "loop", "sent"}
           /\ phase = "cancelling" =>
                 /\ sample.at # "submitted"
                 /\ task[t] \in {"loop", "sent"} =>
                       data[t].home \in Servers /\ closed[data[t].home]

ContinuationInv ==
    /\ agent \in DOMAIN Scripts
    /\ \A t \in Trajectories : Exact(t) /\ ToldClosed(t) /\ Parted(t)

\* agent is chosen once.
LEMMA AgentStep == [Next]_vars => agent' = agent
<1> SUFFICES ASSUME [Next]_vars PROVE agent' = agent
  OBVIOUS
<1> USE DEF rolloutVars
<1>1. CASE Aside
  BY <1>1 DEF Aside, Submit, SyncWeights, LateRecovery, RollouterStep, CancelWorker, Paused, BeginTransfer,
     UpdateParamVersion, ResumeWorker, Resumed, ValStep, ValRegister, ValEmit, ValReply,
     ValReport, Load, SetSteps, ResumeGeneration
<1>2. CASE StartSample \/ FinishSample \/ UNCHANGED vars
  BY <1>2 DEF StartSample, FinishSample, vars
<1>3. ASSUME NEW s \in Servers, CancelServer(s) \/ Abort(s) \/ ResumeServer(s)
      PROVE  agent' = agent
  BY <1>3 DEF CancelServer, Abort, ResumeServer
<1>4. ASSUME NEW t \in Trajectories, TrajectoryStep(t) PROVE agent' = agent
  BY <1>4 DEF TrajectoryStep, Interrupt, Prompt, Generate, CallTools, ToolsAnswer, Turned,
     Register, Emit, Reply
<1> QED
  BY <1>1, <1>2, <1>3, <1>4, StepKinds

\* What is exact for the agent and the limit of now is so for those of later.
LEMMA ExactLater ==
    ASSUME UNCHANGED <<agent, limit>>, NEW t \in Trajectories,
           WordsExact(data'[t]), Taken(data'[t]), Asked(data'[t], req'[t], task'[t])
    PROVE  Exact(t)'
<1>1. Script' = Script
  BY DEF Script
<1>2. WordsExact(data[t])'
  BY <1>1 DEF WordsExact, Follow, WordAt
<1>3. Taken(data[t])'
  BY <1>1 DEF Taken, Resumable, Finished, Ending
<1>4. Asked(data[t], req[t], task[t])'
  BY <1>1 DEF Asked, Asks, TurnEnd, Follow
<1> QED
  BY <1>2, <1>3, <1>4 DEF Exact

\* What the other invariants say of a trajectory's words.
LEMMA WordFacts ==
    ASSUME Shaped, Sealed, VersionsInv, NEW t \in Trajectories
    PROVE  /\ Texts(data[t]) /\ limit \in Nat /\ version \in Nat
           /\ req[t].prompt \in Seq(Word) /\ req[t].out \in Seq(Word)
           /\ task[t] = "serving" => \A k \in 1 .. Len(req[t].out) : req[t].out[k].v = version
           /\ \A k \in 1 .. Len(data[t].text) : data[t].text[k].v \in Int
<1>1. data[t].text \in Seq(Word) /\ data[t].mask \in Seq({0, 1})
      /\ Len(data[t].mask) = Len(data[t].text)
  BY DEF VersionsInv, Generated, Sound, Bracketed
<1>2. \A k \in 1 .. Len(data[t].text) : data[t].text[k] \in Word
  BY <1>1
<1>3. task[t] = "serving" => known = version
  BY DEF Sealed, AllCancelled, Shaped, VersionsInv, WholeModels
<1> QED
  BY <1>1, <1>2, <1>3 DEF Texts, VersionsInv, Generated, WholeModels, Word

\* One element more.
LEMMA Appended ==
    ASSUME NEW S, NEW s \in Seq(S), NEW x \in S, NEW n \in Nat, Len(s) = n
    PROVE  /\ Append(s, x) \in Seq(S) /\ Len(Append(s, x)) = n + 1
           /\ \A k \in 1 .. n : Append(s, x)[k] = s[k]
           /\ Append(s, x)[n + 1] = x
<1>1. Append(s, x) \in Seq(S) /\ Len(Append(s, x)) = n + 1
  OBVIOUS
<1>2. ASSUME NEW k \in 1 .. n PROVE Append(s, x)[k] = s[k]
  OBVIOUS
<1>3. Append(s, x)[n + 1] = x
  OBVIOUS
<1> QED
  BY <1>1, <1>2, <1>3

\* A tool's answer goes on with the script, or ends where an answer no longer fits.
LEMMA ToolsAnswerExact ==
    ASSUME ScriptShape, agent \in DOMAIN Scripts, limit \in Nat, Shaped,
           NEW t \in Trajectories, data[t].cancel, Texts(data[t]), WordsExact(data[t]),
           Resumable(data[t]), data[t].state = "PROCESSING_TOOLS", ToolsAnswer(t)
    PROVE  /\ WordsExact(data'[t]) /\ Taken(data'[t])
           /\ data'[t].cancel => Len(data'[t].text) = 3
<1> DEFINE d == data[t]
<1>1. agent = "tool" /\ Len(d.text) = 2 /\ d.scored = 0 /\ 2 < limit
  BY ScriptFacts DEF Resumable
<1>2. Row(d) /\ DOMAIN data = Trajectories /\ Len(d.mask) = 2 /\ Len(d.logprobs) = 2
  BY <1>1 DEF Shaped, Texts, WordsExact
<1>3. Len(Script) > 3 /\ Len(Script) \in Nat /\ WordAt(3) = "answer"
  BY <1>1, ScriptFacts
<1>4. CASE Len(d.mask) + 1 >= limit
  <2> DEFINE e == Completed(d)
  <2>1. data'[t] = e
    BY <1>2, <1>4 DEF ToolsAnswer
  <2>2. limit = 3
    BY <1>1, <1>2, <1>4
  <2>3. WordsExact(e) /\ ~e.cancel /\ e.scored = d.scored + 1
        /\ Len(e.text) = (IF limit < Len(d.text) THEN limit ELSE Len(d.text))
    BY <1>2, CompletedExact
  <2> HIDE DEF e
  <2>4. e.scored = 1 /\ Len(e.text) = 2
    BY <1>1, <2>2, <2>3
  <2>5. Ending = 2
    BY <1>1, <2>2 DEF Ending
  <2> QED
    BY <2>1, <2>3, <2>4, <2>5 DEF Taken, Finished
<1>5. CASE ~(Len(d.mask) + 1 >= limit)
  <2> DEFINE word == [i |-> NextIndex(d.text), v |-> NotGenerated]
             e == Answered(d, Append(d.text, word), Append(d.mask, 0), Append(d.logprobs, 0))
  <2>1. data'[t] = e
    BY <1>2, <1>5 DEF ToolsAnswer, Answered
  <2>2. word.i = 3 /\ word.v = NotGenerated /\ word \in Word
    <3>1. d.text # << >> /\ d.text[2].i = 2
      BY <1>1 DEF WordsExact, Follow, Texts
    <3> QED
      BY <1>1, <3>1 DEF NextIndex, Word, NotGenerated
  <2> HIDE DEF word
  <2>3. /\ e.text = Append(d.text, word) /\ e.mask = Append(d.mask, 0)
        /\ e.logprobs = Append(d.logprobs, 0) /\ e.state = "GENERATING"
        /\ e.cancel /\ e.scored = 0
    BY <1>1, <1>2 DEF Answered, Row, Fields
  <2> HIDE DEF e
  <2>4. limit > 3
    BY <1>2, <1>5
  <2>5. /\ d.text \in Seq(Word) /\ d.mask \in Seq({0, 1}) /\ d.logprobs \in Seq(Nat)
    BY DEF Texts, WordsExact
  <2> DEFINE n == Len(d.text)
  <2>4a. n \in Nat /\ Len(d.text) = n /\ Len(d.mask) = n /\ Len(d.logprobs) = n
    BY <1>1, <1>2
  <2>4b. n = 2
    BY <1>1
  <2> HIDE DEF n
  <2>6a. Len(e.text) = n + 1 /\ e.text[n + 1] = word /\ \A k \in 1 .. n : e.text[k] = d.text[k]
    BY <2>2, <2>3, <2>4a, <2>5, Appended
  <2>7a. e.mask[n + 1] = 0 /\ \A k \in 1 .. n : e.mask[k] = d.mask[k]
    <3>1. 0 \in {0, 1}
      OBVIOUS
    <3> QED
      BY <2>3, <2>4a, <2>5, <3>1, Appended
  <2>11a. /\ Len(e.logprobs) = n + 1 /\ e.logprobs \in Seq(Nat) /\ e.logprobs[n + 1] = 0
          /\ \A k \in 1 .. n : e.logprobs[k] = d.logprobs[k]
    <3>1. 0 \in Nat
      OBVIOUS
    <3> QED
      BY <2>3, <2>4a, <2>5, <3>1, Appended
  <2>6. Len(e.text) = 3 /\ e.text[3] = word /\ \A k \in 1 .. 2 : e.text[k] = d.text[k]
    BY <2>4b, <2>6a
  <2>7. e.mask[3] = 0 /\ \A k \in 1 .. 2 : e.mask[k] = d.mask[k]
    BY <2>4b, <2>7a
  <2>11. /\ Len(e.logprobs) = 3 /\ e.logprobs \in Seq(Nat) /\ e.logprobs[3] = 0
         /\ \A k \in 1 .. 2 : e.logprobs[k] = d.logprobs[k]
    BY <2>4b, <2>11a
  <2>8. ASSUME NEW k \in 1 .. 3
        PROVE  /\ e.text[k].i = k /\ e.mask[k] = IF WordAt(k) = "answer" THEN 0 ELSE 1
               /\ e.mask[k] = 0 => e.text[k].v = NotGenerated
               /\ e.logprobs[k] = k * e.mask[k]
    <3>1. CASE k = 3
      BY <1>3, <2>2, <2>6, <2>7, <2>11, <3>1
    <3>2. CASE k \in 1 .. 2
      <4>1. d.text[k].i = k
        BY <1>1, <3>2 DEF WordsExact, Follow
      <4>2. /\ d.mask[k] = IF WordAt(k) = "answer" THEN 0 ELSE 1
            /\ d.mask[k] = 0 => d.text[k].v = NotGenerated
            /\ d.logprobs[k] = k * d.mask[k]
        BY <1>1, <3>2 DEF WordsExact
      <4> QED
        BY <2>6, <2>7, <2>11, <3>2, <4>1, <4>2
    <3> QED
      BY <3>1, <3>2
  <2>9. WordsExact(e)
    BY <1>3, <2>6, <2>11, <2>8 DEF WordsExact, Follow
  <2>10. Resumable(e)
    BY <1>1, <1>3, <2>3, <2>4, <2>6 DEF Resumable
  <2> QED
    BY <2>1, <2>3, <2>6, <2>9, <2>10 DEF Taken
<1> QED
  BY <1>4, <1>5

\* A step that leaves a trajectory's words, request and place as they are.
LEMMA ExactFrame ==
    ASSUME UNCHANGED <<agent, limit>>, NEW t \in Trajectories, Exact(t),
           data'[t] = data[t], req'[t] = req[t], task'[t] = task[t]
    PROVE  Exact(t)'
<1>1. WordsExact(data'[t]) /\ Taken(data'[t]) /\ Asked(data'[t], req'[t], task'[t])
  BY DEF Exact
<1> QED
  BY <1>1, ExactLater

\* Where the first word of a call came alone.
LEMMA FirstPart ==
    ASSUME NEW n \in Nat, NEW k \in Nat, n + k = 1, n # 1
    PROVE  n = 0 /\ k = 1
  OBVIOUS

\* At most, and not equal.
LEMMA NotYet ==
    ASSUME NEW m \in Nat, NEW e \in Nat, m <= e, m # e
    PROVE  m < e
  OBVIOUS

\* What can be read off a trajectory that is asked for.
LEMMA AskedFacts ==
    ASSUME NEW t \in Trajectories, Shaped, WorkIsOpen, Exact(t),
           task[t] \in {"loop", "sent", "tools", "serving"}
    PROVE  /\ data[t].cancel /\ Resumable(data[t]) /\ WordsExact(data[t])
           /\ task[t] \in {"sent", "serving"} =>
                 /\ Asks(Len(data[t].text))
                 /\ agent = "tool" => data[t].state = "GENERATING"
           /\ task[t] = "tools" => data[t].state = "PROCESSING_TOOLS"
           /\ task[t] # "serving" => req[t].out = << >>
<1>1. data[t].cancel
  BY DEF WorkIsOpen
<1> QED
  BY <1>1 DEF Exact, Taken, Asked

\* What a request's steps write.
LEMMA RegisterEffect ==
    ASSUME Shaped, NEW t \in Trajectories, Register(t)
    PROVE  /\ task[t] = "sent" /\ ~closed[data[t].home] /\ task'[t] = "serving" /\ UNCHANGED data
           /\ req'[t].prompt = data[t].text /\ req'[t].out = << >>
           /\ req'[t].server = data[t].home /\ ~req'[t].event /\ ~req'[t].over
  BY DEF Register, Shaped, NoRequest

\* What the next output of an engine writes.
LEMMA EmitEffect ==
    ASSUME Shaped, NEW t \in Trajectories, Emit(t)
    PROVE  LET r == req[t]
               word == [i |-> NextIndex(r.prompt \o r.out), v |-> Weights(r.server)]
               out == Append(r.out, word)
           IN  /\ task[t] = "serving" /\ ~r.over /\ UNCHANGED <<data, task>>
               /\ req'[t].out = out
               /\ req'[t].over = (EndsTurn(word.i) \/ Len(r.prompt) + Len(out) >= Cap)
               /\ req'[t].prompt = r.prompt /\ req'[t].server = r.server
               /\ req'[t].event = r.event
<1> DEFINE r == req[t]
           word == [i |-> NextIndex(r.prompt \o r.out), v |-> Weights(r.server)]
           out == Append(r.out, word)
           over == EndsTurn(word.i) \/ Len(r.prompt) + Len(out) >= Cap
<1>1. task[t] = "serving" /\ ~r.over /\ UNCHANGED <<data, task>>
  BY DEF Emit
<1>2. req' = [req EXCEPT ![t] = [r EXCEPT !.out = out, !.over = over]]
  BY DEF Emit
<1>3. Request(r) /\ DOMAIN req = Trajectories
  BY DEF Shaped
<1> HIDE DEF r, out, over
<1>4. /\ req'[t].out = out /\ req'[t].over = over /\ req'[t].prompt = r.prompt
      /\ req'[t].server = r.server /\ req'[t].event = r.event
  BY <1>2, <1>3 DEF Request
<1> QED
  BY <1>1, <1>4 DEF r, out, over

\* What the answer of a server writes.
LEMMA ReplyEffect ==
    ASSUME Shaped, NEW t \in Trajectories, Reply(t)
    PROVE  /\ task[t] = "serving" /\ (req[t].over \/ req[t].event)
           /\ Receive(t, req[t].out, ~req[t].over) /\ req'[t] = NoRequest
<1>1. DOMAIN req = Trajectories /\ req' = [req EXCEPT ![t] = NoRequest]
  BY DEF Reply, Shaped
<1>2. req'[t] = NoRequest
  BY <1>1
<1> QED
  BY <1>2, Zenon DEF Reply

\* A step of a trajectory keeps it exact.
LEMMA TrajectoryExact ==
    ASSUME ScriptShape, Shaped, TasksOfSample, Sealed, WorkIsOpen, VersionsInv,
           ContinuationInv, NEW t \in Trajectories, TrajectoryStep(t), UNCHANGED syncVars
    PROVE  Exact(t)' /\ ToldClosed(t)' /\ Parted(t)'
<1> DEFINE d == data[t]
           n == Len(data[t].text)
<1>1. /\ agent \in DOMAIN Scripts /\ Exact(t) /\ ToldClosed(t) /\ Parted(t)
  BY DEF ContinuationInv
<1>2. /\ Texts(d) /\ limit \in Nat /\ version \in Nat /\ n \in Nat
      /\ req[t].prompt \in Seq(Word) /\ req[t].out \in Seq(Word)
      /\ task[t] = "serving" => \A k \in 1 .. Len(req[t].out) : req[t].out[k].v = version
      /\ \A k \in 1 .. n : d.text[k].v \in Int
  BY WordFacts DEF Texts
<1>3. task[t] \in {"loop", "sent", "tools", "serving"} /\ closed' = closed /\ sample' = sample
  BY TrajectoryFrame
<1>4. d.cancel /\ Resumable(d) /\ WordsExact(d)
  BY <1>1, <1>3, AskedFacts
<1>5. UNCHANGED <<agent, limit, version, phase>>
  BY DEF TrajectoryStep, Interrupt, Prompt, Generate, CallTools, ToolsAnswer, Turned,
     Register, Emit, Reply, weightVars, syncVars
<1>6. /\ sample.at = "running"
      /\ phase = "paused" => \A s \in Servers : closed[s]
      /\ task[t] = "serving" /\ phase # "cancelling" => ~closed[req[t].server]
  BY <1>3 DEF TasksOfSample, Sealed, AllCancelled
<1>7. /\ Row(d) /\ Request(req[t]) /\ DOMAIN data = Trajectories /\ DOMAIN task = Trajectories
      /\ DOMAIN req = Trajectories /\ task[t] = "sent" => d.home \in Servers
      /\ task[t] = "serving" => req[t].server \in Servers
  BY DEF Shaped
<1>8. agent \in {"single", "tool"} /\ Len(Script) \in Nat
  BY <1>1, ScriptFacts
<1>9. ASSUME WordsExact(data'[t]), Taken(data'[t]), Asked(data'[t], req'[t], task'[t])
      PROVE  Exact(t)'
  BY <1>5, <1>9, ExactLater
<1>10. CASE Interrupt(t)
  <2>1. task[t] = "loop" /\ task'[t] = "returned" /\ UNCHANGED <<data, req>>
    BY <1>7, <1>10 DEF Interrupt
  <2>2. Exact(t)'
    BY <1>1, <1>9, <2>1 DEF Exact, Asked
  <2>3. Parted(t)'
    BY <1>1, <1>3, <1>5, <2>1 DEF Parted
  <2> QED
    BY <2>1, <2>2, <2>3 DEF ToldClosed
<1>11. CASE Prompt(t)
  <2> DEFINE e == [d EXCEPT !.state = "GENERATING"]
  <2>1. /\ task[t] = "loop" /\ UNCHANGED <<task, req>> /\ data'[t] = e /\ agent = "tool"
        /\ d.state = "PENDING"
    BY <1>7, <1>11 DEF Prompt
  <2>2. /\ e.text = d.text /\ e.mask = d.mask /\ e.logprobs = d.logprobs /\ e.scored = d.scored
        /\ e.cancel = d.cancel /\ e.home = d.home /\ e.state = "GENERATING"
    BY <1>7 DEF Row, Fields
  <2> HIDE DEF e
  <2>3. n = 0
    BY <1>4, <2>1 DEF Resumable
  <2>4. WordsExact(e)
    BY <1>4, <2>2 DEF WordsExact
  <2>5. Taken(e)
    BY <1>4, <2>1, <2>2, <2>3 DEF Taken, Resumable
  <2>6. Asked(e, req[t], "loop")
    BY <1>1, <2>1 DEF Exact, Asked
  <2>7. Len(data'[t].text) # 1
    BY <2>1, <2>2, <2>3
  <2> QED
    BY <1>9, <2>1, <2>4, <2>5, <2>6, <2>7 DEF ToldClosed, Parted
<1>12. CASE Generate(t)
  <2>1. PICK s \in Servers : d.home \in {NoServer, s} /\ data' = [data EXCEPT ![t].home = s]
    BY <1>12 DEF Generate
  <2> DEFINE e == [d EXCEPT !.home = s]
  <2>2. /\ e.text = d.text /\ e.mask = d.mask /\ e.logprobs = d.logprobs /\ e.scored = d.scored
        /\ e.cancel = d.cancel /\ e.home = s /\ e.state = d.state
    BY <1>7 DEF Row, Fields
  <2>3. data'[t] = e /\ task[t] = "loop" /\ task'[t] = "sent" /\ req' = req
        /\ (agent = "tool" => d.state = "GENERATING")
    BY <1>7, <1>12, <2>1 DEF Generate
  <2> HIDE DEF e
  <2>4. WordsExact(e)
    BY <1>4, <2>2 DEF WordsExact
  <2>5. Taken(e)
    BY <1>4, <2>2 DEF Taken, Resumable
  <2>6. Asks(n)
    BY <1>4, <1>8, <2>3 DEF Resumable, Asks
  <2>7. Asked(e, req[t], "sent")
    BY <1>1, <2>2, <2>3, <2>6 DEF Exact, Asked
  <2>8. Parted(t)'
    <3>1. CASE agent = "tool" /\ n = 1 /\ ~(d.text[1].v < version)
      <4>1. /\ phase \in {"cancelling", "paused"}
            /\ phase = "cancelling" => d.home \in Servers /\ closed[d.home]
        BY <1>1, <1>4, <2>3, <3>1 DEF Parted
      <4>2. phase = "cancelling" => s = d.home
        BY <2>1, <4>1, RolloutAssumption
      <4> QED
        BY <1>3, <1>5, <1>6, <2>2, <2>3, <4>1, <4>2 DEF Parted
    <3>2. CASE ~(agent = "tool" /\ n = 1 /\ ~(d.text[1].v < version))
      BY <1>5, <2>2, <2>3, <3>2 DEF Parted
    <3> QED
      BY <3>1, <3>2
  <2> QED
    BY <1>9, <2>3, <2>4, <2>5, <2>7, <2>8 DEF ToldClosed
<1>13. CASE CallTools(t)
  <2>1. /\ task[t] = "loop" /\ task'[t] = "tools" /\ UNCHANGED <<data, req>>
        /\ d.state = "PROCESSING_TOOLS"
    BY <1>7, <1>13 DEF CallTools
  <2>2. Exact(t)'
    BY <1>1, <1>9, <2>1 DEF Exact, Asked
  <2>3. agent = "tool" /\ n = 2
    BY <1>4, <1>8, <2>1 DEF Resumable
  <2> QED
    BY <2>1, <2>2, <2>3 DEF ToldClosed, Parted
<1>14. CASE ToolsAnswer(t)
  <2>1. task[t] = "tools" /\ task'[t] \in {"returned", "loop"} /\ UNCHANGED req
    BY <1>7, <1>14 DEF ToolsAnswer
  <2>2. d.state = "PROCESSING_TOOLS" /\ req[t].out = << >>
    BY <1>1, <1>3, <2>1, AskedFacts
  <2>3. /\ WordsExact(data'[t]) /\ Taken(data'[t])
        /\ data'[t].cancel => Len(data'[t].text) = 3
    BY <1>1, <1>2, <1>4, <1>14, <2>2, ToolsAnswerExact
  <2>4. Asked(data'[t], req'[t], task'[t])
    BY <2>1, <2>2 DEF Asked
  <2> QED
    BY <1>9, <2>1, <2>3, <2>4 DEF ToldClosed, Parted
<1>15. CASE Turned(t)
  <2>1. task[t] = "sent" /\ closed[d.home] /\ Receive(t, << >>, TRUE) /\ UNCHANGED req
    BY <1>15 DEF Turned
  <2>2. /\ Asks(n) /\ (agent = "tool" => d.state = "GENERATING") /\ req[t].out = << >>
    BY <1>1, <1>3, <2>1, AskedFacts
  <2>3. task'[t] \in {"loop", "returned"}
    BY <2>1, ReceiveShape
  <2> DEFINE q == << >>
  <2>4. n + Len(q) < TurnEnd(n) /\ Follow(q, n) /\ q \in Seq(Word) /\ ~(Len(q) > 0)
        /\ d.text \o q = d.text /\ Receive(t, q, TRUE)
    <3>1. Receive(t, q, TRUE)
      BY <2>1, Zenon
    <3>2. q \in Seq(Word) /\ Len(q) = 0 /\ Follow(q, n)
      BY DEF Follow
    <3>3. d.text \o q = d.text
      BY <1>2, ConcatEmptySeq DEF Texts
    <3>4. n < TurnEnd(n) /\ n + 0 = n
      BY <1>1, <1>2, <2>2, TurnFacts
    <3> HIDE DEF q
    <3>5. n + Len(q) < TurnEnd(n) /\ ~(Len(q) > 0)
      BY <3>2, <3>4
    <3> QED
      BY <3>1, <3>2, <3>3, <3>5, Zenon
  <2> HIDE DEF q
  <2>5. /\ WordsExact(data'[t]) /\ Taken(data'[t])
        /\ data'[t].cancel /\ agent = "tool" =>
              /\ data'[t].text = d.text \o q /\ data'[t].home = d.home
              /\ Len(data'[t].text) = n + Len(q)
    <3>1. TRUE \in BOOLEAN
      OBVIOUS
    <3>2. IF TRUE THEN n + Len(q) < TurnEnd(n) ELSE n + Len(q) = TurnEnd(n)
      BY <2>4
    <3> QED
      BY <1>1, <1>2, <1>4, <2>2, <2>4, <3>1, <3>2, ReceiveExact
  <2>6. Asked(data'[t], req'[t], task'[t])
    BY <2>1, <2>2, <2>3 DEF Asked
  <2>7. Parted(t)'
    BY <1>1, <1>2, <1>3, <1>4, <1>5, <1>6, <1>7, <2>1, <2>3, <2>4, <2>5 DEF Parted
  <2> QED
    BY <1>9, <2>3, <2>5, <2>6, <2>7 DEF ToldClosed
<1>16. CASE Register(t)
  <2>1. task[t] = "sent" /\ ~closed[d.home] /\ task'[t] = "serving" /\ UNCHANGED data
    BY <1>16, RegisterEffect
  <2>2. /\ req'[t].prompt = d.text /\ req'[t].out = << >> /\ req'[t].server = d.home
        /\ ~req'[t].event /\ ~req'[t].over
    BY <1>16, RegisterEffect
  <2>3. /\ Asks(n) /\ (agent = "tool" => d.state = "GENERATING")
    BY <1>1, <1>3, <2>1, AskedFacts
  <2>4. n < TurnEnd(n) /\ Follow(<< >>, n) /\ Len(<< >>) = 0 /\ n + 0 = n
    BY <1>1, <1>2, <2>3, TurnFacts DEF Follow
  <2>5. Asked(data'[t], req'[t], task'[t])
    BY <2>1, <2>2, <2>3, <2>4 DEF Asked
  <2>6. Exact(t)'
    BY <1>1, <1>9, <2>1, <2>5 DEF Exact
  <2>7. Parted(t)'
    <3>1. d.home \in Servers /\ phase # "paused"
      BY <1>6, <2>1 DEF Shaped
    <3>2. agent = "tool" /\ n = 1 => d.text[1].v < version
      BY <1>1, <1>4, <2>1, <3>1 DEF Parted
    <3> QED
      BY <1>5, <2>1, <3>2 DEF Parted
  <2> QED
    BY <2>2, <2>6, <2>7 DEF ToldClosed
<1>17. CASE Emit(t)
  <2> DEFINE r == req[t]
             word == [i |-> NextIndex(r.prompt \o r.out), v |-> Weights(r.server)]
             out == Append(r.out, word)
             over == EndsTurn(word.i) \/ Len(r.prompt) + Len(out) >= Cap
  <2>1. task[t] = "serving" /\ ~r.over /\ UNCHANGED <<data, task>>
    BY <1>17, EmitEffect
  <2>2. /\ req'[t].out = out /\ req'[t].over = over
        /\ req'[t].prompt = r.prompt /\ req'[t].server = r.server /\ req'[t].event = r.event
    BY <1>17, EmitEffect
  <2>3. /\ Asks(n) /\ (agent = "tool" => d.state = "GENERATING")
    BY <1>1, <1>3, <2>1, AskedFacts
  <2>4. /\ r.prompt = d.text /\ r.server = d.home /\ Follow(r.out, n)
        /\ n + Len(r.out) < TurnEnd(n)
    BY <1>1, <2>1 DEF Exact, Asked
  <2>5. Weights(r.server) \in Int
    BY <1>2 DEF Weights, Torn
  <2>6. Follow(r.prompt, 0) /\ Len(r.prompt) = n
    BY <1>4, <2>4 DEF WordsExact
  <2>7. /\ Len(out) = Len(r.out) + 1 /\ Follow(out, n)
        /\ over <=> n + Len(out) = TurnEnd(n)
        /\ n + Len(out) <= TurnEnd(n)
    <3> DEFINE p == r.prompt
    <3>1. /\ Asks(Len(p)) /\ Follow(r.out, Len(p)) /\ Len(p) + Len(r.out) < TurnEnd(Len(p))
          /\ Follow(p, 0) /\ p \in Seq(Word) /\ r.out \in Seq(Word)
      BY <1>2, <2>3, <2>4, <2>6
    <3>2. /\ Len(out) = Len(r.out) + 1 /\ Follow(out, Len(p))
          /\ over <=> Len(p) + Len(out) = TurnEnd(Len(p))
          /\ Len(p) + Len(out) <= TurnEnd(Len(p))
      BY <1>1, <2>5, <3>1, EmitFollows
    <3> HIDE DEF out, over
    <3> QED
      BY <2>6, <3>2
  <2> HIDE DEF out, over
  <2>8. TurnEnd(n) \in Nat /\ Len(out) \in Nat
    BY <1>1, <1>2, <2>3, <2>7, TurnFacts
  <2>9. IF over THEN n + Len(out) = TurnEnd(n) ELSE n + Len(out) < TurnEnd(n)
    <3>1. CASE over
      BY <2>7, <3>1
    <3>2. CASE ~over
      <4> DEFINE m == n + Len(out)
      <4>1. m \in Nat
        BY <1>2, <2>8
      <4>2. m <= TurnEnd(n) /\ m # TurnEnd(n)
        BY <2>7, <3>2
      <4> HIDE DEF m
      <4>3. m < TurnEnd(n)
        BY <2>8, <4>1, <4>2, NotYet
      <4> QED
        BY <3>2, <4>3 DEF m
    <3> QED
      BY <3>1, <3>2
  <2>10. Asked(data'[t], req'[t], task'[t])
    BY <2>1, <2>2, <2>3, <2>4, <2>7, <2>9 DEF Asked
  <2>11. Exact(t)'
    BY <1>1, <1>9, <2>1, <2>10 DEF Exact
  <2>12. Parted(t)'
    BY <1>1, <1>4, <1>5, <2>1 DEF Parted
  <2>13. ToldClosed(t)'
    BY <1>1, <1>3, <2>1, <2>2 DEF ToldClosed
  <2> QED
    BY <2>11, <2>12, <2>13
<1>18. CASE Reply(t)
  <2> DEFINE r == req[t]
  <2>1. /\ task[t] = "serving" /\ (r.over \/ r.event) /\ Receive(t, r.out, ~r.over)
        /\ req'[t] = NoRequest
    BY <1>18, ReplyEffect, Zenon
  <2>2. Asks(n) /\ (agent = "tool" => d.state = "GENERATING")
    BY <1>1, <1>3, <2>1, AskedFacts
  <2>3. /\ r.prompt = d.text /\ r.server = d.home /\ Follow(r.out, n)
        /\ IF r.over THEN n + Len(r.out) = TurnEnd(n) ELSE n + Len(r.out) < TurnEnd(n)
    BY <1>1, <2>1 DEF Exact, Asked
  <2>4. task'[t] \in {"loop", "returned"}
    BY <2>1, ReceiveShape
  <2>5. agent = "tool" /\ n = 1 => d.text[1].v < version
    BY <1>1, <1>4, <2>1 DEF Parted
  <2>6. agent = "tool" /\ n = 1 /\ Len(r.out) > 0 => d.text[1].v # r.out[1].v
    <3> SUFFICES ASSUME agent = "tool", n = 1, Len(r.out) > 0 PROVE d.text[1].v # r.out[1].v
      OBVIOUS
    <3>1. 1 \in 1 .. Len(r.out) /\ 1 \in 1 .. n
      BY <1>2
    <3>2. r.out[1].v = version /\ d.text[1].v \in Int
      BY <1>2, <2>1, <3>1
    <3> QED
      BY <1>2, <2>5, <3>2
  <2>7. /\ WordsExact(data'[t]) /\ Taken(data'[t])
        /\ data'[t].cancel /\ agent = "tool" =>
              /\ data'[t].text = d.text \o r.out /\ data'[t].home = d.home
              /\ Len(data'[t].text) = n + Len(r.out)
    <3>1. (~r.over) \in BOOLEAN
      OBVIOUS
    <3>2. IF ~r.over THEN n + Len(r.out) < TurnEnd(n) ELSE n + Len(r.out) = TurnEnd(n)
      BY <2>3
    <3> QED
      BY <1>1, <1>2, <1>4, <2>1, <2>2, <2>3, <2>6, <3>1, <3>2, ReceiveExact
  <2>8. Asked(data'[t], req'[t], task'[t])
    BY <2>1, <2>4 DEF Asked, NoRequest
  <2>9. Parted(t)'
    <3> SUFFICES ASSUME agent = "tool", data'[t].cancel, Len(data'[t].text) = 1,
                        ~(data'[t].text[1].v < version)
                 PROVE  /\ phase = "cancelling" /\ sample.at # "submitted"
                        /\ task'[t] \in {"off", "returned", "loop", "sent"}
                        /\ data'[t].home \in Servers /\ closed[data'[t].home]
      BY <1>3, <1>5 DEF Parted
    <3>1. data'[t].text = d.text \o r.out /\ data'[t].home = d.home /\ n + Len(r.out) = 1
      BY <2>7
    <3>2. n # 1
      <4>1. ASSUME n = 1 PROVE FALSE
        <5>1. Len(r.out) = 0
          BY <1>2, <3>1, <4>1
        <5>2. r.out = << >>
          BY <1>2, <5>1, EmptySeq
        <5>3. data'[t].text = d.text
          BY <1>2, <3>1, <5>2, ConcatEmptySeq DEF Texts
        <5> QED
          BY <2>5, <4>1, <5>3
      <4> QED
        BY <4>1
    <3>3. n = 0 /\ Len(r.out) = 1
      <4> DEFINE k == Len(r.out)
      <4>1. n \in Nat /\ k \in Nat
        BY <1>2
      <4>2. n + k = 1 /\ n # 1
        BY <3>1, <3>2
      <4> HIDE DEF n, k
      <4>3. n = 0 /\ k = 1
        BY <4>1, <4>2, FirstPart
      <4> QED
        BY <4>3 DEF k
    <3>4. TurnEnd(n) = 2
      BY <3>3 DEF TurnEnd
    <3>5. ~r.over
      BY <2>3, <3>3, <3>4
    <3>6. closed[d.home] /\ d.home \in Servers
      BY <1>1, <1>7, <2>1, <2>3, <3>5 DEF ToldClosed
    <3>7. phase = "cancelling"
      BY <1>6, <2>1, <2>3, <3>6
    <3> QED
      BY <1>6, <2>4, <3>1, <3>6, <3>7
  <2> QED
    BY <1>9, <2>4, <2>7, <2>8, <2>9 DEF ToldClosed
<1> QED
  BY <1>10, <1>11, <1>12, <1>13, <1>14, <1>15, <1>16, <1>17, <1>18 DEF TrajectoryStep

\* While a trajectory waits with half a call, a step that leaves it where it is moves
\* neither its words nor its server's flag before the version is another.
LEMMA PartedFrame ==
    ASSUME NEW t \in Trajectories, Parted(t), UNCHANGED <<agent, data, task, closed>>,
           version' = version, sample' = sample,
           phase = "cancelling" => phase' \in {"cancelling", "paused"},
           phase = "paused" => phase' = "paused"
    PROVE  Parted(t)'
  BY DEF Parted

\* The version changes when a transfer begins.
LEMMA AsideVersion == Aside /\ ~BeginTransfer => version' = version
<1> SUFFICES ASSUME Aside, ~BeginTransfer PROVE version' = version
  OBVIOUS
<1> USE DEF weightVars
<1>1. CASE Submit \/ SyncWeights \/ LateRecovery
  BY <1>1 DEF Submit, SyncWeights, LateRecovery
<1>2. CASE RollouterStep
  BY <1>2 DEF RollouterStep, CancelWorker, Paused, UpdateParamVersion, ResumeWorker, Resumed
<1>3. CASE ValStep
  BY <1>3 DEF ValStep, ValRegister, ValEmit, ValReply, ValReport
<1>4. ASSUME NEW s \in Servers, Load(s) \/ SetSteps(s) \/ ResumeGeneration(s)
      PROVE  version' = version
  BY <1>4 DEF Load, Stream!LoadIntact, SetSteps, ResumeGeneration
<1> QED
  BY <1>1, <1>2, <1>3, <1>4 DEF Aside

\* So does a step of the rollouter, the trainer or the validation: while half a call
\* waits, either its weights are replaced or nothing is opened.
LEMMA AsideExact ==
    ASSUME Shaped, Sealed, VersionsInv, ContinuationInv, Aside, UNCHANGED <<agent, limit>>,
           NEW t \in Trajectories
    PROVE  Exact(t)' /\ ToldClosed(t)' /\ Parted(t)'
<1>1. Exact(t) /\ ToldClosed(t) /\ Parted(t)
  BY DEF ContinuationInv
<1>2. UNCHANGED <<data, task, req, closed>>
  BY AsideFrame
<1>3. Exact(t)'
  BY <1>1, <1>2, ExactFrame
<1>4. ToldClosed(t)'
  BY <1>1, <1>2 DEF ToldClosed
<1>5. CASE Submit \/ SyncWeights
  <2>1. /\ version' = version
        /\ \/ phase = "open"
           \/ phase # "cancelling" /\ phase' = phase
    BY <1>5 DEF Submit, SyncWeights, Sealed, weightVars, syncVars
  <2>2. Parted(t)'
    BY <1>1, <1>2, <2>1 DEF Parted
  <2> QED
    BY <1>3, <1>4, <2>2
<1>6. CASE BeginTransfer
  <2>1. version' = version + 1 /\ version \in Nat /\ known = version
    BY <1>6 DEF BeginTransfer, Stream!BeginUpdate, VersionsInv, WholeModels
  <2>2. Parted(t)'
    <3> SUFFICES ASSUME agent = "tool", data[t].cancel, Len(data[t].text) = 1
                 PROVE  data[t].text[1].v < version'
      BY <1>2 DEF Parted
    <3>1. Bracketed(data[t], version)
      BY <2>1 DEF VersionsInv, Generated, Sound
    <3>2. data[t].text[1] \in Word
      BY <3>1 DEF Bracketed
    <3>3. WordsExact(data[t])
      BY <1>1 DEF Exact
    <3>4. CASE data[t].mask[1] = 1
      <4>1. data[t].text[1].v <= version
        BY <3>1, <3>4 DEF Bracketed
      <4> QED
        BY <2>1, <3>2, <4>1 DEF Word
    <3>5. CASE data[t].mask[1] # 1
      <4>1. data[t].mask[1] = 0
        BY <3>3, <3>5 DEF WordsExact
      <4>2. data[t].text[1].v = NotGenerated
        BY <3>3, <4>1 DEF WordsExact
      <4> QED
        BY <2>1, <4>2 DEF NotGenerated
    <3> QED
      BY <3>4, <3>5
  <2> QED
    BY <1>3, <1>4, <2>2
<1>7. CASE ~(Submit \/ SyncWeights \/ BeginTransfer)
  <2>1. version' = version /\ sample' = sample
    BY <1>7, AsideVersion, AsideSample DEF Shaped
  <2>2. /\ phase = "cancelling" => phase' \in {"cancelling", "paused"}
        /\ phase = "paused" => phase' = "paused"
    <3>1. CASE RollouterStep
      BY <1>7, <3>1 DEF RollouterStep, CancelWorker, Paused, UpdateParamVersion, Updated,
         ResumeWorker, Resumed, syncVars
    <3>2. CASE ValStep
      BY <3>2 DEF ValStep, ValRegister, ValEmit, ValReply, ValReport
    <3>3. CASE \E s \in Servers : Load(s) \/ SetSteps(s) \/ ResumeGeneration(s)
      BY <3>3 DEF Load, SetSteps, ResumeGeneration, Updated, syncVars
    <3>4. CASE LateRecovery
      BY <3>4 DEF LateRecovery
    <3> QED
      BY <1>7, <3>1, <3>2, <3>3, <3>4 DEF Aside
  <2>3. Parted(t)'
    BY <1>1, <1>2, <2>1, <2>2, PartedFrame
  <2> QED
    BY <1>3, <1>4, <2>3
<1> QED
  BY <1>5, <1>6, <1>7

\* A submission takes a trajectory up where it was.
LEMMA StartExact ==
    ASSUME ScriptShape, Shaped, TasksOfSample, ContinuationInv, StartSample, UNCHANGED syncVars,
           UNCHANGED <<agent, limit>>, NEW t \in Trajectories
    PROVE  Exact(t)' /\ ToldClosed(t)' /\ Parted(t)'
<1> DEFINE begin == IF sample.first THEN known ELSE data[t].begin
           e == Started(data[t], NoServer, begin)
<1>1. Exact(t) /\ ToldClosed(t) /\ Parted(t)
  BY DEF ContinuationInv
<1>2. sample.at = "submitted" /\ UNCHANGED <<req, version, phase>>
  BY DEF StartSample, weightVars, syncVars
<1>3. data'[t] = e /\ task'[t] \in {"loop", "returned"}
  BY DEF StartSample, Started
<1>4. Row(data[t])
  BY DEF Shaped
<1>5. /\ e.text = data[t].text /\ e.mask = data[t].mask /\ e.logprobs = data[t].logprobs
      /\ e.state = data[t].state /\ e.cancel = data[t].cancel /\ e.scored = data[t].scored
  BY <1>4 DEF Started, Row, Fields
<1> HIDE DEF e, begin
<1>6. task[t] = "off"
  BY <1>2 DEF TasksOfSample
<1>7. req[t].out = << >>
  BY <1>1, <1>6 DEF Exact, Asked
<1>8. WordsExact(e) /\ Taken(e)
  BY <1>1, <1>5 DEF Exact, WordsExact, Taken, Resumable, Finished
<1>9. Asked(data'[t], req'[t], task'[t])
  BY <1>2, <1>3, <1>7 DEF Asked
<1>10. Exact(t)'
  BY <1>3, <1>8, <1>9, ExactLater
<1>11. Parted(t)'
  BY <1>1, <1>2, <1>3, <1>5 DEF Parted
<1> QED
  BY <1>3, <1>10, <1>11 DEF ToldClosed

\* A sample that is put back or done leaves its trajectories as they are.
LEMMA FinishExact ==
    ASSUME Shaped, ContinuationInv, FinishSample, UNCHANGED syncVars,
           UNCHANGED <<agent, limit>>, NEW t \in Trajectories
    PROVE  Exact(t)' /\ ToldClosed(t)' /\ Parted(t)'
<1>1. Exact(t) /\ ToldClosed(t) /\ Parted(t)
  BY DEF ContinuationInv
<1>2. /\ UNCHANGED <<data, req, closed, version, phase>> /\ task[t] = "returned" /\ task'[t] = "off"
      /\ sample'.at \in {"queued", "done"}
  BY DEF FinishSample, weightVars, syncVars, Shaped
<1>3. Asked(data'[t], req'[t], task'[t])
  BY <1>1, <1>2 DEF Exact, Asked
<1>4. Exact(t)'
  BY <1>1, <1>2, <1>3, ExactLater DEF Exact
<1>5. Parted(t)'
  BY <1>1, <1>2 DEF Parted
<1> QED
  BY <1>2, <1>4, <1>5 DEF ToldClosed

\* A server's flag and its requests' events.
LEMMA ServerExact ==
    ASSUME Shaped, TasksOfSample, Sealed, ContinuationInv, UNCHANGED <<agent, limit>>,
           NEW s \in Servers, CancelServer(s) \/ Abort(s) \/ ResumeServer(s),
           NEW t \in Trajectories
    PROVE  Exact(t)' /\ ToldClosed(t)' /\ Parted(t)'
<1>1. Exact(t) /\ ToldClosed(t) /\ Parted(t)
  BY DEF ContinuationInv
<1>2. UNCHANGED <<data, task, sample, phase, version>>
  BY DEF CancelServer, Abort, ResumeServer, weightVars, syncVars
<1>3. CASE CancelServer(s)
  <2>1. closed' = [closed EXCEPT ![s] = TRUE] /\ \A r \in Servers : closed[r] => closed'[r]
    BY <1>3 DEF CancelServer, Cancel, Shaped
  <2>2. req'[t] = IF req[t].server = s THEN [req[t] EXCEPT !.event = TRUE] ELSE req[t]
    BY <1>3 DEF CancelServer, Cancel
  <2>3. /\ req'[t].out = req[t].out /\ req'[t].prompt = req[t].prompt
        /\ req'[t].server = req[t].server /\ req'[t].over = req[t].over
        /\ req'[t].event => req[t].event \/ req[t].server = s
    BY <2>2 DEF Shaped, Request
  <2>4. Asked(data'[t], req'[t], task'[t])
    BY <1>1, <1>2, <2>3 DEF Exact, Asked
  <2>5. Exact(t)'
    BY <1>1, <1>2, <2>4, ExactLater DEF Exact
  <2>6. ToldClosed(t)'
    BY <1>1, <1>2, <2>1, <2>3 DEF ToldClosed, Shaped
  <2>7. Parted(t)'
    BY <1>1, <1>2, <2>1 DEF Parted
  <2> QED
    BY <2>5, <2>6, <2>7
<1>4. CASE Abort(s)
  <2>1. phase = "paused" /\ closed' = closed
    BY <1>4 DEF Abort
  <2>2. task[t] # "serving"
    BY <2>1 DEF Sealed, AllCancelled, Shaped
  <2>3. req'[t].out = req[t].out
    BY <1>4 DEF Abort, Shaped, Request
  <2>4. Asked(data'[t], req'[t], task'[t])
    BY <1>1, <1>2, <2>2, <2>3 DEF Exact, Asked
  <2>5. Exact(t)'
    BY <1>1, <1>2, <2>4, ExactLater DEF Exact
  <2>6. Parted(t)'
    BY <1>1, <1>2, <2>1 DEF Parted
  <2> QED
    BY <1>2, <2>2, <2>5, <2>6 DEF ToldClosed
<1>5. CASE ResumeServer(s)
  <2>1. /\ phase = "versioned" /\ UNCHANGED req /\ closed[s]
        /\ \A r \in Servers \ {s} : closed'[r] = closed[r]
    BY <1>5 DEF ResumeServer, Resume, Shaped
  <2>2. task[t] = "serving" => req[t].server \in Servers \ {s}
    BY <2>1 DEF Sealed, Shaped
  <2>3. Exact(t)'
    BY <1>1, <1>2, <2>1, ExactFrame
  <2>4. Parted(t)'
    BY <1>1, <1>2, <2>1 DEF Parted
  <2> QED
    BY <1>1, <1>2, <2>1, <2>2, <2>3, <2>4 DEF ToldClosed
<1> QED
  BY <1>3, <1>4, <1>5

\* A step of one trajectory leaves another as it is.
LEMMA OtherExact ==
    ASSUME Shaped, ContinuationInv, UNCHANGED <<agent, limit>>, UNCHANGED syncVars,
           NEW t \in Trajectories, TrajectoryStep(t), NEW u \in Trajectories \ {t}
    PROVE  Exact(u)' /\ ToldClosed(u)' /\ Parted(u)'
<1>1. Exact(u) /\ ToldClosed(u) /\ Parted(u)
  BY DEF ContinuationInv
<1>2. /\ data'[u] = data[u] /\ task'[u] = task[u] /\ req'[u] = req[u]
      /\ closed' = closed /\ sample' = sample
  BY TrajectoryFrame
<1>3. version' = version /\ phase' = phase
  BY DEF TrajectoryStep, Interrupt, Prompt, Generate, CallTools, ToolsAnswer, Turned,
     Register, Emit, Reply, weightVars, syncVars
<1>4. Exact(u)'
  BY <1>1, <1>2, ExactFrame
<1>5. ToldClosed(u)' /\ Parted(u)'
  BY <1>1, <1>2, <1>3 DEF ToldClosed, Parted
<1> QED
  BY <1>4, <1>5

\* Every step keeps ContinuationInv.
LEMMA ContinuationStep ==
    ASSUME ScriptShape, Shaped, TasksOfSample, Sealed, WorkIsOpen, VersionsInv,
           ContinuationInv, [Next]_vars
    PROVE  ContinuationInv'
<1>1. agent' = agent /\ limit' = limit
  BY AgentStep, LimitStep
<1>2. agent' \in DOMAIN Scripts
  BY <1>1 DEF ContinuationInv
<1>3. SUFFICES ASSUME NEW u \in Trajectories PROVE Exact(u)' /\ ToldClosed(u)' /\ Parted(u)'
  BY <1>1, <1>2 DEF ContinuationInv
<1>4. CASE Aside
  BY <1>1, <1>4, AsideExact
<1>5. CASE UNCHANGED vars
  <2>1. UNCHANGED <<data, task, req, closed, version, sample, phase>>
    BY <1>5 DEF vars, rolloutVars, weightVars, syncVars
  <2>2. Exact(u) /\ ToldClosed(u) /\ Parted(u)
    BY DEF ContinuationInv
  <2> QED
    BY <1>1, <2>1, <2>2, ExactFrame, PartedFrame DEF ToldClosed
<1>6. CASE StartSample /\ UNCHANGED syncVars
  BY <1>1, <1>6, StartExact
<1>7. CASE FinishSample /\ UNCHANGED syncVars
  BY <1>1, <1>7, FinishExact
<1>8. ASSUME NEW s \in Servers, CancelServer(s) \/ Abort(s) \/ ResumeServer(s)
      PROVE  Exact(u)' /\ ToldClosed(u)' /\ Parted(u)'
  BY <1>1, <1>8, ServerExact
<1>9. ASSUME NEW t \in Trajectories, TrajectoryStep(t), UNCHANGED syncVars
      PROVE  Exact(u)' /\ ToldClosed(u)' /\ Parted(u)'
  <2>1. CASE u = t
    BY <1>9, <2>1, TrajectoryExact
  <2>2. CASE u # t
    BY <1>1, <1>9, <2>2, OtherExact
  <2> QED
    BY <2>1, <2>2
<1> QED
  BY <1>4, <1>5, <1>6, <1>7, <1>8, <1>9, StepKinds

\* Nothing has been generated at first.
LEMMA InitContinuation == ASSUME ScriptShape, Init PROVE ContinuationInv
<1>1. agent \in DOMAIN Scripts /\ sample.at \in {"queued", "done"}
  BY DEF Init, RolloutInit
<1>2. ASSUME NEW t \in Trajectories PROVE Exact(t) /\ ToldClosed(t) /\ Parted(t)
  <2>1. data[t] = NewData /\ req[t] = NoRequest /\ task[t] = "off"
    BY DEF Init, RolloutInit
  <2>2. Len(Script) \in Nat /\ Len(Script) > 0 /\ agent \in {"single", "tool"}
    BY <1>1, ScriptFacts
  <2>3. WordsExact(NewData)
    BY <2>2 DEF WordsExact, NewData, Follow
  <2>4. Taken(NewData)
    BY <2>2 DEF Taken, Resumable, NewData
  <2>5. Asked(NewData, NoRequest, "off")
    BY DEF Asked, NoRequest
  <2> QED
    BY <2>1, <2>3, <2>4, <2>5 DEF Exact, ToldClosed, Parted, NewData
<1> QED
  BY <1>1, <1>2 DEF ContinuationInv

\* "making rollout interruption invisible to the AgentLoop": for every number of
\* trajectories, servers and updates, every limit and every script of the shape, a
\* trajectory's words are those of an uninterrupted one, none lost, repeated or masked
\* wrongly, and it ends where that one ends unless its call was cut in two.
THEOREM RolloutContinuationExact == ScriptShape => (Spec => []ContinuationExact)
<1> SUFFICES ASSUME ScriptShape PROVE Spec => []ContinuationExact
  OBVIOUS
<1>1. VersionsInv /\ ContinuationInv => ContinuationExact
  <2> SUFFICES ASSUME VersionsInv, ContinuationInv, NEW t \in Trajectories
               PROVE  LET d == data[t]
                          n == Len(d.text)
                      IN  /\ n <= Len(Script) /\ DOMAIN d.mask = 1 .. n
                          /\ DOMAIN d.logprobs = 1 .. n
                          /\ \A k \in 1 .. n :
                                /\ d.text[k].i = k
                                /\ d.mask[k] = (IF WordAt(k) = "answer" THEN 0 ELSE 1)
                                /\ d.logprobs[k] = k * d.mask[k]
                          /\ ~d.cancel => d.scored = 1 /\ (n = Uninterrupted \/ (CallCut(t) /\ n = 2))
    BY DEF ContinuationExact
  <2>1. WordsExact(data[t]) /\ Taken(data[t]) /\ agent \in DOMAIN Scripts
    BY DEF ContinuationInv, Exact
  <2>2. /\ limit \in Nat /\ data[t].text \in Seq(Word) /\ data[t].mask \in Seq({0, 1})
        /\ Len(data[t].mask) = Len(data[t].text)
    BY DEF VersionsInv, Generated, Sound, Bracketed
  <2> DEFINE d == data[t]
             n == Len(d.text)
  <2>3. /\ n <= Len(Script) /\ DOMAIN d.mask = 1 .. n /\ DOMAIN d.logprobs = 1 .. n
    <3>1. d.logprobs \in Seq(Nat) /\ Len(d.logprobs) = n /\ n <= Len(Script)
      BY <2>1 DEF WordsExact
    <3> QED
      BY <2>2, <3>1
  <2>4. ASSUME NEW k \in 1 .. n
        PROVE  /\ d.text[k].i = k /\ d.mask[k] = (IF WordAt(k) = "answer" THEN 0 ELSE 1)
               /\ d.logprobs[k] = k * d.mask[k]
    <3>1. d.text[k].i = 0 + k
      BY <2>1 DEF WordsExact, Follow
    <3> QED
      BY <2>1, <3>1 DEF WordsExact
  <2>5. ASSUME ~d.cancel PROVE d.scored = 1 /\ (n = Uninterrupted \/ (CallCut(t) /\ n = 2))
    <3>1. Finished(d)
      BY <2>1, <2>5 DEF Taken
    <3>2. Uninterrupted = Ending
      BY <2>1, <2>2, EndingIsUninterrupted
    <3>3. CASE n = Ending
      BY <3>1, <3>2, <3>3 DEF Finished
    <3>4. CASE agent = "tool" /\ n = 2 /\ d.text[1].v # d.text[2].v
      BY <3>1, <3>4 DEF Finished, CallCut
    <3> QED
      BY <3>1, <3>3, <3>4 DEF Finished
  <2> QED
    BY <2>3, <2>4, <2>5
<1>2. Init => WorkIsOpen /\ Sealed
  BY DEF Init, RolloutInit, WorkIsOpen, NewData, Sealed
<1>3. Shaped /\ WorkIsOpen /\ [Next]_vars => WorkIsOpen'
  BY WorkStep
<1>4. Shaped /\ TasksOfSample /\ Sealed /\ WorkIsOpen /\ VersionsInv /\ [Next]_vars
        => VersionsInv'
  BY VersionsStep
<1>5. Init => ContinuationInv
  BY InitContinuation
<1>6. Shaped /\ TasksOfSample /\ Sealed /\ WorkIsOpen /\ VersionsInv /\ ContinuationInv
        /\ [Next]_vars => ContinuationInv'
  BY ContinuationStep
<1> QED
  BY <1>1, <1>2, <1>3, <1>4, <1>5, <1>6, InitShaped, InitVersions, ShapedStep, TasksStep,
     SealedStep, PTL DEF Spec

-----------------------------------------------------------------------------
(* The validation: what an answer that was aborted and taken up again holds. *)

\* An engine that takes requests has the whole of the last model, if an abort stops it.
StoppedWhileTorn ==
    /\ DOMAIN stopped = Servers
    /\ phase # "paused" => told = {}
    /\ pausing =>
          /\ phase = "paused" => \A s \in told : stopped[s]
          /\ \A s \in Servers :
                ~stopped[s] => steps[s] = version /\ Len(loaded[s]) = TensorCount

ValRow(v) == DOMAIN v = {"at", "server", "out", "text", "min", "max"}

\* The validation's words follow each other.
ValFollows(v) ==
    /\ ValRow(v) /\ v.text \in Seq(Word) /\ v.out \in Seq(Word)
    /\ Follow(v.text, 0) /\ Follow(v.out, Len(v.text))
    /\ v.at \in {"sent", "serving"} => v.server \in Servers
    /\ v.at # "serving" => v.out = << >>

\* They are of the steps between the least and the last its engines reported.
ValBracketed(v) ==
    /\ v.min \in Int /\ v.max \in Int /\ v.min <= v.max /\ -1 <= v.min
    /\ v.min = -1 => v.text = << >>
    /\ \A k \in 1 .. Len(v.text) : v.text[k].v \in v.min .. v.max

\* While it is at an engine that engine has the weights of the step it reports, and no
\* earlier step has been reported than those to come.
ValServed(v) ==
    /\ v.at \in {"sent", "serving"} => v.max <= steps[v.server]
    /\ v.at = "serving" =>
          /\ ~stopped[v.server]
          /\ \A k \in 1 .. Len(v.out) : v.out[k].v = steps[v.server]

ValidationInv == ValFollows(val) /\ (pausing => ValBracketed(val) /\ ValServed(val))

\* What a step can be, as far as the validation and the engines go.
Quiet ==
    /\ UNCHANGED <<told, pausing, stopped, steps, val, version, loaded>>
    /\ phase' = phase \/ phase # "paused"

\* The steps that matter to the validation and the engines.
LEMMA EngineKinds ==
    ASSUME [Next]_vars
    PROVE  \/ Quiet \/ BeginTransfer \/ UpdateParamVersion \/ ValStep
           \/ \E s \in Servers : Abort(s) \/ Load(s) \/ SetSteps(s) \/ ResumeGeneration(s)
<1> USE DEF Quiet, rolloutVars, weightVars, setup, syncVars
<1>1. CASE Submit \/ SyncWeights \/ LateRecovery
  BY <1>1 DEF Submit, SyncWeights, LateRecovery
<1>2. CASE CancelWorker \/ Paused \/ ResumeWorker \/ Resumed
  BY <1>2 DEF CancelWorker, Paused, ResumeWorker, Resumed
<1>3. ASSUME NEW s \in Servers, CancelServer(s) \/ ResumeServer(s) PROVE Quiet
  BY <1>3 DEF CancelServer, ResumeServer
<1>4. CASE UNCHANGED vars
  BY <1>4 DEF vars
<1>5. CASE SampleStep /\ UNCHANGED syncVars
  BY <1>5 DEF SampleStep, StartSample, FinishSample
<1>6. ASSUME NEW t \in Trajectories, TrajectoryStep(t), UNCHANGED syncVars PROVE Quiet
  BY <1>6 DEF TrajectoryStep, Interrupt, Prompt, Generate, CallTools, ToolsAnswer, Turned,
     Register, Emit, Reply
<1> HIDE DEF Quiet
<1> QED
  BY <1>1, <1>2, <1>3, <1>4, <1>5, <1>6 DEF Next, RollouterStep, ServerStep

\* What Load does to the tensors: it goes on where some were missing.
LEMMA LoadEffect ==
    ASSUME WholeModels, NEW s \in Servers, Load(s)
    PROVE  /\ phase = "updating" /\ UNCHANGED <<told, phase, pausing, stopped, steps, val, version>>
           /\ \A r \in Servers \ {s} : loaded'[r] = loaded[r]
           /\ Len(loaded[s]) # TensorCount
<1>1. /\ phase = "updating" /\ UNCHANGED <<told, phase, pausing, stopped, steps, val>>
      /\ Stream!LoadIntact(s)
  BY DEF Load, syncVars, setup
<1>2. /\ version' = version /\ \A r \in Servers \ {s} : loaded'[r] = loaded[r]
      /\ \E n \in 1 .. TensorCount - Len(loaded[s]) : TRUE
  BY <1>1 DEF Stream!LoadIntact, WholeModels
<1>3. ASSUME Len(loaded[s]) = TensorCount PROVE FALSE
  <2>1. TensorCount - Len(loaded[s]) = 0
    BY <1>3, RolloutAssumption
  <2> QED
    BY <1>2, <2>1
<1> QED
  BY <1>1, <1>2, <1>3

\* An engine is not opened before it has the whole of the model.
LEMMA TornStep ==
    ASSUME StoppedWhileTorn, WholeModels, [Next]_vars
    PROVE  StoppedWhileTorn'
<1> USE DEF StoppedWhileTorn
<1>1. CASE Quiet
  BY <1>1 DEF Quiet
<1>2. CASE BeginTransfer
  <2>1. /\ phase = "paused" /\ told = Servers /\ phase' = "updating" /\ told' = {}
        /\ UNCHANGED <<pausing, stopped>>
    BY <1>2 DEF BeginTransfer, setup
  <2> QED
    BY <2>1
<1>3. CASE UpdateParamVersion
  <2>1. /\ phase = "updating" /\ phase' \in {"failed", "versioned"}
        /\ UNCHANGED <<told, pausing, stopped, steps, version, loaded>>
    BY <1>3 DEF UpdateParamVersion, Updated, setup, weightVars
  <2> QED
    BY <2>1
<1>4. CASE ValStep
  <2>1. UNCHANGED <<phase, told, pausing, stopped, steps, version, loaded>>
    BY <1>4 DEF ValStep, ValRegister, ValEmit, ValReply, ValReport, setup, weightVars
  <2> QED
    BY <2>1
<1>5. ASSUME NEW s \in Servers, Abort(s) PROVE StoppedWhileTorn'
  <2>1. /\ phase = "paused" /\ told' = told \cup {s} /\ stopped' = [stopped EXCEPT ![s] = pausing]
        /\ UNCHANGED <<phase, pausing, steps, version, loaded>>
    BY <1>5 DEF Abort, setup, weightVars
  <2> QED
    BY <2>1
<1>6. ASSUME NEW s \in Servers, Load(s) PROVE StoppedWhileTorn'
  BY <1>6, LoadEffect
<1>7. ASSUME NEW s \in Servers, SetSteps(s) PROVE StoppedWhileTorn'
  <2>1. /\ phase = "updating" /\ UNCHANGED <<phase, told, pausing, stopped, version, loaded>>
        /\ steps' = [steps EXCEPT ![s] = version] /\ Len(loaded[s]) = TensorCount
    BY <1>7 DEF SetSteps, setup, weightVars
  <2>2. \A r \in Servers : steps'[r] = IF r = s THEN version ELSE steps[r]
    BY <2>1 DEF WholeModels
  <2> QED
    BY <2>1, <2>2
<1>8. ASSUME NEW s \in Servers, ResumeGeneration(s) PROVE StoppedWhileTorn'
  <2>1. /\ phase = "updating" /\ UNCHANGED <<phase, told, pausing, steps, version, loaded>>
        /\ DOMAIN stopped' = Servers /\ \A r \in Servers : steps[r] = version
    BY <1>8 DEF ResumeGeneration, Updated, setup, weightVars
  <2> QED
    BY <2>1 DEF WholeModels
<1> QED
  BY <1>1, <1>2, <1>3, <1>4, <1>5, <1>6, <1>7, <1>8, EngineKinds

\* A word behind what an engine has generated.
LEMMA EmittedFollows ==
    ASSUME NEW p \in Seq(Word), NEW out \in Seq(Word), Follow(p, 0), Follow(out, Len(p)),
           NEW v \in Int
    PROVE  LET more == Append(out, [i |-> NextIndex(p \o out), v |-> v])
           IN  /\ more \in Seq(Word) /\ Follow(more, Len(p))
               /\ (\A k \in 1 .. Len(out) : out[k].v = v) =>
                     \A k \in 1 .. Len(more) : more[k].v = v
<1> DEFINE word == [i |-> NextIndex(p \o out), v |-> v]
           more == Append(out, word)
           n == Len(out)
<1>1. word.i = Len(p) + Len(out) + 1 /\ word.v = v /\ word \in Word
  BY NextFollows DEF Word
<1>2. n \in Nat /\ Len(p) \in Nat
  OBVIOUS
<1> HIDE DEF word
<1>3. /\ more \in Seq(Word) /\ Len(more) = n + 1 /\ more[n + 1] = word
      /\ \A k \in 1 .. n : more[k] = out[k]
  BY <1>1, <1>2, Appended
<1> HIDE DEF more
<1>4. ASSUME NEW k \in 1 .. Len(more) PROVE k \in 1 .. n \/ k = n + 1
  BY <1>2, <1>3
<1>5. Follow(more, Len(p))
  <2> SUFFICES ASSUME NEW k \in 1 .. Len(more) PROVE more[k].i = Len(p) + k
    BY DEF Follow
  <2>1. CASE k \in 1 .. n
    BY <1>3, <2>1 DEF Follow
  <2>2. CASE k = n + 1
    BY <1>1, <1>2, <1>3, <2>2
  <2> QED
    BY <1>4, <2>1, <2>2
<1>6. ASSUME \A k \in 1 .. Len(out) : out[k].v = v, NEW k \in 1 .. Len(more)
      PROVE  more[k].v = v
  <2>1. CASE k \in 1 .. n
    BY <1>3, <1>6, <2>1
  <2>2. CASE k = n + 1
    BY <1>1, <1>3, <2>2
  <2> QED
    BY <1>4, <2>1, <2>2
<1> QED
  BY <1>3, <1>5, <1>6 DEF more, word

\* One answer behind another.
LEMMA JoinedFollows ==
    ASSUME NEW p \in Seq(Word), NEW q \in Seq(Word), Follow(p, 0), Follow(q, Len(p))
    PROVE  /\ p \o q \in Seq(Word) /\ Follow(p \o q, 0)
           /\ \A k \in 1 .. Len(p \o q) :
                 \/ k \in 1 .. Len(p) /\ (p \o q)[k] = p[k]
                 \/ \E j \in 1 .. Len(q) : (p \o q)[k] = q[j]
<1> DEFINE r == p \o q
           n == Len(p)
           m == Len(q)
<1>1. /\ r \in Seq(Word) /\ Len(r) = n + m
      /\ \A i \in 1 .. n + m : r[i] = IF i <= n THEN p[i] ELSE q[i - n]
  BY ConcatProperties
<1>2. n \in Nat /\ m \in Nat
  OBVIOUS
<1> HIDE DEF r
<1>3. ASSUME NEW k \in 1 .. Len(r)
      PROVE  \/ k \in 1 .. n /\ r[k] = p[k]
             \/ ~(k <= n) /\ k - n \in 1 .. m /\ r[k] = q[k - n]
  <2> HIDE DEF n, m
  <2>1. CASE k <= n
    BY <1>1, <1>2, <2>1
  <2>2. CASE ~(k <= n)
    <3>1. k - n \in 1 .. m /\ k \in 1 .. n + m
      BY <1>1, <1>2, <2>2
    <3>2. r[k] = q[k - n]
      BY <1>1, <2>2, <3>1, Zenon
    <3> QED
      BY <2>2, <3>1, <3>2
  <2> QED
    BY <2>1, <2>2
<1>4. ASSUME NEW k \in 1 .. Len(r) PROVE r[k].i = 0 + k
  <2>1. CASE k \in 1 .. n /\ r[k] = p[k]
    BY <2>1 DEF Follow
  <2>2. CASE ~(k <= n) /\ k - n \in 1 .. m /\ r[k] = q[k - n]
    <3>1. q[k - n].i = n + (k - n)
      BY <2>2 DEF Follow
    <3> HIDE DEF n, m
    <3> QED
      BY <1>1, <1>2, <2>2, <3>1
  <2> QED
    BY <1>3, <2>1, <2>2
<1> QED
  BY <1>1, <1>3, <1>4 DEF Follow, r

\* An answer of an engine at step g is merged into what was there.
LEMMA MergedInv ==
    ASSUME ValFollows(val), NEW g \in Nat, NEW w, w \in {"sent", "answered"},
           w = "sent" => val.server \in Servers
    PROVE  LET v == [Merged(g) EXCEPT !.at = w]
           IN  /\ ValFollows(v) /\ v.at = w /\ v.server = val.server /\ v.max = g /\ v.out = << >>
               /\ /\ ValBracketed(val) /\ val.max <= g
                  /\ \A k \in 1 .. Len(val.out) : val.out[k].v = g
                  => ValBracketed(v)
<1> DEFINE v == [Merged(g) EXCEPT !.at = w]
           p == val.text
           q == val.out
<1>1. /\ ValRow(v) /\ v.at = w /\ v.server = val.server /\ v.text = p \o q /\ v.out = << >>
      /\ v.min = (IF val.min = -1 THEN g ELSE val.min) /\ v.max = g
  BY DEF Merged, ValFollows, ValRow
<1> HIDE DEF v
<1>2. p \in Seq(Word) /\ q \in Seq(Word) /\ Follow(p, 0) /\ Follow(q, Len(p))
  BY DEF ValFollows
<1> HIDE DEF p, q
<1>3. /\ p \o q \in Seq(Word) /\ Follow(p \o q, 0)
      /\ \A k \in 1 .. Len(p \o q) :
            \/ k \in 1 .. Len(p) /\ (p \o q)[k] = p[k]
            \/ \E j \in 1 .. Len(q) : (p \o q)[k] = q[j]
  BY <1>2, JoinedFollows
<1>4. << >> \in Seq(Word) /\ Follow(<< >>, Len(v.text))
  BY DEF Follow
<1>5. ValFollows(v)
  BY <1>1, <1>3, <1>4 DEF ValFollows
<1>6. ASSUME ValBracketed(val), val.max <= g, \A k \in 1 .. Len(q) : q[k].v = g
      PROVE  ValBracketed(v)
  <2>1. /\ val.min \in Int /\ val.max \in Int /\ val.min <= val.max /\ -1 <= val.min
        /\ val.min = -1 => p = << >>
        /\ \A k \in 1 .. Len(p) : p[k].v \in val.min .. val.max
    BY <1>6 DEF ValBracketed, p
  <2>2. v.min \in Int /\ v.max \in Int /\ v.min <= v.max /\ -1 <= v.min /\ v.min # -1
    BY <1>1, <1>6, <2>1
  <2>3. ASSUME NEW k \in 1 .. Len(v.text) PROVE v.text[k].v \in v.min .. v.max
    <3>1. CASE k \in 1 .. Len(p) /\ (p \o q)[k] = p[k]
      <4>1. p # << >>
        BY <3>1
      <4>2. p[k].v \in val.min .. val.max /\ v.min = val.min
        BY <1>1, <2>1, <3>1, <4>1
      <4>3. p[k].v \in v.min .. v.max
        BY <1>1, <1>6, <2>1, <4>2
      <4> QED
        BY <1>1, <3>1, <4>3
    <3>2. CASE \E j \in 1 .. Len(q) : (p \o q)[k] = q[j]
      <4>1. v.text[k].v = g
        BY <1>1, <1>6, <3>2
      <4> QED
        BY <1>1, <2>2, <4>1
    <3> QED
      BY <1>1, <1>3, <2>3, <3>1, <3>2
  <2> QED
    BY <2>2, <2>3 DEF ValBracketed
<1> QED
  BY <1>1, <1>5, <1>6 DEF v, q

\* No request at all.
LEMMA NoValInv ==
    ASSUME WholeModels, NEW s \in Servers
    PROVE  /\ ValFollows(NoVal) /\ ValBracketed(NoVal) /\ ValServed(NoVal)
           /\ LET v == [NoVal EXCEPT !.at = "sent", !.server = s]
              IN  ValFollows(v) /\ ValBracketed(v) /\ ValServed(v)
<1> DEFINE v == [NoVal EXCEPT !.at = "sent", !.server = s]
<1>1. /\ ValRow(v) /\ v.at = "sent" /\ v.server = s /\ v.out = << >> /\ v.text = << >>
      /\ v.min = -1 /\ v.max = -1
  BY DEF NoVal, ValRow
<1>2. steps[s] \in Nat
  BY DEF WholeModels
<1>3. << >> \in Seq(Word) /\ Follow(<< >>, 0) /\ Follow(<< >>, Len(<< >>)) /\ Len(<< >>) = 0
  BY DEF Follow
<1>4. ValFollows(NoVal) /\ ValBracketed(NoVal) /\ ValServed(NoVal)
  BY <1>3 DEF ValFollows, ValRow, ValBracketed, ValServed, NoVal
<1> HIDE DEF v
<1>5. ValFollows(v) /\ ValBracketed(v) /\ ValServed(v)
  BY <1>1, <1>2, <1>3 DEF ValFollows, ValBracketed, ValServed
<1> QED
  BY <1>4, <1>5 DEF v

\* Every step keeps ValidationInv.
LEMMA ValidationStep ==
    ASSUME ValidationInv, StoppedWhileTorn, WholeModels, [Next]_vars
    PROVE  ValidationInv'
<1>1. /\ ValFollows(val) /\ (pausing => ValBracketed(val) /\ ValServed(val))
      /\ version \in Nat /\ DOMAIN steps = Servers /\ DOMAIN stopped = Servers
      /\ \A s \in Servers : steps[s] \in Nat
  BY DEF ValidationInv, WholeModels, StoppedWhileTorn
<1>2. ASSUME ValFollows(val'), pausing' = pausing,
             pausing => ValBracketed(val') /\ ValServed(val)'
      PROVE  ValidationInv'
  BY <1>2 DEF ValidationInv, ValFollows, ValBracketed, ValServed, ValRow, Follow
<1>3. CASE Quiet
  BY <1>1, <1>2, <1>3 DEF Quiet, ValServed
<1>4. CASE BeginTransfer
  <2>1. UNCHANGED <<val, stopped, steps, pausing>>
    BY <1>4 DEF BeginTransfer, setup
  <2> QED
    BY <1>1, <1>2, <2>1 DEF ValServed
<1>5. CASE UpdateParamVersion
  <2>1. UNCHANGED <<stopped, steps, pausing>>
    BY <1>5 DEF UpdateParamVersion, setup
  <2>2. CASE val' = val
    BY <1>1, <1>2, <2>1, <2>2 DEF ValServed
  <2>3. CASE val' # val
    <3>1. PICK s \in Servers : val' = [NoVal EXCEPT !.at = "sent", !.server = s]
      BY <1>5, <2>3 DEF UpdateParamVersion
    <3>2. ValFollows(val') /\ ValBracketed(val') /\ ValServed(val')
      BY <3>1, NoValInv
    <3> QED
      BY <1>2, <2>1, <3>2 DEF ValServed
  <2> QED
    BY <2>2, <2>3
<1>6. CASE ValRegister
  <2>1. /\ UNCHANGED <<stopped, steps, pausing>> /\ val.at = "sent" /\ ~stopped[val.server]
        /\ val' = [val EXCEPT !.at = "serving"]
    BY <1>6 DEF ValRegister, setup
  <2>2. /\ ValRow(val') /\ val'.at = "serving" /\ val'.server = val.server /\ val'.out = val.out
        /\ val'.text = val.text /\ val'.min = val.min /\ val'.max = val.max
    BY <1>1, <2>1 DEF ValFollows, ValRow
  <2>3. ValFollows(val') /\ val.out = << >> /\ Len(<< >>) = 0
    BY <1>1, <2>1, <2>2 DEF ValFollows
  <2>4. pausing => ValBracketed(val') /\ ValServed(val)'
    BY <1>1, <2>1, <2>2, <2>3 DEF ValBracketed, ValServed
  <2> QED
    BY <1>2, <2>1, <2>3, <2>4
<1>7. CASE ValEmit
  <2> DEFINE v == Weights(val.server)
             more == Append(val.out, [i |-> NextIndex(val.text \o val.out), v |-> v])
  <2>1. /\ UNCHANGED <<stopped, steps, pausing>> /\ val.at = "serving" /\ val.server \in Servers
        /\ val' = [val EXCEPT !.out = more]
    BY <1>1, <1>7 DEF ValEmit, setup, ValFollows
  <2>2. v \in Int
    BY <1>1 DEF Weights, Torn
  <2>3. pausing => v = steps[val.server]
    <3>1. ASSUME pausing
          PROVE  steps[val.server] = version /\ Len(loaded[val.server]) = TensorCount
      BY <1>1, <2>1, <3>1 DEF ValServed, StoppedWhileTorn
    <3>2. Len(loaded[val.server]) = TensorCount => v = version
      BY Zenon, RolloutAssumption, EmptySeq, <1>1, <2>1 DEF Weights
    <3> QED
      BY <3>1, <3>2
  <2> HIDE DEF v
  <2>4. val.text \in Seq(Word) /\ val.out \in Seq(Word) /\ Follow(val.text, 0)
        /\ Follow(val.out, Len(val.text))
    BY <1>1 DEF ValFollows
  <2>5. /\ more \in Seq(Word) /\ Follow(more, Len(val.text))
        /\ (\A k \in 1 .. Len(val.out) : val.out[k].v = v) =>
              \A k \in 1 .. Len(more) : more[k].v = v
    BY <2>2, <2>4, EmittedFollows
  <2> HIDE DEF more
  <2>6. /\ ValRow(val') /\ val'.at = "serving" /\ val'.server = val.server /\ val'.out = more
        /\ val'.text = val.text /\ val'.min = val.min /\ val'.max = val.max
    BY <1>1, <2>1 DEF ValFollows, ValRow
  <2>7. ValFollows(val')
    BY <1>1, <2>1, <2>5, <2>6 DEF ValFollows
  <2>8. pausing => ValBracketed(val') /\ ValServed(val)'
    <3> SUFFICES ASSUME pausing PROVE ValBracketed(val') /\ ValServed(val)'
      OBVIOUS
    <3>1. \A k \in 1 .. Len(val.out) : val.out[k].v = v
      BY <1>1, <2>1, <2>3 DEF ValServed
    <3> QED
      BY <1>1, <2>1, <2>3, <2>5, <2>6, <3>1 DEF ValBracketed, ValServed
  <2> QED
    BY <1>2, <2>1, <2>7, <2>8
<1>8. CASE ValReply
  <2>1. /\ UNCHANGED <<stopped, steps, pausing>> /\ val.at = "serving" /\ val.server \in Servers
        /\ val' = [Merged(steps[val.server]) EXCEPT !.at = "answered"]
    BY <1>1, <1>8 DEF ValReply, setup, ValFollows
  <2> DEFINE g == steps[val.server]
  <2>2. g \in Nat
    BY <1>1, <2>1
  <2>3. pausing => /\ ValBracketed(val) /\ val.max <= g
                   /\ \A k \in 1 .. Len(val.out) : val.out[k].v = g
    BY <1>1, <2>1 DEF ValServed
  <2> HIDE DEF g
  <2>4. val' = [Merged(g) EXCEPT !.at = "answered"]
    BY <2>1 DEF g
  <2>5. /\ ValFollows(val') /\ val'.at = "answered"
        /\ /\ ValBracketed(val) /\ val.max <= g
           /\ \A k \in 1 .. Len(val.out) : val.out[k].v = g
           => ValBracketed(val')
    <3>1. "answered" \in {"sent", "answered"} /\ "answered" # "sent"
      OBVIOUS
    <3> QED
      BY <1>1, <2>2, <2>4, <3>1, MergedInv
  <2>6. ValServed(val)'
    BY <2>5 DEF ValServed
  <2> QED
    BY <1>2, <2>1, <2>3, <2>5, <2>6
<1>9. CASE ValReport
  <2>1. UNCHANGED <<stopped, steps, pausing>> /\ val' = NoVal
    BY <1>9 DEF ValReport, setup
  <2>2. NoVal.at = "idle" /\ ValFollows(NoVal) /\ ValBracketed(NoVal)
    BY DEF NoVal, ValFollows, ValBracketed, ValRow, Follow
  <2>3. ValServed(val)'
    BY <2>1, <2>2 DEF ValServed
  <2> QED
    BY <1>2, <2>1, <2>2, <2>3
<1>10. ASSUME NEW s \in Servers, Abort(s) PROVE ValidationInv'
  <2>1. /\ UNCHANGED <<steps, pausing>> /\ stopped' = [stopped EXCEPT ![s] = pausing]
        /\ val' = IF val.at = "serving" /\ val.server = s
                  THEN [Merged(steps[s]) EXCEPT !.at = "sent"] ELSE val
    BY <1>10 DEF Abort, setup
  <2>2. CASE val.at = "serving" /\ val.server = s
    <3> DEFINE g == steps[s]
    <3>1. g \in Nat /\ val.server \in Servers
      BY <1>1, <2>2
    <3>2. pausing => /\ ValBracketed(val) /\ val.max <= g
                     /\ \A k \in 1 .. Len(val.out) : val.out[k].v = g
      BY <1>1, <2>2 DEF ValServed
    <3> HIDE DEF g
    <3>3. val' = [Merged(g) EXCEPT !.at = "sent"]
      BY <2>1, <2>2 DEF g
    <3>4. /\ ValFollows(val') /\ val'.at = "sent" /\ val'.server = s /\ val'.max = g
          /\ /\ ValBracketed(val) /\ val.max <= g
             /\ \A k \in 1 .. Len(val.out) : val.out[k].v = g
             => ValBracketed(val')
      <4>1. "sent" \in {"sent", "answered"}
        OBVIOUS
      <4> QED
        BY <1>1, <2>2, <3>1, <3>3, <4>1, MergedInv
    <3>5. ValServed(val)'
      BY <2>1, <3>1, <3>4 DEF ValServed, g
    <3> QED
      BY <1>2, <2>1, <3>2, <3>4, <3>5
  <2>3. CASE ~(val.at = "serving" /\ val.server = s)
    <3>1. val' = val
      BY <2>1, <2>3
    <3>2. pausing => ValServed(val)'
      <4>1. val.at = "serving" => stopped'[val.server] = stopped[val.server]
        BY <2>1, <2>3
      <4> QED
        BY <1>1, <2>1, <3>1, <4>1 DEF ValServed
    <3> QED
      BY <1>1, <1>2, <2>1, <3>1, <3>2
  <2> QED
    BY <2>2, <2>3
<1>11. ASSUME NEW s \in Servers, Load(s) PROVE ValidationInv'
  <2>1. UNCHANGED <<val, stopped, steps, pausing>>
    BY <1>11, LoadEffect
  <2> QED
    BY <1>1, <1>2, <2>1 DEF ValServed
<1>12. ASSUME NEW s \in Servers, SetSteps(s) PROVE ValidationInv'
  <2>1. /\ UNCHANGED <<val, stopped, pausing>> /\ steps[s] < version
        /\ steps' = [steps EXCEPT ![s] = version]
    BY <1>12 DEF SetSteps, setup
  <2>2. \A r \in Servers : steps'[r] = IF r = s THEN version ELSE steps[r]
    BY <1>1, <2>1
  <2>3. pausing => ValServed(val)'
    <3> SUFFICES ASSUME pausing PROVE ValServed(val)'
      OBVIOUS
    <3>1. ASSUME val.at = "serving" PROVE val.server \in Servers /\ steps'[val.server] = steps[val.server]
      <4>1. val.server \in Servers /\ ~stopped[val.server]
        BY <1>1, <3>1 DEF ValFollows, ValServed
      <4>2. steps[val.server] = version
        BY <4>1 DEF StoppedWhileTorn
      <4>3. val.server # s
        BY <1>1, <2>1, <4>2
      <4> QED
        BY <2>2, <4>1, <4>3
    <3>2. ASSUME val.at \in {"sent", "serving"} PROVE val.max <= steps'[val.server]
      <4>1. val.server \in Servers /\ val.max <= steps[val.server] /\ val.max \in Int
        BY <1>1, <3>2 DEF ValFollows, ValServed, ValBracketed
      <4> QED
        BY <1>1, <2>1, <2>2, <4>1
    <3> QED
      BY <1>1, <2>1, <3>1, <3>2 DEF ValServed
  <2> QED
    BY <1>1, <1>2, <2>1, <2>3
<1>13. ASSUME NEW s \in Servers, ResumeGeneration(s) PROVE ValidationInv'
  <2>1. UNCHANGED <<val, steps, pausing>> /\ stopped' = [stopped EXCEPT ![s] = FALSE]
    BY <1>13 DEF ResumeGeneration, setup
  <2>2. \A r \in Servers : ~stopped[r] => ~stopped'[r]
    BY <1>1, <2>1
  <2>3. pausing => ValServed(val)'
    BY <1>1, <2>1, <2>2 DEF ValServed, ValFollows
  <2> QED
    BY <1>1, <1>2, <2>1, <2>3
<1> QED
  BY <1>3, <1>4, <1>5, <1>6, <1>7, <1>8, <1>9, <1>10, <1>11, <1>12, <1>13, EngineKinds
     DEF ValStep

\* At first no validation runs and every engine has version 0.
LEMMA InitValidation == Init => StoppedWhileTorn /\ ValidationInv
<1> SUFFICES ASSUME Init PROVE StoppedWhileTorn /\ ValidationInv
  OBVIOUS
<1>1. /\ phase = "open" /\ told = {} /\ DOMAIN stopped = Servers /\ val = NoVal
      /\ version = 0 /\ \A s \in Servers : steps[s] = 0
  BY DEF Init, Stream!StreamInit
<1>2. \A s \in Servers : Len(loaded[s]) = TensorCount
  BY <1>1, WholeInit DEF WholeModels
<1>3. ValFollows(NoVal) /\ ValBracketed(NoVal) /\ ValServed(NoVal)
  BY DEF NoVal, ValFollows, ValBracketed, ValServed, ValRow, Follow
<1> QED
  BY <1>1, <1>2, <1>3 DEF StoppedWhileTorn, ValidationInv

\* An answer of the validation that updates aborted and that was taken up again: its
\* words follow each other, and come from whole models of the steps between the two it
\* reports, where an aborted engine takes nothing new.
THEOREM RolloutValidationBracketed == Spec => []ValidationBracketed
<1>1. ValidationInv => ValidationBracketed
  <2> SUFFICES ASSUME ValidationInv, val.at = "answered"
               PROVE  /\ \A k \in DOMAIN val.text : val.text[k].i = k
                      /\ pausing => \A k \in DOMAIN val.text : val.text[k].v \in val.min .. val.max
    BY DEF ValidationBracketed
  <2>1. DOMAIN val.text = 1 .. Len(val.text) /\ Follow(val.text, 0)
    BY DEF ValidationInv, ValFollows
  <2>2. \A k \in DOMAIN val.text : val.text[k].i = k
    BY <2>1 DEF Follow
  <2> QED
    BY <2>1, <2>2 DEF ValidationInv, ValBracketed
<1>2. WholeModels /\ StoppedWhileTorn /\ [Next]_vars => StoppedWhileTorn'
  BY TornStep
<1>3. WholeModels /\ StoppedWhileTorn /\ ValidationInv /\ [Next]_vars => ValidationInv'
  BY ValidationStep
<1>4. Init => WholeModels
  BY WholeInit
<1> QED
  BY <1>1, <1>2, <1>3, <1>4, WholeStep, InitValidation, PTL DEF Spec

-----------------------------------------------------------------------------
(* Types.                                                                  *)

\* Versions are counted within the bound, and the rollouter's is never ahead.
Counted == known \in Nat /\ known <= version /\ version <= MaxUpdates

\* Where the sample, the update, the validation and the coroutines can be.
Places ==
    /\ sample.at \in {"queued", "submitted", "running", "done"}
    /\ phase \in {"open", "cancelling", "paused", "updating", "versioned", "failed"}
    /\ val.at \in {"idle", "sent", "serving", "answered"} /\ paused \in BOOLEAN
    /\ \A t \in Trajectories :
          task[t] \in {"off", "loop", "sent", "tools", "serving", "returned"}

\* The version is counted up to the bound, the rollouter's behind it.
LEMMA CountedStep == ASSUME Counted, WholeModels, [Next]_vars PROVE Counted'
<1>1. version \in Nat /\ known \in Nat
  BY DEF WholeModels, Counted
<1>2. ASSUME UNCHANGED <<known, version>> PROVE Counted'
  BY <1>2 DEF Counted
<1> USE DEF rolloutVars, weightVars, setup, syncVars
<1>3. CASE Aside /\ ~BeginTransfer /\ ~UpdateParamVersion
  <2>1. UNCHANGED <<known, version>>
    BY <1>3 DEF Aside, Submit, SyncWeights, LateRecovery, RollouterStep, CancelWorker, Paused, ResumeWorker,
       Resumed, ValStep, ValRegister, ValEmit, ValReply, ValReport, Load, Stream!LoadIntact,
       SetSteps, ResumeGeneration
  <2> QED
    BY <1>2, <2>1
<1>4. CASE BeginTransfer
  <2>1. version < MaxUpdates /\ version' = version + 1 /\ known' = known
    BY <1>4 DEF BeginTransfer, Stream!BeginUpdate
  <2> QED
    BY <1>1, <2>1, RolloutAssumption DEF Counted
<1>5. CASE UpdateParamVersion
  <2>1. known' = version /\ version' = version
    BY <1>5 DEF UpdateParamVersion
  <2> QED
    BY <1>1, <2>1 DEF Counted
<1>6. CASE StartSample \/ FinishSample \/ UNCHANGED vars
  BY <1>2, <1>6 DEF StartSample, FinishSample, vars
<1>7. ASSUME NEW s \in Servers, CancelServer(s) \/ Abort(s) \/ ResumeServer(s) PROVE Counted'
  BY <1>2, <1>7 DEF CancelServer, Abort, ResumeServer
<1>8. ASSUME NEW t \in Trajectories, TrajectoryStep(t) PROVE Counted'
  <2>1. UNCHANGED <<known, version>>
    BY <1>8 DEF TrajectoryStep, Interrupt, Prompt, Generate, CallTools, ToolsAnswer, Turned,
       Register, Emit, Reply
  <2> QED
    BY <1>2, <2>1
<1> QED
  BY <1>3, <1>4, <1>5, <1>6, <1>7, <1>8, StepKinds

\* Where the steps of the trajectories lead.
LEMMA TrajectoryPlaces ==
    ASSUME Shaped, NEW t \in Trajectories, TrajectoryStep(t)
    PROVE  task'[t] \in {"loop", "sent", "tools", "serving", "returned"}
<1>1. DOMAIN task = Trajectories
  BY DEF Shaped
<1>2. task[t] \in {"loop", "sent", "tools", "serving"}
  BY TrajectoryFrame
<1>3. CASE Interrupt(t) \/ Prompt(t) \/ Generate(t) \/ CallTools(t) \/ Register(t) \/ Emit(t)
  BY <1>1, <1>2, <1>3 DEF Interrupt, Prompt, Generate, CallTools, Register, Emit
<1>4. CASE ToolsAnswer(t)
  <2>1. task'[t] \in {"loop", "returned"}
    BY <1>1, <1>4 DEF ToolsAnswer
  <2> QED
    BY <2>1
<1>5. CASE Turned(t)
  <2>1. Receive(t, << >>, TRUE)
    BY <1>5 DEF Turned
  <2> QED
    BY <2>1, ReceiveShape
<1>6. CASE Reply(t)
  <2>1. Receive(t, req[t].out, ~req[t].over)
    BY <1>6, ReplyEffect
  <2> QED
    BY <2>1, ReceiveShape
<1> QED
  BY <1>3, <1>4, <1>5, <1>6 DEF TrajectoryStep

\* The pause is taken, lifted or left.
LEMMA PauseStep == paused \in BOOLEAN /\ [Next]_vars => paused' \in BOOLEAN
<1> SUFFICES ASSUME paused \in BOOLEAN, [Next]_vars PROVE paused' \in BOOLEAN
  OBVIOUS
<1> USE DEF syncVars
<1>1. CASE Submit \/ SyncWeights \/ LateRecovery
  BY <1>1 DEF Submit, SyncWeights, LateRecovery
<1>2. CASE RollouterStep
  BY <1>2 DEF RollouterStep, CancelWorker, Paused, BeginTransfer, UpdateParamVersion,
     ResumeWorker, Resumed
<1>3. CASE ValStep
  BY <1>3 DEF ValStep, ValRegister, ValEmit, ValReply, ValReport
<1>4. ASSUME NEW s \in Servers, ServerStep(s) PROVE paused' = paused
  BY <1>4 DEF ServerStep, CancelServer, Abort, Load, SetSteps, ResumeGeneration, ResumeServer
<1> QED
  BY <1>1, <1>2, <1>3, <1>4 DEF Next, vars

\* Every step leads to one of the places.
LEMMA PlacesStep ==
    ASSUME Shaped, ValFollows(val), Places, [Next]_vars
    PROVE  Places'
<1> USE DEF rolloutVars, setup, syncVars
<1>1. ASSUME NEW u \in Trajectories
      PROVE  task'[u] \in {"off", "loop", "sent", "tools", "serving", "returned"}
  <2>1. CASE Aside
    BY <2>1, AsideFrame DEF Places
  <2>2. CASE UNCHANGED vars
    BY <2>2 DEF vars, Places
  <2>3. CASE StartSample \/ FinishSample
    BY <2>3 DEF StartSample, FinishSample
  <2>4. ASSUME NEW s \in Servers, CancelServer(s) \/ Abort(s) \/ ResumeServer(s)
        PROVE  task' = task
    BY <2>4 DEF CancelServer, Abort, ResumeServer
  <2>5. ASSUME NEW t \in Trajectories, TrajectoryStep(t)
        PROVE  task'[u] \in {"off", "loop", "sent", "tools", "serving", "returned"}
    <3>1. CASE u = t
      BY <2>5, <3>1, TrajectoryPlaces
    <3>2. CASE u # t
      BY <2>5, <3>2, TrajectoryFrame DEF Places
    <3> QED
      BY <3>1, <3>2
  <2> QED
    BY <2>1, <2>2, <2>3, <2>4, <2>5, StepKinds DEF Places
<1>2. SUFFICES /\ sample'.at \in {"queued", "submitted", "running", "done"}
               /\ phase' \in {"open", "cancelling", "paused", "updating", "versioned", "failed"}
               /\ val'.at \in {"idle", "sent", "serving", "answered"}
  BY <1>1, PauseStep DEF Places
<1>3. DOMAIN sample = SampleFields /\ SampleFields = {"at", "version", "first", "late"}
      /\ ValRow(val)
  BY DEF Shaped, ValFollows, SampleFields
<1> USE DEF Places
<1>4. CASE Submit \/ SyncWeights \/ LateRecovery
  BY <1>3, <1>4 DEF Submit, SyncWeights, LateRecovery
<1>5. CASE CancelWorker \/ Paused \/ BeginTransfer \/ ResumeWorker \/ Resumed
  BY <1>5 DEF CancelWorker, Paused, BeginTransfer, ResumeWorker, Resumed
<1>6. CASE UpdateParamVersion
  <2>1. sample' = sample /\ phase' \in {"failed", "versioned"}
        /\ (val' = val \/ \E s \in Servers : val' = [NoVal EXCEPT !.at = "sent", !.server = s])
    BY <1>6 DEF UpdateParamVersion
  <2> QED
    BY <2>1 DEF NoVal
<1>7. CASE ValStep
  <2>1. UNCHANGED <<sample, phase>>
    BY <1>7 DEF ValStep, ValRegister, ValEmit, ValReply, ValReport
  <2>2. val'.at \in {"idle", "serving", "answered"}
    <3>1. CASE ValRegister \/ ValReport
      BY <1>3, <3>1 DEF ValRegister, ValReport, NoVal, ValRow
    <3>2. CASE ValEmit
      <4>1. PICK out : val' = [val EXCEPT !.out = out]
        BY <3>2 DEF ValEmit
      <4>2. val'.at = val.at /\ val.at = "serving"
        BY <1>3, <3>2, <4>1 DEF ValEmit, ValRow
      <4> QED
        BY <4>2
    <3>3. CASE ValReply
      <4>1. [Merged(steps[val.server]) EXCEPT !.at = "answered"].at = "answered"
        BY <1>3 DEF Merged, ValRow
      <4> QED
        BY <3>3, <4>1 DEF ValReply
    <3> QED
      BY <1>7, <3>1, <3>2, <3>3 DEF ValStep
  <2> QED
    BY <2>1, <2>2
<1>8. ASSUME NEW s \in Servers, ServerStep(s)
      PROVE  /\ sample'.at \in {"queued", "submitted", "running", "done"}
             /\ phase' \in {"open", "cancelling", "paused", "updating", "versioned", "failed"}
             /\ val'.at \in {"idle", "sent", "serving", "answered"}
  <2>1. CASE Abort(s)
    <3>1. UNCHANGED <<sample, phase>> /\ val' \in {val, [Merged(steps[s]) EXCEPT !.at = "sent"]}
      BY <2>1 DEF Abort
    <3>2. [Merged(steps[s]) EXCEPT !.at = "sent"].at = "sent"
      BY <1>3 DEF Merged, ValRow
    <3> QED
      BY <3>1, <3>2
  <2>2. CASE ~Abort(s)
    <3>1. UNCHANGED <<sample, phase, val>>
      BY <1>8, <2>2 DEF ServerStep, CancelServer, Load, SetSteps, ResumeGeneration, ResumeServer
    <3> QED
      BY <3>1
  <2> QED
    BY <2>1, <2>2
<1>9. CASE UNCHANGED vars
  BY <1>9 DEF vars
<1>10. CASE SampleStep /\ UNCHANGED syncVars
  <2>1. UNCHANGED <<phase, val>> /\ sample'.at \in {"running", "queued", "done"}
    <3>1. CASE StartSample
      BY <1>3, <1>10, <3>1 DEF StartSample
    <3>2. CASE FinishSample
      <4>1. PICK a \in {"queued", "done"} : sample' = [sample EXCEPT !.at = a]
        BY <3>2 DEF FinishSample
      <4> QED
        BY <1>3, <1>10, <4>1
    <3> QED
      BY <1>10, <3>1, <3>2 DEF SampleStep
  <2> QED
    BY <2>1
<1>11. ASSUME NEW t \in Trajectories, TrajectoryStep(t), UNCHANGED syncVars
       PROVE  UNCHANGED <<sample, phase, val>>
  BY <1>11, TrajectoryFrame
<1> QED
  BY <1>4, <1>5, <1>6, <1>7, <1>8, <1>9, <1>10, <1>11 DEF Next, RollouterStep

\* Where everything is at first.
LEMMA InitTypes == Init => Counted /\ Places
<1> SUFFICES ASSUME Init PROVE Counted /\ Places
  OBVIOUS
<1>1. version = 0 /\ known = 0 /\ MaxUpdates \in Nat
  BY RolloutAssumption DEF Init, RolloutInit, Stream!StreamInit
<1>2. /\ sample.at \in {"queued", "done"} /\ phase = "open" /\ val.at = "idle"
      /\ paused = FALSE /\ \A t \in Trajectories : task[t] = "off"
  BY DEF Init, RolloutInit, NoVal
<1>3. Counted
  BY <1>1 DEF Counted
<1> QED
  BY <1>2, <1>3 DEF Places

\* The range of a generated word's version.
LEMMA VersionOfWord ==
    ASSUME NEW now \in Nat, NEW begin \in 0 .. now, NEW hi \in Int, hi <= now,
           NEW v \in Int, begin <= v, v <= hi
    PROVE  v \in -2 .. now
  OBVIOUS

\* Versions within the bound and no word beyond the script, whatever the updates cut and
\* however often: what the type invariant of the runs says, for every instance.
THEOREM RolloutTypes == ScriptShape => (Spec => []TypeOK)
<1> SUFFICES ASSUME ScriptShape PROVE Spec => []TypeOK
  OBVIOUS
<1>1. Shaped /\ VersionsInv /\ ContinuationInv /\ Counted /\ Places => TypeOK
  <2> SUFFICES ASSUME Shaped, VersionsInv, ContinuationInv, Counted, Places
               PROVE  TypeOK
    OBVIOUS
  <2>1. version \in Nat /\ known \in 0 .. version /\ version \in 0 .. MaxUpdates
    BY RolloutAssumption DEF VersionsInv, WholeModels, Counted
  <2>2. Len(Script) \in Nat /\ agent \in DOMAIN Scripts
    BY ScriptFacts DEF ContinuationInv
  <2>3. ASSUME NEW t \in Trajectories
        PROVE  /\ \A k \in DOMAIN data[t].text : data[t].text[k] \in Words(NotGenerated .. version)
               /\ \A k \in DOMAIN req[t].out : req[t].out[k] \in Words(Torn .. version)
               /\ data[t].begin \in 0 .. version /\ data[t].end \in 0 .. version
    <3>1. /\ Sound(data[t], known) /\ WordsExact(data[t])
          /\ Asked(data[t], req[t], task[t])
      BY DEF VersionsInv, Generated, ContinuationInv, Exact
    <3>2. data[t].begin \in 0 .. version /\ data[t].end \in 0 .. version
      BY <2>1, <3>1 DEF Sound
    <3>3. ASSUME NEW k \in DOMAIN data[t].text
          PROVE  data[t].text[k] \in Words(NotGenerated .. version)
      <4> DEFINE d == data[t]
                 w == d.text[k]
      <4>1. /\ d.text \in Seq(Word) /\ k \in 1 .. Len(d.text) /\ w \in Word
            /\ d.mask[k] \in {0, 1} /\ Len(d.text) \in Nat
        BY <3>1, <3>3 DEF Sound, Bracketed
      <4>2. w.i = k /\ Len(d.text) <= Len(Script)
        BY <3>1, <4>1 DEF WordsExact, Follow
      <4>3. w.v \in NotGenerated .. version
        <5>1. CASE d.mask[k] = 1
          <6> DEFINE hi == IF d.cancel THEN known ELSE LastVersion(d)
          <6>1. d.begin <= w.v /\ w.v <= hi
            BY <3>1, <4>1, <5>1 DEF Sound, Bracketed
          <6>2. w.v \in Int
            BY <4>1 DEF Word
          <6>3. hi \in Int /\ hi <= version
            BY <2>1, <3>1 DEF Sound, LastVersion
          <6> HIDE DEF d, w, hi
          <6> QED
            BY <2>1, <3>2, <6>1, <6>2, <6>3, VersionOfWord DEF d, NotGenerated
        <5>2. CASE d.mask[k] = 0
          <6>1. w.v = NotGenerated
            BY <3>1, <4>1, <5>2 DEF WordsExact
          <6> QED
            BY <2>1, <6>1 DEF NotGenerated
        <5> QED
          BY <4>1, <5>1, <5>2
      <4>4. w.i \in 1 .. Len(Script) + 1
        BY <2>2, <4>1, <4>2
      <4> HIDE DEF w
      <4>5. w \in Words(NotGenerated .. version)
        BY <4>1, <4>3, <4>4 DEF Words, Word
      <4> QED
        BY <4>5 DEF w
    <3>4. ASSUME NEW k \in DOMAIN req[t].out
          PROVE  req[t].out[k] \in Words(Torn .. version)
      <4> DEFINE out == req[t].out
                 w == out[k]
                 n == Len(data[t].text)
      <4>1. out \in Seq(Word) /\ k \in 1 .. Len(out) /\ w \in Word /\ Len(out) \in Nat /\ n \in Nat
        BY <3>1, <3>4 DEF VersionsInv, Generated, Sound, Bracketed
      <4>2. task[t] = "serving"
        <5>1. out # << >>
          BY <4>1
        <5> QED
          BY <3>1, <5>1 DEF Asked
      <4>3. w.v = known
        BY <4>1, <4>2 DEF VersionsInv, Generated
      <4>4. /\ Asks(n) /\ Follow(out, n)
            /\ IF req[t].over THEN n + Len(out) = TurnEnd(n) ELSE n + Len(out) < TurnEnd(n)
        BY <3>1, <4>2 DEF Asked
      <4>5. TurnEnd(n) \in Nat /\ TurnEnd(n) <= Len(Script)
        BY <2>2, <4>1, <4>4, TurnFacts
      <4>6. w.i = n + k
        BY <4>1, <4>4 DEF Follow
      <4> HIDE DEF n, out, w
      <4>7. w.i \in 1 .. Len(Script) + 1
        <5>1. n + Len(out) <= TurnEnd(n)
          BY <4>1, <4>4, <4>5
        <5> QED
          BY <2>2, <4>1, <4>5, <4>6, <5>1
      <4>8. w.v \in Torn .. version
        BY <2>1, <4>3 DEF Torn
      <4>9. w \in Words(Torn .. version)
        BY <4>1, <4>7, <4>8 DEF Words, Word
      <4> QED
        BY <4>9 DEF w, out
    <3> QED
      BY <3>2, <3>3, <3>4
  <2> QED
    BY <2>1, <2>3 DEF TypeOK, Places
<1>2. Init => WorkIsOpen /\ Sealed
  BY DEF Init, RolloutInit, WorkIsOpen, NewData, Sealed
<1>3. Shaped /\ WorkIsOpen /\ [Next]_vars => WorkIsOpen'
  BY WorkStep
<1>4. Shaped /\ TasksOfSample /\ Sealed /\ WorkIsOpen /\ VersionsInv /\ [Next]_vars
        => VersionsInv'
  BY VersionsStep
<1>5. Init => ContinuationInv
  BY InitContinuation
<1>6. Shaped /\ TasksOfSample /\ Sealed /\ WorkIsOpen /\ VersionsInv /\ ContinuationInv
        /\ [Next]_vars => ContinuationInv'
  BY ContinuationStep
<1>7. VersionsInv => WholeModels
  BY DEF VersionsInv
<1>8. WholeModels /\ StoppedWhileTorn /\ [Next]_vars => StoppedWhileTorn'
  BY TornStep
<1>9. WholeModels /\ StoppedWhileTorn /\ ValidationInv /\ [Next]_vars => ValidationInv'
  BY ValidationStep
<1>10. Counted /\ WholeModels /\ [Next]_vars => Counted'
  BY CountedStep
<1>11. Shaped /\ ValidationInv /\ Places /\ [Next]_vars => Places'
  BY PlacesStep DEF ValidationInv
<1> QED
  BY <1>1, <1>2, <1>3, <1>4, <1>5, <1>6, <1>7, <1>8, <1>9, <1>10, <1>11, InitShaped,
     InitVersions, InitValidation, InitTypes, ShapedStep, TasksStep, SealedStep, PTL DEF Spec
=============================================================================
