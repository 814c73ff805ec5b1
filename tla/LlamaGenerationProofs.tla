------------------------ MODULE LlamaGenerationProofs -----------------------
(***************************************************************************)
(* For any number of generations and any bounds: a generation that no      *)
(* other one overlapped sampled from its own context alone, and a stream   *)
(* that completed was drained after the native call had returned.          *)
(***************************************************************************)
EXTENDS LlamaGeneration, TLAPS

\* Pieces are numbered by their tokens and the loop stops at max_tokens.
THEOREM TypeCorrect == Spec => []TypeOK
<1>1. Init => TypeOK
  BY BoundsAssumption DEF Init, TypeOK
<1>2. TypeOK /\ [Next]_vars => TypeOK'
  <2> SUFFICES ASSUME TypeOK, [Next]_vars PROVE TypeOK'
    OBVIOUS
  <2> USE BoundsAssumption DEF TypeOK
  <2>1. ASSUME NEW g \in Gens, GenerateAsync(g) PROVE TypeOK'
    BY <2>1 DEF GenerateAsync
  <2>2. ASSUME NEW g \in Gens, Cancel(g) PROVE TypeOK'
    BY <2>2 DEF Cancel, taskVars
  <2>3. ASSUME NEW g \in Gens, NeverRuns(g) PROVE TypeOK'
    BY <2>3 DEF NeverRuns
  <2>4. ASSUME NEW g \in Gens, Generate(g) PROVE TypeOK'
    <3>1. kv' \in Seq(Gens)
      BY <2>4 DEF Generate
    <3> QED BY <2>4, <3>1 DEF Generate
  <2>5. ASSUME NEW g \in Gens, Decode(g) PROVE kv' \in Seq(Gens) /\ mixed' \in [Gens -> BOOLEAN]
    <3>1. Own(g, Batch(g)) \in Seq(Gens)
      BY <2>5 DEF Own, Batch
    <3> QED BY <2>5, <3>1 DEF Decode
  <2>6. ASSUME NEW g \in Gens, DecodeToken(g) PROVE TypeOK'
    <3>1. decoded[g] < MaxTokens /\ decoded[g] + 1 \in 1..MaxTokens
      <4>1. decoded[g] < MaxTokens
        BY <2>6 DEF DecodeToken, Decode
      <4>2. decoded[g] \in 0..MaxTokens
        OBVIOUS
      <4> QED BY <4>1, <4>2
    <3>2. /\ channel' \in [Gens -> Seq(1..MaxTokens)]
          /\ dropped' \in [Gens -> SUBSET (1..MaxTokens)]
      <4> DEFINE piece == decoded[g] + 1
      <4>1. piece \in 1..MaxTokens
        BY <3>1
      <4> HIDE DEF piece
      <4>2. OnPiece(g, piece)
        BY <2>6 DEF DecodeToken, piece
      <4>3. CASE channel' = [channel EXCEPT ![g] = Append(@, piece)] /\ UNCHANGED dropped
        <5>1. Append(channel[g], piece) \in Seq(1..MaxTokens)
          BY <4>1
        <5> QED BY <4>3, <5>1
      <4>4. CASE dropped' = [dropped EXCEPT ![g] = @ \cup {piece}] /\ UNCHANGED channel
        BY <4>1, <4>4
      <4> QED BY <4>2, <4>3, <4>4 DEF OnPiece
    <3>3. decoded' \in [Gens -> 0..MaxTokens]
      BY <2>6, <3>1 DEF DecodeToken
    <3> QED BY <2>5, <2>6, <3>2, <3>3 DEF DecodeToken
  <2>7. ASSUME NEW g \in Gens, LastToken(g) PROVE TypeOK'
    BY <2>5, <2>7 DEF LastToken
  <2>8. ASSUME NEW g \in Gens, Return(g) \/ DecodeFails(g) PROVE TypeOK'
    BY <2>8 DEF Return, DecodeFails
  <2>9. ASSUME NEW g \in Gens, FinishTask(g) PROVE TypeOK'
    BY <2>9 DEF FinishTask
  <2>10. ASSUME NEW g \in Gens, ReaderStep(g) PROVE TypeOK'
    <3>1. CASE ReadPiece(g)
      <4>1. Head(channel[g]) \in 1..MaxTokens /\ Tail(channel[g]) \in Seq(1..MaxTokens)
        BY <3>1 DEF ReadPiece
      <4>2. Append(yielded[g], Head(channel[g])) \in Seq(1..MaxTokens)
        BY <4>1
      <4> QED BY <3>1, <4>1, <4>2 DEF ReadPiece, taskVars
    <3>2. CASE EndOfPieces(g) \/ ReadCanceled(g)
      BY <3>2 DEF EndOfPieces, ReadCanceled, taskVars
    <3> QED BY <2>10, <3>1, <3>2 DEF ReaderStep
  <2>11. CASE UNCHANGED vars
    BY <2>11 DEF vars, taskVars
  <2> QED BY <2>1, <2>2, <2>3, <2>4, <2>6, <2>7, <2>8, <2>9, <2>10, <2>11 DEF Next, TaskStep
<1> QED BY <1>1, <1>2, PTL DEF Spec

----------------------------------------------------------------------------
\* What a generation that nobody overlapped has put into the context.
Held(g) == IF decoded[g] = 0 THEN 0 ELSE Prompt + decoded[g] - 1

\* The strengthening of GenerationIsolated: such a generation is alone in the
\* decode loop, and the context holds its own tokens and nothing else.
IsolationInv ==
    \A g \in Gens :
        /\ mixed[g] => overlapped[g]
        /\ task[g] \in {"none", "queued"} => decoded[g] = 0
        /\ task[g] = "decoding" /\ ~overlapped[g] =>
              /\ kv = Own(g, Held(g))
              /\ \A h \in Gens \ {g} : task[h] # "decoding"

\* Own tokens behind own tokens are own tokens.
LEMMA OwnConcat ==
    ASSUME NEW g \in Gens, NEW m \in Nat, NEW n \in Nat
    PROVE  Own(g, m) \o Own(g, n) = Own(g, m + n)
  BY DEF Own

\* A generation that did not overlap with another one sampled from its own prompt
\* and tokens alone: dni_llama_generate clears the context before it decodes.
THEOREM Isolation == Spec => []GenerationIsolated
<1>1. Init => IsolationInv
  BY DEF Init, IsolationInv
<1>2. TypeOK /\ IsolationInv /\ [Next]_vars => IsolationInv'
  <2> SUFFICES ASSUME TypeOK, IsolationInv, [Next]_vars PROVE IsolationInv'
    OBVIOUS
  <2> USE BoundsAssumption
  <2>1. ASSUME NEW g \in Gens, Generate(g) PROVE IsolationInv'
    <3>1. /\ kv' = <<>> /\ UNCHANGED <<decoded, mixed>>
          /\ decoded[g] = 0
          /\ \A h \in Gens : overlapped'[h] = (overlapped[h] \/ (h = g /\ Decoding # {}) \/ h \in Decoding)
          /\ \A h \in Gens \ {g} : task'[h] = task[h]
          /\ task'[g] \in {"decoding", "returned"}
      BY <2>1 DEF Generate, TypeOK, IsolationInv
    <3>2. ASSUME NEW h \in Gens, task'[h] = "decoding", ~overlapped'[h]
          PROVE  h = g /\ \A k \in Gens \ {g} : task'[k] # "decoding"
      BY <3>1, <3>2 DEF Decoding
    <3>3. Own(g, 0) = <<>>
      BY DEF Own
    <3>4. Held(g)' = 0
      BY <3>1 DEF Held
    <3>5. ASSUME NEW h \in Gens PROVE mixed'[h] => overlapped'[h]
      BY <3>1 DEF IsolationInv
    <3>6. ASSUME NEW h \in Gens PROVE task'[h] \in {"none", "queued"} => decoded'[h] = 0
      BY <3>1 DEF IsolationInv
    <3> QED BY <3>1, <3>2, <3>3, <3>4, <3>5, <3>6 DEF IsolationInv, Own
  <2>2. ASSUME NEW g \in Gens, Decode(g), task[g] = "decoding",
               UNCHANGED overlapped, ~overlapped[g]
        PROVE  kv' = Own(g, Prompt + decoded[g]) /\ ~mixed'[g]
    <3>1. kv = Own(g, Held(g)) /\ ~mixed[g]
      BY <2>2 DEF IsolationInv
    <3>2. Held(g) \in Nat /\ Batch(g) \in Nat /\ Held(g) + Batch(g) = Prompt + decoded[g]
      <4>1. decoded[g] \in Nat /\ Prompt \in Nat
        BY DEF TypeOK
      <4>2. CASE decoded[g] = 0
        BY <4>1, <4>2 DEF Held, Batch
      <4>3. CASE decoded[g] # 0
        BY <4>1, <4>3 DEF Held, Batch
      <4> QED BY <4>2, <4>3
    <3>3. kv' = Own(g, Prompt + decoded[g])
      <4>1. Own(g, Held(g)) \o Own(g, Batch(g)) = Own(g, Held(g) + Batch(g))
        BY <3>2, OwnConcat
      <4>2. kv' = kv \o Own(g, Batch(g))
        BY <2>2 DEF Decode
      <4> QED BY <3>1, <3>2, <4>1, <4>2
    <3> QED BY <2>2, <3>1, <3>3 DEF Decode, TypeOK
  <2>3. ASSUME NEW g \in Gens, DecodeToken(g) PROVE IsolationInv'
    <3>1. /\ Decode(g) /\ task[g] = "decoding" /\ UNCHANGED <<task, overlapped>>
          /\ \A h \in Gens \ {g} : mixed'[h] = mixed[h] /\ decoded'[h] = decoded[h]
          /\ decoded'[g] = decoded[g] + 1 /\ decoded[g] \in Nat
      BY <2>3 DEF DecodeToken, Decode, TypeOK
    <3>2. ASSUME NEW h \in Gens, task'[h] = "decoding", ~overlapped'[h]
          PROVE  h = g /\ \A k \in Gens \ {g} : task'[k] # "decoding"
      BY <3>1, <3>2 DEF IsolationInv
    <3>3. ~overlapped[g] => kv' = Own(g, Prompt + decoded[g]) /\ ~mixed'[g]
      BY <2>2, <3>1
    <3>4. Held(g)' = Prompt + decoded[g]
      BY <3>1 DEF Held
    <3>5. ASSUME NEW h \in Gens PROVE mixed'[h] => overlapped'[h]
      BY <3>1, <3>3 DEF IsolationInv
    <3>6. ASSUME NEW h \in Gens PROVE task'[h] \in {"none", "queued"} => decoded'[h] = 0
      BY <3>1 DEF IsolationInv
    <3> QED BY <3>1, <3>2, <3>3, <3>4, <3>5, <3>6 DEF IsolationInv, Own
  <2>4. ASSUME NEW g \in Gens, LastToken(g) PROVE IsolationInv'
    <3>1. /\ Decode(g) /\ task[g] = "decoding" /\ UNCHANGED <<decoded, overlapped>>
          /\ \A h \in Gens \ {g} : mixed'[h] = mixed[h] /\ task'[h] = task[h]
          /\ task'[g] = "returned"
      BY <2>4 DEF LastToken, Decode, TypeOK
    <3>2. ASSUME NEW h \in Gens PROVE ~(task'[h] = "decoding" /\ ~overlapped'[h])
      BY <3>1 DEF IsolationInv
    <3>3. ~overlapped[g] => ~mixed'[g]
      BY <2>2, <3>1
    <3> QED BY <3>1, <3>2, <3>3 DEF IsolationInv
  <2>5. ASSUME NEW g \in Gens,
               \/ GenerateAsync(g) \/ NeverRuns(g) \/ Return(g) \/ DecodeFails(g) \/ FinishTask(g)
        PROVE  IsolationInv'
    <3>1. /\ UNCHANGED <<kv, decoded, overlapped, mixed>>
          /\ \A h \in Gens \ {g} : task'[h] = task[h]
          /\ task'[g] # "decoding"
          /\ task'[g] \in {"none", "queued"} => task[g] \in {"none", "queued"}
      BY <2>5 DEF GenerateAsync, NeverRuns, Return, DecodeFails, FinishTask, TypeOK
    <3> QED BY <3>1 DEF IsolationInv, Held, Own
  <2>6. CASE UNCHANGED taskVars
    BY <2>6 DEF taskVars, IsolationInv, Held, Own
  <2>7. ASSUME NEW g \in Gens, Cancel(g) \/ ReaderStep(g) PROVE UNCHANGED taskVars
    BY <2>7 DEF Cancel, ReaderStep, ReadPiece, EndOfPieces, ReadCanceled
  <2>8. CASE UNCHANGED vars
    BY <2>6, <2>8 DEF vars
  <2> QED BY <2>1, <2>3, <2>4, <2>5, <2>6, <2>7, <2>8 DEF Next, TaskStep
<1>3. IsolationInv => GenerationIsolated
  BY DEF IsolationInv, GenerationIsolated
<1> QED BY <1>1, <1>2, <1>3, TypeCorrect, PTL DEF Spec

----------------------------------------------------------------------------
\* The channel is closed by the task that finished, and only then.
DrainInv ==
    /\ CompletedIsDrained
    /\ \A g \in Gens : closed[g] => task[g] = "finished"

\* The enumeration completes only after the native call returned, with nothing
\* left in the channel; a key outlives its call only when the call never ran.
THEOREM Drained == Spec => []CompletedIsDrained
<1>1. Init => DrainInv
  BY DEF Init, DrainInv, CompletedIsDrained
<1>2. TypeOK /\ DrainInv /\ [Next]_vars => DrainInv'
  <2> SUFFICES ASSUME TypeOK, DrainInv, [Next]_vars PROVE DrainInv'
    OBVIOUS
  <2> USE DEF TypeOK, DrainInv, CompletedIsDrained
  <2>1. ASSUME NEW g \in Gens, GenerateAsync(g) PROVE DrainInv'
    BY <2>1 DEF GenerateAsync
  <2>2. ASSUME NEW g \in Gens, NeverRuns(g) \/ Generate(g) PROVE DrainInv'
    <3>1. /\ UNCHANGED <<writers, closed, reader, channel>>
          /\ task[g] = "queued"
          /\ task'[g] \in {"neverRan", "decoding", "returned"}
          /\ \A h \in Gens \ {g} : task'[h] = task[h]
      BY <2>2 DEF NeverRuns, Generate
    <3> QED BY <3>1
  <2>3. ASSUME NEW g \in Gens, DecodeToken(g) PROVE DrainInv'
    <3>1. /\ UNCHANGED <<task, writers, closed, reader>>
          /\ task[g] = "decoding"
          /\ \A h \in Gens \ {g} : channel'[h] = channel[h]
      BY <2>3 DEF DecodeToken, Decode, OnPiece
    <3> QED BY <3>1
  <2>4. ASSUME NEW g \in Gens, LastToken(g) \/ Return(g) \/ DecodeFails(g) PROVE DrainInv'
    BY <2>4 DEF LastToken, Decode, Return, DecodeFails
  <2>5. ASSUME NEW g \in Gens, FinishTask(g) PROVE DrainInv'
    BY <2>5 DEF FinishTask
  <2>6. ASSUME NEW g \in Gens, Cancel(g) \/ ReaderStep(g) PROVE DrainInv'
    BY <2>6 DEF Cancel, ReaderStep, ReadPiece, EndOfPieces, ReadCanceled, taskVars
  <2>7. CASE UNCHANGED vars
    BY <2>7 DEF vars, taskVars
  <2> QED BY <2>1, <2>2, <2>3, <2>4, <2>5, <2>6, <2>7 DEF Next, TaskStep
<1>3. DrainInv => CompletedIsDrained
  BY DEF DrainInv
<1> QED BY <1>1, <1>2, <1>3, TypeCorrect, PTL DEF Spec

----------------------------------------------------------------------------
\* A piece taken from the channel stays at its place in the whole.
LEMMA MovedPiece ==
    ASSUME NEW S, NEW y \in Seq(S), NEW c \in Seq(S), c # <<>>
    PROVE  Append(y, Head(c)) \o Tail(c) = y \o c
  OBVIOUS

\* A piece written to the channel is the last of the whole.
LEMMA WrittenPiece ==
    ASSUME NEW S, NEW y \in Seq(S), NEW c \in Seq(S), NEW p \in S
    PROVE  y \o Append(c, p) = Append(y \o c, p)
  OBVIOUS

\* What is appended joins the pieces, and nothing leaves them.
LEMMA AppendedRange ==
    ASSUME NEW S, NEW w \in Seq(S), NEW p \in S
    PROVE  Range(Append(w, p)) = Range(w) \cup {p}
<1>1. /\ DOMAIN w = 1..Len(w) /\ Len(w) \in Nat
      /\ DOMAIN Append(w, p) = 1..(Len(w) + 1)
      /\ \A i \in 1..Len(w) : Append(w, p)[i] = w[i]
      /\ Append(w, p)[Len(w) + 1] = p
  OBVIOUS
<1>2. Range(Append(w, p)) \subseteq Range(w) \cup {p}
  BY <1>1 DEF Range
<1>3. p \in Range(Append(w, p)) /\ Range(w) \subseteq Range(Append(w, p))
  BY <1>1 DEF Range
<1> QED BY <1>2, <1>3

\* PiecesAccounted for one generation and its pieces.
Accounted(g, pieces) ==
    /\ \A i, j \in 1..Len(pieces) : i < j => pieces[i] < pieces[j]
    /\ Range(pieces) \cup dropped[g] = (1..decoded[g]) \ Blank
    /\ Range(pieces) \cap dropped[g] = {}

\* Pieces are handed over in the order they were generated, none twice, and the
\* only ones missing are those OnPiece found the channel full for.
THEOREM Accounting == Spec => []PiecesAccounted
<1>1. Init => PiecesAccounted
  <2> SUFFICES ASSUME Init, NEW g \in Gens PROVE Accounted(g, yielded[g] \o channel[g])
    BY DEF PiecesAccounted, Accounted
  <2>1. yielded[g] \o channel[g] = <<>> /\ decoded[g] = 0 /\ dropped[g] = {}
    BY DEF Init
  <2>2. 1..0 = {}
    OBVIOUS
  <2> QED BY <2>1, <2>2 DEF Accounted, Range
<1>2. TypeOK /\ PiecesAccounted /\ [Next]_vars => PiecesAccounted'
  <2> SUFFICES ASSUME TypeOK, PiecesAccounted, [Next]_vars, NEW h \in Gens
               PROVE  Accounted(h, yielded[h] \o channel[h])'
    BY DEF PiecesAccounted, Accounted
  <2>0. Accounted(h, yielded[h] \o channel[h])
    BY DEF PiecesAccounted, Accounted
  <2>1. CASE /\ yielded'[h] \o channel'[h] = yielded[h] \o channel[h]
             /\ decoded'[h] = decoded[h] /\ dropped'[h] = dropped[h]
    BY <2>0, <2>1 DEF Accounted
  <2>2. ASSUME NEW g \in Gens, ReadPiece(g) PROVE Accounted(h, yielded[h] \o channel[h])'
    <3>1. CASE h = g
      <4> DEFINE S == 1..MaxTokens
                 y == yielded[g]
                 c == channel[g]
      <4>1. y \in Seq(S) /\ c \in Seq(S) /\ c # <<>>
        BY <2>2 DEF ReadPiece, TypeOK
      <4>2. yielded'[g] = Append(y, Head(c)) /\ channel'[g] = Tail(c)
        BY <2>2 DEF ReadPiece, TypeOK
      <4>3. decoded'[h] = decoded[h] /\ dropped'[h] = dropped[h]
        BY <2>2 DEF ReadPiece, taskVars
      <4> HIDE DEF S, y, c
      <4>4. Append(y, Head(c)) \o Tail(c) = y \o c
        BY <4>1, MovedPiece
      <4>5. yielded'[h] \o channel'[h] = yielded[h] \o channel[h]
        BY <3>1, <4>2, <4>4 DEF y, c
      <4> QED BY <2>1, <4>3, <4>5
    <3>2. CASE h # g
      BY <2>1, <2>2, <3>2 DEF ReadPiece, taskVars, TypeOK
    <3> QED BY <3>1, <3>2
  <2>3. ASSUME NEW g \in Gens, DecodeToken(g), h = g
        PROVE  Accounted(h, yielded[h] \o channel[h])'
    <3> DEFINE n == decoded[g] + 1
               w == yielded[g] \o channel[g]
    <3>1. /\ n \in 1..MaxTokens /\ decoded[g] = n - 1 /\ decoded'[g] = n
          /\ UNCHANGED yielded /\ OnPiece(g, n)
      <4>1. decoded[g] \in 0..MaxTokens /\ MaxTokens \in Nat
        BY BoundsAssumption DEF TypeOK
      <4>2. decoded[g] < MaxTokens
        BY <2>3 DEF DecodeToken, Decode
      <4>3. decoded'[g] = decoded[g] + 1
        BY <2>3 DEF DecodeToken, TypeOK
      <4>4. UNCHANGED yielded /\ OnPiece(g, n)
        BY <2>3 DEF DecodeToken
      <4>5. n \in 1..MaxTokens /\ decoded[g] = n - 1
        BY <4>1, <4>2
      <4> QED BY <4>3, <4>4, <4>5
    <3>2. /\ w \in Seq(1..MaxTokens) /\ Accounted(g, w)
      BY <2>0, <2>3 DEF TypeOK
    <3> HIDE DEF n, w
    <3>3. (1..n) \ Blank = (IF n \in Blank THEN (1..n - 1) \ Blank ELSE ((1..n - 1) \ Blank) \cup {n})
      BY <3>1
    <3>4. n \notin Range(w) /\ n \notin dropped[g]
      BY <3>1, <3>2 DEF Accounted
    <3>5. CASE n \in Blank
      <4>1. channel'[g] = channel[g] /\ dropped'[g] = dropped[g]
        BY <3>1, <3>5 DEF OnPiece
      <4>2. yielded'[g] \o channel'[g] = w
        BY <3>1, <4>1 DEF w
      <4>3. (1..n) \ Blank = (1..decoded[g]) \ Blank
        BY <3>1, <3>3, <3>5
      <4>4. Range(w) \cup dropped'[g] = (1..decoded'[g]) \ Blank
        BY <3>1, <3>2, <4>1, <4>3 DEF Accounted
      <4>5. /\ Range(w) \cap dropped'[g] = {}
            /\ \A i, j \in 1..Len(w) : i < j => w[i] < w[j]
        BY <3>2, <4>1 DEF Accounted
      <4> QED BY <2>3, <4>2, <4>4, <4>5, Zenon DEF Accounted
    <3>6. CASE n \notin Blank /\ channel'[g] = Append(channel[g], n) /\ dropped'[g] = dropped[g]
      <4>1. yielded'[g] \o channel'[g] = Append(w, n) /\ Range(Append(w, n)) = Range(w) \cup {n}
        <5> DEFINE S == 1..MaxTokens
        <5>1. yielded[g] \in Seq(S) /\ channel[g] \in Seq(S) /\ w \in Seq(S) /\ n \in S
          BY <3>1, <3>2 DEF TypeOK
        <5> HIDE DEF S
        <5>2. yielded[g] \o Append(channel[g], n) = Append(w, n)
          <6>1. yielded[g] \o Append(channel[g], n) = Append(yielded[g] \o channel[g], n)
            <7> DEFINE y == yielded[g]
                       c == channel[g]
            <7>1. y \in Seq(S) /\ c \in Seq(S)
              BY <5>1
            <7> HIDE DEF y, c
            <7>2. y \o Append(c, n) = Append(y \o c, n)
              BY <5>1, <7>1, WrittenPiece
            <7> QED BY <7>2 DEF y, c
          <6> QED BY <6>1 DEF w
        <5>3. Range(Append(w, n)) = Range(w) \cup {n}
          BY <5>1, AppendedRange
        <5> QED BY <3>1, <3>6, <5>2, <5>3
      <4>2. ASSUME NEW i \in 1..Len(w) PROVE w[i] < n /\ w[i] \in 1..MaxTokens
        <5>1. w[i] \in Range(w)
          BY <3>2 DEF Range
        <5>2. w[i] \in 1..(n - 1)
          BY <3>1, <3>2, <5>1 DEF Accounted
        <5>3. n \in Nat /\ w[i] \in 1..MaxTokens
          BY <3>1, <3>2, BoundsAssumption
        <5> QED BY <5>2, <5>3
      <4>3. \A i, j \in 1..Len(Append(w, n)) : i < j => Append(w, n)[i] < Append(w, n)[j]
        <5>1. /\ Len(w) \in Nat /\ Len(Append(w, n)) = Len(w) + 1
              /\ \A i \in 1..Len(w) : Append(w, n)[i] = w[i]
              /\ Append(w, n)[Len(w) + 1] = n
          BY <3>1, <3>2
        <5>2. SUFFICES ASSUME NEW i \in 1..(Len(w) + 1), NEW j \in 1..(Len(w) + 1), i < j
                       PROVE  Append(w, n)[i] < Append(w, n)[j]
          BY <5>1
        <5>3. i \in 1..Len(w)
          BY <5>1, <5>2
        <5>4. CASE j = Len(w) + 1
          BY <4>2, <5>1, <5>3, <5>4
        <5>5. CASE j \in 1..Len(w)
          BY <3>2, <5>1, <5>2, <5>3, <5>5 DEF Accounted
        <5> QED BY <5>1, <5>4, <5>5
      <4>4. (Range(w) \cup {n}) \cup dropped[g] = (1..n) \ Blank
        BY <3>1, <3>2, <3>3, <3>6 DEF Accounted
      <4>5. (Range(w) \cup {n}) \cap dropped[g] = {}
        BY <3>2, <3>4 DEF Accounted
      <4>6. dropped'[g] = dropped[g] /\ decoded'[g] = n
        BY <3>1, <3>6
      <4> QED BY <2>3, <4>1, <4>3, <4>4, <4>5, <4>6, Zenon DEF Accounted
    <3>7. CASE n \notin Blank /\ channel'[g] = channel[g] /\ dropped'[g] = dropped[g] \cup {n}
      <4>1. yielded'[g] \o channel'[g] = w
        BY <3>1, <3>7 DEF w
      <4>2. Range(w) \cup (dropped[g] \cup {n}) = (1..n) \ Blank
        BY <3>1, <3>2, <3>3, <3>7 DEF Accounted
      <4>3. Range(w) \cap (dropped[g] \cup {n}) = {}
        BY <3>2, <3>4 DEF Accounted
      <4>4. \A i, j \in 1..Len(w) : i < j => w[i] < w[j]
        BY <3>2 DEF Accounted
      <4>5. dropped'[g] = dropped[g] \cup {n} /\ decoded'[g] = n
        BY <3>1, <3>7
      <4> QED BY <2>3, <4>1, <4>2, <4>3, <4>4, <4>5, Zenon DEF Accounted
    <3> QED BY <3>1, <3>5, <3>6, <3>7 DEF OnPiece, TypeOK
  <2>4. ASSUME NEW g \in Gens, DecodeToken(g), h # g
        PROVE  Accounted(h, yielded[h] \o channel[h])'
    <3>1. channel'[h] = channel[h] /\ dropped'[h] = dropped[h]
      BY <2>4 DEF DecodeToken, OnPiece, TypeOK
    <3> QED BY <2>1, <2>4, <3>1 DEF DecodeToken, TypeOK
  <2>5. ASSUME NEW g \in Gens,
               \/ GenerateAsync(g) \/ NeverRuns(g) \/ Generate(g) \/ LastToken(g) \/ Return(g)
               \/ DecodeFails(g) \/ FinishTask(g) \/ Cancel(g) \/ EndOfPieces(g) \/ ReadCanceled(g)
        PROVE  Accounted(h, yielded[h] \o channel[h])'
    BY <2>1, <2>5 DEF GenerateAsync, NeverRuns, Generate, LastToken, Return, DecodeFails, FinishTask,
                      Cancel, EndOfPieces, ReadCanceled, taskVars
  <2>6. CASE UNCHANGED vars
    BY <2>1, <2>6 DEF vars, taskVars
  <2> QED BY <2>2, <2>3, <2>4, <2>5, <2>6 DEF Next, TaskStep, ReaderStep
<1> QED BY <1>1, <1>2, TypeCorrect, PTL DEF Spec

=============================================================================
