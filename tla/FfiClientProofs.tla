-------------------------- MODULE FfiClientProofs --------------------------
(***************************************************************************)
(* TLAPS proofs about the FFI path, for every size of the two channels and *)
(* every length of the answer, whether or not the JVM fails: first the     *)
(* session the engine hands out (InferenceSession), then the Android       *)
(* client's flow over it (FfiClient), whose steps are the session's or     *)
(* leave it alone and which so inherits its inductive invariant.           *)
(***************************************************************************)
EXTENDS FfiClient, TLAPS

\* Where the pump is decides what it holds and whether the channel is open;
\* where the drain is decides what it has taken.
Phases ==
    /\ pump = "writing" <=> held # <<>>
    /\ pump = "done" <=> closed # "open"
    /\ drain = "invoking" <=> taken # <<>>
    /\ drain \in {"ended", "aborted"} => channel = <<>>
    /\ drain = "ended" => closed = "completed"
    /\ drain = "aborted" => closed = "faulted"

\* Tokens in the pipeline, not counting the one the pump still holds.
Sent == Len(delivered) + Len(taken) + Len(channel)

\* The pipeline, read from the callback back to the pump, is numbered 0, 1, 2, ...
Numbered ==
    /\ \A i \in 1..Len(delivered) : delivered[i].index = i - 1
    /\ \A i \in 1..Len(taken) : taken[i].index = Len(delivered)
    /\ \A i \in 1..Len(channel) :
          channel[i].index = Len(delivered) + Len(taken) + i - 1
    /\ \A i \in 1..Len(held) : held[i].index = Sent

FinalSent == HasFinal(delivered) \/ HasFinal(taken) \/ HasFinal(channel)

\* The final marker is the last token of the pipeline, and the pump has ended
\* its loop when it is sent.
FinalIsLast ==
    /\ \A i \in 1..Len(delivered) :
          delivered[i].isFinal => i = Len(delivered) /\ taken = <<>> /\ channel = <<>>
    /\ \A i \in 1..Len(taken) : taken[i].isFinal => channel = <<>>
    /\ \A i \in 1..Len(channel) : channel[i].isFinal => i = Len(channel)
    /\ pump \in {"generating", "writing"} => ~FinalSent
    /\ pump = "completing" => FinalSent
    /\ closed = "faulted" => ~FinalSent
    /\ closed = "completed" => FinalSent \/ canceled

\* What the orchestrator's counter says about the tokens sent.
Counted ==
    /\ pump = "generating" => index = Sent
    /\ pump = "writing" => index = Sent + (IF HasFinal(held) THEN 0 ELSE 1)
    /\ pump = "completing" => index + 1 = Sent
    /\ pump = "done" /\ ~canceled => index + (IF FinalSent THEN 1 ELSE 0) = Sent
    /\ pump = "done" => Sent <= index + (IF FinalSent THEN 1 ELSE 0)

IInv == TypeOK /\ Phases /\ Numbered /\ FinalIsLast /\ Counted

----------------------------------------------------------------------------
\* Sequences of tokens.

\* What RunAsync yields are tokens, and a one-token buffer is a sequence of them.
LEMMA Singletons ==
    /\ \A i \in Nat : Fragment(i) \in Token /\ Final(i) \in Token
    /\ \A t \in Token : <<t>> \in Seq(Token) /\ Len(<<t>>) = 1 /\ <<t>>[1] = t
<1>1. \A i \in Nat : Fragment(i) \in Token /\ Final(i) \in Token
  BY DEF Fragment, Final, Token
<1> QED
  BY <1>1

\* Appending a token (WriteAsync, the callback) keeps the tokens before it.
LEMMA AppendToken ==
    ASSUME NEW s \in Seq(Token), NEW t \in Token
    PROVE  /\ Append(s, t) \in Seq(Token)
           /\ Len(Append(s, t)) = Len(s) + 1
           /\ DOMAIN Append(s, t) = 1..Len(s) + 1
           /\ DOMAIN s = 1..Len(s)
           /\ Append(s, t)[Len(s) + 1] = t
           /\ \A i \in 1..Len(s) : Append(s, t)[i] = s[i]
           /\ Append(s, t) # <<>>
  OBVIOUS

\* Reading the first token (ReadAllAsync) moves the others up by one.
LEMMA TailToken ==
    ASSUME NEW s \in Seq(Token), s # <<>>
    PROVE  /\ Tail(s) \in Seq(Token)
           /\ Len(s) \in Nat \ {0}
           /\ Len(Tail(s)) = Len(s) - 1
           /\ DOMAIN s = 1..Len(s)
           /\ DOMAIN Tail(s) = 1..Len(s) - 1
           /\ Head(s) = s[1]
           /\ Head(s) \in Token
           /\ \A i \in 1..Len(s) - 1 : Tail(s)[i] = s[i + 1]
  OBVIOUS

\* A one-token buffer that is not empty holds one token.
LEMMA OneToken ==
    ASSUME NEW s \in Seq(Token), s # <<>>, Len(s) <= 1
    PROVE  /\ Len(s) = 1
           /\ s[1] \in Token
           /\ s = <<s[1]>>
<1>1. Len(s) \in Nat /\ Len(s) # 0
  OBVIOUS
<1>2. Len(s) = 1
  BY <1>1
<1> QED
  BY <1>2

\* The empty sequence has no final marker, a singleton has one if its token is one.
LEMMA FinalOfShort ==
    /\ ~HasFinal(<<>>)
    /\ \A t \in Token : HasFinal(<<t>>) <=> t.isFinal
  BY DEF HasFinal

\* Appending a token adds a final marker exactly when the token is one.
LEMMA FinalOfAppend ==
    ASSUME NEW s \in Seq(Token), NEW t \in Token
    PROVE  HasFinal(Append(s, t)) <=> HasFinal(s) \/ t.isFinal
  BY AppendToken DEF HasFinal

\* Reading the first token splits the final markers of the channel.
LEMMA FinalOfTail ==
    ASSUME NEW s \in Seq(Token), s # <<>>
    PROVE  HasFinal(s) <=> Head(s).isFinal \/ HasFinal(Tail(s))
<1>1. ASSUME HasFinal(s), ~Head(s).isFinal
      PROVE  HasFinal(Tail(s))
  <2>1. PICK i \in 1..Len(s) : s[i].isFinal
    BY <1>1 DEF HasFinal
  <2>2. i - 1 \in 1..Len(s) - 1 /\ Tail(s)[i - 1].isFinal
    BY <2>1, <1>1, TailToken
  <2> QED
    BY <2>2, TailToken DEF HasFinal
<1>2. ASSUME HasFinal(Tail(s))
      PROVE  HasFinal(s)
  <2>1. PICK i \in 1..Len(s) - 1 : Tail(s)[i].isFinal
    BY <1>2, TailToken DEF HasFinal
  <2>2. i + 1 \in 1..Len(s) /\ s[i + 1].isFinal
    BY <2>1, TailToken
  <2> QED
    BY <2>2, TailToken DEF HasFinal
<1>3. ASSUME Head(s).isFinal
      PROVE  HasFinal(s)
  BY <1>3, TailToken DEF HasFinal
<1> QED
  BY <1>1, <1>2, <1>3

----------------------------------------------------------------------------
\* The inductive invariant.

\* A started session satisfies the invariant.
LEMMA InitInv == Init => IInv
<1> SUFFICES ASSUME Init PROVE IInv
  OBVIOUS
<1> USE DEF Init
<1>1. canceled \in BOOLEAN
  OBVIOUS
<1>2. TypeOK
  BY <1>1, CapacityAssumption, FragmentsAssumption DEF TypeOK, AtMostOne
<1>3. Phases
  BY DEF Phases
<1>4. Numbered
  BY DEF Numbered, Sent
<1>5. FinalIsLast
  BY FinalOfShort DEF FinalIsLast, FinalSent
<1>6. Counted
  BY DEF Counted, Sent
<1> QED
  BY <1>2, <1>3, <1>4, <1>5, <1>6 DEF IInv

\* Every step of the pump, the drain and the host keeps the invariant.
LEMMA NextInv == IInv /\ [Next]_vars => IInv'
<1> SUFFICES ASSUME IInv, [Next]_vars PROVE IInv'
  OBVIOUS
<1> USE CapacityAssumption, FragmentsAssumption DEF consumerVars, producerVars
<1>0. TypeOK /\ Phases /\ Numbered /\ FinalIsLast /\ Counted
  BY DEF IInv
<1>1. CASE YieldFragment
  <2>1. canceled' \in BOOLEAN
    BY <1>1, <1>0 DEF YieldFragment, TypeOK
  <2>2. /\ held' \in Seq(Token) /\ Len(held') = 1 /\ held' # <<>>
        /\ held'[1].index = index
        /\ ~HasFinal(held')
    <3>1. Fragment(index) \in Token
      BY <1>0, Singletons DEF TypeOK
    <3>2. Fragment(index).index = index /\ ~Fragment(index).isFinal
      BY DEF Fragment
    <3> QED
      BY <1>1, <3>1, <3>2, Singletons, FinalOfShort DEF YieldFragment
  <2>3. TypeOK'
    BY <1>1, <1>0, <2>1, <2>2 DEF YieldFragment, TypeOK, AtMostOne
  <2>4. Phases'
    BY <1>1, <1>0, <2>2 DEF YieldFragment, Phases
  <2>5. Numbered'
    BY <1>1, <1>0, <2>2 DEF YieldFragment, Numbered, Counted, Sent, TypeOK, Phases, AtMostOne
  <2>6. FinalIsLast'
    BY <1>1, <1>0, <2>2 DEF YieldFragment, FinalIsLast, FinalSent, TypeOK, Phases, AtMostOne
  <2>7. Counted'
    BY <1>1, <1>0, <2>2 DEF YieldFragment, Counted, Sent, FinalSent, TypeOK, Phases, AtMostOne
  <2> QED
    BY <2>3, <2>4, <2>5, <2>6, <2>7 DEF IInv
<1>2. CASE YieldFinal
  <2>1. canceled' \in BOOLEAN
    BY <1>2, <1>0 DEF YieldFinal, TypeOK
  <2>2. /\ held' \in Seq(Token) /\ Len(held') = 1 /\ held' # <<>>
        /\ held'[1].index = index
        /\ HasFinal(held')
    <3>1. Final(index) \in Token
      BY <1>0, Singletons DEF TypeOK
    <3>2. Final(index).index = index /\ Final(index).isFinal
      BY DEF Final
    <3> QED
      BY <1>2, <3>1, <3>2, Singletons, FinalOfShort DEF YieldFinal
  <2>3. TypeOK'
    BY <1>2, <1>0, <2>1, <2>2 DEF YieldFinal, TypeOK, AtMostOne
  <2>4. Phases'
    BY <1>2, <1>0, <2>2 DEF YieldFinal, Phases
  <2>5. Numbered'
    BY <1>2, <1>0, <2>2 DEF YieldFinal, Numbered, Counted, Sent, TypeOK, Phases, AtMostOne
  <2>6. FinalIsLast'
    BY <1>2, <1>0, <2>2 DEF YieldFinal, FinalIsLast, FinalSent, TypeOK, Phases, AtMostOne
  <2>7. Counted'
    BY <1>2, <1>0, <2>2 DEF YieldFinal, Counted, Sent, FinalSent, TypeOK, Phases, AtMostOne
  <2> QED
    BY <2>3, <2>4, <2>5, <2>6, <2>7 DEF IInv
<1>3. CASE WriteToken
  <2>1. canceled' \in BOOLEAN
    BY <1>3, <1>0 DEF WriteToken, TypeOK
  <2>2. /\ held[1] \in Token /\ held = <<held[1]>>
        /\ channel' \in Seq(Token) /\ Len(channel') = Len(channel) + 1 /\ channel' # <<>>
        /\ channel'[Len(channel) + 1] = held[1]
        /\ \A i \in 1..Len(channel) : channel'[i] = channel[i]
        /\ HasFinal(channel') <=> HasFinal(channel) \/ held[1].isFinal
        /\ HasFinal(held) <=> held[1].isFinal
    <3>1. held[1] \in Token /\ held = <<held[1]>>
      BY <1>3, <1>0, OneToken DEF WriteToken, TypeOK, AtMostOne, Phases
    <3>2. channel \in Seq(Token) /\ channel' = Append(channel, held[1])
      BY <1>3, <1>0 DEF WriteToken, TypeOK
    <3>3. HasFinal(held) <=> held[1].isFinal
      BY <3>1, FinalOfShort
    <3> QED
      BY <3>1, <3>2, <3>3, AppendToken, FinalOfAppend
  <2>3. TypeOK'
    BY <1>3, <1>0, <2>1, <2>2 DEF WriteToken, TypeOK, AtMostOne
  <2>4. Phases'
    BY <1>3, <1>0, <2>2 DEF WriteToken, Phases
  <2>5. Numbered'
    <3>1. UNCHANGED <<delivered, taken>> /\ held' = <<>>
      BY <1>3 DEF WriteToken
    <3>2. Len(delivered) \in Nat /\ Len(taken) \in Nat /\ Len(channel) \in Nat
      BY <1>0 DEF TypeOK
    <3>3. held[1].index = Sent
      <4>1. Len(held) = 1
        BY <2>2, Singletons
      <4>2. 1 \in 1..Len(held)
        BY <4>1
      <4> QED
        BY <1>0, <4>2, Zenon DEF Numbered
    <3>4. \A i \in 1..Len(channel') :
             channel'[i].index = Len(delivered) + Len(taken) + i - 1
      <4>1. \A i \in 1..Len(channel) :
               channel'[i].index = Len(delivered) + Len(taken) + i - 1
        BY <1>0, <2>2 DEF Numbered
      <4>2. channel'[Len(channel) + 1].index
              = Len(delivered) + Len(taken) + (Len(channel) + 1) - 1
        BY <2>2, <3>2, <3>3 DEF Sent
      <4>3. \A i \in 1..Len(channel') : i \in 1..Len(channel) \/ i = Len(channel) + 1
        BY <2>2, <3>2
      <4> QED
        BY <4>1, <4>2, <4>3, Zenon
    <3>5. \A i \in 1..Len(held') : held'[i].index = Sent'
      BY <3>1
    <3> QED
      BY <1>0, <3>1, <3>4, <3>5, Zenon DEF Numbered
  <2>6. FinalIsLast'
    <3>1. ~HasFinal(delivered) /\ ~HasFinal(taken) /\ ~HasFinal(channel)
      BY <1>3, <1>0 DEF WriteToken, FinalIsLast, FinalSent
    <3>2. /\ \A i \in 1..Len(delivered) : ~delivered[i].isFinal
          /\ \A i \in 1..Len(taken) : ~taken[i].isFinal
          /\ \A i \in 1..Len(channel) : ~channel[i].isFinal
      BY <3>1, <1>0 DEF HasFinal, TypeOK
    <3>3. \A i \in 1..Len(channel') : channel'[i].isFinal => i = Len(channel')
      BY <3>2, <2>2
    <3>4. FinalSent' <=> HasFinal(held)
      BY <1>3, <3>1, <2>2 DEF WriteToken, FinalSent
    <3> QED
      BY <1>3, <1>0, <3>2, <3>3, <3>4 DEF WriteToken, FinalIsLast, Phases
  <2>7. Counted'
    BY <1>3, <1>0, <2>2 DEF WriteToken, Counted, Sent, FinalSent, TypeOK, Phases, AtMostOne
  <2> QED
    BY <2>3, <2>4, <2>5, <2>6, <2>7 DEF IInv
<1>4. CASE CompleteNormally
  <2>1. canceled' \in BOOLEAN
    BY <1>4, <1>0 DEF CompleteNormally, TypeOK
  <2>3. TypeOK'
    BY <1>4, <1>0, <2>1 DEF CompleteNormally, TypeOK, AtMostOne
  <2>4. Phases'
    BY <1>4, <1>0 DEF CompleteNormally, Phases
  <2>5. Numbered'
    BY <1>4, <1>0 DEF CompleteNormally, Numbered, Sent, TypeOK, Phases, AtMostOne
  <2>6. FinalIsLast'
    BY <1>4, <1>0 DEF CompleteNormally, FinalIsLast, FinalSent, TypeOK, Phases, AtMostOne
  <2>7. Counted'
    BY <1>4, <1>0 DEF CompleteNormally, Counted, FinalIsLast, Sent, FinalSent, TypeOK, Phases, AtMostOne
  <2> QED
    BY <2>3, <2>4, <2>5, <2>6, <2>7 DEF IInv
<1>5. CASE CompleteCanceled
  <2>1. canceled' \in BOOLEAN
    BY <1>5, <1>0 DEF CompleteCanceled, TypeOK
  <2>3. TypeOK'
    BY <1>5, <1>0, <2>1 DEF CompleteCanceled, TypeOK, AtMostOne
  <2>4. Phases'
    BY <1>5, <1>0 DEF CompleteCanceled, Phases
  <2>5. Numbered'
    BY <1>5, <1>0 DEF CompleteCanceled, Numbered, Sent, TypeOK, Phases, AtMostOne
  <2>6. FinalIsLast'
    BY <1>5, <1>0 DEF CompleteCanceled, FinalIsLast, FinalSent, TypeOK, Phases, AtMostOne
  <2>7. Counted'
    BY <1>5, <1>0 DEF CompleteCanceled, Counted, Sent, FinalSent, TypeOK, Phases, AtMostOne
  <2> QED
    BY <2>3, <2>4, <2>5, <2>6, <2>7 DEF IInv
<1>6. CASE CompleteFaulted
  <2>1. canceled' \in BOOLEAN
    BY <1>6, <1>0 DEF CompleteFaulted, TypeOK
  <2>3. TypeOK'
    BY <1>6, <1>0, <2>1 DEF CompleteFaulted, TypeOK, AtMostOne
  <2>4. Phases'
    BY <1>6, <1>0 DEF CompleteFaulted, Phases
  <2>5. Numbered'
    BY <1>6, <1>0 DEF CompleteFaulted, Numbered, Sent, TypeOK, Phases, AtMostOne
  <2>6. FinalIsLast'
    BY <1>6, <1>0 DEF CompleteFaulted, FinalIsLast, FinalSent, TypeOK, Phases, AtMostOne
  <2>7. Counted'
    BY <1>6, <1>0 DEF CompleteFaulted, Counted, FinalIsLast, Sent, FinalSent, TypeOK, Phases, AtMostOne
  <2> QED
    BY <2>3, <2>4, <2>5, <2>6, <2>7 DEF IInv
<1>7. CASE ReadToken
  <2>1. canceled' \in BOOLEAN
    BY <1>7, <1>0 DEF ReadToken, TypeOK
  <2>2. /\ channel' \in Seq(Token) /\ Len(channel') = Len(channel) - 1
        /\ Len(channel) \in Nat \ {0}
        /\ \A i \in 1..Len(channel) - 1 : channel'[i] = channel[i + 1]
        /\ taken = <<>> /\ taken' \in Seq(Token) /\ Len(taken') = 1 /\ taken' # <<>>
        /\ taken'[1] = channel[1] /\ channel[1] \in Token
        /\ HasFinal(taken') <=> channel[1].isFinal
        /\ HasFinal(channel) <=> channel[1].isFinal \/ HasFinal(channel')
        /\ ~HasFinal(taken)
    <3>1. /\ channel \in Seq(Token) /\ channel # <<>> /\ channel' = Tail(channel)
          /\ taken' = <<Head(channel)>> /\ taken = <<>>
      BY <1>7, <1>0 DEF ReadToken, TypeOK, Phases
    <3>2. Head(channel) = channel[1] /\ channel[1] \in Token
      BY <3>1, TailToken
    <3>3. HasFinal(taken') <=> channel[1].isFinal
      BY <3>1, <3>2, FinalOfShort
    <3>4. HasFinal(channel) <=> channel[1].isFinal \/ HasFinal(channel')
      BY <3>1, <3>2, FinalOfTail
    <3> QED
      BY <3>1, <3>2, <3>3, <3>4, TailToken, Singletons, FinalOfShort
  <2>3. TypeOK'
    BY <1>7, <1>0, <2>1, <2>2 DEF ReadToken, TypeOK, AtMostOne
  <2>4. Phases'
    BY <1>7, <1>0, <2>2 DEF ReadToken, Phases
  <2>5. Numbered'
    BY <1>7, <1>0, <2>2 DEF ReadToken, Numbered, Sent, TypeOK, Phases, AtMostOne
  <2>6. FinalIsLast'
    <3>1. FinalSent' <=> FinalSent
      BY <1>7, <2>2 DEF ReadToken, FinalSent
    <3>2. \A i \in 1..Len(channel') : channel'[i].isFinal => i = Len(channel')
      BY <1>0, <2>2 DEF FinalIsLast
    <3>3. \A i \in 1..Len(taken') : taken'[i].isFinal => channel' = <<>>
      BY <1>0, <2>2 DEF FinalIsLast
    <3>4. \A i \in 1..Len(delivered) : ~delivered[i].isFinal
      <4>1. channel # <<>>
        BY <1>7, Zenon DEF ReadToken
      <4>2. \A i \in 1..Len(delivered) : delivered[i].isFinal => channel = <<>>
        BY <1>0, Zenon DEF FinalIsLast
      <4> QED
        BY <4>1, <4>2, Zenon
    <3> QED
      BY <1>7, <1>0, <3>1, <3>2, <3>3, <3>4 DEF ReadToken, FinalIsLast
  <2>7. Counted'
    <3>1. FinalSent' <=> FinalSent
      BY <1>7, <2>2 DEF ReadToken, FinalSent
    <3>2. Sent' = Sent
      BY <1>7, <1>0, <2>2 DEF ReadToken, TypeOK, Sent
    <3> QED
      BY <1>7, <1>0, <3>1, <3>2 DEF ReadToken, Counted
  <2> QED
    BY <2>3, <2>4, <2>5, <2>6, <2>7 DEF IInv
<1>8. CASE Invoke
  <2>1. canceled' \in BOOLEAN
    BY <1>8, <1>0 DEF Invoke, TypeOK
  <2>2. /\ taken[1] \in Token /\ Len(taken) = 1 /\ taken' = <<>>
        /\ delivered' \in Seq(Token) /\ Len(delivered') = Len(delivered) + 1
        /\ delivered'[Len(delivered) + 1] = taken[1]
        /\ \A i \in 1..Len(delivered) : delivered'[i] = delivered[i]
        /\ HasFinal(delivered') <=> HasFinal(delivered) \/ taken[1].isFinal
        /\ HasFinal(taken) <=> taken[1].isFinal
        /\ ~HasFinal(taken')
    <3>1. taken[1] \in Token /\ taken = <<taken[1]>> /\ Len(taken) = 1
      BY <1>8, <1>0, OneToken DEF Invoke, TypeOK, AtMostOne, Phases
    <3>2. delivered \in Seq(Token) /\ delivered' = Append(delivered, taken[1])
      BY <1>8, <1>0 DEF Invoke, TypeOK
    <3>3. HasFinal(taken) <=> taken[1].isFinal
      BY <3>1, FinalOfShort
    <3>4. taken' = <<>> /\ ~HasFinal(taken')
      BY <1>8, FinalOfShort DEF Invoke
    <3> QED
      BY <3>1, <3>2, <3>3, <3>4, AppendToken, FinalOfAppend
  <2>3. TypeOK'
    BY <1>8, <1>0, <2>1, <2>2 DEF Invoke, TypeOK, AtMostOne
  <2>4. Phases'
    BY <1>8, <1>0, <2>2 DEF Invoke, Phases
  <2>5. Numbered'
    <3>1. UNCHANGED <<channel, held>>
      BY <1>8 DEF Invoke
    <3>2. Len(delivered) \in Nat /\ Len(channel) \in Nat
      BY <1>0 DEF TypeOK
    <3>3. taken[1].index = Len(delivered)
      BY <1>0, <2>2 DEF Numbered
    <3>4. \A i \in 1..Len(delivered') : delivered'[i].index = i - 1
      BY <1>0, <2>2, <3>2, <3>3 DEF Numbered
    <3>5. Len(taken') = 0 /\ Len(delivered') + Len(taken') = Len(delivered) + Len(taken)
      BY <2>2, <3>2
    <3>6. Sent' = Sent
      BY <2>2, <3>1, <3>2, <3>5 DEF Sent
    <3>7. \A i \in 1..Len(taken') : taken'[i].index = Len(delivered')
      BY <3>5
    <3>8. \A i \in 1..Len(channel) :
             channel[i].index = Len(delivered') + Len(taken') + i - 1
      BY <1>0, <3>5 DEF Numbered
    <3>9. \A i \in 1..Len(held) : held[i].index = Sent'
      BY <1>0, <3>6, Zenon DEF Numbered
    <3> QED
      BY <3>1, <3>4, <3>7, <3>8, <3>9, Zenon DEF Numbered
  <2>6. FinalIsLast'
    <3>1. FinalSent' <=> FinalSent
      BY <1>8, <2>2 DEF Invoke, FinalSent
    <3>2. \A i \in 1..Len(delivered) : ~delivered[i].isFinal
      <4>1. taken # <<>>
        BY <1>8, <1>0, Zenon DEF Invoke, Phases
      <4>2. \A i \in 1..Len(delivered) : delivered[i].isFinal => taken = <<>>
        BY <1>0, Zenon DEF FinalIsLast
      <4> QED
        BY <4>1, <4>2, Zenon
    <3>3. \A i \in 1..Len(delivered') : delivered'[i].isFinal =>
              i = Len(delivered') /\ channel = <<>>
      <4>1. taken[1].isFinal => channel = <<>>
        BY <1>0, <2>2 DEF FinalIsLast
      <4>2. Len(delivered) \in Nat
        BY <1>0 DEF TypeOK
      <4> QED
        BY <2>2, <3>2, <4>1, <4>2
    <3> QED
      BY <1>8, <1>0, <2>2, <3>1, <3>3 DEF Invoke, FinalIsLast
  <2>7. Counted'
    <3>1. FinalSent' <=> FinalSent
      BY <1>8, <2>2 DEF Invoke, FinalSent
    <3>2. Sent' = Sent
      BY <1>8, <1>0, <2>2 DEF Invoke, TypeOK, Sent
    <3> QED
      BY <1>8, <1>0, <3>1, <3>2 DEF Invoke, Counted
  <2> QED
    BY <2>3, <2>4, <2>5, <2>6, <2>7 DEF IInv
<1>9. CASE EndDrain
  <2>1. canceled' \in BOOLEAN
    BY <1>9, <1>0 DEF EndDrain, TypeOK
  <2>3. TypeOK'
    BY <1>9, <1>0, <2>1 DEF EndDrain, TypeOK, AtMostOne
  <2>4. Phases'
    BY <1>9, <1>0 DEF EndDrain, TypeOK, Phases
  <2>5. Numbered'
    BY <1>9, <1>0 DEF EndDrain, Numbered, Sent, TypeOK, Phases, AtMostOne
  <2>6. FinalIsLast'
    BY <1>9, <1>0 DEF EndDrain, FinalIsLast, FinalSent, TypeOK, Phases, AtMostOne
  <2>7. Counted'
    BY <1>9, <1>0 DEF EndDrain, Counted, Sent, FinalSent, TypeOK, Phases, AtMostOne
  <2> QED
    BY <2>3, <2>4, <2>5, <2>6, <2>7 DEF IInv
<1>10. CASE Cancel
  <2>1. canceled' \in BOOLEAN
    BY <1>10, <1>0 DEF Cancel, TypeOK
  <2>3. TypeOK'
    BY <1>10, <1>0, <2>1 DEF Cancel, TypeOK, AtMostOne
  <2>4. Phases'
    BY <1>10, <1>0 DEF Cancel, Phases
  <2>5. Numbered'
    BY <1>10, <1>0 DEF Cancel, Numbered, Sent, TypeOK, Phases, AtMostOne
  <2>6. FinalIsLast'
    BY <1>10, <1>0 DEF Cancel, FinalIsLast, FinalSent, TypeOK, Phases, AtMostOne
  <2>7. Counted'
    BY <1>10, <1>0 DEF Cancel, Counted, Sent, FinalSent, TypeOK, Phases, AtMostOne
  <2> QED
    BY <2>3, <2>4, <2>5, <2>6, <2>7 DEF IInv
<1>11. ASSUME NEW caller \in {"host", "callback"}, BeginDispose(caller)
       PROVE  IInv'
  <2>1. canceled' \in BOOLEAN
    BY <1>11, <1>0 DEF BeginDispose, TypeOK
  <2>3. TypeOK'
    BY <1>11, <1>0, <2>1 DEF BeginDispose, TypeOK, AtMostOne
  <2>4. Phases'
    BY <1>11, <1>0 DEF BeginDispose, Phases
  <2>5. Numbered'
    BY <1>11, <1>0 DEF BeginDispose, Numbered, Sent, TypeOK, Phases, AtMostOne
  <2>6. FinalIsLast'
    BY <1>11, <1>0 DEF BeginDispose, FinalIsLast, FinalSent, TypeOK, Phases, AtMostOne
  <2>7. Counted'
    BY <1>11, <1>0 DEF BeginDispose, Counted, Sent, FinalSent, TypeOK, Phases, AtMostOne
  <2> QED
    BY <2>3, <2>4, <2>5, <2>6, <2>7 DEF IInv
<1>12. CASE EndDispose
  <2>1. canceled' \in BOOLEAN
    BY <1>12, <1>0 DEF EndDispose, TypeOK
  <2>3. TypeOK'
    BY <1>12, <1>0, <2>1 DEF EndDispose, TypeOK, AtMostOne
  <2>4. Phases'
    BY <1>12, <1>0 DEF EndDispose, Phases
  <2>5. Numbered'
    BY <1>12, <1>0 DEF EndDispose, Numbered, Sent, TypeOK, Phases, AtMostOne
  <2>6. FinalIsLast'
    BY <1>12, <1>0 DEF EndDispose, FinalIsLast, FinalSent, TypeOK, Phases, AtMostOne
  <2>7. Counted'
    BY <1>12, <1>0 DEF EndDispose, Counted, Sent, FinalSent, TypeOK, Phases, AtMostOne
  <2> QED
    BY <2>3, <2>4, <2>5, <2>6, <2>7 DEF IInv
<1>13. CASE UNCHANGED vars
  <2>1. canceled' \in BOOLEAN
    BY <1>13, <1>0 DEF vars, TypeOK
  <2>3. TypeOK'
    BY <1>13, <1>0, <2>1 DEF vars, TypeOK, AtMostOne
  <2>4. Phases'
    BY <1>13, <1>0 DEF vars, Phases
  <2>5. Numbered'
    BY <1>13, <1>0 DEF vars, Numbered, Sent, TypeOK, Phases, AtMostOne
  <2>6. FinalIsLast'
    BY <1>13, <1>0 DEF vars, FinalIsLast, FinalSent, TypeOK, Phases, AtMostOne
  <2>7. Counted'
    BY <1>13, <1>0 DEF vars, Counted, Sent, FinalSent, TypeOK, Phases, AtMostOne
  <2> QED
    BY <2>3, <2>4, <2>5, <2>6, <2>7 DEF IInv
<1> QED
  BY <1>1, <1>2, <1>3, <1>4, <1>5, <1>6, <1>7, <1>8, <1>9, <1>10, <1>11, <1>12, <1>13
  DEF Next, PumpAsync, DrainAsync

\* The invariant holds in every reachable state.
LEMMA Invariant == Spec => []IInv
  BY InitInv, NextInv, PTL DEF Spec

----------------------------------------------------------------------------
\* The theorems.

\* The channel never holds more than its capacity, and every part of the
\* session keeps its type.
THEOREM TypeCorrect == Spec => []TypeOK
<1>1. IInv => TypeOK
  BY DEF IInv
<1> QED
  BY <1>1, Invariant, PTL

\* The callback sees the tokens in the order the orchestrator numbered them,
\* none twice, and none after the final marker.
THEOREM DeliveredInOrder == Spec => []InOrder
<1>1. IInv => InOrder
  <2> SUFFICES ASSUME IInv PROVE InOrder
    OBVIOUS
  <2>1. DOMAIN delivered = 1..Len(delivered)
    BY DEF IInv, TypeOK
  <2> QED
    BY <2>1 DEF IInv, Numbered, FinalIsLast, InOrder
<1> QED
  BY <1>1, Invariant, PTL

\* Without a cancellation no token the orchestrator yielded is lost.
THEOREM NoTokenIsDropped == Spec => []NothingDropped
<1>1. IInv => NothingDropped
  <2> SUFFICES ASSUME IInv, ~canceled
      PROVE  Len(delivered) + Len(taken) + Len(channel) + Len(held) = Yielded
    BY DEF NothingDropped
  <2>1. FinalYielded <=> FinalSent \/ HasFinal(held)
    BY DEF FinalYielded, FinalSent
  <2>2. held = <<>> => Len(held) = 0 /\ ~HasFinal(held)
    BY FinalOfShort
  <2>3. held # <<>> => Len(held) = 1
    BY OneToken DEF IInv, TypeOK, AtMostOne
  <2>4. /\ Len(delivered) \in Nat /\ Len(taken) \in Nat /\ Len(channel) \in Nat
        /\ Len(held) \in Nat /\ index \in Nat
    BY FragmentsAssumption DEF IInv, TypeOK
  <2>5. CASE pump = "writing"
    <3>1. ~FinalSent /\ Len(held) = 1
      BY <2>3, <2>5 DEF IInv, Phases, FinalIsLast
    <3>2. CASE HasFinal(held)
      <4>1. FinalYielded /\ index = Sent
        BY <2>1, <2>4, <2>5, <3>2 DEF IInv, Counted, Sent
      <4> QED
        BY <2>4, <3>1, <4>1 DEF Sent, Yielded
    <3>3. CASE ~HasFinal(held)
      <4>1. ~FinalYielded /\ index = Sent + 1
        BY <2>1, <2>5, <3>1, <3>3 DEF IInv, Counted
      <4> QED
        BY <2>4, <3>1, <4>1 DEF Sent, Yielded
    <3> QED
      BY <3>2, <3>3
  <2>6. CASE pump # "writing"
    <3>1. /\ Len(held) = 0
          /\ FinalYielded <=> FinalSent
      BY <2>1, <2>2, <2>6 DEF IInv, Phases
    <3>2. CASE FinalSent
      <4>1. index + 1 = Sent
        BY <2>6, <3>2 DEF IInv, TypeOK, FinalIsLast, Counted
      <4> QED
        BY <2>4, <3>1, <3>2, <4>1 DEF Sent, Yielded
    <3>3. CASE ~FinalSent
      <4>1. index = Sent
        BY <2>4, <2>6, <3>3 DEF IInv, TypeOK, FinalIsLast, Counted
      <4> QED
        BY <2>4, <3>1, <3>3, <4>1 DEF Sent, Yielded
    <3> QED
      BY <3>2, <3>3
  <2> QED
    BY <2>5, <2>6
<1> QED
  BY <1>1, Invariant, PTL

\* A stream that ended quietly is complete or was cancelled; one that ended with
\* the model's fault is incomplete.
THEOREM StreamEndsHonestly == Spec => []EndsHonestly
<1>1. IInv => EndsHonestly
  <2> SUFFICES ASSUME IInv PROVE EndsHonestly
    OBVIOUS
  <2>1. drain \in {"ended", "aborted"} => (FinalSent <=> HasFinal(delivered))
    BY FinalOfShort DEF IInv, Phases, FinalSent
  <2> QED
    BY <2>1 DEF IInv, Phases, FinalIsLast, EndsHonestly
<1> QED
  BY <1>1, Invariant, PTL

----------------------------------------------------------------------------
\* The session implements the abstract token stream.

\* The token in the callback is the next one of the stream.
LEMMA NextToken ==
    ASSUME IInv, drain = "invoking"
    PROVE  /\ ~HasFinal(delivered)
           /\ \/ taken[1] = Final(Len(delivered))
              \/ /\ taken[1] = Fragment(Len(delivered))
                 /\ Len(delivered) < MaxFragments
<1>1. /\ taken[1] \in Token /\ taken = <<taken[1]>> /\ Len(taken) = 1 /\ taken # <<>>
  BY OneToken DEF IInv, TypeOK, AtMostOne, Phases
<1>2. ~HasFinal(delivered)
  BY <1>1 DEF IInv, TypeOK, FinalIsLast, HasFinal
<1>3. taken[1].index = Len(delivered)
  BY <1>1 DEF IInv, Numbered
<1>4. CASE taken[1].isFinal
  BY <1>1, <1>2, <1>3, <1>4 DEF Token, Final
<1>5. CASE ~taken[1].isFinal
  <2>1. taken[1] = Fragment(Len(delivered))
    BY <1>1, <1>3, <1>5 DEF Token, Fragment
  <2>2. /\ Len(delivered) \in Nat /\ Len(channel) \in Nat /\ index \in Nat
        /\ index <= MaxFragments
    BY FragmentsAssumption DEF IInv, TypeOK
  <2>3. FinalSent => HasFinal(channel)
    BY <1>1, <1>2, <1>5, FinalOfShort DEF FinalSent
  <2>4. HasFinal(channel) => Len(channel) # 0
    BY FinalOfShort DEF IInv, TypeOK
  <2>5. Sent <= index + (IF FinalSent THEN 1 ELSE 0)
    BY <2>2, <1>1 DEF IInv, TypeOK, Counted, FinalIsLast, Sent
  <2>6. Len(delivered) < MaxFragments
    BY <1>1, <2>2, <2>3, <2>4, <2>5, FragmentsAssumption DEF Sent
  <2> QED
    BY <1>2, <2>1, <2>6
<1> QED
  BY <1>4, <1>5

\* Every step of the session is a step of the token stream its callback sees, or
\* leaves that stream alone.
LEMMA StepRefines == IInv /\ [Next]_vars => [Stream!StreamNext]_(Stream!streamVars)
<1> SUFFICES ASSUME IInv, [Next]_vars
    PROVE  [Stream!StreamNext]_(Stream!streamVars)
  OBVIOUS
<1>1. CASE Invoke
  <2>1. delivered' = Append(delivered, taken[1]) /\ drain = "invoking" /\ drain' = "reading"
    BY <1>1 DEF Invoke
  <2> QED
    BY <2>1, NextToken
    DEF Stream!StreamNext, Stream!Emit, Stream!HasFinal, HasFinal,
        Stream!Fragment, Fragment, Stream!Final, Final
<1>2. CASE EndDrain
  BY <1>2 DEF EndDrain, Stream!StreamNext, Stream!Close, Stream!HasFinal, HasFinal
<1>3. CASE ReadToken
  BY <1>3 DEF ReadToken, Stream!streamVars
<1>4. CASE UNCHANGED <<drain, delivered>>
  BY <1>4 DEF Stream!streamVars, HasFinal
<1> QED
  BY <1>1, <1>2, <1>3, <1>4
  DEF Next, vars, PumpAsync, DrainAsync, YieldFragment, YieldFinal, WriteToken,
      CompleteNormally, CompleteCanceled, CompleteFaulted, Cancel, BeginDispose,
      EndDispose, consumerVars

\* What the native callback observes of a session is a token stream: tokens
\* numbered from 0, closed once, complete only after the final marker.
THEOREM RefinesTokenStream == Spec => Stream!StreamSafety
<1>1. Init => Stream!StreamInit
  BY DEF Init, Stream!StreamInit
<1> QED
  BY <1>1, Invariant, StepRefines, PTL DEF Spec, Stream!StreamSafety

----------------------------------------------------------------------------
\* Every step of the composition is a step of the session, or leaves it alone.
LEMMA ClientStepsSession == ClientNext => [Next]_vars
  BY DEF ClientNext, Engine, OnToken, TokenLost, Start, SessionStarted, SessionRefused,
         StartReturns, Loop, Emit, LoopEnds, LoopCanceled, Cleanup, CleanupCancel,
         CleanupFree, CleanupReturns, CancelJob, Next, DrainAsync

\* The record is freed by a session that was refused, and then never called
\* back, or in the callback of the final token, after which there is none.
FreedAtEnd ==
    /\ outcome = "refused" => drain = "reading" /\ flow = "ended"
    /\ flow = "calling" => drain = "reading"
    /\ callbackState = "freed" => outcome = "refused" \/ HasFinal(delivered)
    /\ callbackState \in {"live", "freed"}

ClientInv == IInv /\ FreedAtEnd

\* No client action but OnToken calls Invoke's effect on the record; the rest
\* is the session's invariant.
LEMMA ClientNextInv == ClientInv /\ [ClientNext]_<<vars, clientVars>> => ClientInv'
<1> SUFFICES ASSUME ClientInv, [ClientNext]_<<vars, clientVars>> PROVE ClientInv'
  OBVIOUS
<1>0. IInv /\ FreedAtEnd
  BY DEF ClientInv
<1>1. IInv'
  BY <1>0, ClientStepsSession, NextInv DEF vars
<1>2. FreedAtEnd'
  <2>1. CASE Engine
    BY <1>0, <2>1
    DEF FreedAtEnd, Engine, clientVars, PumpAsync, YieldFragment, YieldFinal, WriteToken,
        CompleteNormally, CompleteCanceled, CompleteFaulted, consumerVars, ReadToken, EndDrain
  <2>2. CASE Invoke
    <3>1. taken \in Seq(Token) /\ Len(taken) <= 1 /\ taken # <<>> /\ delivered \in Seq(Token)
      BY <1>0, <2>2 DEF IInv, TypeOK, AtMostOne, Phases, Invoke
    <3>2. taken[1] \in Token
      BY <3>1, OneToken
    <3>3. HasFinal(delivered') <=> HasFinal(delivered) \/ taken[1].isFinal
      BY <2>2, <3>1, <3>2, FinalOfAppend DEF Invoke
    <3>4. drain = "invoking" /\ drain' = "reading"
      BY <2>2 DEF Invoke
    <3>5. CASE OnToken
      BY <1>0, <3>3, <3>4, <3>5 DEF FreedAtEnd, OnToken, Frees
    <3>6. CASE UNCHANGED <<flow, outcome, callbackState>>
      BY <1>0, <3>3, <3>4, <3>6 DEF FreedAtEnd
    <3>7. OnToken \/ UNCHANGED <<flow, outcome, callbackState>>
      BY <2>2, <3>4
      DEF ClientNext, Engine, TokenLost, Start, SessionStarted, SessionRefused,
          StartReturns, Loop, Emit, LoopEnds, LoopCanceled, Cleanup, CleanupCancel,
          CleanupFree, CleanupReturns, CancelJob, Cancel, BeginDispose, EndDispose, vars,
          clientVars
    <3> QED
      BY <3>5, <3>6, <3>7
  <2>3. CASE Start \/ Loop \/ CancelJob
    BY <1>0, <2>3
    DEF FreedAtEnd, Start, SessionStarted, SessionRefused, StartReturns, Loop, Emit,
        LoopEnds, LoopCanceled, CancelJob, vars
  <2>4. CASE Cleanup
    BY <1>0, <2>4
    DEF FreedAtEnd, Cleanup, CleanupCancel, CleanupFree, CleanupReturns,
        Cancel, BeginDispose, EndDispose
  <2>5. CASE UNCHANGED <<vars, clientVars>>
    BY <1>0, <2>5 DEF FreedAtEnd, vars, clientVars
  <2> QED
    BY <2>1, <2>2, <2>3, <2>4, <2>5 DEF ClientNext, OnToken, TokenLost
<1> QED
  BY <1>1, <1>2 DEF ClientInv

\* The composition satisfies it at the start and so at any time.
LEMMA ClientInvariant == ClientSpec => []ClientInv
<1>1. ClientInit => ClientInv
  BY InitInv DEF ClientInit, Init, ClientInv, FreedAtEnd
<1> QED
  BY <1>1, ClientNextInv, PTL DEF ClientSpec

----------------------------------------------------------------------------
\* What the drain's callback adds to the stream.

\* The callback returns with one more token delivered, the first final one if
\* it is final.
LEMMA InvokeFacts ==
    ASSUME IInv, Invoke
    PROVE  /\ taken[1] \in Token
           /\ delivered \in Seq(Token) /\ Len(delivered) \in Nat
           /\ delivered' \in Seq(Token) /\ Len(delivered') = Len(delivered) + 1
           /\ delivered'[Len(delivered) + 1] = taken[1]
           /\ \A i \in 1..Len(delivered) : delivered'[i] = delivered[i]
           /\ ~HasFinal(delivered)
           /\ HasFinal(delivered') <=> taken[1].isFinal
<1>1. taken \in Seq(Token) /\ Len(taken) <= 1 /\ taken # <<>> /\ delivered \in Seq(Token)
  BY DEF IInv, TypeOK, AtMostOne, Phases, Invoke
<1>2. taken[1] \in Token
  BY <1>1, OneToken
<1>3. delivered' = Append(delivered, taken[1]) /\ drain = "invoking"
  BY DEF Invoke
<1>4. ~HasFinal(delivered)
  BY <1>3, NextToken
<1>5. HasFinal(delivered') <=> taken[1].isFinal
  BY <1>1, <1>2, <1>3, <1>4, FinalOfAppend
<1>6. Len(delivered) \in Nat
  BY <1>1
<1> QED
  BY <1>1, <1>2, <1>3, <1>4, <1>5, <1>6, AppendToken

\* One fragment is delivered for every step of the orchestrator's counter.
LEMMA DeliveredBound ==
    ASSUME IInv
    PROVE  Len(delivered) <= MaxFragments + (IF HasFinal(delivered) THEN 1 ELSE 0)
<1>1. /\ Len(delivered) \in Nat /\ Len(taken) \in Nat /\ Len(channel) \in Nat
      /\ index \in Nat /\ index <= MaxFragments
      /\ taken \in Seq(Token) /\ channel \in Seq(Token)
  BY FragmentsAssumption DEF IInv, TypeOK
<1>2. Sent <= index + (IF FinalSent THEN 1 ELSE 0)
  BY <1>1 DEF IInv, TypeOK, Counted, FinalIsLast, Sent
<1>3. HasFinal(taken) \/ HasFinal(channel) => Len(taken) + Len(channel) > 0
  <2>1. taken = <<>> => ~HasFinal(taken)
    BY FinalOfShort
  <2>2. channel = <<>> => ~HasFinal(channel)
    BY FinalOfShort
  <2>3. /\ taken # <<>> => Len(taken) > 0
        /\ channel # <<>> => Len(channel) > 0
    BY <1>1
  <2> QED
    BY <1>1, <2>1, <2>2, <2>3
<1> QED
  BY <1>1, <1>2, <1>3, FragmentsAssumption DEF Sent, FinalSent

----------------------------------------------------------------------------
\* The Kotlin channel between the callback and the flow.

\* What the flow has emitted and what waits in the channel is, in this order,
\* the beginning of what was delivered; all of it while the channel is open, and
\* all but a final token that found no room when that token closed it.
InStep ==
    /\ Len(emitted) + Len(buffer) <= Len(delivered)
    /\ \A i \in 1..Len(emitted) : emitted[i] = delivered[i]
    /\ \A i \in 1..Len(buffer) : buffer[i] = delivered[Len(emitted) + i]
    /\ bufferClosed = "open" => Len(emitted) + Len(buffer) = Len(delivered)
    /\ bufferClosed = "closed" => Len(delivered) <= Len(emitted) + Len(buffer) + 1

Received ==
    /\ bufferClosed = "closed" => HasFinal(delivered)
    /\ outcome = "completed" => bufferClosed = "closed" /\ buffer = <<>>
    /\ ~jvmFailed => InStep

FlowInv == ClientTypeOK /\ Received

\* An empty channel satisfies it.
LEMMA FlowInit == ClientInit => FlowInv
<1> SUFFICES ASSUME ClientInit PROVE FlowInv
  OBVIOUS
<1>1. jobCanceled \in BOOLEAN /\ jvmFailed \in BOOLEAN
  BY DEF ClientInit
<1>2. buffer = <<>> /\ emitted = <<>> /\ delivered = <<>> /\ bufferClosed = "open"
  BY DEF ClientInit, Init
<1>3. ClientTypeOK
  BY <1>1, <1>2, BufferAssumption DEF ClientInit, ClientTypeOK
<1>4. InStep
  BY <1>2 DEF InStep
<1> QED
  BY <1>2, <1>3, <1>4 DEF ClientInit, FlowInv, Received
\* A step that leaves the channel and what passed through it alone.
LEMMA FlowFrame ==
    ASSUME FlowInv, UNCHANGED <<buffer, bufferClosed, emitted, delivered, jvmFailed>>,
           outcome' = "completed" => bufferClosed = "closed" /\ buffer = <<>>
    PROVE  Received'
  BY DEF FlowInv, Received, InStep

\* Every step of the engine, the callback and the coroutine keeps it.
LEMMA FlowStep == ClientInv /\ FlowInv /\ [ClientNext]_<<vars, clientVars>> => FlowInv'
<1> SUFFICES ASSUME ClientInv, FlowInv, [ClientNext]_<<vars, clientVars>> PROVE FlowInv'
  OBVIOUS
<1>0. IInv /\ ClientTypeOK /\ Received
  BY DEF ClientInv, FlowInv
<1>1. CASE OnToken
  <2> DEFINE t == taken[1]
             e == Len(emitted)
             b == Len(buffer)
             d == Len(delivered)
  <2>1. /\ t \in Token /\ d \in Nat
        /\ Len(delivered') = d + 1 /\ delivered'[d + 1] = t
        /\ \A i \in 1..d : delivered'[i] = delivered[i]
        /\ ~HasFinal(delivered)
        /\ HasFinal(delivered') <=> t.isFinal
    BY <1>0, <1>1, InvokeFacts DEF OnToken
  <2>2. /\ buffer' = IF Fits THEN Append(buffer, t) ELSE buffer
        /\ bufferClosed' = ClosedAfter(t)
        /\ callbackState' \in {callbackState, "freed"}
        /\ UNCHANGED <<flow, outcome, jobCanceled, emitted, jvmFailed>>
    BY <1>1 DEF OnToken
  <2>3. /\ buffer \in Seq(Token) /\ emitted \in Seq(Token) /\ e \in Nat /\ b \in Nat
        /\ b <= Buffer /\ bufferClosed \in {"open", "closed", "overflow"}
    BY <1>0 DEF ClientTypeOK
  <2>4. bufferClosed # "closed" /\ outcome # "completed"
    BY <1>0, <2>1 DEF Received
  <2>5. /\ Append(buffer, t) \in Seq(Token) /\ Len(Append(buffer, t)) = b + 1
        /\ Append(buffer, t)[b + 1] = t
        /\ \A i \in 1..b : Append(buffer, t)[i] = buffer[i]
    BY <2>1, <2>3, AppendToken
  <2> HIDE DEF t, e, b, d
  <2>6. /\ buffer' \in Seq(Token) /\ Len(buffer') <= Buffer
        /\ bufferClosed' \in {"open", "closed", "overflow"}
    BY <2>2, <2>3, <2>5, BufferAssumption DEF Fits, ClosedAfter, b
  <2>7. ClientTypeOK'
    <3>1. jobCanceled' \in BOOLEAN /\ jvmFailed' \in BOOLEAN
      BY <1>0, <2>2 DEF ClientTypeOK
    <3> QED
      BY <1>0, <2>2, <2>6, <3>1 DEF ClientTypeOK
  <2>8. bufferClosed' = "closed" => HasFinal(delivered')
    BY <2>1, <2>2, <2>4 DEF ClosedAfter
  <2>9. ASSUME ~jvmFailed PROVE InStep'
    <3>0. /\ e + b <= d
          /\ \A i \in 1..e : emitted[i] = delivered[i]
          /\ \A i \in 1..b : buffer[i] = delivered[e + i]
          /\ bufferClosed = "open" => e + b = d
      BY <1>0, <2>9 DEF Received, InStep, e, b, d
    <3>1. \A i \in 1..e : emitted[i] = delivered'[i]
      BY <2>1, <2>3, <3>0
    <3>2. \A i \in 1..b : buffer[i] = delivered'[e + i]
      <4>1. \A i \in 1..b : e + i \in 1..d
        BY <2>1, <2>3, <3>0
      <4> QED
        BY <2>1, <3>0, <4>1
    <3>3. CASE Fits
      <4>1. buffer' = Append(buffer, t) /\ e + b = d
        BY <2>2, <3>0, <3>3 DEF Fits
      <4>2. Len(buffer') = b + 1 /\ e + (b + 1) = d + 1
        BY <2>1, <2>3, <2>5, <4>1
      <4>3. \A i \in 1..b + 1 : buffer'[i] = delivered'[e + i]
        <5>1. buffer'[b + 1] = delivered'[e + (b + 1)]
          BY <2>1, <2>5, <4>1, <4>2
        <5>2. \A i \in 1..b : buffer'[i] = delivered'[e + i]
          BY <2>5, <3>2, <4>1
        <5>3. \A i \in 1..b + 1 : i \in 1..b \/ i = b + 1
          BY <2>3
        <5> QED
          BY <5>1, <5>2, <5>3, Zenon
      <4>4. Len(emitted') = e
        BY <2>2 DEF e
      <4>5. e + (b + 1) <= d + 1 /\ d + 1 <= e + (b + 1) + 1
        BY <2>1, <2>3, <4>2
      <4> QED
        BY <2>1, <2>2, <3>1, <4>2, <4>3, <4>4, <4>5, Zenon DEF InStep
    <3>4. CASE ~Fits
      <4>1. buffer' = buffer
        BY <2>2, <3>4
      <4>2. bufferClosed' # "open"
        BY <2>2, <2>3, <3>4 DEF ClosedAfter
      <4>3. bufferClosed' = "closed" => d + 1 <= e + b + 1
        <5>1. bufferClosed' = "closed" => bufferClosed = "open"
          BY <2>2, <2>3, <2>4 DEF ClosedAfter
        <5> QED
          BY <2>1, <2>3, <3>0, <5>1
      <4>4. Len(emitted') = e /\ Len(buffer') = b
        BY <2>2, <4>1 DEF e, b
      <4>5. e + b <= d + 1
        BY <2>1, <2>3, <3>0
      <4> QED
        BY <2>1, <2>2, <3>1, <3>2, <4>1, <4>2, <4>3, <4>4, <4>5, Zenon DEF InStep
    <3> QED
      BY <3>3, <3>4
  <2> QED
    BY <2>2, <2>4, <2>7, <2>8, <2>9 DEF FlowInv, Received
<1>2. CASE TokenLost
  <2>1. /\ jvmFailed'
        /\ UNCHANGED <<flow, outcome, jobCanceled, buffer, bufferClosed, emitted, callbackState>>
    BY <1>2 DEF TokenLost
  <2>2. ClientTypeOK'
    <3>1. jobCanceled' \in BOOLEAN /\ jvmFailed' \in BOOLEAN
      BY <1>0, <1>2 DEF ClientTypeOK, TokenLost
    <3> QED
      BY <1>0, <2>1, <3>1 DEF ClientTypeOK
  <2>3. ~HasFinal(delivered)
    BY <1>0, <1>2, InvokeFacts DEF TokenLost
  <2> QED
    BY <1>0, <2>1, <2>2, <2>3 DEF FlowInv, Received
<1>3. CASE Emit
  <2> DEFINE e == Len(emitted)
             b == Len(buffer)
             d == Len(delivered)
  <2>1. /\ buffer # <<>> /\ buffer \in Seq(Token) /\ emitted \in Seq(Token)
        /\ b <= Buffer /\ e \in Nat
        /\ emitted' = Append(emitted, Head(buffer)) /\ buffer' = Tail(buffer)
        /\ UNCHANGED <<flow, outcome, jobCanceled, bufferClosed, callbackState, jvmFailed, delivered>>
    BY <1>0, <1>3 DEF Emit, ClientTypeOK, vars
  <2>2. /\ buffer' \in Seq(Token) /\ b \in Nat \ {0} /\ Len(buffer') = b - 1
        /\ Head(buffer) = buffer[1] /\ buffer[1] \in Token
        /\ \A i \in 1..b - 1 : buffer'[i] = buffer[i + 1]
    BY <2>1, TailToken
  <2>3. /\ emitted' \in Seq(Token) /\ Len(emitted') = e + 1
        /\ emitted'[e + 1] = buffer[1]
        /\ \A i \in 1..e : emitted'[i] = emitted[i]
    BY <2>1, <2>2, AppendToken
  <2>4. d \in Nat
    BY <1>0 DEF IInv, TypeOK
  <2> HIDE DEF e, b, d
  <2>5. ClientTypeOK'
    <3>1. jobCanceled' \in BOOLEAN /\ jvmFailed' \in BOOLEAN
      BY <1>0, <2>1 DEF ClientTypeOK
    <3>2. Len(buffer') <= Buffer
      BY <2>1, <2>2, BufferAssumption
    <3> QED
      BY <1>0, <2>1, <2>2, <2>3, <3>1, <3>2 DEF ClientTypeOK
  <2>6. ASSUME ~jvmFailed PROVE InStep'
    <3>0. /\ e + b <= d
          /\ \A i \in 1..e : emitted[i] = delivered[i]
          /\ \A i \in 1..b : buffer[i] = delivered[e + i]
          /\ bufferClosed = "open" => e + b = d
          /\ bufferClosed = "closed" => d <= e + b + 1
      BY <1>0, <2>6 DEF Received, InStep, e, b, d
    <3>1. (e + 1) + (b - 1) = e + b
      BY <2>1, <2>2
    <3>2. \A i \in 1..e + 1 : emitted'[i] = delivered[i]
      <4>1. buffer[1] = delivered[e + 1]
        BY <2>2, <3>0
      <4>2. \A i \in 1..e + 1 : i \in 1..e \/ i = e + 1
        BY <2>1
      <4> QED
        BY <2>3, <3>0, <4>1, <4>2, Zenon
    <3>3. \A i \in 1..b - 1 : buffer'[i] = delivered[(e + 1) + i]
      <4>1. \A i \in 1..b - 1 : i + 1 \in 1..b /\ e + (i + 1) = (e + 1) + i
        BY <2>1, <2>2
      <4> QED
        BY <2>2, <3>0, <4>1
    <3> QED
      BY <2>1, <2>2, <2>3, <3>0, <3>1, <3>2, <3>3 DEF InStep, d
  <2> QED
    BY <1>0, <2>1, <2>5, <2>6 DEF FlowInv, Received
<1>4. CASE LoopEnds
  <2>1. /\ buffer = <<>> /\ bufferClosed # "open" /\ flow' = "cleanup"
        /\ outcome' = IF bufferClosed = "overflow" THEN "error" ELSE "completed"
        /\ UNCHANGED <<jobCanceled, buffer, bufferClosed, emitted, callbackState, jvmFailed, delivered>>
    BY <1>4 DEF LoopEnds, vars
  <2>2. bufferClosed \in {"open", "closed", "overflow"}
    BY <1>0 DEF ClientTypeOK
  <2>3. Received'
    BY <2>1, <2>2, FlowFrame
  <2>4. ClientTypeOK'
    <3>1. jobCanceled' \in BOOLEAN /\ jvmFailed' \in BOOLEAN
      BY <1>0, <2>1 DEF ClientTypeOK
    <3> QED
      BY <1>0, <2>1, <3>1 DEF ClientTypeOK
  <2> QED
    BY <2>3, <2>4 DEF FlowInv
<1>5. CASE Engine \/ Start \/ LoopCanceled \/ Cleanup \/ CancelJob \/ UNCHANGED <<vars, clientVars>>
  <2> USE DEF Engine, Start, SessionStarted, SessionRefused, StartReturns, LoopCanceled,
              Cleanup, CleanupCancel, CleanupFree, CleanupReturns, CancelJob, clientVars
  <2>1. UNCHANGED <<buffer, bufferClosed, emitted, jvmFailed>>
    BY <1>5
  <2>2. /\ flow' \in {flow, "starting", "ended", "collecting", "cleanup", "canceled", "freeing"}
        /\ outcome' \in {outcome, "refused", "canceledAtStart", "canceled"}
        /\ callbackState' \in {callbackState, "freed"}
    BY <1>5
  <2>3. UNCHANGED jobCanceled \/ jobCanceled' = TRUE
    BY <1>5
  <2>4. jobCanceled' \in BOOLEAN /\ jvmFailed' \in BOOLEAN
    BY <1>0, <2>1, <2>3 DEF ClientTypeOK
  <2>5. ClientTypeOK'
    BY <1>0, <2>1, <2>2, <2>4 DEF ClientTypeOK
  <2>6. UNCHANGED delivered
    BY <1>5
    DEF PumpAsync, YieldFragment, YieldFinal, WriteToken, CompleteNormally, CompleteCanceled,
        CompleteFaulted, consumerVars, ReadToken, EndDrain, Cancel, BeginDispose, EndDispose, vars
  <2>7. outcome' = "completed" => outcome = "completed"
    BY <2>2
  <2>8. Received'
    BY <1>0, <2>1, <2>6, <2>7, FlowFrame DEF Received
  <2> QED
    BY <2>5, <2>8 DEF FlowInv
<1> QED
  BY <1>1, <1>2, <1>3, <1>4, <1>5 DEF ClientNext, Loop

\* The channel invariant holds in every reachable state.
LEMMA FlowInvariant == ClientSpec => []FlowInv
  BY FlowInit, FlowStep, ClientInvariant, PTL DEF ClientSpec

----------------------------------------------------------------------------
\* The theorems.

\* The callback never runs on a freed record.
THEOREM CallbackNeverDangles == ClientSpec => []CallbackStateIsLive
<1>1. ClientInv => CallbackStateIsLive
  <2> SUFFICES ASSUME ClientInv, drain = "invoking" PROVE callbackState = "live"
    BY DEF CallbackStateIsLive
  <2>1. ~HasFinal(delivered)
    BY NextToken DEF ClientInv
  <2> QED
    BY <2>1 DEF ClientInv, FreedAtEnd
<1> QED
  BY <1>1, ClientInvariant, PTL

\* The client's variables keep their types, the Kotlin channel its bound.
THEOREM ClientTypeCorrect == ClientSpec => []ClientTypeOK
<1>1. FlowInv => ClientTypeOK
  BY DEF FlowInv
<1> QED
  BY <1>1, FlowInvariant, PTL

\* Whatever the two channels hold when the flow completes, the collector has
\* every fragment up to the final token, which may itself have found no room.
THEOREM CompletedFlowIsWhole == ClientSpec => []CompletedIsWhole
<1>1. ClientInv /\ FlowInv => CompletedIsWhole
  <2> SUFFICES ASSUME ClientInv, FlowInv, outcome = "completed"
      PROVE  /\ HasFinal(delivered)
             /\ jvmFailed \/ \A i \in DOMAIN delivered :
                   delivered[i].isFinal \/ (i \in DOMAIN emitted /\ emitted[i] = delivered[i])
    BY DEF CompletedIsWhole
  <2>1. HasFinal(delivered) /\ bufferClosed = "closed" /\ buffer = <<>>
    BY DEF FlowInv, Received
  <2>2. /\ delivered \in Seq(Token) /\ emitted \in Seq(Token)
        /\ DOMAIN delivered = 1..Len(delivered) /\ DOMAIN emitted = 1..Len(emitted)
        /\ Len(delivered) \in Nat /\ Len(emitted) \in Nat
    BY DEF ClientInv, IInv, TypeOK, FlowInv, ClientTypeOK
  <2>3. delivered[Len(delivered)].isFinal
    <3>1. PICK i \in 1..Len(delivered) : delivered[i].isFinal
      BY <2>1, <2>2 DEF HasFinal
    <3>2. i = Len(delivered)
      BY <3>1 DEF ClientInv, IInv, FinalIsLast
    <3> QED
      BY <3>1, <3>2
  <2>4. ASSUME ~jvmFailed, NEW i \in 1..Len(delivered), ~delivered[i].isFinal
        PROVE  i \in 1..Len(emitted) /\ emitted[i] = delivered[i]
    <3>1. /\ Len(delivered) <= Len(emitted) + 1
          /\ \A j \in 1..Len(emitted) : emitted[j] = delivered[j]
      <4>1. InStep
        BY <2>4 DEF FlowInv, Received
      <4> QED
        BY <2>1, <2>2, <4>1 DEF InStep
    <3>2. i # Len(delivered)
      BY <2>3, <2>4
    <3>3. i \in 1..Len(emitted)
      <4>1. Len(delivered) \in Nat /\ Len(emitted) \in Nat
        BY <2>2
      <4>2. Len(delivered) <= Len(emitted) + 1
        BY <3>1
      <4> QED
        BY <3>2, <4>1, <4>2
    <3> QED
      BY <3>1, <3>3
  <2> QED
    BY <2>1, <2>2, <2>4
<1> QED
  BY <1>1, ClientInvariant, FlowInvariant, PTL

\* However the flow ends, unless it never had a session in hand, the session is
\* disposed by then: the cleanup's last step is the only one that ends it.
THEOREM EndingReleasesSession == ClientSpec => []EndReleasesSession
<1>1. ClientInit => EndReleasesSession
  BY DEF ClientInit, EndReleasesSession
<1>2. EndReleasesSession /\ [ClientNext]_<<vars, clientVars>> => EndReleasesSession'
  <2> SUFFICES ASSUME EndReleasesSession, [ClientNext]_<<vars, clientVars>>
      PROVE  EndReleasesSession'
    OBVIOUS
  <2> USE DEF EndReleasesSession
  <2>1. CASE Engine \/ OnToken \/ TokenLost
    <3>1. UNCHANGED <<flow, outcome>>
      BY <2>1 DEF Engine, OnToken, TokenLost, clientVars
    <3>2. UNCHANGED dispose
      BY <2>1 DEF Engine, OnToken, TokenLost, PumpAsync, YieldFragment, YieldFinal, WriteToken,
                  CompleteNormally, CompleteCanceled, CompleteFaulted, consumerVars, ReadToken,
                  EndDrain, Invoke
    <3> QED
      BY <3>1, <3>2
  <2>2. CASE Start
    BY <2>2 DEF Start, SessionStarted, SessionRefused, StartReturns, vars
  <2>3. CASE Loop \/ CancelJob
    BY <2>3 DEF Loop, Emit, LoopEnds, LoopCanceled, CancelJob, vars
  <2>4. CASE Cleanup
    BY <2>4 DEF Cleanup, CleanupCancel, CleanupFree, CleanupReturns, EndDispose
  <2>5. CASE UNCHANGED <<vars, clientVars>>
    BY <2>5 DEF vars, clientVars
  <2> QED
    BY <2>1, <2>2, <2>3, <2>4, <2>5 DEF ClientNext
<1> QED
  BY <1>1, <1>2, PTL DEF ClientSpec

\* The token the flow takes out of the channel is the next one of the stream.
LEMMA NextEmitted ==
    ASSUME ClientInv, FlowInv, ~jvmFailed, buffer # <<>>
    PROVE  /\ ~HasFinal(emitted)
           /\ \/ Head(buffer) = Final(Len(emitted))
              \/ /\ Head(buffer) = Fragment(Len(emitted))
                 /\ Len(emitted) < MaxFragments
<1> DEFINE e == Len(emitted)
           b == Len(buffer)
           d == Len(delivered)
<1>1. /\ emitted \in Seq(Token) /\ delivered \in Seq(Token) /\ e \in Nat /\ d \in Nat
      /\ DOMAIN emitted = 1..e /\ DOMAIN delivered = 1..d
  BY DEF FlowInv, ClientTypeOK, ClientInv, IInv, TypeOK
<1>2. b \in Nat \ {0} /\ Head(buffer) = buffer[1] /\ buffer[1] \in Token
  BY TailToken DEF FlowInv, ClientTypeOK
<1>3. /\ e + b <= d
      /\ \A i \in 1..e : emitted[i] = delivered[i]
      /\ \A i \in 1..b : buffer[i] = delivered[e + i]
  BY DEF FlowInv, Received, InStep
<1>4. /\ \A i \in 1..d : delivered[i].index = i - 1
      /\ \A i \in 1..d : delivered[i].isFinal => i = d
  BY DEF ClientInv, IInv, Numbered, FinalIsLast
<1>5. d <= MaxFragments + (IF HasFinal(delivered) THEN 1 ELSE 0)
  BY DeliveredBound DEF ClientInv
<1> HIDE DEF e, b, d
<1>6. Head(buffer) = delivered[e + 1] /\ e + 1 \in 1..d
  BY <1>1, <1>2, <1>3
<1>7. delivered[e + 1].index = e
  BY <1>1, <1>4, <1>6
<1>8. ~HasFinal(emitted)
  BY <1>1, <1>3, <1>4, <1>6 DEF HasFinal
<1>9. CASE Head(buffer).isFinal
  <2>1. Head(buffer) = Final(e)
    BY <1>2, <1>6, <1>7, <1>9 DEF Token, Final
  <2> QED
    BY <1>8, <2>1 DEF e
<1>10. CASE ~Head(buffer).isFinal
  <2>1. Head(buffer) = Fragment(e)
    BY <1>2, <1>6, <1>7, <1>10 DEF Token, Fragment
  <2>2. HasFinal(delivered) => d # e + 1
    BY <1>1, <1>4, <1>6, <1>10 DEF HasFinal
  <2>3. e < MaxFragments
    BY <1>1, <1>5, <1>6, <2>2, FragmentsAssumption
  <2> QED
    BY <1>8, <2>1, <2>3 DEF e
<1> QED
  BY <1>9, <1>10

\* What the collector observes is a token stream, as long as the JVM takes
\* every token: each step of the composition emits its next token, ends it, or
\* leaves it alone.
THEOREM FlowRefinesTokenStream == ClientSpec => EmitsTokenStream
<1>1. ClientInit => EmittedStream!StreamInit
  BY DEF ClientInit, EmittedStream!StreamInit
<1>2. ClientInv /\ FlowInv /\ [ClientNext]_<<vars, clientVars>>
        => [jvmFailed \/ EmittedStream!StreamNext]_(EmittedStream!streamVars)
  <2> SUFFICES ASSUME ClientInv, FlowInv, [ClientNext]_<<vars, clientVars>>, ~jvmFailed
      PROVE  EmittedStream!StreamNext \/ UNCHANGED EmittedStream!streamVars
    OBVIOUS
  <2>1. CASE Emit
    <3>1. /\ emitted' = Append(emitted, Head(buffer)) /\ buffer # <<>>
          /\ flow = "collecting" /\ flow' = "collecting"
      BY <2>1 DEF Emit
    <3> QED
      BY <3>1, NextEmitted
      DEF EmittedStream!StreamNext, EmittedStream!Emit, EmittedStream!HasFinal, HasFinal,
          EmittedStream!Fragment, Fragment, EmittedStream!Final, Final
  <2>2. ASSUME UNCHANGED emitted, flow' = "ended"
        PROVE  EmittedStream!StreamNext \/ UNCHANGED EmittedStream!streamVars
    BY <2>2 DEF EmittedStream!StreamNext, EmittedStream!Close, EmittedStream!streamVars,
                EmittedStream!HasFinal, HasFinal
  <2>3. ASSUME UNCHANGED emitted, flow # "ended", flow' # "ended"
        PROVE  UNCHANGED EmittedStream!streamVars
    BY <2>3 DEF EmittedStream!streamVars
  <2>4. ASSUME UNCHANGED <<emitted, flow>>
        PROVE  UNCHANGED EmittedStream!streamVars
    BY <2>4 DEF EmittedStream!streamVars, HasFinal
  <2>5. CASE Engine \/ OnToken \/ TokenLost \/ CancelJob \/ UNCHANGED <<vars, clientVars>>
    <3>1. UNCHANGED <<emitted, flow>>
      BY <2>5 DEF Engine, OnToken, TokenLost, CancelJob, clientVars
    <3> QED
      BY <2>4, <3>1
  <2>6. CASE Start
    BY <2>2, <2>3, <2>6 DEF Start, SessionStarted, SessionRefused, StartReturns
  <2>7. CASE LoopEnds \/ LoopCanceled
    BY <2>3, <2>7 DEF LoopEnds, LoopCanceled
  <2>8. CASE Cleanup
    BY <2>2, <2>3, <2>8 DEF Cleanup, CleanupCancel, CleanupFree, CleanupReturns
  <2> QED
    BY <2>1, <2>5, <2>6, <2>7, <2>8 DEF ClientNext, Loop
<1> QED
  BY <1>1, <1>2, ClientInvariant, FlowInvariant, PTL DEF ClientSpec, EmitsTokenStream

=============================================================================
