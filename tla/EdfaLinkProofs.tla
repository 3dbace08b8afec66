---------------------------- MODULE EdfaLinkProofs ----------------------------
(***************************************************************************)
(* The EDFA serial controller, for every number of operations and of       *)
(* requests and answers that are refused, lost, late or torn: types, that  *)
(* an output confirmed off is off as long as no more than two of them      *)
(* were, and that a disconnect turns the output off before it closes the   *)
(* port, unless the request got lost.                                      *)
(***************************************************************************)
EXTENDS EdfaLink, TLAPS

\* What the proofs need of sequences.
LEMMA TailOf ==
  ASSUME NEW S, NEW s \in Seq(S), s # <<>>
  PROVE  /\ Tail(s) \in Seq(S) /\ Len(Tail(s)) = Len(s) - 1 /\ Len(s) \in Nat /\ Len(s) >= 1
         /\ Head(s) = s[1] /\ Head(s) \in S
         /\ \A i \in 1..(Len(s) - 1) : Tail(s)[i] = s[i + 1]
OBVIOUS

\* One element more.
LEMMA AppendOf ==
  ASSUME NEW S, NEW s \in Seq(S), NEW a \in S
  PROVE  /\ Append(s, a) \in Seq(S) /\ Len(Append(s, a)) = Len(s) + 1 /\ Len(s) \in Nat
         /\ \A i \in 1..Len(s) : Append(s, a)[i] = s[i]
         /\ Append(s, a)[Len(s) + 1] = a
OBVIOUS

\* The first element replaced.
LEMMA FirstReplaced ==
  ASSUME NEW S, NEW s \in Seq(S), s # <<>>, NEW a \in S
  PROVE  /\ [s EXCEPT ![1] = a] \in Seq(S) /\ Len([s EXCEPT ![1] = a]) = Len(s)
         /\ [s EXCEPT ![1] = a][1] = a
         /\ \A i \in 2..Len(s) : [s EXCEPT ![1] = a][i] = s[i]
OBVIOUS

\* The last element alone.
LEMMA LastOf ==
  ASSUME NEW S, NEW s \in Seq(S), s # <<>>
  PROVE  /\ <<s[Len(s)]>> \in Seq(S) /\ Len(<<s[Len(s)]>>) = 1
         /\ Len(s) \in 1..Len(s) /\ <<s[Len(s)]>>[1] = s[Len(s)]
OBVIOUS

\* Of two answers one is left, and the other way round.
LEMMA OneLess ==
  /\ \A m, n \in Nat : m = n + 1 /\ m = 2 => n = 1
  /\ \A m, n \in Nat : m = n - 1 /\ m = 1 => n = 2
OBVIOUS

\* The scripts are sequences of requests,
LEMMA ScriptsTyped ==
  /\ Queries \in Seq(Requests) /\ Enable \in Seq(Requests)
  /\ Off \in Seq(Requests) /\ <<>> \in Seq(Requests)
BY DEF Queries, Enable, Off, Requests, Activations

\* ... and what they are answered is an answer.
LEMMA AnswersTyped ==
  /\ Torn \in Answers
  /\ \A r \in Requests, v \in BOOLEAN : [about |-> About(r), value |-> v] \in Answers
BY DEF Torn, Answers, About, Requests, Activations
-----------------------------------------------------------------------------
\* What each variable may hold.
EdfaTypes ==
  /\ open \in BOOLEAN /\ outputEnabled \in BOOLEAN
  /\ operation \in {"none", "connect", "enable", "off", "disconnect", "close"}
  /\ requests \in Seq(Requests) /\ polled \in -1..3
  /\ pending \in Requests \cup {"none"}
  /\ answers \in Seq(Answers)
  /\ emitting \in BOOLEAN /\ confirmed \in Activations \cup {"none"} /\ offLost \in BOOLEAN
  /\ operations \in 0..MaxOperations /\ noise \in 0..MaxNoise

\* The request that is pending is the next of the poll, or else of the operation.
Owner ==
  pending # "none" =>
    \/ polled >= 0 /\ pending = Queries[polled + 1]
    \/ polled = -1 /\ requests # <<>> /\ pending = Head(requests)

\* A closed port has no operation and no poll, and a poll is no part of opening it.
Scripts ==
  /\ ~open => operation = "none" /\ polled = -1
  /\ operation \in {"connect", "disconnect", "close"} => polled = -1

\* Each answer left unread has cost a disturbance.
Unread == Len(answers) <= noise + (IF pending = "none" THEN 0 ELSE 1)

\* An answer that says the output is off.
SaysOff(answer) == answer.about = "activation" /\ ~answer.value

\* With at most one disturbance such an answer outlives the end of the emission's being
\* off only before the request that turned it on, which does not take it; and none waits
\* for an off that got lost, if that was the second.
NoOld ==
  /\ noise <= 1 /\ emitting =>
       \A i \in 1..Len(answers) : SaysOff(answers[i]) => i = 1 /\ noise = 1 /\ pending = "on"
  /\ noise <= 2 /\ emitting /\ pending = "off" =>
       \A i \in 1..Len(answers) : ~SaysOff(answers[i])

\* The inductive invariant.
EdfaInv == EdfaTypes /\ Owner /\ Scripts /\ Unread /\ NoOld /\ ConfirmedMeansOff
-----------------------------------------------------------------------------
\* The invariant starts out true.
LEMMA EdfaStart == EdfaInit => EdfaInv
<1> SUFFICES ASSUME EdfaInit PROVE EdfaInv
  OBVIOUS
<1>1. EdfaTypes
  <2>1. <<>> \in Seq(Answers) /\ <<>> \in Seq(Requests)
    OBVIOUS
  <2>2. 0 \in 0..MaxOperations /\ 0 \in 0..MaxNoise /\ -1 \in -1..3
    BY EdfaAssumption
  <2> QED
    BY <2>1, <2>2 DEF EdfaInit, EdfaTypes
<1>2. Len(answers) = 0
  BY DEF EdfaInit
<1> QED
  BY <1>1, <1>2, EdfaAssumption
  DEF EdfaInit, EdfaInv, Owner, Scripts, Unread, NoOld, ConfirmedMeansOff

\* Nobody waits, and the answers are some of those there were: none is old.
LEMMA NoneOld ==
  ASSUME EdfaInv, pending = "none", pending' = "none", noise' \in Nat, noise <= noise',
         noise \in Nat, emitting' = emitting,
         \A i \in 1..Len(answers') : \E j \in 1..Len(answers) :
           answers'[i] = answers[j]
  PROVE  NoOld'
<1>1. noise <= 1 /\ emitting => \A j \in 1..Len(answers) : ~SaysOff(answers[j])
  BY DEF EdfaInv, NoOld
<1>2. noise' <= 1 /\ emitting' => \A i \in 1..Len(answers') : ~SaysOff(answers'[i])
  BY <1>1
<1>3. noise' <= 1 /\ emitting' => \A i \in 1..Len(answers') : ~SaysOff(answers[i])'
  BY <1>2 DEF SaysOff
<1> QED
  BY <1>3 DEF NoOld

\* An operation begins.
LEMMA Begins ==
  ASSUME EdfaInv, BeginConnect \/ BeginEnable \/ BeginOff \/ BeginDisconnect
  PROVE  EdfaInv'
<1>t. EdfaTypes /\ Len(answers) \in Nat /\ noise \in Nat /\ MaxNoise \in Nat
  BY EdfaAssumption DEF EdfaInv, EdfaTypes
<1>1. /\ operation = "none" /\ pending = "none" /\ pending' = "none" /\ polled' = polled
      /\ operations' = operations + 1 /\ operations < MaxOperations
      /\ outputEnabled' = outputEnabled /\ emitting' = emitting /\ confirmed' = confirmed
      /\ offLost' = FALSE /\ open' = TRUE
      /\ operation' \in {"connect", "enable", "off", "disconnect"}
      /\ requests' \in {Queries, Enable, Off}
  BY <1>t DEF BeginConnect, BeginEnable, BeginOff, BeginDisconnect, Operation, OffFirst, EdfaTypes
<1>3. operation' \in {"connect", "disconnect"} => polled = -1
  BY DEF BeginConnect, BeginEnable, BeginOff, BeginDisconnect, Operation, EdfaInv, Scripts
<1>4. \/ answers' = answers /\ noise' = noise
      \/ answers' = <<>> /\ noise' = noise
      \/ /\ answers # <<>> /\ answers' = <<answers[Len(answers)]>>
         /\ noise' = noise + 1 /\ noise < MaxNoise
  BY DEF BeginConnect, BeginEnable, BeginOff, BeginDisconnect, Noise
<1>5. Len(answers) <= noise
  BY <1>1, <1>t DEF EdfaInv, Unread
<1>6. /\ answers' \in Seq(Answers) /\ Len(answers') <= noise'
      /\ noise' \in 0..MaxNoise /\ noise <= noise'
      /\ \A i \in 1..Len(answers') : \E j \in 1..Len(answers) : answers'[i] = answers[j]
  <2>1. CASE answers' = answers /\ noise' = noise
    BY <2>1, <1>t, <1>5 DEF EdfaTypes
  <2>2. CASE answers' = <<>> /\ noise' = noise
    BY <2>2, <1>t, <1>5 DEF EdfaTypes
  <2>3. CASE /\ answers # <<>> /\ answers' = <<answers[Len(answers)]>>
             /\ noise' = noise + 1 /\ noise < MaxNoise
    BY <2>3, <1>t, LastOf DEF EdfaTypes
  <2> QED
    BY <1>4, <2>1, <2>2, <2>3
<1>7. NoOld'
  BY <1>1, <1>t, <1>6, NoneOld
<1>8. EdfaTypes'
  <2>1. requests' \in Seq(Requests)
    BY <1>1, ScriptsTyped
  <2>2. operations' \in 0..MaxOperations
    BY <1>1, <1>t, EdfaAssumption DEF EdfaTypes
  <2> QED
    BY <1>1, <1>6, <1>t, <2>1, <2>2 DEF EdfaTypes
<1>9. Owner' /\ Scripts'
  BY <1>1, <1>3 DEF Owner, Scripts
<1>10. Unread' /\ ConfirmedMeansOff'
  BY <1>1, <1>6, <1>t DEF EdfaInv, Unread, ConfirmedMeansOff
<1> QED
  BY <1>7, <1>8, <1>9, <1>10 DEF EdfaInv

\* A poll begins or an operation returns.
LEMMA Returns ==
  ASSUME EdfaInv, PollBegins \/ Return
  PROVE  EdfaInv'
<1>t. EdfaTypes /\ Len(answers) \in Nat /\ noise \in Nat
  BY EdfaAssumption DEF EdfaInv, EdfaTypes
<1>1. /\ pending = "none" /\ pending' = "none" /\ answers' = answers /\ noise' = noise
      /\ emitting' = emitting /\ operations' = operations /\ offLost' = offLost
      /\ confirmed' \in {confirmed, "none"}
  BY DEF PollBegins, Return, Closes
<1>2. requests' \in {requests, Off, <<>>}
  BY DEF PollBegins, Return, OffBeforeClose
<1>3. NoOld'
  BY <1>1, <1>t, NoneOld
<1>4. /\ open' \in BOOLEAN /\ outputEnabled' \in BOOLEAN /\ polled' \in -1..3
      /\ operation' \in {"none", "connect", "enable", "off", "disconnect", "close"}
  <2>1. open' \in BOOLEAN /\ outputEnabled' \in BOOLEAN
    BY <1>t DEF PollBegins, Return, Closes, EdfaTypes
  <2>2. polled' = 0 \/ polled' = polled
    BY DEF PollBegins, Return
  <2>3. operation' \in {operation, "none", "close"}
    BY DEF PollBegins, Return
  <2> QED
    BY <1>t, <2>1, <2>2, <2>3 DEF EdfaTypes
<1>5. EdfaTypes'
  BY <1>1, <1>2, <1>4, <1>t, ScriptsTyped DEF EdfaTypes
<1>6. Scripts'
  BY <1>t DEF EdfaInv, PollBegins, Return, Closes, Scripts, EdfaTypes
<1>7. Unread' /\ ConfirmedMeansOff' /\ Owner'
  BY <1>1, <1>t DEF EdfaInv, Unread, ConfirmedMeansOff, Owner
<1> QED
  BY <1>3, <1>5, <1>6, <1>7 DEF EdfaInv

\* A request is written.
LEMMA WritesOne ==
  ASSUME EdfaInv, NEW r \in Requests,
         Request(r) \/ RequestRefused(r) \/ RequestLost(r) \/ AnswerIsLost(r)
  PROVE  EdfaInv'
<1>t. EdfaTypes /\ Len(answers) \in Nat /\ noise \in Nat /\ MaxNoise \in Nat
  BY EdfaAssumption DEF EdfaInv, EdfaTypes
<1>n. r # "none"
  BY DEF Requests, Activations
<1>1. /\ pending = "none" /\ pending' = r /\ Due(r)
      /\ confirmed' = (IF r \in Activations THEN "none" ELSE confirmed)
      /\ open' = open /\ outputEnabled' = outputEnabled /\ operation' = operation
      /\ requests' = requests /\ polled' = polled /\ operations' = operations
  BY DEF Request, RequestRefused, RequestLost, AnswerIsLost, Writes, callers
<1>2. Owner' /\ Scripts'
  BY <1>1, <1>t DEF EdfaInv, Owner, Due, Scripts, EdfaTypes
<1>3. noise' \in 0..MaxNoise /\ (noise' = noise \/ noise' = noise + 1)
  <2>1. noise' = noise \/ (noise < MaxNoise /\ noise' = noise + 1)
    BY DEF Request, RequestRefused, RequestLost, AnswerIsLost, Noise
  <2> QED
    BY <2>1, <1>t DEF EdfaTypes
<1>4. /\ offLost' \in BOOLEAN /\ emitting' \in BOOLEAN
      /\ r \notin Activations => emitting' = emitting
  BY <1>t, Zenon DEF Request, RequestRefused, RequestLost, AnswerIsLost, Obeys, EdfaTypes,
    Requests, Activations
<1>5. \/ answers' = answers /\ noise' = noise + 1
      \/ \E v \in BOOLEAN : answers' = Append(answers, [about |-> About(r), value |-> v])
  BY <1>t, <1>4 DEF Request, RequestRefused, RequestLost, AnswerIsLost, Reply, Noise, EdfaTypes
<1>6. answers' \in Seq(Answers) /\ Len(answers') <= noise' + 1
  <2>1. Len(answers) <= noise
    BY <1>1, <1>t DEF EdfaInv, Unread
  <2>2. CASE answers' = answers /\ noise' = noise + 1
    BY <2>1, <2>2, <1>t DEF EdfaTypes
  <2>3. CASE \E v \in BOOLEAN : answers' = Append(answers, [about |-> About(r), value |-> v])
    <3>1. PICK v \in BOOLEAN : answers' = Append(answers, [about |-> About(r), value |-> v])
      BY <2>3
    <3>2. [about |-> About(r), value |-> v] \in Answers
      BY AnswersTyped
    <3>3. answers' \in Seq(Answers) /\ Len(answers') = Len(answers) + 1
      BY <3>1, <3>2, <1>t, AppendOf DEF EdfaTypes
    <3> QED
      BY <3>3, <2>1, <1>3, <1>t
  <2> QED
    BY <1>5, <2>2, <2>3
<1>7. EdfaTypes' /\ Unread'
  BY <1>1, <1>t, <1>3, <1>4, <1>6, <1>n DEF EdfaTypes, Unread, Activations
<1>8. ConfirmedMeansOff'
  BY <1>1, <1>3, <1>4, <1>t DEF EdfaInv, ConfirmedMeansOff
<1>9. NoOld'
  <2>1. Len(answers) <= noise /\ (noise <= 1 /\ emitting =>
          \A i \in 1..Len(answers) : ~SaysOff(answers[i]))
    BY <1>1, <1>t DEF EdfaInv, Unread, NoOld
  <2>2. ASSUME noise' <= 1, emitting', NEW i \in 1..Len(answers'), SaysOff(answers'[i])
        PROVE  i = 1 /\ noise' = 1 /\ r = "on"
    <3>1. CASE Request(r)
      <4>1. /\ noise' = noise /\ Len(answers) <= noise
            /\ emitting' = (IF r \in Activations THEN r = "on" ELSE emitting)
        BY <2>1, <3>1 DEF Request, Obeys
      <4> DEFINE a == [about |-> About(r),
                       value |-> IF About(r) = "activation" THEN emitting' ELSE TRUE]
      <4>2. answers' = Append(answers, a)
        BY <3>1 DEF Request, Reply
      <4>3. a \in Answers /\ ~SaysOff(a)
        BY <2>2, <1>4, AnswersTyped DEF SaysOff
      <4> HIDE DEF a
      <4>4. i \in 1..Len(answers) /\ answers'[i] = answers[i]
        BY <4>2, <4>3, <2>2, <1>t, AppendOf DEF EdfaTypes
      <4>5. i = 1 /\ noise' = 1
        BY <4>1, <4>4, <2>2, <1>t
      <4>6. r = "on" \/ emitting
        BY <4>1, <2>2
      <4> QED
        BY <4>4, <4>5, <4>6, <4>1, <2>1, <2>2
    <3>2. CASE RequestRefused(r)
      <4>0. noise' = noise + 1 /\ emitting' = emitting
        BY <3>2, Zenon DEF RequestRefused, Noise
      <4>1. noise = 0 /\ Len(answers) = 0
        <5>1. noise' <= 1 /\ noise' = noise + 1 /\ Len(answers) <= noise
          BY <2>1, <2>2, <4>0
        <5> QED
          BY <5>1, <1>t
      <4> DEFINE a == [about |-> About(r), value |-> IF r = "on" THEN emitting ELSE FALSE]
      <4>2. answers' = Append(answers, a)
        BY <3>2 DEF RequestRefused, Reply
      <4>3. a \in Answers /\ ~SaysOff(a)
        <5>1. r \in {"on", "set mode", "set power"}
          BY <3>2 DEF RequestRefused
        <5> QED
          BY <5>1, <2>2, <4>0, <1>4, AnswersTyped DEF SaysOff, About, Activations
      <4> HIDE DEF a
      <4>4. i = 1 /\ answers'[i] = a
        BY <4>1, <4>2, <4>3, <2>2, <1>t, AppendOf DEF EdfaTypes
      <4> QED
        BY <4>3, <4>4, <2>2
    <3>3. CASE RequestLost(r) \/ AnswerIsLost(r)
      <4>0. noise' = noise + 1 /\ answers' = answers
        BY <3>3, Zenon DEF RequestLost, AnswerIsLost, Noise
      <4>1. noise = 0 /\ Len(answers) = 0 /\ answers' = answers
        BY <2>1, <2>2, <4>0, <1>t
      <4> QED
        BY <4>1, <2>2
    <3> QED
      BY <3>1, <3>2, <3>3
  <2>3. ASSUME noise' <= 2, emitting', r = "off", NEW i \in 1..Len(answers')
        PROVE  ~SaysOff(answers'[i])
    <3>1. ~Request(r) /\ ~AnswerIsLost(r) /\ ~RequestRefused(r)
      BY <2>3 DEF Request, AnswerIsLost, RequestRefused, Obeys, Activations
    <3>0. noise' = noise + 1 /\ emitting' = emitting /\ answers' = answers
      BY <3>1, Zenon DEF RequestLost, Noise
    <3>2. noise <= 1 /\ emitting /\ answers' = answers
      BY <2>3, <3>0, <1>t
    <3> QED
      BY <3>2, <2>1, <2>3
  <2>4. (noise <= 1 /\ emitting =>
       \A i \in 1..Len(answers) : SaysOff(answers[i]) => i = 1 /\ noise = 1 /\ pending = "on")'
    BY <2>2, <1>1 DEF SaysOff
  <2>5. (noise <= 2 /\ emitting /\ pending = "off" =>
       \A i \in 1..Len(answers) : ~SaysOff(answers[i]))'
    BY <2>3, <1>1 DEF SaysOff
  <2> QED
    BY <2>4, <2>5 DEF NoOld
<1> QED
  BY <1>2, <1>7, <1>8, <1>9 DEF EdfaInv

\* Its answer is read.
LEMMA ReadsOne ==
  ASSUME EdfaInv, ReadsAnswer
  PROVE  EdfaInv'
<1>t. EdfaTypes /\ Len(answers) \in Nat /\ noise \in Nat /\ MaxNoise \in Nat
  BY EdfaAssumption DEF EdfaInv, EdfaTypes
<1>1. /\ pending # "none" /\ pending' = "none" /\ answers # <<>> /\ Fits(Head(answers))
      /\ answers' = Tail(answers) /\ open' = open /\ operation' = operation
      /\ operations' = operations /\ emitting' = emitting /\ offLost' = offLost
      /\ noise' = noise
      /\ confirmed' = (IF pending \in Activations THEN pending ELSE confirmed)
  BY DEF ReadsAnswer
<1>2. /\ answers' \in Seq(Answers) /\ Len(answers') = Len(answers) - 1 /\ Len(answers) >= 1
      /\ Head(answers) = answers[1] /\ Head(answers) \in Answers
      /\ \A i \in 1..(Len(answers) - 1) : answers'[i] = answers[i + 1]
  BY <1>1, <1>t, TailOf DEF EdfaTypes
<1>3. outputEnabled' \in BOOLEAN
  BY <1>2, <1>t DEF ReadsAnswer, Answers, EdfaTypes
<1>4. polled' \in -1..3 /\ requests' \in Seq(Requests) /\ (polled = -1 => polled' = -1)
  <2>1. CASE polled >= 0
    BY <2>1, <1>t DEF ReadsAnswer, EdfaTypes
  <2>2. CASE ~(polled >= 0)
    <3>1. requests # <<>> /\ requests' = Tail(requests) /\ polled' = polled
      BY <2>2, <1>1 DEF ReadsAnswer, EdfaInv, Owner
    <3> QED
      BY <3>1, <1>t, TailOf DEF EdfaTypes
  <2> QED
    BY <2>1, <2>2
<1>5. EdfaTypes'
  BY <1>1, <1>2, <1>3, <1>4, <1>t DEF EdfaTypes
<1>6. Owner' /\ Scripts'
  BY <1>1, <1>4 DEF EdfaInv, Owner, Scripts
<1>7. Unread'
  BY <1>1, <1>2, <1>t DEF EdfaInv, Unread
<1>8. NoOld'
  <2>1. ASSUME noise <= 1, emitting, NEW i \in 1..Len(answers')
        PROVE  ~SaysOff(answers'[i])
    <3>1. i + 1 \in 1..Len(answers) /\ answers'[i] = answers[i + 1] /\ i + 1 # 1
      BY <1>2, <1>t
    <3> QED
      BY <3>1, <2>1 DEF EdfaInv, NoOld
  <2>2. (noise <= 1 /\ emitting =>
       \A i \in 1..Len(answers) : SaysOff(answers[i]) => i = 1 /\ noise = 1 /\ pending = "on")'
    BY <2>1, <1>1 DEF SaysOff
  <2> QED
    BY <2>2, <1>1 DEF NoOld
<1>9. ConfirmedMeansOff'
  <2>1. CASE pending = "off"
    <3>1. SaysOff(answers[1]) /\ 1 \in 1..Len(answers)
      BY <2>1, <1>1, <1>2, <1>t DEF Fits, About, Activations, SaysOff
    <3> QED
      BY <3>1, <2>1, <1>1 DEF EdfaInv, NoOld, ConfirmedMeansOff
  <2>2. CASE pending # "off"
    BY <2>2, <1>1 DEF EdfaInv, ConfirmedMeansOff, Activations
  <2> QED
    BY <2>1, <2>2
<1> QED
  BY <1>5, <1>6, <1>7, <1>8, <1>9 DEF EdfaInv

\* What a failing request leaves of the answers: each is one of those there were, but not
\* the first unless the failure is a disturbance itself, or it is torn.
LEMMA FailureLeaves ==
  ASSUME EdfaTypes, Unread, pending # "none", ReadsOther \/ TimesOut
  PROVE  /\ answers' \in Seq(Answers) /\ noise' \in 0..MaxNoise /\ noise <= noise'
         /\ Len(answers') <= noise'
         /\ \A i \in 1..Len(answers') :
              \/ answers'[i] = Torn
              \/ \E j \in 1..Len(answers) :
                   answers'[i] = answers[j] /\ (noise' = noise => j # 1)
<1>t. /\ Len(answers) \in Nat /\ noise \in Nat /\ MaxNoise \in Nat /\ answers \in Seq(Answers)
      /\ noise \in 0..MaxNoise /\ Torn \in Answers /\ Len(answers) <= noise + 1
  BY EdfaAssumption, AnswersTyped DEF EdfaTypes, Unread
<1>1. CASE answers = <<>> /\ answers' = answers /\ noise' = noise
  BY <1>1, <1>t
<1>2. CASE answers # <<>> /\ answers' = Tail(answers) /\ noise' = noise
  <2>1. /\ answers' \in Seq(Answers) /\ Len(answers') = Len(answers) - 1
        /\ \A i \in 1..(Len(answers) - 1) : answers'[i] = answers[i + 1]
    BY <1>2, <1>t, TailOf
  <2>2. ASSUME NEW i \in 1..Len(answers')
        PROVE  i + 1 \in 1..Len(answers) /\ answers'[i] = answers[i + 1] /\ i + 1 # 1
    BY <2>1, <1>t
  <2> QED
    BY <1>2, <2>1, <2>2, <1>t
<1>3. CASE answers # <<>> /\ answers' = answers /\ noise' = noise + 1 /\ noise < MaxNoise
  BY <1>3, <1>t
<1>4. CASE /\ answers # <<>> /\ answers' = [answers EXCEPT ![1] = Torn]
           /\ noise' = noise + 1 /\ noise < MaxNoise
  <2>1. /\ answers' \in Seq(Answers) /\ Len(answers') = Len(answers) /\ answers'[1] = Torn
        /\ \A i \in 2..Len(answers) : answers'[i] = answers[i]
    BY <1>4, <1>t, FirstReplaced
  <2>2. ASSUME NEW i \in 1..Len(answers')
        PROVE  answers'[i] = Torn \/ (i \in 1..Len(answers) /\ answers'[i] = answers[i])
    <3>1. i = 1 \/ i \in 2..Len(answers)
      BY <2>1, <1>t
    <3> QED
      BY <3>1, <2>1, <1>t
  <2>3. noise' # noise /\ noise' \in 0..MaxNoise /\ noise <= noise' /\ Len(answers') <= noise'
    BY <1>4, <2>1, <1>t
  <2> QED
    BY <2>1, <2>2, <2>3
<1>5. CASE /\ answers # <<>> /\ Len(answers) > 1
           /\ answers' = [Tail(answers) EXCEPT ![1] = Torn] /\ noise' = noise
  <2> DEFINE t == Tail(answers)
  <2>1. /\ t \in Seq(Answers) /\ Len(t) = Len(answers) - 1
        /\ \A i \in 1..(Len(answers) - 1) : t[i] = answers[i + 1]
    BY <1>5, <1>t, TailOf
  <2>2. answers' = [t EXCEPT ![1] = Torn]
    BY <1>5
  <2> HIDE DEF t
  <2>3. t # <<>>
    BY <2>1, <1>5, <1>t
  <2>4. /\ answers' \in Seq(Answers) /\ Len(answers') = Len(t) /\ answers'[1] = Torn
        /\ \A i \in 2..Len(t) : answers'[i] = t[i]
    BY <2>1, <2>2, <2>3, <1>t, FirstReplaced
  <2>5. ASSUME NEW i \in 1..Len(answers')
        PROVE  \/ answers'[i] = Torn
               \/ i + 1 \in 1..Len(answers) /\ answers'[i] = answers[i + 1] /\ i + 1 # 1
    <3>1. i = 1 \/ i \in 2..Len(t)
      BY <2>4, <2>1, <1>t
    <3> QED
      BY <3>1, <2>1, <2>4, <1>t
  <2>6. Len(answers') <= noise' /\ noise' \in 0..MaxNoise /\ noise <= noise'
    BY <1>5, <2>1, <2>4, <1>t
  <2> QED
    BY <2>4, <2>5, <2>6
<1> QED
  BY <1>1, <1>2, <1>3, <1>4, <1>5 DEF ReadsOther, TimesOut, Noise

\* A request fails.
LEMMA FailsOne ==
  ASSUME EdfaInv, Fails
  PROVE  EdfaInv'
<1>t. EdfaTypes /\ Len(answers) \in Nat /\ noise \in Nat /\ MaxNoise \in Nat
  BY EdfaAssumption DEF EdfaInv, EdfaTypes
<1>1. /\ pending # "none" /\ pending' = "none" /\ operations' = operations
      /\ emitting' = emitting /\ offLost' = offLost /\ (ReadsOther \/ TimesOut)
      /\ confirmed' \in {confirmed, "none"} /\ polled' \in {polled, -1}
      /\ requests' \in {requests, Off, <<>>} /\ operation' \in {operation, "none", "off"}
  BY DEF Fails
<1>2. /\ answers' \in Seq(Answers) /\ noise' \in 0..MaxNoise /\ noise <= noise'
      /\ Len(answers') <= noise'
      /\ \A i \in 1..Len(answers') :
           \/ answers'[i] = Torn
           \/ \E j \in 1..Len(answers) :
                answers'[i] = answers[j] /\ (noise' = noise => j # 1)
  BY <1>1, FailureLeaves DEF EdfaInv
<1>3. open' \in BOOLEAN /\ outputEnabled' \in BOOLEAN
  BY <1>t DEF Fails, EdfaTypes
<1>4. EdfaTypes'
  <2>1. polled' \in -1..3
    <3>1. polled \in -1..3 /\ polled' \in {polled, -1}
      BY <1>1, <1>t DEF EdfaTypes
    <3> QED
      BY <3>1
  <2>4. requests' \in Seq(Requests)
    <3>1. requests \in Seq(Requests) /\ requests' \in {requests, Off, <<>>}
      BY <1>1, <1>t DEF EdfaTypes
    <3> QED
      BY <3>1, ScriptsTyped, Zenon
  <2>2. /\ operation' \in {"none", "connect", "enable", "off", "disconnect", "close"}
        /\ confirmed' \in Activations \cup {"none"} /\ pending' \in Requests \cup {"none"}
    BY <1>1, <1>t DEF EdfaTypes
  <2>3. emitting' \in BOOLEAN /\ offLost' \in BOOLEAN /\ operations' \in 0..MaxOperations
    BY <1>1, <1>t DEF EdfaTypes
  <2> QED
    BY <1>2, <1>3, <2>1, <2>2, <2>3, <2>4 DEF EdfaTypes
<1>5. Scripts'
  BY <1>1, <1>t DEF EdfaInv, Fails, Scripts, EdfaTypes
<1>6. Owner' /\ Unread'
  BY <1>1, <1>2 DEF Owner, Unread
<1>7. ConfirmedMeansOff'
  BY <1>1, <1>2, <1>t DEF EdfaInv, ConfirmedMeansOff
<1>8. NoOld'
  <2>1. ASSUME noise' <= 1, emitting, NEW i \in 1..Len(answers')
        PROVE  ~SaysOff(answers'[i])
    <3>1. CASE answers'[i] = Torn
      BY <3>1 DEF Torn, SaysOff
    <3>2. CASE \E j \in 1..Len(answers) :
                 answers'[i] = answers[j] /\ (noise' = noise => j # 1)
      <4>1. PICK j \in 1..Len(answers) : answers'[i] = answers[j] /\ (noise' = noise => j # 1)
        BY <3>2
      <4>2. SaysOff(answers[j]) => j = 1 /\ noise = 1
        BY <2>1, <1>2, <1>t DEF EdfaInv, NoOld
      <4>3. noise = 1 => noise' = noise
        BY <2>1, <1>2, <1>t
      <4> QED
        BY <4>1, <4>2, <4>3
    <3> QED
      BY <3>1, <3>2, <1>2
  <2>2. (noise <= 1 /\ emitting =>
       \A i \in 1..Len(answers) : SaysOff(answers[i]) => i = 1 /\ noise = 1 /\ pending = "on")'
    BY <2>1, <1>1 DEF SaysOff
  <2> QED
    BY <2>2, <1>1 DEF NoOld
<1> QED
  BY <1>4, <1>5, <1>6, <1>7, <1>8 DEF EdfaInv

\* Every step keeps it.
LEMMA EdfaStep == EdfaInv /\ [EdfaNext]_edfaVars => EdfaInv'
<1> SUFFICES ASSUME EdfaInv, [EdfaNext]_edfaVars PROVE EdfaInv'
  OBVIOUS
<1>1. CASE UNCHANGED edfaVars
  BY <1>1 DEF EdfaInv, EdfaTypes, Owner, Scripts, Unread, NoOld, SaysOff, ConfirmedMeansOff,
    edfaVars, callers
<1>2. CASE EdfaNext
  BY <1>2, Begins, Returns, WritesOne, ReadsOne, FailsOne DEF EdfaNext
<1> QED
  BY <1>1, <1>2

\* It is an invariant.
LEMMA EdfaInvariant == EdfaSpec => []EdfaInv
BY EdfaStart, EdfaStep, PTL DEF EdfaSpec

\* Types hold: one request is pending at a time, a poll asks for four readings, and each answer
\* left in the port has cost a disturbance (EdfaSerialController).
THEOREM EdfaTypesHold == EdfaSpec => []EdfaTypeOK
<1>1. EdfaInv => EdfaTypeOK
  <2> SUFFICES ASSUME EdfaInv PROVE EdfaTypeOK
    OBVIOUS
  <2>1. Len(answers) <= MaxNoise + 1
    BY EdfaAssumption DEF EdfaInv, EdfaTypes, Unread
  <2> QED
    BY <2>1 DEF EdfaInv, EdfaTypes, EdfaTypeOK
<1> QED
  BY <1>1, EdfaInvariant, PTL

\* An output confirmed off is off, whatever the poll read in between, as long as no more than
\* two requests or answers were refused, lost, late or torn (setOutputEnabled).
THEOREM ConfirmedOffIsOff == EdfaSpec => []ConfirmedMeansOff
<1>1. EdfaInv => ConfirmedMeansOff
  BY DEF EdfaInv
<1> QED
  BY <1>1, EdfaInvariant, PTL
-----------------------------------------------------------------------------
\* Connecting asks for the status, the mode, the power and the activation in turn. What an
\* earlier connection left to read is gone when the activation is asked for, so that the
\* output is believed to be what it is.
AfterStatus == <<"mode", "power", "activation">>
AfterMode == <<"power", "activation">>
AfterPower == <<"activation">>

AsksStatus ==
  /\ requests = Queries
  /\ \/ pending = "none" /\ Len(answers) <= 1
     \/ /\ pending = "status" /\ Len(answers) <= 2
        /\ Len(answers) = 2 => answers[2].about = "status"
AsksMode ==
  /\ requests = AfterStatus
  /\ \/ pending = "none" /\ Len(answers) <= 1 /\ (Len(answers) = 1 => answers[1].about = "status")
     \/ /\ pending = "mode" /\ Len(answers) <= 2
        /\ Len(answers) = 2 => answers[1].about = "status"
AsksPower ==
  /\ requests = AfterMode
  /\ \/ pending = "none" /\ Len(answers) = 0
     \/ pending = "power" /\ Len(answers) <= 1
AsksActivation ==
  /\ requests = AfterPower
  /\ \/ pending = "none" /\ Len(answers) = 0
     \/ /\ pending = "activation" /\ Len(answers) <= 1
        /\ Len(answers) = 1 => answers[1].value = emitting
Asked == requests = <<>> /\ pending = "none" /\ outputEnabled = emitting

Connecting ==
  operation = "connect" => AsksStatus \/ AsksMode \/ AsksPower \/ AsksActivation \/ Asked

\* A disconnect has an off to send, or the output is off, or one got lost.
OffDue == requests = Off /\ pending = "none"
TurnsOff ==
  operation \in {"disconnect", "close"} =>
    /\ requests \in {Off, <<"reading">>, <<>>}
    /\ OffDue \/ ~emitting \/ offLost

\* The scripts, request by request.
LEMMA ScriptSteps ==
  /\ Queries # <<>> /\ Head(Queries) = "status" /\ Tail(Queries) = AfterStatus
  /\ AfterStatus # <<>> /\ Head(AfterStatus) = "mode" /\ Tail(AfterStatus) = AfterMode
  /\ AfterMode # <<>> /\ Head(AfterMode) = "power" /\ Tail(AfterMode) = AfterPower
  /\ AfterPower # <<>> /\ Head(AfterPower) = "activation" /\ Tail(AfterPower) = <<>>
  /\ Off # <<>> /\ Head(Off) = "off" /\ Tail(Off) = <<"reading">>
  /\ <<"reading">> # <<>> /\ Head(<<"reading">>) = "reading" /\ Tail(<<"reading">>) = <<>>
BY DEF Queries, AfterStatus, AfterMode, AfterPower, Off

\* What the answers to the requests are about.
LEMMA AboutWhat ==
  /\ About("status") = "status" /\ About("mode") = "mode" /\ About("power") = "power"
  /\ About("activation") = "activation"
  /\ \A r \in {"status", "mode", "power", "activation", "reading"} : r \notin Activations
BY DEF About, Activations

\* Connecting and TurnsOff start out true.
LEMMA ConnectingStart == EdfaInit => Connecting /\ TurnsOff
BY DEF EdfaInit, Connecting, TurnsOff

\* An operation begins,
LEMMA ConnectingBegins ==
  ASSUME EdfaInv, Connecting, TurnsOff,
         BeginConnect \/ BeginEnable \/ BeginOff \/ BeginDisconnect \/ PollBegins \/ Return
  PROVE  Connecting' /\ TurnsOff'
<1>t. EdfaTypes /\ Len(answers) \in Nat /\ answers \in Seq(Answers)
  BY DEF EdfaInv, EdfaTypes
<1>1. CASE BeginConnect
  <2>1. operation' = "connect" /\ requests' = Queries /\ pending' = "none"
    BY <1>1 DEF BeginConnect, Operation
  <2>2. Len(answers') <= 1
    <3>1. CASE answers' = <<>>
      BY <3>1
    <3>2. CASE answers # <<>> /\ answers' = <<answers[Len(answers)]>>
      BY <3>2, <1>t, LastOf
    <3> QED
      BY <1>1, <3>1, <3>2 DEF BeginConnect
  <2> QED
    BY <2>1, <2>2 DEF Connecting, TurnsOff, AsksStatus
<1>2. CASE BeginEnable \/ BeginOff
  BY <1>2 DEF BeginEnable, BeginOff, Operation, Connecting, TurnsOff
<1>3. CASE BeginDisconnect
  BY <1>3 DEF BeginDisconnect, Operation, OffFirst, OffDue, Connecting, TurnsOff
<1>4. CASE PollBegins
  BY <1>4 DEF PollBegins, Connecting, TurnsOff
<1>5. CASE Return
  <2>1. operation' = "none" \/ operation' = "close"
    BY <1>5 DEF Return
  <2>2. CASE operation' = "none"
    BY <2>2 DEF Connecting, TurnsOff
  <2>3. CASE operation' = "close"
    <3>1. /\ operation \in {"connect", "disconnect"} /\ requests' = OffBeforeClose
          /\ requests = <<>> /\ pending = "none" /\ pending' = "none"
          /\ emitting' = emitting /\ offLost' = offLost
      BY <1>5, <2>3 DEF Return
    <3>2. outputEnabled \/ ~emitting \/ offLost
      BY <3>1, ScriptSteps
      DEF Connecting, TurnsOff, OffDue, AsksStatus, AsksMode, AsksPower, AsksActivation, Asked
    <3>3. requests' \in {Off, <<>>} /\ (outputEnabled => requests' = Off)
      BY <3>1 DEF OffBeforeClose
    <3> QED
      BY <2>3, <3>1, <3>2, <3>3 DEF Connecting, TurnsOff, OffDue
  <2> QED
    BY <2>1, <2>2, <2>3
<1> QED
  BY <1>1, <1>2, <1>3, <1>4, <1>5

\* ... writes a request,
LEMMA ConnectingWrites ==
  ASSUME EdfaInv, Connecting, TurnsOff, NEW r \in Requests,
         Request(r) \/ RequestRefused(r) \/ RequestLost(r) \/ AnswerIsLost(r)
  PROVE  Connecting' /\ TurnsOff'
<1>t. EdfaTypes /\ Len(answers) \in Nat /\ answers \in Seq(Answers) /\ emitting \in BOOLEAN
  BY DEF EdfaInv, EdfaTypes
<1>1. /\ pending = "none" /\ pending' = r /\ Due(r) /\ outputEnabled' = outputEnabled
      /\ operation' = operation /\ requests' = requests /\ polled' = polled
  BY DEF Request, RequestRefused, RequestLost, AnswerIsLost, Writes, callers
<1>2. operation \in {"connect", "disconnect", "close"} => requests # <<>> /\ r = Head(requests)
  BY <1>1 DEF EdfaInv, Scripts, Due
<1>3. CASE operation = "connect"
  <2>1. r = Head(requests) /\ requests # <<>>
    BY <1>2, <1>3
  <2>2. \/ requests = Queries /\ r = "status"
        \/ requests = AfterStatus /\ r = "mode"
        \/ requests = AfterMode /\ r = "power"
        \/ requests = AfterPower /\ r = "activation"
    BY <1>3, <2>1, ScriptSteps
    DEF Connecting, AsksStatus, AsksMode, AsksPower, AsksActivation, Asked
  <2>3. emitting' = emitting /\ ~RequestRefused(r)
    BY <2>2, AboutWhat
    DEF Request, RequestRefused, RequestLost, AnswerIsLost, Obeys
  <2>4. \/ answers' = answers
        \/ answers' = Append(answers, [about |-> About(r),
             value |-> IF About(r) = "activation" THEN emitting' ELSE TRUE])
    BY <2>3 DEF Request, RequestLost, AnswerIsLost, Reply
  <2>5. \/ answers' = answers
        \/ /\ Len(answers') = Len(answers) + 1
           /\ \A i \in 1..Len(answers) : answers'[i] = answers[i]
           /\ answers'[Len(answers) + 1].about = r
           /\ r = "activation" => answers'[Len(answers) + 1].value = emitting
    <3> DEFINE a == [about |-> About(r),
                     value |-> IF About(r) = "activation" THEN emitting' ELSE TRUE]
    <3>1. a \in Answers /\ a.about = r /\ (r = "activation" => a.value = emitting)
      BY <2>2, <2>3, <1>t, AboutWhat, AnswersTyped
    <3>2. answers' = answers \/ answers' = Append(answers, a)
      BY <2>4
    <3> HIDE DEF a
    <3> QED
      BY <3>1, <3>2, <1>t, AppendOf
  <2>6. CASE requests = Queries /\ r = "status"
    <3>1. Len(answers) <= 1
      BY <2>6, <1>3, <1>1, ScriptSteps
      DEF Connecting, AsksStatus, AsksMode, AsksPower, AsksActivation, Asked,
        Queries, AfterStatus, AfterMode, AfterPower
    <3>2. AsksStatus'
      BY <2>5, <2>6, <3>1, <1>1, <1>t DEF AsksStatus
    <3> QED
      BY <3>2, <1>3, <1>1 DEF Connecting, TurnsOff
  <2>7. CASE requests = AfterStatus /\ r = "mode"
    <3>1. Len(answers) <= 1 /\ (Len(answers) = 1 => answers[1].about = "status")
      BY <2>7, <1>3, <1>1, ScriptSteps
      DEF Connecting, AsksStatus, AsksMode, AsksPower, AsksActivation, Asked,
        Queries, AfterStatus, AfterMode, AfterPower
    <3>9. Len(answers') <= 2 /\ (Len(answers') = 2 => answers'[1].about = "status")
      <4>1. CASE answers' = answers
        BY <4>1, <3>1, <1>t
      <4>2. CASE /\ Len(answers') = Len(answers) + 1
                 /\ \A i \in 1..Len(answers) : answers'[i] = answers[i]
        <5>1. Len(answers') <= 2
          BY <4>2, <3>1, <1>t
        <5>3. Len(answers') \in Nat /\ Len(answers) \in Nat /\ Len(answers') = Len(answers) + 1
          BY <4>2, <1>t
        <5>2. Len(answers') = 2 => Len(answers) = 1
          BY <5>3, OneLess, Zenon
        <5> QED
          BY <5>1, <5>2, <4>2, <3>1
      <4> QED
        BY <4>1, <4>2, <2>5
    <3>2. AsksMode'
      BY <2>7, <3>9, <1>1 DEF AsksMode, AfterStatus
    <3> QED
      BY <3>2, <1>3, <1>1 DEF Connecting, TurnsOff
  <2>8. CASE requests = AfterMode /\ r = "power"
    <3>1. Len(answers) = 0
      BY <2>8, <1>3, <1>1, ScriptSteps
      DEF Connecting, AsksStatus, AsksMode, AsksPower, AsksActivation, Asked,
        Queries, AfterStatus, AfterMode, AfterPower
    <3>9. Len(answers') <= 1
      BY <2>5, <3>1, <1>t
    <3>2. AsksPower'
      BY <2>8, <3>9, <1>1 DEF AsksPower, AfterMode
    <3> QED
      BY <3>2, <1>3, <1>1 DEF Connecting, TurnsOff
  <2>9. CASE requests = AfterPower /\ r = "activation"
    <3>1. Len(answers) = 0
      BY <2>9, <1>3, <1>1, ScriptSteps
      DEF Connecting, AsksStatus, AsksMode, AsksPower, AsksActivation, Asked,
        Queries, AfterStatus, AfterMode, AfterPower
    <3>9. Len(answers') <= 1 /\ (Len(answers') = 1 => answers'[1].value = emitting)
      <4>1. CASE answers' = answers
        BY <4>1, <3>1, <1>t
      <4>2. CASE /\ Len(answers') = Len(answers) + 1
                 /\ answers'[Len(answers) + 1].value = emitting
        <5>1. Len(answers') = 1 /\ Len(answers) + 1 = 1
          BY <4>2, <3>1, <1>t
        <5> QED
          BY <5>1, <4>2
      <4> QED
        BY <4>1, <4>2, <2>5, <2>9
    <3>2. AsksActivation'
      BY <2>3, <2>9, <3>9, <1>1 DEF AsksActivation, AfterPower
    <3> QED
      BY <3>2, <1>3, <1>1 DEF Connecting, TurnsOff
  <2> QED
    BY <2>2, <2>6, <2>7, <2>8, <2>9
<1>4. CASE operation \in {"disconnect", "close"}
  <2>1. r = Head(requests) /\ requests # <<>>
    BY <1>2, <1>4
  <2>2. \/ requests = Off /\ r = "off"
        \/ requests = <<"reading">> /\ r = "reading"
    BY <1>4, <2>1, ScriptSteps DEF TurnsOff
  <2>3. CASE requests = Off /\ r = "off"
    <3>1. ~emitting' \/ offLost'
      BY <2>3 DEF Request, RequestRefused, RequestLost, AnswerIsLost, Obeys, Activations
    <3> QED
      BY <3>1, <2>3, <1>1, <1>4 DEF TurnsOff, Connecting
  <2>4. CASE requests = <<"reading">> /\ r = "reading"
    <3>1. emitting' = emitting
      BY <2>4, AboutWhat DEF Request, RequestRefused, RequestLost, AnswerIsLost, Obeys
    <3>2. offLost => offLost'
      BY DEF Request, RequestRefused, RequestLost, AnswerIsLost
    <3>3. ~OffDue
      BY <2>4 DEF OffDue, Off
    <3> QED
      BY <3>1, <3>2, <3>3, <2>4, <1>1, <1>4 DEF TurnsOff, Connecting
  <2> QED
    BY <2>2, <2>3, <2>4
<1>5. CASE operation \notin {"connect", "disconnect", "close"}
  BY <1>5, <1>1 DEF TurnsOff, Connecting
<1> QED
  BY <1>3, <1>4, <1>5

\* ... reads its answer,
LEMMA ConnectingReads ==
  ASSUME EdfaInv, Connecting, TurnsOff, ReadsAnswer
  PROVE  Connecting' /\ TurnsOff'
<1>t. EdfaTypes /\ Len(answers) \in Nat /\ answers \in Seq(Answers)
  BY DEF EdfaInv, EdfaTypes
<1>1. /\ pending # "none" /\ pending' = "none" /\ answers # <<>> /\ Fits(Head(answers))
      /\ answers' = Tail(answers) /\ operation' = operation
      /\ emitting' = emitting /\ offLost' = offLost
      /\ outputEnabled' = (IF About(pending) = "activation" THEN Head(answers).value
                                                            ELSE outputEnabled)
  BY DEF ReadsAnswer
<1>2. /\ Len(answers') = Len(answers) - 1 /\ Len(answers) >= 1 /\ Head(answers) = answers[1]
      /\ \A i \in 1..(Len(answers) - 1) : answers'[i] = answers[i + 1]
      /\ answers[1].about = About(pending)
  BY <1>1, <1>t, TailOf DEF Fits
<1>3. operation \in {"connect", "disconnect", "close"} =>
        pending = Head(requests) /\ requests # <<>> /\ requests' = Tail(requests)
  BY <1>1 DEF EdfaInv, Owner, Scripts, ReadsAnswer
<1>4. CASE operation = "connect"
  <2>1. pending = Head(requests) /\ requests' = Tail(requests)
    BY <1>3, <1>4
  <2>2. CASE AsksStatus
    <3>1. requests' = AfterStatus /\ Len(answers) <= 2
          /\ (Len(answers) = 2 => answers[2].about = "status")
      BY <2>1, <2>2, <1>1, ScriptSteps DEF AsksStatus
    <3>2. Len(answers') = 1 => answers'[1].about = "status"
      <4>1. Len(answers') = 1 => Len(answers) = 2
        <5>1. Len(answers') \in Nat /\ Len(answers) \in Nat /\ Len(answers') = Len(answers) - 1
          BY <1>2, <1>t
        <5> QED
          BY <5>1, OneLess, Zenon
      <4>2. Len(answers) = 2 => answers'[1] = answers[2]
        <5>1. Len(answers) = 2 => answers'[1] = answers[1 + 1]
          BY <1>2
        <5> QED
          BY <5>1
      <4> QED
        BY <4>1, <4>2, <3>1
    <3>3. AsksMode'
      BY <3>1, <3>2, <1>1, <1>2, <1>t DEF AsksMode, AfterStatus
    <3> QED
      BY <3>3, <1>1, <1>4 DEF Connecting, TurnsOff
  <2>3. CASE AsksMode
    <3>1. requests' = AfterMode /\ pending = "mode" /\ Len(answers) <= 2
          /\ (Len(answers) = 2 => answers[1].about = "status")
      BY <2>1, <2>3, <1>1, ScriptSteps DEF AsksMode
    <3>2. Len(answers) # 2
      BY <3>1, <1>2, AboutWhat
    <3>3. AsksPower'
      BY <3>1, <3>2, <1>1, <1>2, <1>t DEF AsksPower, AfterMode
    <3> QED
      BY <3>3, <1>1, <1>4 DEF Connecting, TurnsOff
  <2>4. CASE AsksPower
    <3>1. requests' = AfterPower /\ Len(answers) <= 1
      BY <2>1, <2>4, <1>1, ScriptSteps DEF AsksPower
    <3>3. AsksActivation'
      BY <3>1, <1>1, <1>2, <1>t DEF AsksActivation, AfterPower
    <3> QED
      BY <3>3, <1>1, <1>4 DEF Connecting, TurnsOff
  <2>5. CASE AsksActivation
    <3>1. requests' = <<>> /\ pending = "activation" /\ Len(answers) <= 1
          /\ (Len(answers) = 1 => answers[1].value = emitting)
      BY <2>1, <2>5, <1>1, ScriptSteps DEF AsksActivation
    <3>2. outputEnabled' = emitting
      BY <3>1, <1>1, <1>2, <1>t, AboutWhat
    <3>3. Asked'
      BY <3>1, <3>2, <1>1 DEF Asked
    <3> QED
      BY <3>3, <1>1, <1>4 DEF Connecting, TurnsOff
  <2>6. ~Asked
    BY <1>1 DEF Asked
  <2> QED
    BY <1>4, <2>2, <2>3, <2>4, <2>5, <2>6 DEF Connecting
<1>5. CASE operation \in {"disconnect", "close"}
  <2>1. requests # <<>> /\ requests' = Tail(requests) /\ ~OffDue
    BY <1>1, <1>3, <1>5 DEF OffDue
  <2>2. requests' \in {<<"reading">>, <<>>}
    BY <2>1, <1>5, ScriptSteps DEF TurnsOff
  <2> QED
    BY <2>1, <2>2, <1>1, <1>5 DEF TurnsOff, Connecting
<1>6. CASE operation \notin {"connect", "disconnect", "close"}
  BY <1>6, <1>1 DEF TurnsOff, Connecting
<1> QED
  BY <1>4, <1>5, <1>6

\* ... or fails.
LEMMA ConnectingFails ==
  ASSUME EdfaInv, Connecting, TurnsOff, Fails
  PROVE  Connecting' /\ TurnsOff'
<1>1. pending # "none" /\ emitting' = emitting /\ offLost' = offLost
  BY DEF Fails
<1>2. CASE operation = "connect"
  <2>1. operation' = "none"
    BY <1>1, <1>2 DEF Fails, EdfaInv, Scripts
  <2> QED
    BY <2>1 DEF TurnsOff, Connecting
<1>3. CASE operation \in {"disconnect", "close"}
  <2>1. operation' = operation /\ requests' = <<>>
    BY <1>3 DEF Fails, EdfaInv, Scripts
  <2>2. ~OffDue
    BY <1>1 DEF OffDue
  <2> QED
    BY <2>1, <2>2, <1>1, <1>3 DEF TurnsOff, Connecting
<1>4. CASE operation \notin {"connect", "disconnect", "close"}
  <2>1. operation' \in {operation, "none", "off"}
    BY DEF Fails
  <2> QED
    BY <1>4, <2>1 DEF TurnsOff, Connecting
<1> QED
  BY <1>2, <1>3, <1>4

\* Every step keeps both.
LEMMA ConnectingStep ==
  EdfaInv /\ Connecting /\ TurnsOff /\ [EdfaNext]_edfaVars => Connecting' /\ TurnsOff'
<1> SUFFICES ASSUME EdfaInv, Connecting, TurnsOff, [EdfaNext]_edfaVars
             PROVE  Connecting' /\ TurnsOff'
  OBVIOUS
<1>1. CASE UNCHANGED edfaVars
  BY <1>1 DEF Connecting, TurnsOff, OffDue, AsksStatus, AsksMode, AsksPower, AsksActivation,
    Asked, Queries, Off, AfterStatus, AfterMode, AfterPower, edfaVars, callers
<1>2. CASE EdfaNext
  BY <1>2, ConnectingBegins, ConnectingWrites, ConnectingReads, ConnectingFails DEF EdfaNext
<1> QED
  BY <1>1, <1>2

\* A disconnect that comes to close the port leaves the output off, or the request that turns it
\* off got lost (disconnect, EdfaSerialController).
THEOREM DisconnectTurnsOff == EdfaSpec => DisconnectMeansOff
<1>1. EdfaInv /\ Connecting /\ TurnsOff /\ [EdfaNext]_edfaVars =>
        [open /\ ~open' /\ operation = "close" => ~emitting \/ offLost]_edfaVars
  <2> SUFFICES ASSUME EdfaInv, TurnsOff, EdfaNext, open, ~open', operation = "close"
               PROVE  ~emitting \/ offLost
    OBVIOUS
  <2>1. \A r \in Requests :
          ~(Request(r) \/ RequestRefused(r) \/ RequestLost(r) \/ AnswerIsLost(r))
    BY DEF Request, RequestRefused, RequestLost, AnswerIsLost, Writes
  <2>2. ~BeginConnect /\ ~BeginEnable /\ ~BeginOff /\ ~BeginDisconnect /\ ~PollBegins
    BY DEF BeginConnect, BeginEnable, BeginOff, BeginDisconnect, PollBegins
  <2>3. ~ReadsAnswer /\ ~Fails
    BY DEF ReadsAnswer, Fails
  <2>4. Return
    BY <2>1, <2>2, <2>3 DEF EdfaNext
  <2>5. requests = <<>>
    BY <2>4 DEF Return
  <2> QED
    BY <2>5, ScriptSteps DEF TurnsOff, OffDue
<1> QED
  BY <1>1, EdfaInvariant, ConnectingStart, ConnectingStep, PTL DEF EdfaSpec, DisconnectMeansOff
=============================================================================
