----------------------------- MODULE McuLinkProofs -----------------------------
(***************************************************************************)
(* The MCU link, for every size of waveform, frame buffer and ring, every  *)
(* number of retries and every number of faults: types, and what may be    *)
(* believed of a confirmation as long as the link is orderly.              *)
(*                                                                         *)
(* Answers can be told apart only by their order, so the invariant looks   *)
(* at one pipe: the answers the host has not read, the line the main loop  *)
(* has begun, and the bytes in the ring, each of which may still become an *)
(* answer. Acknowledgements of earlier commands come before those of the   *)
(* command that is waited for, and the lines that went astray, the faults  *)
(* and the attempts bound how many answers there are up to the last of     *)
(* them. When the rounds of a command are used up, none is left.           *)
(***************************************************************************)
EXTENDS MCSerial, EdfaLinkProofs, FiniteSetTheorems

\* The commands that are acknowledged by their code; and what may be an answer, once it is
\* complete.
Acked == {"CLR", "LOAD_DONE", "START", "STOP"}
Counted(x) == x \notin PointBodies \cup {"LF", ""}

\* A rank for each element: at least the answers up to it.
Ranks(W, n, k) ==
  \A j \in 1..n :
    /\ Counted(W[j]) => k[j] >= 1
    /\ \A i \in 1..n : i < j => k[i] <= k[j] /\ (Counted(W[j]) => k[i] < k[j])

\* Of the n elements of W at most s are answers. Those that acknowledge another command than
\* c come first, at most b of them and of what they are among.
Ranked(W, n, c, b, s) ==
  \E k \in [1..n -> Nat] :
    /\ Ranks(W, n, k)
    /\ \A i \in 1..n : k[i] <= s
    /\ c \in Acked => \A i \in 1..n : W[i] \in Acked => W[i] = c \/ k[i] <= b

\* Two commands that differ come in the order they were sent, and c is the last; a point
\* comes after a CLR; while points are sent, only CLR may still be acknowledged.
Grouped(W, n, c) ==
  /\ \A i, j \in 1..n : i < j /\ W[i] \in Acked /\ W[j] \in Acked => W[i] = W[j] \/ W[j] = c
  /\ \A i, j \in 1..n : i < j /\ W[i] \in Acked /\ W[j] \in PointBodies => W[i] = "CLR"
  /\ c = "DATA" => \A i \in 1..n : W[i] \in Acked => W[i] = "CLR"

\* The answers t to read, the line h begun, the tokens r to process.
PipeSize(t, r) == Len(t) + 1 + Len(r)
PipeOf(t, h, r) ==
  [i \in 1..(Len(t) + 1 + Len(r)) |-> IF i <= Len(t) THEN t[i].code
                                      ELSE IF i = Len(t) + 1 THEN h ELSE r[i - Len(t) - 1]]
InOrder(t, h, r, c, b, s) ==
  /\ Ranked(PipeOf(t, h, r), PipeSize(t, r), c, b, s)
  /\ Grouped(PipeOf(t, h, r), PipeSize(t, r), c)

\* What the MCU answers.
Replies == [code : Acked \cup {"ERR", "BOOT"}, count : 0..FrameBufLen]
Lines(codes) == {a \in Replies : a.code \in codes}

\* Every line of t that is one of `olds' has one of `news' after it.
Followed(t, olds, news) ==
  \A p \in 1..Len(t) : t[p] \in olds => \E q \in 1..Len(t) : q > p /\ t[q] \in news

\* The body the main loop works on, what is waited for, and what is sent and may yet be answered.
Held == IF main = "start" THEN "START" ELSE cmd
Asking == IF phase = "idle" THEN "none" ELSE command
Owed == IF phase \in {"lf", "await"} /\ command # "DATA" THEN 1 ELSE 0

\* One of the bodies X is still to be run.
Coming(X) == Held \in X \/ \E i \in 1..Len(ring) : ring[i] \in X
-----------------------------------------------------------------------------
\* What each part of the link may hold.
WireTypes ==
  /\ port \in BOOLEAN /\ toHost \in Seq(Replies)
  /\ strays \in 0..(Retries + 1) /\ faults \in 0..MaxFaults
UartTypes ==
  /\ ring \in Seq(Tokens) /\ Points <= RingLines /\ overflow \in BOOLEAN /\ deaf \in BOOLEAN
  /\ fast \in Bodies \cup {""} /\ cmd \in Bodies \cup {""}
  /\ main \in {"poll", "drain", "start"}
PlayerTypes ==
  /\ stopReq \in BOOLEAN /\ stopHeard \in BOOLEAN /\ output \in BOOLEAN
  /\ player \in {"IDLE", "READY", "PLAYING"} /\ loaded \in 0..FrameBufLen
StatusTypes ==
  /\ connected \in BOOLEAN /\ ready \in BOOLEAN /\ scanning \in BOOLEAN
  /\ points \in 0..FrameBufLen /\ waveform \in Sizes \cup {0}
  /\ stopped \in BOOLEAN /\ calls \in 0..MaxCalls
CallTypes ==
  /\ call \in Calls /\ command \in Acked \cup {"DATA"}
  /\ phase \in {"idle", "body", "lf", "await"}
  /\ attempt \in 0..Retries /\ size \in Sizes \cup {0} /\ sent \in 0..size
McuTypes == WireTypes /\ UartTypes /\ PlayerTypes /\ StatusTypes /\ CallTypes

\* What the controller does needs a port.
Ported ==
  /\ ~port => toHost = <<>>
  /\ phase # "idle" \/ scanning \/ connected => port

\* The command fits the call.
Scripted ==
  /\ phase = "idle" => call = "none" /\ attempt = 0
  /\ phase # "idle" =>
       \/ /\ call = "UPLOAD" /\ command \in {"CLR", "DATA", "LOAD_DONE"}
          /\ points = 0 /\ ~scanning /\ size > 0
          /\ command = "CLR" => sent = 0
          /\ command = "DATA" => sent < size /\ phase \in {"body", "lf"} /\ attempt = 0
       \/ call = "START" /\ command = "START" /\ ~scanning
       \/ call = "STOP" /\ command = "STOP"
  /\ ready => points > 0

\* A start that is being prepared has been taken from the ring; the output is on while the
\* player plays.
Played ==
  /\ main = "start" => cmd = "" /\ ~output
  /\ output => player = "PLAYING"

\* Without a fault the fast stop has seen the line as far as it is written.
Observed ==
  faults = 0 => ~deaf /\ fast = (IF phase = "lf" THEN command ELSE "")

\* The controller's part of it.
ControllerTypes == StatusTypes /\ CallTypes /\ Scripted /\ Ported

\* What holds of the link however much goes astray.
McuSession == McuTypes /\ Ported /\ Scripted /\ Played /\ Observed
-----------------------------------------------------------------------------
\* While the output is on, a confirmed stop that is still to be read was followed by a start.
OutputAnnounced == output => Followed(toHost, Lines({"STOP"}), Lines({"START"}))

\* After a confirmed stop the output is off and nothing is to come that turns it on.
StopStands == stopped => ~output /\ ~Coming({"START"}) /\ Asking # "START"

\* The MCU lost its memory with its power.
Forgot == loaded = 0 /\ faults > 0

\* A count that is still to be read is the one loaded, unless a clear was acknowledged after it.
CountsHold ==
  Forgot \/ Followed(toHost, {a \in Lines({"LOAD_DONE", "STOP"}) : a.count # loaded},
                     Lines({"CLR"}))

\* The points the controller knows of are loaded, and nothing is to come that changes that.
PointsLoaded ==
  points > 0 => (loaded = points \/ Forgot) /\ ~Coming(PointBodies \cup {"CLR"})

\* Without a fault a start that was acknowledged plays, unless a clear or a stop came after it.
StartsPlay ==
  faults = 0 /\ Asking # "STOP" /\ ~(output /\ ~stopReq) =>
    Followed(toHost, Lines({"START"}), Lines({"CLR", "STOP"}))

\* Without a fault a scan runs while the controller says so.
ScanRuns ==
  faults = 0 /\ scanning /\ ready /\ Asking # "STOP" =>
    output /\ ~stopReq /\ ~Coming({"CLR", "STOP"})

\* The pipe, with as many answers as went astray, were torn or are owed.
PipeInOrder ==
  InOrder(toHost, Held, ring, Asking, (strays + faults) - attempt, strays + faults + Owed)

\* What is announced, counted and confirmed, told by the order of the answers.
Told ==
  /\ OutputAnnounced /\ StopStands /\ CountsHold
  /\ PointsLoaded /\ StartsPlay /\ ScanRuns

\* What holds as long as the link is orderly.
McuOrder == PipeInOrder /\ Told

\* The inductive invariant.
McuInv == McuSession /\ (Orderly => McuOrder)
-----------------------------------------------------------------------------
\* Sums in order.
LEMMA Plus ==
  \A a1, a2, d1, d2 \in Nat :
    a1 <= a2 /\ d1 <= d2 =>
      a1 + d1 <= a2 + d2 /\ (a1 < a2 \/ d1 < d2 => a1 + d1 < a2 + d2)
OBVIOUS

\* One more, and none.
LEMMA NextInt == \A i \in Int : i + 1 \in Int /\ i + 0 = i
OBVIOUS

\* Sums of integers.
LEMMA IntSums ==
  /\ \A b, d \in Int : b + d \in Int
  /\ \A b \in Int : b + 1 + 1 + 1 = b + 3
  /\ \A b \in Int, d \in Nat : b <= b + d
OBVIOUS

\* Sums of naturals.
LEMMA NatSums == \A x, y \in Nat : x + y \in Nat /\ x + y \in Int
OBVIOUS

\* The bounds of the pipe grow by no less than what goes astray in a step of the firmware.
LEMMA PipeBounds ==
  \A x, x1, f, f1, a, o \in Nat : f <= f1 =>
    /\ (x + f) - a \in Int /\ x + f + o \in Int /\ (x1 + f1) - a \in Int /\ x1 + f1 + o \in Int
    /\ ((x + f) - a) + (x1 - x) \in Int /\ (x + f + o) + (x1 - x) \in Int
    /\ ((x + f) - a) + (x1 - x) <= (x1 + f1) - a
    /\ (x + f + o) + (x1 - x) <= x1 + f1 + o
OBVIOUS

\* One round more uses up one.
LEMMA Rounds == \A x, a \in Nat : x - (a + 1) = x - a - 1 /\ x + 0 = x
OBVIOUS

\* In the last round the bound on earlier answers is used up.
LEMMA LastRound ==
  \A x, n \in Nat : x <= n + 1 => x - n - 1 \in Int /\ x - n - 1 <= 0
OBVIOUS

\* The numbers of a call that failed once more.
LEMMA OnceMore ==
  \A x, a, f \in Nat :
    /\ (x + (f + 1)) - a - 1 = (x + f) - a
    /\ ((x + 1) + f) - a - 1 = (x + f) - a
    /\ ((x + f) - a) - 1 = (x + f) - a - 1
    /\ x + (f + 1) = x + f + 1
    /\ (x + 1) + f = x + f + 1
    /\ (x + f + 1) - 1 = x + f
    /\ (x + f) - a \in Int /\ (x + f) - a - 1 \in Int
    /\ x + f \in Int /\ x + f + 1 \in Int /\ x + f <= x + f + 1 /\ x + f + 0 = x + f
    /\ (x + f) - a <= (x + f) - a
OBVIOUS
-----------------------------------------------------------------------------
\* V is W with elements taken out, doubled by an empty one or made dull; g says where an
\* element comes from. With e = 1 the one at `at' is an answer that was none.
Thins(W, V, n, m, g, e, at) ==
  /\ g \in [1..m -> 1..n]
  /\ \A i, j \in 1..m : i < j => g[i] <= g[j] /\ (V[j] # "" => g[i] < g[j])
  /\ \A i \in 1..m : V[i] \in Acked => V[i] = W[g[i]]
  /\ \A i \in 1..m : V[i] \in PointBodies => W[g[i]] \in PointBodies
  /\ \A i \in 1..m : Counted(V[i]) => Counted(W[g[i]]) \/ (e = 1 /\ i = at)

\* What is thinned keeps its ranks; an answer that was none, and those after it, rank one higher.
LEMMA Derived ==
  ASSUME NEW W, NEW V, NEW n \in Nat, NEW m \in Nat, NEW c, NEW b \in Int, NEW s \in Int,
         NEW g, NEW e \in Nat, NEW at \in Int, Thins(W, V, n, m, g, e, at)
  PROVE  /\ Ranked(W, n, c, b, s) => Ranked(V, m, c, b + e, s + e)
         /\ Grouped(W, n, c) => Grouped(V, m, c)
<1>1. ASSUME Ranked(W, n, c, b, s) PROVE Ranked(V, m, c, b + e, s + e)
  <2>1. PICK k \in [1..n -> Nat] :
          /\ Ranks(W, n, k)
          /\ \A i \in 1..n : k[i] <= s
          /\ c \in Acked => \A i \in 1..n : W[i] \in Acked => W[i] = c \/ k[i] <= b
    BY <1>1 DEF Ranked
  <2> DEFINE d == [i \in 1..m |-> IF i >= at THEN e ELSE 0]
  <2>d. /\ \A i \in 1..m : d[i] \in Nat /\ d[i] <= e
        /\ \A i, j \in 1..m : i < j => d[i] <= d[j] /\ (e = 1 /\ j = at => d[i] < d[j])
        /\ \A j \in 1..m : e = 1 /\ j = at => d[j] = 1
    OBVIOUS
  <2> HIDE DEF d
  <2> DEFINE l == [i \in 1..m |-> k[g[i]] + d[i]]
  <2>2. \A i \in 1..m : g[i] \in 1..n /\ k[g[i]] \in Nat
    BY DEF Thins
  <2>3. l \in [1..m -> Nat]
    <3>1. \A i \in 1..m : k[g[i]] + d[i] \in Nat
      BY <2>2, <2>d
    <3> QED
      BY <3>1
  <2>4. \A i \in 1..m : l[i] = k[g[i]] + d[i]
    OBVIOUS
  <2> HIDE DEF l
  <2>5. Ranks(V, m, l)
    <3>1. ASSUME NEW j \in 1..m, Counted(V[j]) PROVE l[j] >= 1
      <4>1. Counted(W[g[j]]) => k[g[j]] >= 1
        BY <2>1, <2>2 DEF Ranks
      <4>2. l[j] = k[g[j]] + d[j] /\ k[g[j]] \in Nat /\ d[j] \in Nat
        BY <2>2, <2>4, <2>d
      <4>3. Counted(W[g[j]]) \/ (e = 1 /\ j = at)
        BY <3>1 DEF Thins
      <4>4. k[g[j]] >= 1 \/ d[j] = 1
        BY <4>1, <4>3, <2>d
      <4> QED
        BY <4>2, <4>4
    <3>2. ASSUME NEW j \in 1..m, NEW i \in 1..m, i < j
          PROVE  l[i] <= l[j] /\ (Counted(V[j]) => l[i] < l[j])
      <4>1. g[i] <= g[j] /\ (V[j] # "" => g[i] < g[j])
        BY <3>2 DEF Thins
      <4>2. /\ l[i] = k[g[i]] + d[i] /\ l[j] = k[g[j]] + d[j]
            /\ k[g[i]] \in Nat /\ k[g[j]] \in Nat /\ g[i] \in 1..n /\ g[j] \in 1..n
            /\ d[i] \in Nat /\ d[j] \in Nat
        BY <2>2, <2>4, <2>d
      <4>3. g[i] < g[j] => k[g[i]] <= k[g[j]] /\ (Counted(W[g[j]]) => k[g[i]] < k[g[j]])
        BY <2>1, <4>2 DEF Ranks
      <4>4. g[i] = g[j] \/ g[i] < g[j]
        <5>0. \A x \in 1..n : x \in Int
          OBVIOUS
        <5>1. g[i] \in Int /\ g[j] \in Int /\ g[i] <= g[j]
          BY <4>1, <4>2, <5>0
        <5> QED
          BY <5>1
      <4>5. k[g[i]] <= k[g[j]]
        <5>1. CASE g[i] = g[j]
          BY <5>1, <4>2
        <5>2. CASE g[i] < g[j]
          BY <5>2, <4>3
        <5> QED
          BY <4>4, <5>1, <5>2
      <4>6. Counted(V[j]) => V[j] # "" /\ (Counted(W[g[j]]) \/ (e = 1 /\ j = at))
        BY DEF Counted, Thins
      <4>7. d[i] <= d[j] /\ (e = 1 /\ j = at => d[i] < d[j])
        BY <3>2, <2>d
      <4>8. Counted(V[j]) => k[g[i]] < k[g[j]] \/ d[i] < d[j]
        BY <4>1, <4>3, <4>6, <4>7
      <4> QED
        BY <4>2, <4>5, <4>7, <4>8, Plus
    <3> QED
      BY <3>1, <3>2 DEF Ranks
  <2>6. ASSUME NEW i \in 1..m PROVE l[i] <= s + e
    <3>1. k[g[i]] \in Nat /\ k[g[i]] <= s /\ d[i] \in Nat /\ d[i] <= e /\ l[i] = k[g[i]] + d[i]
      BY <2>1, <2>2, <2>4, <2>d
    <3> QED
      BY <3>1
  <2>7. ASSUME c \in Acked, NEW i \in 1..m, V[i] \in Acked PROVE V[i] = c \/ l[i] <= b + e
    <3>1. g[i] \in 1..n /\ k[g[i]] \in Nat /\ V[i] = W[g[i]]
      BY <2>7, <2>2 DEF Thins
    <3>2. W[g[i]] = c \/ k[g[i]] <= b
      BY <2>1, <2>7, <3>1
    <3>3. d[i] \in Nat /\ d[i] <= e /\ l[i] = k[g[i]] + d[i]
      BY <2>4, <2>d
    <3>4. k[g[i]] <= b => l[i] <= b + e
      BY <3>1, <3>3
    <3> QED
      BY <3>1, <3>2, <3>4
  <2> QED
    BY <2>3, <2>5, <2>6, <2>7 DEF Ranked
<1>2. ASSUME Grouped(W, n, c) PROVE Grouped(V, m, c)
  <2>0. "" \notin Acked /\ "" \notin PointBodies
    BY DEF Acked, PointBodies
  <2>1. ASSUME NEW i \in 1..m, NEW j \in 1..m, i < j, V[i] \in Acked, V[j] \in Acked
        PROVE  V[i] = V[j] \/ V[j] = c
    <3>1. g[i] \in 1..n /\ g[j] \in 1..n /\ g[i] < g[j] /\ V[i] = W[g[i]] /\ V[j] = W[g[j]]
      BY <2>0, <2>1 DEF Thins
    <3> QED
      BY <3>1, <2>1, <1>2 DEF Grouped
  <2>2. ASSUME NEW i \in 1..m, NEW j \in 1..m, i < j, V[i] \in Acked, V[j] \in PointBodies
        PROVE  V[i] = "CLR"
    <3>1. /\ g[i] \in 1..n /\ g[j] \in 1..n /\ g[i] < g[j]
          /\ V[i] = W[g[i]] /\ W[g[j]] \in PointBodies
      BY <2>0, <2>2 DEF Thins
    <3> QED
      BY <3>1, <2>2, <1>2 DEF Grouped
  <2>3. ASSUME c = "DATA", NEW i \in 1..m, V[i] \in Acked PROVE V[i] = "CLR"
    <3>1. g[i] \in 1..n /\ V[i] = W[g[i]]
      BY <2>3 DEF Thins
    <3> QED
      BY <3>1, <2>3, <1>2 DEF Grouped
  <2> QED
    BY <2>1, <2>2, <2>3 DEF Grouped
<1> QED
  BY <1>1, <1>2

\* The elements of a pipe, by place.
LEMMA PipeAt ==
  ASSUME NEW t \in Seq(Line), NEW h, NEW r \in Seq(Tokens), NEW W, W = PipeOf(t, h, r)
  PROVE  /\ Len(t) \in Nat /\ Len(r) \in Nat /\ PipeSize(t, r) \in Nat
         /\ PipeSize(t, r) = Len(t) + 1 + Len(r)
         /\ \A i \in 1..Len(t) : W[i] = t[i].code
         /\ W[Len(t) + 1] = h
         /\ \A i \in 1..PipeSize(t, r) : i > Len(t) + 1 => W[i] = r[i - Len(t) - 1]
BY DEF PipeOf, PipeSize

\* A pipe thinned is in order as long as it was.
LEMMA ThinsInOrder ==
  ASSUME NEW t \in Seq(Line), NEW h, NEW r \in Seq(Tokens),
         NEW u \in Seq(Line), NEW x, NEW q \in Seq(Tokens),
         NEW c, NEW b \in Int, NEW s \in Int, NEW g, NEW e \in Nat, NEW at \in Int,
         Thins(PipeOf(t, h, r), PipeOf(u, x, q), PipeSize(t, r), PipeSize(u, q), g, e, at),
         InOrder(t, h, r, c, b, s)
  PROVE  InOrder(u, x, q, c, b + e, s + e)
<1>1. PipeSize(t, r) \in Nat /\ PipeSize(u, q) \in Nat
  BY PipeAt
<1> QED
  BY <1>1, Derived DEF InOrder

\* A pipe that is merely thinned is as much in order as it was.
LEMMA ThinnedInOrder ==
  ASSUME NEW t \in Seq(Line), NEW h, NEW r \in Seq(Tokens),
         NEW u \in Seq(Line), NEW x, NEW q \in Seq(Tokens),
         NEW c, NEW b \in Int, NEW s \in Int, NEW g, NEW at \in Int,
         Thins(PipeOf(t, h, r), PipeOf(u, x, q), PipeSize(t, r), PipeSize(u, q), g, 0, at),
         InOrder(t, h, r, c, b, s)
  PROVE  InOrder(u, x, q, c, b, s)
<1>1. 0 \in Nat /\ b + 0 = b /\ s + 0 = s
  OBVIOUS
<1>2. InOrder(u, x, q, c, b + 0, s + 0)
  BY <1>1, ThinsInOrder
<1> QED
  BY <1>1, <1>2

\* The line begun takes the next token in, or becomes one that is no answer.
LEMMA Merges ==
  ASSUME NEW t \in Seq(Line), NEW h, NEW r \in Seq(Tokens), r # <<>>, NEW x,
         NEW c, NEW b \in Int, NEW s \in Int, InOrder(t, h, r, c, b, s),
         NEW w, w = h \/ w = r[1],
         x \in Acked => x = w, x \in PointBodies => w \in PointBodies, Counted(x) => Counted(w)
  PROVE  InOrder(t, x, Tail(r), c, b, s)
<1>d. PICK d \in 0..1 : (d = 0 /\ w = h) \/ (d = 1 /\ w = r[1])
  OBVIOUS
<1> DEFINE W == PipeOf(t, h, r)
           V == PipeOf(t, x, Tail(r))
           n == PipeSize(t, r)
           m == PipeSize(t, Tail(r))
           k == Len(t) + 1
           g == [i \in 1..m |-> IF i < k THEN i ELSE IF i = k THEN k + d ELSE i + 1]
<1>1. Tail(r) \in Seq(Tokens) /\ Len(Tail(r)) = Len(r) - 1 /\ Len(r) >= 1
      /\ \A i \in 1..(Len(r) - 1) : Tail(r)[i] = r[i + 1]
  OBVIOUS
<1>2. /\ k \in Nat /\ n \in Nat /\ m \in Nat /\ n = k + Len(r) /\ m = n - 1 /\ k >= 1 /\ k <= m
      /\ Len(r) \in Nat /\ Len(t) \in Nat
      /\ \A i \in 1..n : (i < k => W[i] = t[i].code) /\ (i > k => W[i] = r[i - k])
      /\ W[k] = h
  <2>1. /\ Len(t) \in Nat /\ Len(r) \in Nat /\ n = Len(t) + 1 + Len(r)
        /\ \A i \in 1..Len(t) : W[i] = t[i].code
        /\ W[Len(t) + 1] = h
        /\ \A i \in 1..n : i > Len(t) + 1 => W[i] = r[i - Len(t) - 1]
    BY PipeAt
  <2>2. m = Len(t) + 1 + Len(Tail(r))
    BY <1>1, PipeAt
  <2> HIDE DEF W, n, m
  <2> QED
    BY <2>1, <2>2, <1>1
<1>3. /\ \A i \in 1..m : (i < k => V[i] = t[i].code) /\ (i > k => V[i] = r[i - k + 1])
      /\ V[k] = x
  <2>1. /\ \A i \in 1..Len(t) : V[i] = t[i].code
        /\ V[Len(t) + 1] = x
        /\ \A i \in 1..m : i > Len(t) + 1 => V[i] = Tail(r)[i - Len(t) - 1]
    <3> DEFINE q == Tail(r)
    <3>1. q \in Seq(Tokens)
      BY <1>1
    <3> HIDE DEF q
    <3>2. /\ \A i \in 1..Len(t) : PipeOf(t, x, q)[i] = t[i].code
          /\ PipeOf(t, x, q)[Len(t) + 1] = x
          /\ \A i \in 1..PipeSize(t, q) :
               i > Len(t) + 1 => PipeOf(t, x, q)[i] = q[i - Len(t) - 1]
      BY <3>1, PipeAt
    <3> QED
      BY <3>2 DEF q
  <2> HIDE DEF V, n, m
  <2>2. ASSUME NEW i \in 1..m, i > k PROVE V[i] = r[i - k + 1]
    <3>1. V[i] = Tail(r)[i - k] /\ i - k \in 1..(Len(r) - 1)
      BY <2>1, <2>2, <1>2
    <3> QED
      BY <3>1, <1>1
  <2> QED
    BY <2>1, <2>2, <1>2
<1> HIDE DEF W, V, n, m, k
<1>n. k \in Nat /\ n \in Nat /\ m \in Nat /\ m = n - 1 /\ k >= 1 /\ k <= m
  BY <1>2
<1>4. Thins(W, V, n, m, g, 0, 0)
  <2>1. g \in [1..m -> 1..n]
    BY <1>n
  <2>2. \A i \in 1..m : (i < k => g[i] = i) /\ (i > k => g[i] = i + 1)
    BY <1>n
  <2>k. k \in 1..m /\ g[k] = k + d
    BY <1>n
  <2> HIDE DEF g
  <2>3. ASSUME NEW i \in 1..m, NEW j \in 1..m, i < j PROVE g[i] < g[j]
    <3>1. (i < k /\ g[i] = i) \/ (i = k /\ g[i] = k + d) \/ (i > k /\ g[i] = i + 1)
      BY <2>2, <2>k, <1>n
    <3>2. (j < k /\ g[j] = j) \/ (j = k /\ g[j] = k + d) \/ (j > k /\ g[j] = j + 1)
      BY <2>2, <2>k, <1>n
    <3> QED
      BY <3>1, <3>2, <2>3, <1>n
  <2>4. ASSUME NEW i \in 1..m, i # k PROVE V[i] = W[g[i]]
    <3>1. CASE i < k
      <4>1. g[i] = i /\ i \in 1..n
        BY <3>1, <2>2, <1>n
      <4> QED
        BY <4>1, <3>1, <1>2, <1>3
    <3>2. CASE i > k
      <4>1. g[i] = i + 1
        BY <3>2, <2>2
      <4>2. i + 1 \in 1..n /\ i + 1 > k /\ i + 1 - k = i - k + 1
        BY <3>2, <1>n
      <4> QED
        BY <4>1, <4>2, <3>2, <1>2, <1>3
    <3> QED
      BY <3>1, <3>2, <2>4, <1>n
  <2>5. V[k] = x /\ W[g[k]] = w /\ k \in 1..m
    <3>1. k + 1 \in 1..n /\ k + 1 - k = 1 /\ k + 1 > k
      BY <1>n
    <3>2. CASE d = 0 /\ w = h
      <4>1. g[k] = k
        BY <2>k, <3>2, <1>n
      <4> QED
        BY <4>1, <2>k, <3>2, <1>2, <1>3
    <3>3. CASE d = 1 /\ w = r[1]
      <4>1. g[k] = k + 1
        BY <2>k, <3>3
      <4>2. W[k + 1] = r[1]
        BY <3>1, <1>2
      <4> QED
        BY <4>1, <4>2, <2>k, <3>3, <1>3
    <3> QED
      BY <3>2, <3>3, <1>d
  <2>6. \A i \in 1..m : V[i] = W[g[i]] \/ (V[i] = x /\ W[g[i]] = w)
    BY <2>4, <2>5
  <2>7. ASSUME NEW i \in 1..m, NEW j \in 1..m, i < j PROVE g[i] <= g[j] /\ g[i] < g[j]
    <3>0. \A y \in 1..n : y \in Int
      OBVIOUS
    <3>1. g[i] \in Int /\ g[j] \in Int /\ g[i] < g[j]
      BY <2>1, <2>3, <2>7, <3>0
    <3> QED
      BY <3>1
  <2> QED
    BY <2>1, <2>6, <2>7 DEF Thins
<1>5. Tail(r) \in Seq(Tokens) /\ 0 \in Int
  BY <1>1
<1>6. PICK f : Thins(PipeOf(t, h, r), PipeOf(t, x, Tail(r)), PipeSize(t, r),
                    PipeSize(t, Tail(r)), f, 0, 0)
  BY <1>4 DEF W, V, n, m
<1> QED
  BY <1>5, <1>6, ThinnedInOrder

\* A pipe that is a beginning of the old one, but for the element p.
LEMMA ThinsSame ==
  ASSUME NEW W, NEW V, NEW n \in Nat, NEW m \in Nat, m <= n, NEW e \in Nat, NEW p \in Int,
         \A i \in 1..m : i # p => V[i] = W[i],
         p \in 1..m =>
           /\ V[p] \in Acked => V[p] = W[p]
           /\ V[p] \in PointBodies => W[p] \in PointBodies
           /\ Counted(V[p]) => Counted(W[p]) \/ e = 1
  PROVE  Thins(W, V, n, m, [i \in 1..m |-> i], e, p)
<1> DEFINE g == [i \in 1..m |-> i]
<1>1. g \in [1..m -> 1..n]
  OBVIOUS
<1>2. \A i \in 1..m : g[i] = i
  OBVIOUS
<1> HIDE DEF g
<1>3. ASSUME NEW i \in 1..m, NEW j \in 1..m, i < j PROVE g[i] <= g[j] /\ g[i] < g[j]
  <2>1. g[i] = i /\ g[j] = j
    BY <1>2
  <2> QED
    BY <1>3, <2>1
<1>4. \A i \in 1..m : V[i] \in Acked => V[i] = W[g[i]]
  BY <1>2
<1>5. \A i \in 1..m : V[i] \in PointBodies => W[g[i]] \in PointBodies
  BY <1>2
<1>6. \A i \in 1..m : Counted(V[i]) => Counted(W[g[i]]) \/ (e = 1 /\ i = p)
  BY <1>2
<1>7. Thins(W, V, n, m, g, e, p)
  BY <1>1, <1>3, <1>4, <1>5, <1>6 DEF Thins
<1> QED
  BY <1>7 DEF g

\* The line begun becomes another one, an answer that was none for e = 1.
LEMMA Relabels ==
  ASSUME NEW t \in Seq(Line), NEW h, NEW r \in Seq(Tokens), NEW x,
         NEW c, NEW b \in Int, NEW s \in Int, NEW e \in Nat, InOrder(t, h, r, c, b, s),
         x \in Acked => x = h, x \in PointBodies => h \in PointBodies,
         Counted(x) => Counted(h) \/ e = 1
  PROVE  InOrder(t, x, r, c, b + e, s + e)
<1> DEFINE W == PipeOf(t, h, r)
           V == PipeOf(t, x, r)
           n == PipeSize(t, r)
           p == Len(t) + 1
<1>1. n \in Nat /\ p \in Int /\ p \in 1..n /\ W[p] = h /\ V[p] = x
  BY DEF PipeOf, PipeSize
<1>2. \A i \in 1..n : i # p => V[i] = W[i]
  BY DEF PipeOf, PipeSize
<1> HIDE DEF W, V, n, p
<1>3. Thins(W, V, n, n, [i \in 1..n |-> i], e, p)
  <2>1. /\ V[p] \in Acked => V[p] = W[p]
        /\ V[p] \in PointBodies => W[p] \in PointBodies
        /\ Counted(V[p]) => Counted(W[p]) \/ e = 1
    BY <1>1
  <2>2. n <= n
    BY <1>1
  <2> QED
    BY <1>1, <1>2, <2>1, <2>2, ThinsSame
<1>4. PICK g : Thins(PipeOf(t, h, r), PipeOf(t, x, r), PipeSize(t, r), PipeSize(t, r), g, e, p)
  BY <1>3 DEF W, V, n
<1> QED
  BY <1>1, <1>4, ThinsInOrder

\* The ring is emptied.
LEMMA Empties ==
  ASSUME NEW t \in Seq(Line), NEW h, NEW r \in Seq(Tokens),
         NEW c, NEW b \in Int, NEW s \in Int, InOrder(t, h, r, c, b, s)
  PROVE  InOrder(t, h, <<>>, c, b, s)
<1> DEFINE W == PipeOf(t, h, r)
           V == PipeOf(t, h, <<>>)
           n == PipeSize(t, r)
           m == PipeSize(t, <<>>)
<1>0. <<>> \in Seq(Tokens)
  OBVIOUS
<1>1. n \in Nat /\ m \in Nat /\ m <= n
  BY DEF PipeSize
<1>2. \A i \in 1..m : V[i] = W[i]
  BY DEF PipeOf, PipeSize
<1> HIDE DEF W, V, n, m
<1>3. Thins(W, V, n, m, [i \in 1..m |-> i], 0, 0)
  <2>1. 0 \in Nat /\ 0 \in Int /\ 0 \notin 1..m /\ \A i \in 1..m : i # 0 => V[i] = W[i]
    BY <1>1, <1>2
  <2> QED
    BY <1>1, <2>1, ThinsSame
<1>4. PICK g : Thins(PipeOf(t, h, r), PipeOf(t, h, <<>>), PipeSize(t, r),
                    PipeSize(t, <<>>), g, 0, 0)
  BY <1>3 DEF W, V, n, m
<1>5. 0 \in Int
  OBVIOUS
<1> QED
  BY <1>0, <1>4, <1>5, ThinnedInOrder

\* Answers of which the first lost its beginning.
LEMMA MangledHead ==
  ASSUME NEW t \in Seq(Line), t # <<>>, NEW u, u = [t EXCEPT ![1] = Err]
  PROVE  /\ u \in Seq(Line) /\ Len(u) = Len(t) /\ Len(t) >= 1 /\ Len(t) \in Nat
         /\ u[1] = Err
         /\ \A i \in 1..Len(t) : i # 1 => u[i] = t[i]
BY DEF Line, Err

\* The first answer loses its beginning.
LEMMA Mangles ==
  ASSUME NEW t \in Seq(Line), t # <<>>, NEW h, NEW r \in Seq(Tokens), Counted(t[1].code),
         NEW c, NEW b \in Int, NEW s \in Int, InOrder(t, h, r, c, b, s)
  PROVE  InOrder([t EXCEPT ![1] = Err], h, r, c, b, s)
<1>0. PICK u : u = [t EXCEPT ![1] = Err]
  OBVIOUS
<1>m. /\ u \in Seq(Line) /\ Len(u) = Len(t) /\ Len(t) >= 1 /\ Len(t) \in Nat
      /\ u[1] = Err
      /\ \A i \in 1..Len(t) : i # 1 => u[i] = t[i]
  BY <1>0, MangledHead
<1> DEFINE W == PipeOf(t, h, r)
           V == PipeOf(u, h, r)
           n == PipeSize(t, r)
<1>1. n \in Nat /\ PipeSize(u, r) = n /\ 1 \in 1..n /\ W[1] = t[1].code /\ V[1] = "ERR"
  BY <1>m DEF PipeOf, PipeSize, Err
<1>2. \A i \in 1..n : i # 1 => V[i] = W[i]
  BY <1>m DEF PipeOf, PipeSize
<1> HIDE DEF W, V, n
<1>3. Thins(W, V, n, n, [i \in 1..n |-> i], 0, 1)
  <2>1. "ERR" \notin Acked /\ "ERR" \notin PointBodies
    BY DEF Acked, PointBodies
  <2>2. /\ V[1] \in Acked => V[1] = W[1]
        /\ V[1] \in PointBodies => W[1] \in PointBodies
        /\ Counted(V[1]) => Counted(W[1]) \/ 0 = 1
    BY <1>1, <2>1
  <2>3. n <= n /\ 0 \in Nat /\ 1 \in Int
    BY <1>1
  <2> QED
    BY <1>1, <1>2, <2>2, <2>3, ThinsSame
<1>4. PICK g : Thins(PipeOf(t, h, r), PipeOf(u, h, r), PipeSize(t, r), PipeSize(u, r), g, 0, 1)
  BY <1>1, <1>3 DEF W, V, n
<1>5. 1 \in Int /\ u \in Seq(Line)
  BY <1>m
<1>6. InOrder(u, h, r, c, b, s)
  BY <1>4, <1>5, ThinnedInOrder
<1> QED
  BY <1>0, <1>6

\* The line begun becomes an answer.
LEMMA Shifts ==
  ASSUME NEW t \in Seq(Line), NEW h, NEW r \in Seq(Tokens), NEW a \in Line, a.code = h,
         NEW c, NEW b \in Int, NEW s \in Int, InOrder(t, h, r, c, b, s)
  PROVE  InOrder(Append(t, a), "", r, c, b, s)
<1>0. PICK u : u = Append(t, a)
  OBVIOUS
<1>u. /\ u \in Seq(Line) /\ Len(u) = Len(t) + 1 /\ Len(t) \in Nat
      /\ u[Len(t) + 1] = a /\ \A i \in 1..Len(t) : u[i] = t[i]
  BY <1>0, AppendOf
<1> DEFINE W == PipeOf(t, h, r)
           V == PipeOf(u, "", r)
           n == PipeSize(t, r)
           m == PipeSize(u, r)
           k == Len(t) + 1
           g == [i \in 1..m |-> IF i <= k THEN i ELSE i - 1]
<1>1. k \in Nat /\ n \in Nat /\ m \in Nat /\ m = n + 1 /\ k >= 1 /\ k <= n
  BY <1>u DEF PipeSize
<1>2. /\ \A i \in 1..n : (i < k => W[i] = t[i].code) /\ (i > k => W[i] = r[i - k])
      /\ W[k] = h
  BY DEF PipeOf, PipeSize
<1>3. /\ \A i \in 1..m : (i < k => V[i] = u[i].code) /\ (i > k + 1 => V[i] = r[i - (k + 1)])
      /\ V[k] = u[k].code /\ V[k + 1] = ""
  <2>1. /\ \A i \in 1..Len(u) : PipeOf(u, "", r)[i] = u[i].code
        /\ PipeOf(u, "", r)[Len(u) + 1] = ""
        /\ \A i \in 1..PipeSize(u, r) : i > Len(u) + 1 => PipeOf(u, "", r)[i] = r[i - Len(u) - 1]
    <3>1. u \in Seq(Line)
      BY <1>u
    <3>2. PICK z : z = ""
      OBVIOUS
    <3>3. /\ \A i \in 1..Len(u) : PipeOf(u, z, r)[i] = u[i].code
          /\ PipeOf(u, z, r)[Len(u) + 1] = z
          /\ \A i \in 1..PipeSize(u, r) : i > Len(u) + 1 => PipeOf(u, z, r)[i] = r[i - Len(u) - 1]
      BY <3>1, PipeAt
    <3> QED
      BY <3>2, <3>3
  <2>2. Len(u) = k /\ k \in Nat /\ k >= 1 /\ m \in Nat
    BY <1>u, <1>1
  <2>3. /\ \A i \in 1..k : V[i] = u[i].code
        /\ V[k + 1] = "" /\ \A i \in 1..m : i > k + 1 => V[i] = r[i - k - 1]
    BY <2>1, <2>2
  <2> HIDE DEF V, m, k
  <2>4. ASSUME NEW i \in 1..m, i < k \/ i = k PROVE V[i] = u[i].code
    <3>1. i \in 1..k
      BY <2>2, <2>4
    <3> QED
      BY <2>3, <3>1
  <2>5. ASSUME NEW i \in 1..m, i > k + 1 PROVE V[i] = r[i - (k + 1)]
    <3>1. i - k - 1 = i - (k + 1)
      BY <2>2
    <3> QED
      BY <2>3, <2>5, <3>1
  <2>6. k \in 1..m
    BY <1>1 DEF m, k
  <2> QED
    BY <2>3, <2>4, <2>5, <2>6
<1>4. u[k] = a /\ \A i \in 1..m : i < k => u[i] = t[i]
  BY <1>u
<1> HIDE DEF W, V, n, m, k
<1>5. g \in [1..m -> 1..n]
  BY <1>1
<1>6. \A i \in 1..m : (i <= k => g[i] = i) /\ (i > k => g[i] = i - 1)
  BY <1>1
<1> HIDE DEF g
<1>7. ASSUME NEW i \in 1..m PROVE V[i] = W[g[i]] \/ V[i] = ""
  <2>1. CASE i < k
    <3>1. g[i] = i /\ i \in 1..n
      BY <2>1, <1>1, <1>6
    <3> QED
      BY <3>1, <2>1, <1>2, <1>3, <1>4
  <2>2. CASE i = k
    <3>1. g[i] = k
      BY <2>2, <1>1, <1>6
    <3> QED
      BY <3>1, <2>2, <1>2, <1>3, <1>4
  <2>3. CASE i = k + 1
    BY <2>3, <1>3
  <2>4. CASE i > k + 1
    <3>1. g[i] = i - 1
      BY <2>4, <1>1, <1>6
    <3>2. i - 1 \in 1..n /\ i - 1 > k /\ i - 1 - k = i - (k + 1)
      BY <2>4, <1>1
    <3> QED
      BY <3>1, <3>2, <2>4, <1>2, <1>3
  <2>5. i < k \/ i = k \/ i = k + 1 \/ i > k + 1
    BY <1>1
  <2> QED
    BY <2>1, <2>2, <2>3, <2>4, <2>5
<1>8. ASSUME NEW i \in 1..m, NEW j \in 1..m, i < j
      PROVE  g[i] <= g[j] /\ (V[j] # "" => g[i] < g[j])
  <2>1. (i <= k /\ g[i] = i) \/ (i > k /\ g[i] = i - 1)
    BY <1>6, <1>1
  <2>2. (j <= k /\ g[j] = j) \/ (j > k /\ g[j] = j - 1)
    BY <1>6, <1>1
  <2>3. g[i] <= g[j] /\ (j # k + 1 => g[i] < g[j])
    BY <2>1, <2>2, <1>8, <1>1
  <2>4. V[j] # "" => j # k + 1
    BY <1>3
  <2> QED
    BY <2>3, <2>4
<1>9. Thins(W, V, n, m, g, 0, 0)
  <2>1. "" \notin Acked /\ "" \notin PointBodies /\ ~Counted("")
    BY DEF Acked, PointBodies, Counted
  <2>2. \A i \in 1..m : V[i] \in Acked => V[i] = W[g[i]]
    BY <1>7, <2>1
  <2>3. \A i \in 1..m : V[i] \in PointBodies => W[g[i]] \in PointBodies
    BY <1>7, <2>1
  <2>4. \A i \in 1..m : Counted(V[i]) => Counted(W[g[i]]) \/ (0 = 1 /\ i = 0)
    BY <1>7, <2>1
  <2> QED
    BY <1>5, <1>8, <2>2, <2>3, <2>4 DEF Thins
<1>10. PICK f : Thins(PipeOf(t, h, r), PipeOf(u, "", r), PipeSize(t, r), PipeSize(u, r), f, 0, 0)
  BY <1>9 DEF W, V, n, m
<1>11. 0 \in Int /\ u \in Seq(Line)
  BY <1>u
<1>12. InOrder(u, "", r, c, b, s)
  BY <1>10, <1>11, ThinnedInOrder
<1> QED
  BY <1>0, <1>12

\* The answers are lost with the port.
LEMMA PortCloses ==
  ASSUME NEW t \in Seq(Line), NEW h, NEW r \in Seq(Tokens),
         NEW c, NEW b \in Int, NEW s \in Int, InOrder(t, h, r, c, b, s)
  PROVE  InOrder(<<>>, h, r, c, b, s)
<1>0. PICK u : u = <<>>
  OBVIOUS
<1>u. u \in Seq(Line) /\ Len(u) = 0 /\ Len(t) \in Nat /\ Len(r) \in Nat
  BY <1>0
<1> DEFINE W == PipeOf(t, h, r)
           V == PipeOf(u, h, r)
           n == PipeSize(t, r)
           m == PipeSize(u, r)
           k == Len(t)
           g == [i \in 1..m |-> i + k]
<1>1. k \in Nat /\ n \in Nat /\ m \in Nat /\ n = m + k
  BY <1>u DEF PipeSize
<1>2. \A i \in 1..m : V[i] = W[i + k]
  BY <1>u DEF PipeOf, PipeSize
<1> HIDE DEF W, V, n, m, k
<1>5. g \in [1..m -> 1..n]
  BY <1>1
<1>6. \A i \in 1..m : g[i] = i + k
  BY <1>1
<1> HIDE DEF g
<1>7. \A i \in 1..m : V[i] = W[g[i]]
  BY <1>2, <1>6
<1>8. ASSUME NEW i \in 1..m, NEW j \in 1..m, i < j PROVE g[i] <= g[j] /\ g[i] < g[j]
  <2>1. g[i] = i + k /\ g[j] = j + k
    BY <1>6
  <2> QED
    BY <2>1, <1>8, <1>1
<1>9. Thins(W, V, n, m, g, 0, 0)
  BY <1>5, <1>7, <1>8 DEF Thins
<1>10. PICK f : Thins(PipeOf(t, h, r), PipeOf(u, h, r), PipeSize(t, r), PipeSize(u, r), f, 0, 0)
  BY <1>9 DEF W, V, n, m
<1>11. 0 \in Int /\ u \in Seq(Line)
  BY <1>u
<1>12. InOrder(u, h, r, c, b, s)
  BY <1>10, <1>11, ThinnedInOrder
<1> QED
  BY <1>0, <1>12

\* The first answer is read, or lost.
LEMMA Reads ==
  ASSUME NEW t \in Seq(Line), t # <<>>, NEW h, NEW r \in Seq(Tokens), Counted(t[1].code),
         NEW c, NEW b \in Int, NEW s \in Int, InOrder(t, h, r, c, b, s)
  PROVE  InOrder(Tail(t), h, r, c, b - 1, s - 1)
<1>0. PICK u : u = Tail(t)
  OBVIOUS
<1>u. /\ u \in Seq(Line) /\ Len(u) = Len(t) - 1 /\ Len(t) \in Nat /\ Len(t) >= 1 /\ Len(r) \in Nat
      /\ \A i \in 1..(Len(t) - 1) : u[i] = t[i + 1]
  BY <1>0, TailOf
<1> DEFINE W == PipeOf(t, h, r)
           V == PipeOf(u, h, r)
           n == PipeSize(t, r)
           m == PipeSize(u, r)
<1>1. n \in Nat /\ m \in Nat /\ n = m + 1
  BY <1>u DEF PipeSize
<1>2. \A i \in 1..m : V[i] = W[i + 1]
  <2>1. ASSUME NEW i \in 1..m PROVE V[i] = W[i + 1]
    <3>1. CASE i <= Len(u)
      <4>1. V[i] = u[i].code /\ u[i] = t[i + 1] /\ i + 1 \in 1..Len(t)
        BY <3>1, <1>u DEF PipeOf, PipeSize
      <4> QED
        BY <4>1 DEF PipeOf
    <3>2. CASE i = Len(u) + 1
      <4>1. V[i] = h
        BY <3>2, <1>u DEF PipeOf, PipeSize
      <4>2. i + 1 = Len(t) + 1 /\ i + 1 \in 1..n
        BY <3>2, <1>u DEF PipeSize
      <4> QED
        BY <4>1, <4>2, <1>u DEF PipeOf, PipeSize
    <3>3. CASE i > Len(u) + 1
      <4>1. V[i] = r[i - Len(u) - 1]
        BY <3>3, <1>u DEF PipeOf, PipeSize
      <4>2. i + 1 > Len(t) + 1 /\ i + 1 \in 1..n /\ i + 1 - Len(t) - 1 = i - Len(u) - 1
        BY <3>3, <1>u DEF PipeSize
      <4>3. W[i + 1] = r[i + 1 - Len(t) - 1]
        BY <4>2, <1>u DEF PipeOf, PipeSize
      <4> QED
        BY <4>1, <4>2, <4>3
    <3>4. i \in Int /\ Len(u) \in Int
      BY <1>1, <1>u
    <3> HIDE DEF V, W, n, m
    <3> QED
      BY <3>1, <3>2, <3>3, <3>4
  <2> QED
    BY <2>1
<1>3. Counted(W[1]) /\ 1 \in 1..n
  BY <1>u DEF PipeOf, PipeSize
<1>4. Ranked(W, n, c, b, s) /\ Grouped(W, n, c)
  BY DEF InOrder
<1> HIDE DEF W, V, n, m
<1>5. Ranked(V, m, c, b - 1, s - 1)
  <2>1. PICK k \in [1..n -> Nat] :
          /\ Ranks(W, n, k)
          /\ \A i \in 1..n : k[i] <= s
          /\ c \in Acked => \A i \in 1..n : W[i] \in Acked => W[i] = c \/ k[i] <= b
    BY <1>4 DEF Ranked
  <2> DEFINE l == [i \in 1..m |-> k[i + 1] - 1]
  <2>2. ASSUME NEW i \in 1..m
        PROVE  /\ i + 1 \in 1..n /\ k[i + 1] \in Nat /\ k[i + 1] >= 1
               /\ Counted(W[i + 1]) => k[i + 1] >= 2
    <3>1. i + 1 \in 1..n /\ 1 < i + 1
      BY <1>1
    <3>2. k[1] \in Nat /\ k[i + 1] \in Nat /\ k[1] >= 1
      BY <3>1, <1>3, <2>1 DEF Ranks
    <3>3. k[1] <= k[i + 1] /\ (Counted(W[i + 1]) => k[1] < k[i + 1])
      BY <3>1, <1>3, <2>1 DEF Ranks
    <3>4. k[1] < k[i + 1] => k[i + 1] >= 2
      BY <3>2
    <3>5. k[i + 1] >= 1
      BY <3>2, <3>3
    <3> QED
      BY <3>1, <3>2, <3>3, <3>4, <3>5
  <2>3. l \in [1..m -> Nat]
    <3>1. \A i \in 1..m : k[i + 1] - 1 \in Nat
      BY <2>2
    <3> QED
      BY <3>1
  <2>4. \A i \in 1..m : l[i] = k[i + 1] - 1
    OBVIOUS
  <2> HIDE DEF l
  <2>5. Ranks(V, m, l)
    <3>1. ASSUME NEW j \in 1..m, Counted(V[j]) PROVE l[j] >= 1
      <4>1. k[j + 1] >= 2 /\ k[j + 1] \in Nat /\ l[j] = k[j + 1] - 1
        BY <3>1, <2>2, <2>4, <1>2
      <4> QED
        BY <4>1
    <3>2. ASSUME NEW j \in 1..m, NEW i \in 1..m, i < j
          PROVE  l[i] <= l[j] /\ (Counted(V[j]) => l[i] < l[j])
      <4>1. i + 1 < j + 1
        BY <3>2, <1>1
      <4>2. k[i + 1] <= k[j + 1] /\ (Counted(V[j]) => k[i + 1] < k[j + 1])
        BY <4>1, <2>1, <2>2, <1>2 DEF Ranks
      <4>3. /\ l[i] = k[i + 1] - 1 /\ l[j] = k[j + 1] - 1
            /\ k[i + 1] \in Nat /\ k[j + 1] \in Nat
        BY <2>2, <2>4
      <4> QED
        BY <4>2, <4>3
    <3> QED
      BY <3>1, <3>2 DEF Ranks
  <2>6. ASSUME NEW i \in 1..m PROVE l[i] <= s - 1
    <3>1. k[i + 1] \in Nat /\ k[i + 1] <= s /\ l[i] = k[i + 1] - 1
      BY <2>1, <2>2, <2>4
    <3> QED
      BY <3>1
  <2>7. ASSUME c \in Acked, NEW i \in 1..m, V[i] \in Acked PROVE V[i] = c \/ l[i] <= b - 1
    <3>1. V[i] = c \/ k[i + 1] <= b
      BY <2>1, <2>2, <2>7, <1>2
    <3>2. k[i + 1] \in Nat /\ l[i] = k[i + 1] - 1
      BY <2>2, <2>4
    <3>3. k[i + 1] <= b => l[i] <= b - 1
      BY <3>2
    <3> QED
      BY <3>1, <3>3
  <2> QED
    BY <2>3, <2>5, <2>6, <2>7 DEF Ranked
<1>6. Grouped(V, m, c)
  <2>1. \A i, j \in 1..m : i < j => i + 1 \in 1..n /\ j + 1 \in 1..n /\ i + 1 < j + 1
    BY <1>1
  <2>2. \A i \in 1..m : i + 1 \in 1..n
    BY <1>1
  <2> QED
    BY <2>1, <2>2, <1>2, <1>4 DEF Grouped
<1>7. InOrder(u, h, r, c, b - 1, s - 1)
  BY <1>5, <1>6 DEF InOrder, W, V, n, m
<1> QED
  BY <1>0, <1>7

\* A token is received: the command c, its line feed, or a point while points are sent.
LEMMA Gains ==
  ASSUME NEW t \in Seq(Line), NEW h, NEW r \in Seq(Tokens), NEW x \in Tokens,
         NEW c, NEW b \in Int, NEW s \in Int, NEW e \in Nat, InOrder(t, h, r, c, b, s),
         x \in Acked => x = c, x \in PointBodies => c = "DATA", Counted(x) => e = 1
  PROVE  InOrder(t, h, Append(r, x), c, b, s + e)
<1>0. PICK u : u = Append(r, x)
  OBVIOUS
<1>u. /\ u \in Seq(Tokens) /\ Len(u) = Len(r) + 1 /\ Len(r) \in Nat /\ Len(t) \in Nat
      /\ \A i \in 1..Len(r) : u[i] = r[i]
      /\ u[Len(r) + 1] = x
  BY <1>0, AppendOf
<1> DEFINE W == PipeOf(t, h, r)
           V == PipeOf(t, h, u)
           n == PipeSize(t, r)
           m == PipeSize(t, u)
<1>1. n \in Nat /\ m \in Nat /\ m = n + 1 /\ n >= 1
  BY <1>u DEF PipeSize
<1>2. \A i \in 1..n : V[i] = W[i]
  <2>1. ASSUME NEW i \in 1..n PROVE V[i] = W[i]
    <3>1. CASE i <= Len(t) + 1
      BY <3>1, <1>u DEF PipeOf, PipeSize
    <3>2. CASE i > Len(t) + 1
      <4>1. i - Len(t) - 1 \in 1..Len(r) /\ i \in 1..m
        BY <3>2, <1>u DEF PipeSize
      <4>2. W[i] = r[i - Len(t) - 1] /\ V[i] = u[i - Len(t) - 1]
        BY <3>2, <4>1, <1>u DEF PipeOf, PipeSize
      <4> QED
        BY <4>1, <4>2, <1>u
    <3>3. i \in Int /\ Len(t) \in Int
      BY <1>1, <1>u
    <3> HIDE DEF V, W, n, m
    <3> QED
      BY <3>1, <3>2, <3>3
  <2> QED
    BY <2>1
<1>3. V[m] = x
  <2>1. m > Len(t) + 1 /\ m \in 1..m /\ m - Len(t) - 1 = Len(r) + 1
    BY <1>u DEF PipeSize
  <2>2. V[m] = u[m - Len(t) - 1]
    BY <2>1, <1>u DEF PipeOf, PipeSize
  <2> QED
    BY <2>1, <2>2, <1>u
<1>4. Ranked(W, n, c, b, s) /\ Grouped(W, n, c)
  BY DEF InOrder
<1> HIDE DEF W, V, n, m
<1>m. \A i \in 1..m : i \in 1..n \/ i = m
  BY <1>1
<1>5. Ranked(V, m, c, b, s + e)
  <2>1. PICK k \in [1..n -> Nat] :
          /\ Ranks(W, n, k)
          /\ \A i \in 1..n : k[i] <= s
          /\ c \in Acked => \A i \in 1..n : W[i] \in Acked => W[i] = c \/ k[i] <= b
    BY <1>4 DEF Ranked
  <2> DEFINE l == [i \in 1..m |-> IF i = m THEN k[n] + e ELSE k[i]]
  <2>2. n \in 1..n /\ k[n] \in Nat /\ m \notin 1..n /\ m \in 1..m
    BY <1>1
  <2>3. l \in [1..m -> Nat]
    <3>1. k[n] + e \in Nat
      BY <2>2
    <3> QED
      BY <3>1, <1>m
  <2>4. l[m] = k[n] + e /\ \A i \in 1..n : l[i] = k[i] /\ k[i] \in Nat
    BY <2>2, <1>1
  <2> HIDE DEF l
  <2>5. \A i \in 1..n : k[i] <= k[n]
    <3>1. ASSUME NEW i \in 1..n PROVE k[i] <= k[n]
      <4>1. i = n \/ i < n
        BY <1>1
      <4>2. CASE i = n
        BY <4>2, <2>2
      <4>3. CASE i < n
        BY <4>3, <2>1, <2>2 DEF Ranks
      <4> QED
        BY <4>1, <4>2, <4>3
    <3> QED
      BY <3>1
  <2>6. Ranks(V, m, l)
    <3>1. ASSUME NEW j \in 1..m, Counted(V[j]) PROVE l[j] >= 1
      <4>1. CASE j \in 1..n
        <5>1. k[j] >= 1 /\ l[j] = k[j]
          BY <3>1, <4>1, <1>2, <2>1, <2>4 DEF Ranks
        <5> QED
          BY <5>1
      <4>2. CASE j = m
        <5>1. e = 1 /\ l[j] = k[n] + e
          BY <3>1, <4>2, <1>3, <2>4
        <5> QED
          BY <5>1, <2>2
      <4> QED
        BY <4>1, <4>2, <1>m
    <3>2. ASSUME NEW j \in 1..m, NEW i \in 1..m, i < j
          PROVE  l[i] <= l[j] /\ (Counted(V[j]) => l[i] < l[j])
      <4>0. i \in 1..n
        BY <3>2, <1>1
      <4>1. CASE j \in 1..n
        <5>1. k[i] <= k[j] /\ (Counted(W[j]) => k[i] < k[j])
          BY <3>2, <4>0, <4>1, <2>1 DEF Ranks
        <5>2. l[i] = k[i] /\ l[j] = k[j] /\ V[j] = W[j]
          BY <4>0, <4>1, <1>2, <2>4
        <5> QED
          BY <5>1, <5>2
      <4>2. CASE j = m
        <5>1. k[i] <= k[n] /\ l[i] = k[i] /\ l[j] = k[n] + e /\ k[i] \in Nat /\ k[n] \in Nat
          BY <4>0, <4>2, <2>2, <2>4, <2>5
        <5>2. Counted(V[j]) => e = 1
          BY <4>2, <1>3
        <5>3. l[i] <= l[j] /\ (e = 1 => l[i] < l[j])
          BY <5>1
        <5> QED
          BY <5>2, <5>3
      <4> QED
        BY <4>1, <4>2, <1>m
    <3> QED
      BY <3>1, <3>2 DEF Ranks
  <2>7. ASSUME NEW i \in 1..m PROVE l[i] <= s + e
    <3>1. (l[i] = k[i] /\ k[i] <= s /\ k[i] \in Nat) \/ (l[i] = k[n] + e /\ k[n] <= s)
      BY <2>1, <2>2, <2>4, <1>m
    <3> QED
      BY <3>1, <2>2
  <2>8. ASSUME c \in Acked, NEW i \in 1..m, V[i] \in Acked PROVE V[i] = c \/ l[i] <= b
    <3>1. CASE i \in 1..n
      BY <3>1, <2>1, <2>4, <2>8, <1>2
    <3>2. CASE i = m
      BY <3>2, <2>8, <1>3
    <3> QED
      BY <3>1, <3>2, <1>m
  <2> QED
    BY <2>3, <2>6, <2>7, <2>8 DEF Ranked
<1>6. Grouped(V, m, c)
  <2>0. "DATA" \notin Acked
    BY DEF Acked
  <2>1. ASSUME NEW i \in 1..m, NEW j \in 1..m, i < j, V[i] \in Acked
        PROVE  /\ V[j] \in Acked => V[i] = V[j] \/ V[j] = c
               /\ V[j] \in PointBodies => V[i] = "CLR"
    <3>0. i \in 1..n /\ V[i] = W[i]
      BY <2>1, <1>1, <1>2
    <3>1. CASE j \in 1..n
      BY <2>1, <3>0, <3>1, <1>2, <1>4 DEF Grouped
    <3>2. CASE j = m
      <4>1. V[j] = x
        BY <3>2, <1>3
      <4>2. x \in PointBodies => V[i] = "CLR"
        BY <2>1, <3>0, <1>4 DEF Grouped
      <4> QED
        BY <4>1, <4>2
    <3> QED
      BY <3>1, <3>2, <1>m
  <2>2. ASSUME c = "DATA", NEW i \in 1..m, V[i] \in Acked PROVE V[i] = "CLR"
    <3>1. i # m
      BY <2>0, <2>2, <1>3
    <3> QED
      BY <3>1, <2>2, <1>2, <1>4, <1>m DEF Grouped
  <2> QED
    BY <2>1, <2>2 DEF Grouped
<1>7. InOrder(t, h, u, c, b, s + e)
  BY <1>5, <1>6 DEF InOrder, W, V, n, m
<1> QED
  BY <1>0, <1>7

\* No other command than c is still to be acknowledged.
Only(t, h, r, c) ==
  /\ \A i \in 1..Len(t) : t[i].code \in Acked => t[i].code = c
  /\ h \in Acked => h = c
  /\ \A i \in 1..Len(r) : r[i] \in Acked => r[i] = c

\* The same, said of the pipe as a whole.
LEMMA OnlyPipe ==
  ASSUME NEW t \in Seq(Line), NEW h, NEW r \in Seq(Tokens), NEW c
  PROVE  Only(t, h, r, c) <=>
           \A i \in 1..PipeSize(t, r) :
             PipeOf(t, h, r)[i] \in Acked => PipeOf(t, h, r)[i] = c
<1> DEFINE W == PipeOf(t, h, r)
           k == Len(t) + 1
<1>1. /\ Len(t) \in Nat /\ Len(r) \in Nat /\ PipeSize(t, r) = k + Len(r)
      /\ \A i \in 1..Len(t) : W[i] = t[i].code
      /\ W[k] = h
      /\ \A i \in 1..PipeSize(t, r) : i > k => W[i] = r[i - k]
  <2>1. /\ Len(t) \in Nat /\ Len(r) \in Nat /\ PipeSize(t, r) = Len(t) + 1 + Len(r)
        /\ \A i \in 1..Len(t) : W[i] = t[i].code
        /\ W[Len(t) + 1] = h
        /\ \A i \in 1..PipeSize(t, r) : i > Len(t) + 1 => W[i] = r[i - Len(t) - 1]
    <3>1. W = PipeOf(t, h, r)
      OBVIOUS
    <3> HIDE DEF W
    <3> QED
      BY <3>1, PipeAt
  <2> QED
    BY <2>1
<1>2. ASSUME Only(t, h, r, c), NEW i \in 1..PipeSize(t, r), W[i] \in Acked
      PROVE  W[i] = c
  <2>1. CASE i <= Len(t)
    <3>1. i \in 1..Len(t)
      BY <1>1, <2>1
    <3> QED
      BY <1>1, <1>2, <3>1 DEF Only
  <2>2. CASE i = k
    BY <1>1, <1>2, <2>2 DEF Only
  <2>3. CASE i > k
    <3>1. i - k \in 1..Len(r) /\ W[i] = r[i - k]
      BY <1>1, <2>3
    <3> QED
      BY <1>2, <3>1 DEF Only
  <2> QED
    BY <1>1, <2>1, <2>2, <2>3
<1>3. ASSUME \A i \in 1..PipeSize(t, r) : W[i] \in Acked => W[i] = c
      PROVE  Only(t, h, r, c)
  <2>1. \A i \in 1..Len(t) : i \in 1..PipeSize(t, r)
    BY <1>1
  <2>2. k \in 1..PipeSize(t, r)
    BY <1>1
  <2>3. ASSUME NEW i \in 1..Len(r) PROVE r[i] \in Acked => r[i] = c
    <3>1. i + k \in 1..PipeSize(t, r) /\ i + k > k /\ (i + k) - k = i
      BY <1>1
    <3>2. W[i + k] = r[i]
      BY <1>1, <3>1
    <3> QED
      BY <1>3, <3>1, <3>2
  <2> QED
    BY <1>1, <1>3, <2>1, <2>2, <2>3 DEF Only
<1> QED
  BY <1>2, <1>3

\* A command is asked when no other one is waited for.
LEMMA Asks ==
  ASSUME NEW t \in Seq(Line), NEW h, NEW r \in Seq(Tokens), NEW c0, c0 \notin Acked,
         NEW c \in Acked, NEW b \in Int, NEW s \in Int, InOrder(t, h, r, c0, b, s),
         c0 = "DATA" \/ c0 = "none"
  PROVE  InOrder(t, h, r, c, s, s)
<1> DEFINE W == PipeOf(t, h, r)
           n == PipeSize(t, r)
<1>1. PICK k \in [1..n -> Nat] : Ranks(W, n, k) /\ \A i \in 1..n : k[i] <= s
  BY DEF InOrder, Ranked
<1>2. Ranked(W, n, c, s, s)
  BY <1>1 DEF Ranked
<1>3. Grouped(W, n, c)
  <2>1. "DATA" \notin Acked
    BY DEF Acked
  <2>2. /\ \A i, j \in 1..n : i < j /\ W[i] \in Acked /\ W[j] \in Acked => W[i] = W[j]
        /\ \A i, j \in 1..n : i < j /\ W[i] \in Acked /\ W[j] \in PointBodies => W[i] = "CLR"
    BY DEF InOrder, Grouped
  <2> QED
    BY <2>1, <2>2 DEF Grouped
<1> QED
  BY <1>2, <1>3 DEF InOrder

\* Once b is used up, only c is still to be acknowledged.
LEMMA NoOther ==
  ASSUME NEW t \in Seq(Line), NEW h, NEW r \in Seq(Tokens), NEW c \in Acked,
         NEW b \in Int, b <= 0, NEW s \in Int, InOrder(t, h, r, c, b, s)
  PROVE  Only(t, h, r, c)
<1> DEFINE W == PipeOf(t, h, r)
           n == PipeSize(t, r)
<1>1. PICK k \in [1..n -> Nat] :
        Ranks(W, n, k) /\ \A i \in 1..n : W[i] \in Acked => W[i] = c \/ k[i] <= b
  BY DEF InOrder, Ranked
<1>2. ASSUME NEW i \in 1..n, W[i] \in Acked PROVE W[i] = c
  <2>1. Counted(W[i])
    BY <1>2 DEF Acked, Counted, PointBodies
  <2>2. k[i] >= 1 /\ k[i] \in Nat
    BY <1>1, <2>1 DEF Ranks
  <2>3. ~(k[i] <= b)
    BY <2>2
  <2> QED
    BY <1>1, <1>2, <2>3
<1> QED
  BY <1>2, OnlyPipe

\* While points are sent only CLR may still be acknowledged.
LEMMA OnlyClear ==
  ASSUME NEW t \in Seq(Line), NEW h, NEW r \in Seq(Tokens),
         NEW b \in Int, NEW s \in Int, InOrder(t, h, r, "DATA", b, s)
  PROVE  Only(t, h, r, "CLR")
BY OnlyPipe DEF InOrder, Grouped

\* With nothing else to be acknowledged, no acknowledgement is waited for.
LEMMA Settles ==
  ASSUME NEW t \in Seq(Line), NEW h, NEW r \in Seq(Tokens), NEW c0, NEW c, NEW d,
         d \notin Acked, d = "DATA" => c = "CLR",
         NEW b \in Int, NEW b0 \in Int, NEW s \in Int, InOrder(t, h, r, c0, b0, s),
         Only(t, h, r, c)
  PROVE  InOrder(t, h, r, d, b, s)
<1> DEFINE W == PipeOf(t, h, r)
           n == PipeSize(t, r)
<1>1. \A i \in 1..n : W[i] \in Acked => W[i] = c
  BY OnlyPipe
<1>2. Ranked(W, n, d, b, s)
  BY DEF InOrder, Ranked
<1>3. Grouped(W, n, d)
  <2>1. \A i, j \in 1..n : i < j /\ W[i] \in Acked /\ W[j] \in PointBodies => W[i] = "CLR"
    BY DEF InOrder, Grouped
  <2>2. \A i, j \in 1..n : i < j /\ W[i] \in Acked /\ W[j] \in Acked => W[i] = W[j]
    BY <1>1
  <2>3. d = "DATA" => \A i \in 1..n : W[i] \in Acked => W[i] = "CLR"
    BY <1>1
  <2> QED
    BY <2>1, <2>2, <2>3 DEF Grouped
<1> QED
  BY <1>2, <1>3 DEF InOrder

\* The acknowledgement of c comes first: it is the one waited for.
LEMMA Confirms ==
  ASSUME NEW t \in Seq(Line), t # <<>>, NEW h, NEW r \in Seq(Tokens), NEW c \in Acked,
         t[1].code = c, NEW b \in Int, NEW s \in Int, InOrder(t, h, r, c, b, s)
  PROVE  /\ Only(t, h, r, c)
         /\ c # "CLR" => h \notin PointBodies /\ \A i \in 1..Len(r) : r[i] \notin PointBodies
<1> DEFINE W == PipeOf(t, h, r)
           n == PipeSize(t, r)
           k == Len(t) + 1
<1>1. /\ Len(t) \in Nat /\ Len(r) \in Nat /\ n = k + Len(r)
      /\ \A i \in 1..Len(t) : W[i] = t[i].code
      /\ W[k] = h
      /\ \A i \in 1..n : i > k => W[i] = r[i - k]
  <2>1. /\ Len(t) \in Nat /\ Len(r) \in Nat /\ PipeSize(t, r) = Len(t) + 1 + Len(r)
        /\ \A i \in 1..Len(t) : W[i] = t[i].code
        /\ W[Len(t) + 1] = h
        /\ \A i \in 1..PipeSize(t, r) : i > Len(t) + 1 => W[i] = r[i - Len(t) - 1]
    BY PipeAt
  <2> QED
    BY <2>1
<1>2. Len(t) >= 1
  OBVIOUS
<1>3. 1 \in 1..n /\ 1 \in 1..Len(t) /\ W[1] = c
  BY <1>1, <1>2
<1>4. Grouped(W, n, c)
  BY DEF InOrder
<1>5. ASSUME NEW i \in 1..n PROVE /\ W[i] \in Acked => W[i] = c
                                  /\ i > 1 /\ W[i] \in PointBodies => c = "CLR"
  <2>1. i = 1 \/ 1 < i
    OBVIOUS
  <2> QED
    BY <1>3, <1>4, <2>1 DEF Grouped
<1>6. c # "CLR" => h \notin PointBodies
  <2>1. k \in 1..n /\ k > 1
    BY <1>1, <1>2
  <2> QED
    BY <1>1, <1>5, <2>1
<1>7. ASSUME NEW i \in 1..Len(r), c # "CLR" PROVE r[i] \notin PointBodies
  <2>1. i + k \in 1..n /\ i + k > k /\ (i + k) - k = i /\ i + k > 1
    BY <1>1, <1>2
  <2>2. W[i + k] = r[i]
    BY <1>1, <2>1
  <2> QED
    BY <1>5, <1>7, <2>1, <2>2
<1> QED
  BY <1>5, <1>6, <1>7, OnlyPipe

\* A point that is begun comes after a CLR and nothing else.
LEMMA PointHeld ==
  ASSUME NEW t \in Seq(Line), NEW h \in PointBodies, NEW r \in Seq(Tokens), NEW c,
         NEW b \in Int, NEW s \in Int, InOrder(t, h, r, c, b, s)
  PROVE  \A i \in 1..Len(t) : t[i].code \in Acked => t[i].code = "CLR"
<1> DEFINE W == PipeOf(t, h, r)
           n == PipeSize(t, r)
           k == Len(t) + 1
<1>1. /\ Len(t) \in Nat /\ Len(r) \in Nat /\ n = Len(t) + 1 + Len(r)
      /\ \A i \in 1..Len(t) : W[i] = t[i].code
      /\ W[k] = h
  BY PipeAt
<1>2. ASSUME NEW i \in 1..Len(t) PROVE W[i] \in Acked => W[i] = "CLR"
  <2>1. i \in 1..n /\ k \in 1..n /\ i < k
    BY <1>1
  <2> QED
    BY <1>1, <2>1 DEF InOrder, Grouped
<1> QED
  BY <1>1, <1>2

\* The bounds may grow.
LEMMA MoreTime ==
  ASSUME NEW t \in Seq(Line), NEW h, NEW r \in Seq(Tokens), NEW c,
         NEW b \in Int, NEW s \in Int, NEW b2 \in Int, NEW s2 \in Int, b <= b2, s <= s2,
         InOrder(t, h, r, c, b, s)
  PROVE  InOrder(t, h, r, c, b2, s2)
<1> DEFINE W == PipeOf(t, h, r)
           n == PipeSize(t, r)
<1>1. PICK k \in [1..n -> Nat] :
          /\ Ranks(W, n, k)
          /\ \A i \in 1..n : k[i] <= s
          /\ c \in Acked => \A i \in 1..n : W[i] \in Acked => W[i] = c \/ k[i] <= b
  BY DEF InOrder, Ranked
<1>2. \A i \in 1..n : k[i] \in Nat
  BY <1>1
<1>3. ASSUME NEW i \in 1..n PROVE /\ k[i] <= s2 /\ (k[i] <= b => k[i] <= b2)
  BY <1>1, <1>2
<1>4. c \in Acked => \A i \in 1..n : W[i] \in Acked => W[i] = c \/ k[i] <= b2
  BY <1>1, <1>3
<1>5. Ranked(W, n, c, b2, s2)
  BY <1>1, <1>3, <1>4 DEF Ranked
<1> QED
  BY <1>5 DEF InOrder

\* Nothing is under way.
LEMMA Quiet ==
  ASSUME NEW c, NEW b \in Int, NEW s \in Nat
  PROVE  InOrder(<<>>, "", <<>>, c, b, s)
<1>0. PICK e : e = <<>>
  OBVIOUS
<1>e. e \in Seq(Line) /\ e \in Seq(Tokens) /\ Len(e) = 0
  BY <1>0
<1>z. PICK z : z = ""
  OBVIOUS
<1> DEFINE W == PipeOf(e, z, e)
           n == PipeSize(e, e)
<1>1. n = 1
  BY <1>e DEF PipeSize
<1>2. W[1] = ""
  <2>1. W = PipeOf(e, z, e)
    OBVIOUS
  <2> HIDE DEF W
  <2>2. W[Len(e) + 1] = z
    <3>1. ASSUME NEW u \in Seq(Line), NEW y, NEW q \in Seq(Tokens)
          PROVE  PipeOf(u, y, q)[Len(u) + 1] = y
      BY PipeAt
    <3>2. PipeOf(e, z, e)[Len(e) + 1] = z
      BY <1>e, <3>1
    <3> QED
      BY <2>1, <3>2
  <2>3. Len(e) + 1 = 1
    BY <1>e
  <2> QED
    BY <1>z, <2>2, <2>3
<1>3. W[1] \notin Acked /\ W[1] \notin PointBodies /\ ~Counted(W[1])
  BY <1>2 DEF Acked, PointBodies, Counted
<1>4. \A i \in 1..n : i = 1
  BY <1>1
<1>5. Grouped(W, n, c)
  BY <1>3, <1>4 DEF Grouped
<1>6. Ranked(W, n, c, b, s)
  <2> DEFINE k == [i \in 1..n |-> 0]
  <2>1. k \in [1..n -> Nat] /\ \A i \in 1..n : k[i] = 0
    OBVIOUS
  <2> HIDE DEF k
  <2>2. Ranks(W, n, k)
    BY <1>3, <1>4, <2>1 DEF Ranks
  <2>3. \A i \in 1..n : k[i] <= s
    BY <2>1
  <2>4. \A i \in 1..n : W[i] \notin Acked
    BY <1>3, <1>4
  <2> QED
    BY <2>1, <2>2, <2>3, <2>4 DEF Ranked
<1>7. InOrder(e, z, e, c, b, s)
  BY <1>5, <1>6 DEF InOrder
<1> QED
  BY <1>0, <1>z, <1>7

\* The line begun comes to nothing, and the next token with it.
LEMMA Silenced ==
  ASSUME NEW t \in Seq(Line), NEW h, NEW r \in Seq(Tokens), NEW c, NEW b \in Int, NEW s \in Int,
         InOrder(t, h, r, c, b, s)
  PROVE  /\ InOrder(t, "", r, c, b, s)
         /\ r # <<>> => InOrder(t, "", Tail(r), c, b, s)
<1>1. "" \notin Acked /\ "" \notin PointBodies /\ ~Counted("")
  BY DEF Acked, PointBodies, Counted
<1>2. InOrder(t, "", r, c, b + 0, s + 0)
  BY <1>1, Relabels
<1>3. b + 0 = b /\ s + 0 = s
  OBVIOUS
<1>4. r # <<>> => InOrder(t, "", Tail(r), c, b, s)
  BY <1>1, Merges
<1> QED
  BY <1>2, <1>3, <1>4

\* The line begun is answered, a body that is no point by an error if need be.
LEMMA Answered ==
  ASSUME NEW t \in Seq(Line), NEW h, NEW r \in Seq(Tokens), NEW c, NEW b \in Int, NEW s \in Int,
         InOrder(t, h, r, c, b, s), NEW a \in Line,
         a.code = h \/ (a.code = "ERR" /\ Counted(h))
  PROVE  /\ InOrder(Append(t, a), "", r, c, b, s)
         /\ r # <<>> => InOrder(Append(t, a), "", Tail(r), c, b, s)
<1>1. ASSUME NEW q \in Seq(Tokens), InOrder(t, h, q, c, b, s)
      PROVE  InOrder(Append(t, a), "", q, c, b, s)
  <2>1. InOrder(t, a.code, q, c, b, s)
    <3>1. CASE a.code = h
      BY <1>1, <3>1
    <3>2. CASE a.code = "ERR" /\ Counted(h)
      <4>1. "ERR" \notin Acked /\ "ERR" \notin PointBodies
        BY DEF Acked, PointBodies
      <4>2. InOrder(t, "ERR", q, c, b + 0, s + 0)
        BY <1>1, <3>2, <4>1, Relabels
      <4>3. b + 0 = b /\ s + 0 = s
        OBVIOUS
      <4> QED
        BY <3>2, <4>2, <4>3
    <3> QED
      BY <3>1, <3>2
  <2> QED
    BY <2>1, Shifts
<1>2. ASSUME r # <<>> PROVE Tail(r) \in Seq(Tokens) /\ InOrder(t, h, Tail(r), c, b, s)
  <2>1. Tail(r) \in Seq(Tokens)
    BY <1>2, TailOf
  <2>2. InOrder(t, h, Tail(r), c, b, s)
    BY <1>2, Merges
  <2> QED
    BY <2>1, <2>2
<1> QED
  BY <1>1, <1>2

\* A line nobody asked for.
LEMMA Unrequested ==
  ASSUME NEW t \in Seq(Line), NEW r \in Seq(Tokens), NEW c, NEW b \in Int, NEW s \in Int,
         InOrder(t, "", r, c, b, s), NEW a \in Line, a.code \in {"ERR", "BOOT"}
  PROVE  InOrder(Append(t, a), "", r, c, b + 1, s + 1)
<1>1. a.code \notin Acked /\ a.code \notin PointBodies
  BY DEF Acked, PointBodies
<1>2. InOrder(t, a.code, r, c, b + 1, s + 1)
  BY <1>1, Relabels
<1>3. b + 1 \in Int /\ s + 1 \in Int
  BY NextInt
<1> QED
  BY <1>2, <1>3, Shifts
-----------------------------------------------------------------------------
\* A line that main() sends when it starts.
BootLine == [code |-> "BOOT", count |-> 0]

\* What the MCU sends is an answer, and each answer is a line.
LEMMA RepliesTyped ==
  /\ Err \in Replies
  /\ \A c \in Acked, n \in 0..FrameBufLen : Ack(c, n) \in Replies
  /\ Replies \subseteq Line
<1>1. 0 \in 0..FrameBufLen
  BY FirmwareAssumption
<1>2. Acked \subseteq Bodies /\ \A n \in 0..FrameBufLen : n \in Nat
  BY DEF Acked, Bodies
<1> QED
  BY <1>1, <1>2 DEF Err, Ack, Replies, Line

\* An answer is known by its code and its count.
LEMMA KindsOfLines ==
  /\ \A codes : Lines(codes) = {a \in Replies : a.code \in codes}
  /\ Err.code = "ERR" /\ BootLine.code = "BOOT"
  /\ \A x, n : Ack(x, n).code = x /\ Ack(x, n).count = n
BY DEF Lines, Err, BootLine, Ack

\* One answer more.
LEMMA OneMore ==
  ASSUME NEW S, NEW t \in Seq(S), NEW a \in S
  PROVE  t \o <<a>> = Append(t, a)
OBVIOUS

\* Three boot lines more.
LEMMA Boots ==
  ASSUME NEW S, NEW t \in Seq(S), NEW a \in S
  PROVE  t \o [i \in 1..3 |-> a] = Append(Append(Append(t, a), a), a)
<1>1. PICK u : u = [i \in 1..3 |-> a]
  OBVIOUS
<1>2. u = <<a, a, a>>
  BY <1>1
<1>3. t \o <<a, a, a>> = Append(Append(Append(t, a), a), a)
  OBVIOUS
<1> QED
  BY <1>1, <1>2, <1>3

\* Each answer counts, and what is left of the answers are answers.
LEMMA CountedReply ==
  ASSUME NEW t \in Seq(Replies), t # <<>>
  PROVE  Counted(t[1].code) /\ Head(t) = t[1] /\ t[1] \in Replies /\ Tail(t) \in Seq(Replies)
<1>1. Head(t) = t[1] /\ Head(t) \in Replies /\ Tail(t) \in Seq(Replies)
  BY TailOf
<1> QED
  BY <1>1 DEF Replies, Acked, Counted, PointBodies

\* What is said of the answers after others when one is added, ...
LEMMA FollowedAppended ==
  ASSUME NEW t \in Seq(Replies), NEW a \in Replies, NEW olds, NEW news, a \notin olds,
         Followed(t, olds, news) \/ a \in news
  PROVE  Followed(Append(t, a), olds, news)
<1>0. PICK u : u = Append(t, a)
  OBVIOUS
<1>u. /\ Len(u) = Len(t) + 1 /\ Len(t) \in Nat
      /\ \A i \in 1..Len(t) : u[i] = t[i]
      /\ u[Len(t) + 1] = a
  BY <1>0, AppendOf
<1>1. ASSUME NEW p \in 1..Len(u), u[p] \in olds
      PROVE  \E q \in 1..Len(u) : q > p /\ u[q] \in news
  <2>1. p \in 1..Len(t) /\ t[p] \in olds
    BY <1>u, <1>1
  <2>2. CASE a \in news
    <3>1. Len(t) + 1 \in 1..Len(u) /\ Len(t) + 1 > p /\ u[Len(t) + 1] \in news
      BY <1>u, <2>1, <2>2
    <3> QED
      BY <3>1
  <2>3. CASE Followed(t, olds, news)
    <3>1. PICK q \in 1..Len(t) : q > p /\ t[q] \in news
      BY <2>1, <2>3 DEF Followed
    <3>2. q \in 1..Len(u) /\ u[q] \in news
      BY <1>u, <3>1
    <3> QED
      BY <3>1, <3>2
  <2> QED
    BY <2>2, <2>3
<1>2. Followed(u, olds, news)
  BY <1>1 DEF Followed
<1> QED
  BY <1>0, <1>2

\* The first is read or lost.
LEMMA FollowedRead ==
  ASSUME NEW t \in Seq(Replies), t # <<>>, NEW olds, NEW news, Followed(t, olds, news)
  PROVE  Followed(Tail(t), olds, news)
<1>0. PICK u : u = Tail(t)
  OBVIOUS
<1>u. /\ Len(u) = Len(t) - 1 /\ Len(t) \in Nat /\ Len(t) >= 1
      /\ \A i \in 1..(Len(t) - 1) : u[i] = t[i + 1]
  BY <1>0, TailOf
<1>1. ASSUME NEW p \in 1..Len(u), u[p] \in olds
      PROVE  \E q \in 1..Len(u) : q > p /\ u[q] \in news
  <2>1. p + 1 \in 1..Len(t) /\ t[p + 1] \in olds
    BY <1>u, <1>1
  <2>2. PICK q \in 1..Len(t) : q > p + 1 /\ t[q] \in news
    BY <2>1 DEF Followed
  <2>3. q - 1 \in 1..Len(u) /\ q - 1 > p /\ (q - 1) + 1 = q
    BY <1>u, <2>2
  <2>4. u[q - 1] = t[q]
    BY <1>u, <2>3
  <2> QED
    BY <2>2, <2>3, <2>4
<1>2. Followed(u, olds, news)
  BY <1>1 DEF Followed
<1> QED
  BY <1>0, <1>2

\* The first loses its beginning.
LEMMA FollowedMangled ==
  ASSUME NEW t \in Seq(Replies), t # <<>>, NEW olds, NEW news, Err \notin olds,
         Followed(t, olds, news)
  PROVE  Followed([t EXCEPT ![1] = Err], olds, news)
<1>0. PICK u : u = [t EXCEPT ![1] = Err]
  OBVIOUS
<1>u. /\ Len(u) = Len(t) /\ Len(t) \in Nat /\ Len(t) >= 1
      /\ u[1] = Err
      /\ \A i \in 1..Len(t) : i # 1 => u[i] = t[i]
  BY <1>0
<1>1. ASSUME NEW p \in 1..Len(u), u[p] \in olds
      PROVE  \E q \in 1..Len(u) : q > p /\ u[q] \in news
  <2>1. p # 1 /\ p \in 1..Len(t) /\ t[p] \in olds
    BY <1>u, <1>1
  <2>2. PICK q \in 1..Len(t) : q > p /\ t[q] \in news
    BY <2>1 DEF Followed
  <2>3. q # 1 /\ u[q] = t[q] /\ q \in 1..Len(u)
    BY <1>u, <2>1, <2>2
  <2> QED
    BY <2>2, <2>3
<1>2. Followed(u, olds, news)
  BY <1>1 DEF Followed
<1> QED
  BY <1>0, <1>2

\* There is none.
LEMMA FollowedEmpty == \A olds, news : Followed(<<>>, olds, news)
<1>1. PICK u : u = <<>>
  OBVIOUS
<1>2. \A olds, news : Followed(u, olds, news)
  BY <1>1 DEF Followed
<1> QED
  BY <1>1, <1>2
-----------------------------------------------------------------------------
\* The points in the ring.
PointsOf(r) == Cardinality({i \in 1..Len(r) : r[i] = "DATA"})

\* A ring holds finitely many.
LEMMA PointsFinite ==
  ASSUME NEW r \in Seq(Tokens)
  PROVE  IsFiniteSet({i \in 1..Len(r) : r[i] = "DATA"}) /\ PointsOf(r) \in Nat
<1>1. IsFiniteSet(1..Len(r))
  BY FS_Interval
<1>2. IsFiniteSet({i \in 1..Len(r) : r[i] = "DATA"})
  BY <1>1, FS_Subset
<1> QED
  BY <1>2, FS_CardinalityType DEF PointsOf

\* An empty ring holds none.
LEMMA PointsNone == PointsOf(<<>>) = 0
<1>1. PICK r : r = <<>>
  OBVIOUS
<1>2. {i \in 1..Len(r) : r[i] = "DATA"} = {}
  BY <1>1
<1>3. PointsOf(r) = 0
  BY <1>2, FS_EmptySet DEF PointsOf
<1> QED
  BY <1>1, <1>3

\* A token that comes in adds one at most.
LEMMA PointsGained ==
  ASSUME NEW r \in Seq(Tokens), NEW x \in Tokens
  PROVE  PointsOf(Append(r, x)) <= PointsOf(r) + (IF x = "DATA" THEN 1 ELSE 0)
<1>0. PICK u : u = Append(r, x)
  OBVIOUS
<1>u. /\ Len(u) = Len(r) + 1 /\ Len(r) \in Nat
      /\ \A i \in 1..Len(r) : u[i] = r[i]
      /\ u[Len(r) + 1] = x
  BY <1>0, AppendOf
<1> DEFINE A == {i \in 1..Len(r) : r[i] = "DATA"}
           B == {i \in 1..Len(u) : u[i] = "DATA"}
<1>1. IsFiniteSet(A) /\ Cardinality(A) \in Nat
  BY PointsFinite DEF PointsOf
<1>2. Cardinality(B) <= Cardinality(A) + (IF x = "DATA" THEN 1 ELSE 0)
  <2>1. CASE x = "DATA"
    <3>1. B \subseteq A \cup {Len(r) + 1}
      BY <1>u
    <3>2. /\ IsFiniteSet(A \cup {Len(r) + 1})
          /\ Cardinality(A \cup {Len(r) + 1}) =
               IF Len(r) + 1 \in A THEN Cardinality(A) ELSE Cardinality(A) + 1
      BY <1>1, FS_AddElement
    <3>3. IsFiniteSet(B) /\ Cardinality(B) <= Cardinality(A \cup {Len(r) + 1})
      BY <3>1, <3>2, FS_Subset
    <3>4. Cardinality(B) \in Nat
      BY <3>3, FS_CardinalityType
    <3>5. Cardinality(A \cup {Len(r) + 1}) <= Cardinality(A) + 1
      BY <1>1, <3>2
    <3>6. Cardinality(A \cup {Len(r) + 1}) \in Nat
      BY <3>2, FS_CardinalityType
    <3> HIDE DEF A, B
    <3> QED
      BY <2>1, <1>1, <3>3, <3>4, <3>5, <3>6
  <2>2. CASE x # "DATA"
    <3>1. B = A
      BY <1>u, <2>2
    <3> HIDE DEF A, B
    <3> QED
      BY <2>2, <1>1, <3>1
  <2> QED
    BY <2>1, <2>2
<1>3. PointsOf(u) <= PointsOf(r) + (IF x = "DATA" THEN 1 ELSE 0)
  BY <1>2 DEF PointsOf
<1> QED
  BY <1>0, <1>3

\* A token that is taken adds none.
LEMMA PointsTaken ==
  ASSUME NEW r \in Seq(Tokens), r # <<>>
  PROVE  PointsOf(Tail(r)) <= PointsOf(r)
<1>0. PICK u : u = Tail(r)
  OBVIOUS
<1>u. /\ Len(u) = Len(r) - 1 /\ Len(r) \in Nat /\ Len(r) >= 1
      /\ \A i \in 1..(Len(r) - 1) : u[i] = r[i + 1]
  BY <1>0, TailOf
<1> DEFINE A == {i \in 1..Len(r) : r[i] = "DATA"}
           B == {i \in 1..Len(u) : u[i] = "DATA"}
           f == [i \in B |-> i + 1]
<1>1. IsFiniteSet(A)
  BY PointsFinite
<1>2. \A i \in B : i \in Nat /\ i + 1 \in A
  BY <1>u
<1>3. f \in Injection(B, A)
  <2>1. f \in [B -> A]
    BY <1>2
  <2>2. \A i, j \in B : f[i] = f[j] => i = j
    BY <1>2
  <2> QED
    BY <2>1, <2>2 DEF Injection, IsInjective
<1>4. Cardinality(B) <= Cardinality(A)
  BY <1>1, <1>3, FS_Injection
<1>5. PointsOf(u) <= PointsOf(r)
  BY <1>4 DEF PointsOf
<1> QED
  BY <1>0, <1>5

\* Answers sent are answers to read, if there is a port.
LEMMA SentTyped ==
  ASSUME NEW a \in Replies, toHost \in Seq(Replies), ~port => toHost = <<>>, port' = port,
         \/ Sent(<<a>>)
         \/ Sent([i \in 1..3 |-> a])
  PROVE  toHost' \in Seq(Replies) /\ (~port' => toHost' = <<>>)
<1>1. CASE ~port
  BY <1>1 DEF Sent
<1>2. CASE port /\ Sent(<<a>>)
  BY <1>2, AppendOf, OneMore DEF Sent
<1>3. CASE port /\ Sent([i \in 1..3 |-> a])
  <2>1. toHost' = Append(Append(Append(toHost, a), a), a)
    BY <1>3, Boots DEF Sent
  <2> QED
    BY <1>3, <2>1, AppendOf
<1> QED
  BY <1>1, <1>2, <1>3

\* Lines gone astray are counted up.
LEMMA AstrayTyped ==
  ASSUME strays \in 0..(Retries + 1), NEW n \in Nat,
         Astray(n) \/ strays' = strays \/ (port /\ Astray(n)) \/ (~port /\ strays' = strays)
  PROVE  strays' \in 0..(Retries + 1) /\ strays <= strays'
BY WireAssumption DEF Astray

\* Bodies joined are a body.
LEMMA JoinedTyped ==
  \A line \in Bodies \cup {""}, body \in Bodies : Joined(line, body) \in Bodies
BY DEF Joined, Bodies, PointBodies

\* What the firmware does to the wire.
LEMMA McuWireKept ==
  ASSUME McuSession, Mcu
  PROVE  /\ WireTypes' /\ (~port' => toHost' = <<>>) /\ port' = port
         /\ strays <= strays' /\ faults <= faults'
<1>t. /\ port \in BOOLEAN /\ toHost \in Seq(Replies) /\ (~port => toHost = <<>>)
      /\ strays \in 0..(Retries + 1) /\ faults \in 0..MaxFaults /\ loaded \in 0..FrameBufLen
  BY DEF McuSession, McuTypes, WireTypes, PlayerTypes, Ported
<1>a. Err \in Replies /\ BootLine \in Replies
  BY FirmwareAssumption, RepliesTyped DEF BootLine, Replies
<1>1. port' = port
  BY DEF Mcu, MainLoop, FirmwareFaults, Process, RingEmpty, ProcessBody, EmptyLine, Clear,
         LoadDone, Stop, Data, DataRefused, UnknownCommand, StartRefused, StartPrepares,
         StartPlays, TickStops, RxError, TickFails, StartFails, Reboot, CompleteLine, wire
<1>2. faults' \in 0..MaxFaults /\ faults <= faults'
  <2>1. faults' = faults \/ Fault
    BY DEF Mcu, MainLoop, FirmwareFaults, Process, RingEmpty, ProcessBody, EmptyLine, Clear,
         LoadDone, Stop, Data, DataRefused, UnknownCommand, StartRefused, StartPrepares,
         StartPlays, TickStops, RxError, TickFails, StartFails, Reboot, CompleteLine, wire
  <2> QED
    BY <1>t, <2>1, WireAssumption DEF Fault
<1>3. \/ toHost' = toHost
      \/ \E a \in Replies : Sent(<<a>>)
      \/ Sent([i \in 1..3 |-> BootLine])
  <2>1. CASE MainLoop
    <3>1. Ack("CLR", 0) \in Replies /\ Ack("START", 0) \in Replies
      BY FirmwareAssumption, RepliesTyped DEF Acked
    <3>2. Ack("LOAD_DONE", loaded) \in Replies /\ Ack("STOP", loaded) \in Replies
      BY <1>t, RepliesTyped DEF Acked
    <3>3. \/ toHost' = toHost
          \/ Sent(<<Err>>) \/ Sent(<<Ack("CLR", 0)>>) \/ Sent(<<Ack("START", 0)>>)
          \/ Sent(<<Ack("LOAD_DONE", loaded)>>) \/ Sent(<<Ack("STOP", loaded)>>)
      BY <2>1 DEF MainLoop, Process, RingEmpty, ProcessBody, EmptyLine, Clear, Unasked,
         LoadDone, Stop, Data, DataRefused, UnknownCommand, StartRefused, StartPrepares,
         StartPlays, wire, Answer
    <3> QED
      BY <1>a, <3>1, <3>2, <3>3
  <2>2. CASE TickStops \/ FirmwareFaults
    <3>1. toHost' = toHost \/ Sent(<<Err>>) \/ Sent([i \in 1..3 |-> BootLine])
      BY <2>2 DEF TickStops, FirmwareFaults, RxError, TickFails, StartFails, Reboot, Answer,
                  Unasked, wire, BootLine
    <3> QED
      BY <1>a, <3>1
  <2> QED
    BY <2>1, <2>2 DEF Mcu
<1>4. toHost' \in Seq(Replies) /\ (~port' => toHost' = <<>>)
  BY <1>a, <1>t, <1>1, <1>3, SentTyped
<1>5. strays' \in 0..(Retries + 1) /\ strays <= strays'
  <2>1. Len([i \in 1..3 |-> BootLine]) = 3 /\ Len(<<Err>>) = 1
    OBVIOUS
  <2>2. \/ strays' = strays
        \/ port /\ Astray(1)
        \/ port /\ Astray(3)
    <3>1. CASE MainLoop
      BY <3>1, <2>1 DEF MainLoop, Process, RingEmpty, ProcessBody, EmptyLine, Clear, Unasked,
         LoadDone, Stop, Data, DataRefused, UnknownCommand, StartRefused, StartPrepares,
         StartPlays, wire, Answer
    <3>2. CASE TickStops \/ FirmwareFaults
      BY <3>2, <2>1 DEF TickStops, FirmwareFaults, RxError, TickFails, StartFails, Reboot, Answer,
                  Unasked, wire, BootLine
    <3> QED
      BY <3>1, <3>2 DEF Mcu
  <2> QED
    BY <1>t, <2>2, AstrayTyped
<1> QED
  BY <1>1, <1>2, <1>4, <1>5, <1>t DEF WireTypes

\* What the firmware does to the ring, the line begun and the fast stop.
LEMMA McuUart ==
  ASSUME McuSession, Mcu
  PROVE  UartTypes'
<1>t. UartTypes
  BY DEF McuSession, McuTypes
<1>p. Points = PointsOf(ring) /\ Points' = PointsOf(ring')
  BY DEF Points, PointsOf
<1>1. /\ ring' = ring \/ (ring # <<>> /\ ring' = Tail(ring)) \/ ring' = <<>>
      /\ overflow' = overflow \/ overflow' = FALSE
      /\ deaf' = deaf \/ deaf' = FALSE \/ deaf' = TRUE
      /\ fast' = fast \/ fast' = ""
      /\ main' \in {main, "drain", "poll", "start"}
  <2>1. CASE MainLoop
    BY <2>1 DEF MainLoop, Process, RingEmpty, ProcessBody, EmptyLine, Clear, LoadDone, Stop,
       Data, DataRefused, UnknownCommand, StartRefused, StartPrepares, StartPlays,
       CompleteLine, uart
  <2>2. CASE TickStops \/ FirmwareFaults
    BY <2>2 DEF TickStops, FirmwareFaults, RxError, TickFails, StartFails, Reboot, uart
  <2> QED
    BY <2>1, <2>2 DEF Mcu
<1>2. \/ cmd' = cmd \/ cmd' = ""
      \/ ring # <<>> /\ Head(ring) # "LF" /\ cmd' = Joined(cmd, Head(ring))
  <2>1. CASE MainLoop
    BY <2>1 DEF MainLoop, Process, RingEmpty, ProcessBody, EmptyLine, Clear, LoadDone, Stop,
       Data, DataRefused, UnknownCommand, StartRefused, StartPrepares, StartPlays,
       CompleteLine, uart
  <2>2. CASE TickStops \/ FirmwareFaults
    BY <2>2 DEF TickStops, FirmwareFaults, RxError, TickFails, StartFails, Reboot, uart
  <2> QED
    BY <2>1, <2>2 DEF Mcu
<1>3. cmd' \in Bodies \cup {""}
  <2>1. ASSUME ring # <<>>, Head(ring) # "LF" PROVE Head(ring) \in Bodies
    BY <1>t, <2>1, TailOf DEF UartTypes, Tokens
  <2> QED
    BY <1>t, <1>2, <2>1, JoinedTyped DEF UartTypes
<1>4. ring' \in Seq(Tokens) /\ Points' <= RingLines
  <2>1. CASE ring' = ring
    BY <1>t, <1>p, <2>1 DEF UartTypes
  <2>2. CASE ring # <<>> /\ ring' = Tail(ring)
    <3>1. ring' \in Seq(Tokens)
      BY <1>t, <2>2, TailOf DEF UartTypes
    <3>2. PointsOf(ring') <= PointsOf(ring)
      BY <1>t, <2>2, PointsTaken DEF UartTypes
    <3>3. PointsOf(ring) \in Nat /\ PointsOf(ring') \in Nat
      BY <1>t, <3>1, PointsFinite DEF UartTypes
    <3>4. PointsOf(ring) <= RingLines /\ RingLines \in Nat
      BY <1>t, <1>p, FirmwareAssumption DEF UartTypes
    <3> QED
      BY <1>p, <3>1, <3>2, <3>3, <3>4
  <2>3. CASE ring' = <<>>
    BY <1>p, <2>3, PointsNone, FirmwareAssumption
  <2> QED
    BY <1>1, <2>1, <2>2, <2>3
<1> QED
  BY <1>t, <1>1, <1>3, <1>4 DEF UartTypes

\* What the firmware does to the player.
LEMMA McuPlayer ==
  ASSUME McuSession, Mcu
  PROVE  PlayerTypes' /\ Played' /\ Observed'
<1>t. PlayerTypes /\ UartTypes /\ Played /\ Observed /\ faults \in Nat
  BY WireAssumption DEF McuSession, McuTypes, WireTypes
<1>z. 0 \in 0..FrameBufLen
  BY FirmwareAssumption
<1>1. CASE MainLoop
  <2>1. PlayerTypes' /\ Played'
    <3>1. CASE Process
      BY <1>t, <3>1, FirmwareAssumption
      DEF PlayerTypes, Played, CompleteLine, uart, frames, Process
    <3>2. CASE RingEmpty
      BY <1>t, <3>2, FirmwareAssumption
      DEF PlayerTypes, Played, CompleteLine, uart, frames, RingEmpty
    <3>3. CASE ProcessBody
      BY <1>t, <3>3, FirmwareAssumption
      DEF PlayerTypes, Played, CompleteLine, uart, frames, ProcessBody
    <3>4. CASE EmptyLine
      BY <1>t, <3>4, FirmwareAssumption
      DEF PlayerTypes, Played, CompleteLine, uart, frames, EmptyLine
    <3>5. CASE Clear
      BY <1>t, <1>z, <3>5 DEF PlayerTypes, Played, CompleteLine, Clear, ResetBuffer
    <3>6. CASE LoadDone
      BY <1>t, <3>6, FirmwareAssumption
      DEF PlayerTypes, Played, CompleteLine, uart, frames, LoadDone
    <3>7. CASE Stop
      BY <1>t, <3>7, FirmwareAssumption
      DEF PlayerTypes, Played, CompleteLine, uart, frames, Stop, StopImmediate
    <3>8. CASE Data
      <4>1. loaded + 1 \in 0..FrameBufLen
        BY <1>t, <3>8, FirmwareAssumption DEF PlayerTypes, Data, MayLoad
      <4>2. /\ loaded' = loaded + 1 /\ player' = "READY" /\ player # "PLAYING"
            /\ UNCHANGED <<stopReq, output, stopHeard, main>> /\ cmd' = "" /\ main # "start"
        BY <3>8 DEF Data, LoadFrame, MayLoad, CompleteLine
      <4> QED
        BY <1>t, <4>1, <4>2 DEF PlayerTypes, Played
    <3>9. CASE DataRefused
      BY <1>t, <3>9, FirmwareAssumption
      DEF PlayerTypes, Played, CompleteLine, uart, frames, DataRefused
    <3>10. CASE UnknownCommand
      BY <1>t, <3>10, FirmwareAssumption
      DEF PlayerTypes, Played, CompleteLine, uart, frames, UnknownCommand
    <3>11. CASE StartRefused
      BY <1>t, <3>11, FirmwareAssumption
      DEF PlayerTypes, Played, CompleteLine, uart, frames, StartRefused
    <3>12. CASE StartPrepares
      BY <1>t, <3>12, FirmwareAssumption
      DEF PlayerTypes, Played, CompleteLine, uart, frames, StartPrepares
    <3>13. CASE StartPlays
      BY <1>t, <3>13, FirmwareAssumption
      DEF PlayerTypes, Played, CompleteLine, uart, frames, StartPlays
    <3> QED
      BY <1>1, <3>1, <3>2, <3>3, <3>4, <3>5, <3>6, <3>7, <3>8, <3>9, <3>10, <3>11, <3>12, <3>13
      DEF MainLoop
  <2>3. /\ fast' = fast /\ (deaf' = deaf \/ deaf' = FALSE) /\ faults' = faults
        /\ phase' = phase /\ command' = command
    BY <1>1 DEF Mcu, MainLoop, Process, RingEmpty, ProcessBody, EmptyLine, Clear, LoadDone,
       Stop, Data, DataRefused, UnknownCommand, StartRefused, StartPrepares, StartPlays,
       CompleteLine, uart, wire, controller, sending
  <2>4. Observed'
    BY <1>t, <2>3 DEF Observed
  <2> QED
    BY <2>1, <2>4
<1>2. CASE TickStops
  <2>1. PlayerTypes' /\ Played'
    BY <1>t, <1>2 DEF PlayerTypes, Played, TickStops, StopImmediate
  <2>2. UNCHANGED <<fast, deaf, faults, phase, command>>
    BY <1>2 DEF Mcu, TickStops, uart, wire, controller, sending
  <2> QED
    BY <1>t, <2>1, <2>2 DEF Observed
<1>3. CASE FirmwareFaults
  <2>1. PlayerTypes' /\ Played'
    <3>1. CASE RxError
      BY <1>t, <3>1, FirmwareAssumption DEF PlayerTypes, Played, uart, frames, RxError
    <3>2. CASE TickFails
      BY <1>t, <3>2, FirmwareAssumption DEF PlayerTypes, Played, uart, frames, TickFails
    <3>3. CASE StartFails
      BY <1>t, <3>3, FirmwareAssumption DEF PlayerTypes, Played, uart, frames, StartFails
    <3>4. CASE Reboot
      BY <1>t, <1>z, <3>4 DEF PlayerTypes, Played, Reboot
    <3> QED
      BY <1>3, <3>1, <3>2, <3>3, <3>4 DEF FirmwareFaults
  <2>3. faults' = faults + 1
    BY <1>3 DEF FirmwareFaults, RxError, TickFails, StartFails, Reboot, Fault
  <2>4. faults' # 0
    BY <1>t, <2>3
  <2> QED
    BY <2>1, <2>4 DEF Observed
<1> QED
  BY <1>1, <1>2, <1>3 DEF Mcu

\* The firmware keeps McuSession.
LEMMA McuKeepsSession == McuSession /\ Mcu => McuSession'
<1> SUFFICES ASSUME McuSession, Mcu PROVE McuSession'
  OBVIOUS
<1>1. UNCHANGED <<connected, ready, scanning, points, waveform, call, command, phase, attempt,
                  size, sent, stopped, calls>>
  BY DEF Mcu, controller, status, sending
<1>2. StatusTypes' /\ CallTypes' /\ Scripted'
  BY <1>1 DEF McuSession, McuTypes, StatusTypes, CallTypes, Scripted
<1>3. Ported'
  BY <1>1, McuWireKept DEF McuSession, Ported
<1> QED
  BY <1>2, <1>3, McuWireKept, McuUart, McuPlayer DEF McuSession, McuTypes

\* A token comes in.
LEMMA RxTyped ==
  ASSUME McuSession, NEW x \in Tokens, RxCplt(x)
  PROVE  UartTypes' /\ PlayerTypes' /\ Played'
<1>t. UartTypes /\ PlayerTypes /\ Played
  BY DEF McuSession, McuTypes
<1>p. Points = PointsOf(ring) /\ Points' = PointsOf(ring')
  BY DEF Points, PointsOf
<1>n. PointsOf(ring) \in Nat /\ RingLines \in Nat \ {0} /\ PointsOf(ring) <= RingLines
  BY <1>t, <1>p, PointsFinite, FirmwareAssumption DEF UartTypes
<1>1. /\ deaf' = deaf /\ cmd' = cmd /\ main' = main /\ player' = player /\ loaded' = loaded
      /\ output' = output
      /\ fast' = fast \/ fast' = (IF x = "LF" THEN "" ELSE Joined(fast, x))
      /\ overflow' = overflow \/ overflow' = TRUE
  BY DEF RxCplt, ObserveFastStop, Store
<1>2. stopReq' \in BOOLEAN /\ stopHeard' \in BOOLEAN
  <2>1. CASE deaf
    BY <2>1, <1>t DEF RxCplt, PlayerTypes
  <2>2. CASE ~deaf
    BY <2>2 DEF RxCplt, ObserveFastStop
  <2> QED
    BY <2>1, <2>2
<1>3. fast' \in Bodies \cup {""}
  BY <1>1, <1>t, JoinedTyped DEF UartTypes, Tokens
<1>4. \/ ring' = ring
      \/ Points < RingLines /\ ring' = Append(ring, x)
      \/ ring' = Append(ring, "CUT")
  BY DEF RxCplt, Store
<1>5. ring' \in Seq(Tokens) /\ PointsOf(ring') <= RingLines
  <2>1. CASE ring' = ring
    BY <1>t, <1>n, <2>1 DEF UartTypes
  <2>2. CASE Points < RingLines /\ ring' = Append(ring, x)
    <3>1. ring' \in Seq(Tokens)
      BY <1>t, <2>2, AppendOf DEF UartTypes
    <3>2. PointsOf(ring') <= PointsOf(ring) + (IF x = "DATA" THEN 1 ELSE 0)
      BY <1>t, <2>2, PointsGained DEF UartTypes
    <3>3. PointsOf(ring') \in Nat
      BY <3>1, PointsFinite
    <3>4. PointsOf(ring) + (IF x = "DATA" THEN 1 ELSE 0) <= RingLines
      BY <1>n, <1>p, <2>2
    <3>5. PointsOf(ring) + (IF x = "DATA" THEN 1 ELSE 0) \in Nat
      BY <1>n
    <3> QED
      BY <1>n, <3>1, <3>2, <3>3, <3>4, <3>5
  <2>3. CASE ring' = Append(ring, "CUT")
    <3>0. "CUT" \in Tokens /\ "CUT" # "DATA"
      BY DEF Tokens, Bodies, PointBodies
    <3>1. ring' \in Seq(Tokens)
      BY <1>t, <2>3, <3>0, AppendOf DEF UartTypes
    <3>2. PointsOf(ring') <= PointsOf(ring) + 0
      <4>1. PointsOf(ring') <= PointsOf(ring) + (IF "CUT" = "DATA" THEN 1 ELSE 0)
        BY <1>t, <2>3, <3>0, PointsGained DEF UartTypes
      <4> QED
        BY <3>0, <4>1
    <3>3. PointsOf(ring') \in Nat
      BY <3>1, PointsFinite
    <3> QED
      BY <1>n, <3>1, <3>2, <3>3
  <2> QED
    BY <1>4, <2>1, <2>2, <2>3
<1>6. UartTypes'
  BY <1>t, <1>p, <1>1, <1>3, <1>5 DEF UartTypes
<1>7. PlayerTypes' /\ Played'
  BY <1>t, <1>1, <1>2 DEF PlayerTypes, Played
<1> QED
  BY <1>6, <1>7

\* The parts of McuSession, with the constants as numbers.
LEMMA SessionParts ==
  ASSUME McuSession
  PROVE  /\ ControllerTypes /\ WireTypes /\ UartTypes /\ PlayerTypes /\ Played /\ Observed
         /\ attempt \in Nat /\ Retries \in Nat /\ faults \in Nat /\ strays \in Nat
         /\ FrameBufLen \in Nat /\ size \in Nat /\ sent \in Nat /\ MaxFaults \in Nat
<1>1. size \in Nat
  BY LinkAssumption DEF McuSession, McuTypes, CallTypes
<1> QED
  BY <1>1, WireAssumption, FirmwareAssumption
  DEF McuSession, McuTypes, CallTypes, WireTypes, ControllerTypes

\* What the order of the pipe needs of it.
LEMMA SessionFacts ==
  ASSUME McuSession
  PROVE  /\ port \in BOOLEAN /\ toHost \in Seq(Replies) /\ (~port => toHost = <<>>)
         /\ strays \in Nat /\ Retries \in Nat /\ loaded \in 0..FrameBufLen /\ faults \in Nat
         /\ ring \in Seq(Tokens) /\ cmd \in Bodies \cup {""} /\ (main = "start" => cmd = "")
         /\ toHost \in Seq(Line)
<1>1. toHost \in Seq(Replies)
  BY SessionParts DEF WireTypes
<1>2. toHost \in Seq(Line)
  BY <1>1, RepliesTyped
<1> QED
  BY <1>1, <1>2, SessionParts
  DEF ControllerTypes, WireTypes, UartTypes, PlayerTypes, Ported, Played

\* McuSession from its parts.
LEMMA SessionMade ==
  ASSUME ControllerTypes', WireTypes', UartTypes', PlayerTypes', Played', Observed'
  PROVE  McuSession'
BY DEF McuSession, McuTypes, ControllerTypes

\* The firmware is left alone.
LEMMA Untouched ==
  ASSUME McuSession, UNCHANGED firmware
  PROVE  UartTypes' /\ PlayerTypes' /\ Played'
<1>1. UNCHANGED <<ring, overflow, deaf, fast, cmd, main, stopReq, player, loaded, output,
                  stopHeard>>
  BY DEF firmware, uart, frames
<1> QED
  BY <1>1, SessionParts DEF UartTypes, PlayerTypes, Played, Points

\* A call gives up.
LEMMA GivenUp ==
  ASSUME McuSession, NEW rest \in Seq(Replies), GiveUp(rest), phase # "idle",
         stopped' = stopped, calls' = calls
  PROVE  /\ ControllerTypes' /\ phase' = "idle" /\ toHost' \in Seq(Replies) /\ port' \in BOOLEAN
<1>t. ControllerTypes /\ FrameBufLen \in Nat /\ Retries \in Nat /\ WireTypes
  BY SessionParts
<1>p. port = TRUE
  BY <1>t DEF ControllerTypes, Ported, WireTypes
<1>0. 0 \in 0..FrameBufLen /\ 0 \in 0..Retries /\ 0 \in 0..0
  BY <1>t
<1>1. /\ phase' = "idle" /\ call' = "none" /\ command' = "CLR" /\ attempt' = 0
      /\ size' = 0 /\ sent' = 0
  BY DEF GiveUp, Finish
<1>2. CallTypes' /\ Scripted'
  <2>1. CallTypes'
    BY <1>0, <1>1 DEF CallTypes, Calls, Acked
  <2>2. ready' => points' > 0
    BY <1>t DEF ControllerTypes, Scripted, GiveUp, Forget, status
  <2> QED
    BY <1>1, <2>1, <2>2 DEF Scripted
<1>3. StatusTypes'
  BY <1>t, <1>0 DEF ControllerTypes, StatusTypes, GiveUp, Forget, status
<1>4. <<>> \in Seq(Replies)
  OBVIOUS
<1>5. toHost' \in Seq(Replies) /\ port' \in BOOLEAN
  BY <1>4, <1>p DEF GiveUp, status
<1>6. Ported'
  <2>1. CASE port' = port
    BY <2>1, <1>p, <1>1 DEF Ported
  <2>2. CASE port' # port
    BY <2>2, <1>1 DEF Ported, GiveUp
  <2> QED
    BY <2>1, <2>2
<1> QED
  BY <1>1, <1>2, <1>3, <1>5, <1>6 DEF ControllerTypes

\* The next round, or none.
LEMMA Retried ==
  ASSUME McuSession, NEW rest \in Seq(Replies), Retry(rest), phase # "idle", command # "DATA",
         stopped' = stopped, calls' = calls
  PROVE  /\ ControllerTypes' /\ phase' \in {"idle", "body"}
         /\ toHost' \in Seq(Replies) /\ port' \in BOOLEAN
<1>1. CASE ~MoreAttempts /\ GiveUp(rest)
  BY <1>1, GivenUp
<1>2. CASE /\ MoreAttempts /\ attempt' = NextAttempt /\ phase' = "body"
           /\ toHost' = rest /\ UNCHANGED <<call, command, size, sent, status, port>>
  <2>t. /\ ControllerTypes /\ Retries \in Nat /\ WireTypes /\ attempt \in Nat
        /\ UNCHANGED <<connected, ready, scanning, points, waveform>>
    BY <1>2, SessionParts DEF status
  <2>1. attempt' \in 0..Retries
    BY <2>t, <1>2 DEF MoreAttempts, NextAttempt
  <2>2. StatusTypes' /\ CallTypes'
    BY <2>t, <2>1, <1>2 DEF ControllerTypes, StatusTypes, CallTypes
  <2>3. Scripted'
    BY <2>t, <1>2 DEF ControllerTypes, Scripted
  <2>4. Ported'
    BY <2>t, <1>2 DEF ControllerTypes, Ported
  <2> QED
    BY <2>t, <2>2, <2>3, <2>4, <1>2 DEF ControllerTypes, WireTypes
<1> QED
  BY <1>1, <1>2 DEF Retry

\* Calls that send nothing.
LEMMA QuickKeepsSession ==
  ASSUME McuSession, Configure \/ Connect \/ Disconnect \/ Refused
  PROVE  McuSession'
<1>t. /\ ControllerTypes /\ WireTypes /\ FrameBufLen \in Nat /\ Observed
      /\ calls \in Nat /\ MaxCalls \in Nat
  BY SessionParts, LinkAssumption DEF ControllerTypes, StatusTypes
<1>0. 0 \in 0..FrameBufLen /\ <<>> \in Seq(Replies)
  BY <1>t
<1>q. Quick
  BY DEF Configure, Connect, Disconnect, Refused
<1>1. /\ UNCHANGED firmware /\ UNCHANGED <<call, command, phase, attempt, size, sent, stopped>>
      /\ phase = "idle" /\ faults' = faults
      /\ calls' = calls + 1 /\ calls < MaxCalls
  BY <1>q DEF Quick, MayCall, sending
<1>2. StatusTypes'
  <2>1. calls' \in 0..MaxCalls
    BY <1>t, <1>1
  <2> QED
    BY <1>t, <1>0, <1>1, <2>1
    DEF ControllerTypes, StatusTypes, Configure, Connect, Disconnect, Refused, Forget
<1>3. CallTypes'
  BY <1>t, <1>1 DEF ControllerTypes, CallTypes
<1>4. Scripted' /\ Ported'
  <2>1. ready' => points' > 0
    BY <1>t DEF ControllerTypes, Scripted, Configure, Connect, Disconnect,
                Refused, Forget
  <2>2. Scripted'
    BY <1>t, <1>1, <2>1 DEF ControllerTypes, Scripted
  <2> QED
    BY <1>t, <1>1, <2>2
    DEF ControllerTypes, Ported, Configure, Connect, Disconnect, Refused
<1>5. WireTypes'
  BY <1>t, <1>0, <1>1 DEF WireTypes, Configure, Connect, Disconnect, Refused
<1>6. Observed'
  BY <1>t, <1>1 DEF Observed, firmware, uart
<1> QED
  BY <1>1, <1>2, <1>3, <1>4, <1>5, <1>6, Untouched, SessionMade DEF ControllerTypes

\* A call that sends something begins.
LEMMA BeginKeepsSession ==
  ASSUME McuSession, (\E n \in Sizes : BeginUpload(n)) \/ BeginStart \/ BeginStop
  PROVE  McuSession'
<1>t. /\ ControllerTypes /\ WireTypes /\ FrameBufLen \in Nat /\ Retries \in Nat /\ Observed
      /\ calls \in Nat /\ MaxCalls \in Nat
  BY SessionParts, LinkAssumption DEF ControllerTypes, StatusTypes
<1>0. 0 \in 0..FrameBufLen /\ 0 \in 0..Retries
  BY <1>t
<1>1. PICK c \in {"UPLOAD", "START", "STOP"} : Begin(c) /\ Sends(IF c = "UPLOAD" THEN "CLR" ELSE c)
  BY DEF BeginUpload, BeginStart, BeginStop
<1>2. /\ UNCHANGED firmware /\ UNCHANGED wire /\ phase = "idle" /\ call' = c
      /\ calls' = calls + 1 /\ calls < MaxCalls
      /\ command' = (IF c = "UPLOAD" THEN "CLR" ELSE c) /\ phase' = "body" /\ attempt' = 0
      /\ UNCHANGED <<connected, scanning, waveform>>
  BY <1>1 DEF Begin, MayCall, Sends
<1>3. StatusTypes'
  <2>1. calls' \in 0..MaxCalls
    BY <1>t, <1>2
  <2> QED
    BY <1>t, <1>0, <1>2, <2>1
    DEF ControllerTypes, StatusTypes, BeginUpload, BeginStart, BeginStop
<1>4. size' \in Sizes \cup {0} /\ sent' \in 0..size'
  <2>1. CASE \E n \in Sizes : BeginUpload(n)
    <3>1. PICK n \in Sizes : BeginUpload(n)
      BY <2>1
    <3>2. n \in Nat /\ size' = n /\ sent' = 0
      BY <3>1, LinkAssumption DEF BeginUpload
    <3> QED
      BY <3>1, <3>2
  <2>2. CASE BeginStart \/ BeginStop
    BY <2>2, <1>t DEF ControllerTypes, CallTypes, BeginStart, BeginStop
  <2> QED
    BY <2>1, <2>2
<1>5. CallTypes'
  BY <1>0, <1>1, <1>2, <1>4 DEF CallTypes, Calls, Acked
<1>6. ready' => points' > 0
  BY <1>t, <1>2 DEF ControllerTypes, Scripted, BeginUpload, BeginStart, BeginStop
<1>7. Scripted'
  <2>1. CASE \E n \in Sizes : BeginUpload(n)
    <3>1. PICK n \in Sizes : BeginUpload(n)
      BY <2>1
    <3>2. n \in Nat \ {0}
      BY <3>1, LinkAssumption
    <3>3. /\ call' = "UPLOAD" /\ command' = "CLR" /\ points' = 0 /\ ~scanning' /\ size' = n
          /\ sent' = 0 /\ phase' = "body"
      BY <3>1, <1>2 DEF BeginUpload, Begin, Sends
    <3>4. size' > 0
      BY <3>2, <3>3
    <3> QED
      BY <1>6, <3>3, <3>4 DEF Scripted
  <2>2. CASE BeginStart
    BY <2>2, <1>6, <1>2 DEF Scripted, BeginStart, Begin, Sends
  <2>3. CASE BeginStop
    BY <2>3, <1>6, <1>2 DEF Scripted, BeginStop, Begin, Sends
  <2> QED
    BY <2>1, <2>2, <2>3
<1>8. Ported'
  BY <1>t, <1>2 DEF ControllerTypes, Ported, BeginUpload, BeginStart, BeginStop, wire
<1>9. WireTypes'
  BY <1>t, <1>2 DEF WireTypes, wire
<1>10. Observed'
  BY <1>t, <1>2 DEF Observed, firmware, uart, wire
<1> QED
  BY <1>2, <1>3, <1>5, <1>7, <1>8, <1>9, <1>10, Untouched, SessionMade DEF ControllerTypes

\* The body of a command is written.
LEMMA WriteBodyKeepsSession ==
  ASSUME McuSession, WriteBody
  PROVE  McuSession'
<1>t. /\ ControllerTypes /\ WireTypes /\ Observed
  BY SessionParts
<1>1. /\ UNCHANGED <<connected, ready, scanning, points, waveform, call, command, attempt, size,
                     sent, port, toHost, strays, faults, stopped, calls>>
      /\ phase = "body" /\ phase' = "lf"
  BY DEF WriteBody, status, wire, Kept
<1>2. command \in Tokens /\ command # "LF" /\ command \in Bodies
  BY <1>t DEF ControllerTypes, CallTypes, Acked, Tokens, Bodies, PointBodies
<1>3. UartTypes' /\ PlayerTypes' /\ Played'
  BY <1>2, RxTyped DEF WriteBody
<1>4. StatusTypes' /\ CallTypes' /\ WireTypes'
  BY <1>t, <1>1 DEF ControllerTypes, StatusTypes, CallTypes, WireTypes
<1>5. Scripted' /\ Ported'
  BY <1>t, <1>1 DEF ControllerTypes, Scripted, Ported
<1>6. Observed'
  BY <1>t, <1>1, <1>2 DEF Observed, WriteBody, RxCplt, ObserveFastStop, Joined
<1> QED
  BY <1>3, <1>4, <1>5, <1>6, SessionMade DEF ControllerTypes

\* Its line feed is written.
LEMMA WriteLfKeepsSession ==
  ASSUME McuSession, WriteLf
  PROVE  McuSession'
<1>t. /\ ControllerTypes /\ WireTypes /\ Observed /\ Retries \in Nat /\ size \in Nat /\ sent \in Nat
  BY SessionParts
<1>1. /\ UNCHANGED <<connected, ready, scanning, points, waveform, call, size, port, toHost,
                     strays, faults, stopped, calls>>
      /\ phase = "lf"
  BY DEF WriteLf, status, wire, Kept
<1>2. UartTypes' /\ PlayerTypes' /\ Played'
  BY RxTyped DEF WriteLf, Tokens
<1>3. StatusTypes' /\ WireTypes'
  BY <1>t, <1>1 DEF ControllerTypes, StatusTypes, WireTypes
<1>4. CallTypes' /\ Scripted' /\ Ported'
  <2>1. CASE command # "DATA" /\ phase' = "await" /\ UNCHANGED <<command, attempt, sent>>
    BY <2>1, <1>t, <1>1 DEF ControllerTypes, CallTypes, Scripted, Ported
  <2>2. CASE /\ command = "DATA" /\ sent' = sent + 1
             /\ Sends(IF sent' < size THEN "DATA" ELSE "LOAD_DONE")
    <3>1. /\ call = "UPLOAD" /\ points = 0 /\ ~scanning /\ size > 0 /\ sent < size
          /\ command' = (IF sent' < size THEN "DATA" ELSE "LOAD_DONE")
          /\ phase' = "body" /\ attempt' = 0
      BY <2>2, <1>t, <1>1 DEF ControllerTypes, Scripted, Sends
    <3>2. sent' \in 0..size'
      BY <3>1, <2>2, <1>1, <1>t
    <3>3. 0 \in 0..Retries
      BY <1>t
    <3>4. CallTypes'
      BY <3>1, <3>2, <3>3, <1>1, <1>t DEF ControllerTypes, CallTypes, Acked
    <3>5. Scripted'
      BY <3>1, <1>1, <1>t DEF ControllerTypes, Scripted
    <3>6. Ported'
      BY <3>1, <1>1, <1>t DEF ControllerTypes, Ported
    <3> QED
      BY <3>4, <3>5, <3>6
  <2> QED
    BY <2>1, <2>2 DEF WriteLf
<1>5. phase' \in {"await", "body"}
  BY DEF WriteLf, Sends
<1>6. Observed'
  BY <1>t, <1>1, <1>5 DEF Observed, WriteLf, RxCplt, ObserveFastStop
<1> QED
  BY <1>2, <1>3, <1>4, <1>6, SessionMade DEF ControllerTypes

\* A write fails.
LEMMA WriteFailsKeepsSession ==
  ASSUME McuSession, WriteFails
  PROVE  McuSession'
<1>t. /\ ControllerTypes /\ WireTypes /\ Observed /\ faults \in Nat /\ MaxFaults \in Nat
  BY SessionParts
<1>1. /\ faults' = faults + 1 /\ faults < MaxFaults /\ strays' = strays
      /\ stopped' = stopped /\ calls' = calls /\ phase # "idle"
  BY DEF WriteFails, Fault, Kept
<1>2. UartTypes' /\ PlayerTypes' /\ Played'
  <2>1. Cut(command) \in Tokens /\ "LF" \in Tokens
    BY DEF Cut, Tokens, Bodies, PointBodies
  <2>2. UNCHANGED firmware \/ RxCplt(Cut(command)) \/ RxCplt("LF")
    BY DEF WriteFails
  <2> QED
    BY <2>1, <2>2, Untouched, RxTyped
<1>3. ControllerTypes' /\ toHost' \in Seq(Replies) /\ port' \in BOOLEAN
  <2>1. toHost \in Seq(Replies)
    BY <1>t DEF WireTypes
  <2>2. CASE command = "DATA"
    <3>1. GiveUp(toHost)
      BY <2>2 DEF WriteFails
    <3> QED
      BY <2>1, <3>1, <1>1, GivenUp
  <2>3. CASE command # "DATA"
    <3>1. Retry(toHost)
      BY <2>3 DEF WriteFails
    <3> QED
      BY <2>1, <2>3, <3>1, <1>1, Retried
  <2> QED
    BY <2>2, <2>3
<1>4. WireTypes'
  <2>1. faults' \in 0..MaxFaults
    BY <1>1, <1>t
  <2> QED
    BY <1>1, <1>3, <1>t, <2>1 DEF WireTypes
<1>5. faults' # 0
  BY <1>1, <1>t
<1> QED
  BY <1>2, <1>3, <1>4, <1>5, SessionMade DEF Observed

\* An answer is read that is none, or none in time.
LEMMA AwaitKeepsSession ==
  ASSUME McuSession, ReadOther \/ ReadTimesOut
  PROVE  McuSession'
<1>t. /\ ControllerTypes /\ WireTypes /\ Observed /\ toHost \in Seq(Replies)
  BY SessionParts DEF WireTypes
<1>1. /\ UNCHANGED firmware /\ faults' = faults /\ stopped' = stopped /\ calls' = calls
      /\ phase = "await"
  BY DEF ReadOther, ReadTimesOut, Kept
<1>2. strays' \in 0..(Retries + 1)
  BY <1>t, AstrayTyped DEF ReadOther, ReadTimesOut, WireTypes
<1>3. command # "DATA"
  BY <1>1, <1>t DEF ControllerTypes, Scripted
<1>4. PICK rest \in Seq(Replies) : Retry(rest)
  <2>1. Retry(toHost) \/ (toHost # <<>> /\ Retry([toHost EXCEPT ![1] = Err]))
        \/ (toHost # <<>> /\ Retry(Tail(toHost)))
    BY DEF ReadOther, ReadTimesOut
  <2>2. toHost # <<>> => Tail(toHost) \in Seq(Replies)
    BY <1>t, TailOf
  <2>3. toHost # <<>> => [toHost EXCEPT ![1] = Err] \in Seq(Replies)
    BY <1>t, RepliesTyped, FirstReplaced
  <2> QED
    BY <1>t, <2>1, <2>2, <2>3
<1>5. /\ ControllerTypes' /\ phase' \in {"idle", "body"}
      /\ toHost' \in Seq(Replies) /\ port' \in BOOLEAN
  BY <1>1, <1>3, <1>4, Retried
<1>6. WireTypes'
  BY <1>1, <1>2, <1>5, <1>t DEF WireTypes
<1>7. Observed'
  BY <1>1, <1>5, <1>t DEF Observed, firmware, uart
<1> QED
  BY <1>1, <1>5, <1>6, <1>7, Untouched, SessionMade

\* The answer is the one that was asked for.
LEMMA ConfirmedKeepsSession ==
  ASSUME McuSession, ConfirmedClear \/ ConfirmedLoad \/ ConfirmedStart \/ ConfirmedStop
  PROVE  McuSession'
<1>t. /\ ControllerTypes /\ WireTypes /\ Observed /\ toHost \in Seq(Replies)
      /\ Retries \in Nat /\ FrameBufLen \in Nat /\ size \in Nat
  BY SessionParts DEF WireTypes
<1>1. /\ phase = "await" /\ toHost # <<>> /\ toHost' = Tail(toHost)
      /\ UNCHANGED firmware /\ UNCHANGED <<port, strays, faults, connected, calls>>
  BY DEF ConfirmedClear, ConfirmedLoad, ConfirmedStart, ConfirmedStop, Confirmed
<1>2. toHost' \in Seq(Replies) /\ Head(toHost).count \in 0..FrameBufLen
  <2>1. toHost' \in Seq(Replies) /\ Head(toHost) \in Replies
    BY <1>t, <1>1, TailOf
  <2> QED
    BY <2>1 DEF Replies
<1>3. port = TRUE
  BY <1>t, <1>1 DEF ControllerTypes, Ported, WireTypes
<1>0. 0 \in 0..FrameBufLen /\ 0 \in 0..Retries /\ 0 \in 0..0
  BY <1>t
<1>4. StatusTypes'
  <2>t. StatusTypes /\ size \in Sizes \cup {0}
    BY <1>t DEF ControllerTypes, CallTypes
  <2>1. CASE ConfirmedClear
    BY <2>1, <2>t, <1>1 DEF StatusTypes, ConfirmedClear
  <2>2. CASE ConfirmedLoad
    BY <2>2, <2>t, <1>0, <1>1, <1>2 DEF StatusTypes, ConfirmedLoad, Count, Forget
  <2>3. CASE ConfirmedStart
    BY <2>3, <2>t, <1>1 DEF StatusTypes, ConfirmedStart
  <2>4. CASE ConfirmedStop
    <3>1. /\ scanning' = FALSE /\ points' = Head(toHost).count
          /\ ready' = (Head(toHost).count > 0) /\ stopped' = TRUE /\ waveform' = waveform
      BY <2>4 DEF ConfirmedStop, Count
    <3>2. ready' \in BOOLEAN
      BY <3>1
    <3> QED
      BY <3>1, <3>2, <2>t, <1>1, <1>2 DEF StatusTypes
  <2> QED
    BY <2>1, <2>2, <2>3, <2>4
<1>5. CallTypes' /\ Scripted'
  <2>1. CASE ConfirmedClear
    <3>1. /\ command = "CLR" /\ command' = "DATA" /\ phase' = "body" /\ attempt' = 0
          /\ UNCHANGED <<ready, scanning, points, waveform, call, size, sent, stopped>>
      BY <2>1 DEF ConfirmedClear, Confirmed, Sends
    <3>2. /\ call = "UPLOAD" /\ points = 0 /\ ~scanning /\ size > 0 /\ sent = 0
      BY <3>1, <1>1, <1>t DEF ControllerTypes, Scripted
    <3>3. CallTypes'
      BY <3>1, <1>0, <1>t DEF ControllerTypes, CallTypes
    <3> QED
      BY <3>1, <3>2, <3>3, <1>t DEF ControllerTypes, Scripted
  <2>2. CASE ConfirmedLoad \/ ConfirmedStart \/ ConfirmedStop
    <3>1. /\ phase' = "idle" /\ call' = "none" /\ command' = "CLR" /\ attempt' = 0
          /\ size' = 0 /\ sent' = 0
      BY <2>2 DEF ConfirmedLoad, ConfirmedStart, ConfirmedStop, Finish
    <3>2. CallTypes'
      BY <3>1, <1>0 DEF CallTypes, Calls, Acked
    <3>3. ready' => points' > 0
      <4>1. CASE ConfirmedLoad
        <5>1. size > 0
          BY <4>1, <1>1, <1>t DEF ConfirmedLoad, Confirmed, ControllerTypes, Scripted
        <5> QED
          BY <4>1, <5>1 DEF ConfirmedLoad, Verified, Forget
      <4>2. CASE ConfirmedStart
        BY <4>2, <1>t DEF ConfirmedStart, ControllerTypes, Scripted
      <4>3. CASE ConfirmedStop
        BY <4>3 DEF ConfirmedStop
      <4> QED
        BY <2>2, <4>1, <4>2, <4>3
    <3> QED
      BY <3>1, <3>2, <3>3 DEF Scripted
  <2> QED
    BY <2>1, <2>2
<1>6. WireTypes' /\ Ported'
  BY <1>1, <1>2, <1>3, <1>t DEF WireTypes, Ported
<1>7. phase' \in {"idle", "body"}
  BY DEF ConfirmedClear, ConfirmedLoad, ConfirmedStart, ConfirmedStop, Finish, Sends
<1>8. Observed'
  BY <1>1, <1>7, <1>t DEF Observed, firmware, uart
<1> QED
  BY <1>1, <1>4, <1>5, <1>6, <1>8, Untouched, SessionMade DEF ControllerTypes

\* An answer is lost.
LEMMA AnswerLostKeepsSession ==
  ASSUME McuSession, AnswerLost
  PROVE  McuSession'
<1>t. /\ ControllerTypes /\ WireTypes /\ Observed /\ toHost \in Seq(Replies)
      /\ faults \in Nat /\ MaxFaults \in Nat
  BY SessionParts DEF WireTypes
<1>1. /\ toHost # <<>> /\ toHost' = Tail(toHost) /\ faults' = faults + 1 /\ faults < MaxFaults
      /\ UNCHANGED <<port, strays>> /\ UNCHANGED firmware
      /\ UNCHANGED <<connected, ready, scanning, points, waveform, call, command, phase, attempt,
                     size, sent, stopped, calls>>
  BY DEF AnswerLost, LoseAnswer, Fault, controller, status, sending
<1>2. toHost' \in Seq(Replies) /\ faults' \in 0..MaxFaults /\ faults' # 0
  BY <1>t, <1>1, TailOf
<1>3. ControllerTypes'
  BY <1>t, <1>1 DEF ControllerTypes, StatusTypes, CallTypes, Scripted, Ported
<1>4. WireTypes' /\ Observed'
  BY <1>t, <1>1, <1>2 DEF WireTypes, Observed
<1> QED
  BY <1>1, <1>3, <1>4, Untouched, SessionMade

\* Every step keeps McuSession.
LEMMA SessionStep == McuSession /\ [Next]_vars => McuSession'
<1> SUFFICES ASSUME McuSession, [Next]_vars PROVE McuSession'
  OBVIOUS
<1>1. CASE NewCall
  BY <1>1, QuickKeepsSession, BeginKeepsSession DEF NewCall
<1>2. CASE CallGoesOn
  BY <1>2, WriteBodyKeepsSession, WriteLfKeepsSession, AwaitKeepsSession, ConfirmedKeepsSession
  DEF CallGoesOn
<1>3. CASE WriteFails
  BY <1>3, WriteFailsKeepsSession
<1>4. CASE Mcu
  BY <1>4, McuKeepsSession
<1>5. CASE AnswerLost
  BY <1>5, AnswerLostKeepsSession
<1>6. CASE UNCHANGED vars
  <2>1. /\ UNCHANGED <<port, toHost, strays, faults>> /\ UNCHANGED firmware
        /\ UNCHANGED <<connected, ready, scanning, points, waveform, call, command, phase,
                       attempt, size, sent, stopped, calls>>
    BY <1>6 DEF vars, wire, controller, status, sending
  <2>t. ControllerTypes /\ WireTypes /\ Observed
    BY SessionParts
  <2>2. ControllerTypes'
    BY <2>1, <2>t DEF ControllerTypes, StatusTypes, CallTypes, Scripted, Ported
  <2>3. WireTypes'
    BY <2>1, <2>t DEF WireTypes
  <2>4. Observed'
    BY <2>1, <2>t DEF Observed, firmware, uart
  <2> QED
    BY <2>1, <2>2, <2>3, <2>4, Untouched, SessionMade
<1> QED
  BY <1>1, <1>2, <1>3, <1>4, <1>5, <1>6 DEF Next

\* It holds at first.
LEMMA SessionStart == Init => McuSession
<1> SUFFICES ASSUME Init PROVE McuSession
  OBVIOUS
<1>0. /\ 0 \in 0..FrameBufLen /\ 0 \in 0..Retries /\ 0 \in 0..0 /\ 0 \in 0..MaxFaults
      /\ 0 \in 0..(Retries + 1) /\ 0 \in 0..MaxCalls /\ <<>> \in Seq(Replies)
      /\ <<>> \in Seq(Tokens)
  BY WireAssumption, FirmwareAssumption, LinkAssumption
<1>1. WireTypes
  BY <1>0 DEF Init, WireInit, WireTypes
<1>2. UartTypes
  <2>1. Points = 0
    BY PointsNone DEF Init, FirmwareInit, Points, PointsOf
  <2>2. Points <= RingLines
    BY <2>1, FirmwareAssumption
  <2> QED
    BY <1>0, <2>2 DEF Init, FirmwareInit, UartTypes
<1>3. PlayerTypes /\ StatusTypes /\ CallTypes
  BY <1>0 DEF Init, FirmwareInit, PlayerTypes, StatusTypes, CallTypes, Calls, Acked
<1>4. Ported /\ Scripted /\ Played /\ Observed
  BY DEF Init, WireInit, FirmwareInit, Ported, Scripted, Played, Observed
<1> QED
  BY <1>1, <1>2, <1>3, <1>4 DEF McuSession, McuTypes

\* It is an invariant however much goes astray.
LEMMA SessionInvariant == Spec => []McuSession
BY SessionStart, SessionStep, PTL DEF Spec

\* It implies the type invariant.
LEMMA SessionTyped == McuSession => TypeOK
<1> SUFFICES ASSUME McuSession PROVE TypeOK
  OBVIOUS
<1>1. toHost \in Seq(Line)
  BY RepliesTyped DEF McuSession, McuTypes, WireTypes
<1>2. command \in Bodies
  BY DEF McuSession, McuTypes, CallTypes, Acked, Bodies, PointBodies
<1> QED
  BY <1>1, <1>2 DEF McuSession, McuTypes, WireTypes, UartTypes, PlayerTypes, StatusTypes,
     CallTypes, TypeOK, WireTypeOK, FirmwareTypeOK

\* Types hold on both ends of the link: the controller's status stays within the frame buffer,
\* the ring holds no more points than it has room for, attempts stay within the retries.
THEOREM McuTypesHold == Spec => []TypeOK
BY SessionInvariant, SessionTyped, PTL
-----------------------------------------------------------------------------
\* What the lemmas on the pipe ask of the two bounds.
LEMMA Bounds ==
  ASSUME McuSession
  PROVE  /\ (strays + faults) - attempt \in Int /\ strays + faults + Owed \in Int
         /\ strays + faults \in Int /\ strays + faults \in Nat
         /\ strays \in Nat /\ faults \in Nat /\ attempt \in Nat /\ Owed \in {0, 1}
<1>1. strays \in Nat /\ faults \in Nat /\ attempt \in Nat
  BY SessionParts
<1>2. Owed \in {0, 1}
  BY DEF Owed
<1> QED
  BY <1>1, <1>2

\* Orderly, as two bounds.
LEMMA OrderlyNext == Orderly' => strays' <= Retries /\ strays' + faults' <= Retries + 1
BY DEF Orderly

\* What is orderly after a step was so before it.
LEMMA OrderlyBefore == McuSession /\ [Next]_vars /\ Orderly' => Orderly
<1> SUFFICES ASSUME McuSession, [Next]_vars, Orderly' PROVE Orderly
  OBVIOUS
<1>t. /\ strays \in Nat /\ faults \in Nat /\ Retries \in Nat /\ strays \in 0..(Retries + 1)
  BY SessionParts DEF WireTypes
<1>1. (strays' = strays \/ Astray(1) \/ Mcu) /\ (faults' = faults \/ faults' = faults + 1 \/ Mcu)
  <2>1. CASE NewCall
    BY <2>1 DEF NewCall, Configure, Connect, Disconnect, Refused, Quick, BeginUpload,
       BeginStart, BeginStop, Begin, wire
  <2>2. CASE CallGoesOn
    BY <2>2 DEF CallGoesOn, WriteBody, WriteLf, ReadOther, ReadTimesOut, ConfirmedClear,
       ConfirmedLoad, ConfirmedStart, ConfirmedStop, Confirmed, wire
  <2>3. CASE WriteFails \/ AnswerLost \/ Mcu
    BY <2>3 DEF WriteFails, AnswerLost, LoseAnswer, Fault
  <2>4. CASE UNCHANGED vars
    BY <2>4 DEF vars, wire
  <2> QED
    BY <2>1, <2>2, <2>3, <2>4 DEF Next
<1>2. strays <= strays' /\ faults <= faults'
  <2>1. CASE Mcu
    BY <2>1, McuWireKept
  <2>2. CASE ~Mcu
    <3>1. Astray(1) => strays' = strays + 1 \/ strays' = strays
      <4>1. Astray(1) /\ ~(strays + 1 > Retries) => strays' = strays + 1
        BY DEF Astray
      <4>2. Astray(1) /\ strays + 1 > Retries => strays' = Retries + 1
        BY DEF Astray
      <4>3. strays' <= Retries
        BY OrderlyNext
      <4>4. \A n \in Nat : ~(n + 1 <= n)
        OBVIOUS
      <4> QED
        BY <1>t, <4>1, <4>2, <4>3, <4>4
    <3> QED
      BY <1>1, <1>t, <2>2, <3>1
  <2> QED
    BY <2>1, <2>2
<1>3. \A x, x1, f, f1, n \in Nat :
        x <= x1 /\ f <= f1 /\ x1 <= n /\ x1 + f1 <= n + 1 => x <= n /\ x + f <= n + 1
  OBVIOUS
<1>4. strays' \in Nat /\ faults' \in Nat
  <2>1. McuSession'
    BY SessionStep
  <2>2. strays' \in 0..(Retries + 1) /\ faults' \in 0..MaxFaults
    BY <2>1 DEF McuSession, McuTypes, WireTypes
  <2> QED
    BY <2>2, WireAssumption
<1>5. strays' <= Retries /\ strays' + faults' <= Retries + 1
  BY OrderlyNext
<1>6. strays <= Retries /\ strays + faults <= Retries + 1
  BY <1>t, <1>2, <1>3, <1>4, <1>5
<1> QED
  BY <1>6 DEF Orderly

\* Faults are counted up.
LEMMA FaultsGrow ==
  ASSUME McuSession, Mcu
  PROVE  faults \in Nat /\ faults' \in Nat /\ faults <= faults'
<1>1. faults' \in 0..MaxFaults
  BY McuKeepsSession DEF McuSession, McuTypes, WireTypes
<1>2. faults' \in Nat
  BY <1>1, WireAssumption
<1> QED
  BY <1>2, McuWireKept, SessionFacts

\* What a step of the firmware adds to the lines gone astray.
LEMMA StraysGrow ==
  ASSUME strays \in Nat, Retries \in Nat, strays' <= Retries
  PROVE  /\ strays' = strays => strays' - strays = 0
         /\ Astray(1) => strays' - strays = 1
         /\ Astray(3) => strays' - strays = 3
BY DEF Astray

\* An answer is sent for the line begun, if there is a port.
LEMMA AnsweredWire ==
  ASSUME toHost \in Seq(Replies), ~port => toHost = <<>>, port \in BOOLEAN,
         NEW a \in Replies, Sent(<<a>>),
         NEW h, ring \in Seq(Tokens), NEW c, NEW b \in Int, NEW s \in Int,
         InOrder(toHost, h, ring, c, b, s), a.code = h \/ (a.code = "ERR" /\ Counted(h))
  PROVE  /\ InOrder(toHost', "", ring, c, b, s)
         /\ ring # <<>> => InOrder(toHost', "", Tail(ring), c, b, s)
<1>1. toHost \in Seq(Line) /\ a \in Line
  BY RepliesTyped
<1>2. CASE port
  <2>1. toHost' = Append(toHost, a)
    BY <1>2, OneMore DEF Sent
  <2> QED
    BY <1>1, <2>1, Answered
<1>3. CASE ~port
  BY <1>1, <1>3, Silenced DEF Sent
<1> QED
  BY <1>2, <1>3

\* Whoever is waited for, what the main loop does keeps the order, and costs no more than the
\* lines it sends unasked.
LEMMA MainLoopInOrder ==
  ASSUME McuSession, MainLoop, strays' <= Retries, NEW c, NEW b \in Int, NEW s \in Int,
         InOrder(toHost, Held, ring, c, b, s)
  PROVE  InOrder(toHost', Held', ring', c, b + (strays' - strays), s + (strays' - strays))
<1>t. /\ port \in BOOLEAN /\ toHost \in Seq(Replies) /\ (~port => toHost = <<>>)
      /\ strays \in Nat /\ Retries \in Nat /\ loaded \in 0..FrameBufLen
      /\ ring \in Seq(Tokens) /\ cmd \in Bodies \cup {""} /\ (main = "start" => cmd = "")
      /\ toHost \in Seq(Line) /\ <<>> \in Seq(Tokens)
  <2>1. <<>> \in Seq(Tokens)
    OBVIOUS
  <2> QED
    BY <2>1, SessionFacts
<1>a. /\ Err \in Replies /\ Err \in Line /\ Err.code = "ERR"
      /\ Ack("CLR", 0) \in Replies /\ Ack("START", 0) \in Replies
      /\ Ack("LOAD_DONE", loaded) \in Replies /\ Ack("STOP", loaded) \in Replies
  <2>1. /\ 0 \in 0..FrameBufLen
        /\ "CLR" \in Acked /\ "START" \in Acked /\ "LOAD_DONE" \in Acked /\ "STOP" \in Acked
    BY FirmwareAssumption DEF Acked
  <2>2. Err.code = "ERR"
    BY DEF Err
  <2> QED
    BY <1>t, <2>1, <2>2, RepliesTyped
<1>c. \A x, n : Ack(x, n).code = x
  BY DEF Ack
<1> DEFINE Goal(t, h, r, d) == InOrder(t, h, r, c, b + d, s + d)
<1>g. \A t, h, r : InOrder(t, h, r, c, b, s) => Goal(t, h, r, 0)
  <2>1. b + 0 = b /\ s + 0 = s
    BY NextInt
  <2> QED
    BY <2>1
<1> SUFFICES Goal(toHost', Held', ring', strays' - strays)
  OBVIOUS
<1> HIDE DEF Goal
<1>s. strays' = strays => strays' - strays = 0
  BY <1>t, StraysGrow
<1>u. Astray(1) => strays' - strays = 1
  BY <1>t, StraysGrow
\* A line that is answered.
<1>1. ASSUME main = "drain", main' = "drain", ring # <<>>, ring' = Tail(ring), cmd' = "",
             NEW a \in Replies, Answer(a), a.code = cmd \/ (a.code = "ERR" /\ Counted(cmd))
      PROVE  Goal(toHost', Held', ring', strays' - strays)
  <2>1. Held = cmd /\ Held' = "" /\ Sent(<<a>>) /\ strays' = strays
    BY <1>1 DEF Held, Answer
  <2>2. InOrder(toHost', "", Tail(ring), c, b, s)
    BY <1>t, <1>1, <2>1, AnsweredWire
  <2> QED
    BY <1>1, <1>g, <1>s, <2>1, <2>2
\* One that is not.
<1>2. ASSUME ring # <<>>, ring' = Tail(ring), cmd' = "", main' # "start",
             toHost' = toHost, strays' = strays
      PROVE  Goal(toHost', Held', ring', strays' - strays)
  <2>1. Held' = ""
    BY <1>2 DEF Held
  <2>2. InOrder(toHost, "", Tail(ring), c, b, s)
    BY <1>t, <1>2, Silenced
  <2> QED
    BY <1>2, <1>g, <1>s, <2>1, <2>2
\* An error sent unasked, before the tokens q.
<1>3. ASSUME Unasked(<<Err>>), Held' = "", ring' \in Seq(Tokens),
             InOrder(toHost, "", ring', c, b, s)
      PROVE  Goal(toHost', Held', ring', strays' - strays)
  <2>1. CASE port
    <3>1. toHost' = Append(toHost, Err) /\ Astray(1)
      <4>1. Len(<<Err>>) = 1
        OBVIOUS
      <4> QED
        BY <1>t, <1>a, <1>3, <2>1, <4>1, OneMore DEF Unasked, Sent
    <3>2. InOrder(Append(toHost, Err), "", ring', c, b + 1, s + 1)
      BY <1>t, <1>a, <1>3, Unrequested
    <3> QED
      BY <1>3, <1>u, <3>1, <3>2 DEF Goal
  <2>2. CASE ~port
    <3>1. toHost' = toHost /\ strays' = strays
      BY <1>3, <2>2 DEF Unasked, Sent
    <3> QED
      BY <1>3, <1>g, <1>s, <3>1
  <2> QED
    BY <2>1, <2>2
<1>4. CASE Process
  <2>0. main = "poll" /\ main' = "drain" /\ Held = cmd /\ Held' = cmd'
    BY <1>4 DEF Process, Held
  <2>1. CASE overflow
    <3>1. ring' = <<>> /\ Held' = "" /\ Unasked(<<Err>>)
      BY <1>4, <2>0, <2>1 DEF Process
    <3>2. ring' \in Seq(Tokens)
      BY <1>t, <3>1
    <3>3. InOrder(toHost, Held, <<>>, c, b, s)
      BY <1>t, Empties
    <3>4. InOrder(toHost, "", <<>>, c, b, s)
      BY <1>t, <3>1, <3>2, <3>3, Silenced
    <3> QED
      BY <1>3, <3>1, <3>2, <3>4
  <2>2. CASE ~overflow
    <3>1. UNCHANGED <<ring, cmd, toHost, strays>>
      BY <1>4, <2>2 DEF Process
    <3> QED
      BY <1>g, <1>s, <2>0, <3>1
  <2> QED
    BY <2>1, <2>2
<1>5. CASE RingEmpty
  <2>1. UNCHANGED <<ring, cmd, toHost, strays>> /\ Held' = Held
    BY <1>5 DEF RingEmpty, Held, uart, wire
  <2> QED
    BY <1>g, <1>s, <2>1
<1>6. CASE ProcessBody
  <2>1. /\ main = "drain" /\ ring # <<>> /\ Head(ring) # "LF" /\ ring' = Tail(ring)
        /\ Held = cmd /\ Held' = Joined(cmd, Head(ring)) /\ toHost' = toHost /\ strays' = strays
    BY <1>6 DEF ProcessBody, Held, wire
  <2>2. Head(ring) \in Bodies /\ Head(ring) = ring[1]
    BY <1>t, <2>1, TailOf DEF Tokens
  <2> DEFINE x == Joined(cmd, Head(ring))
  <2>3. PICK w : w = (IF cmd = "" THEN Head(ring) ELSE cmd)
    OBVIOUS
  <2>4. /\ w = Held \/ w = ring[1]
        /\ x \in Acked => x = w
        /\ x \in PointBodies => w \in PointBodies
        /\ Counted(x) => Counted(w) \/ w \in PointBodies
    BY <1>t, <2>1, <2>2, <2>3 DEF Joined, Acked, PointBodies, Bodies, Counted
  <2>5. ASSUME w \in PointBodies, Counted(x) PROVE Counted(ring[1])
    BY <1>t, <2>1, <2>2, <2>3, <2>5 DEF Joined, Acked, PointBodies, Bodies, Counted
  <2>6. InOrder(toHost, x, Tail(ring), c, b, s)
    <3> HIDE DEF x
    <3>1. CASE Counted(x) => Counted(w)
      BY <1>t, <2>1, <2>4, <3>1, Merges
    <3>2. CASE Counted(x) /\ ~Counted(w)
      <4>1. Counted(ring[1]) /\ x \notin PointBodies
        BY <2>4, <2>5, <3>2 DEF Counted
      <4>2. x \in Acked => x = ring[1]
        BY <2>4, <3>2, <4>1
      <4> QED
        BY <1>t, <2>1, <4>1, <4>2, Merges
    <3> QED
      BY <3>1, <3>2
  <2> QED
    BY <1>g, <1>s, <2>1, <2>6
<1>7. CASE EmptyLine
  BY <1>2, <1>7 DEF EmptyLine, CompleteLine
<1>8. CASE Clear
  BY <1>1, <1>a, <1>c, <1>8 DEF Clear, CompleteLine
<1>9. CASE LoadDone
  BY <1>1, <1>a, <1>c, <1>9 DEF LoadDone, CompleteLine
<1>10. CASE Stop
  BY <1>1, <1>a, <1>c, <1>10 DEF Stop, CompleteLine
<1>11. CASE Data
  BY <1>2, <1>11 DEF Data, CompleteLine
<1>12. CASE DataRefused
  <2>1. /\ ring # <<>> /\ ring' = Tail(ring) /\ Held' = "" /\ Unasked(<<Err>>)
    BY <1>12 DEF DataRefused, CompleteLine, Held
  <2>2. ring' \in Seq(Tokens)
    BY <1>t, <2>1, TailOf
  <2>3. InOrder(toHost, "", ring', c, b, s)
    BY <1>t, <2>1, Silenced
  <2> QED
    BY <1>3, <2>1, <2>2, <2>3
<1>13. CASE UnknownCommand
  <2>1. Counted("MIXED")
    BY DEF Counted, PointBodies
  <2> QED
    BY <1>1, <1>a, <1>13, <2>1 DEF UnknownCommand, CompleteLine
<1>14. CASE StartRefused
  <2>1. Counted("START")
    BY DEF Counted, PointBodies
  <2> QED
    BY <1>1, <1>a, <1>14, <2>1 DEF StartRefused, CompleteLine
<1>15. CASE StartPrepares
  <2>1. /\ main = "drain" /\ ring # <<>> /\ ring' = Tail(ring) /\ Held = "START"
        /\ Held' = "START" /\ toHost' = toHost /\ strays' = strays
    BY <1>15 DEF StartPrepares, CompleteLine, Held
  <2>2. InOrder(toHost, "START", Tail(ring), c, b, s)
    BY <1>t, <2>1, Merges
  <2> QED
    BY <1>g, <1>s, <2>1, <2>2
<1>16. CASE StartPlays
  <2>1. /\ Held = "START" /\ Held' = "" /\ ring' = ring /\ Sent(<<Ack("START", 0)>>)
        /\ strays' = strays
    BY <1>t, <1>16 DEF StartPlays, Held, uart, Answer
  <2>2. InOrder(toHost', "", ring, c, b, s)
    BY <1>t, <1>a, <1>c, <2>1, AnsweredWire
  <2> QED
    BY <1>g, <1>s, <2>1, <2>2
<1> QED
  BY <1>4, <1>5, <1>6, <1>7, <1>8, <1>9, <1>10, <1>11, <1>12, <1>13, <1>14, <1>15, <1>16
  DEF MainLoop

\* The other steps of the firmware; a fault may have cost an answer.
LEMMA FaultsInOrder ==
  ASSUME McuSession, FirmwareFaults, strays' <= Retries, NEW c, NEW b \in Int, NEW s \in Int,
         InOrder(toHost, Held, ring, c, b, s)
  PROVE  InOrder(toHost', Held', ring', c, b + (strays' - strays), s + (strays' - strays))
<1>t. /\ port \in BOOLEAN /\ toHost \in Seq(Replies) /\ (~port => toHost = <<>>)
      /\ strays \in Nat /\ Retries \in Nat
      /\ ring \in Seq(Tokens) /\ (main = "start" => cmd = "")
      /\ toHost \in Seq(Line) /\ <<>> \in Seq(Tokens)
  <2>1. <<>> \in Seq(Tokens)
    OBVIOUS
  <2> QED
    BY <2>1, SessionFacts
<1>a. Err \in Replies /\ Err.code = "ERR" /\ Counted("START")
  BY RepliesTyped DEF Err, Counted, PointBodies
<1> DEFINE Goal(t, h, r, d) == InOrder(t, h, r, c, b + d, s + d)
<1>g. \A t, h, r : InOrder(t, h, r, c, b, s) => Goal(t, h, r, 0)
  <2>1. b + 0 = b /\ s + 0 = s
    BY NextInt
  <2> QED
    BY <2>1
<1> SUFFICES Goal(toHost', Held', ring', strays' - strays)
  OBVIOUS
<1>s. /\ strays' = strays => strays' - strays = 0
      /\ Astray(3) => strays' - strays = 3
  BY <1>t, StraysGrow
<1>3. ASSUME NEW t, NEW h, NEW r, InOrder(t, h, r, c, b + 1 + 1 + 1, s + 1 + 1 + 1)
      PROVE  Goal(t, h, r, 3)
  BY <1>3, IntSums
<1> HIDE DEF Goal
<1>4. CASE RxError \/ TickFails
  <2>1. UNCHANGED <<ring, cmd, main, toHost, strays>> /\ Held' = Held
    BY <1>4 DEF RxError, TickFails, Held, uart
  <2> QED
    BY <1>g, <1>s, <2>1
<1>5. CASE StartFails
  <2>1. /\ Held = "START" /\ Held' = "" /\ ring' = ring /\ Sent(<<Err>>) /\ strays' = strays
    BY <1>t, <1>5 DEF StartFails, Held, uart, Answer
  <2>2. InOrder(toHost', "", ring, c, b, s)
    BY <1>t, <1>a, <2>1, AnsweredWire
  <2> QED
    BY <1>g, <1>s, <2>1, <2>2
<1>6. CASE Reboot
  <2>1. /\ Held' = "" /\ ring' = <<>> /\ Unasked([i \in 1..3 |-> BootLine])
    BY <1>6 DEF Reboot, Held, BootLine
  <2>2. InOrder(toHost, Held, <<>>, c, b, s)
    BY <1>t, Empties
  <2>3. InOrder(toHost, "", <<>>, c, b, s)
    BY <1>t, <2>2, Silenced
  <2>4. CASE port
    <3>1. BootLine \in Line /\ BootLine.code = "BOOT"
      BY DEF BootLine, Line
    <3>2. toHost' = toHost \o [i \in 1..3 |-> BootLine] /\ Astray(3)
      <4>1. Len([i \in 1..3 |-> BootLine]) = 3
        OBVIOUS
      <4> QED
        BY <2>1, <2>4, <4>1 DEF Unasked, Sent
    <3>3. toHost' = Append(Append(Append(toHost, BootLine), BootLine), BootLine)
      BY <1>t, <3>1, <3>2, Boots
    <3>4. PICK t1 : t1 = Append(toHost, BootLine)
      OBVIOUS
    <3>5. PICK t2 : t2 = Append(t1, BootLine)
      OBVIOUS
    <3>6. PICK t3 : t3 = Append(t2, BootLine)
      OBVIOUS
    <3>7. t1 \in Seq(Line) /\ t2 \in Seq(Line) /\ t3 \in Seq(Line) /\ toHost' = t3
      BY <1>t, <3>1, <3>3, <3>4, <3>5, <3>6, AppendOf
    <3>8. /\ b + 1 \in Int /\ s + 1 \in Int /\ b + 1 + 1 \in Int /\ s + 1 + 1 \in Int
      BY NextInt
    <3>9. InOrder(t1, "", <<>>, c, b + 1, s + 1)
      BY <1>t, <2>3, <3>1, <3>4, Unrequested
    <3>10. InOrder(t2, "", <<>>, c, b + 1 + 1, s + 1 + 1)
      BY <1>t, <3>1, <3>5, <3>7, <3>8, <3>9, Unrequested
    <3>11. InOrder(t3, "", <<>>, c, b + 1 + 1 + 1, s + 1 + 1 + 1)
      BY <1>t, <3>1, <3>6, <3>7, <3>8, <3>10, Unrequested
    <3>12. Goal(t3, "", <<>>, 3)
      BY <1>3, <3>11
    <3> QED
      BY <1>s, <2>1, <3>2, <3>7, <3>12
  <2>5. CASE ~port
    <3>1. toHost' = toHost /\ strays' = strays
      BY <2>1, <2>5 DEF Unasked, Sent
    <3> QED
      BY <1>g, <1>s, <2>1, <2>3, <3>1
  <2> QED
    BY <1>t, <2>4, <2>5
<1> QED
  BY <1>4, <1>5, <1>6 DEF FirmwareFaults

\* The firmware keeps the pipe in order.
LEMMA McuKeepsPipe ==
  ASSUME McuSession, Mcu, strays' <= Retries, PipeInOrder
  PROVE  PipeInOrder'
<1> DEFINE b == (strays + faults) - attempt
           s == strays + faults + Owed
           b1 == (strays' + faults') - attempt
           s1 == strays' + faults' + Owed
           d == strays' - strays
<1>0. McuSession'
  BY McuKeepsSession
<1>t. toHost' \in Seq(Line) /\ ring' \in Seq(Tokens)
  <2>1. toHost' \in Seq(Replies) /\ ring' \in Seq(Tokens)
    BY <1>0 DEF McuSession, McuTypes, WireTypes, UartTypes
  <2> QED
    BY <2>1, RepliesTyped
<1>m. /\ strays \in Nat /\ strays' \in Nat /\ faults \in Nat /\ faults' \in Nat
      /\ faults <= faults' /\ attempt \in Nat /\ Owed \in Nat
  <2>1. strays' \in 0..(Retries + 1) /\ faults' \in 0..MaxFaults
    BY <1>0 DEF McuSession, McuTypes, WireTypes
  <2>2. Owed \in Nat
    BY DEF Owed
  <2>3. strays' \in Nat /\ faults' \in Nat
    BY <2>1, WireAssumption
  <2> QED
    BY <2>2, <2>3, McuWireKept, SessionParts
<1>1. Asking' = Asking /\ attempt' = attempt /\ Owed' = Owed
  BY DEF Mcu, Asking, Owed, controller, sending
<1>n. /\ b \in Int /\ s \in Int /\ b + d \in Int /\ s + d \in Int /\ b1 \in Int /\ s1 \in Int
      /\ b + d <= b1 /\ s + d <= s1
  BY <1>m, PipeBounds
<1>2. InOrder(toHost, Held, ring, Asking, b, s)
  BY DEF PipeInOrder
<1> HIDE DEF b, s, b1, s1, d
<1>3. InOrder(toHost', Held', ring', Asking, b + d, s + d)
  <2>1. CASE MainLoop
    BY <1>n, <1>2, <2>1, MainLoopInOrder DEF d
  <2>2. CASE FirmwareFaults
    BY <1>n, <1>2, <2>2, FaultsInOrder DEF d
  <2>3. CASE TickStops
    <3>1. UNCHANGED <<ring, cmd, main, toHost, strays>> /\ Held' = Held
      BY <2>3 DEF TickStops, Held, uart, wire
    <3>2. b + d = b /\ s + d = s
      <4>1. d = 0
        BY <1>m, <3>1 DEF d
      <4> QED
        BY <1>n, <4>1
    <3> QED
      BY <1>2, <3>1, <3>2
  <2> QED
    BY <2>1, <2>2, <2>3 DEF Mcu
<1>4. InOrder(toHost', Held', ring', Asking, b1, s1)
  BY <1>t, <1>n, <1>3, MoreTime
<1> QED
  BY <1>1, <1>4 DEF PipeInOrder, b1, s1

\* A token comes in, the command that is asked for, a line feed or a point.
LEMMA RxInOrder ==
  ASSUME McuSession, NEW x \in Tokens, RxCplt(x),
         NEW c, NEW b \in Int, NEW s \in Int, NEW e \in Nat,
         InOrder(toHost, Held, ring, c, b, s),
         x \in Acked => x = c, x \in PointBodies => c = "DATA", Counted(x) => e = 1
  PROVE  InOrder(toHost, Held', ring', c, b, s + e)
<1>t. toHost \in Seq(Line) /\ ring \in Seq(Tokens)
  BY SessionFacts
<1>1. Held' = Held
  BY DEF RxCplt, Held
<1>2. \/ ring' = ring
      \/ ring' = Append(ring, x)
      \/ x = "DATA" /\ ring' = Append(ring, "CUT")
  BY DEF RxCplt, Store
<1>3. CASE ring' = ring
  <2>1. s + e \in Int /\ s <= s + e /\ b <= b
    BY IntSums
  <2> QED
    BY <1>t, <1>1, <1>3, <2>1, MoreTime
<1>4. CASE ring' = Append(ring, x)
  BY <1>t, <1>1, <1>4, Gains
<1>5. CASE x = "DATA" /\ ring' = Append(ring, "CUT")
  <2>1. "CUT" \in Tokens /\ "CUT" \notin Acked /\ ~Counted("CUT") /\ c = "DATA"
    BY <1>5 DEF Tokens, Bodies, PointBodies, Acked, Counted
  <2> QED
    BY <1>t, <1>1, <1>5, <2>1, Gains
<1> QED
  BY <1>2, <1>3, <1>4, <1>5

\* The call gives up: nothing is waited for.
LEMMA GiveUpInOrder ==
  ASSUME McuSession, NEW rest \in Seq(Line), GiveUp(rest), ring' \in Seq(Tokens),
         strays' \in Nat, faults' \in Nat, NEW c0, NEW b0 \in Int,
         InOrder(rest, Held', ring', c0, b0, strays' + faults'),
         NEW x, Only(rest, Held', ring', x)
  PROVE  PipeInOrder'
<1>1. Asking' = "none" /\ attempt' = 0 /\ Owed' = 0
  BY DEF GiveUp, Finish, Asking, Owed
<1>2. toHost' = rest \/ toHost' = <<>>
  BY DEF GiveUp
<1>n. /\ strays' + faults' \in Int /\ (strays' + faults') - 0 = strays' + faults'
      /\ strays' + faults' + 0 = strays' + faults'
  BY NextInt
<1>3. "none" \notin Acked /\ "none" # "DATA"
  BY DEF Acked
<1>4. InOrder(rest, Held', ring', "none", strays' + faults', strays' + faults')
  BY <1>n, <1>3, Settles
<1>5. InOrder(<<>>, Held', ring', "none", strays' + faults', strays' + faults')
  BY <1>n, <1>4, PortCloses
<1>6. InOrder(toHost', Held', ring', "none", strays' + faults', strays' + faults')
  BY <1>2, <1>4, <1>5
<1> QED
  BY <1>1, <1>n, <1>6 DEF PipeInOrder

\* The last attempt is the one numbered Retries.
LEMMA NoMoreAttempts == McuSession /\ ~MoreAttempts => attempt = Retries
BY WireAssumption DEF McuSession, McuTypes, CallTypes, MoreAttempts

\* The next round, or none. Then no earlier command can be answered any more.
LEMMA RetryInOrder ==
  ASSUME McuSession, NEW rest \in Seq(Line), Retry(rest), ring' \in Seq(Tokens),
         command \in Acked, strays' \in Nat, faults' \in Nat, Orderly',
         InOrder(rest, Held', ring', command, (strays' + faults') - attempt - 1, strays' + faults')
  PROVE  PipeInOrder' /\ (phase' = "idle" => Only(toHost', Held', ring', command))
<1>t. attempt \in Nat /\ Retries \in Nat /\ attempt <= Retries
  BY WireAssumption DEF McuSession, McuTypes, CallTypes
<1>1. CASE /\ MoreAttempts /\ attempt' = NextAttempt /\ phase' = "body"
           /\ toHost' = rest /\ UNCHANGED <<call, command, size, sent, status, port>>
  <2>1. Asking' = command /\ Owed' = 0 /\ attempt' = attempt + 1 /\ toHost' = rest
    BY <1>1 DEF Asking, Owed, NextAttempt
  <2>3. strays' + faults' \in Nat
    BY NatSums
  <2>4. /\ (strays' + faults') - (attempt + 1) = (strays' + faults') - attempt - 1
        /\ strays' + faults' + 0 = strays' + faults'
    BY <1>t, <2>3, Rounds
  <2> QED
    BY <1>1, <2>1, <2>4 DEF PipeInOrder
<1>2. CASE ~MoreAttempts /\ GiveUp(rest)
  <2>2. strays' + faults' \in Nat /\ strays' + faults' <= Retries + 1
    BY NatSums, OrderlyNext
  <2>3. attempt = Retries
    BY <1>2, NoMoreAttempts
  <2>4. /\ (strays' + faults') - attempt - 1 \in Int /\ (strays' + faults') - attempt - 1 <= 0
    BY <1>t, <2>2, <2>3, LastRound
  <2>5. strays' + faults' \in Int
    BY NatSums
  <2>6. Only(rest, Held', ring', command)
    BY <2>4, <2>5, NoOther
  <2>7. toHost' = rest \/ toHost' = <<>>
    BY <1>2 DEF GiveUp
  <2>8. Only(toHost', Held', ring', command)
    <3>1. Len(<<>>) = 0
      OBVIOUS
    <3>2. Only(<<>>, Held', ring', command)
      BY <2>6, <3>1 DEF Only
    <3> QED
      BY <2>6, <2>7, <3>2
  <2> QED
    BY <1>2, <2>4, <2>6, <2>8, GiveUpInOrder
<1> QED
  BY <1>1, <1>2 DEF Retry

\* Calls that send nothing keep the pipe in order.
LEMMA QuickKeepsPipe ==
  ASSUME McuSession, PipeInOrder, Configure \/ Connect \/ Disconnect \/ Refused
  PROVE  PipeInOrder'
<1>q. Quick
  BY DEF Configure, Connect, Disconnect, Refused
<1>1. /\ UNCHANGED <<ring, cmd, main, command, phase, attempt, faults>>
      /\ strays' = strays /\ (toHost' = toHost \/ toHost' = <<>>)
  BY <1>q DEF Quick, sending, firmware, uart, Configure, Connect, Disconnect, Refused
<1>2. Held' = Held /\ Asking' = Asking /\ Owed' = Owed
  BY <1>1 DEF Held, Asking, Owed
<1>3. InOrder(toHost', Held, ring, Asking, (strays + faults) - attempt, strays + faults + Owed)
  BY <1>1, Bounds, SessionFacts, PortCloses DEF PipeInOrder
<1> QED
  BY <1>1, <1>2, <1>3 DEF PipeInOrder

\* A call begins: what is in the pipe now belongs to earlier ones.
LEMMA BeginKeepsPipe ==
  ASSUME McuSession, PipeInOrder, (\E n \in Sizes : BeginUpload(n)) \/ BeginStart \/ BeginStop
  PROVE  PipeInOrder'
<1>1. /\ UNCHANGED <<ring, cmd, main, toHost, strays, faults>> /\ phase = "idle"
      /\ command' \in Acked /\ phase' = "body" /\ attempt' = 0
  BY DEF BeginUpload, BeginStart, BeginStop, Begin, Sends, firmware, uart, wire, Acked
<1>t. attempt = 0
  BY <1>1 DEF McuSession, Scripted
<1>2. Held' = Held /\ Asking = "none" /\ Asking' = command' /\ Owed = 0 /\ Owed' = 0
  BY <1>1 DEF Held, Asking, Owed
<1>b. \A x \in Nat : x - 0 = x /\ x + 0 = x /\ x \in Int
  OBVIOUS
<1>n. /\ (strays + faults) - 0 = strays + faults /\ strays + faults + 0 = strays + faults
      /\ strays + faults \in Int
  BY <1>b, Bounds
<1>3. InOrder(toHost, Held, ring, "none", strays + faults, strays + faults)
  BY <1>2, <1>n, <1>t DEF PipeInOrder
<1>4. "none" \notin Acked
  BY DEF Acked
<1>5. InOrder(toHost, Held, ring, command', strays + faults, strays + faults)
  BY <1>1, <1>3, <1>4, <1>n, SessionFacts, Asks
<1> QED
  BY <1>1, <1>2, <1>5, <1>n DEF PipeInOrder

\* The command joins the pipe.
LEMMA WriteBodyKeepsPipe ==
  ASSUME McuSession, PipeInOrder, WriteBody
  PROVE  PipeInOrder'
<1>1. /\ UNCHANGED <<command, attempt, toHost, strays, faults>>
      /\ phase = "body" /\ phase' = "lf" /\ RxCplt(command)
  BY DEF WriteBody, wire
<1>c. command \in Acked \cup {"DATA"}
  BY DEF McuSession, McuTypes, CallTypes
<1>2. /\ Asking = command /\ Asking' = command /\ Owed = 0 /\ Owed' \in {0, 1}
      /\ Counted(command) => Owed' = 1
  BY <1>1, <1>c DEF Asking, Owed, Counted, PointBodies
<1>n. strays + faults + 0 = strays + faults /\ strays + faults \in Int
  BY Bounds, NextInt
<1>3. InOrder(toHost, Held, ring, command, (strays + faults) - attempt, strays + faults)
  BY <1>2, <1>n DEF PipeInOrder
<1>4. /\ command \in Tokens /\ (command \in PointBodies => command = "DATA")
      /\ Owed' \in Nat
  BY <1>c, <1>2 DEF Acked, PointBodies, Tokens, Bodies
<1>5. InOrder(toHost, Held', ring', command, (strays + faults) - attempt, strays + faults + Owed')
  BY <1>1, <1>2, <1>3, <1>4, <1>n, Bounds, RxInOrder
<1> QED
  BY <1>1, <1>2, <1>5 DEF PipeInOrder

\* Its line feed does; after the last point LOAD_DONE is next.
LEMMA WriteLfKeepsPipe ==
  ASSUME McuSession, PipeInOrder, WriteLf
  PROVE  PipeInOrder'
<1>1. /\ UNCHANGED <<toHost, strays, faults>>
      /\ phase = "lf" /\ RxCplt("LF")
  BY DEF WriteLf, wire
<1>2. "LF" \in Tokens /\ "LF" \notin Acked /\ "LF" \notin PointBodies /\ ~Counted("LF")
  BY DEF Acked, PointBodies, Tokens, Counted
<1>b. \A x \in Nat : x - 0 = x /\ x + 0 = x /\ x \in Int
  OBVIOUS
<1>o. \A x \in Int : x + 0 = x
  OBVIOUS
<1>3. InOrder(toHost, Held', ring', Asking, (strays + faults) - attempt, strays + faults + Owed)
  <2>1. InOrder(toHost, Held', ring', Asking, (strays + faults) - attempt,
                (strays + faults + Owed) + 0)
    BY <1>1, <1>2, Bounds, RxInOrder DEF PipeInOrder
  <2>2. (strays + faults + Owed) + 0 = strays + faults + Owed
    BY <1>o, Bounds
  <2> QED
    BY <2>1, <2>2
<1>4. CASE command # "DATA" /\ phase' = "await" /\ UNCHANGED <<command, attempt, sent>>
  <2>1. Asking' = Asking /\ Owed' = Owed
    BY <1>1, <1>4 DEF Asking, Owed
  <2> QED
    BY <1>1, <1>3, <1>4, <2>1 DEF PipeInOrder
<1>5. CASE /\ command = "DATA" /\ sent' = sent + 1
           /\ Sends(IF sent' < size THEN "DATA" ELSE "LOAD_DONE")
  <2>1. /\ command' \in {"DATA", "LOAD_DONE"} /\ phase' = "body" /\ attempt' = 0 /\ attempt = 0
    BY <1>1, <1>5 DEF Sends, McuSession, Scripted
  <2>2. Asking = "DATA" /\ Asking' = command' /\ Owed = 0 /\ Owed' = 0
    BY <1>1, <1>5, <2>1 DEF Asking, Owed
  <2>n. /\ (strays + faults) - 0 = strays + faults /\ strays + faults + 0 = strays + faults
        /\ strays + faults \in Int
    BY <1>b, Bounds
  <2>3. InOrder(toHost, Held', ring', "DATA", strays + faults, strays + faults)
    BY <1>3, <2>1, <2>2, <2>n
  <2>4. "DATA" \notin Acked /\ "LOAD_DONE" \in Acked
    BY DEF Acked
  <2>5. ring' \in Seq(Tokens)
    BY <1>1, <1>2, RxTyped DEF UartTypes
  <2>6. InOrder(toHost, Held', ring', command', strays + faults, strays + faults)
    BY <2>1, <2>3, <2>4, <2>5, <2>n, SessionFacts, Asks
  <2> QED
    BY <1>1, <2>1, <2>2, <2>6, <2>n DEF PipeInOrder
<1> QED
  BY <1>4, <1>5 DEF WriteLf

\* A write fails; the fault pays for the attempt.
LEMMA WriteFailsKeepsPipe ==
  ASSUME McuSession, PipeInOrder, WriteFails, Orderly'
  PROVE  PipeInOrder'
<1>1. /\ faults' = faults + 1 /\ strays' = strays /\ phase \in {"body", "lf"}
      /\ \/ UNCHANGED firmware
         \/ phase = "body" /\ RxCplt(Cut(command))
         \/ phase = "lf" /\ RxCplt("LF")
  BY DEF WriteFails, Fault
<1>l. "LF" \in Tokens /\ "LF" \notin Acked /\ "LF" \notin PointBodies /\ ~Counted("LF")
  BY DEF Acked, PointBodies, Tokens, Counted
<1>c. command \in Acked \cup {"DATA"} /\ "DATA" \notin Acked
  BY DEF McuSession, McuTypes, CallTypes, Acked
<1>t. /\ ring' \in Seq(Tokens) /\ toHost \in Seq(Line) /\ ring \in Seq(Tokens)
  <2>1. UartTypes'
    BY WriteFailsKeepsSession DEF McuSession, McuTypes
  <2> QED
    BY <2>1, SessionFacts DEF UartTypes
<1>n. strays \in Nat /\ faults \in Nat /\ attempt \in Nat
  BY Bounds
<1>p. strays' \in Nat /\ faults' \in Nat
  BY <1>1, <1>n
<1>2. Asking = command
  BY <1>1 DEF Asking
<1>3. CASE command = "DATA"
  <2>1. Owed = 0 /\ GiveUp(toHost)
    BY <1>3 DEF Owed, WriteFails
  <2>2. InOrder(toHost, Held, ring, "DATA", (strays + faults) - attempt, strays + faults)
    BY <1>2, <1>3, <1>n, <2>1, OnceMore DEF PipeInOrder
  <2>3. InOrder(toHost, Held', ring', "DATA", (strays + faults) - attempt, strays + faults + 1)
    <3>1. CASE UNCHANGED firmware
      <4>1. Held' = Held /\ ring' = ring
        BY <3>1 DEF firmware, uart, Held
      <4> QED
        BY <1>n, <1>t, <2>2, <4>1, OnceMore, MoreTime
    <3>2. CASE RxCplt(Cut(command))
      <4>1. Cut(command) = "CUT" /\ "CUT" \in Tokens /\ "CUT" \notin Acked /\ ~Counted("CUT")
        BY <1>3 DEF Cut, PointBodies, Tokens, Bodies, Acked, Counted
      <4> QED
        BY <1>n, <2>2, <3>2, <4>1, OnceMore, RxInOrder
    <3>3. CASE RxCplt("LF")
      BY <1>l, <1>n, <2>2, <3>3, OnceMore, RxInOrder
    <3> QED
      BY <1>1, <3>1, <3>2, <3>3
  <2>4. strays' + faults' = strays + faults + 1
    BY <1>1, <1>n, OnceMore
  <2>5. Only(toHost, Held', ring', "CLR")
    BY <1>n, <1>t, <2>3, OnceMore, OnlyClear
  <2> QED
    BY <1>n, <1>p, <1>t, <2>1, <2>3, <2>4, <2>5, OnceMore, GiveUpInOrder
<1>4. CASE command # "DATA"
  <2>1. command \in Acked /\ Retry(toHost)
    BY <1>4, <1>c DEF WriteFails
  <2>2. InOrder(toHost, Held', ring', command, (strays + faults) - attempt, strays + faults + 1)
    <3>0. InOrder(toHost, Held, ring, command, (strays + faults) - attempt, strays + faults + Owed)
      BY <1>2 DEF PipeInOrder
    <3>1. CASE UNCHANGED firmware
      <4>1. Held' = Held /\ ring' = ring
        BY <3>1 DEF firmware, uart, Held
      <4>2. Owed = 0 \/ Owed = 1
        BY Bounds
      <4>3. CASE Owed = 1
        BY <3>0, <4>1, <4>3
      <4>4. CASE Owed = 0
        <5>1. InOrder(toHost, Held, ring, command, (strays + faults) - attempt, strays + faults)
          BY <1>n, <3>0, <4>4, OnceMore
        <5> QED
          BY <1>n, <1>t, <4>1, <5>1, OnceMore, MoreTime
      <4> QED
        BY <4>2, <4>3, <4>4
    <3>2. CASE phase = "body" /\ RxCplt(Cut(command))
      <4>1. Cut(command) = "MIXED" /\ "MIXED" \in Tokens /\ "MIXED" \notin Acked
            /\ "MIXED" \notin PointBodies
        BY <2>1 DEF Cut, PointBodies, Tokens, Bodies, Acked
      <4>2. Owed = 0
        BY <3>2 DEF Owed
      <4>3. InOrder(toHost, Held, ring, command, (strays + faults) - attempt, strays + faults)
        BY <1>n, <3>0, <4>2, OnceMore
      <4> QED
        BY <1>n, <3>2, <4>1, <4>3, OnceMore, RxInOrder
    <3>3. CASE phase = "lf" /\ RxCplt("LF")
      <4>1. Owed = 1
        BY <1>4, <3>3 DEF Owed
      <4>2. /\ strays + faults + 1 \in Int /\ (strays + faults) - attempt \in Int
            /\ (strays + faults + 1) + 0 = strays + faults + 1
        BY <1>n, OnceMore, NextInt
      <4>3. InOrder(toHost, Held, ring, command, (strays + faults) - attempt, strays + faults + 1)
        BY <3>0, <4>1
      <4>4. InOrder(toHost, Held', ring', command, (strays + faults) - attempt,
                    (strays + faults + 1) + 0)
        BY <1>l, <3>3, <4>2, <4>3, RxInOrder
      <4> QED
        BY <4>2, <4>4
    <3> QED
      BY <1>1, <3>1, <3>2, <3>3
  <2>3. /\ (strays' + faults') - attempt - 1 = (strays + faults) - attempt
        /\ strays' + faults' = strays + faults + 1
    BY <1>1, <1>n, OnceMore
  <2> QED
    BY <1>p, <1>t, <2>1, <2>2, <2>3, RetryInOrder
<1> QED
  BY <1>3, <1>4

\* Another answer is read, which pays for the attempt.
LEMMA ReadOtherKeepsPipe ==
  ASSUME McuSession, PipeInOrder, ReadOther, Orderly'
  PROVE  PipeInOrder' /\ (phase' = "idle" => Only(toHost', Held', ring', command))
<1>1. /\ phase = "await" /\ toHost # <<>> /\ Retry(Tail(toHost))
      /\ UNCHANGED <<ring, cmd, main, strays, faults>>
  BY DEF ReadOther, firmware, uart
<1>t. /\ ring \in Seq(Tokens) /\ toHost \in Seq(Line) /\ toHost \in Seq(Replies)
      /\ Tail(toHost) \in Seq(Line)
  BY <1>1, SessionFacts, TailOf
<1>n. strays \in Nat /\ faults \in Nat /\ attempt \in Nat
  BY Bounds
<1>c. command \in Acked
  BY <1>1 DEF McuSession, McuTypes, CallTypes, Scripted
<1>2. Asking = command /\ Owed = 1 /\ Held' = Held
  BY <1>1, <1>c DEF Asking, Owed, Held, Acked
<1>3. InOrder(toHost, Held, ring, command, (strays + faults) - attempt, strays + faults + 1)
  BY <1>2 DEF PipeInOrder
<1>4. InOrder(Tail(toHost), Held, ring, command, ((strays + faults) - attempt) - 1,
              (strays + faults + 1) - 1)
  BY <1>1, <1>3, <1>n, <1>t, CountedReply, OnceMore, Reads
<1>5. InOrder(Tail(toHost), Held, ring, command, (strays + faults) - attempt - 1, strays + faults)
  BY <1>4, <1>n, OnceMore
<1> QED
  BY <1>1, <1>2, <1>5, <1>c, <1>n, <1>t, RetryInOrder

\* A read times out; the answer that is still to come, if any, went astray.
LEMMA ReadTimesOutKeepsPipe ==
  ASSUME McuSession, PipeInOrder, ReadTimesOut, Orderly'
  PROVE  PipeInOrder' /\ (phase' = "idle" => Only(toHost', Held', ring', command))
<1>1. /\ phase = "await" /\ UNCHANGED <<ring, cmd, main, faults>>
      /\ Retry(toHost) \/ (toHost # <<>> /\ Retry([toHost EXCEPT ![1] = Err]))
      /\ IF Late \/ cmd # "" THEN Astray(1) ELSE strays' = strays
  BY DEF ReadTimesOut, firmware, uart
<1>t. /\ ring \in Seq(Tokens) /\ toHost \in Seq(Line) /\ toHost \in Seq(Replies)
  BY SessionFacts
<1>n. strays \in Nat /\ faults \in Nat /\ attempt \in Nat /\ Retries \in Nat
  BY Bounds, WireAssumption
<1>c. command \in Acked
  BY <1>1 DEF McuSession, McuTypes, CallTypes, Scripted
<1>2. Asking = command /\ Owed = 1 /\ Held' = Held
  BY <1>1, <1>c DEF Asking, Owed, Held, Acked
<1>3. InOrder(toHost, Held, ring, command, (strays + faults) - attempt, strays + faults + 1)
  BY <1>2 DEF PipeInOrder
<1>4. CASE Late \/ cmd # ""
  <2>1. strays' = strays + 1
    <3>1. Astray(1) /\ strays' <= Retries
      BY <1>1, <1>4, OrderlyNext
    <3>2. ~(strays + 1 > Retries) => strays' = strays + 1
      BY <3>1 DEF Astray
    <3>3. strays + 1 > Retries => strays' = Retries + 1
      BY <3>1 DEF Astray
    <3>4. \A n \in Nat : ~(n + 1 <= n)
      OBVIOUS
    <3> QED
      BY <1>n, <3>1, <3>2, <3>3, <3>4
  <2>2. /\ (strays' + faults') - attempt - 1 = (strays + faults) - attempt
        /\ strays' + faults' = strays + faults + 1 /\ strays' \in Nat
    <3>1. faults' = faults
      BY <1>1
    <3>2. strays' \in Nat
      BY <1>n, <2>1
    <3> QED
      BY <1>n, <2>1, <3>1, <3>2, OnceMore
  <2>3. CASE Retry(toHost)
    BY <1>1, <1>2, <1>3, <1>c, <1>n, <1>t, <2>2, <2>3, RetryInOrder
  <2>4. CASE toHost # <<>> /\ Retry([toHost EXCEPT ![1] = Err])
    <3>1. [toHost EXCEPT ![1] = Err] \in Seq(Line)
      BY <1>t, <2>4, MangledHead
    <3>2. InOrder([toHost EXCEPT ![1] = Err], Held, ring, command, (strays + faults) - attempt,
                  strays + faults + 1)
      BY <1>3, <1>n, <1>t, <2>4, CountedReply, OnceMore, Mangles
    <3> QED
      BY <1>1, <1>2, <1>c, <1>n, <1>t, <2>2, <2>4, <3>1, <3>2, RetryInOrder
  <2> QED
    BY <1>1, <2>3, <2>4
<1>5. CASE ~Late /\ cmd = ""
  <2>1. toHost = <<>> /\ ring = <<>> /\ Held = "" /\ strays' = strays /\ faults' = faults
        /\ Retry(toHost)
    BY <1>1, <1>5 DEF Late, Held
  <2>2. strays + faults \in Nat /\ (strays + faults) - attempt - 1 \in Int
    BY <1>n, NatSums, OnceMore
  <2>3. InOrder(<<>>, "", <<>>, command, (strays + faults) - attempt - 1, strays + faults)
    BY <2>2, Quiet
  <2>4. InOrder(toHost, Held', ring', command, (strays' + faults') - attempt - 1, strays' + faults')
    BY <1>1, <1>2, <2>1, <2>3
  <2>5. ring' \in Seq(Tokens) /\ strays' \in Nat /\ faults' \in Nat
    BY <1>1, <1>n, <1>t, <2>1
  <2> QED
    BY <1>c, <1>t, <2>1, <2>4, <2>5, RetryInOrder
<1> QED
  BY <1>4, <1>5

\* What is known when an answer confirms a call.
LEMMA ConfirmedInOrder ==
  ASSUME McuSession, PipeInOrder, NEW c \in Acked, Confirmed(c)
  PROVE  /\ Only(toHost, Held, ring, c)
         /\ c # "CLR" => /\ Held \notin PointBodies
                         /\ \A i \in 1..Len(ring) : ring[i] \notin PointBodies
         /\ InOrder(Tail(toHost), Held, ring, c, (strays + faults) - attempt - 1, strays + faults)
         /\ Only(Tail(toHost), Held, ring, c)
<1>1. /\ phase = "await" /\ command = c /\ toHost # <<>> /\ Head(toHost).code = c
  BY DEF Confirmed, Expected
<1>t. /\ ring \in Seq(Tokens) /\ toHost \in Seq(Line) /\ toHost \in Seq(Replies)
      /\ Tail(toHost) \in Seq(Line)
  BY <1>1, SessionFacts, TailOf
<1>n. strays \in Nat /\ faults \in Nat /\ attempt \in Nat
  BY Bounds
<1>m. /\ (strays + faults) - attempt \in Int /\ strays + faults + 1 \in Int
      /\ strays + faults \in Int /\ (strays + faults) - attempt - 1 \in Int
  BY <1>n, OnceMore
<1>2. Asking = c /\ Owed = 1
  BY <1>1 DEF Asking, Owed, Acked
<1>3. InOrder(toHost, Held, ring, c, (strays + faults) - attempt, strays + faults + 1)
  BY <1>2 DEF PipeInOrder
<1>4. toHost[1].code = c /\ Counted(toHost[1].code)
  BY <1>1, <1>t, CountedReply
<1>5. /\ Only(toHost, Held, ring, c)
      /\ c # "CLR" => Held \notin PointBodies /\ \A i \in 1..Len(ring) : ring[i] \notin PointBodies
  BY <1>1, <1>3, <1>4, <1>m, <1>t, Confirms
<1>6. InOrder(Tail(toHost), Held, ring, c, ((strays + faults) - attempt) - 1,
              (strays + faults + 1) - 1)
  BY <1>1, <1>3, <1>4, <1>n, <1>t, OnceMore, Reads
<1>7. InOrder(Tail(toHost), Held, ring, c, (strays + faults) - attempt - 1, strays + faults)
  BY <1>6, <1>n, OnceMore
<1>8. Only(Tail(toHost), Held, ring, c)
  <2>1. /\ Len(Tail(toHost)) = Len(toHost) - 1 /\ Len(toHost) \in Nat
        /\ \A i \in 1..(Len(toHost) - 1) : Tail(toHost)[i] = toHost[i + 1]
    BY <1>1, <1>t, TailOf
  <2>2. \A n \in Nat : \A i \in 1..(n - 1) : i + 1 \in 1..n
    OBVIOUS
  <2>3. \A i \in 1..Len(Tail(toHost)) : Tail(toHost)[i].code \in Acked => Tail(toHost)[i].code = c
    BY <1>5, <2>1, <2>2 DEF Only
  <2> QED
    BY <1>5, <2>3 DEF Only
<1> QED
  BY <1>5, <1>7, <1>8

\* The answer waited for is read: nothing older is left.
LEMMA ConfirmedKeepsPipe ==
  ASSUME McuSession, PipeInOrder,
         ConfirmedClear \/ ConfirmedLoad \/ ConfirmedStart \/ ConfirmedStop
  PROVE  PipeInOrder'
<1>1. PICK c \in Acked : /\ Confirmed(c) /\ attempt' = 0
                         /\ Asking' \notin Acked /\ (Asking' = "DATA" => c = "CLR") /\ Owed' = 0
  <2>1. CASE ConfirmedClear
    <3>1. /\ Confirmed("CLR") /\ attempt' = 0
          /\ Asking' \notin Acked /\ Owed' = 0 /\ "CLR" \in Acked
      BY <2>1 DEF ConfirmedClear, Sends, Asking, Owed, Acked
    <3> QED
      BY <3>1
  <2>2. CASE ConfirmedLoad \/ ConfirmedStart \/ ConfirmedStop
    <3>1. attempt' = 0 /\ Asking' = "none" /\ Owed' = 0 /\ "none" \notin Acked
      BY <2>2 DEF ConfirmedLoad, ConfirmedStart, ConfirmedStop, Finish, Asking, Owed, Acked
    <3>2. Confirmed("LOAD_DONE") \/ Confirmed("START") \/ Confirmed("STOP")
      BY <2>2 DEF ConfirmedLoad, ConfirmedStart, ConfirmedStop
    <3>3. "LOAD_DONE" \in Acked /\ "START" \in Acked /\ "STOP" \in Acked
      BY DEF Acked
    <3> QED
      BY <3>1, <3>2, <3>3
  <2> QED
    BY <2>1, <2>2
<1>2. /\ UNCHANGED <<ring, cmd, main, strays, faults>> /\ toHost # <<>> /\ toHost' = Tail(toHost)
  BY <1>1 DEF Confirmed, firmware, uart
<1>t. /\ ring \in Seq(Tokens) /\ Tail(toHost) \in Seq(Line)
  BY <1>2, SessionFacts, TailOf
<1>3. Held' = Held
  BY <1>2 DEF Held
<1>n. strays \in Nat /\ faults \in Nat /\ attempt \in Nat
  BY Bounds
<1>m. /\ (strays + faults) - attempt \in Int /\ strays + faults + 1 \in Int
      /\ strays + faults \in Int /\ (strays + faults) - attempt - 1 \in Int
  BY <1>n, OnceMore
<1>7. /\ InOrder(Tail(toHost), Held, ring, c, (strays + faults) - attempt - 1, strays + faults)
      /\ Only(Tail(toHost), Held, ring, c)
  BY <1>1, ConfirmedInOrder
<1>4. InOrder(Tail(toHost), Held, ring, Asking', strays + faults, strays + faults)
  <2>1. ASSUME NEW b \in Int, NEW b0 \in Int, NEW s \in Int,
               InOrder(Tail(toHost), Held, ring, c, b0, s)
        PROVE  InOrder(Tail(toHost), Held, ring, Asking', b, s)
    <3>1. /\ Asking' \notin Acked /\ (Asking' = "DATA" => c = "CLR")
          /\ Only(Tail(toHost), Held, ring, c)
      BY <1>1, <1>7
    <3> QED
      BY <1>t, <2>1, <3>1, Settles
  <2> QED
    BY <1>7, <1>m, <2>1
<1>5. (strays + faults) - 0 = strays + faults /\ strays + faults + 0 = strays + faults
  <2>1. \A x \in Int : x - 0 = x /\ x + 0 = x
    OBVIOUS
  <2> QED
    BY <1>n, <2>1, OnceMore
<1> QED
  BY <1>1, <1>2, <1>3, <1>4, <1>5 DEF PipeInOrder

\* An answer is lost.
LEMMA AnswerLostKeepsPipe ==
  ASSUME McuSession, PipeInOrder, AnswerLost
  PROVE  PipeInOrder'
<1>1. /\ toHost # <<>> /\ toHost' = Tail(toHost) /\ faults' = faults + 1
      /\ UNCHANGED <<ring, cmd, main, strays, phase, command, attempt>>
  BY DEF AnswerLost, LoseAnswer, Fault, firmware, uart, controller, sending
<1>2. Held' = Held /\ Asking' = Asking /\ Owed' = Owed
  BY <1>1 DEF Held, Asking, Owed
<1>t. /\ ring \in Seq(Tokens) /\ toHost \in Seq(Line) /\ toHost \in Seq(Replies)
      /\ Tail(toHost) \in Seq(Line)
  BY <1>1, SessionFacts, TailOf
<1>b. \A x, f, a, o \in Nat :
        /\ ((x + f) - a) - 1 \in Int /\ (x + f + o) - 1 \in Int
        /\ (x + (f + 1)) - a \in Int /\ x + (f + 1) + o \in Int
        /\ ((x + f) - a) - 1 <= (x + (f + 1)) - a /\ (x + f + o) - 1 <= x + (f + 1) + o
  OBVIOUS
<1>n. /\ strays \in Nat /\ faults \in Nat /\ attempt \in Nat /\ Owed \in Nat
      /\ (strays + faults) - attempt \in Int /\ strays + faults + Owed \in Int
  <2>1. 0 \in Nat /\ 1 \in Nat
    OBVIOUS
  <2> QED
    BY <2>1, Bounds
<1>3. InOrder(Tail(toHost), Held, ring, Asking, ((strays + faults) - attempt) - 1,
              (strays + faults + Owed) - 1)
  BY <1>1, <1>n, <1>t, CountedReply, Reads DEF PipeInOrder
<1>m. /\ ((strays + faults) - attempt) - 1 \in Int /\ (strays + faults + Owed) - 1 \in Int
      /\ (strays + (faults + 1)) - attempt \in Int /\ strays + (faults + 1) + Owed \in Int
      /\ ((strays + faults) - attempt) - 1 <= (strays + (faults + 1)) - attempt
      /\ (strays + faults + Owed) - 1 <= strays + (faults + 1) + Owed
  BY <1>b, <1>n
<1>4. InOrder(Tail(toHost), Held, ring, Asking, (strays + (faults + 1)) - attempt,
              strays + (faults + 1) + Owed)
  <2>1. ASSUME NEW b \in Int, NEW s \in Int, NEW b2 \in Int, NEW s2 \in Int, b <= b2, s <= s2,
               InOrder(Tail(toHost), Held, ring, Asking, b, s)
        PROVE  InOrder(Tail(toHost), Held, ring, Asking, b2, s2)
    BY <1>t, <2>1, MoreTime
  <2> QED
    BY <1>3, <1>m, <2>1
<1> QED
  BY <1>1, <1>2, <1>4 DEF PipeInOrder

\* Every step to an orderly state keeps the pipe in order.
LEMMA PipeStep ==
  McuSession /\ PipeInOrder /\ [Next]_vars /\ Orderly' => PipeInOrder'
<1> SUFFICES ASSUME McuSession, PipeInOrder, [Next]_vars, Orderly' PROVE PipeInOrder'
  OBVIOUS
<1>1. CASE NewCall
  BY <1>1, QuickKeepsPipe, BeginKeepsPipe DEF NewCall
<1>2. CASE CallGoesOn
  BY <1>2, WriteBodyKeepsPipe, WriteLfKeepsPipe, ReadOtherKeepsPipe, ReadTimesOutKeepsPipe,
     ConfirmedKeepsPipe DEF CallGoesOn
<1>3. CASE WriteFails
  BY <1>3, WriteFailsKeepsPipe
<1>4. CASE Mcu
  BY <1>4, McuKeepsPipe, OrderlyNext
<1>5. CASE AnswerLost
  BY <1>5, AnswerLostKeepsPipe
<1>6. CASE UNCHANGED vars
  <2>1. UNCHANGED <<toHost, ring, cmd, main, phase, command, attempt, strays, faults>>
    BY <1>6 DEF vars, wire, firmware, uart, controller, sending
  <2> QED
    BY <2>1 DEF PipeInOrder, Held, Asking, Owed
<1> QED
  BY <1>1, <1>2, <1>3, <1>4, <1>5, <1>6 DEF Next
-----------------------------------------------------------------------------
\* What a step of the firmware may do to the player and its answers.
Plainly ==
  /\ UNCHANGED <<output, stopReq, loaded>>
  /\ toHost' = toHost \/ Sent(<<Err>>) \/ Sent(<<Ack("LOAD_DONE", loaded)>>)

\* A clear.
Clears ==
  /\ Held = "CLR" /\ ~output' /\ Sent(<<Ack("CLR", 0)>>)

\* A stop.
Stops ==
  /\ Held = "STOP" /\ ~output' /\ loaded' = loaded /\ Sent(<<Ack("STOP", loaded)>>)

\* A point.
Loads ==
  /\ Held \in PointBodies /\ UNCHANGED <<output, stopReq, toHost>>

\* A start.
Plays ==
  /\ Held = "START" /\ output' /\ ~stopReq' /\ loaded' = loaded /\ Sent(<<Ack("START", 0)>>)

\* A tick that finds a stop asked for.
Heeds == stopReq /\ ~output' /\ UNCHANGED <<loaded, toHost>>

\* A fault.
Breaks ==
  /\ faults' > 0 /\ (output' => output)
  /\ loaded' = loaded \/ loaded' = 0
  /\ toHost' = toHost \/ Sent(<<Err>>) \/ Sent([i \in 1..3 |-> BootLine])

\* There are no others.
LEMMA McuEffects ==
  ASSUME McuSession, Mcu
  PROVE  Plainly \/ Clears \/ Stops \/ Loads \/ Plays \/ Heeds \/ Breaks
<1>t. Played /\ PlayerTypes /\ faults \in Nat
  BY SessionParts
<1>h. main = "drain" => Held = cmd
  BY DEF Held
<1>1. CASE Process \/ RingEmpty \/ ProcessBody \/ EmptyLine
  BY <1>1 DEF Plainly, Process, RingEmpty, ProcessBody, EmptyLine, frames, wire, Unasked
<1>2. CASE Clear
  BY <1>2, <1>h DEF Clears, Clear, CompleteLine, ResetBuffer, Answer
<1>3. CASE LoadDone \/ UnknownCommand \/ StartRefused \/ DataRefused
  BY <1>3 DEF Plainly, LoadDone, UnknownCommand, StartRefused, DataRefused, frames, Answer, Unasked
<1>4. CASE Stop
  BY <1>4, <1>h DEF Stops, Stop, CompleteLine, StopImmediate, Answer
<1>5. CASE Data
  <2>1. cmd \in {"DATA", "CUT"} /\ main = "drain"
    BY <1>5 DEF Data, CompleteLine
  <2> QED
    BY <1>5, <1>h, <2>1 DEF Loads, Data, LoadFrame, PointBodies
<1>6. CASE StartPrepares
  <2>1. ~output
    BY <1>6, <1>t DEF StartPrepares, Played
  <2>2. output' = FALSE /\ UNCHANGED <<stopReq, loaded, toHost>>
    BY <1>6 DEF StartPrepares
  <2>3. output' = output
    BY <1>t, <2>1, <2>2 DEF PlayerTypes
  <2> QED
    BY <2>2, <2>3 DEF Plainly
<1>7. CASE StartPlays
  BY <1>7 DEF Plays, StartPlays, Held, Answer
<1>8. CASE TickStops
  BY <1>8 DEF Heeds, TickStops, ObeysStop, StopImmediate, wire
<1>9. CASE FirmwareFaults
  <2>1. faults' > 0
    <3>1. faults' = faults + 1
      BY <1>9 DEF FirmwareFaults, RxError, TickFails, StartFails, Reboot, Fault
    <3> QED
      BY <1>t, <3>1
  <2> QED
    BY <1>9, <2>1 DEF Breaks, FirmwareFaults, RxError, TickFails, StartFails, Reboot, frames,
       Answer, Unasked, BootLine
<1> QED
  BY <1>1, <1>2, <1>3, <1>4, <1>5, <1>6, <1>7, <1>8, <1>9 DEF Mcu, MainLoop

\* What is sent, and what it follows.
LEMMA SentFollowed ==
  ASSUME McuSession, NEW a \in Replies, NEW olds, NEW news, a \notin olds,
         Sent(<<a>>), Followed(toHost, olds, news) \/ a \in news
  PROVE  Followed(toHost', olds, news)
<1>t. toHost \in Seq(Replies) /\ (~port => toHost = <<>>)
  BY SessionFacts
<1>1. CASE port
  <2>1. toHost' = Append(toHost, a)
    BY <1>1, <1>t, OneMore DEF Sent
  <2> QED
    BY <1>t, <2>1, FollowedAppended
<1>2. CASE ~port
  <2>1. toHost' = <<>>
    BY <1>2, <1>t DEF Sent
  <2> QED
    BY <2>1, FollowedEmpty
<1> QED
  BY <1>1, <1>2

\* Boot lines are sent, which are neither.
LEMMA BootsFollowed ==
  ASSUME McuSession, NEW olds, NEW news, BootLine \notin olds,
         Sent([i \in 1..3 |-> BootLine]), Followed(toHost, olds, news)
  PROVE  Followed(toHost', olds, news)
<1>t. toHost \in Seq(Replies) /\ (~port => toHost = <<>>)
  BY SessionFacts
<1>b. BootLine \in Replies
  BY FirmwareAssumption DEF BootLine, Replies
<1>1. CASE port
  <2>1. toHost' = Append(Append(Append(toHost, BootLine), BootLine), BootLine)
    BY <1>1, <1>b, <1>t, Boots DEF Sent
  <2>2. PICK t1 : t1 = Append(toHost, BootLine)
    OBVIOUS
  <2>3. PICK t2 : t2 = Append(t1, BootLine)
    OBVIOUS
  <2>4. t1 \in Seq(Replies) /\ Followed(t1, olds, news)
    BY <1>b, <1>t, <2>2, AppendOf, FollowedAppended
  <2>5. t2 \in Seq(Replies) /\ Followed(t2, olds, news)
    BY <1>b, <2>3, <2>4, AppendOf, FollowedAppended
  <2> QED
    BY <1>b, <2>1, <2>2, <2>3, <2>5, FollowedAppended
<1>2. CASE ~port
  <2>1. toHost' = <<>>
    BY <1>2, <1>t DEF Sent
  <2> QED
    BY <2>1, FollowedEmpty
<1> QED
  BY <1>1, <1>2

\* Bodies among which a line that is spoilt does not count, unless all points do.
Watched == {{"START"}, PointBodies \cup {"CLR"}, {"CLR", "STOP"}}

\* The firmware takes from the ring and brings nothing up that was not in it.
LEMMA NothingComes ==
  ASSUME McuSession, Mcu, NEW X \in Watched, ~Coming(X)
  PROVE  ~Coming(X)'
<1>t. /\ ring \in Seq(Tokens) /\ cmd \in Bodies \cup {""} /\ (main = "start" => cmd = "")
  BY SessionFacts
<1>x. /\ "" \notin X /\ "MIXED" \notin X /\ "LF" \notin X
      /\ "SPOILT" \in X => PointBodies \subseteq X
  BY DEF Watched, PointBodies
<1>1. Held \notin X /\ \A i \in 1..Len(ring) : ring[i] \notin X
  BY DEF Coming
<1>2. \/ ring' = ring
      \/ ring' = <<>>
      \/ ring # <<>> /\ ring' = Tail(ring)
  BY DEF Mcu, MainLoop, FirmwareFaults, Process, RingEmpty, ProcessBody, EmptyLine, Clear,
         LoadDone, Stop, Data, DataRefused, UnknownCommand, StartRefused, StartPrepares,
         StartPlays, TickStops, RxError, TickFails, StartFails, Reboot, CompleteLine, uart
<1>3. \A i \in 1..Len(ring') : ring'[i] \notin X
  <2>1. CASE ring' = ring
    BY <1>1, <2>1
  <2>2. CASE ring' = <<>>
    BY <2>2
  <2>3. CASE ring # <<>> /\ ring' = Tail(ring)
    <3>1. /\ Len(ring') = Len(ring) - 1 /\ Len(ring) \in Nat
          /\ \A i \in 1..(Len(ring) - 1) : ring'[i] = ring[i + 1]
      BY <1>t, <2>3, TailOf
    <3>2. \A n \in Nat : \A i \in 1..(n - 1) : i + 1 \in 1..n
      OBVIOUS
    <3> QED
      BY <1>1, <3>1, <3>2
  <2> QED
    BY <1>2, <2>1, <2>2, <2>3
<1>4. \/ Held' = Held \/ Held' = ""
      \/ ring # <<>> /\ Head(ring) # "LF" /\ Held = cmd /\ Held' = Joined(cmd, Head(ring))
  <2>1. CASE Process \/ RingEmpty
    BY <2>1 DEF Process, RingEmpty, Held
  <2>2. CASE ProcessBody
    BY <2>2 DEF ProcessBody, Held
  <2>3. CASE \/ EmptyLine \/ Clear \/ LoadDone \/ Stop \/ Data \/ DataRefused \/ UnknownCommand
             \/ StartRefused
    BY <2>3 DEF EmptyLine, Clear, LoadDone, Stop, Data, DataRefused, UnknownCommand,
       StartRefused, CompleteLine, Held
  <2>4. CASE StartPrepares
    BY <2>4 DEF StartPrepares, CompleteLine, Held
  <2>5. CASE StartPlays
    BY <2>5, <1>t DEF StartPlays, Held
  <2>6. CASE TickStops \/ RxError \/ TickFails
    BY <2>6 DEF TickStops, RxError, TickFails, Held
  <2>7. CASE StartFails \/ Reboot
    BY <2>7, <1>t DEF StartFails, Reboot, Held
  <2> QED
    BY <2>1, <2>2, <2>3, <2>4, <2>5, <2>6, <2>7 DEF Mcu, MainLoop, FirmwareFaults
<1>5. Held' \notin X
  <2>1. CASE ring # <<>> /\ Head(ring) # "LF" /\ Held = cmd /\ Held' = Joined(cmd, Head(ring))
    <3>1. Head(ring) = ring[1] /\ Len(ring) >= 1 /\ Len(ring) \in Nat
      BY <1>t, <2>1, TailOf
    <3>2. Head(ring) \notin X
      <4>1. \A n \in Nat : n >= 1 => 1 \in 1..n
        OBVIOUS
      <4> QED
        BY <1>1, <3>1, <4>1
    <3>3. Joined(cmd, Head(ring)) \in {Head(ring), "MIXED"} \/
            (Joined(cmd, Head(ring)) = "SPOILT" /\ Head(ring) \in PointBodies)
      BY DEF Joined
    <3> QED
      BY <1>x, <2>1, <3>2, <3>3
  <2> QED
    BY <1>1, <1>4, <1>x, <2>1
<1> QED
  BY <1>3, <1>5 DEF Coming

\* What the firmware may answer now.
LEMMA AcksTyped ==
  ASSUME McuSession
  PROVE  /\ Err \in Replies /\ Ack("CLR", 0) \in Replies /\ Ack("START", 0) \in Replies
         /\ Ack("LOAD_DONE", loaded) \in Replies /\ Ack("STOP", loaded) \in Replies
<1>1. loaded \in 0..FrameBufLen
  BY SessionFacts
<1>2. 0 \in 0..FrameBufLen
  BY FirmwareAssumption
<1>3. "LOAD_DONE" \in Acked /\ "START" \in Acked /\ "STOP" \in Acked /\ "CLR" \in Acked
  BY DEF Acked
<1> QED
  BY <1>1, <1>2, <1>3, RepliesTyped

\* The firmware turns the output on only with the acknowledgement of the start.
LEMMA McuKeepsAnnounced ==
  ASSUME McuSession, Mcu, OutputAnnounced
  PROVE  OutputAnnounced'
<1> DEFINE olds == Lines({"STOP"})
           news == Lines({"START"})
<1> SUFFICES ASSUME output' PROVE Followed(toHost', olds, news)
  BY DEF OutputAnnounced
<1>a. /\ Err \in Replies /\ Err \notin olds /\ BootLine \notin olds
      /\ Ack("LOAD_DONE", loaded) \in Replies /\ Ack("LOAD_DONE", loaded) \notin olds
      /\ Ack("START", 0) \in Replies /\ Ack("START", 0) \notin olds /\ Ack("START", 0) \in news
  <2> QED
    BY AcksTyped, KindsOfLines
<1>p. output => Followed(toHost, olds, news)
  BY DEF OutputAnnounced
<1> HIDE DEF olds, news
<1>1. CASE output
  <2>1. Followed(toHost, olds, news)
    BY <1>1, <1>p
  <2>2. CASE Plainly
    BY <1>a, <2>1, <2>2, SentFollowed DEF Plainly
  <2>3. CASE Loads
    BY <2>1, <2>3 DEF Loads
  <2>4. CASE Plays
    BY <1>a, <2>1, <2>4, SentFollowed DEF Plays
  <2>5. CASE Breaks
    BY <1>a, <2>1, <2>5, SentFollowed, BootsFollowed DEF Breaks
  <2> QED
    BY <2>2, <2>3, <2>4, <2>5, McuEffects DEF Clears, Stops, Heeds
<1>2. CASE ~output
  <2>1. Plays
    BY <1>2, McuEffects DEF Plainly, Clears, Stops, Loads, Heeds, Breaks
  <2> QED
    BY <1>a, <2>1, SentFollowed DEF Plays
<1> QED
  BY <1>1, <1>2

\* Without a start to come it does not turn it on.
LEMMA McuKeepsStop ==
  ASSUME McuSession, Mcu, StopStands
  PROVE  StopStands'
<1>1. stopped' = stopped /\ Asking' = Asking
  BY DEF Mcu, controller, sending, Asking
<1> SUFFICES ASSUME stopped' PROVE ~output' /\ ~Coming({"START"})' /\ Asking' # "START"
  BY DEF StopStands
<1>2. ~output /\ ~Coming({"START"}) /\ Asking # "START"
  BY <1>1 DEF StopStands
<1>3. ~Coming({"START"})'
  BY <1>2, NothingComes DEF Watched
<1>4. Held # "START"
  BY <1>2 DEF Coming
<1>5. ~output'
  BY <1>2, <1>4, McuEffects DEF Plainly, Clears, Stops, Loads, Plays, Heeds, Breaks
<1> QED
  BY <1>1, <1>2, <1>3, <1>5

\* It acknowledges a clear before the count changes for the points loaded after it.
LEMMA McuKeepsCounts ==
  ASSUME McuSession, Mcu, PipeInOrder, CountsHold
  PROVE  CountsHold'
<1> DEFINE Olds(n) == {a \in Lines({"LOAD_DONE", "STOP"}) : a.count # n}
           news == Lines({"CLR"})
<1>t. /\ faults \in Nat /\ faults' \in Nat /\ faults <= faults'
      /\ toHost \in Seq(Replies) /\ toHost \in Seq(Line) /\ ring \in Seq(Tokens)
  <2> QED
    BY FaultsGrow, SessionFacts
<1>a. /\ Err \in Replies /\ BootLine \notin Olds(loaded) /\ Err \notin Olds(loaded)
      /\ Ack("LOAD_DONE", loaded) \in Replies /\ Ack("LOAD_DONE", loaded) \notin Olds(loaded)
      /\ Ack("STOP", loaded) \in Replies /\ Ack("STOP", loaded) \notin Olds(loaded)
      /\ Ack("START", 0) \in Replies /\ Ack("START", 0) \notin Olds(loaded)
      /\ Ack("CLR", 0) \in Replies /\ Ack("CLR", 0) \in news /\ Ack("CLR", 0) \notin Olds(loaded')
  <2> QED
    BY AcksTyped, KindsOfLines
<1>1. CASE Clears
  <2> HIDE DEF Olds, news
  <2>1. Followed(toHost', Olds(loaded'), news)
    BY <1>1, <1>a, SentFollowed DEF Clears
  <2> QED
    BY <2>1 DEF CountsHold, Olds, news
<1>2. CASE Loads
  <2>1. \A i \in 1..Len(toHost) : toHost[i].code \in Acked => toHost[i].code = "CLR"
    BY <1>2, <1>t, Bounds, PointHeld DEF Loads, PipeInOrder
  <2>2. Followed(toHost', Olds(loaded'), news)
    <3>1. \A a \in Olds(loaded') : a.code \in Acked /\ a.code # "CLR"
      BY KindsOfLines DEF Acked
    <3>2. toHost' = toHost
      BY <1>2 DEF Loads
    <3> HIDE DEF Olds, news
    <3> QED
      BY <2>1, <3>1, <3>2 DEF Followed
  <2> QED
    BY <2>2 DEF CountsHold
<1>3. CASE loaded' = 0 /\ faults' > 0
  BY <1>3 DEF CountsHold, Forgot
<1>4. CASE Forgot /\ loaded' = loaded
  <2>1. faults' > 0
    BY <1>4, <1>t DEF Forgot
  <2> QED
    BY <1>4, <2>1 DEF CountsHold, Forgot
<1>5. CASE ~Forgot /\ loaded' = loaded /\ (Plainly \/ Stops \/ Plays \/ Heeds \/ Breaks)
  <2>1. Followed(toHost, Olds(loaded), news)
    BY <1>5 DEF CountsHold
  <2> SUFFICES Followed(toHost', Olds(loaded), news)
    BY <1>5 DEF CountsHold
  <2> HIDE DEF Olds, news
  <2>2. CASE Plainly
    BY <1>a, <2>1, <2>2, SentFollowed DEF Plainly
  <2>3. CASE Stops
    BY <1>a, <2>1, <2>3, SentFollowed DEF Stops
  <2>4. CASE Plays
    BY <1>a, <2>1, <2>4, SentFollowed DEF Plays
  <2>5. CASE Heeds
    BY <2>1, <2>5 DEF Heeds
  <2>6. CASE Breaks
    BY <1>a, <2>1, <2>6, SentFollowed, BootsFollowed DEF Breaks
  <2> QED
    BY <1>5, <2>2, <2>3, <2>4, <2>5, <2>6
<1> QED
  BY <1>1, <1>2, <1>3, <1>4, <1>5, McuEffects DEF Plainly, Stops, Plays, Heeds, Breaks

\* What is loaded changes only by a line that is to come, or with the power.
LEMMA McuKeepsPoints ==
  ASSUME McuSession, Mcu, PointsLoaded
  PROVE  PointsLoaded'
<1>1. points' = points
  BY DEF Mcu, controller, status
<1> SUFFICES ASSUME points' > 0
             PROVE  (loaded' = points' \/ Forgot') /\ ~Coming(PointBodies \cup {"CLR"})'
  BY DEF PointsLoaded
<1>2. (loaded = points \/ Forgot) /\ ~Coming(PointBodies \cup {"CLR"})
  BY <1>1 DEF PointsLoaded
<1>3. ~Coming(PointBodies \cup {"CLR"})'
  BY <1>2, NothingComes DEF Watched
<1>4. Held # "CLR" /\ Held \notin PointBodies
  BY <1>2 DEF Coming
<1>5. loaded' = loaded \/ (loaded' = 0 /\ faults' > 0)
  BY <1>4, McuEffects DEF Plainly, Clears, Stops, Loads, Plays, Heeds, Breaks
<1>6. Forgot /\ loaded' = loaded => Forgot'
  <2>1. faults \in Nat /\ faults <= faults' /\ faults' \in Nat
    BY FaultsGrow
  <2>2. faults > 0 => faults' > 0
    BY <2>1
  <2> QED
    BY <2>2 DEF Forgot
<1>7. loaded' = 0 /\ faults' > 0 => Forgot'
  BY DEF Forgot
<1> QED
  BY <1>1, <1>2, <1>3, <1>5, <1>6, <1>7

\* A stop or a clear that turns the output off is acknowledged after the start.
LEMMA McuKeepsStarts ==
  ASSUME McuSession, Mcu, StartsPlay
  PROVE  StartsPlay'
<1> DEFINE olds == Lines({"START"})
           news == Lines({"CLR", "STOP"})
<1>t. faults \in Nat /\ PlayerTypes /\ PlayerTypes'
  BY SessionParts, McuPlayer
<1>f. Asking' = Asking /\ (faults' = 0 => faults = 0)
  <2>1. faults' = faults \/ faults' = faults + 1
    BY DEF Mcu, MainLoop, FirmwareFaults, Process, RingEmpty, ProcessBody, EmptyLine, Clear,
         LoadDone, Stop, Data, DataRefused, UnknownCommand, StartRefused, StartPrepares,
         StartPlays, TickStops, RxError, TickFails, StartFails, Reboot, CompleteLine, wire, Fault
  <2>2. Asking' = Asking
    BY DEF Mcu, controller, sending, Asking
  <2> QED
    BY <1>t, <2>1, <2>2
<1> SUFFICES ASSUME faults' = 0, Asking' # "STOP", ~(output' /\ ~stopReq')
             PROVE  Followed(toHost', olds, news)
  BY DEF StartsPlay
<1>a. /\ Err \in Replies /\ Err \notin olds
      /\ Ack("LOAD_DONE", loaded) \in Replies /\ Ack("LOAD_DONE", loaded) \notin olds
      /\ Ack("STOP", loaded) \in Replies /\ Ack("STOP", loaded) \notin olds
      /\ Ack("STOP", loaded) \in news
      /\ Ack("CLR", 0) \in Replies /\ Ack("CLR", 0) \notin olds /\ Ack("CLR", 0) \in news
  <2> QED
    BY AcksTyped, KindsOfLines
<1>p. ~(output /\ ~stopReq) => Followed(toHost, olds, news)
  BY <1>f DEF StartsPlay
<1> HIDE DEF olds, news
<1>1. CASE Plainly
  <2>1. ~(output /\ ~stopReq)
    BY <1>1, <1>t DEF Plainly, PlayerTypes
  <2> QED
    BY <1>1, <1>a, <1>p, <2>1, SentFollowed DEF Plainly
<1>2. CASE Clears
  BY <1>2, <1>a, SentFollowed DEF Clears
<1>3. CASE Stops
  BY <1>3, <1>a, SentFollowed DEF Stops
<1>4. CASE Loads
  <2>1. ~(output /\ ~stopReq)
    BY <1>4, <1>t DEF Loads, PlayerTypes
  <2> QED
    BY <1>4, <1>p, <2>1 DEF Loads
<1>5. CASE Heeds
  BY <1>5, <1>p DEF Heeds
<1> QED
  BY <1>1, <1>2, <1>3, <1>4, <1>5, McuEffects DEF Plays, Breaks

\* Without a stop or a clear to come, only a fault turns the output off.
LEMMA McuKeepsScan ==
  ASSUME McuSession, Mcu, ScanRuns
  PROVE  ScanRuns'
<1>t. faults \in Nat /\ PlayerTypes /\ PlayerTypes'
  BY SessionParts, McuPlayer
<1>f. /\ Asking' = Asking /\ scanning' = scanning /\ ready' = ready
      /\ faults' = 0 => faults = 0
  <2>1. faults' = faults \/ faults' = faults + 1
    BY DEF Mcu, MainLoop, FirmwareFaults, Process, RingEmpty, ProcessBody, EmptyLine, Clear,
         LoadDone, Stop, Data, DataRefused, UnknownCommand, StartRefused, StartPrepares,
         StartPlays, TickStops, RxError, TickFails, StartFails, Reboot, CompleteLine, wire, Fault
  <2>2. Asking' = Asking /\ scanning' = scanning /\ ready' = ready
    BY DEF Mcu, controller, sending, status, Asking
  <2> QED
    BY <1>t, <2>1, <2>2
<1> SUFFICES ASSUME faults' = 0, scanning', ready', Asking' # "STOP"
             PROVE  output' /\ ~stopReq' /\ ~Coming({"CLR", "STOP"})'
  BY DEF ScanRuns
<1>1. output /\ ~stopReq /\ ~Coming({"CLR", "STOP"})
  BY <1>f DEF ScanRuns
<1>2. ~Coming({"CLR", "STOP"})'
  BY <1>1, NothingComes DEF Watched
<1>3. Held # "CLR" /\ Held # "STOP"
  BY <1>1 DEF Coming
<1>b. ~Breaks
  BY DEF Breaks
<1>4. output' /\ ~stopReq'
  <2>1. CASE output' = output /\ stopReq' = stopReq
    BY <1>1, <2>1, Zenon
  <2>2. CASE Plays
    BY <2>2 DEF Plays
  <2>3. ~Clears /\ ~Stops /\ ~Heeds
    BY <1>1, <1>3 DEF Clears, Stops, Heeds
  <2>4. (output' = output /\ stopReq' = stopReq) \/ Plays
    BY <1>b, <2>3, McuEffects, Zenon DEF Plainly, Loads
  <2> QED
    BY <2>1, <2>2, <2>4
<1> QED
  BY <1>2, <1>4
-----------------------------------------------------------------------------
\* The host takes answers: it reads one or part of one, or drops them all.
Fewer ==
  \/ toHost' = toHost \/ toHost' = <<>>
  \/ toHost # <<>> /\ (toHost' = Tail(toHost) \/ toHost' = [toHost EXCEPT ![1] = Err])

\* What follows an answer still follows it.
LEMMA FewerFollowed ==
  ASSUME McuSession, Fewer, NEW olds, NEW news, Err \notin olds, Followed(toHost, olds, news)
  PROVE  Followed(toHost', olds, news)
<1>t. toHost \in Seq(Replies)
  BY SessionFacts
<1> QED
  BY <1>t, FollowedEmpty, FollowedRead, FollowedMangled DEF Fewer

\* Without the firmware nothing is announced that was not.
LEMMA FewerAnnounced ==
  ASSUME McuSession, Fewer, output' = output, OutputAnnounced
  PROVE  OutputAnnounced'
<1> DEFINE olds == Lines({"STOP"})
           news == Lines({"START"})
<1>1. Err \notin olds
  BY KindsOfLines
<1>2. output => Followed(toHost, olds, news)
  BY DEF OutputAnnounced
<1> HIDE DEF olds, news
<1>3. output' => Followed(toHost', olds, news)
  BY <1>1, <1>2, FewerFollowed
<1> QED
  BY <1>3 DEF OutputAnnounced, olds, news

\* The counts hold on.
LEMMA FewerCounts ==
  ASSUME McuSession, Fewer, loaded' = loaded, Forgot => Forgot', CountsHold
  PROVE  CountsHold'
<1> DEFINE olds == {a \in Lines({"LOAD_DONE", "STOP"}) : a.count # loaded}
           news == Lines({"CLR"})
<1>1. Err \notin olds
  BY KindsOfLines
<1>2. Forgot \/ Followed(toHost, olds, news)
  BY DEF CountsHold
<1> HIDE DEF olds, news
<1>3. Forgot' \/ Followed(toHost', olds, news)
  BY <1>1, <1>2, FewerFollowed
<1> QED
  BY <1>3 DEF CountsHold, olds, news

\* So do the starts.
LEMMA FewerStarts ==
  ASSUME McuSession, Fewer, faults' = 0 => faults = 0, output' = output, stopReq' = stopReq,
         Asking' = "STOP" \/ Asking # "STOP", StartsPlay
  PROVE  StartsPlay'
<1> DEFINE olds == Lines({"START"})
           news == Lines({"CLR", "STOP"})
<1>1. Err \notin olds
  BY KindsOfLines
<1>2. faults = 0 /\ Asking # "STOP" /\ ~(output /\ ~stopReq) => Followed(toHost, olds, news)
  BY DEF StartsPlay
<1> HIDE DEF olds, news
<1>3. faults' = 0 /\ Asking' # "STOP" /\ ~(output' /\ ~stopReq') => Followed(toHost', olds, news)
  BY <1>1, <1>2, FewerFollowed
<1> QED
  BY <1>3 DEF StartsPlay, olds, news

\* A call's step that neither sends nor learns anything.
Calm ==
  /\ UNCHANGED firmware /\ Fewer
  /\ faults' \in Nat /\ faults <= faults'

\* The firmware is left alone.
LEMMA CalmFacts ==
  ASSUME McuSession, Calm
  PROVE  /\ UNCHANGED <<ring, cmd, main, stopReq, loaded, output>>
         /\ Held' = Held /\ (\A X : Coming(X)' = Coming(X))
         /\ (Forgot => Forgot') /\ (faults' = 0 => faults = 0)
<1>1. UNCHANGED <<ring, cmd, main, stopReq, loaded, output>>
  BY DEF Calm, firmware, uart, frames
<1>2. Held' = Held
  BY <1>1 DEF Held
<1>3. \A X : Coming(X)' = Coming(X)
  BY <1>1, <1>2 DEF Coming
<1>4. faults \in Nat /\ faults' \in Nat /\ faults <= faults'
  BY SessionFacts DEF Calm
<1>5. (faults' = 0 => faults = 0) /\ (faults > 0 => faults' > 0)
  BY <1>4
<1>6. Forgot => Forgot'
  BY <1>1, <1>5 DEF Forgot
<1> QED
  BY <1>1, <1>2, <1>3, <1>5, <1>6

\* Such a step keeps Told, where its own effects allow it.
LEMMA CalmKeepsTold ==
  ASSUME McuSession, Told, Calm,
         StopStands' \/ (stopped' => stopped /\ Asking' # "START"),
         PointsLoaded' \/ points' = points \/ points' = 0,
         StartsPlay' \/ Asking' = "STOP" \/ Asking # "STOP",
         ScanRuns' \/ (scanning' /\ ready' /\ Asking' # "STOP" =>
                         scanning /\ ready /\ Asking # "STOP")
  PROVE  Told'
<1>f. /\ UNCHANGED <<ring, cmd, main, stopReq, loaded, output>>
      /\ Held' = Held /\ (\A X : Coming(X)' = Coming(X))
      /\ (Forgot => Forgot') /\ (faults' = 0 => faults = 0)
  BY CalmFacts
<1>1. OutputAnnounced' /\ CountsHold' /\ StartsPlay'
  BY <1>f, FewerAnnounced, FewerCounts, FewerStarts DEF Told, Calm
<1>2. StopStands'
  BY <1>f DEF Told, StopStands
<1>3. PointsLoaded'
  <2>1. CASE points' = 0
    BY <2>1 DEF PointsLoaded
  <2>2. CASE points' = points
    BY <1>f, <2>2 DEF Told, PointsLoaded
  <2> QED
    BY <2>1, <2>2
<1>4. ScanRuns'
  BY <1>f DEF Told, ScanRuns
<1> QED
  BY <1>1, <1>2, <1>3, <1>4 DEF Told

\* A token that comes in is among X only if it was sent so.
LEMMA RxComes ==
  ASSUME McuSession, NEW x, RxCplt(x), NEW X, x \notin X, x = "DATA" => "CUT" \notin X,
         ~Coming(X)
  PROVE  ~Coming(X)'
<1>t. ring \in Seq(Tokens)
  BY SessionFacts
<1>1. Held' = Held
  BY DEF RxCplt, Held
<1>2. \/ ring' = ring
      \/ ring' = Append(ring, x)
      \/ x = "DATA" /\ ring' = Append(ring, "CUT")
  BY DEF RxCplt, Store
<1>3. ASSUME NEW y, y \notin X, ring' = Append(ring, y)
      PROVE  \A i \in 1..Len(ring') : ring'[i] \notin X
  <2>1. /\ Len(ring') = Len(ring) + 1 /\ Len(ring) \in Nat /\ ring'[Len(ring) + 1] = y
        /\ \A i \in 1..Len(ring) : ring'[i] = ring[i]
    BY <1>3, <1>t
  <2>2. \A i \in 1..Len(ring') : i \in 1..Len(ring) \/ i = Len(ring) + 1
    BY <2>1
  <2> QED
    BY <1>3, <2>1, <2>2 DEF Coming
<1>4. \A i \in 1..Len(ring') : ring'[i] \notin X
  BY <1>2, <1>3 DEF Coming
<1> QED
  BY <1>1, <1>4 DEF Coming

\* The parts of Told that a token coming in leaves alone.
LEMMA RxTold ==
  ASSUME McuSession, Told, NEW x, RxCplt(x), Fewer, faults' \in Nat, faults <= faults'
  PROVE  /\ OutputAnnounced' /\ CountsHold'
         /\ output' = output /\ loaded' = loaded /\ (Forgot => Forgot')
<1>1. output' = output /\ loaded' = loaded
  BY DEF RxCplt
<1>2. Forgot => Forgot'
  <2>0. faults \in Nat
    BY SessionFacts
  <2>1. faults > 0 => faults' > 0
    BY <2>0
  <2> QED
    BY <1>1, <2>1 DEF Forgot
<1> QED
  BY <1>1, <1>2, FewerAnnounced, FewerCounts DEF Told

\* No start comes in after a confirmed stop.
LEMMA RxKeepsStop ==
  ASSUME McuSession, Told, NEW x, RxCplt(x), x # "START",
         stopped' = stopped, Asking' # "START" \/ Asking = "START"
  PROVE  StopStands'
<1>1. output' = output
  BY DEF RxCplt
<1>2. ASSUME stopped' PROVE ~output' /\ ~Coming({"START"})' /\ Asking' # "START"
  <2>1. ~output /\ ~Coming({"START"}) /\ Asking # "START"
    BY <1>2 DEF Told, StopStands
  <2>2. ~Coming({"START"})'
    BY <2>1, RxComes
  <2> QED
    BY <1>1, <2>1, <2>2
<1> QED
  BY <1>2 DEF StopStands

\* No clear and no point comes in while the controller knows of points.
LEMMA RxKeepsPoints ==
  ASSUME McuSession, Told, NEW x, RxCplt(x),
         points > 0 => x \notin PointBodies \cup {"CLR"},
         points' = points \/ points' = 0, Forgot => Forgot'
  PROVE  PointsLoaded'
<1>1. loaded' = loaded
  BY DEF RxCplt
<1>2. ASSUME points' > 0
      PROVE  (loaded' = points' \/ Forgot') /\ ~Coming(PointBodies \cup {"CLR"})'
  <2>1. points' = points
    BY <1>2
  <2>2. (loaded = points \/ Forgot) /\ ~Coming(PointBodies \cup {"CLR"})
    BY <1>2, <2>1 DEF Told, PointsLoaded
  <2>3. x \notin PointBodies \cup {"CLR"} /\ x # "DATA"
    BY <1>2, <2>1 DEF PointBodies
  <2>4. ~Coming(PointBodies \cup {"CLR"})'
    BY <2>2, <2>3, RxComes
  <2> QED
    BY <1>1, <2>1, <2>2, <2>4
<1> QED
  BY <1>2 DEF PointsLoaded

\* The body of a command is written.
LEMMA WriteBodyTold ==
  ASSUME McuSession, Told, WriteBody
  PROVE  Told'
<1>1. /\ UNCHANGED <<connected, ready, scanning, points, command, toHost, faults, stopped>>
      /\ phase = "body" /\ phase' = "lf" /\ RxCplt(command)
  BY DEF WriteBody, wire, status, Kept
<1>t. faults \in Nat /\ Scripted /\ Observed
  BY SessionParts DEF ControllerTypes
<1>2. Asking = command /\ Asking' = command
  BY <1>1 DEF Asking
<1>3. Fewer /\ faults' \in Nat /\ faults <= faults'
  BY <1>1, <1>t DEF Fewer
<1>4. /\ OutputAnnounced' /\ CountsHold'
      /\ output' = output /\ loaded' = loaded /\ (Forgot => Forgot')
  BY <1>1, <1>3, RxTold
<1>5. StopStands'
  <2>1. CASE stopped
    <3>1. command # "START"
      BY <1>2, <2>1 DEF Told, StopStands
    <3> QED
      BY <1>1, <1>2, <3>1, RxKeepsStop
  <2>2. CASE ~stopped
    BY <1>1, <2>2 DEF StopStands
  <2> QED
    BY <2>1, <2>2
<1>6. PointsLoaded'
  <2>1. points > 0 => command \notin PointBodies \cup {"CLR"}
    BY <1>1, <1>t DEF Scripted, PointBodies
  <2> QED
    BY <1>1, <1>4, <2>1, RxKeepsPoints
<1>7. StartsPlay'
  <2>1. command # "LF"
    BY <1>1, <1>t DEF Scripted
  <2>2. PlayerTypes
    BY SessionParts
  <2>3. stopReq' = stopReq
    <3>1. CASE deaf
      BY <1>1, <3>1 DEF RxCplt
    <3>2. CASE ~deaf
      BY <1>1, <2>1, <2>2, <3>2 DEF RxCplt, ObserveFastStop, PlayerTypes
    <3> QED
      BY <3>1, <3>2
  <2> QED
    BY <1>1, <1>2, <1>3, <1>4, <2>3, FewerStarts DEF Told
<1>8. ScanRuns'
  <2>1. scanning => command = "STOP"
    BY <1>1, <1>t DEF Scripted
  <2> QED
    BY <1>1, <1>2, <2>1 DEF ScanRuns
<1> QED
  BY <1>4, <1>5, <1>6, <1>7, <1>8 DEF Told

\* Its line feed is written; without a fault only that of a STOP asks for the fast stop.
LEMMA WriteLfTold ==
  ASSUME McuSession, Told, WriteLf
  PROVE  Told'
<1>1. /\ UNCHANGED <<connected, ready, scanning, points, toHost, faults, stopped>>
      /\ phase = "lf" /\ phase' \in {"await", "body"} /\ RxCplt("LF")
      /\ command' = command \/ (command = "DATA" /\ command' \in {"DATA", "LOAD_DONE"})
  BY DEF WriteLf, wire, status, Kept, Sends
<1>t. faults \in Nat /\ Scripted /\ Observed
  BY SessionParts DEF ControllerTypes
<1>2. Asking = command /\ Asking' = command'
  BY <1>1 DEF Asking
<1>3. Fewer /\ faults' \in Nat /\ faults <= faults'
  BY <1>1, <1>t DEF Fewer
<1>4. /\ OutputAnnounced' /\ CountsHold'
      /\ output' = output /\ loaded' = loaded /\ (Forgot => Forgot')
  BY <1>1, <1>3, RxTold
<1>5. StopStands'
  BY <1>1, <1>2, RxKeepsStop
<1>6. PointsLoaded'
  <2>1. "LF" \notin PointBodies \cup {"CLR"}
    BY DEF PointBodies
  <2> QED
    BY <1>1, <1>4, <2>1, RxKeepsPoints
<1>7. StartsPlay'
  <2>1. CASE faults' = 0 /\ Asking' # "STOP"
    <3>1. command # "STOP"
      BY <1>1, <1>2, <2>1
    <3>2. fast # "STOP"
      BY <1>1, <1>t, <2>1, <3>1 DEF Observed
    <3>3. PlayerTypes
      BY SessionParts
    <3>4. stopReq' = stopReq
      <4>1. CASE deaf
        BY <1>1, <4>1 DEF RxCplt
      <4>2. CASE ~deaf
        BY <1>1, <3>2, <3>3, <4>2 DEF RxCplt, ObserveFastStop, PlayerTypes
      <4> QED
        BY <4>1, <4>2
    <3> QED
      BY <1>1, <1>2, <1>3, <1>4, <3>1, <3>4, FewerStarts DEF Told
  <2>2. CASE ~(faults' = 0 /\ Asking' # "STOP")
    BY <2>2 DEF StartsPlay
  <2> QED
    BY <2>1, <2>2
<1>8. ScanRuns'
  <2>1. scanning => command = "STOP" /\ command' = "STOP"
    BY <1>1, <1>t DEF Scripted
  <2> QED
    BY <1>1, <1>2, <2>1 DEF ScanRuns
<1> QED
  BY <1>4, <1>5, <1>6, <1>7, <1>8 DEF Told

\* What a call that gives up, or tries again, leaves behind.
LEMMA RetryEffects ==
  ASSUME McuSession, NEW rest, Retry(rest) \/ GiveUp(rest), phase # "idle"
  PROVE  /\ toHost' = rest \/ toHost' = <<>>
         /\ points' = points \/ points' = 0
         /\ (phase' = "idle" /\ Asking' = "none") \/ (phase' = "body" /\ Asking' = Asking)
         /\ scanning' /\ ready' => scanning /\ ready
         /\ phase' = "idle" /\ Asking = "STOP" => ~(scanning' /\ ready')
<1>t. Scripted
  BY SessionParts DEF ControllerTypes
<1>1. CASE GiveUp(rest)
  <2>1. phase' = "idle" /\ Asking' = "none"
    BY <1>1 DEF GiveUp, Finish, Asking
  <2>2. Asking = "STOP" => call = "STOP"
    BY <1>t DEF Scripted, Asking
  <2> QED
    BY <1>1, <2>1, <2>2 DEF GiveUp, Forget, status
<1>2. CASE ~GiveUp(rest)
  <2>1. /\ phase' = "body" /\ command' = command /\ toHost' = rest
        /\ UNCHANGED <<scanning, ready, points>>
    BY <1>2 DEF Retry, status
  <2>2. Asking = command /\ Asking' = command
    BY <2>1 DEF Asking
  <2> QED
    BY <2>1, <2>2
<1> QED
  BY <1>1, <1>2

\* A write fails, part of the body or all of the line may be out.
LEMMA WriteFailsTold ==
  ASSUME McuSession, Told, WriteFails
  PROVE  Told'
<1>1. /\ faults' = faults + 1 /\ phase \in {"body", "lf"} /\ stopped' = stopped
      /\ \/ UNCHANGED firmware
         \/ phase = "body" /\ RxCplt(Cut(command))
         \/ phase = "lf" /\ RxCplt("LF")
      /\ Retry(toHost) \/ GiveUp(toHost)
  BY DEF WriteFails, Fault, Kept
<1>t. faults \in Nat /\ Scripted
  BY SessionParts DEF ControllerTypes
<1>f. faults' \in Nat /\ faults <= faults' /\ faults' # 0
  BY <1>1, <1>t
<1>2. /\ toHost' = toHost \/ toHost' = <<>>
      /\ points' = points \/ points' = 0
      /\ (phase' = "idle" /\ Asking' = "none") \/ (phase' = "body" /\ Asking' = Asking)
  BY <1>1, RetryEffects
<1>3. Fewer
  BY <1>2 DEF Fewer
<1>4. StartsPlay' /\ ScanRuns'
  BY <1>f DEF StartsPlay, ScanRuns
<1>5. CASE UNCHANGED firmware
  <2>1. Calm
    BY <1>3, <1>5, <1>f DEF Calm
  <2>2. /\ UNCHANGED <<ring, cmd, main, stopReq, loaded, output>>
        /\ Held' = Held /\ (\A X : Coming(X)' = Coming(X)) /\ (Forgot => Forgot')
    BY <2>1, CalmFacts
  <2>3. OutputAnnounced' /\ CountsHold'
    BY <1>3, <2>2, FewerAnnounced, FewerCounts DEF Told
  <2>4. StopStands'
    BY <1>1, <1>2, <2>2 DEF Told, StopStands
  <2>5. PointsLoaded'
    <3>1. CASE points' = 0
      BY <3>1 DEF PointsLoaded
    <3>2. CASE points' = points
      BY <2>2, <3>2 DEF Told, PointsLoaded
    <3> QED
      BY <1>2, <3>1, <3>2
  <2> QED
    BY <1>4, <2>3, <2>4, <2>5 DEF Told
<1>6. CASE phase = "body" /\ RxCplt(Cut(command))
  <2>1. Cut(command) # "START" /\ (points > 0 => Cut(command) \notin PointBodies \cup {"CLR"})
    BY <1>6, <1>t DEF Cut, PointBodies, Scripted
  <2>2. OutputAnnounced' /\ CountsHold' /\ (Forgot => Forgot')
    BY <1>3, <1>6, <1>f, RxTold
  <2>3. StopStands'
    BY <1>1, <1>2, <1>6, <2>1, RxKeepsStop
  <2>4. PointsLoaded'
    BY <1>2, <1>6, <2>1, <2>2, RxKeepsPoints
  <2> QED
    BY <1>4, <2>2, <2>3, <2>4 DEF Told
<1>7. CASE RxCplt("LF")
  <2>1. "LF" # "START" /\ "LF" \notin PointBodies \cup {"CLR"}
    BY DEF PointBodies
  <2>2. OutputAnnounced' /\ CountsHold' /\ (Forgot => Forgot')
    BY <1>3, <1>7, <1>f, RxTold
  <2>3. StopStands'
    BY <1>1, <1>2, <1>7, <2>1, RxKeepsStop
  <2>4. PointsLoaded'
    BY <1>2, <1>7, <2>1, <2>2, RxKeepsPoints
  <2> QED
    BY <1>4, <2>2, <2>3, <2>4 DEF Told
<1> QED
  BY <1>1, <1>5, <1>6, <1>7

\* Calls that send nothing keep Told.
LEMMA QuickTold ==
  ASSUME McuSession, Told, Configure \/ Connect \/ Disconnect \/ Refused
  PROVE  Told'
<1>q. Quick
  BY DEF Configure, Connect, Disconnect, Refused
<1>1. /\ UNCHANGED <<phase, command, stopped, faults>> /\ UNCHANGED firmware
      /\ toHost' = toHost \/ toHost' = <<>>
      /\ points' = points \/ points' = 0
  BY <1>q DEF Quick, sending, Configure, Connect, Disconnect, Refused, Forget
<1>t. Ported /\ faults \in Nat
  BY SessionParts DEF ControllerTypes
<1>2. Asking' = Asking /\ Asking = "none"
  BY <1>1, <1>q DEF Asking, Quick
<1>3. scanning' /\ ready' => scanning /\ ready
  BY <1>t DEF Configure, Connect, Disconnect, Refused, Forget, Ported
<1>4. Calm
  BY <1>1, <1>t DEF Calm, Fewer
<1> QED
  BY <1>1, <1>2, <1>3, <1>4, CalmKeepsTold

\* So does a call that begins,
LEMMA BeginTold ==
  ASSUME McuSession, Told, (\E n \in Sizes : BeginUpload(n)) \/ BeginStart \/ BeginStop
  PROVE  Told'
<1>1. /\ UNCHANGED <<toHost, faults, scanning>> /\ UNCHANGED firmware
      /\ phase = "idle" /\ phase' = "body"
      /\ points' = points \/ points' = 0
      /\ ready' => ready
      /\ stopped' => stopped /\ command' # "START"
  BY DEF BeginUpload, BeginStart, BeginStop, Begin, Sends, wire
<1>t. faults \in Nat
  BY SessionParts
<1>2. Asking = "none" /\ Asking' = command'
  BY <1>1 DEF Asking
<1>4. Calm
  BY <1>1, <1>t DEF Calm, Fewer
<1> QED
  BY <1>1, <1>2, <1>4, CalmKeepsTold

\* Nothing but c is acknowledged in toHost.
LEMMA NoneFollowed ==
  ASSUME NEW t, NEW h, NEW r, NEW c, NEW d \in Acked, c # d, Only(t, h, r, c), NEW news
  PROVE  Followed(t, Lines({d}), news)
<1>1. \A i \in 1..Len(t) : t[i].code # d
  BY DEF Only
<1>2. \A i \in 1..Len(t) : t[i] \notin Lines({d})
  BY <1>1, KindsOfLines
<1> QED
  BY <1>2 DEF Followed

\* ... one that was not answered in time, or otherwise,
LEMMA UnansweredTold ==
  ASSUME McuSession, Told, ReadOther \/ ReadTimesOut,
         phase' = "idle" => Only(toHost', Held', ring', command)
  PROVE  Told'
<1>1. /\ phase = "await" /\ stopped' = stopped /\ faults' = faults /\ UNCHANGED firmware
      /\ \/ Retry(toHost)
         \/ toHost # <<>> /\ (Retry(Tail(toHost)) \/ Retry([toHost EXCEPT ![1] = Err]))
  BY DEF ReadOther, ReadTimesOut, Kept
<1>t. faults \in Nat /\ Scripted
  BY SessionParts DEF ControllerTypes
<1>2. PICK rest : /\ Retry(rest)
                  /\ rest = toHost \/ (toHost # <<>> /\ (rest = Tail(toHost) \/
                                         rest = [toHost EXCEPT ![1] = Err]))
  BY <1>1
<1>3. /\ toHost' = rest \/ toHost' = <<>>
      /\ points' = points \/ points' = 0
      /\ (phase' = "idle" /\ Asking' = "none") \/ (phase' = "body" /\ Asking' = Asking)
      /\ scanning' /\ ready' => scanning /\ ready
      /\ phase' = "idle" /\ Asking = "STOP" => ~(scanning' /\ ready')
  BY <1>1, <1>2, RetryEffects
<1>4. Calm
  BY <1>1, <1>2, <1>3, <1>t DEF Calm, Fewer
<1>5. stopped' => stopped /\ Asking' # "START"
  BY <1>1, <1>3 DEF Told, StopStands
<1>6. StartsPlay' \/ Asking' = "STOP" \/ Asking # "STOP"
  <2>1. ASSUME Asking = "STOP", Asking' # "STOP" PROVE StartsPlay'
    <3>1. phase' = "idle" /\ command = "STOP"
      BY <1>1, <1>3, <2>1 DEF Asking
    <3>2. \A news : Followed(toHost', Lines({"START"}), news)
      BY <3>1, NoneFollowed DEF Acked
    <3> QED
      BY <3>2 DEF StartsPlay
  <2> QED
    BY <2>1
<1> QED
  BY <1>3, <1>4, <1>5, <1>6, CalmKeepsTold

\* ... an answer that is lost,
LEMMA AnswerLostTold ==
  ASSUME McuSession, Told, AnswerLost
  PROVE  Told'
<1>1. /\ UNCHANGED <<phase, command, stopped, points, scanning, ready>> /\ UNCHANGED firmware
      /\ toHost # <<>> /\ toHost' = Tail(toHost) /\ faults' = faults + 1
  BY DEF AnswerLost, LoseAnswer, Fault, controller, status, sending
<1>t. faults \in Nat
  BY SessionParts
<1>2. Calm
  BY <1>1, <1>t DEF Calm, Fewer
<1>3. Asking' = Asking
  BY <1>1 DEF Asking
<1>4. stopped' => stopped /\ Asking' # "START"
  BY <1>1, <1>3 DEF Told, StopStands
<1> QED
  BY <1>1, <1>2, <1>3, <1>4, CalmKeepsTold

\* ... and a step in which nothing happens.
LEMMA NothingTold ==
  ASSUME McuSession, Told, UNCHANGED vars
  PROVE  Told'
<1>1. /\ UNCHANGED <<phase, command, stopped, points, scanning, ready>> /\ UNCHANGED firmware
      /\ toHost' = toHost /\ faults' = faults
  BY DEF vars, wire, controller, status, sending
<1>t. faults \in Nat
  BY SessionParts
<1>2. Calm
  BY <1>1, <1>t DEF Calm, Fewer
<1>3. Asking' = Asking
  BY <1>1 DEF Asking
<1>4. stopped' => stopped /\ Asking' # "START"
  BY <1>1, <1>3 DEF Told, StopStands
<1> QED
  BY <1>1, <1>2, <1>3, <1>4, CalmKeepsTold

\* Only c is acknowledged in t: a line of c is not followed by another command's.
LEMMA NotFollowed ==
  ASSUME NEW t, NEW olds, t[1] \in olds, 1 \in 1..Len(t), NEW codes, NEW h, NEW r, NEW c,
         Only(t, h, r, c), codes \subseteq Acked, c \notin codes
  PROVE  ~Followed(t, olds, Lines(codes))
<1>1. SUFFICES ASSUME Followed(t, olds, Lines(codes)) PROVE FALSE
  OBVIOUS
<1>2. PICK q \in 1..Len(t) : t[q] \in Lines(codes)
  BY <1>1 DEF Followed
<1>3. t[q].code \in codes
  BY <1>2, KindsOfLines
<1> QED
  BY <1>3 DEF Only

\* What the acknowledgement that is read tells.
LEMMA ConfirmedFacts ==
  ASSUME McuSession, PipeInOrder, NEW c \in Acked, Confirmed(c)
  PROVE  /\ phase = "await" /\ command = c /\ Asking = c /\ toHost # <<>>
         /\ toHost[1] = Head(toHost) /\ toHost[1] \in Lines({c}) /\ 1 \in 1..Len(toHost)
         /\ toHost' = Tail(toHost) /\ Calm
<1>1. /\ phase = "await" /\ command = c /\ toHost # <<>> /\ Head(toHost).code = c
      /\ toHost' = Tail(toHost) /\ UNCHANGED firmware /\ faults' = faults
  BY DEF Confirmed, Expected
<1>t. faults \in Nat /\ toHost \in Seq(Replies)
  BY SessionFacts
<1>2. toHost[1] = Head(toHost) /\ toHost[1] \in Replies
  BY <1>1, <1>t, CountedReply
<1>3. 1 \in 1..Len(toHost)
  <2>1. Len(toHost) \in Nat /\ Len(toHost) >= 1
    BY <1>1, <1>t, TailOf
  <2> QED
    BY <2>1
<1>4. Calm
  BY <1>1, <1>t DEF Calm, Fewer
<1>5. Asking = c
  BY <1>1 DEF Asking
<1> QED
  BY <1>1, <1>2, <1>3, <1>4, <1>5 DEF Lines

\* The count that comes with an acknowledgement is the one loaded.
LEMMA CountIsLoaded ==
  ASSUME McuSession, PipeInOrder, Told, NEW c \in {"LOAD_DONE", "STOP"}, Confirmed(c),
         points' = Count
  PROVE  PointsLoaded'
<1>c. c \in Acked /\ c # "CLR" /\ "CLR" \in Acked
  BY DEF Acked
<1>1. /\ Only(toHost, Held, ring, c) /\ Held \notin PointBodies
      /\ \A i \in 1..Len(ring) : ring[i] \notin PointBodies
  BY <1>c, ConfirmedInOrder
<1>2. /\ toHost[1] = Head(toHost) /\ toHost[1] \in Lines({c}) /\ 1 \in 1..Len(toHost) /\ Calm
  BY <1>c, ConfirmedFacts
<1>3. ~Coming(PointBodies \cup {"CLR"})
  BY <1>1, <1>c DEF Coming, Only
<1>4. Head(toHost).count = loaded \/ Forgot
  <2>1. ASSUME Head(toHost).count # loaded, ~Forgot PROVE FALSE
    <3> DEFINE olds == {a \in Lines({"LOAD_DONE", "STOP"}) : a.count # loaded}
    <3>1. Followed(toHost, olds, Lines({"CLR"}))
      BY <2>1 DEF Told, CountsHold
    <3>2. toHost[1] \in olds
      BY <1>2, <2>1 DEF Lines
    <3> HIDE DEF olds
    <3> QED
      BY <1>1, <1>2, <1>c, <3>1, <3>2, NotFollowed
  <2> QED
    BY <2>1
<1>f. /\ loaded' = loaded /\ (\A X : Coming(X)' = Coming(X)) /\ (Forgot => Forgot')
  BY <1>2, CalmFacts
<1> QED
  BY <1>3, <1>4, <1>f DEF PointsLoaded, Count

\* A clear is acknowledged.
LEMMA ConfirmedClearTold ==
  ASSUME McuSession, PipeInOrder, Told, ConfirmedClear
  PROVE  Told'
<1>1. /\ Confirmed("CLR") /\ "CLR" \in Acked /\ UNCHANGED <<ready, scanning, points, stopped>>
      /\ phase' = "body" /\ command' = "DATA"
  BY DEF ConfirmedClear, Sends, Acked
<1>2. Asking = "CLR" /\ Calm
  BY <1>1, ConfirmedFacts
<1>3. Asking' = "DATA"
  BY <1>1 DEF Asking
<1> QED
  BY <1>1, <1>2, <1>3, CalmKeepsTold

\* The upload is acknowledged.
LEMMA ConfirmedLoadTold ==
  ASSUME McuSession, PipeInOrder, Told, ConfirmedLoad
  PROVE  Told'
<1>1. /\ Confirmed("LOAD_DONE") /\ "LOAD_DONE" \in Acked /\ UNCHANGED <<scanning, stopped>>
      /\ phase' = "idle" /\ (points' = Count \/ points' = 0)
  BY DEF ConfirmedLoad, Finish, Forget, Acked
<1>2. phase = "await" /\ command = "LOAD_DONE" /\ Asking = "LOAD_DONE" /\ Calm
  BY <1>1, ConfirmedFacts
<1>3. Asking' = "none"
  BY <1>1 DEF Asking
<1>4. ~scanning
  <2>1. Scripted
    BY SessionParts DEF ControllerTypes
  <2> QED
    BY <1>2, <2>1 DEF Scripted
<1>5. points' = Count => PointsLoaded'
  BY <1>1, CountIsLoaded
<1> QED
  BY <1>1, <1>2, <1>3, <1>4, <1>5, CalmKeepsTold

\* The start is acknowledged: the scan runs.
LEMMA ConfirmedStartTold ==
  ASSUME McuSession, PipeInOrder, Told, ConfirmedStart
  PROVE  Told'
<1>1. /\ Confirmed("START") /\ "START" \in Acked /\ UNCHANGED <<ready, points, stopped>>
      /\ phase' = "idle"
  BY DEF ConfirmedStart, Finish, Acked
<1>2. /\ Asking = "START" /\ Calm /\ toHost[1] \in Lines({"START"}) /\ 1 \in 1..Len(toHost)
  BY <1>1, ConfirmedFacts
<1>3. Asking' = "none"
  BY <1>1 DEF Asking
<1>4. Only(toHost, Held, ring, "START")
  BY <1>1, ConfirmedInOrder
<1>5. ~Coming({"CLR", "STOP"})
  BY <1>4 DEF Coming, Only, Acked
<1>6. faults = 0 => output /\ ~stopReq
  <2>1. ~Followed(toHost, Lines({"START"}), Lines({"CLR", "STOP"}))
    BY <1>2, <1>4, NotFollowed DEF Acked
  <2>2. StartsPlay
    BY DEF Told
  <2> QED
    BY <1>2, <2>1, <2>2 DEF StartsPlay
<1>7. ScanRuns'
  <2>f. /\ UNCHANGED <<stopReq, output>> /\ (\A X : Coming(X)' = Coming(X))
        /\ (faults' = 0 => faults = 0)
    BY <1>2, CalmFacts
  <2> QED
    BY <1>5, <1>6, <2>f DEF ScanRuns
<1> QED
  BY <1>1, <1>2, <1>3, <1>7, CalmKeepsTold

\* The stop is acknowledged: the output is off, and no start is left in the pipe.
LEMMA ConfirmedStopTold ==
  ASSUME McuSession, PipeInOrder, Told, ConfirmedStop
  PROVE  Told'
<1>1. /\ Confirmed("STOP") /\ "STOP" \in Acked /\ points' = Count /\ scanning' = FALSE
      /\ phase' = "idle"
  BY DEF ConfirmedStop, Finish, Acked
<1>2. /\ Calm /\ toHost[1] \in Lines({"STOP"}) /\ 1 \in 1..Len(toHost) /\ toHost' = Tail(toHost)
  BY <1>1, ConfirmedFacts
<1>3. Asking' = "none"
  BY <1>1 DEF Asking
<1>4. Only(toHost, Held, ring, "STOP") /\ Only(Tail(toHost), Held, ring, "STOP")
  BY <1>1, ConfirmedInOrder
<1>5. ~output /\ ~Coming({"START"})
  <2>1. ~Followed(toHost, Lines({"STOP"}), Lines({"START"}))
    <3>1. {"START"} \subseteq Acked /\ "STOP" \notin {"START"}
      BY DEF Acked
    <3> QED
      BY <1>2, <1>4, <3>1, NotFollowed
  <2>2. ~output
    BY <2>1 DEF Told, OutputAnnounced
  <2> QED
    BY <1>4, <2>2 DEF Coming, Only, Acked
<1>6. StopStands'
  <2>f. UNCHANGED output /\ (\A X : Coming(X)' = Coming(X))
    BY <1>2, CalmFacts
  <2> QED
    BY <1>3, <1>5, <2>f DEF StopStands
<1>7. StartsPlay'
  <2>1. \A news : Followed(toHost', Lines({"START"}), news)
    BY <1>2, <1>4, NoneFollowed DEF Acked
  <2> QED
    BY <2>1 DEF StartsPlay
<1>8. PointsLoaded' /\ ScanRuns'
  BY <1>1, CountIsLoaded DEF ScanRuns
<1> QED
  BY <1>2, <1>6, <1>7, <1>8, CalmKeepsTold

\* The firmware keeps Told.
LEMMA McuTold ==
  ASSUME McuSession, Mcu, PipeInOrder, Told
  PROVE  Told'
BY McuKeepsAnnounced, McuKeepsStop, McuKeepsCounts, McuKeepsPoints, McuKeepsStarts,
   McuKeepsScan DEF Told

\* So does every step to an orderly state.
LEMMA ToldStep == McuSession /\ PipeInOrder /\ Told /\ [Next]_vars /\ Orderly' => Told'
<1> SUFFICES ASSUME McuSession, PipeInOrder, Told, [Next]_vars, Orderly' PROVE Told'
  OBVIOUS
<1>1. CASE NewCall
  BY <1>1, QuickTold, BeginTold DEF NewCall
<1>2. CASE CallGoesOn
  BY <1>2, WriteBodyTold, WriteLfTold, UnansweredTold, ReadOtherKeepsPipe, ReadTimesOutKeepsPipe,
     ConfirmedClearTold, ConfirmedLoadTold, ConfirmedStartTold, ConfirmedStopTold
  DEF CallGoesOn
<1>3. CASE WriteFails
  BY <1>3, WriteFailsTold
<1>4. CASE Mcu
  BY <1>4, McuTold
<1>5. CASE AnswerLost
  BY <1>5, AnswerLostTold
<1>6. CASE UNCHANGED vars
  BY <1>6, NothingTold
<1> QED
  BY <1>1, <1>2, <1>3, <1>4, <1>5, <1>6 DEF Next
-----------------------------------------------------------------------------
\* The invariant starts out true.
LEMMA McuStart == Init => McuInv
<1> SUFFICES ASSUME Init PROVE McuInv
  OBVIOUS
<1>1. McuSession
  BY SessionStart
<1>2. /\ toHost = <<>> /\ ring = <<>> /\ Held = "" /\ Asking = "none" /\ Owed = 0
      /\ strays = 0 /\ faults = 0 /\ attempt = 0 /\ ~output /\ ~stopped /\ points = 0
      /\ ~scanning
  BY DEF Init, FirmwareInit, WireInit, Held, Asking, Owed
<1>3. PipeInOrder
  <2>1. InOrder(<<>>, "", <<>>, "none", 0, 0)
    <3>1. 0 \in Int /\ 0 \in Nat
      OBVIOUS
    <3> QED
      BY <3>1, Quiet
  <2>2. (0 + 0) - 0 = 0 /\ 0 + 0 + 0 = 0
    OBVIOUS
  <2> QED
    BY <1>2, <2>1, <2>2 DEF PipeInOrder
<1>4. Told
  <2>1. OutputAnnounced /\ StopStands /\ PointsLoaded /\ ScanRuns
    <3>0. ~(0 > 0)
      OBVIOUS
    <3>1. ~(points > 0)
      BY <1>2, <3>0
    <3> QED
      BY <1>2, <3>1, Zenon DEF OutputAnnounced, StopStands, PointsLoaded, ScanRuns
  <2>2. CountsHold /\ StartsPlay
    BY <1>2, FollowedEmpty DEF CountsHold, StartsPlay
  <2> QED
    BY <2>1, <2>2 DEF Told
<1> QED
  BY <1>1, <1>3, <1>4 DEF McuInv, McuOrder

\* Every step keeps the invariant.
LEMMA McuStep == McuInv /\ [Next]_vars => McuInv'
<1> SUFFICES ASSUME McuInv, [Next]_vars PROVE McuInv'
  OBVIOUS
<1>1. McuSession /\ McuSession'
  BY SessionStep DEF McuInv
<1>2. ASSUME Orderly' PROVE McuOrder'
  <2>1. McuOrder
    BY <1>1, <1>2, OrderlyBefore DEF McuInv
  <2>2. PipeInOrder /\ Told
    BY <2>1 DEF McuOrder
  <2>3. PipeInOrder' /\ Told'
    BY <1>1, <1>2, <2>2, PipeStep, ToldStep
  <2> QED
    BY <2>3 DEF McuOrder
<1> QED
  BY <1>1, <1>2 DEF McuInv

\* The pipe stays in order as long as the link is orderly, and the rest holds always
\* (sendAndExpect against UARTCMD_ProcessLine).
THEOREM McuInvariant == Spec => []McuInv
BY McuStart, McuStep, PTL DEF Spec

\* A ready controller knows how many points the MCU has loaded, unless the MCU lost its memory
\* (uploadWaveform, stopScan).
THEOREM ReadyIsLoaded == Spec => []ReadyMeansLoaded
<1>1. McuInv => ReadyMeansLoaded
  <2>1. ASSUME McuInv, Orderly, ready
        PROVE  points > 0 /\ (loaded = points \/ (loaded = 0 /\ faults > 0))
    <3>1. points > 0
      BY <2>1 DEF McuInv, McuSession, Scripted
    <3> QED
      BY <2>1, <3>1 DEF McuInv, McuOrder, Told, PointsLoaded, Forgot
  <2> QED
    BY <2>1 DEF ReadyMeansLoaded
<1> QED
  BY <1>1, McuInvariant, PTL

\* After a confirmed stop the output stays off until START is written again
\* (stopScan, UARTCMD_ProcessLine).
THEOREM StopsHold == Spec => []StoppedMeansOff
<1>1. McuInv => StoppedMeansOff
  BY DEF McuInv, McuOrder, Told, StopStands, StoppedMeansOff, Coming, Held
<1> QED
  BY <1>1, McuInvariant, PTL

\* A scan the controller calls active plays, unless there was a fault or a stop failed
\* (startScan).
THEOREM ScansPlay == Spec => []ScanningMeansPlaying
<1>1. McuInv => ScanningMeansPlaying
  BY DEF McuInv, McuOrder, Told, ScanRuns, ScanningMeansPlaying, Asking
<1> QED
  BY <1>1, McuInvariant, PTL

\* Each device keeps to its own specification, with its fairness left aside.
LEMMA SerialParts == SerialSpec => Spec /\ EdfaSpec
<1>1. SerialInit => Init /\ EdfaInit
  BY DEF SerialInit
<1>2. [SerialNext]_serialVars => [Next]_vars /\ [EdfaNext]_edfaVars
  BY DEF SerialNext, serialVars
<1> QED
  BY <1>1, <1>2, PTL DEF SerialSpec, Spec, EdfaSpec

\* Types hold for scanner and amplifier side by side (McuSerialController, EdfaSerialController).
THEOREM SerialTypesHold == SerialSpec => []SerialTypeOK
<1>1. TypeOK /\ EdfaTypeOK => SerialTypeOK
  BY DEF SerialTypeOK
<1> QED
  BY <1>1, SerialParts, McuTypesHold, EdfaTypesHold, PTL
=============================================================================
