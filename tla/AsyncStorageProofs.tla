-------------------------- MODULE AsyncStorageProofs --------------------------
(***************************************************************************)
(* What a recording promises, for every capacity, part size, number of     *)
(* blocks and sessions, and every choice of enabled streams: a sidecar     *)
(* that says completed is true of its stream, the parts of such a raw      *)
(* recording replay to the end with every accepted block, two sidecars     *)
(* agree on the cause, and accepted blocks are lost only with an error.    *)
(*                                                                         *)
(* First what the outcomes of the raw writer do to its files, then the     *)
(* invariant of the two workers. The types of the display, which shares a  *)
(* run with the recording, come last.                                      *)
(***************************************************************************)
EXTENDS MCOutputs, IntervalInduction, SequenceTheorems

-----------------------------------------------------------------------------
(* The raw recording on disk.                                              *)

Part == [blocks : Nat, tail : Tails]

\* A stream that is open, or has failed, has a part.
Recordings == {f \in Files : f.stream # "closed" => f.parts # <<>>}
Outcomes == [ok : BOOLEAN, file : Recordings]

\* The fields of a file.
LEMMA FileFields ==
  ASSUME NEW f \in Files
  PROVE  /\ f.parts \in Seq(Part) /\ f.listed \in Nat /\ f.stream \in {"closed", "good", "bad"}
         /\ Len(f.parts) \in Nat
BY DEF Files, Part

\* The last part of a file is a part.
LEMMA CurrentPart ==
  ASSUME NEW f \in Files, f.parts # <<>>
  PROVE  Len(f.parts) \in 1..Len(f.parts) /\ Current(f) \in Part
<1>1. f.parts \in Seq(Part) /\ Len(f.parts) \in Nat /\ Len(f.parts) # 0
  BY FileFields, EmptySeq
<1>2. Len(f.parts) \in 1..Len(f.parts)
  BY <1>1
<1> QED
  BY <1>1, <1>2, ElementOfSeq DEF Current

\* Replacing the last part changes nothing else.
LEMMA CurrentReplaced ==
  ASSUME NEW f \in Files, f.parts # <<>>, NEW part \in Part
  PROVE  LET g == WithCurrent(f, part) IN
         /\ g \in Files /\ g.listed = f.listed /\ g.stream = f.stream
         /\ Len(g.parts) = Len(f.parts)
         /\ \A i \in 1..Len(f.parts) :
              g.parts[i] = IF i = Len(f.parts) THEN part ELSE f.parts[i]
<1> DEFINE n == Len(f.parts)
           ps == [f.parts EXCEPT ![n] = part]
           g == WithCurrent(f, part)
<1>1. f.parts \in Seq(Part) /\ n \in 1..n
  BY FileFields, CurrentPart
<1>2. ps \in Seq(Part) /\ Len(ps) = n /\ \A i \in 1..n : ps[i] = IF i = n THEN part ELSE f.parts[i]
  BY <1>1, ExceptSeq
<1>3. g = [f EXCEPT !.parts = ps]
  BY DEF WithCurrent
<1>4. g.parts = ps /\ g.listed = f.listed /\ g.stream = f.stream /\ g \in Files
  <2> HIDE DEF ps
  <2> QED
    BY <1>2, <1>3 DEF Files, Part
<1> QED
  BY <1>2, <1>4

\* A change of the stream changes nothing else.
LEMMA StreamSet ==
  ASSUME NEW f \in Files, NEW stream \in {"closed", "good", "bad"}
  PROVE  LET g == [f EXCEPT !.stream = stream] IN
         g \in Files /\ g.parts = f.parts /\ g.listed = f.listed /\ g.stream = stream
BY DEF Files

\* A file with one more part at the end, as openPart leaves it.
WithPart(f, part, stream) == [f EXCEPT !.parts = Append(@, part), !.stream = stream]

\* It has the parts it had and the new one.
LEMMA PartAdded ==
  ASSUME NEW f \in Files, NEW part \in Part, NEW stream \in {"closed", "good", "bad"}
  PROVE  LET g == WithPart(f, part, stream) IN
         /\ g \in Files /\ g.listed = f.listed /\ g.stream = stream /\ g.parts # <<>>
         /\ Len(g.parts) = Len(f.parts) + 1
         /\ \A i \in 1..Len(f.parts) : g.parts[i] = f.parts[i]
         /\ g.parts[Len(f.parts) + 1] = part
<1> DEFINE ps == Append(f.parts, part)
           g == WithPart(f, part, stream)
<1>1. f.parts \in Seq(Part)
  BY FileFields
<1>2. /\ ps \in Seq(Part) /\ Len(ps) = Len(f.parts) + 1 /\ ps[Len(f.parts) + 1] = part
      /\ \A i \in 1..Len(f.parts) : ps[i] = f.parts[i]
  BY <1>1, AppendProperties
<1>3. ps # <<>>
  BY <1>2, FileFields, EmptySeq
<1>4. g = [f EXCEPT !.parts = ps, !.stream = stream]
  BY DEF Files, WithPart
<1>5. g.parts = ps /\ g.listed = f.listed /\ g.stream = stream /\ g \in Files
  <2> HIDE DEF ps
  <2> QED
    BY <1>2, <1>4 DEF Files, Part
<1> QED
  BY <1>2, <1>3, <1>5

\* A file makes a good and a bad outcome.
LEMMA OutcomesMade ==
  ASSUME NEW f \in Recordings
  PROVE  Done(f) \in Outcomes /\ Fails(f) \in Outcomes
BY DEF Done, Fails, Outcomes

\* Every outcome, good or bad, leaves a recording.
LEMMA OutcomesSplit ==
  ASSUME NEW outcomes, outcomes \subseteq Outcomes
  PROVE  Good(outcomes) \subseteq Recordings /\ \A o \in Bad(outcomes) : o.file \in Recordings
BY DEF Good, Bad, Outcomes

\* What closePart leaves behind when it succeeds on an open part.
LEMMA ClosedWell ==
  ASSUME NEW f \in Files, f.stream = "good", f.parts # <<>>, NEW g \in Good(Closed(f))
  PROVE  /\ g \in Files /\ g.listed = f.listed /\ g.stream = "closed" /\ g.parts # <<>>
         /\ Len(g.parts) = Len(f.parts)
         /\ \A i \in 1..Len(f.parts) :
              /\ g.parts[i].blocks = f.parts[i].blocks
              /\ g.parts[i].tail = IF i = Len(f.parts) THEN "clean" ELSE f.parts[i].tail
<1> DEFINE part == [Current(f) EXCEPT !.tail = "clean"]
           w == WithCurrent(f, part)
<1>1. part \in Part /\ part.blocks = Current(f).blocks /\ part.tail = "clean"
  BY CurrentPart DEF Part, Tails
<1>2. g = [w EXCEPT !.stream = "closed"]
  BY DEF Closed, Good, Done, Fails
<1>3. /\ w \in Files /\ w.listed = f.listed /\ Len(w.parts) = Len(f.parts)
      /\ \A i \in 1..Len(f.parts) : w.parts[i] = IF i = Len(f.parts) THEN part ELSE f.parts[i]
  <2> HIDE DEF part
  <2> QED
    BY <1>1, CurrentReplaced
<1>4. g \in Files /\ g.parts = w.parts /\ g.listed = w.listed /\ g.stream = "closed"
  <2> HIDE DEF w
  <2> QED
    BY <1>2, <1>3, StreamSet
<1>5. \A i \in 1..Len(f.parts) :
        /\ w.parts[i].blocks = f.parts[i].blocks
        /\ w.parts[i].tail = IF i = Len(f.parts) THEN "clean" ELSE f.parts[i].tail
  <2> HIDE DEF w, part
  <2> QED
    BY <1>1, <1>3 DEF Current
<1>6. g.parts # <<>>
  <2> HIDE DEF w, part
  <2> QED
    BY <1>3, <1>4, FileFields, EmptySeq
<1> QED
  BY <1>3, <1>4, <1>5, <1>6

\* Closing a part leaves a recording whatever becomes of it; so does
LEMMA ClosedTypes == ASSUME NEW f \in Recordings PROVE Closed(f) \subseteq Outcomes
<1>1. f \in Files
  BY DEF Recordings
<1>2. CASE f.stream = "closed"
  BY <1>2, OutcomesMade DEF Closed
<1>3. CASE f.stream = "bad"
  BY <1>3, OutcomesMade DEF Closed
<1>4. CASE f.stream = "good"
  <2> DEFINE g == [WithCurrent(f, [Current(f) EXCEPT !.tail = "clean"]) EXCEPT !.stream = "closed"]
             bad == [f EXCEPT !.stream = "bad"]
             shut == [f EXCEPT !.stream = "closed"]
  <2>1. f.parts # <<>>
    BY <1>4 DEF Recordings
  <2>2. Closed(f) = {Done(g), Fails(bad), Fails(shut)}
    BY <1>4 DEF Closed
  <2>3. g \in Good(Closed(f))
    BY <2>2 DEF Good, Done
  <2>4. g \in Recordings
    <3> HIDE DEF g
    <3> QED
      BY <1>1, <1>4, <2>1, <2>3, ClosedWell DEF Recordings
  <2>5. bad \in Recordings /\ shut \in Recordings
    <3>1. bad \in Files /\ bad.parts = f.parts /\ shut \in Files /\ shut.stream = "closed"
      BY <1>1, StreamSet
    <3> HIDE DEF bad, shut
    <3> QED
      BY <3>1, <2>1 DEF Recordings
  <2> HIDE DEF g, bad, shut
  <2> QED
    BY <2>2, <2>4, <2>5, OutcomesMade
<1> QED
  BY <1>1, <1>2, <1>3, <1>4, FileFields

\* What openPart leaves behind when it succeeds: one more part, listed and empty.
LEMMA OpenedWell ==
  ASSUME NEW f \in Files, NEW g \in Good(Opened(f))
  PROVE  /\ g \in Files /\ g.listed = f.listed + 1 /\ g.stream = "good" /\ g.parts # <<>>
         /\ Len(g.parts) = Len(f.parts) + 1
         /\ \A i \in 1..Len(f.parts) : g.parts[i] = f.parts[i]
         /\ g.parts[Len(f.parts) + 1] = [blocks |-> 0, tail |-> "padded"]
<1> DEFINE part == [blocks |-> 0, tail |-> "padded"]
           h == WithPart(f, part, "good")
<1>1. part \in Part
  BY DEF Part, Tails
<1>2. g = [h EXCEPT !.listed = @ + 1]
  BY DEF Opened, WithPart, Good, Done, Fails
<1>3. /\ h \in Files /\ h.listed = f.listed /\ h.stream = "good" /\ h.parts # <<>>
      /\ Len(h.parts) = Len(f.parts) + 1
      /\ \A i \in 1..Len(f.parts) : h.parts[i] = f.parts[i]
      /\ h.parts[Len(f.parts) + 1] = part
  <2>1. "good" \in {"closed", "good", "bad"}
    OBVIOUS
  <2> HIDE DEF part
  <2> QED
    BY <1>1, <2>1, PartAdded
<1>4. g \in Files /\ g.listed = h.listed + 1 /\ g.stream = h.stream /\ g.parts = h.parts
  <2> HIDE DEF h, part
  <2>1. h.listed + 1 \in Nat
    BY <1>3, FileFields
  <2> QED
    BY <1>2, <1>3, <2>1 DEF Files
<1> QED
  BY <1>3, <1>4

\* opening one,
LEMMA OpenedTypes == ASSUME NEW f \in Recordings PROVE Opened(f) \subseteq Outcomes
<1> DEFINE headless == [blocks |-> 0, tail |-> "torn"]
           padded == [blocks |-> 0, tail |-> "padded"]
           new(part, stream) == WithPart(f, part, stream)
           g == [new(padded, "good") EXCEPT !.listed = @ + 1]
<1>1. f \in Files
  BY DEF Recordings
<1>2. Opened(f) = {Done(g), Fails(f), Fails(new(headless, "closed")), Fails(new(headless, "bad"))}
  BY DEF Opened, WithPart
<1>3. g \in Good(Opened(f))
  <2>1. Done(g) \in Opened(f) /\ Done(g).ok /\ Done(g).file = g
    <3> HIDE DEF g, new
    <3> QED
      BY <1>2 DEF Done
  <2> HIDE DEF g, new
  <2> QED
    BY <2>1 DEF Good
<1>4. g \in Recordings
  <2> HIDE DEF g
  <2> QED
    BY <1>1, <1>3, OpenedWell DEF Recordings
<1>5. new(headless, "closed") \in Recordings /\ new(headless, "bad") \in Recordings
  <2>1. headless \in Part
    BY DEF Part, Tails
  <2> HIDE DEF headless
  <2>2. /\ new(headless, "closed") \in Files /\ new(headless, "closed").parts # <<>>
        /\ new(headless, "bad") \in Files /\ new(headless, "bad").parts # <<>>
    BY <1>1, <2>1, PartAdded
  <2> HIDE DEF new
  <2> QED
    BY <2>2 DEF Recordings
<1> HIDE DEF g, new
<1> QED
  BY <1>2, <1>4, <1>5, OutcomesMade

\* What writeRawBlock leaves behind when it succeeds: one more block in the last part.
LEMMA AppendedWell ==
  ASSUME NEW f \in Files, f.parts # <<>>, NEW g \in Good(Appended(f))
  PROVE  /\ g \in Files /\ g.listed = f.listed /\ g.stream = f.stream
         /\ Len(g.parts) = Len(f.parts)
         /\ \A i \in 1..Len(f.parts) :
              /\ g.parts[i].blocks = f.parts[i].blocks + IF i = Len(f.parts) THEN 1 ELSE 0
              /\ g.parts[i].tail = f.parts[i].tail
<1> DEFINE part == [Current(f) EXCEPT !.blocks = @ + 1]
<1>1. part \in Part /\ part.blocks = Current(f).blocks + 1 /\ part.tail = Current(f).tail
  BY CurrentPart DEF Part
<1>2. g = WithCurrent(f, part)
  BY DEF Appended, Good, Done, Fails
<1> HIDE DEF part
<1>3. /\ g \in Files /\ g.listed = f.listed /\ g.stream = f.stream /\ Len(g.parts) = Len(f.parts)
      /\ \A i \in 1..Len(f.parts) : g.parts[i] = IF i = Len(f.parts) THEN part ELSE f.parts[i]
  BY <1>1, <1>2, CurrentReplaced
<1>4. \A i \in 1..Len(f.parts) : f.parts[i].blocks \in Nat
  <2>1. \A i \in 1..Len(f.parts) : f.parts[i] \in Part
    BY FileFields, ElementOfSeq
  <2> QED
    BY <2>1 DEF Part
<1> QED
  BY <1>1, <1>3, <1>4 DEF Current

\* appending a block,
LEMMA AppendedTypes ==
  ASSUME NEW f \in Recordings, f.parts # <<>>
  PROVE  Appended(f) \subseteq Outcomes
<1> DEFINE part == [Current(f) EXCEPT !.blocks = @ + 1]
           broken == [Current(f) EXCEPT !.tail = "torn"]
           grown == WithCurrent(f, part)
           torn == WithCurrent(f, broken)
<1>1. f \in Files /\ part \in Part /\ broken \in Part
  BY CurrentPart DEF Part, Tails, Recordings
<1>2. Appended(f) = {Done(grown), Fails(f), Fails([grown EXCEPT !.stream = "bad"]),
                     Fails([torn EXCEPT !.stream = "bad"])}
  BY DEF Appended
<1>3. /\ grown \in Files /\ Len(grown.parts) = Len(f.parts)
      /\ torn \in Files /\ Len(torn.parts) = Len(f.parts)
  <2> HIDE DEF part, broken
  <2> QED
    BY <1>1, CurrentReplaced
<1> HIDE DEF grown, torn
<1>4. grown.parts # <<>> /\ torn.parts # <<>>
  BY <1>1, <1>3, FileFields, EmptySeq
<1>5. /\ [grown EXCEPT !.stream = "bad"] \in Recordings
      /\ [torn EXCEPT !.stream = "bad"] \in Recordings
  BY <1>3, <1>4, StreamSet DEF Recordings
<1>6. grown \in Recordings
  BY <1>3, <1>4 DEF Recordings
<1> QED
  BY <1>2, <1>5, <1>6, OutcomesMade

\* and writing a batch.
LEMMA BatchTypes ==
  ASSUME NEW f \in Recordings, f.stream = "good"
  PROVE  BatchWritten(f) \subseteq Outcomes
<1>1. f \in Files /\ f.parts # <<>>
  BY DEF Recordings
<1>2. CASE ~NeedsSplit(f)
  BY <1>1, <1>2, AppendedTypes DEF BatchWritten
<1>3. CASE NeedsSplit(f)
  <2> DEFINE closed == Closed(f)
             opened == UNION {Opened(g) : g \in Good(closed)}
  <2>1. closed \subseteq Outcomes /\ Good(closed) \subseteq Recordings
    BY ClosedTypes, OutcomesSplit
  <2>2. opened \subseteq Outcomes
    <3> HIDE DEF closed
    <3> QED
      BY <2>1, OpenedTypes
  <2>3. ASSUME NEW g \in Good(opened) PROVE g \in Recordings /\ g.parts # <<>>
    <3>1. PICK h \in Good(closed) : g \in Good(Opened(h))
      BY DEF Good
    <3>2. h \in Recordings
      BY <2>1
    <3>3. g.parts # <<>>
      BY <3>1, <3>2, OpenedWell DEF Recordings
    <3> HIDE DEF opened
    <3> QED
      BY <2>2, <3>3, OutcomesSplit
  <2>4. UNION {Appended(g) : g \in Good(opened)} \subseteq Outcomes
    <3> HIDE DEF opened
    <3> QED
      BY <2>3, AppendedTypes
  <2>5. Bad(closed) \subseteq Outcomes /\ Bad(opened) \subseteq Outcomes
    <3> HIDE DEF closed, opened
    <3> QED
      BY <2>1, <2>2 DEF Bad
  <2>6. Fails(f) \in Outcomes
    BY OutcomesMade
  <2>7. BatchWritten(f) =
          {Fails(f)} \cup Bad(closed) \cup Bad(opened) \cup UNION {Appended(g) : g \in Good(opened)}
    BY <1>3 DEF BatchWritten
  <2> HIDE DEF closed, opened
  <2> QED
    BY <2>4, <2>5, <2>6, <2>7
<1> QED
  BY <1>2, <1>3
-----------------------------------------------------------------------------
\* u counts the blocks of a file part by part, up to w.
Counted(f, u, w) ==
  /\ u \in [0..Len(f.parts) -> Nat] /\ u[0] = 0 /\ u[Len(f.parts)] = w
  /\ \A i \in 1..Len(f.parts) : u[i] = u[i - 1] + f.parts[i].blocks

\* A recording of w blocks that is still open: every part but the last is cut.
Intact(f, w) ==
  /\ f \in Files /\ f.stream = "good" /\ f.parts # <<>> /\ f.listed = Len(f.parts)
  /\ \A i \in 1..Len(f.parts) - 1 : f.parts[i].tail = "clean"
  /\ \E u : Counted(f, u, w)

\* A recording of w blocks that is closed.
Whole(f, w) ==
  /\ f \in Files /\ f.listed = Len(f.parts)
  /\ \A i \in 1..Len(f.parts) : f.parts[i].tail = "clean"
  /\ \E u : Counted(f, u, w)

\* The blocks of each part are a number.
LEMMA BlocksAreNumbers ==
  ASSUME NEW f \in Files
  PROVE  \A i \in 1..Len(f.parts) : f.parts[i].blocks \in Nat
<1>1. \A i \in 1..Len(f.parts) : f.parts[i] \in Part
  BY FileFields, ElementOfSeq
<1> QED
  BY <1>1 DEF Part

\* A recording that was just opened has no block.
LEMMA IntactOpened == ASSUME NEW g \in Good(Opened(NoFiles)) PROVE Intact(g, 0)
<1> DEFINE u == [i \in 0..1 |-> 0]
<1>1. NoFiles \in Files /\ Len(NoFiles.parts) = 0 /\ NoFiles.listed = 0
  BY DEF NoFiles, Files
<1>2. /\ g \in Files /\ g.stream = "good" /\ g.parts # <<>> /\ g.listed = 1 /\ Len(g.parts) = 1
      /\ g.parts[1] = [blocks |-> 0, tail |-> "padded"]
  <2>1. Len(NoFiles.parts) + 1 = 1 /\ NoFiles.listed + 1 = 1
    BY <1>1
  <2> HIDE DEF u
  <2>2. /\ g \in Files /\ g.listed = NoFiles.listed + 1 /\ g.stream = "good" /\ g.parts # <<>>
        /\ Len(g.parts) = Len(NoFiles.parts) + 1
        /\ g.parts[Len(NoFiles.parts) + 1] = [blocks |-> 0, tail |-> "padded"]
    BY <1>1, OpenedWell
  <2> QED
    BY <2>1, <2>2
<1>3. Counted(g, u, 0)
  BY <1>2 DEF Counted
<1> QED
  BY <1>2, <1>3 DEF Intact

\* A block appended is one more block.
LEMMA IntactAppended ==
  ASSUME NEW f, NEW w, Intact(f, w), NEW g \in Good(Appended(f))
  PROVE  Intact(g, w + 1)
<1> DEFINE n == Len(f.parts)
<1>1. f \in Files /\ f.parts # <<>> /\ n \in 1..n /\ n \in Nat
  BY CurrentPart, FileFields DEF Intact
<1>2. /\ g \in Files /\ g.listed = f.listed /\ g.stream = f.stream /\ Len(g.parts) = n
      /\ \A i \in 1..n : /\ g.parts[i].blocks = f.parts[i].blocks + IF i = n THEN 1 ELSE 0
                         /\ g.parts[i].tail = f.parts[i].tail
  BY <1>1, AppendedWell
<1>3. g.parts # <<>>
  BY <1>1, <1>2, EmptySeq, FileFields
<1>4. PICK u : Counted(f, u, w)
  BY DEF Intact
<1> DEFINE v == [i \in 0..n |-> IF i = n THEN u[n] + 1 ELSE u[i]]
<1>5. Counted(g, v, w + 1)
  <2>1. v \in [0..n -> Nat] /\ v[0] = 0 /\ v[n] = w + 1
    BY <1>1, <1>4 DEF Counted
  <2>2. ASSUME NEW i \in 1..n PROVE v[i] = v[i - 1] + g.parts[i].blocks
    <3>1. u[i] = u[i - 1] + f.parts[i].blocks /\ u[i - 1] \in Nat /\ f.parts[i].blocks \in Nat
      BY <1>1, <1>4, BlocksAreNumbers DEF Counted
    <3>2. v[i - 1] = u[i - 1] /\ v[i] = u[i] + IF i = n THEN 1 ELSE 0
      BY <1>1, <3>1
    <3> HIDE DEF v
    <3> QED
      BY <1>1, <1>2, <3>1, <3>2
  <2> HIDE DEF v
  <2> QED
    BY <1>2, <2>1, <2>2 DEF Counted
<1> HIDE DEF v
<1> QED
  BY <1>1, <1>2, <1>3, <1>5 DEF Intact

\* A recording is whole once its last part is closed.
LEMMA IntactClosed ==
  ASSUME NEW f, NEW w, Intact(f, w), NEW g \in Good(Closed(f))
  PROVE  Whole(g, w)
<1> DEFINE n == Len(f.parts)
<1>1. f \in Files /\ f.stream = "good" /\ f.parts # <<>> /\ n \in 1..n /\ n \in Nat
  BY CurrentPart, FileFields DEF Intact
<1>2. /\ g \in Files /\ g.listed = f.listed /\ Len(g.parts) = n
      /\ \A i \in 1..n : /\ g.parts[i].blocks = f.parts[i].blocks
                         /\ g.parts[i].tail = IF i = n THEN "clean" ELSE f.parts[i].tail
  BY <1>1, ClosedWell
<1>3. \A i \in 1..n : i = n \/ i \in 1..n - 1
  BY <1>1
<1>4. \A i \in 1..n : g.parts[i].tail = "clean"
  BY <1>2, <1>3 DEF Intact
<1>5. PICK u : Counted(f, u, w)
  BY DEF Intact
<1>6. Counted(g, u, w)
  BY <1>2, <1>5 DEF Counted
<1> QED
  BY <1>2, <1>4, <1>6 DEF Intact, Whole

\* The next part begins where the last one ends.
LEMMA WholeOpened ==
  ASSUME NEW f, NEW w, Whole(f, w), NEW g \in Good(Opened(f))
  PROVE  Intact(g, w)
<1> DEFINE n == Len(f.parts)
<1>1. f \in Files /\ n \in Nat
  BY FileFields DEF Whole
<1>2. /\ g \in Files /\ g.listed = f.listed + 1 /\ g.stream = "good" /\ g.parts # <<>>
      /\ Len(g.parts) = n + 1
      /\ \A i \in 1..n : g.parts[i] = f.parts[i]
      /\ g.parts[n + 1] = [blocks |-> 0, tail |-> "padded"]
  BY <1>1, OpenedWell
<1>3. PICK u : Counted(f, u, w)
  BY DEF Whole
<1> DEFINE v == [i \in 0..n + 1 |-> IF i = n + 1 THEN u[n] ELSE u[i]]
<1>4. Counted(g, v, w)
  <2>1. v \in [0..n + 1 -> Nat] /\ v[0] = 0 /\ v[n + 1] = w
    BY <1>1, <1>3 DEF Counted
  <2>2. ASSUME NEW i \in 1..n + 1 PROVE v[i] = v[i - 1] + g.parts[i].blocks
    <3>1. CASE i = n + 1
      <4>1. v[i] = u[n] /\ v[i - 1] = u[n] /\ u[n] \in Nat
        BY <1>1, <1>3, <3>1 DEF Counted
      <4>2. g.parts[i].blocks = 0
        BY <1>2, <3>1
      <4> HIDE DEF v
      <4> QED
        BY <4>1, <4>2
    <3>2. CASE i \in 1..n
      <4>1. v[i] = u[i] /\ v[i - 1] = u[i - 1]
        BY <1>1, <3>2
      <4> HIDE DEF v
      <4> QED
        BY <1>2, <1>3, <3>2, <4>1 DEF Counted
    <3> QED
      BY <1>1, <3>1, <3>2
  <2> HIDE DEF v
  <2> QED
    BY <1>2, <2>1, <2>2 DEF Counted
<1>5. g.listed = n + 1 /\ \A i \in 1..n : g.parts[i].tail = "clean"
  BY <1>2 DEF Whole
<1>6. \A i \in 1..(n + 1) - 1 : i \in 1..n
  BY <1>1
<1> HIDE DEF v
<1> QED
  BY <1>2, <1>4, <1>5, <1>6 DEF Intact

\* A block that is written is one more block, in this part or in the next.
LEMMA IntactWritten ==
  ASSUME NEW f, NEW w, Intact(f, w), NEW g \in Good(BatchWritten(f))
  PROVE  Intact(g, w + 1)
<1>1. CASE ~NeedsSplit(f)
  BY <1>1, IntactAppended DEF BatchWritten
<1>2. CASE NeedsSplit(f)
  <2> DEFINE closed == Closed(f)
             opened == UNION {Opened(h) : h \in Good(closed)}
  <2>1. BatchWritten(f) =
          {Fails(f)} \cup Bad(closed) \cup Bad(opened) \cup UNION {Appended(k) : k \in Good(opened)}
    BY <1>2 DEF BatchWritten
  <2>2. PICK k \in Good(opened) : g \in Good(Appended(k))
    <3> HIDE DEF closed, opened
    <3> QED
      BY <2>1 DEF Good, Bad, Fails
  <2>3. PICK h \in Good(closed) : k \in Good(Opened(h))
    BY <2>2 DEF Good
  <2>4. Intact(k, w)
    BY <2>3, IntactClosed, WholeOpened
  <2> QED
    BY <2>2, <2>4, IntactAppended
<1> QED
  BY <1>1, <1>2
-----------------------------------------------------------------------------
\* The reader finds every block of a recording that is whole, and then the end.
LEMMA WholeReplays ==
  ASSUME NEW f, NEW w, Whole(f, w)
  PROVE  Replay(f) = [blocks |-> w, end |-> "EndOfStream"]
<1> DEFINE n == Len(f.parts)
           Reads(g) == g = [i \in 1..n + 1 |->
             IF i > n THEN [blocks |-> 0, end |-> "EndOfStream"]
             ELSE IF f.parts[i].tail # "clean"
               THEN [blocks |-> f.parts[i].blocks, end |-> "Error"]
               ELSE [g[i + 1] EXCEPT !.blocks = @ + f.parts[i].blocks]]
           from == CHOOSE g : Reads(g)
<1>1. f \in Files /\ n \in Nat
  BY FileFields DEF Whole
<1>2. PICK u : Counted(f, u, w)
  BY DEF Whole
<1> DEFINE left == [i \in 1..n + 1 |-> [blocks |-> u[n] - u[i - 1], end |-> "EndOfStream"]]
<1>3. ASSUME NEW i \in 1..n
      PROVE  left[i] = [left[i + 1] EXCEPT !.blocks = @ + f.parts[i].blocks]
  <2>1. u[i] = u[i - 1] + f.parts[i].blocks /\ f.parts[i].blocks \in Nat
    BY <1>1, <1>2, BlocksAreNumbers DEF Counted
  <2>2. u[i] \in Nat /\ u[i - 1] \in Nat /\ u[n] \in Nat
    <3>1. i \in 0..n /\ i - 1 \in 0..n /\ n \in 0..n
      BY <1>1
    <3> QED
      BY <1>2, <3>1 DEF Counted
  <2>3. i \in 1..n + 1 /\ i + 1 \in 1..n + 1 /\ (i + 1) - 1 = i
    BY <1>1
  <2>4. left[i] = [blocks |-> u[n] - u[i - 1], end |-> "EndOfStream"]
    BY <2>3
  <2>5. left[i + 1] = [blocks |-> u[n] - u[i], end |-> "EndOfStream"]
    BY <2>3
  <2>6. u[n] - u[i - 1] = (u[n] - u[i]) + f.parts[i].blocks
    BY <2>1, <2>2
  <2> HIDE DEF left
  <2> QED
    BY <2>4, <2>5, <2>6
<1>4. left[n + 1] = [blocks |-> 0, end |-> "EndOfStream"]
  BY <1>1, <1>2 DEF Counted
<1>5. left[1] = [blocks |-> w, end |-> "EndOfStream"]
  BY <1>1, <1>2 DEF Counted
<1>6. \A i \in 1..n : f.parts[i].tail = "clean"
  BY DEF Whole
<1>7. \A i \in 1..n + 1 : (i > n <=> i = n + 1) /\ (i <= n => i \in 1..n)
  BY <1>1
<1>8. Reads(left)
  <2>1. ASSUME NEW i \in 1..n + 1
        PROVE  left[i] = IF i > n THEN [blocks |-> 0, end |-> "EndOfStream"]
             ELSE IF f.parts[i].tail # "clean"
               THEN [blocks |-> f.parts[i].blocks, end |-> "Error"]
               ELSE [left[i + 1] EXCEPT !.blocks = @ + f.parts[i].blocks]
    <3> HIDE DEF left
    <3>1. CASE i = n + 1
      BY <1>4, <1>7, <3>1
    <3>2. CASE i \in 1..n
      <4>1. ~(i > n) /\ f.parts[i].tail = "clean"
        BY <1>1, <1>6, <3>2
      <4> QED
        BY <1>3, <3>2, <4>1
    <3> QED
      BY <1>1, <3>1, <3>2
  <2>2. left = [i \in 1..n + 1 |-> left[i]]
    OBVIOUS
  <2> HIDE DEF left
  <2> QED
    BY <2>1, <2>2
<1>9. Reads(from)
  <2> HIDE DEF Reads, left
  <2> QED
    BY <1>8
<1>10. Replay(f) = from[1]
  BY DEF Replay
<1>11. \A i \in 1..n : from[i] = [from[i + 1] EXCEPT !.blocks = @ + f.parts[i].blocks]
  <2>1. SUFFICES ASSUME NEW i \in 1..n
                 PROVE  from[i] = [from[i + 1] EXCEPT !.blocks = @ + f.parts[i].blocks]
    OBVIOUS
  <2>2. i \in 1..n + 1 /\ ~(i > n) /\ f.parts[i].tail = "clean"
    BY <1>1, <1>6
  <2> HIDE DEF from
  <2> QED
    BY <1>9, <2>2
<1>12. from[n + 1] = [blocks |-> 0, end |-> "EndOfStream"]
  <2>1. n + 1 \in 1..n + 1 /\ n + 1 > n
    BY <1>1
  <2> HIDE DEF from
  <2> QED
    BY <1>9, <2>1
<1> DEFINE P == {j \in 0..n : from[(n + 1) - j] = left[(n + 1) - j]}
<1> HIDE DEF from, left
<1>13. 0 \in P
  BY <1>1, <1>4, <1>12
<1>14. ASSUME NEW j \in 0..n - 1, j \in P PROVE j + 1 \in P
  <2> DEFINE i == (n + 1) - (j + 1)
  <2>1. i \in 1..n /\ j + 1 \in 0..n /\ (n + 1) - (j + 1) = i /\ (n + 1) - j = i + 1
    <3> HIDE DEF P
    <3> QED
      BY <1>1
  <2> HIDE DEF i
  <2>2. from[i + 1] = left[i + 1]
    BY <1>14, <2>1
  <2>3. from[i] = left[i]
    <3>1. from[i] = [from[i + 1] EXCEPT !.blocks = @ + f.parts[i].blocks]
      BY <1>11, <2>1
    <3>2. left[i] = [left[i + 1] EXCEPT !.blocks = @ + f.parts[i].blocks]
      BY <1>3, <2>1
    <3> QED
      BY <2>2, <3>1, <3>2
  <2> QED
    BY <2>1, <2>3
<1>15. n \in P
  <2>1. 0..n \subseteq P
    <3> HIDE DEF P
    <3> QED
      BY <1>1, <1>13, <1>14, InductionTo
  <2> QED
    BY <1>1, <2>1
<1>16. (n + 1) - n = 1
  BY <1>1
<1>17. from[1] = left[1]
  BY <1>15, <1>16
<1> QED
  BY <1>5, <1>10, <1>17

\* The writer's count of a file is a number.
LEMMA CountOfBlocks == ASSUME NEW f \in Files PROVE BlocksWritten(f) \in Nat
<1> DEFINE n == Len(f.parts)
           Sums(g) == g = [i \in 0..n |-> IF i = 0 THEN 0 ELSE g[i - 1] + f.parts[i].blocks]
           upTo == CHOOSE g : Sums(g)
           step == [i \in 1..n |-> [k \in Nat |-> k + f.parts[i].blocks]]
<1>1. n \in Nat /\ \A i \in 1..n : f.parts[i].blocks \in Nat
  BY FileFields, BlocksAreNumbers
<1>2. step \in [1..n -> [Nat -> Nat]]
  BY <1>1
<1>3. PICK u \in [0..n -> Nat] : Recurs(u, n, 0, step)
  <2> HIDE DEF n, step
  <2> QED
    BY <1>1, <1>2, RecursionTo
<1>4. Sums(u)
  <2>1. ASSUME NEW i \in 0..n
        PROVE  u[i] = IF i = 0 THEN 0 ELSE u[i - 1] + f.parts[i].blocks
    <3>1. CASE i = 0
      BY <1>3, <3>1 DEF Recurs
    <3>2. CASE i # 0
      <4>1. i \in 1..n /\ u[i - 1] \in Nat
        <5>1. i \in 1..n /\ i - 1 \in 0..n
          BY <1>1, <3>2
        <5> QED
          BY <1>3, <5>1
      <4>2. u[i] = step[i][u[i - 1]]
        BY <1>3, <4>1 DEF Recurs
      <4> QED
        BY <3>2, <4>1, <4>2
    <3> QED
      BY <3>1, <3>2
  <2>2. u = [i \in 0..n |-> u[i]]
    BY <1>3
  <2> QED
    BY <2>1, <2>2
<1>5. Sums(upTo)
  <2> HIDE DEF Sums
  <2> QED
    BY <1>4
<1>6. BlocksWritten(f) = upTo[n]
  BY DEF BlocksWritten
<1>7. upTo[0] = 0 /\ \A i \in 1..n : upTo[i] = upTo[i - 1] + f.parts[i].blocks
  <2>1. \A i \in 1..n : i \in 0..n /\ i # 0
    BY <1>1
  <2>2. 0 \in 0..n
    BY <1>1
  <2> HIDE DEF upTo
  <2>3. \A i \in 0..n : upTo[i] = IF i = 0 THEN 0 ELSE upTo[i - 1] + f.parts[i].blocks
    BY <1>5
  <2> QED
    BY <2>1, <2>2, <2>3
<1> HIDE DEF upTo
<1> DEFINE P == {i \in 0..n : upTo[i] \in Nat}
<1>8. 0 \in P
  BY <1>1, <1>7
<1>9. ASSUME NEW i \in 0..n - 1, i \in P PROVE i + 1 \in P
  <2>1. i + 1 \in 0..n /\ i + 1 \in 1..n /\ (i + 1) - 1 = i
    BY <1>1
  <2>2. upTo[i + 1] = upTo[i] + f.parts[i + 1].blocks
    BY <1>7, <2>1
  <2> QED
    BY <1>1, <1>9, <2>1, <2>2
<1>10. 0..n \subseteq P
  <2> HIDE DEF P
  <2> QED
    BY <1>1, <1>8, <1>9, InductionTo
<1> QED
  BY <1>1, <1>6, <1>10
-----------------------------------------------------------------------------
(* The two workers.                                                        *)

Working == {"loop", "write", "options", "finalize", "finish"}
Left == {"options", "finalize", "finish", "done"}

\* The types the other parts rest on; the values of written are left to Counts.
Types ==
  /\ accepting \in BOOLEAN /\ workerError \in BOOLEAN /\ stopReason \in Causes
  /\ live \in [Streams -> BOOLEAN] /\ pc \in [Streams -> WorkerPcs]
  /\ queued \in [Streams -> Nat] /\ accepted \in [Streams -> Nat]
  /\ opts \in [Streams -> Options] /\ sidecar \in [Streams -> Sidecars]
  /\ written = [s \in Streams |-> written[s]]

\* The workers of the enabled streams start together and work while accepting.
Shape ==
  /\ \A s \in Streams : live[s] <=> pc[s] \in Working
  /\ \A s \in Streams : pc[s] # "none" => s \in Enabled /\ \A t \in Enabled : pc[t] # "none"
  /\ accepting => \A s \in Enabled : pc[s] \in {"loop", "write"}

InHand(s) == IF pc[s] = "write" THEN 1 ELSE 0

\* Without an error every accepted block is written, queued or in hand.
Counts ==
  ~workerError =>
    \A s \in Streams :
      /\ written[s] \in Nat /\ accepted[s] = written[s] + queued[s] + InHand(s)
      /\ pc[s] \notin {"loop", "write"} => queued[s] = 0

NoneWorks == \A s \in Streams : ~live[s]

\* The first cause stays: every sidecar of a recording is written from it. A sidecar
\* of another kind is the one of a recording that was never opened, alone.
CauseStays ==
  /\ \A s \in Streams : pc[s] \in Left \/ (live[s] /\ ~accepting) => stopReason # "none"
  /\ \A s \in Streams : pc[s] = "finalize" => opts[s].reason = stopReason
  /\ \A s \in Streams : sidecar[s].present =>
       /\ pc[s] \in {"finish", "done"} \/ NoneWorks
       /\ \/ stopReason # "none" /\ sidecar[s].reason = stopReason
          \/ NoneWorks /\ \A t \in Streams : t # s => ~sidecar[t].present

\* What a worker is about to put in its sidecar, and what it has put there, is true.
Honest ==
  /\ \A s \in Streams :
       pc[s] = "finalize" /\ opts[s].completed => written[s] = accepted[s]
  /\ SidecarHonest

\* The raw files are whole as far as they are written, unless an error is recorded
\* before the worker decides what its sidecar says.
Readable ==
  /\ raw \in Recordings /\ written \in [Streams -> Nat]
  /\ pc["raw"] \in {"loop", "write"} => Intact(raw, written["raw"])
  /\ pc["raw"] = "options" /\ ~workerError => Intact(raw, written["raw"])
  /\ pc["raw"] = "finalize" /\ opts["raw"].completed => Intact(raw, written["raw"])
  /\ sidecar["raw"].present /\ sidecar["raw"].completed => Whole(raw, written["raw"])

StorageInv == Types /\ Shape /\ Counts /\ CauseStays /\ Honest /\ Readable
-----------------------------------------------------------------------------

\* Every step keeps the types.
LEMMA TypesStep == StorageInv /\ [Next]_vars => Types'
<1> SUFFICES ASSUME StorageInv, [Next]_vars PROVE Types'
  OBVIOUS
<1> USE DEF StorageInv
<1>1. CASE Start
  <2>1. accepting' \in BOOLEAN /\ workerError' \in BOOLEAN /\ stopReason' \in Causes
    BY <1>1 DEF Start, Causes
  <2>2. live' \in [Streams -> BOOLEAN] /\ pc' \in [Streams -> WorkerPcs]
    BY <1>1 DEF Start, WorkerPcs
  <2>3. queued' \in [Streams -> Nat] /\ accepted' \in [Streams -> Nat]
    BY <1>1 DEF Start
  <2>4. opts' \in [Streams -> Options] /\ sidecar' \in [Streams -> Sidecars]
    BY <1>1 DEF Start, Options, Sidecars, Causes, Idle, NoSidecar
  <2>5. written' = [s \in Streams |-> written'[s]]
    BY <1>1 DEF Start
  <2> QED
    BY <2>1, <2>2, <2>3, <2>4, <2>5 DEF Types
<1>2. CASE StartOpenFails
  <2>1. UNCHANGED <<accepting, workerError, stopReason, live, pc, queued, opts>>
    BY <1>2 DEF StartOpenFails, flags
  <2>2. PICK present \in BOOLEAN : sidecar' = [s \in Streams |->
          IF s = "raw" /\ s \in Enabled /\ present
            THEN [present |-> TRUE, completed |-> FALSE, reason |-> "open failure"]
            ELSE NoSidecar]
    BY <1>2 DEF StartOpenFails
  <2>3. sidecar' \in [Streams -> Sidecars]
    BY <2>2 DEF Sidecars, Causes, NoSidecar
  <2>4. accepted' \in [Streams -> Nat] /\ written' = [s \in Streams |-> written'[s]]
    BY <1>2 DEF StartOpenFails
  <2> QED
    BY <2>1, <2>3, <2>4 DEF Types
<1>3. CASE RequestStop
  BY <1>3 DEF RequestStop, FirstCause, Types, Causes
<1>4. CASE WaitUntilStopped
  BY <1>4 DEF WaitUntilStopped, flags, Types
<1>5. ASSUME NEW s \in Streams, EnqueueAccepted(s) PROVE Types'
  <2>1. queued' \in [Streams -> Nat] /\ accepted' \in [Streams -> Nat]
    BY <1>5 DEF EnqueueAccepted, Types
  <2> QED
    BY <2>1, <1>5 DEF EnqueueAccepted, flags, Types
<1>6. ASSUME NEW s \in Streams, EnqueueOverflow(s) PROVE Types'
  BY <1>6 DEF EnqueueOverflow, Types, Causes
<1>7. ASSUME NEW s \in Streams, Take(s) PROVE Types'
  <2>1. queued' \in [Streams -> Nat]
    BY <1>7 DEF Take, Types
  <2>2. pc' \in [Streams -> WorkerPcs]
    BY <1>7 DEF Take, Goto, Types, WorkerPcs
  <2> QED
    BY <2>1, <2>2, <1>7 DEF Take, flags, Types
<1>8. ASSUME NEW s \in Streams, Write(s) PROVE Types'
  BY <1>8 DEF Write, Goto, flags, Types, WorkerPcs
<1>9. ASSUME NEW s \in Streams, WriteFails(s) PROVE Types'
  BY <1>9 DEF WriteFails, FailWriter, FirstCause, Goto, Types, Causes, WorkerPcs
<1>10. ASSUME NEW s \in Streams, LeaveLoop(s) PROVE Types'
  BY <1>10 DEF LeaveLoop, Goto, flags, Types, WorkerPcs
<1>11. ASSUME NEW s \in Streams, ReadOptions(s) PROVE Types'
  BY <1>11 DEF ReadOptions, Goto, flags, Types, Options, WorkerPcs
<1>12. ASSUME NEW s \in Streams, Finalize(s) PROVE Types'
  BY <1>12 DEF Finalize, Goto, flags, Types, Options, Sidecars, WorkerPcs
<1>13. ASSUME NEW s \in Streams, FinalizeFlushFails(s) PROVE Types'
  BY <1>13
     DEF FinalizeFlushFails, FailWriter, FirstCause, Goto, Types, Causes, Options, Sidecars, WorkerPcs
<1>14. ASSUME NEW s \in Streams, FinalizeSidecarFails(s) PROVE Types'
  BY <1>14 DEF FinalizeSidecarFails, FailWriter, FirstCause, Goto, Types, Causes, WorkerPcs
<1>15. ASSUME NEW s \in Streams, FinishWorker(s) PROVE Types'
  BY <1>15 DEF FinishWorker, Goto, flags, Types, WorkerPcs
<1>16. CASE UNCHANGED vars
  BY <1>16 DEF vars, flags, Types
<1> QED
  BY <1>1, <1>2, <1>3, <1>4, <1>5, <1>6, <1>7, <1>8, <1>9, <1>10,
     <1>11, <1>12, <1>13, <1>14, <1>15, <1>16
     DEF Next, Worker

\* Every step keeps the shape of the workers.
LEMMA ShapeStep == StorageInv /\ [Next]_vars => Shape'
<1> SUFFICES ASSUME StorageInv, [Next]_vars PROVE Shape'
  OBVIOUS
<1> USE DEF StorageInv
<1>1. CASE Start
  <2>1. \A s \in Streams : live'[s] <=> pc'[s] \in Working
    BY <1>1 DEF Start, Working
  <2>2. \A s \in Streams : pc'[s] # "none" => s \in Enabled
    BY <1>1 DEF Start
  <2>3. \A t \in Enabled : pc'[t] = "loop"
    BY <1>1, StorageAssumption DEF Start
  <2> QED
    BY <2>1, <2>2, <2>3 DEF Shape
<1>2. CASE StartOpenFails
  BY <1>2 DEF StartOpenFails, flags, Shape
<1>3. CASE RequestStop
  BY <1>3 DEF RequestStop, Shape
<1>4. CASE WaitUntilStopped
  BY <1>4 DEF WaitUntilStopped, flags, Shape
<1>5. ASSUME NEW s \in Streams, EnqueueAccepted(s) PROVE Shape'
  BY <1>5 DEF EnqueueAccepted, Shape
<1>6. ASSUME NEW s \in Streams, EnqueueOverflow(s) PROVE Shape'
  BY <1>6 DEF EnqueueOverflow, Shape
<1>7. ASSUME NEW s \in Streams, Take(s) PROVE Shape'
  BY <1>7 DEF Take, Goto, flags, Shape, Working
<1>8. ASSUME NEW s \in Streams, Write(s) PROVE Shape'
  BY <1>8 DEF Write, Goto, flags, Shape, Working
<1>9. ASSUME NEW s \in Streams, WriteFails(s) PROVE Shape'
  <2>1. pc[s] = "write" /\ pc' = [pc EXCEPT ![s] = "options"]
    BY <1>9 DEF WriteFails, Goto
  <2>2. ~accepting' /\ live' = live
    BY <1>9 DEF WriteFails, FailWriter
  <2> QED
    BY <2>1, <2>2 DEF Shape, Working
<1>10. ASSUME NEW s \in Streams, LeaveLoop(s) PROVE Shape'
  BY <1>10 DEF LeaveLoop, MayLeave, Goto, flags, Shape, Working
<1>11. ASSUME NEW s \in Streams, ReadOptions(s) PROVE Shape'
  BY <1>11 DEF ReadOptions, Goto, flags, Shape, Working
<1>12. ASSUME NEW s \in Streams, Finalize(s) PROVE Shape'
  BY <1>12 DEF Finalize, Goto, flags, Shape, Working
<1>13. ASSUME NEW s \in Streams, FinalizeFlushFails(s) PROVE Shape'
  <2>1. pc[s] = "finalize" /\ pc' = [pc EXCEPT ![s] = "finish"]
    BY <1>13 DEF FinalizeFlushFails, Goto
  <2>2. ~accepting' /\ live' = live
    BY <1>13 DEF FinalizeFlushFails, FailWriter
  <2> QED
    BY <2>1, <2>2 DEF Shape, Working
<1>14. ASSUME NEW s \in Streams, FinalizeSidecarFails(s) PROVE Shape'
  <2>1. pc[s] = "finalize" /\ pc' = [pc EXCEPT ![s] = "finish"]
    BY <1>14 DEF FinalizeSidecarFails, Goto
  <2>2. ~accepting' /\ live' = live
    BY <1>14 DEF FinalizeSidecarFails, FailWriter
  <2> QED
    BY <2>1, <2>2 DEF Shape, Working
<1>15. ASSUME NEW s \in Streams, FinishWorker(s) PROVE Shape'
  BY <1>15 DEF FinishWorker, Goto, flags, Types, Shape, Working
<1>16. CASE UNCHANGED vars
  BY <1>16 DEF vars, flags, Shape
<1> QED
  BY <1>1, <1>2, <1>3, <1>4, <1>5, <1>6, <1>7, <1>8, <1>9, <1>10,
     <1>11, <1>12, <1>13, <1>14, <1>15, <1>16
     DEF Next, Worker

\* Every step keeps the count of the blocks.
LEMMA CountsStep == StorageInv /\ [Next]_vars => Counts'
<1> SUFFICES ASSUME StorageInv, [Next]_vars PROVE Counts'
  OBVIOUS
<1> USE DEF StorageInv
<1>1. CASE Start
  BY <1>1 DEF Start, Counts, InHand
<1>2. CASE StartOpenFails
  <2>1. \A s \in Streams : pc[s] \notin Working
    BY <1>2 DEF StartOpenFails, CanStart, Running, Shape
  <2>2. /\ UNCHANGED <<workerError, pc, queued>>
         /\ \A s \in Streams : written'[s] = 0 /\ accepted'[s] = 0
    BY <1>2 DEF StartOpenFails, flags
  <2> QED
    BY <2>1, <2>2 DEF Counts, InHand, Working
<1>3. CASE RequestStop
  BY <1>3 DEF RequestStop, Counts, InHand
<1>4. CASE WaitUntilStopped
  BY <1>4 DEF WaitUntilStopped, flags, Counts, InHand
<1>5. ASSUME NEW s \in Streams, EnqueueAccepted(s) PROVE Counts'
  BY <1>5 DEF EnqueueAccepted, flags, Types, Shape, Counts, InHand
<1>6. ASSUME NEW s \in Streams, EnqueueOverflow(s) PROVE Counts'
  BY <1>6 DEF EnqueueOverflow, Counts, InHand
<1>7. ASSUME NEW s \in Streams, Take(s) PROVE Counts'
  BY <1>7 DEF Take, Goto, flags, Types, Counts, InHand
<1>8. ASSUME NEW s \in Streams, Write(s) PROVE Counts'
  BY <1>8 DEF Write, Goto, flags, Types, Counts, InHand
<1>9. ASSUME NEW s \in Streams, WriteFails(s) PROVE Counts'
  BY <1>9 DEF WriteFails, FailWriter, Counts
<1>10. ASSUME NEW s \in Streams, LeaveLoop(s) PROVE Counts'
  BY <1>10 DEF LeaveLoop, MayLeave, Goto, flags, Counts, InHand
<1>11. ASSUME NEW s \in Streams, ReadOptions(s) PROVE Counts'
  BY <1>11 DEF ReadOptions, Goto, flags, Counts, InHand
<1>12. ASSUME NEW s \in Streams, Finalize(s) PROVE Counts'
  BY <1>12 DEF Finalize, Goto, flags, Counts, InHand
<1>13. ASSUME NEW s \in Streams, FinalizeFlushFails(s) PROVE Counts'
  BY <1>13 DEF FinalizeFlushFails, FailWriter, Counts
<1>14. ASSUME NEW s \in Streams, FinalizeSidecarFails(s) PROVE Counts'
  BY <1>14 DEF FinalizeSidecarFails, FailWriter, Counts
<1>15. ASSUME NEW s \in Streams, FinishWorker(s) PROVE Counts'
  BY <1>15 DEF FinishWorker, Goto, flags, Counts, InHand
<1>16. CASE UNCHANGED vars
  BY <1>16 DEF vars, flags, Counts, InHand
<1> QED
  BY <1>1, <1>2, <1>3, <1>4, <1>5, <1>6, <1>7, <1>8, <1>9, <1>10,
     <1>11, <1>12, <1>13, <1>14, <1>15, <1>16
     DEF Next, Worker

\* Every step keeps the first cause.
LEMMA CauseStep == StorageInv /\ [Next]_vars => CauseStays'
<1> SUFFICES ASSUME StorageInv, [Next]_vars PROVE CauseStays'
  OBVIOUS
<1> USE DEF StorageInv
<1>1. CASE Start
  BY <1>1 DEF Start, CauseStays, Left, NoSidecar
<1>2. CASE StartOpenFails
  <2>1. NoneWorks /\ UNCHANGED <<live, pc, opts, accepting, stopReason>>
    BY <1>2 DEF StartOpenFails, CanStart, Running, NoneWorks, flags
  <2>2. PICK present \in BOOLEAN : sidecar' = [s \in Streams |->
          IF s = "raw" /\ s \in Enabled /\ present
            THEN [present |-> TRUE, completed |-> FALSE, reason |-> "open failure"]
            ELSE NoSidecar]
    BY <1>2 DEF StartOpenFails
  <2>3. ~sidecar'["cloud"].present
    BY <2>2 DEF Streams, NoSidecar
  <2>4. \A s, t \in Streams : sidecar'[s].present /\ t # s => ~sidecar'[t].present
    BY <2>3 DEF Streams
  <2> QED
    BY <2>1, <2>4 DEF CauseStays, NoneWorks
<1>3. CASE RequestStop
  <2>1. UNCHANGED <<live, pc, opts, sidecar>> /\ ~accepting' /\ stopReason' = FirstCause("user")
    BY <1>3 DEF RequestStop
  <2>2. stopReason' # "none" /\ (stopReason # "none" => stopReason' = stopReason)
    BY <2>1 DEF FirstCause
  <2>3. \A s \in Streams : pc[s] = "finalize" => opts[s].reason = stopReason'
    BY <2>2 DEF CauseStays, Left
  <2>4. ASSUME NEW s \in Streams, sidecar[s].present
        PROVE  \/ stopReason # "none" /\ sidecar[s].reason = stopReason'
               \/ NoneWorks /\ \A t \in Streams : t # s => ~sidecar[t].present
    BY <2>2, <2>4 DEF CauseStays
  <2> QED
    BY <2>1, <2>2, <2>3, <2>4 DEF CauseStays, NoneWorks
<1>4. CASE WaitUntilStopped
  BY <1>4 DEF WaitUntilStopped, flags, CauseStays, NoneWorks
<1>5. ASSUME NEW s \in Streams, EnqueueAccepted(s) PROVE CauseStays'
  BY <1>5 DEF EnqueueAccepted, flags, CauseStays, NoneWorks
<1>6. ASSUME NEW s \in Streams, EnqueueOverflow(s) PROVE CauseStays'
  BY <1>6 DEF EnqueueOverflow, Shape, CauseStays, NoneWorks, Working
<1>7. ASSUME NEW s \in Streams, Take(s) PROVE CauseStays'
  BY <1>7 DEF Take, Goto, flags, CauseStays, NoneWorks, Left
<1>8. ASSUME NEW s \in Streams, Write(s) PROVE CauseStays'
  BY <1>8 DEF Write, Goto, flags, CauseStays, NoneWorks, Left
<1>9. ASSUME NEW s \in Streams, WriteFails(s) PROVE CauseStays'
  BY <1>9
     DEF WriteFails, FailWriter, FirstCause, Goto, Types, Shape, CauseStays, NoneWorks, Working
<1>10. ASSUME NEW s \in Streams, LeaveLoop(s) PROVE CauseStays'
  BY <1>10 DEF LeaveLoop, MayLeave, Goto, flags, Shape, CauseStays, NoneWorks, Working
<1>11. ASSUME NEW s \in Streams, ReadOptions(s) PROVE CauseStays'
  BY <1>11 DEF ReadOptions, Goto, flags, Types, Shape, CauseStays, NoneWorks, Working
<1>12. ASSUME NEW s \in Streams, Finalize(s) PROVE CauseStays'
  BY <1>12 DEF Finalize, Goto, flags, Types, Shape, CauseStays, NoneWorks, Working
<1>13. ASSUME NEW s \in Streams, FinalizeFlushFails(s) PROVE CauseStays'
  BY <1>13
     DEF FinalizeFlushFails, FailWriter, FirstCause, Goto, Types, Shape, CauseStays, NoneWorks, Working
<1>14. ASSUME NEW s \in Streams, FinalizeSidecarFails(s) PROVE CauseStays'
  BY <1>14
     DEF FinalizeSidecarFails, FailWriter, FirstCause, Goto, Types, Shape, CauseStays, NoneWorks, Working
<1>15. ASSUME NEW s \in Streams, FinishWorker(s) PROVE CauseStays'
  BY <1>15 DEF FinishWorker, Goto, flags, Shape, CauseStays, NoneWorks, Working
<1>16. CASE UNCHANGED vars
  BY <1>16 DEF vars, flags, CauseStays, NoneWorks
<1> QED
  BY <1>1, <1>2, <1>3, <1>4, <1>5, <1>6, <1>7, <1>8, <1>9, <1>10,
     <1>11, <1>12, <1>13, <1>14, <1>15, <1>16
     DEF Next, Worker

\* Every step keeps the sidecars true.
LEMMA HonestStep == StorageInv /\ [Next]_vars => Honest'
<1> SUFFICES ASSUME StorageInv, [Next]_vars PROVE Honest'
  OBVIOUS
<1> USE DEF StorageInv
<1>1. CASE Start
  BY <1>1 DEF Start, Honest, SidecarHonest
<1>2. CASE StartOpenFails
  BY <1>2 DEF StartOpenFails, Honest, SidecarHonest
<1>3. CASE RequestStop
  BY <1>3 DEF RequestStop, Honest, SidecarHonest
<1>4. CASE WaitUntilStopped
  BY <1>4 DEF WaitUntilStopped, Honest, SidecarHonest
<1>5. ASSUME NEW s \in Streams, EnqueueAccepted(s) PROVE Honest'
  BY <1>5 DEF EnqueueAccepted, Shape, CauseStays, NoneWorks, Honest, SidecarHonest, Working
<1>6. ASSUME NEW s \in Streams, EnqueueOverflow(s) PROVE Honest'
  BY <1>6 DEF EnqueueOverflow, Honest, SidecarHonest
<1>7. ASSUME NEW s \in Streams, Take(s) PROVE Honest'
  BY <1>7 DEF Take, Goto, Honest, SidecarHonest
<1>8. ASSUME NEW s \in Streams, Write(s) PROVE Honest'
  BY <1>8 DEF Write, Goto, Shape, CauseStays, NoneWorks, Honest, SidecarHonest, Working
<1>9. ASSUME NEW s \in Streams, WriteFails(s) PROVE Honest'
  <2>1. pc[s] = "write" /\ live[s] /\ pc' = [pc EXCEPT ![s] = "options"]
    BY <1>9 DEF WriteFails, Goto, Shape, Working
  <2>2. UNCHANGED <<opts, sidecar, accepted>>
    BY <1>9 DEF WriteFails
  <2>3. \A t \in Streams : t # s => written'[t] = written[t]
    BY <1>9 DEF WriteFails, Types
  <2>4. ~sidecar[s].present
    BY <2>1 DEF CauseStays, NoneWorks
  <2> QED
    BY <2>1, <2>2, <2>3, <2>4 DEF Honest, SidecarHonest
<1>10. ASSUME NEW s \in Streams, LeaveLoop(s) PROVE Honest'
  BY <1>10 DEF LeaveLoop, Goto, Honest, SidecarHonest
<1>11. ASSUME NEW s \in Streams, ReadOptions(s) PROVE Honest'
  BY <1>11 DEF ReadOptions, Goto, Types, Shape, Counts, InHand, Honest, SidecarHonest
<1>12. ASSUME NEW s \in Streams, Finalize(s) PROVE Honest'
  BY <1>12 DEF Finalize, Goto, Honest, SidecarHonest
<1>13. ASSUME NEW s \in Streams, FinalizeFlushFails(s) PROVE Honest'
  BY <1>13 DEF FinalizeFlushFails, Goto, Types, Honest, SidecarHonest
<1>14. ASSUME NEW s \in Streams, FinalizeSidecarFails(s) PROVE Honest'
  BY <1>14 DEF FinalizeSidecarFails, Goto, Types, Honest, SidecarHonest
<1>15. ASSUME NEW s \in Streams, FinishWorker(s) PROVE Honest'
  BY <1>15 DEF FinishWorker, Goto, Honest, SidecarHonest
<1>16. CASE UNCHANGED vars
  BY <1>16 DEF vars, Honest, SidecarHonest
<1> QED
  BY <1>1, <1>2, <1>3, <1>4, <1>5, <1>6, <1>7, <1>8, <1>9, <1>10,
     <1>11, <1>12, <1>13, <1>14, <1>15, <1>16
     DEF Next, Worker

\* One of the streams is the raw one.
LEMMA RawIsStream == "raw" \in Streams
BY DEF Streams

\* Every step keeps the raw recording readable.
LEMMA ReadableStep == StorageInv /\ [Next]_vars => Readable'
<1> SUFFICES ASSUME StorageInv, [Next]_vars PROVE Readable'
  OBVIOUS
<1> USE RawIsStream DEF StorageInv
<1>0. raw \in Files /\ NoFiles \in Recordings
  BY EmptySeq DEF Readable, Recordings, NoFiles, Files
<1>1. CASE Start
  <2>1. raw' \in IF "raw" \in Enabled THEN Good(Opened(NoFiles)) ELSE {NoFiles}
    BY <1>1 DEF Start
  <2>2. "raw" \in Enabled => Intact(raw', 0)
    BY <2>1, IntactOpened
  <2>3. raw' \in Recordings
    BY <1>0, <2>1, OpenedTypes, OutcomesSplit
  <2>4. /\ pc'["raw"] = IF "raw" \in Enabled THEN "loop" ELSE "none"
        /\ written' = [s \in Streams |-> 0] /\ ~sidecar'["raw"].present
    BY <1>1 DEF Start, NoSidecar
  <2> QED
    BY <2>2, <2>3, <2>4 DEF Readable
<1>2. CASE StartOpenFails
  <2>1. raw' \in Recordings
    <3>1. ASSUME NEW f \in Good(Opened(NoFiles)), NEW o \in Closed(f)
          PROVE  o.file \in Recordings
      BY <1>0, OpenedTypes, OutcomesSplit, ClosedTypes DEF Outcomes
    <3>2. ASSUME NEW o \in Bad(Opened(NoFiles)) PROVE o.file \in Recordings
      BY <1>0, OpenedTypes DEF Outcomes, Bad
    <3> QED
      BY <1>0, <1>2, <3>1, <3>2 DEF StartOpenFails
  <2>2. pc' = pc /\ pc["raw"] \notin Working
    BY <1>2 DEF StartOpenFails, CanStart, Running, Shape
  <2>3. written' = [s \in Streams |-> 0]
    BY <1>2 DEF StartOpenFails
  <2>4. ~(sidecar'["raw"].present /\ sidecar'["raw"].completed)
    <3>1. PICK present \in BOOLEAN : sidecar' = [s \in Streams |->
            IF s = "raw" /\ s \in Enabled /\ present
              THEN [present |-> TRUE, completed |-> FALSE, reason |-> "open failure"]
              ELSE NoSidecar]
      BY <1>2 DEF StartOpenFails
    <3> QED
      BY <3>1 DEF NoSidecar
  <2> QED
    BY <2>1, <2>2, <2>3, <2>4 DEF Readable, Working
<1>3. CASE RequestStop
  BY <1>3 DEF RequestStop, Readable
<1>4. CASE WaitUntilStopped
  BY <1>4 DEF WaitUntilStopped, flags, Readable
<1>5. ASSUME NEW s \in Streams, EnqueueAccepted(s) PROVE Readable'
  BY <1>5 DEF EnqueueAccepted, flags, Readable
<1>6. ASSUME NEW s \in Streams, EnqueueOverflow(s) PROVE Readable'
  BY <1>6 DEF EnqueueOverflow, Readable
<1>7. ASSUME NEW s \in Streams, Take(s) PROVE Readable'
  BY <1>7 DEF Take, Goto, flags, Types, Readable
<1>8. ASSUME NEW s \in Streams, Write(s) PROVE Readable'
  <2>1. /\ pc[s] = "write" /\ pc' = [pc EXCEPT ![s] = "loop"]
        /\ written' = [written EXCEPT ![s] = @ + 1]
        /\ raw' \in IF s = "raw" THEN Good(BatchWritten(raw)) ELSE {raw}
        /\ UNCHANGED <<workerError, opts, sidecar>>
    BY <1>8 DEF Write, Goto, flags
  <2>2. written' \in [Streams -> Nat]
    BY <2>1 DEF Readable
  <2>3. CASE s = "raw"
    <3>1. Intact(raw, written["raw"]) /\ ~sidecar["raw"].present
      BY <2>1, <2>3 DEF Readable, Shape, Working, CauseStays, NoneWorks
    <3>2. raw' \in Recordings /\ Intact(raw', written["raw"] + 1)
      BY <2>1, <2>3, <3>1, IntactWritten, BatchTypes, OutcomesSplit DEF Readable, Intact
    <3>3. written'["raw"] = written["raw"] + 1 /\ pc'["raw"] = "loop"
      BY <2>1, <2>3 DEF Readable, Types
    <3> QED
      BY <2>1, <2>2, <3>1, <3>2, <3>3 DEF Readable
  <2>4. CASE s # "raw"
    <3>1. raw' = raw /\ pc'["raw"] = pc["raw"] /\ written'["raw"] = written["raw"]
      BY <2>1, <2>4 DEF Readable, Types
    <3> QED
      BY <2>1, <2>2, <3>1 DEF Readable
  <2> QED
    BY <2>3, <2>4
<1>9. ASSUME NEW s \in Streams, WriteFails(s) PROVE Readable'
  <2>1. /\ pc[s] = "write" /\ pc' = [pc EXCEPT ![s] = "options"] /\ workerError'
        /\ UNCHANGED <<opts, sidecar>>
    BY <1>9 DEF WriteFails, FailWriter, Goto
  <2>2. CASE s = "raw"
    <3>1. Intact(raw, written["raw"]) /\ ~sidecar["raw"].present
      BY <2>1, <2>2 DEF Readable, Shape, Working, CauseStays, NoneWorks
    <3>2. PICK o \in Bad(BatchWritten(raw)) :
            raw' = o.file /\ written' = [written EXCEPT !["raw"] = BlocksWritten(o.file)]
      BY <1>9, <2>2 DEF WriteFails
    <3>3. raw' \in Recordings
      BY <3>1, <3>2, BatchTypes, OutcomesSplit DEF Readable, Intact
    <3>4. written' \in [Streams -> Nat]
      <4>1. BlocksWritten(o.file) \in Nat
        BY <3>2, <3>3, CountOfBlocks DEF Recordings
      <4> QED
        BY <3>2, <4>1 DEF Readable
    <3>5. pc'["raw"] = "options"
      BY <2>1, <2>2 DEF Types
    <3> QED
      BY <2>1, <3>1, <3>3, <3>4, <3>5 DEF Readable
  <2>3. CASE s # "raw"
    <3>1. raw' = raw /\ written' \in {written, [written EXCEPT ![s] = @ + 1]}
      BY <1>9, <2>3 DEF WriteFails
    <3>2. written' \in [Streams -> Nat] /\ written'["raw"] = written["raw"]
      BY <2>3, <3>1 DEF Readable
    <3>3. pc'["raw"] = pc["raw"]
      BY <2>1, <2>3 DEF Types
    <3> QED
      BY <2>1, <3>1, <3>2, <3>3 DEF Readable
  <2> QED
    BY <2>2, <2>3
<1>10. ASSUME NEW s \in Streams, LeaveLoop(s) PROVE Readable'
  BY <1>10 DEF LeaveLoop, Goto, flags, Types, Readable
<1>11. ASSUME NEW s \in Streams, ReadOptions(s) PROVE Readable'
  BY <1>11 DEF ReadOptions, Goto, flags, Types, Readable
<1>12. ASSUME NEW s \in Streams, Finalize(s) PROVE Readable'
  <2>1. /\ pc[s] = "finalize" /\ pc' = [pc EXCEPT ![s] = "finish"]
        /\ raw' \in IF s = "raw" THEN Good(Closed(raw)) ELSE {raw}
        /\ sidecar' = [sidecar EXCEPT ![s] =
             [present |-> TRUE, completed |-> opts[s].completed, reason |-> opts[s].reason]]
        /\ UNCHANGED <<workerError, opts, written>>
    BY <1>12 DEF Finalize, Goto, flags
  <2>2. CASE s = "raw"
    <3>1. raw' \in Recordings
      BY <2>1, <2>2, ClosedTypes, OutcomesSplit DEF Readable
    <3>2. opts["raw"].completed => Whole(raw', written["raw"])
      BY <2>1, <2>2, IntactClosed DEF Readable
    <3>3. pc'["raw"] = "finish" /\ sidecar'["raw"].completed = opts["raw"].completed
      BY <2>1, <2>2 DEF Types
    <3> QED
      BY <2>1, <3>1, <3>2, <3>3 DEF Readable
  <2>3. CASE s # "raw"
    <3>1. raw' = raw /\ pc'["raw"] = pc["raw"] /\ sidecar'["raw"] = sidecar["raw"]
      BY <2>1, <2>3 DEF Types
    <3> QED
      BY <2>1, <3>1 DEF Readable
  <2> QED
    BY <2>2, <2>3
<1>13. ASSUME NEW s \in Streams, FinalizeFlushFails(s) PROVE Readable'
  <2>1. /\ pc[s] = "finalize" /\ pc' = [pc EXCEPT ![s] = "finish"] /\ workerError'
        /\ raw' \in IF s = "raw" THEN {o.file : o \in Bad(Closed(raw))} ELSE {raw}
        /\ sidecar' = [sidecar EXCEPT ![s] =
             [present |-> TRUE, completed |-> FALSE, reason |-> opts[s].reason]]
        /\ UNCHANGED <<opts, written>>
    BY <1>13 DEF FinalizeFlushFails, FailWriter, Goto
  <2>2. CASE s = "raw"
    <3>1. raw' \in Recordings
      BY <2>1, <2>2, ClosedTypes, OutcomesSplit DEF Readable
    <3>2. pc'["raw"] = "finish" /\ ~sidecar'["raw"].completed
      BY <2>1, <2>2 DEF Types
    <3> QED
      BY <2>1, <3>1, <3>2 DEF Readable
  <2>3. CASE s # "raw"
    <3>1. raw' = raw /\ pc'["raw"] = pc["raw"] /\ sidecar'["raw"] = sidecar["raw"]
      BY <2>1, <2>3 DEF Types
    <3> QED
      BY <2>1, <3>1 DEF Readable
  <2> QED
    BY <2>2, <2>3
<1>14. ASSUME NEW s \in Streams, FinalizeSidecarFails(s) PROVE Readable'
  <2>1. /\ pc[s] = "finalize" /\ pc' = [pc EXCEPT ![s] = "finish"] /\ workerError'
        /\ raw' \in IF s = "raw" THEN {o.file : o \in Closed(raw)} ELSE {raw}
        /\ UNCHANGED <<opts, written, sidecar>>
    BY <1>14 DEF FinalizeSidecarFails, FailWriter, Goto
  <2>2. CASE s = "raw"
    <3>1. raw' \in Recordings
      BY <2>1, <2>2, ClosedTypes DEF Readable, Outcomes
    <3>2. pc'["raw"] = "finish" /\ ~sidecar["raw"].present
      BY <2>1, <2>2 DEF Types, Shape, Working, CauseStays, NoneWorks
    <3> QED
      BY <2>1, <3>1, <3>2 DEF Readable
  <2>3. CASE s # "raw"
    <3>1. raw' = raw /\ pc'["raw"] = pc["raw"]
      BY <2>1, <2>3 DEF Types
    <3> QED
      BY <2>1, <3>1 DEF Readable
  <2> QED
    BY <2>2, <2>3
<1>15. ASSUME NEW s \in Streams, FinishWorker(s) PROVE Readable'
  BY <1>15 DEF FinishWorker, Goto, flags, Types, Readable
<1>16. CASE UNCHANGED vars
  BY <1>16 DEF vars, flags, Readable
<1> QED
  BY <1>1, <1>2, <1>3, <1>4, <1>5, <1>6, <1>7, <1>8, <1>9, <1>10,
     <1>11, <1>12, <1>13, <1>14, <1>15, <1>16
     DEF Next, Worker
-----------------------------------------------------------------------------
\* The invariant holds at first.
LEMMA InitInv == Init => StorageInv
<1> SUFFICES ASSUME Init PROVE StorageInv
  OBVIOUS
<1>1. Types
  BY DEF Init, Types, WorkerPcs, Causes, Options, Sidecars, Idle, NoSidecar
<1>2. Shape
  BY DEF Init, Shape, Working
<1>3. Counts
  BY DEF Init, Counts, InHand
<1>4. CauseStays
  BY DEF Init, CauseStays, Left, NoSidecar
<1>5. Honest
  BY DEF Init, Honest, SidecarHonest
<1>6. Readable
  BY EmptySeq DEF Init, Readable, Recordings, NoFiles, NoSidecar, Files, Streams
<1> QED
  BY <1>1, <1>2, <1>3, <1>4, <1>5, <1>6 DEF StorageInv

\* Every step keeps the invariant.
LEMMA InvStep == StorageInv /\ [Next]_vars => StorageInv'
BY TypesStep, ShapeStep, CountsStep, CauseStep, HonestStep, ReadableStep DEF StorageInv

\* The inductive invariant of the recording.
THEOREM StorageInvariant == Spec => []StorageInv
BY InitInv, InvStep, PTL DEF Spec

\* A sidecar that says completed is true: every accepted block of its stream is in
\* the file, although the other stream may fail at any moment (finalizeOptions).
THEOREM SidecarsTellTruth == Spec => []SidecarHonest
<1>1. StorageInv => SidecarHonest
  BY DEF StorageInv, Honest
<1> QED
  BY <1>1, StorageInvariant, PTL

\* Both sidecars of a recording give the first cause of its stop (failWriter).
THEOREM SidecarsGiveOneCause == Spec => []SidecarsAgree
<1>1. StorageInv => SidecarsAgree
  BY DEF StorageInv, CauseStays, SidecarsAgree, Streams
<1> QED
  BY <1>1, StorageInvariant, PTL

\* Accepted blocks are lost only with an error that waitUntilStopped reports.
THEOREM NoSilentLoss == Spec => []LostOnlyWithError
<1>1. StorageInv => LostOnlyWithError
  <2> SUFFICES ASSUME StorageInv, ~Running, ~workerError, NEW s \in Streams
               PROVE  written[s] = accepted[s]
    BY DEF LostOnlyWithError
  <2>1. pc[s] \notin Working
    BY DEF Running, StorageInv, Shape
  <2> QED
    BY <2>1 DEF StorageInv, Counts, InHand, Working
<1> QED
  BY <1>1, StorageInvariant, PTL

\* A raw recording whose sidecar says completed replays to its end: every accepted
\* block is in a part the reader finds, nothing that is not a block lies between two
\* of them, and the sidecar lists the parts that are there (closePart, openPart).
THEOREM CompletedReplaysHold == Spec => []CompletedReplays
<1>1. StorageInv => CompletedReplays
  <2> SUFFICES ASSUME StorageInv, sidecar["raw"].present, sidecar["raw"].completed
               PROVE  /\ Replay(raw) = [blocks |-> accepted["raw"], end |-> "EndOfStream"]
                      /\ raw.listed = Len(raw.parts)
    BY DEF CompletedReplays
  <2>1. Whole(raw, written["raw"])
    BY DEF StorageInv, Readable
  <2>2. written["raw"] = accepted["raw"]
    BY RawIsStream DEF StorageInv, Honest, SidecarHonest
  <2> QED
    BY <2>1, <2>2, WholeReplays DEF Whole
<1> QED
  BY <1>1, StorageInvariant, PTL
-----------------------------------------------------------------------------
(* The types of the outputs: of the recording and of the display.          *)

\* The types the invariant above does not need.
CallerTypes ==
  /\ stopRequested \in BOOLEAN /\ failed \in BOOLEAN
  /\ joinable \in [Streams -> BOOLEAN] /\ session \in Nat
QueueBound == queued \in [Streams -> 0..Capacity]

\* Every step keeps them.
LEMMA CallerTypesStep == CallerTypes /\ [Next]_vars => CallerTypes'
<1> SUFFICES ASSUME CallerTypes, [Next]_vars PROVE CallerTypes'
  OBVIOUS
<1>1. CASE Start
  <2>1. session' \in Nat
    BY <1>1 DEF Start, CallerTypes
  <2>2. stopRequested' \in BOOLEAN /\ failed' \in BOOLEAN
    BY <1>1 DEF Start
  <2>3. joinable' \in [Streams -> BOOLEAN]
    BY <1>1 DEF Start
  <2> QED
    BY <2>1, <2>2, <2>3 DEF CallerTypes
<1>2. CASE StartOpenFails
  <2>1. session' \in Nat
    <3>1. session' = session + 1
      BY <1>2 DEF StartOpenFails
    <3> QED
      BY <3>1 DEF CallerTypes
  <2>2. UNCHANGED <<stopRequested, failed, joinable>>
    BY <1>2 DEF StartOpenFails, flags
  <2> QED
    BY <2>1, <2>2 DEF CallerTypes
<1>3. CASE RequestStop
  BY <1>3 DEF RequestStop, CallerTypes
<1>4. CASE WaitUntilStopped
  BY <1>4 DEF WaitUntilStopped, flags, CallerTypes
<1>5. ASSUME NEW s \in Streams, EnqueueAccepted(s) PROVE CallerTypes'
  BY <1>5 DEF EnqueueAccepted, flags, CallerTypes
<1>6. ASSUME NEW s \in Streams, EnqueueOverflow(s) PROVE CallerTypes'
  BY <1>6 DEF EnqueueOverflow, CallerTypes
<1>7. ASSUME NEW s \in Streams, Worker(s) PROVE CallerTypes'
  <2>1. UNCHANGED <<joinable, session>>
    BY <1>7 DEF Worker, Take, Write, WriteFails, LeaveLoop, ReadOptions, Finalize,
                FinalizeFlushFails, FinalizeSidecarFails, FinishWorker
  <2>2. \/ UNCHANGED <<stopRequested, failed>>
        \/ stopRequested' = TRUE /\ failed' = TRUE
    BY <1>7 DEF Worker, Take, Write, WriteFails, LeaveLoop, ReadOptions, Finalize,
                FinalizeFlushFails, FinalizeSidecarFails, FinishWorker, FailWriter, flags
  <2> QED
    BY <2>1, <2>2 DEF CallerTypes
<1>8. CASE UNCHANGED vars
  BY <1>8 DEF vars, flags, CallerTypes
<1> QED
  BY <1>1, <1>2, <1>3, <1>4, <1>5, <1>6, <1>7, <1>8 DEF Next

\* Every step keeps the bound of the queues.
LEMMA QueueBoundStep == QueueBound /\ [Next]_vars => QueueBound'
<1> SUFFICES ASSUME QueueBound, [Next]_vars PROVE QueueBound'
  OBVIOUS
<1>0. Capacity \in Nat
  BY StorageAssumption
<1>1. CASE Start
  BY <1>0, <1>1 DEF Start, QueueBound
<1>2. ASSUME NEW s \in Streams, EnqueueAccepted(s) PROVE QueueBound'
  BY <1>0, <1>2 DEF EnqueueAccepted, Full, QueueBound
<1>3. ASSUME NEW s \in Streams, Take(s) PROVE QueueBound'
  BY <1>0, <1>3 DEF Take, QueueBound
<1>4. ASSUME NEW s \in Streams,
             WriteFails(s) \/ FinalizeFlushFails(s) \/ FinalizeSidecarFails(s)
      PROVE  QueueBound'
  <2>1. queued' = [t \in Streams |-> 0]
    BY <1>4 DEF WriteFails, FinalizeFlushFails, FinalizeSidecarFails, FailWriter
  <2> QED
    BY <1>0, <2>1 DEF QueueBound
<1>5. CASE queued' = queued
  BY <1>5 DEF QueueBound
<1>6. ASSUME NEW s \in Streams,
             \/ EnqueueOverflow(s) \/ Write(s) \/ LeaveLoop(s) \/ ReadOptions(s)
             \/ Finalize(s) \/ FinishWorker(s)
      PROVE  queued' = queued
  BY <1>6 DEF EnqueueOverflow, Write, LeaveLoop, ReadOptions, Finalize, FinishWorker
<1>7. StartOpenFails \/ RequestStop \/ WaitUntilStopped \/ UNCHANGED vars => queued' = queued
  BY DEF StartOpenFails, RequestStop, WaitUntilStopped, vars
<1> QED
  BY <1>1, <1>2, <1>3, <1>4, <1>5, <1>6, <1>7 DEF Next, Worker

\* Everything a step of the recording has to keep of its types.
StorageTypes == StorageInv /\ CallerTypes /\ QueueBound

\* They hold at first,
LEMMA StorageTypesInit == Init => StorageTypes
<1>1. Init => CallerTypes
  <2> SUFFICES ASSUME Init PROVE CallerTypes
    OBVIOUS
  <2>1. stopRequested \in BOOLEAN /\ failed \in BOOLEAN
    BY DEF Init
  <2>2. joinable \in [Streams -> BOOLEAN]
    BY DEF Init
  <2>3. session \in Nat
    BY DEF Init
  <2> QED
    BY <2>1, <2>2, <2>3 DEF CallerTypes
<1>2. Init => QueueBound
  BY StorageAssumption DEF Init, QueueBound
<1> QED
  BY <1>1, <1>2, InitInv DEF StorageTypes

\* every step keeps them,
LEMMA StorageTypesStep == StorageTypes /\ [Next]_vars => StorageTypes'
BY InvStep, CallerTypesStep, QueueBoundStep DEF StorageTypes

\* and together they are TypeOK.
LEMMA StorageTyped == StorageTypes => TypeOK
BY DEF StorageTypes, StorageInv, Types, Readable, Recordings, CallerTypes, QueueBound, TypeOK

\* A drain event is queued while one is scheduled, and only then.
DrainScheduled == scheduled <=> drains = 1

\* What the phases and the choice of the plot are.
LEMMA DisplayModesStep ==
  ASSUME DisplayTypeOK, [DisplayNext]_displayVars
  PROVE  /\ phase' \in {"idle", "live", "stopping", "aborting"}
         /\ selected' \in Plots \cup {"none"} /\ aborted' \in BOOLEAN
<1> USE DEF DisplayTypeOK
<1>1. CASE User
  BY <1>1
     DEF User, SessionStarts, Reconfigure, StopBegins, EmergencyStopBegins, Select
<1>2. CASE \E p \in Plots : Produce(p)
  BY <1>2 DEF Produce
<1>3. CASE RuntimeThread
  BY <1>3 DEF RuntimeThread, TimerPublishes, Stopped, EnqueueUpdate
<1>4. CASE UiThread
  BY <1>4 DEF UiThread, Drain, ShowUpdates
<1>5. CASE UNCHANGED displayVars
  BY <1>5 DEF displayVars
<1> QED
  BY <1>1, <1>2, <1>3, <1>4, <1>5 DEF DisplayNext

\* Publishing reads a snapshot of the store and remembers it.
LEMMA PublishTypes ==
  ASSUME DisplayTypeOK, NEW plot, NEW before \in [Plots -> Snapshots],
         PublishSnapshots(plot, before)
  PROVE  /\ carried' \in [plot : Plots, snapshot : Snapshots] \cup {None}
         /\ last' \in [Plots -> Snapshots]
<1>1. latest \in [Plots -> Snapshots] /\ carried \in [plot : Plots, snapshot : Snapshots] \cup {None}
  BY DEF DisplayTypeOK
<1>2. CASE plot \in Plots /\ latest[plot] \notin {0, before[plot]}
  <2>1. /\ carried' = [plot |-> plot, snapshot |-> latest[plot]]
        /\ last' = [before EXCEPT ![plot] = latest[plot]]
    BY <1>2 DEF PublishSnapshots
  <2>2. latest[plot] \in Snapshots
    BY <1>1, <1>2
  <2>3. carried' \in [plot : Plots, snapshot : Snapshots]
    BY <1>2, <2>1, <2>2
  <2> QED
    BY <2>1, <2>2, <2>3
<1>3. CASE ~(plot \in Plots /\ latest[plot] \notin {0, before[plot]})
  BY <1>1, <1>3 DEF PublishSnapshots
<1> QED
  BY <1>2, <1>3

\* The snapshots on their way to the display.
LEMMA DisplaySnapshotsStep ==
  ASSUME DisplayTypeOK, [DisplayNext]_displayVars
  PROVE  /\ latest' \in [Plots -> Snapshots] /\ last' \in [Plots -> Snapshots]
         /\ carried' \in [plot : Plots, snapshot : Snapshots] \cup {None}
         /\ waiting' \in [Plots -> Snapshots] /\ drained' \in [Plots -> Snapshots]
         /\ shown' \in [Plots -> Snapshots] /\ made' \in Snapshots
<1>0. /\ latest \in [Plots -> Snapshots] /\ last \in [Plots -> Snapshots]
      /\ carried \in [plot : Plots, snapshot : Snapshots] \cup {None}
      /\ waiting \in [Plots -> Snapshots] /\ drained \in [Plots -> Snapshots]
      /\ shown \in [Plots -> Snapshots] /\ made \in Snapshots
      /\ MaxSnapshots \in Nat /\ 0 \in Snapshots /\ Nothing \in [Plots -> Snapshots]
  BY DisplayAssumption DEF DisplayTypeOK, Snapshots, Nothing
<1>1. CASE \E p \in Plots : Produce(p)
  <2>1. PICK p \in Plots : Produce(p)
    BY <1>1
  <2>2. made + 1 \in Snapshots
    BY <1>0, <2>1 DEF Produce, Snapshots
  <2>3. latest' \in [Plots -> Snapshots] /\ made' \in Snapshots
    BY <1>0, <2>1, <2>2 DEF Produce
  <2> QED
    BY <1>0, <2>1, <2>3 DEF Produce
<1>2. CASE SessionStarts \/ StopBegins \/ EmergencyStopBegins \/ Reconfigure
  BY <1>0, <1>2 DEF SessionStarts, StopBegins, EmergencyStopBegins, Reconfigure, Act
<1>3. ASSUME NEW plot \in Plots \cup {"none"}, Select(plot)
      PROVE  /\ last' \in [Plots -> Snapshots]
             /\ carried' \in [plot : Plots, snapshot : Snapshots] \cup {None}
             /\ UNCHANGED <<latest, waiting, drained, shown, made>>
  <2>1. [p \in Plots |-> IF p = plot THEN 0 ELSE last[p]] \in [Plots -> Snapshots]
    BY <1>0
  <2> QED
    BY <1>3, <2>1, PublishTypes DEF Select, Act
<1>4. CASE TimerPublishes
  BY <1>0, <1>4, PublishTypes DEF TimerPublishes
<1>5. CASE Stopped
  BY <1>0, <1>5, PublishTypes DEF Stopped, PublishAtStop
<1>6. CASE EnqueueUpdate
  <2>1. carried \in [plot : Plots, snapshot : Snapshots]
    BY <1>0, <1>6 DEF EnqueueUpdate
  <2>2. waiting' \in [Plots -> Snapshots]
    BY <1>0, <1>6, <2>1 DEF EnqueueUpdate
  <2> QED
    BY <1>0, <1>6, <2>2 DEF EnqueueUpdate
<1>7. CASE Drain
  BY <1>0, <1>7 DEF Drain
<1>8. CASE ShowUpdates
  BY <1>0, <1>8 DEF ShowUpdates
<1>9. CASE UNCHANGED displayVars
  BY <1>0, <1>9 DEF displayVars
<1> QED
  BY <1>0, <1>1, <1>2, <1>3, <1>4, <1>5, <1>6, <1>7, <1>8, <1>9
     DEF DisplayNext, User, RuntimeThread, UiThread

\* The events of the UI thread and the acts of the user.
LEMMA DisplayEventsStep ==
  ASSUME DisplayTypeOK, DrainScheduled, [DisplayNext]_displayVars
  PROVE  scheduled' \in BOOLEAN /\ drains' \in 0..1 /\ DrainScheduled' /\ acts' \in 0..MaxActs
<1>0. scheduled \in BOOLEAN /\ drains \in 0..1 /\ acts \in 0..MaxActs /\ MaxActs \in Nat
  BY DisplayAssumption DEF DisplayTypeOK
<1>1. CASE User
  <2>1. Act
    BY <1>1 DEF User, SessionStarts, Reconfigure, StopBegins, EmergencyStopBegins, Select
  <2>2. acts' \in 0..MaxActs
    BY <1>0, <2>1 DEF Act
  <2>3. UNCHANGED <<scheduled, drains>>
    BY <2>1 DEF Act
  <2> QED
    BY <1>0, <2>2, <2>3 DEF DrainScheduled
<1>2. CASE \E p \in Plots : Produce(p)
  BY <1>0, <1>2 DEF Produce, DrainScheduled
<1>3. CASE TimerPublishes \/ Stopped
  BY <1>0, <1>3 DEF TimerPublishes, Stopped, DrainScheduled
<1>4. CASE EnqueueUpdate
  <2>1. scheduled' = TRUE /\ drains' = (IF scheduled THEN drains ELSE drains + 1) /\ acts' = acts
    BY <1>4 DEF EnqueueUpdate
  <2>2. drains' = 1
    BY <1>0, <2>1 DEF DrainScheduled
  <2> QED
    BY <1>0, <2>1, <2>2 DEF DrainScheduled
<1>5. CASE Drain
  <2>1. drains' = 0 /\ acts' = acts
    BY <1>0, <1>5 DEF Drain
  <2>2. scheduled' = FALSE
    BY <1>5 DEF Drain
  <2>3. drains' \in 0..1 /\ drains' # 1 /\ acts' \in 0..MaxActs
    BY <1>0, <2>1
  <2> QED
    BY <2>2, <2>3 DEF DrainScheduled
<1>6. CASE ShowUpdates
  BY <1>0, <1>6 DEF ShowUpdates, DrainScheduled
<1>7. CASE UNCHANGED displayVars
  BY <1>0, <1>7 DEF displayVars, DrainScheduled
<1> QED
  BY <1>1, <1>2, <1>3, <1>4, <1>5, <1>6, <1>7 DEF DisplayNext, RuntimeThread, UiThread

\* Every step of the display keeps its types.
LEMMA DisplayStep ==
  DisplayTypeOK /\ DrainScheduled /\ [DisplayNext]_displayVars => DisplayTypeOK' /\ DrainScheduled'
<1> SUFFICES ASSUME DisplayTypeOK, DrainScheduled, [DisplayNext]_displayVars
             PROVE  DisplayTypeOK' /\ DrainScheduled'
  OBVIOUS
<1> QED
  BY DisplayModesStep, DisplaySnapshotsStep, DisplayEventsStep DEF DisplayTypeOK, Snapshots

\* They hold at first.
LEMMA DisplayInitTypes == DisplayInit => DisplayTypeOK /\ DrainScheduled
<1> SUFFICES ASSUME DisplayInit PROVE DisplayTypeOK /\ DrainScheduled
  OBVIOUS
<1>1. Nothing \in [Plots -> Snapshots] /\ 0 \in Snapshots
  BY DisplayAssumption DEF Nothing, Snapshots
<1>2. 0 \in 0..MaxActs
  BY DisplayAssumption
<1>3. made \in Snapshots /\ acts \in 0..MaxActs /\ drains = 0
  BY <1>1, <1>2 DEF DisplayInit
<1>4. /\ latest \in [Plots -> Snapshots] /\ last \in [Plots -> Snapshots]
      /\ waiting \in [Plots -> Snapshots] /\ drained \in [Plots -> Snapshots]
      /\ shown \in [Plots -> Snapshots] /\ carried = None
  BY <1>1 DEF DisplayInit
<1>5. phase = "idle" /\ selected = "none" /\ scheduled = FALSE /\ aborted = FALSE
  BY DEF DisplayInit
<1>6. drains \in 0..1 /\ drains # 1
  BY <1>3
<1> QED
  BY <1>3, <1>4, <1>5, <1>6 DEF DisplayTypeOK, DrainScheduled

\* Every variable of the recording and of the display keeps its type: neither queue
\* of the recording passes its capacity, and no more than one drain waits for the UI.
THEOREM OutputTypesHold == OutputSpec => []OutputTypeOK
<1> DEFINE Inv == StorageTypes /\ DisplayTypeOK /\ DrainScheduled
<1>1. OutputInit => Inv
  BY StorageTypesInit, DisplayInitTypes DEF OutputInit
<1>2. Inv /\ [OutputNext]_outputVars => Inv'
  <2> SUFFICES ASSUME Inv, [OutputNext]_outputVars PROVE Inv'
    OBVIOUS
  <2>1. [Next]_vars /\ [DisplayNext]_displayVars
    BY DEF OutputNext, outputVars
  <2> QED
    BY <2>1, StorageTypesStep, DisplayStep
<1>3. Inv => OutputTypeOK
  BY StorageTyped DEF OutputTypeOK
<1> QED
  BY <1>1, <1>2, <1>3, PTL DEF OutputSpec
=============================================================================
