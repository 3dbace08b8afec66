--------------------------- MODULE AlazarDmaProofs ---------------------------
(***************************************************************************)
(* The safety of the DMA buffers, for every number of buffers, every mode, *)
(* and any number of lines, sessions and failing driver calls: a buffer is *)
(* in one place, a consumer reads the line its batch was delivered with,   *)
(* and nothing another thread uses is released.                            *)
(***************************************************************************)
EXTENDS AlazarDma, TLAPS

\* The line the driver's wait brought, which is in no batch yet.
InHand == waiter = "relock" /\ result = "ready"
Hand == IF InHand THEN 1 ELSE 0

\* Who may be where: prepared and repost_enabled go together and need the
\* buffers; an abort comes before the end of a stop, the waiter's return too.
Protocol ==
  /\ prepared <=> repost
  /\ prepared => held
  /\ control \in {"abort", "release"} => ~prepared
  /\ control = "release" => waiter \in {"idle", "out"}
  /\ waiter = "lease" => prepared
  /\ waiter = "api" => held
  /\ ~prepared => ~capturing \/ abortFailed

\* A buffer has one place, and no lease is of a session to come.
Places ==
  /\ EveryBufferHasOnePlace
  /\ \A l \in leases : l.session <= session

\* The board's buffers are its own, and those the digitizer believes it has.
Boarded ==
  /\ Distinct(board)
  /\ \A l \in Lent : l.index \notin Elements(board)
  /\ prepared => IF InHand THEN posted # <<>> /\ board = Tail(posted) ELSE board = posted

\* The filled buffers hold the lines that follow the last one delivered.
InLine ==
  /\ prepared =>
       /\ lines = received + Hand + filled
       /\ \A i \in 1..filled : data[board[i]] = received + Hand + i
       /\ InHand => data[Head(posted)] = received + 1
  /\ ConsumerReadsItsLine

DmaInv == TypeOK /\ Protocol /\ Places /\ Boarded /\ InLine
-----------------------------------------------------------------------------
(* Sequences of buffers.                                                   *)

\* What is left of a sequence of distinct buffers without its head.
LEMMA TailOf ==
  ASSUME NEW s \in Seq(Index), s # <<>>
  PROVE  /\ Tail(s) \in Seq(Index) /\ Head(s) \in Index
         /\ Len(Tail(s)) = Len(s) - 1 /\ Len(s) \in Nat \ {0}
         /\ \A i \in 1..Len(s) - 1 : Tail(s)[i] = s[i + 1]
         /\ Head(s) = s[1]
         /\ Elements(s) = {Head(s)} \cup Elements(Tail(s))
         /\ Distinct(s) => Distinct(Tail(s)) /\ Head(s) \notin Elements(Tail(s))
<1>1. /\ Tail(s) \in Seq(Index) /\ Head(s) \in Index
      /\ Len(Tail(s)) = Len(s) - 1 /\ Len(s) \in Nat \ {0}
      /\ \A i \in 1..Len(s) - 1 : Tail(s)[i] = s[i + 1]
      /\ Head(s) = s[1]
  OBVIOUS
<1>2. Elements(s) = {Head(s)} \cup Elements(Tail(s))
  <2>1. ASSUME NEW x \in Elements(s) PROVE x \in {Head(s)} \cup Elements(Tail(s))
    <3>1. PICK i \in 1..Len(s) : x = s[i]
      BY DEF Elements
    <3>2. CASE i = 1
      BY <1>1, <3>1, <3>2
    <3>3. CASE i # 1
      <4>1. i - 1 \in 1..Len(Tail(s)) /\ Tail(s)[i - 1] = x
        BY <1>1, <3>1, <3>3
      <4> QED
        BY <4>1 DEF Elements
    <3> QED
      BY <3>2, <3>3
  <2>2. ASSUME NEW x \in Elements(Tail(s)) PROVE x \in Elements(s)
    <3>1. PICK i \in 1..Len(Tail(s)) : x = Tail(s)[i]
      BY DEF Elements
    <3>2. i + 1 \in 1..Len(s) /\ s[i + 1] = x
      BY <1>1, <3>1
    <3> QED
      BY <3>2 DEF Elements
  <2>3. Head(s) \in Elements(s)
    BY <1>1 DEF Elements
  <2> QED
    BY <2>1, <2>2, <2>3
<1>3. ASSUME Distinct(s) PROVE Distinct(Tail(s)) /\ Head(s) \notin Elements(Tail(s))
  <2>1. Distinct(Tail(s))
    BY <1>1, <1>3 DEF Distinct
  <2>2. ASSUME NEW i \in 1..Len(Tail(s)) PROVE Tail(s)[i] # Head(s)
    <3>1. i + 1 \in 1..Len(s) /\ 1 \in 1..Len(s) /\ i + 1 # 1
      BY <1>1
    <3> QED
      BY <1>1, <1>3, <3>1 DEF Distinct
  <2> QED
    BY <2>1, <2>2 DEF Elements
<1> QED
  BY <1>1, <1>2, <1>3

\* Two sequences of distinct buffers with none in common, one behind the other.
LEMMA JoinOf ==
  ASSUME NEW s \in Seq(Index), NEW t \in Seq(Index)
  PROVE  /\ s \o t \in Seq(Index) /\ Len(s \o t) = Len(s) + Len(t)
         /\ \A i \in 1..Len(s) : (s \o t)[i] = s[i]
         /\ Elements(s \o t) = Elements(s) \cup Elements(t)
         /\ Distinct(s) /\ Distinct(t) /\ Elements(s) \cap Elements(t) = {}
              => Distinct(s \o t)
<1>1. /\ s \o t \in Seq(Index) /\ Len(s \o t) = Len(s) + Len(t)
      /\ \A i \in 1..Len(s) : (s \o t)[i] = s[i]
      /\ \A i \in Len(s) + 1..Len(s) + Len(t) : (s \o t)[i] = t[i - Len(s)]
      /\ Len(s) \in Nat /\ Len(t) \in Nat
  OBVIOUS
<1>2. Elements(s \o t) = Elements(s) \cup Elements(t)
  <2>1. ASSUME NEW i \in 1..Len(s \o t) PROVE (s \o t)[i] \in Elements(s) \cup Elements(t)
    <3>1. CASE i <= Len(s)
      BY <1>1, <3>1 DEF Elements
    <3>2. CASE i > Len(s)
      <4>1. i - Len(s) \in 1..Len(t) /\ (s \o t)[i] = t[i - Len(s)]
        BY <1>1, <3>2
      <4> QED
        BY <4>1 DEF Elements
    <3> QED
      BY <1>1, <3>1, <3>2
  <2>2. ASSUME NEW i \in 1..Len(s) PROVE s[i] \in Elements(s \o t)
    <3>1. i \in 1..Len(s \o t) /\ (s \o t)[i] = s[i]
      BY <1>1
    <3> QED
      BY <3>1 DEF Elements
  <2>3. ASSUME NEW i \in 1..Len(t) PROVE t[i] \in Elements(s \o t)
    <3>1. i + Len(s) \in 1..Len(s \o t) /\ (s \o t)[i + Len(s)] = t[i]
      BY <1>1
    <3> QED
      BY <3>1 DEF Elements
  <2> QED
    BY <2>1, <2>2, <2>3 DEF Elements
<1>3. ASSUME Distinct(s), Distinct(t), Elements(s) \cap Elements(t) = {}
      PROVE  Distinct(s \o t)
  <2>1. SUFFICES ASSUME NEW i \in 1..Len(s \o t), NEW j \in 1..Len(s \o t),
                        (s \o t)[i] = (s \o t)[j]
                 PROVE  i = j
    BY DEF Distinct
  <2>2. CASE i <= Len(s) /\ j <= Len(s)
    <3>1. i \in 1..Len(s) /\ j \in 1..Len(s) /\ s[i] = s[j]
      BY <1>1, <2>1, <2>2
    <3> QED
      BY <1>3, <3>1 DEF Distinct
  <2>3. CASE i > Len(s) /\ j > Len(s)
    <3>1. /\ i - Len(s) \in 1..Len(t) /\ j - Len(s) \in 1..Len(t)
          /\ t[i - Len(s)] = t[j - Len(s)]
      BY <1>1, <2>1, <2>3
    <3>2. i - Len(s) = j - Len(s)
      BY <1>3, <3>1 DEF Distinct
    <3> QED
      BY <1>1, <3>2
  <2>4. CASE i <= Len(s) /\ j > Len(s)
    <3>1. i \in 1..Len(s) /\ j - Len(s) \in 1..Len(t) /\ s[i] = t[j - Len(s)]
      BY <1>1, <2>1, <2>4
    <3> QED
      BY <1>3, <3>1 DEF Elements
  <2>5. CASE i > Len(s) /\ j <= Len(s)
    <3>1. j \in 1..Len(s) /\ i - Len(s) \in 1..Len(t) /\ s[j] = t[i - Len(s)]
      BY <1>1, <2>1, <2>5
    <3> QED
      BY <1>3, <3>1 DEF Elements
  <2> QED
    BY <1>1, <2>2, <2>3, <2>4, <2>5
<1> QED
  BY <1>1, <1>2, <1>3

\* One buffer more.
LEMMA AppendOf ==
  ASSUME NEW s \in Seq(Index), NEW x \in Index
  PROVE  /\ Append(s, x) \in Seq(Index)
         /\ Elements(Append(s, x)) = Elements(s) \cup {x}
         /\ Distinct(s) /\ x \notin Elements(s) => Distinct(Append(s, x))
<1>1. /\ <<x>> \in Seq(Index) /\ Append(s, x) = s \o <<x>>
      /\ Len(<<x>>) = 1 /\ <<x>>[1] = x
  OBVIOUS
<1>2. Elements(<<x>>) = {x} /\ Distinct(<<x>>)
  BY <1>1 DEF Elements, Distinct
<1>3. Append(s, x) \in Seq(Index) /\ Elements(Append(s, x)) = Elements(s) \cup {x}
  BY <1>1, <1>2, JoinOf
<1>4. ASSUME Distinct(s), x \notin Elements(s) PROVE Distinct(Append(s, x))
  <2>1. Elements(s) \cap Elements(<<x>>) = {}
    BY <1>2, <1>4
  <2>2. Distinct(s \o <<x>>)
    BY <1>1, <1>2, <1>4, <2>1, JoinOf
  <2> QED
    BY <1>1, <2>2
<1> QED
  BY <1>3, <1>4

\* The first buffers of a sequence.
LEMMA PrefixOf ==
  ASSUME NEW s \in Seq(Index), NEW n \in 0..Len(s) - 1
  PROVE  /\ SubSeq(s, 1, n) \in Seq(Index)
         /\ Elements(SubSeq(s, 1, n)) \subseteq Elements(s)
         /\ Distinct(s) => Distinct(SubSeq(s, 1, n))
<1>1. /\ SubSeq(s, 1, n) \in Seq(Index) /\ Len(SubSeq(s, 1, n)) = n
      /\ \A i \in 1..n : SubSeq(s, 1, n)[i] = s[i] /\ i \in 1..Len(s)
  OBVIOUS
<1> QED
  BY <1>1 DEF Elements, Distinct

\* An empty sequence of buffers.
LEMMA EmptyOf ==
  <<>> \in Seq(Index) /\ Elements(<<>>) = {} /\ Distinct(<<>>) /\ Len(<<>>) = 0
BY DEF Elements, Distinct

\* Every buffer once, as they are posted at the start.
LEMMA InOrderOf ==
  /\ InOrder \in Seq(Index) /\ Distinct(InOrder) /\ Elements(InOrder) = Index
  /\ Len(InOrder) = Buffers /\ Buffers \in Nat
<1>1. Buffers \in Nat
  BY DmaAssumption
<1>2. InOrder \in Seq(Index) /\ Len(InOrder) = Buffers
  BY <1>1 DEF InOrder, Index
<1> QED
  BY <1>1, <1>2 DEF Elements, Distinct, InOrder, Index
-----------------------------------------------------------------------------
(* The steps.                                                              *)

\* Init is of the right types and in the invariant.
LEMMA InitInv == Init => DmaInv
<1> SUFFICES ASSUME Init PROVE DmaInv
  OBVIOUS
<1> USE EmptyOf
<1>1. TypeOK
  <2>1. /\ filled \in 0..Len(board) /\ board \in Seq(Index)
        /\ posted \in Seq(Index) /\ released \in Seq(Index)
    BY DEF Init
  <2>2. data \in [Index -> Nat]
    BY DEF Init, Blank
  <2>3. leases \subseteq Lease
    BY DEF Init
  <2> QED
    BY <2>1, <2>2, <2>3 DEF Init, TypeOK, Results
<1>2. Protocol
  BY DEF Init, Protocol
<1>3. Places
  BY DEF Init, Places, EveryBufferHasOnePlace, Lent
<1>4. Boarded
  BY DEF Init, Boarded, Lent
<1>5. InLine
  BY DEF Init, InLine, ConsumerReadsItsLine, Lent
<1> QED
  BY <1>1, <1>2, <1>3, <1>4, <1>5 DEF DmaInv

\* Every step keeps the types.
LEMMA TypesStep == DmaInv /\ [Next]_vars => TypeOK'
<1> SUFFICES ASSUME DmaInv, [Next]_vars PROVE TypeOK'
  OBVIOUS
<1> USE DEF DmaInv
<1>1. CASE Start
  <2>1. FrameCounts \subseteq Nat
    BY DmaAssumption
  <2>2. data' \in [Index -> Nat]
    BY <1>1 DEF Start, Blank
  <2>3. /\ posted' \in Seq(Index) /\ released' \in Seq(Index)
        /\ board' \in Seq(Index) /\ filled' \in 0..Len(board')
    BY <1>1, InOrderOf DEF Start
  <2>4. frames' \in Nat /\ session' \in Nat /\ faults' \in Nat /\ leases' \subseteq Lease
    BY <1>1, <2>1 DEF Start, TypeOK
  <2>5. lines' \in Nat /\ received' \in Nat /\ result' \in Results
    BY <1>1 DEF Start, Results
  <2>6. /\ armed' \in BOOLEAN /\ running' \in BOOLEAN /\ prepared' \in BOOLEAN /\ held' \in BOOLEAN
        /\ repost' \in BOOLEAN /\ capturing' \in BOOLEAN /\ overflow' \in BOOLEAN
        /\ abortFailed' \in BOOLEAN
    BY <1>1 DEF Start
  <2>7. control' = "running" /\ waiter' = "idle"
    BY <1>1 DEF Start
  <2> QED
    BY <2>2, <2>3, <2>4, <2>5, <2>6, <2>7 DEF TypeOK
<1>2. CASE StartFails
  <2>1. posted' = <<>> /\ released' = <<>> /\ board' = <<>> /\ filled' = 0
    BY <1>2 DEF StartFails, ReleaseBuffers
  <2>2. /\ posted' \in Seq(Index) /\ released' \in Seq(Index) /\ board' \in Seq(Index)
    BY <2>1
  <2>3. filled' \in 0..Len(board')
    BY <2>1
  <2>4. session' \in Nat /\ faults' \in Nat
    BY <1>2 DEF StartFails, Fault, TypeOK
  <2> QED
    BY <1>2, <2>2, <2>3, <2>4 DEF StartFails, ReleaseBuffers, thread, TypeOK
<1>3. CASE Stop \/ Disconnect
  BY <1>3 DEF Stop, Disconnect, device, pool, card, errors, TypeOK
<1>4. CASE AbortAsyncRead
  <2>1. CASE board' = <<>> /\ filled' = 0 /\ capturing' = FALSE /\ UNCHANGED errors
    <3>1. board' \in Seq(Index) /\ filled' \in 0..Len(board')
      BY <2>1
    <3> QED
      BY <1>4, <2>1, <3>1 DEF AbortAsyncRead, errors, TypeOK
  <2>2. CASE Fault /\ abortFailed' = TRUE /\ UNCHANGED <<board, filled, capturing>>
    <3>1. board' \in Seq(Index) /\ filled' \in 0..Len(board')
      BY <2>2 DEF TypeOK
    <3>2. faults' \in Nat
      BY <2>2 DEF Fault, TypeOK
    <3> QED
      BY <1>4, <2>2, <3>1, <3>2 DEF AbortAsyncRead, TypeOK
  <2> QED
    BY <1>4, <2>1, <2>2 DEF AbortAsyncRead
<1>5. CASE AbortReturns
  BY <1>5 DEF AbortReturns, pool, card, errors, TypeOK
<1>6. CASE StopReturns
  BY <1>6, EmptyOf DEF StopReturns, ReleaseBuffers, card, errors, TypeOK
<1>7. CASE Leave \/ LeaseTimeout
  BY <1>7 DEF Leave, LeaseTimeout, device, pool, card, errors, TypeOK
<1>8. CASE WaitStopped \/ WaitFinished
  BY <1>8 DEF WaitStopped, WaitFinished, Stopped, pool, card, errors, TypeOK
<1>9. CASE WaitBegins
  <2>1. posted' = posted \o released /\ board' = board \o released
    BY <1>9 DEF WaitBegins, Reposts
  <2>2. released' = SubSeq(released, Len(released) + 1, Len(released))
    BY <1>9 DEF WaitBegins, Reposts
  <2>3. released' = <<>>
    BY <2>2 DEF TypeOK
  <2>4. posted' \in Seq(Index) /\ board' \in Seq(Index) /\ filled \in 0..Len(board')
    BY <2>1, JoinOf DEF TypeOK
  <2>5. waiter' \in {"lease", "api"}
    BY <1>9 DEF WaitBegins
  <2> QED
    BY <1>9, <2>3, <2>4, <2>5, EmptyOf DEF WaitBegins, device, errors, TypeOK
<1>10. CASE RepostFails
  <2>1. PICK n \in 0..Len(released) - 1 :
          posted' = posted \o SubSeq(released, 1, n) /\ board' = board \o SubSeq(released, 1, n)
    BY <1>10 DEF RepostFails
  <2>2. SubSeq(released, 1, n) \in Seq(Index)
    BY PrefixOf DEF TypeOK
  <2>3. posted' \in Seq(Index) /\ board' \in Seq(Index) /\ filled \in 0..Len(board')
    BY <2>1, <2>2, JoinOf DEF TypeOK
  <2> QED
    BY <1>10, <2>3, EmptyOf DEF RepostFails, Fault, device, TypeOK
<1>11. CASE ApiReturns
  <2>1. board' \in Seq(Index) /\ filled' \in 0..Len(board')
    <3>1. CASE UNCHANGED <<board, filled>>
      BY <3>1 DEF TypeOK
    <3>2. CASE filled > 0 /\ board' = Tail(board) /\ filled' = filled - 1
      <4>1. board # <<>>
        BY <3>2, EmptyOf DEF TypeOK
      <4> QED
        BY <3>2, <4>1, TailOf DEF TypeOK
    <3> QED
      BY <1>11, <3>1, <3>2 DEF ApiReturns
  <2>2. result' \in Results /\ faults' \in Nat /\ abortFailed' \in BOOLEAN
    BY <1>11 DEF ApiReturns, Fault, errors, Results, TypeOK
  <2> QED
    BY <1>11, <2>1, <2>2 DEF ApiReturns, device, pool, TypeOK
<1>12. CASE WaitEnds
  BY <1>12 DEF WaitEnds, pool, card, errors, TypeOK, Results
<1>13. CASE BatchReady
  <2>1. posted # <<>>
    BY <1>13 DEF BatchReady, Boarded, InHand
  <2>2. posted' \in Seq(Index) /\ Head(posted) \in Index
    BY <1>13, <2>1, TailOf DEF BatchReady, TypeOK
  <2>3. leases' \subseteq Lease /\ received' \in Nat
    BY <1>13, <2>2 DEF BatchReady, TypeOK, Lease
  <2> QED
    BY <1>13, <2>2, <2>3 DEF BatchReady, device, card, errors, TypeOK, Results
<1>14. CASE Release
  <2>1. PICK l \in leases :
          /\ leases' = leases \ {l}
          /\ released' = IF Returns(l) THEN Append(released, l.index) ELSE released
          /\ UNCHANGED <<thread, device, posted, repost, received, card, errors>>
    BY <1>14 DEF Release
  <2>2. l.index \in Index
    BY DEF TypeOK, Lease
  <2>3. released' \in Seq(Index)
    BY <2>1, <2>2, AppendOf DEF TypeOK
  <2> QED
    BY <2>1, <2>3 DEF thread, device, card, errors, TypeOK
<1>15. CASE BoardFills
  <2>1. data' \in [Index -> Nat]
    BY <1>15 DEF BoardFills, TypeOK
  <2> QED
    BY <1>15, <2>1 DEF BoardFills, thread, device, pool, errors, TypeOK
<1>16. CASE BoardOverflows
  BY <1>16 DEF BoardOverflows, thread, device, pool, errors, TypeOK
<1>17. CASE UNCHANGED vars
  BY <1>17 DEF vars, thread, device, pool, card, errors, TypeOK
<1> QED
  BY <1>1, <1>2, <1>3, <1>4, <1>5, <1>6, <1>7, <1>8, <1>9, <1>10, <1>11, <1>12, <1>13,
     <1>14, <1>15, <1>16, <1>17 DEF Next, Controller, StopGoesOn, Waiter

\* Every step keeps the protocol of the controller and the waiter.
LEMMA ProtocolStep == DmaInv /\ [Next]_vars => Protocol'
<1> SUFFICES ASSUME DmaInv, [Next]_vars PROVE Protocol'
  OBVIOUS
<1> USE DEF DmaInv
<1>1. CASE Start
  BY <1>1 DEF Start, Protocol
<1>2. CASE StartFails
  BY <1>2 DEF StartFails, CanArm, ReleaseBuffers, thread, Protocol
<1>3. CASE Stop \/ Disconnect
  BY <1>3 DEF Stop, Disconnect, device, pool, card, errors, Protocol
<1>4. CASE AbortAsyncRead
  BY <1>4 DEF AbortAsyncRead, MutexFree, errors, Protocol
<1>5. CASE AbortReturns
  BY <1>5 DEF AbortReturns, WaiterIsBack, pool, card, errors, Protocol, TypeOK
<1>6. CASE StopReturns
  BY <1>6 DEF StopReturns, ReleaseBuffers, card, errors, Protocol
<1>7. CASE Leave \/ LeaseTimeout
  BY <1>7 DEF Leave, LeaseTimeout, device, pool, card, errors, Protocol
<1>8. CASE WaitStopped \/ WaitFinished
  BY <1>8 DEF WaitStopped, WaitFinished, Stopped, pool, card, errors, Protocol
<1>9. CASE WaitBegins
  BY <1>9 DEF WaitBegins, device, errors, Protocol
<1>10. CASE RepostFails
  BY <1>10 DEF RepostFails, device, Protocol
<1>11. CASE ApiReturns
  BY <1>11 DEF ApiReturns, Fault, device, pool, errors, Protocol
<1>12. CASE WaitEnds
  BY <1>12 DEF WaitEnds, pool, card, errors, Protocol
<1>13. CASE BatchReady
  BY <1>13 DEF BatchReady, device, card, errors, Protocol
<1>14. CASE Release
  BY <1>14 DEF Release, thread, device, card, errors, Protocol
<1>15. CASE BoardFills \/ BoardOverflows
  BY <1>15 DEF BoardFills, BoardOverflows, thread, device, pool, errors, Protocol
<1>16. CASE UNCHANGED vars
  BY <1>16 DEF vars, thread, device, pool, card, errors, Protocol
<1> QED
  BY <1>1, <1>2, <1>3, <1>4, <1>5, <1>6, <1>7, <1>8, <1>9, <1>10, <1>11, <1>12, <1>13,
     <1>14, <1>15, <1>16 DEF Next, Controller, StopGoesOn, Waiter

\* Every step keeps each buffer in one place.
LEMMA PlacesStep == DmaInv /\ [Next]_vars => Places'
<1> SUFFICES ASSUME DmaInv, [Next]_vars PROVE Places'
  OBVIOUS
<1> USE DEF DmaInv
<1>1. ASSUME UNCHANGED <<posted, released, leases, session, held>>,
             repost' /\ waiter' # "out" => repost /\ waiter # "out"
      PROVE  Places'
  BY <1>1 DEF Places, EveryBufferHasOnePlace, Lent
<1>2. ASSUME posted' = <<>>, released' = <<>>, ~held', ~repost', UNCHANGED leases,
             session' = session \/ session' = session + 1
      PROVE  Places'
  <2>1. \A l \in leases' : l.session <= session'
    BY <1>2 DEF Places, TypeOK, Lease
  <2>2. Lent' \subseteq Lent
    <3>1. CASE session' = session
      BY <1>2, <3>1 DEF Lent
    <3>2. CASE session' = session + 1
      BY <1>2, <3>2 DEF Lent, Places, TypeOK, Lease
    <3> QED
      BY <1>2, <3>1, <3>2
  <2>3. EveryBufferHasOnePlace'
    BY <1>2, <2>2, EmptyOf DEF Places, EveryBufferHasOnePlace
  <2> QED
    BY <2>1, <2>3 DEF Places
<1>3. CASE Start
  <2>1. posted' = InOrder /\ released' = <<>> /\ leases' = leases /\ session' = session + 1
    BY <1>3 DEF Start
  <2>2. Lent' = {} /\ \A l \in leases' : l.session <= session'
    BY <2>1 DEF Lent, Places, TypeOK, Lease
  <2> QED
    BY <2>1, <2>2, InOrderOf, EmptyOf DEF Places, EveryBufferHasOnePlace
<1>4. CASE StartFails
  BY <1>2, <1>4 DEF StartFails, ReleaseBuffers
<1>5. CASE StopReturns
  BY <1>2, <1>5 DEF StopReturns, ReleaseBuffers
<1>6. CASE Stop \/ Disconnect
  BY <1>1, <1>6 DEF Stop, Disconnect, device, pool
<1>7. CASE AbortAsyncRead
  BY <1>1, <1>7 DEF AbortAsyncRead
<1>8. CASE AbortReturns
  BY <1>1, <1>8 DEF AbortReturns, pool
<1>9. CASE Leave \/ LeaseTimeout
  BY <1>1, <1>9 DEF Leave, LeaseTimeout, device, pool
<1>10. CASE WaitStopped \/ WaitFinished
  BY <1>1, <1>10 DEF WaitStopped, WaitFinished, Stopped, pool
<1>11. CASE WaitBegins
  <2>1. posted' = posted \o released /\ released' = <<>>
    BY <1>11 DEF WaitBegins, Reposts, TypeOK
  <2>2. UNCHANGED <<leases, session, held, repost>> /\ waiter # "out"
    BY <1>11 DEF WaitBegins, Calls, device
  <2>3. /\ Distinct(posted') /\ Elements(posted') = Elements(posted) \cup Elements(released)
    BY <2>1, JoinOf DEF Places, EveryBufferHasOnePlace, TypeOK
  <2> QED
    BY <2>1, <2>2, <2>3, EmptyOf DEF Places, EveryBufferHasOnePlace, Lent
<1>12. CASE RepostFails
  <2>1. PICK n \in 0..Len(released) - 1 : posted' = posted \o SubSeq(released, 1, n)
    BY <1>12 DEF RepostFails
  <2>2. released' = <<>> /\ UNCHANGED <<leases, session, held>> /\ waiter' = "out"
    BY <1>12 DEF RepostFails, device
  <2>3. /\ SubSeq(released, 1, n) \in Seq(Index) /\ Distinct(SubSeq(released, 1, n))
        /\ Elements(SubSeq(released, 1, n)) \subseteq Elements(released)
    BY PrefixOf DEF Places, EveryBufferHasOnePlace, TypeOK
  <2> DEFINE some == SubSeq(released, 1, n)
  <2>4. /\ some \in Seq(Index) /\ Distinct(some) /\ Elements(some) \subseteq Elements(released)
        /\ posted' = posted \o some
    BY <2>1, <2>3
  <2> HIDE DEF some
  <2>5. Elements(posted') = Elements(posted) \cup Elements(some)
    BY <2>4, JoinOf DEF TypeOK
  <2>6. Elements(posted) \cap Elements(some) = {}
    BY <2>4 DEF Places, EveryBufferHasOnePlace
  <2>7. Distinct(posted')
    BY <2>4, <2>6, JoinOf DEF Places, EveryBufferHasOnePlace, TypeOK
  <2>8. Elements(posted') \subseteq Elements(posted) \cup Elements(released)
    BY <2>4, <2>5
  <2> QED
    BY <2>2, <2>7, <2>8, EmptyOf DEF Places, EveryBufferHasOnePlace, Lent
<1>13. CASE ApiReturns
  BY <1>1, <1>13 DEF ApiReturns, device, pool
<1>14. CASE WaitEnds
  BY <1>1, <1>14 DEF WaitEnds, pool
<1>15. CASE BatchReady
  <2> DEFINE new == [session |-> session, index |-> Head(posted), line |-> received + 1]
  <2>1. posted # <<>> /\ held /\ repost /\ waiter # "out"
    BY <1>15 DEF BatchReady, Boarded, InHand, Protocol
  <2>2. /\ posted' = Tail(posted) /\ leases' = leases \cup {new} /\ waiter' # "out"
        /\ UNCHANGED <<released, session, held, repost>>
    BY <1>15 DEF BatchReady, device
  <2>3. Lent' = Lent \cup {new}
    BY <2>2 DEF Lent
  <2>4. /\ Distinct(posted') /\ Head(posted) \notin Elements(posted')
        /\ Elements(posted) = {Head(posted)} \cup Elements(posted')
    BY <2>1, <2>2, TailOf DEF TypeOK, Places, EveryBufferHasOnePlace
  <2>5. \A l \in Lent : l.index # Head(posted)
    BY <2>1, <2>4 DEF Places, EveryBufferHasOnePlace
  <2>6. new.index = Head(posted) /\ new.session = session
    OBVIOUS
  <2> HIDE DEF new
  <2>7. {l.index : l \in Lent'} = {l.index : l \in Lent} \cup {Head(posted)}
    BY <2>3, <2>6
  <2>8. EveryBufferHasOnePlace'
    <3>1. Distinct(posted') /\ Distinct(released')
      BY <2>2, <2>4 DEF Places, EveryBufferHasOnePlace
    <3>2. Elements(posted') \cap Elements(released') = {}
      BY <2>2, <2>4 DEF Places, EveryBufferHasOnePlace
    <3>3. \A l \in Lent' : l.index \notin Elements(posted') \cup Elements(released')
      BY <2>1, <2>2, <2>3, <2>4, <2>6 DEF Places, EveryBufferHasOnePlace
    <3>4. \A l, m \in Lent' : m.index = l.index => m = l
      BY <2>3, <2>5, <2>6 DEF Places, EveryBufferHasOnePlace
    <3>5. Elements(posted') \cup Elements(released') \cup {l.index : l \in Lent'} = Index
      BY <2>1, <2>2, <2>4, <2>7 DEF Places, EveryBufferHasOnePlace
    <3> QED
      BY <3>1, <3>2, <3>3, <3>4, <3>5 DEF EveryBufferHasOnePlace
  <2>9. \A l \in leases' : l.session <= session'
    BY <2>2, <2>6 DEF Places, TypeOK
  <2> QED
    BY <2>8, <2>9 DEF Places
<1>16. CASE Release
  <2>1. PICK l \in leases :
          /\ leases' = leases \ {l}
          /\ released' = IF Returns(l) THEN Append(released, l.index) ELSE released
          /\ UNCHANGED <<thread, device, posted, repost>>
    BY <1>16 DEF Release
  <2>2. l.index \in Index /\ UNCHANGED <<session, held, waiter>>
    BY <2>1 DEF TypeOK, Lease, device, thread
  <2>3. CASE Returns(l)
    <3>1. l \in Lent /\ held /\ Lent' = Lent \ {l}
      BY <2>1, <2>2, <2>3 DEF Returns, Lent, Protocol
    <3>2. l.index \notin Elements(released)
      BY <3>1 DEF Places, EveryBufferHasOnePlace
    <3>3. Distinct(released') /\ Elements(released') = Elements(released) \cup {l.index}
      BY <2>1, <2>2, <2>3, <3>2, AppendOf DEF TypeOK, Places, EveryBufferHasOnePlace
    <3>4. {m.index : m \in Lent} = {m.index : m \in Lent'} \cup {l.index}
      BY <3>1
    <3> QED
      BY <2>1, <2>2, <3>1, <3>3, <3>4 DEF Places, EveryBufferHasOnePlace
  <2>4. CASE ~Returns(l)
    <3>1. repost => Lent' = Lent
      BY <2>1, <2>2, <2>4 DEF Returns, Lent
    <3>2. Lent' \subseteq Lent /\ released' = released
      BY <2>1, <2>2, <2>4 DEF Lent
    <3> QED
      BY <2>1, <2>2, <3>1, <3>2 DEF Places, EveryBufferHasOnePlace
  <2> QED
    BY <2>3, <2>4
<1>17. CASE BoardFills \/ BoardOverflows
  BY <1>1, <1>17 DEF BoardFills, BoardOverflows, thread, device, pool
<1>18. CASE UNCHANGED vars
  BY <1>1, <1>18 DEF vars, thread, device, pool
<1> QED
  BY <1>3, <1>4, <1>5, <1>6, <1>7, <1>8, <1>9, <1>10, <1>11, <1>12, <1>13, <1>14, <1>15,
     <1>16, <1>17, <1>18 DEF Next, Controller, StopGoesOn, Waiter

\* Every step keeps the board's buffers apart from those that are lent.
LEMMA BoardedStep == DmaInv /\ [Next]_vars => Boarded'
<1> SUFFICES ASSUME DmaInv, [Next]_vars PROVE Boarded'
  OBVIOUS
<1>0. TypeOK' /\ Protocol' /\ Places'
  BY TypesStep, ProtocolStep, PlacesStep
<1> USE DEF DmaInv
<1>1. ASSUME prepared', IF InHand' THEN posted' # <<>> /\ board' = Tail(posted')
                                     ELSE board' = posted'
      PROVE  Boarded'
  <2>1. /\ held' /\ posted' \in Seq(Index) /\ Distinct(posted')
        /\ \A l \in Lent' : l.index \notin Elements(posted')
    BY <1>0, <1>1 DEF TypeOK, Protocol, Places, EveryBufferHasOnePlace
  <2>2. Distinct(board') /\ Elements(board') \subseteq Elements(posted')
    <3>1. CASE InHand'
      <4>1. posted' # <<>> /\ board' = Tail(posted')
        BY <1>1, <3>1
      <4> QED
        BY <2>1, <4>1, TailOf
    <3>2. CASE ~InHand'
      BY <1>1, <2>1, <3>2
    <3> QED
      BY <3>1, <3>2
  <2> QED
    BY <1>1, <2>1, <2>2 DEF Boarded
<1>2. ASSUME board' = board, Lent' \subseteq Lent,
             prepared' => prepared /\ posted' = posted /\ (InHand' <=> InHand)
      PROVE  Boarded'
  BY <1>2 DEF Boarded
<1>3. ASSUME board' = <<>>, ~prepared' PROVE Boarded'
  BY <1>3, EmptyOf DEF Boarded
<1>4. CASE Start
  BY <1>1, <1>4 DEF Start, InHand
<1>5. CASE StartFails
  BY <1>3, <1>5 DEF StartFails
<1>6. CASE Stop \/ Disconnect
  BY <1>2, <1>6 DEF Stop, Disconnect, device, pool, card, InHand, Lent
<1>7. CASE AbortAsyncRead
  BY <1>2, <1>3, <1>7 DEF AbortAsyncRead, Lent
<1>8. CASE AbortReturns
  BY <1>2, <1>8 DEF AbortReturns, pool, card, InHand, Lent
<1>9. CASE StopReturns
  BY <1>2, <1>9 DEF StopReturns, card, Protocol, Lent
<1>10. CASE Leave \/ LeaseTimeout
  BY <1>2, <1>10 DEF Leave, LeaseTimeout, device, pool, card, InHand, Lent
<1>11. CASE WaitStopped \/ WaitFinished
  BY <1>2, <1>11 DEF WaitStopped, WaitFinished, Stopped, Calls, pool, card, InHand, Lent
<1>12. CASE WaitBegins
  <2>1. prepared /\ ~InHand /\ prepared' /\ ~InHand'
    BY <1>12 DEF WaitBegins, Calls, Protocol, InHand, device
  <2>2. board' = posted'
    BY <1>12, <2>1 DEF WaitBegins, Boarded
  <2> QED
    BY <1>1, <2>1, <2>2
<1>13. CASE RepostFails
  <2>1. prepared /\ ~InHand /\ prepared' /\ ~InHand'
    BY <1>13 DEF RepostFails, Calls, Protocol, InHand, device
  <2>2. board' = posted'
    BY <1>13, <2>1 DEF RepostFails, Boarded
  <2> QED
    BY <1>1, <2>1, <2>2
<1>14. CASE ApiReturns
  <2>1. UNCHANGED <<posted, prepared, leases, session>> /\ ~InHand /\ Lent' = Lent
    BY <1>14 DEF ApiReturns, device, pool, InHand, Lent
  <2>2. CASE filled > 0 /\ result' = "ready" /\ board' = Tail(board)
    <3>1. board # <<>>
      BY <2>2, EmptyOf DEF TypeOK
    <3>2. InHand'
      BY <1>14, <2>2 DEF ApiReturns, InHand
    <3>3. CASE prepared
      BY <1>1, <2>1, <2>2, <3>1, <3>2, <3>3 DEF Boarded
    <3>4. CASE ~prepared
      BY <2>1, <2>2, <3>1, <3>4, TailOf DEF Boarded, TypeOK
    <3> QED
      BY <3>3, <3>4
  <2>3. CASE result' # "ready" /\ board' = board
    BY <1>2, <2>1, <2>3 DEF InHand
  <2> QED
    BY <1>14, <2>2, <2>3 DEF ApiReturns
<1>15. CASE WaitEnds
  BY <1>2, <1>15 DEF WaitEnds, pool, card, InHand, Lent
<1>16. CASE BatchReady
  BY <1>1, <1>16 DEF BatchReady, device, card, InHand, Boarded
<1>17. CASE Release
  <2>1. leases' \subseteq leases /\ UNCHANGED <<thread, device, posted, card>>
    BY <1>17 DEF Release
  <2> QED
    BY <1>2, <2>1 DEF thread, device, card, InHand, Lent
<1>18. CASE BoardFills \/ BoardOverflows
  BY <1>2, <1>18 DEF BoardFills, BoardOverflows, thread, device, pool, InHand, Lent
<1>19. CASE UNCHANGED vars
  BY <1>2, <1>19 DEF vars, thread, device, pool, card, InHand, Lent
<1> QED
  BY <1>4, <1>5, <1>6, <1>7, <1>8, <1>9, <1>10, <1>11, <1>12, <1>13, <1>14, <1>15,
     <1>16, <1>17, <1>18, <1>19 DEF Next, Controller, StopGoesOn, Waiter

\* Every step keeps the lines in order, and those that are lent as they are.
LEMMA InLineStep == DmaInv /\ [Next]_vars => InLine'
<1> SUFFICES ASSUME DmaInv, [Next]_vars PROVE InLine'
  OBVIOUS
<1> USE DEF DmaInv
<1>1. ASSUME UNCHANGED data, Lent' \subseteq Lent,
             prepared' => /\ prepared /\ (InHand' <=> InHand)
                          /\ UNCHANGED <<posted, board, filled, lines, received>>
      PROVE  InLine'
  BY <1>1 DEF InLine, ConsumerReadsItsLine, Hand
<1>2. ASSUME UNCHANGED <<data, filled, lines, received, leases, session>>,
             prepared, ~InHand, ~InHand', NEW t \in Seq(Index), board' = board \o t
      PROVE  InLine'
  <2>1. \A i \in 1..filled : board'[i] = board[i]
    BY <1>2, JoinOf DEF TypeOK
  <2> QED
    BY <1>2, <2>1 DEF InLine, ConsumerReadsItsLine, Hand, Lent
<1>3. CASE Start
  <2>1. Lent' = {}
    BY <1>3 DEF Start, Lent, Places, TypeOK, Lease
  <2> QED
    BY <1>3, <2>1 DEF Start, InLine, ConsumerReadsItsLine, Hand, InHand
<1>4. CASE StartFails
  <2>1. Lent' = {}
    BY <1>4 DEF StartFails, Lent, Places, TypeOK, Lease
  <2> QED
    BY <1>1, <1>4, <2>1 DEF StartFails
<1>5. CASE Stop \/ Disconnect
  BY <1>1, <1>5 DEF Stop, Disconnect, device, pool, card, InHand, Lent
<1>6. CASE AbortAsyncRead
  BY <1>1, <1>6 DEF AbortAsyncRead, Lent
<1>7. CASE AbortReturns
  BY <1>1, <1>7 DEF AbortReturns, pool, card, InHand, Lent
<1>8. CASE StopReturns
  BY <1>1, <1>8 DEF StopReturns, card, Protocol, Lent
<1>9. CASE Leave \/ LeaseTimeout
  BY <1>1, <1>9 DEF Leave, LeaseTimeout, device, pool, card, InHand, Lent
<1>10. CASE WaitStopped \/ WaitFinished
  BY <1>1, <1>10 DEF WaitStopped, WaitFinished, Stopped, Calls, pool, card, InHand, Lent
<1>11. CASE WaitBegins
  <2>1. prepared /\ ~InHand /\ ~InHand'
    BY <1>11 DEF WaitBegins, Calls, Protocol, InHand, device
  <2>2. board' = board \o released /\ UNCHANGED <<data, filled, lines, received, leases, session>>
    BY <1>11 DEF WaitBegins, Reposts, device
  <2> QED
    BY <1>2, <2>1, <2>2 DEF TypeOK
<1>12. CASE RepostFails
  <2>1. prepared /\ ~InHand /\ ~InHand'
    BY <1>12 DEF RepostFails, Calls, Protocol, InHand, device
  <2>2. PICK n \in 0..Len(released) - 1 : board' = board \o SubSeq(released, 1, n)
    BY <1>12 DEF RepostFails
  <2>3. SubSeq(released, 1, n) \in Seq(Index)
    BY PrefixOf DEF TypeOK
  <2>4. UNCHANGED <<data, filled, lines, received, leases, session>>
    BY <1>12 DEF RepostFails, device
  <2> QED
    BY <1>2, <2>1, <2>2, <2>3, <2>4
<1>13. CASE ApiReturns
  <2>1. UNCHANGED <<posted, prepared, received, lines, data>> /\ ~InHand /\ Lent' = Lent
    BY <1>13 DEF ApiReturns, device, pool, InHand, Lent
  <2>2. CASE filled > 0 /\ result' = "ready" /\ board' = Tail(board) /\ filled' = filled - 1
    <3>1. board # <<>>
      BY <2>2, EmptyOf DEF TypeOK
    <3>2. InHand'
      BY <1>13, <2>2 DEF ApiReturns, InHand
    <3>3. ASSUME prepared
          PROVE  /\ lines = received + 1 + (filled - 1)
                 /\ \A i \in 1..filled - 1 : data[Tail(board)[i]] = received + 1 + i
                 /\ data[Head(posted)] = received + 1
      <4>1. /\ board = posted /\ lines = received + 0 + filled
            /\ \A i \in 1..filled : data[board[i]] = received + 0 + i
        BY <2>1, <3>3 DEF Boarded, InLine, Hand
      <4>2. /\ Head(board) = board[1] /\ filled \in Nat /\ received \in Nat
            /\ \A i \in 1..filled - 1 : Tail(board)[i] = board[i + 1]
        BY <3>1, TailOf DEF TypeOK
      <4>3. ASSUME NEW i \in 1..filled - 1 PROVE data[Tail(board)[i]] = received + 1 + i
        <5>1. i + 1 \in 1..filled
          BY <4>2
        <5>2. data[board[i + 1]] = received + 0 + (i + 1)
          BY <4>1, <5>1
        <5>3. Tail(board)[i] = board[i + 1]
          BY <4>2, Zenon
        <5>4. received + 0 + (i + 1) = received + 1 + i
          BY <4>2
        <5> QED
          BY <5>2, <5>3, <5>4
      <4>4. data[board[1]] = received + 1
        BY <2>2, <4>1, <4>2
      <4>5. lines = received + 1 + (filled - 1)
        BY <4>1, <4>2
      <4>6. Head(posted) = board[1]
        BY <4>1, <4>2
      <4> QED
        BY <4>3, <4>4, <4>5, <4>6
    <3> QED
      BY <2>1, <2>2, <3>2, <3>3 DEF InLine, ConsumerReadsItsLine, Hand
  <2>3. CASE result' # "ready" /\ UNCHANGED <<board, filled>>
    BY <1>1, <2>1, <2>3 DEF InHand
  <2> QED
    BY <1>13, <2>2, <2>3 DEF ApiReturns
<1>14. CASE WaitEnds
  BY <1>1, <1>14 DEF WaitEnds, pool, card, InHand, Lent
<1>15. CASE BatchReady
  <2> DEFINE new == [session |-> session, index |-> Head(posted), line |-> received + 1]
  <2>1. prepared /\ InHand /\ ~InHand' /\ received \in Nat
    BY <1>15 DEF BatchReady, InHand, TypeOK
  <2>2. /\ leases' = leases \cup {new} /\ received' = received + 1
        /\ UNCHANGED <<session, board, filled, lines, data, prepared>>
    BY <1>15 DEF BatchReady, device, card
  <2>3. new.index = Head(posted) /\ new.line = received + 1
    OBVIOUS
  <2> HIDE DEF new
  <2>4. Lent' \subseteq Lent \cup {new}
    BY <2>2 DEF Lent
  <2>5. /\ data[Head(posted)] = received + 1 /\ lines = received + 1 + filled
        /\ \A i \in 1..filled : data[board[i]] = received + 1 + i
    BY <2>1 DEF InLine, Hand
  <2>6. lines = received' + 0 + filled /\ \A i \in 1..filled : data[board[i]] = received' + 0 + i
    BY <2>1, <2>2, <2>5 DEF TypeOK
  <2> QED
    BY <2>1, <2>2, <2>3, <2>4, <2>5, <2>6 DEF InLine, ConsumerReadsItsLine, Hand
<1>16. CASE Release
  <2>1. leases' \subseteq leases /\ UNCHANGED <<thread, device, posted, received, card>>
    BY <1>16 DEF Release
  <2> QED
    BY <1>1, <2>1 DEF thread, device, card, InHand, Lent
<1>17. CASE BoardFills
  <2>1. /\ filled + 1 \in 1..Len(board) /\ filled \in Nat /\ lines \in Nat
        /\ board[filled + 1] \in Index /\ board \in Seq(Index)
    BY <1>17 DEF BoardFills, TypeOK
  <2>2. /\ data' = [data EXCEPT ![board[filled + 1]] = lines + 1]
        /\ filled' = filled + 1 /\ lines' = lines + 1
        /\ UNCHANGED <<posted, board, received, prepared, InHand>> /\ Lent' = Lent
    BY <1>17 DEF BoardFills, thread, device, pool, InHand, Lent
  <2>3. data'[board[filled + 1]] = lines + 1
    BY <2>1, <2>2 DEF TypeOK
  <2>4. \A b \in Index : b # board[filled + 1] => data'[b] = data[b]
    BY <2>2 DEF TypeOK
  <2>5. board[filled + 1] \in Elements(board)
    BY <2>1 DEF Elements
  <2>6. ConsumerReadsItsLine'
    <3>1. ASSUME NEW l \in Lent PROVE l.index \in Index /\ l.index # board[filled + 1]
      BY <2>5 DEF Boarded, Lent, TypeOK, Lease
    <3> QED
      BY <2>2, <2>4, <3>1 DEF InLine, ConsumerReadsItsLine
  <2>7. ASSUME prepared, NEW i \in 1..filled + 1 PROVE data'[board[i]] = received + Hand + i
    <3>1. lines = received + Hand + filled /\ received \in Nat /\ Hand \in Nat
      BY <2>7 DEF InLine, Hand, TypeOK
    <3>2. CASE i = filled + 1
      BY <2>1, <2>3, <3>1, <3>2
    <3>3. CASE i \in 1..filled
      <4>1. i \in 1..Len(board) /\ board[i] \in Index /\ i # filled + 1
        BY <2>1, <3>3
      <4>2. board[i] # board[filled + 1]
        BY <2>1, <4>1 DEF Boarded, Distinct
      <4> QED
        BY <2>4, <2>7, <3>3, <4>1, <4>2 DEF InLine
    <3> QED
      BY <2>1, <3>2, <3>3
  <2>8. ASSUME prepared, InHand PROVE data'[Head(posted)] = received + 1
    <3>1. Head(posted) \in Index /\ Head(posted) \notin Elements(board)
      BY <2>8, TailOf DEF Boarded, Places, EveryBufferHasOnePlace, TypeOK
    <3> QED
      BY <2>4, <2>5, <2>8, <3>1 DEF InLine
  <2>9. prepared => lines + 1 = received + Hand + (filled + 1)
    BY <2>1 DEF InLine, Hand, TypeOK
  <2>10. Hand' = Hand
    BY <2>2 DEF Hand
  <2> QED
    BY <2>2, <2>6, <2>7, <2>8, <2>9, <2>10 DEF InLine
<1>18. CASE BoardOverflows
  BY <1>1, <1>18 DEF BoardOverflows, thread, device, pool, InHand, Lent
<1>19. CASE UNCHANGED vars
  BY <1>1, <1>19 DEF vars, thread, device, pool, card, InHand, Lent
<1> QED
  BY <1>3, <1>4, <1>5, <1>6, <1>7, <1>8, <1>9, <1>10, <1>11, <1>12, <1>13, <1>14, <1>15,
     <1>16, <1>17, <1>18, <1>19 DEF Next, Controller, StopGoesOn, Waiter
-----------------------------------------------------------------------------
(* The theorems.                                                           *)

\* The inductive invariant holds in every state.
THEOREM DmaInvariant == Spec => []DmaInv
<1>1. DmaInv /\ [Next]_vars => DmaInv'
  BY TypesStep, ProtocolStep, PlacesStep, BoardedStep, InLineStep DEF DmaInv
<1> QED
  BY <1>1, InitInv, PTL DEF Spec

\* Every variable keeps its type, the indices and the lines theirs.
THEOREM DmaTypes == Spec => []TypeOK
<1>1. DmaInv => TypeOK
  BY DEF DmaInv
<1> QED
  BY <1>1, DmaInvariant, PTL

\* A buffer is with the board, in one batch, or waiting to be posted again, and
\* none is lost while the acquisition goes on (waitForBatch, ~AlazarDmaLease).
THEOREM BuffersHaveOnePlace == Spec => []EveryBufferHasOnePlace
<1>1. DmaInv => EveryBufferHasOnePlace
  BY DEF DmaInv, Places
<1> QED
  BY <1>1, DmaInvariant, PTL

\* The line a batch was delivered with stays in its buffer while it is lent.
THEOREM LinesStay == Spec => []ConsumerReadsItsLine
<1>1. DmaInv => ConsumerReadsItsLine
  BY DEF DmaInv, InLine
<1> QED
  BY <1>1, DmaInvariant, PTL

\* Nothing the driver, the sleeping waiter or a running board uses is released.
THEOREM NothingInUseReleased == Spec => []InUseStaysAllocated
<1>1. DmaInv => InUseStaysAllocated
  BY DEF DmaInv, Protocol, InUseStaysAllocated
<1> QED
  BY <1>1, DmaInvariant, PTL
=============================================================================
