-------------------------- MODULE FtmSession_proofs --------------------------
(* Proofs about FtmSession, for every set of peers and strangers, every      *)
(* channel capacity and every number of frames.                              *)
EXTENDS FtmSession, SequenceTheorems, TLAPS

USE NoneIsNoStation, BurstCountsAreCounts, CsiChannelHolds, FramesBounded

-----------------------------------------------------------------------------
(* A channel stays within its capacity, whoever sends (csi.rs:39, 213). *)
LEMMA TrySendTyped ==
  ASSUME NEW S, NEW c \in Seq(S), Len(c) <= CsiChannelCap, NEW f \in S
  PROVE  TrySend(c, f) \in Seq(S) /\ Len(TrySend(c, f)) <= CsiChannelCap
  BY DEF TrySend

Bounded(state) == state \in CsiStates /\ Len(state.buffer) <= state.capacity

(* Starting, ending and filling the buffer of an exchange keep it within     *)
(* its capacity (csi.rs:72-92, 233-236).                                     *)
LEMMA ResetBounded ==
  ASSUME NEW p \in Peers, NEW n \in Nat
  PROVE  Bounded(ResetFtmCsiBuf(p, n)) /\ ResetFtmCsiBuf(p, n).buffer = <<>>
  BY DEF ResetFtmCsiBuf, Bounded, CsiStates

LEMMA DumpBounded ==
  ASSUME NEW state \in CsiStates
  PROVE  Bounded(DumpCsiBuf(state)) /\ DumpCsiBuf(state).buffer = <<>>
<1>1. Len(<<>>) <= state.capacity
  BY DEF CsiStates
<1>. QED BY <1>1 DEF DumpCsiBuf, Bounded, CsiStates

(* The frames of a sequence of frames are frames. *)
LEMMA InSeqTyped ==
  ASSUME NEW S, NEW s \in Seq(S)
  PROVE  InSeq(s) \in SUBSET S
  BY DEF InSeq

LEMMA BufferedBounded ==
  ASSUME NEW state, Bounded(state), NEW f \in Frames, HasRoom(state)
  PROVE  Bounded(Buffered(state, f))
  BY SMTT(60) DEF Bounded, Buffered, HasRoom, CsiStates

(* How appending and removing the head change the frames of a sequence. *)
LEMMA InSeqAppend ==
  ASSUME NEW S, NEW s \in Seq(S), NEW f \in S
  PROVE  InSeq(Append(s, f)) = InSeq(s) \cup {f}
<1>1. DOMAIN Append(s, f) = DOMAIN s \cup {Len(s) + 1}
  OBVIOUS
<1>2. \A i \in DOMAIN s : Append(s, f)[i] = s[i]
  OBVIOUS
<1>3. Append(s, f)[Len(s) + 1] = f
  OBVIOUS
<1>. QED BY <1>1, <1>2, <1>3, ZenonT(60) DEF InSeq

LEMMA InSeqTail ==
  ASSUME NEW S, NEW s \in Seq(S), s # <<>>
  PROVE  InSeq(s) = InSeq(Tail(s)) \cup {Head(s)}
<1>1. \A i \in DOMAIN Tail(s) : i + 1 \in DOMAIN s /\ Tail(s)[i] = s[i + 1]
  OBVIOUS
<1>2. \A i \in DOMAIN s : i = 1 \/ \E j \in DOMAIN Tail(s) : s[i] = Tail(s)[j]
  <2>1. \A i \in DOMAIN s :
          i = 1 \/ (i - 1 \in DOMAIN Tail(s) /\ s[i] = Tail(s)[i - 1])
    OBVIOUS
  <2>. QED BY <2>1
<1>3. 1 \in DOMAIN s /\ s[1] = Head(s)
  OBVIOUS
<1>4. InSeq(Tail(s)) \subseteq InSeq(s)
  BY <1>1, Zenon DEF InSeq
<1>5. \A f \in InSeq(s) : f = Head(s) \/ f \in InSeq(Tail(s))
  <2>1. SUFFICES ASSUME NEW i \in DOMAIN s, s[i] # Head(s)
                 PROVE  s[i] \in InSeq(Tail(s))
    BY DEF InSeq
  <2>2. PICK j \in DOMAIN Tail(s) : s[i] = Tail(s)[j]
    BY <1>2, <1>3, <2>1
  <2>. QED BY <2>2 DEF InSeq
<1>6. Head(s) \in InSeq(s)
  BY <1>3, Zenon DEF InSeq
<1>. QED BY <1>4, <1>5, <1>6

(* The type invariant is inductive, each step disturbing few of its parts. *)
THEOREM TypeCorrect == Safety => []TypeOK
<1>1. Init => TypeOK
  <2>1. InitFtmCsi \in CsiStates /\ Len(InitFtmCsi.buffer) <= InitFtmCsi.capacity
    BY DEF InitFtmCsi, CsiStates
  <2>2. <<>> \in Seq(Frames) /\ Len(<<>>) <= CsiChannelCap
    OBVIOUS
  <2>3. Init => radioDone \in BOOLEAN
    BY DEF Init
  <2>. QED BY <2>1, <2>2, <2>3 DEF Init, TypeOK, Outcomes
<1>2. ASSUME TypeOK, [Next]_vars PROVE TypeOK'
  <2> USE <1>2 DEF TypeOK, Outcomes
  <2>1. ASSUME NEW p \in Peers, NEW n \in BurstCounts, InitiateFtm(p, n)
        PROVE  TypeOK'
    <3>1. 2 * n \in Nat
      OBVIOUS
    <3>2. Bounded(ftmCsi')
      BY <2>1, <3>1, ResetBounded DEF InitiateFtm
    <3>. QED BY <2>1, <3>2 DEF InitiateFtm, Bounded
  <2>2. ASSUME NEW p \in Peers, NEW n \in BurstCounts, InitiateRefused(p, n)
        PROVE  TypeOK'
    <3>1. 2 * n \in Nat
      OBVIOUS
    <3>2. Bounded(ftmCsi')
      BY <2>2, <3>1, ResetBounded, DumpBounded DEF InitiateRefused, Bounded
    <3>. QED BY <2>2, <3>2 DEF InitiateRefused, Bounded, radioVars
  <2>3. CASE ResumeNoMetadata
    BY <2>3 DEF ResumeNoMetadata, Resume, TakeMetadata
  <2>4. CASE ResumeNoReport
    BY <2>4 DEF ResumeNoReport, Resume, TakeMetadata
  <2>5. CASE ResumeReport
    <3>1. InSeq(ftmCsi.buffer) \in SUBSET Frames
      BY InSeqTyped DEF CsiStates
    <3>2. report' \in Records
      BY <2>5 DEF ResumeReport, Resume, Records, CsiStates
    <3>. QED BY <2>5, <3>1, <3>2, DumpBounded DEF ResumeReport, Resume, TakeMetadata, Bounded
  <2>6. CASE StoreReport
    BY <2>6 DEF StoreReport, taskVars, csiVars
  <2>7. CASE SignalReport
    BY <2>7 DEF SignalReport, taskVars, csiVars
  <2>8. CASE SignalNullReport
    BY <2>8 DEF SignalNullReport, taskVars, csiVars
  <2>9. ASSUME NEW m \in Senders, CsiRxCallback(m) PROVE TypeOK'
    <3>1. [mac |-> m, stamp |-> rxCount + 1] \in Frames
      BY <2>9 DEF CsiRxCallback, Frames
    <3>. QED BY <2>9, <3>1, TrySendTyped DEF CsiRxCallback, radioVars, taskVars
  <2>10. CASE CsiProcessing
    <3>1. ASSUME CsiReceive
          PROVE  /\ Head(csiChannel) \in Frames
                 /\ csiChannel' \in Seq(Frames) /\ Len(csiChannel') <= CsiChannelCap
                 /\ UNCHANGED <<rxCount, published, radioVars, taskVars>>
      BY <3>1 DEF CsiReceive
    <3>2. CASE CsiBuffer
      BY <3>1, <3>2, BufferedBounded DEF CsiBuffer, Bounded, radioVars, taskVars
    <3>3. CASE CsiDropFull
      BY <3>1, <3>3 DEF CsiDropFull, radioVars, taskVars
    <3>4. CASE CsiStream
      BY <3>1, <3>4 DEF CsiStream, radioVars, taskVars
    <3>5. CASE CsiSkipEmpty
      BY <3>1, <3>5 DEF CsiSkipEmpty, radioVars, taskVars
    <3>. QED BY <2>10, <3>2, <3>3, <3>4, <3>5 DEF CsiProcessing
  <2>11. CASE UNCHANGED vars
    BY <2>11 DEF vars, radioVars, taskVars, csiVars
  <2>. QED BY <2>1, <2>2, <2>3, <2>4, <2>5, <2>6, <2>7, <2>8, <2>9, <2>10, <2>11
         DEF Next, ContactResumes, RadioReports
<1>. QED BY <1>1, <1>2, PTL DEF Safety

-----------------------------------------------------------------------------
(* No event is left over: a signal, stored metadata or a half-done handler   *)
(* belongs to the exchange being waited for (ftm.rs:72-98, 118-124).         *)
THEOREM ReportsMatch == Safety => []ReportMatchesSession
<1>1. Init => ReportMatchesSession
  BY DEF Init, ReportMatchesSession
<1>2. ASSUME TypeOK, ReportMatchesSession, [Next]_vars
      PROVE  ReportMatchesSession'
  <2> USE <1>2 DEF ReportMatchesSession
  <2>1. ASSUME NEW p \in Peers, NEW n \in BurstCounts, InitiateFtm(p, n)
        PROVE  ReportMatchesSession'
    BY <2>1 DEF InitiateFtm, ResetFtmCsiBuf, TypeOK
  <2>2. ASSUME NEW p \in Peers, NEW n \in BurstCounts, InitiateRefused(p, n)
        PROVE  ReportMatchesSession'
    BY <2>2 DEF InitiateRefused, radioVars
  <2>3. CASE ContactResumes
    BY <2>3 DEF ContactResumes, ResumeNoMetadata, ResumeNoReport, ResumeReport,
                Resume, TakeMetadata
  <2>4. CASE StoreReport
    BY <2>4 DEF StoreReport, taskVars, csiVars
  <2>5. CASE SignalReport
    BY <2>5 DEF SignalReport, taskVars, csiVars
  <2>6. CASE SignalNullReport
    BY <2>6 DEF SignalNullReport, taskVars, csiVars
  <2>7. ASSUME NEW m \in Senders, CsiRxCallback(m) PROVE ReportMatchesSession'
    BY <2>7 DEF CsiRxCallback, radioVars, taskVars
  <2>8. CASE CsiProcessing
    BY <2>8 DEF CsiProcessing, CsiBuffer, CsiDropFull, CsiStream, CsiSkipEmpty, CsiReceive,
                Buffered, radioVars, taskVars, TypeOK, CsiStates
  <2>9. CASE UNCHANGED vars
    BY <2>9 DEF vars, radioVars, taskVars, csiVars
  <2>. QED BY <2>1, <2>2, <2>3, <2>4, <2>5, <2>6, <2>7, <2>8, <2>9
         DEF Next, RadioReports
<1>. QED BY <1>1, <1>2, TypeCorrect, PTL DEF Safety

(* No wakeup is lost: an accepted session hands the duty to wake the task to *)
(* the handler, and the handler to the signal, which nobody but the task     *)
(* takes (ftm.rs:79-98, 122).                                                *)
THEOREM WakeupsKept == Safety => []WakeupComing
<1>1. Init => WakeupComing
  BY DEF Init, WakeupComing
<1>2. ASSUME TypeOK, WakeupComing, [Next]_vars
      PROVE  WakeupComing'
  <2> USE <1>2 DEF WakeupComing
  <2>1. ASSUME NEW p \in Peers, NEW n \in BurstCounts, InitiateFtm(p, n)
        PROVE  WakeupComing'
    BY <2>1 DEF InitiateFtm
  <2>2. ASSUME NEW p \in Peers, NEW n \in BurstCounts, InitiateRefused(p, n)
        PROVE  WakeupComing'
    BY <2>2 DEF InitiateRefused, radioVars
  <2>3. CASE ContactResumes
    BY <2>3 DEF ContactResumes, ResumeNoMetadata, ResumeNoReport, ResumeReport, Resume
  <2>4. CASE StoreReport
    BY <2>4 DEF StoreReport
  <2>5. CASE SignalReport
    BY <2>5 DEF SignalReport
  <2>6. CASE SignalNullReport
    BY <2>6 DEF SignalNullReport
  <2>7. ASSUME NEW m \in Senders, CsiRxCallback(m) PROVE WakeupComing'
    BY <2>7 DEF CsiRxCallback, radioVars, taskVars
  <2>8. CASE CsiProcessing
    BY <2>8 DEF CsiProcessing, CsiBuffer, CsiDropFull, CsiStream, CsiSkipEmpty, CsiReceive,
                radioVars, taskVars
  <2>9. CASE UNCHANGED vars
    BY <2>9 DEF vars, radioVars, taskVars
  <2>. QED BY <2>1, <2>2, <2>3, <2>4, <2>5, <2>6, <2>7, <2>8, <2>9
         DEF Next, RadioReports
<1>. QED BY <1>1, <1>2, TypeCorrect, PTL DEF Safety

-----------------------------------------------------------------------------
(* What is left to do decreases: the duty to wake the task goes from driver  *)
(* to handler to signal to task and never back, and a frame leaves the       *)
(* channel for good.  That each is passed on at all is the liveness TLC      *)
(* checks.                                                                   *)
LEMMA DutyPassedOn ==
  ASSUME ReportMatchesSession,
         RadioReports \/ SignalReport \/ ContactResumes
  PROVE  Duty' < Duty /\ UNCHANGED csiChannel
<1> USE DEF ReportMatchesSession, Duty
<1>1. CASE StoreReport
  BY <1>1 DEF StoreReport, csiVars
<1>2. CASE SignalNullReport
  BY <1>2 DEF SignalNullReport, csiVars
<1>3. CASE SignalReport
  BY <1>3 DEF SignalReport, csiVars
<1>4. CASE ContactResumes
  BY <1>4 DEF ContactResumes, ResumeNoMetadata, ResumeNoReport, ResumeReport, Resume
<1>. QED BY <1>1, <1>2, <1>3, <1>4 DEF RadioReports

THEOREM WorkDecreases == Safety => WorkRunsOut
<1>1. ASSUME TypeOK, ReportMatchesSession, [Next]_vars
      PROVE  [Brings \/ (Len(csiChannel) + Duty)' < Len(csiChannel) + Duty]_vars
  <2>1. Len(csiChannel) \in Nat /\ Duty \in Nat /\ Duty' \in Nat
    BY <1>1 DEF TypeOK, Duty
  <2>2. CASE RadioReports \/ SignalReport \/ ContactResumes
    BY <1>1, <2>1, <2>2, DutyPassedOn
  <2>3. CASE CsiProcessing
    <3>1. csiChannel # <<>> /\ csiChannel' = Tail(csiChannel) /\ UNCHANGED radioVars
      BY <2>3 DEF CsiProcessing, CsiBuffer, CsiDropFull, CsiStream, CsiSkipEmpty, CsiReceive
    <3>2. Len(csiChannel') < Len(csiChannel) /\ Len(csiChannel') \in Nat
      BY <1>1, <3>1 DEF TypeOK
    <3>3. Duty' = Duty
      BY <3>1 DEF Duty, radioVars
    <3>. QED BY <2>1, <3>2, <3>3
  <2>4. CASE UNCHANGED vars
    BY <2>4
  <2>. QED BY <1>1, <2>2, <2>3, <2>4 DEF Next, Brings
<1>. QED BY <1>1, TypeCorrect, ReportsMatch, PTL DEF Safety, WorkRunsOut

-----------------------------------------------------------------------------
(* A step leaves FTM_CSI_STATE alone, empties its buffer, or buffers a frame. *)
LEMMA BufferSteps ==
  ASSUME TypeOK, [Next]_vars
  PROVE  \/ UNCHANGED ftmCsi
         \/ ftmCsi'.buffer = <<>>
         \/ CsiBuffer
<1>1. ASSUME NEW p \in Peers, NEW n \in BurstCounts, InitiateFtm(p, n)
      PROVE  ftmCsi'.buffer = <<>>
  BY <1>1 DEF InitiateFtm, ResetFtmCsiBuf
<1>2. ASSUME NEW p \in Peers, NEW n \in BurstCounts, InitiateRefused(p, n)
      PROVE  ftmCsi'.buffer = <<>>
  BY <1>2 DEF InitiateRefused, DumpCsiBuf
<1>3. CASE ContactResumes
  BY <1>3 DEF ContactResumes, ResumeNoMetadata, ResumeNoReport, ResumeReport, DumpCsiBuf
<1>4. CASE RadioReports \/ SignalReport
  BY <1>4 DEF RadioReports, StoreReport, SignalReport, SignalNullReport, csiVars
<1>5. ASSUME NEW m \in Senders, CsiRxCallback(m) PROVE UNCHANGED ftmCsi
  BY <1>5 DEF CsiRxCallback
<1>6. CASE CsiProcessing
  BY <1>6 DEF CsiProcessing, CsiDropFull, CsiStream, CsiSkipEmpty
<1>7. CASE UNCHANGED vars
  BY <1>7 DEF vars, csiVars
<1>. QED BY <1>1, <1>2, <1>3, <1>4, <1>5, <1>6, <1>7 DEF Next

(* The buffer of an exchange holds frames of its peer only (csi.rs:233-235). *)
THEOREM BufferCorrect == Safety => []BufferIsPeers
<1>1. Init => BufferIsPeers
  BY DEF Init, InitFtmCsi, BufferIsPeers, InSeq
<1>2. ASSUME TypeOK, BufferIsPeers, [Next]_vars
      PROVE  BufferIsPeers'
  <2>1. CASE UNCHANGED ftmCsi
    BY <1>2, <2>1 DEF BufferIsPeers, InSeq
  <2>2. CASE ftmCsi'.buffer = <<>>
    BY <2>2 DEF BufferIsPeers, InSeq
  <2>3. CASE CsiBuffer
    <3>1. PICK f \in Frames : f.mac = ftmCsi.mac /\ ftmCsi' = Buffered(ftmCsi, f)
      BY <1>2, <2>3 DEF CsiBuffer, CsiReceive, ForSession, TypeOK
    <3>2. ftmCsi'.mac = ftmCsi.mac /\ ftmCsi'.buffer = Append(ftmCsi.buffer, f)
      BY <1>2, <3>1 DEF Buffered, TypeOK, CsiStates
    <3>3. InSeq(ftmCsi'.buffer) = InSeq(ftmCsi.buffer) \cup {f}
      BY <1>2, <3>2, InSeqAppend DEF TypeOK, CsiStates
    <3>. QED BY <1>2, <3>1, <3>2, <3>3 DEF BufferIsPeers
  <2>. QED BY <1>2, <2>1, <2>2, <2>3, BufferSteps
<1>. QED BY <1>1, <1>2, TypeCorrect, PTL DEF Safety

-----------------------------------------------------------------------------
(* Order and disjointness together: frames are stamped in the order they are *)
(* received, so a frame that left the channel is older than every frame in   *)
(* it.  That is what makes the order and the disjointness inductive.         *)
Sorted(s) == \A i, j \in DOMAIN s : i < j => s[i].stamp < s[j].stamp

Kept == InSeq(ftmCsi.buffer)
Gone == streamed \cup published

OrderInv ==
  /\ Sorted(ftmCsi.buffer) /\ Sorted(csiChannel)
  /\ \A f \in Kept \cup Gone, g \in InSeq(csiChannel) : f.stamp < g.stamp
  /\ \A f \in Kept \cup Gone \cup InSeq(csiChannel) : f.stamp <= rxCount
  /\ Kept \cap Gone = {} /\ streamed \cap published = {}

LEMMA SortedAppend ==
  ASSUME NEW s \in Seq(Frames), NEW f \in Frames, Sorted(s),
         \A g \in InSeq(s) : g.stamp < f.stamp
  PROVE  Sorted(Append(s, f))
<1>1. \A i \in DOMAIN s : s[i].stamp < f.stamp
  BY DEF InSeq
<1>. QED BY <1>1 DEF Sorted, Frames

LEMMA SortedTail ==
  ASSUME NEW s \in Seq(Frames), Sorted(s), s # <<>>
  PROVE  /\ Sorted(Tail(s))
         /\ \A g \in InSeq(Tail(s)) : Head(s).stamp < g.stamp
<1>1. \A i \in DOMAIN Tail(s) : i + 1 \in DOMAIN s /\ Tail(s)[i] = s[i + 1] /\ 1 < i + 1
  OBVIOUS
<1>2. 1 \in DOMAIN s /\ s[1] = Head(s)
  OBVIOUS
<1>3. Sorted(Tail(s))
  BY <1>1 DEF Sorted
<1>4. \A i \in DOMAIN Tail(s) : Head(s).stamp < Tail(s)[i].stamp
  BY <1>1, <1>2 DEF Sorted
<1>. QED BY <1>3, <1>4 DEF InSeq

(* A frame the callback receives is newer than all before it; a full channel *)
(* loses it and changes nothing else (csi.rs:213).                           *)
LEMMA ReceivingKeepsOrder ==
  ASSUME TypeOK, OrderInv, NEW m \in Senders, CsiRxCallback(m)
  PROVE  OrderInv'
<1> DEFINE f == [mac |-> m, stamp |-> rxCount + 1]
<1>1. f \in Frames /\ f.stamp = rxCount + 1 /\ rxCount \in Nat
  BY DEF CsiRxCallback, Frames, TypeOK
<1>2. UNCHANGED <<ftmCsi, streamed, published>> /\ rxCount' = rxCount + 1
  BY DEF CsiRxCallback
<1>3. /\ Sorted(csiChannel')
      /\ InSeq(csiChannel') \subseteq InSeq(csiChannel) \cup {f}
  <2>1. CASE Len(csiChannel) < CsiChannelCap
    <3>1. csiChannel' = Append(csiChannel, f)
      BY <2>1 DEF CsiRxCallback, TrySend
    <3>2. \A g \in InSeq(csiChannel) : g \in Frames
      BY InSeqTyped DEF TypeOK
    <3>3. \A g \in InSeq(csiChannel) : g.stamp < f.stamp
      BY <1>1, <3>2 DEF OrderInv, Frames
    <3>. QED BY <1>1, <3>1, <3>3, SortedAppend, InSeqAppend DEF OrderInv, TypeOK
  <2>2. CASE ~(Len(csiChannel) < CsiChannelCap)
    BY <2>2 DEF CsiRxCallback, TrySend, OrderInv
  <2>. QED BY <2>1, <2>2
<1>4. \A g \in Kept \cup Gone \cup InSeq(csiChannel) : g \in Frames
  BY InSeqTyped DEF TypeOK, CsiStates, Kept, Gone
<1>5. \A g \in Kept \cup Gone \cup InSeq(csiChannel) : g.stamp < f.stamp
  BY <1>1, <1>4 DEF OrderInv, Frames
<1>6. Kept' = Kept /\ Gone' = Gone
  BY <1>2 DEF Kept, Gone
<1>7. \A g \in Kept' \cup Gone', h \in InSeq(csiChannel') : g.stamp < h.stamp
  BY <1>3, <1>5, <1>6 DEF OrderInv
<1>8. \A g \in Kept' \cup Gone' \cup InSeq(csiChannel') : g.stamp <= rxCount'
  BY <1>1, <1>2, <1>3, <1>4, <1>5, <1>6 DEF Frames
<1>. QED BY <1>2, <1>3, <1>6, <1>7, <1>8 DEF OrderInv

(* The processing task moves the oldest waiting frame, which is newer than   *)
(* whatever is buffered or printed, to one place (csi.rs:223-249).           *)
LEMMA ProcessingKeepsOrder ==
  ASSUME TypeOK, OrderInv, CsiProcessing
  PROVE  OrderInv'
<1> DEFINE f == Head(csiChannel)
<1>1. /\ csiChannel # <<>> /\ csiChannel' = Tail(csiChannel)
      /\ UNCHANGED <<rxCount, published>>
  BY DEF CsiProcessing, CsiBuffer, CsiDropFull, CsiStream, CsiSkipEmpty, CsiReceive
<1>2. /\ csiChannel \in Seq(Frames) /\ ftmCsi.buffer \in Seq(Frames)
      /\ f \in Frames
  BY <1>1 DEF TypeOK, CsiStates
<1>3. InSeq(csiChannel) = InSeq(csiChannel') \cup {f}
  BY <1>1, <1>2, InSeqTail
<1>4. Sorted(csiChannel') /\ \A g \in InSeq(csiChannel') : f.stamp < g.stamp
  BY <1>1, <1>2, SortedTail DEF OrderInv
<1>5. \A g \in Kept \cup Gone : g \in Frames /\ g.stamp < f.stamp
  BY <1>2, <1>3, InSeqTyped DEF OrderInv, TypeOK, Kept, Gone
<1>6. f \notin Kept \cup Gone
  BY <1>2, <1>5 DEF Frames
<1>7. CASE CsiBuffer
  <2>1. ftmCsi'.buffer = Append(ftmCsi.buffer, f) /\ UNCHANGED streamed
    BY <1>7 DEF CsiBuffer, Buffered, TypeOK, CsiStates
  <2>2. Sorted(ftmCsi'.buffer)
    BY <1>2, <1>5, <2>1, SortedAppend DEF OrderInv, Kept
  <2>3. Kept' = Kept \cup {f} /\ Gone' = Gone
    BY <1>1, <1>2, <2>1, InSeqAppend DEF Kept, Gone
  <2>. QED BY <1>1, <1>3, <1>4, <1>6, <2>1, <2>2, <2>3 DEF OrderInv
<1>8. CASE CsiDropFull \/ CsiSkipEmpty
  <2>1. UNCHANGED <<ftmCsi, streamed>>
    BY <1>8 DEF CsiDropFull, CsiSkipEmpty
  <2>2. Kept' = Kept /\ Gone' = Gone
    BY <1>1, <2>1 DEF Kept, Gone
  <2>. QED BY <1>1, <1>3, <1>4, <2>1, <2>2 DEF OrderInv
<1>9. CASE CsiStream
  <2>1. streamed' = streamed \cup {f} /\ UNCHANGED ftmCsi
    BY <1>9 DEF CsiStream
  <2>2. Kept' = Kept /\ Gone' = Gone \cup {f}
    BY <1>1, <2>1 DEF Kept, Gone
  <2>3. f \notin published
    BY <1>6 DEF Gone
  <2>. QED BY <1>1, <1>3, <1>4, <1>6, <2>1, <2>2, <2>3 DEF OrderInv
<1>. QED BY <1>7, <1>8, <1>9 DEF CsiProcessing

(* An exchange that ends or begins discards its buffer or prints it.         *)
LEMMA ContactKeepsOrder ==
  ASSUME TypeOK, OrderInv, ftmCsi'.buffer = <<>> \/ UNCHANGED ftmCsi,
         UNCHANGED <<csiChannel, rxCount, streamed>>,
         \/ UNCHANGED published
         \/ published' = published \cup Kept /\ ftmCsi'.buffer = <<>>
  PROVE  OrderInv'
<1>1. CASE UNCHANGED <<ftmCsi, published>>
  BY <1>1 DEF OrderInv, Kept, Gone
<1>2. CASE ftmCsi'.buffer = <<>>
  <2>1. Sorted(ftmCsi'.buffer) /\ Kept' = {}
    BY <1>2 DEF Sorted, Kept, InSeq
  <2>2. Gone' \subseteq Gone \cup Kept /\ streamed' \cap published' = {}
    BY DEF OrderInv, Gone
  <2>. QED BY <2>1, <2>2 DEF OrderInv
<1>. QED BY <1>1, <1>2

THEOREM OrderCorrect == Safety => []OrderInv
<1>1. Init => OrderInv
  BY DEF Init, InitFtmCsi, OrderInv, Sorted, Kept, Gone, InSeq
<1>2. ASSUME TypeOK, OrderInv, [Next]_vars
      PROVE  OrderInv'
  <2> USE <1>2
  <2>1. ASSUME NEW p \in Peers, NEW n \in BurstCounts,
               InitiateFtm(p, n) \/ InitiateRefused(p, n)
        PROVE  OrderInv'
    BY <2>1, ContactKeepsOrder
       DEF InitiateFtm, InitiateRefused, ResetFtmCsiBuf, DumpCsiBuf
  <2>2. CASE ContactResumes
    BY <2>2, ContactKeepsOrder
       DEF ContactResumes, ResumeNoMetadata, ResumeNoReport, ResumeReport, Resume,
           DumpCsiBuf, Kept
  <2>3. CASE RadioReports \/ SignalReport \/ UNCHANGED vars
    <3>1. UNCHANGED csiVars
      BY <2>3 DEF RadioReports, StoreReport, SignalReport, SignalNullReport, vars
    <3>. QED BY <3>1, ContactKeepsOrder DEF csiVars
  <2>4. ASSUME NEW m \in Senders, CsiRxCallback(m) PROVE OrderInv'
    BY <2>4, ReceivingKeepsOrder
  <2>5. CASE CsiProcessing
    BY <2>5, ProcessingKeepsOrder
  <2>. QED BY <2>1, <2>2, <2>3, <2>4, <2>5 DEF Next
<1>. QED BY <1>1, <1>2, TypeCorrect, PTL DEF Safety

(* No frame is ever printed twice (csi.rs:91, 223, 242-249). *)
THEOREM NeverTwice == Safety => []NoFrameTwice
<1>1. ASSUME TypeOK, OrderInv PROVE NoFrameTwice
  <2>1. \A f \in Kept \cup Gone, g \in InSeq(csiChannel) : f # g
    <3>1. \A g \in InSeq(csiChannel) : g \in Frames
      BY <1>1, InSeqTyped DEF TypeOK
    <3>2. \A g \in InSeq(csiChannel) : ~(g.stamp < g.stamp)
      BY <3>1 DEF Frames
    <3>. QED BY <1>1, <3>2 DEF OrderInv
  <2>. QED BY <1>1, <2>1 DEF NoFrameTwice, OrderInv, Kept, Gone
<1>. QED BY <1>1, TypeCorrect, OrderCorrect, PTL

(* The buffer followed by the channel is in the order of reception. *)
THEOREM InOrder == Safety => []ReceptionOrder
<1>1. ASSUME TypeOK, OrderInv PROVE ReceptionOrder
  <2> DEFINE b == ftmCsi.buffer
             pending == b \o csiChannel
  <2>1. b \in Seq(Frames) /\ csiChannel \in Seq(Frames)
    BY <1>1 DEF TypeOK, CsiStates
  <2>2. SUFFICES ASSUME NEW i \in DOMAIN pending, NEW j \in DOMAIN pending, i < j
                 PROVE  pending[i].stamp < pending[j].stamp
    BY DEF ReceptionOrder
  <2>3. CASE j <= Len(b)
    BY <1>1, <2>1, <2>2, <2>3 DEF OrderInv, Sorted
  <2>4. CASE i > Len(b)
    <3>1. /\ i - Len(b) \in DOMAIN csiChannel /\ pending[i] = csiChannel[i - Len(b)]
          /\ j - Len(b) \in DOMAIN csiChannel /\ pending[j] = csiChannel[j - Len(b)]
          /\ i - Len(b) < j - Len(b)
      BY <2>1, <2>2, <2>4, SMTT(60)
    <3>. QED BY <1>1, <3>1 DEF OrderInv, Sorted
  <2>5. CASE i <= Len(b) /\ j > Len(b)
    <3>1. /\ i \in DOMAIN b /\ pending[i] = b[i]
          /\ j - Len(b) \in DOMAIN csiChannel /\ pending[j] = csiChannel[j - Len(b)]
      BY <2>1, <2>2, <2>5
    <3>2. pending[i] \in Kept /\ pending[j] \in InSeq(csiChannel)
      BY <3>1 DEF Kept, InSeq
    <3>. QED BY <1>1, <3>2 DEF OrderInv
  <2>. QED BY <2>1, <2>2, <2>3, <2>4, <2>5
<1>. QED BY <1>1, TypeCorrect, OrderCorrect, PTL

-----------------------------------------------------------------------------
(* Buffering outlives an exchange only through the early returns (ftm.rs:142,*)
(* 146): every other end of an exchange dumps the buffer.                    *)
THEOREM SilenceExplained == Safety => []SilencedOnlyByFailure
<1>1. Init => SilencedOnlyByFailure
  BY DEF Init, InitFtmCsi, SilencedOnlyByFailure
<1>2. ASSUME TypeOK, SilencedOnlyByFailure, [Next]_vars
      PROVE  SilencedOnlyByFailure'
  <2> USE <1>2 DEF SilencedOnlyByFailure
  <2>1. ASSUME NEW p \in Peers, NEW n \in BurstCounts,
               InitiateFtm(p, n) \/ InitiateRefused(p, n)
        PROVE  SilencedOnlyByFailure'
    BY <2>1 DEF InitiateFtm, InitiateRefused, DumpCsiBuf
  <2>2. CASE ContactResumes
    BY <2>2 DEF ContactResumes, ResumeNoMetadata, ResumeNoReport, ResumeReport, DumpCsiBuf
  <2>3. CASE CsiProcessing
    <3>1. ftmCsi'.active = ftmCsi.active
      BY <2>3 DEF CsiProcessing, CsiBuffer, CsiDropFull, CsiStream, CsiSkipEmpty,
                  Buffered, TypeOK, CsiStates
    <3>2. UNCHANGED <<task, outcome>>
      BY <2>3 DEF CsiProcessing, CsiBuffer, CsiDropFull, CsiStream, CsiSkipEmpty,
                  CsiReceive, taskVars
    <3>. QED BY <3>1, <3>2
  <2>4. ASSUME NEW m \in Senders, CsiRxCallback(m) PROVE SilencedOnlyByFailure'
    BY <2>4 DEF CsiRxCallback, taskVars
  <2>5. CASE RadioReports \/ SignalReport \/ UNCHANGED vars
    BY <2>5 DEF RadioReports, StoreReport, SignalReport, SignalNullReport, vars, taskVars,
                csiVars
  <2>. QED BY <2>1, <2>2, <2>3, <2>4, <2>5 DEF Next
<1>. QED BY <1>1, <1>2, TypeCorrect, PTL DEF Safety

-----------------------------------------------------------------------------
(* Every step of a session is a step of the abstract exchange or none of its *)
(* business: at most one exchange is outstanding, and its record names the   *)
(* peer asked and carries that peer's CSI only (ftm.rs:103-214).             *)
LEMMA RecordOfTarget ==
  ASSUME TypeOK, ReportMatchesSession, BufferIsPeers, ResumeReport
  PROVE  Exchange!Answer
<1>1. metadata = target /\ target = ftmCsi.mac /\ task = "radio" /\ task' = "timer"
  BY DEF ResumeReport, Resume, ReportMatchesSession
<1>2. Outstanding = target /\ Outstanding' = None /\ target # None
  BY <1>1 DEF Outstanding, ResumeReport, TypeOK
<1>3. RecordSenders(ftmCsi.buffer) \in SUBSET {target}
  BY <1>1 DEF RecordSenders, BufferIsPeers
<1>4. report' = [peer |-> target, csi |-> ftmCsi.buffer]
  BY <1>1 DEF ResumeReport
<1>5. report' \in Records
  BY <1>1, <1>2, <1>4 DEF Records, TypeOK, CsiStates
<1>6. LastPrinted' = [peer |-> target, senders |-> RecordSenders(ftmCsi.buffer)]
  BY <1>4, <1>5, NoneIsNoRecord DEF LastPrinted
<1>. QED BY <1>2, <1>3, <1>6 DEF Exchange!Answer

THEOREM ImplementsExchange == Safety => Exchange!Safety
<1>1. Init => Exchange!Init
  BY DEF Init, Exchange!Init, Outstanding, LastPrinted
<1>2. ASSUME TypeOK, ReportMatchesSession, BufferIsPeers, [Next]_vars
      PROVE  [Exchange!Next]_Exchange!vars
  <2> USE <1>2
  <2>1. ASSUME UNCHANGED taskVars PROVE UNCHANGED Exchange!vars
    BY <2>1 DEF taskVars, Exchange!vars, Outstanding, LastPrinted
  <2>2. ASSUME NEW p \in Peers, NEW n \in BurstCounts, InitiateFtm(p, n)
        PROVE  Exchange!Request(p)
    BY <2>2 DEF InitiateFtm, Exchange!Request, Outstanding, LastPrinted
  <2>3. ASSUME NEW p \in Peers, NEW n \in BurstCounts, InitiateRefused(p, n)
        PROVE  UNCHANGED Exchange!vars
    BY <2>3 DEF InitiateRefused, Exchange!vars, Outstanding, LastPrinted
  <2>4. ASSUME ResumeNoMetadata \/ ResumeNoReport PROVE Exchange!GiveUp
    BY <2>4 DEF ResumeNoMetadata, ResumeNoReport, Resume, Exchange!GiveUp, Outstanding,
                LastPrinted, ReportMatchesSession
  <2>5. CASE ResumeReport
    BY <2>5, RecordOfTarget DEF Exchange!Next
  <2>6. CASE RadioReports \/ SignalReport
    BY <2>1, <2>6 DEF RadioReports, StoreReport, SignalReport, SignalNullReport
  <2>7. ASSUME NEW m \in Senders, CsiRxCallback(m) PROVE UNCHANGED Exchange!vars
    BY <2>1, <2>7 DEF CsiRxCallback
  <2>8. CASE CsiProcessing
    BY <2>1, <2>8 DEF CsiProcessing, CsiBuffer, CsiDropFull, CsiStream, CsiSkipEmpty, CsiReceive
  <2>9. CASE UNCHANGED vars
    BY <2>1, <2>9 DEF vars
  <2>. QED BY <2>2, <2>3, <2>4, <2>5, <2>6, <2>7, <2>8, <2>9
         DEF Next, ContactResumes, Exchange!Next
<1>. QED BY <1>1, <1>2, TypeCorrect, ReportsMatch, BufferCorrect, PTL
         DEF Safety, Exchange!Safety
=============================================================================
