----------------------------- MODULE FtmSession -----------------------------
(* One device's FTM exchange: initiate_ftm (firmware/src/ftm.rs), the CSI    *)
(* pipeline that feeds it (firmware/src/csi.rs) and the Wi-Fi driver around. *)
(*                                                                           *)
(* Three threads meet here.  The executor thread runs the contact task and   *)
(* csi_processing_task; it switches between them only at an await that       *)
(* suspends, so the code between two such awaits is one action.  The Wi-Fi   *)
(* thread runs csi_rx_callback and the event-loop thread runs                *)
(* handle_ftm_report_event; both preempt the executor, but share with it     *)
(* only CSI_CHANNEL, FTM_REPORT_METADATA and FTM_RADIO_DONE.                 *)
EXTENDS Integers, Sequences, FiniteSets

CONSTANTS Peers,          \* peers the contact loop ranges with
          Strangers,      \* other stations whose frames the radio hears
          None,           \* absence of a peer, of metadata, of a record
          BurstCounts,    \* values of FTM_STATE.num_burst
          CsiChannelCap,  \* capacity of CSI_CHANNEL (10 in the code)
          MaxFrames       \* bound on the frames received

ASSUME NoneIsNoStation == None \notin Peers \cup Strangers
ASSUME BurstCountsAreCounts == BurstCounts \subseteq Nat
ASSUME CsiChannelHolds == CsiChannelCap \in Nat \ {0}
ASSUME FramesBounded == MaxFrames \in Nat

Senders == Peers \cup Strangers
Frames == [mac : Senders, stamp : 1..MaxFrames]
Records == [peer : Peers, csi : Seq(Frames)]

ASSUME NoneIsNoRecord == None \notin Records

VARIABLES csiChannel,  \* CSI_CHANNEL: frames waiting for csi_processing_task
          ftmCsi,      \* FTM_CSI_STATE
          task,        \* where the contact task awaits: its timer, or the radio
          target,      \* the peer of the exchange it initiated last
          radio,       \* driver: the peer of an accepted session not yet reported
          handler,     \* event thread: "stored" between metadata and signal
          metadata,    \* FTM_REPORT_METADATA
          radioDone,   \* FTM_RADIO_DONE is signalled
          outcome,     \* how the last initiate_ftm returned
          rxCount,     \* frames received so far; stamps each frame
          streamed,    \* frames printed on their own
          published,   \* frames printed inside an FTM record
          report       \* the last FTM record printed

radioVars == <<radio, handler, metadata, radioDone>>
taskVars  == <<task, target, outcome, report>>
csiVars   == <<csiChannel, ftmCsi, rxCount, streamed, published>>
vars == <<radioVars, taskVars, csiVars>>

CsiStates == [active : BOOLEAN, mac : Peers \cup {None}, capacity : Nat,
              buffer : Seq(Frames)]
Outcomes == {"none", "ok", "refused", "noMetadata", "noReport"}

InSeq(s) == {s[i] : i \in DOMAIN s}

-----------------------------------------------------------------------------
(* Each _Bug operator is a plausible mistake in the definition that follows  *)
(* it; the properties are checked to notice it.                              *)

TrySend_BugUnbounded(channel, f) == Append(channel, f)

(* Channel::try_send: the frame is lost when the channel is full. *)
TrySend(channel, f) ==
  IF Len(channel) < CsiChannelCap THEN Append(channel, f) ELSE channel

ResetFtmCsiBuf_BugKeepsBuffer(p, size) ==
  [ftmCsi EXCEPT !.active = TRUE, !.mac = p, !.capacity = size]

(* reset_ftm_csi_buf forgets what the last exchange left and starts buffering.*)
ResetFtmCsiBuf(p, size) ==
  [active |-> TRUE, mac |-> p, capacity |-> size, buffer |-> <<>>]

DumpCsiBuf_BugKeepsBuffer(state) == [state EXCEPT !.active = FALSE]
DumpCsiBuf_BugStaysActive(state) == [state EXCEPT !.buffer = <<>>]

(* dump_csi_buf takes the buffer out and ends the buffering. *)
DumpCsiBuf(state) ==
  [active |-> FALSE, mac |-> state.mac, capacity |-> state.capacity, buffer |-> <<>>]

ForSession_BugAnyMac(state, f) == state.active

ForSession(state, f) == state.active /\ state.mac = f.mac

HasRoom(state) == Len(state.buffer) < state.capacity

Buffered_BugInFront(state, f) == [state EXCEPT !.buffer = <<f>> \o @]

Buffered(state, f) == [state EXCEPT !.buffer = Append(@, f)]

TakeMetadata_BugPeeks == metadata' = metadata

(* Option::take on FTM_REPORT_METADATA leaves nothing behind. *)
TakeMetadata == metadata' = None

InitFtmCsi == [active |-> FALSE, mac |-> None, capacity |-> 0, buffer |-> <<>>]

Init ==
  /\ csiChannel = <<>>
  /\ ftmCsi = InitFtmCsi
  /\ task = "timer" /\ target = None
  /\ radio = None /\ handler = "idle" /\ metadata = None /\ radioDone = FALSE
  /\ outcome = "none"
  /\ rxCount = 0 /\ streamed = {} /\ published = {}
  /\ report = None

-----------------------------------------------------------------------------
(* The contact task.  initiate_ftm(p, n): the driver accepts the session and *)
(* the task suspends in FTM_RADIO_DONE.wait().                               *)
InitiateFtm(p, n) ==
  /\ task = "timer"
  /\ ftmCsi' = ResetFtmCsiBuf(p, 2 * n)
  /\ radio = None /\ radio' = p
  /\ task' = "radio" /\ target' = p
  /\ UNCHANGED <<handler, metadata, radioDone, outcome, report>>
  /\ UNCHANGED <<csiChannel, rxCount, streamed, published>>

(* esp_wifi_ftm_initiate_session fails: the buffering is undone at once. *)
InitiateRefused(p, n) ==
  /\ task = "timer"
  /\ ftmCsi' = DumpCsiBuf(ResetFtmCsiBuf(p, 2 * n))
  /\ target' = p /\ outcome' = "refused"
  /\ UNCHANGED <<task, report>>
  /\ UNCHANGED radioVars
  /\ UNCHANGED <<csiChannel, rxCount, streamed, published>>

(* FTM_RADIO_DONE.wait() returns; the signal is consumed. *)
Resume ==
  /\ task = "radio" /\ radioDone
  /\ radioDone' = FALSE
  /\ task' = "timer"
  /\ TakeMetadata
  /\ UNCHANGED <<radio, handler, target>>
  /\ UNCHANGED <<csiChannel, rxCount, streamed>>

(* The event came without data: early return at "couldn't find FTM report".  *)
ResumeNoMetadata ==
  /\ Resume
  /\ metadata = None
  /\ outcome' = "noMetadata"
  /\ UNCHANGED <<ftmCsi, published, report>>

(* esp_wifi_ftm_get_report fails: early return. *)
ResumeNoReport ==
  /\ Resume
  /\ metadata # None
  /\ outcome' = "noReport"
  /\ UNCHANGED <<ftmCsi, published, report>>

(* The FTM record is printed with the buffered CSI inside. *)
ResumeReport ==
  /\ Resume
  /\ metadata # None
  /\ outcome' = "ok"
  /\ report' = [peer |-> metadata, csi |-> ftmCsi.buffer]
  /\ published' = published \cup InSeq(ftmCsi.buffer)
  /\ ftmCsi' = DumpCsiBuf(ftmCsi)

-----------------------------------------------------------------------------
(* The event-loop thread: handle_ftm_report_event stores the metadata, then  *)
(* signals.  Assumed of the driver (external): one event per accepted        *)
(* session, naming that session's responder.                                 *)
StoreReport ==
  /\ radio # None /\ handler = "idle"
  /\ metadata' = radio
  /\ radio' = None
  /\ handler' = "stored"
  /\ UNCHANGED radioDone
  /\ UNCHANGED taskVars
  /\ UNCHANGED csiVars

SignalReport ==
  /\ handler = "stored"
  /\ radioDone' = TRUE
  /\ handler' = "idle"
  /\ UNCHANGED <<radio, metadata>>
  /\ UNCHANGED taskVars
  /\ UNCHANGED csiVars

SignalNullReport_BugSilent ==
  /\ radio # None /\ handler = "idle"
  /\ radio' = None
  /\ UNCHANGED <<handler, metadata, radioDone>>
  /\ UNCHANGED taskVars
  /\ UNCHANGED csiVars

(* An event whose data pointer is null only signals. *)
SignalNullReport ==
  /\ radio # None /\ handler = "idle"
  /\ radio' = None
  /\ radioDone' = TRUE
  /\ UNCHANGED <<handler, metadata>>
  /\ UNCHANGED taskVars
  /\ UNCHANGED csiVars

-----------------------------------------------------------------------------
(* The Wi-Fi thread hears a frame from m. *)
CsiRxCallback(m) ==
  /\ rxCount < MaxFrames
  /\ rxCount' = rxCount + 1
  /\ csiChannel' = TrySend(csiChannel, [mac |-> m, stamp |-> rxCount + 1])
  /\ UNCHANGED <<ftmCsi, streamed, published>>
  /\ UNCHANGED radioVars
  /\ UNCHANGED taskVars

CsiReceive_BugPeeks ==
  /\ csiChannel # <<>>
  /\ UNCHANGED csiChannel
  /\ UNCHANGED <<rxCount, published>>
  /\ UNCHANGED radioVars
  /\ UNCHANGED taskVars

(* csi_processing_task receives the oldest frame ... *)
CsiReceive ==
  /\ csiChannel # <<>>
  /\ csiChannel' = Tail(csiChannel)
  /\ UNCHANGED <<rxCount, published>>
  /\ UNCHANGED radioVars
  /\ UNCHANGED taskVars

(* ... and keeps it for the exchange, ... *)
CsiBuffer ==
  /\ CsiReceive
  /\ ForSession(ftmCsi, Head(csiChannel)) /\ HasRoom(ftmCsi)
  /\ ftmCsi' = Buffered(ftmCsi, Head(csiChannel))
  /\ UNCHANGED streamed

(* ... drops it because the exchange has its share, ... *)
CsiDropFull ==
  /\ CsiReceive
  /\ ForSession(ftmCsi, Head(csiChannel)) /\ ~HasRoom(ftmCsi)
  /\ UNCHANGED <<ftmCsi, streamed>>

(* ... prints it as a CSI record, ... *)
CsiStream ==
  /\ CsiReceive
  /\ ~ForSession(ftmCsi, Head(csiChannel))
  /\ streamed' = streamed \cup {Head(csiChannel)}
  /\ UNCHANGED ftmCsi

(* ... or, if it has no data to encode, prints no record. *)
CsiSkipEmpty ==
  /\ CsiReceive
  /\ ~ForSession(ftmCsi, Head(csiChannel))
  /\ UNCHANGED <<ftmCsi, streamed>>

CsiProcessing == CsiBuffer \/ CsiDropFull \/ CsiStream \/ CsiSkipEmpty
RadioReports  == StoreReport \/ SignalNullReport
ContactResumes == ResumeNoMetadata \/ ResumeNoReport \/ ResumeReport

Next ==
  \/ \E p \in Peers, n \in BurstCounts : InitiateFtm(p, n) \/ InitiateRefused(p, n)
  \/ ContactResumes
  \/ RadioReports \/ SignalReport
  \/ \E m \in Senders : CsiRxCallback(m)
  \/ CsiProcessing

Safety == Init /\ [][Next]_vars

(* The executor polls every woken task, the event thread finishes what it    *)
(* began, and the driver is assumed to report every session it accepted.     *)
(* Nothing obliges the contact loop to start a session or a station to send. *)
Fairness ==
  /\ WF_vars(CsiProcessing)
  /\ WF_vars(ContactResumes)
  /\ WF_vars(RadioReports)
  /\ WF_vars(SignalReport)

Spec == Safety /\ Fairness

-----------------------------------------------------------------------------
(* The shape of the state, with both buffers within their capacities: the    *)
(* CSI channel (csi.rs:39) and the buffer of an exchange (csi.rs:234).       *)
TypeOK ==
  /\ csiChannel \in Seq(Frames) /\ Len(csiChannel) <= CsiChannelCap
  /\ ftmCsi \in CsiStates /\ Len(ftmCsi.buffer) <= ftmCsi.capacity
  /\ task \in {"timer", "radio"} /\ target \in Peers \cup {None}
  /\ radio \in Peers \cup {None} /\ handler \in {"idle", "stored"}
  /\ metadata \in Peers \cup {None} /\ radioDone \in BOOLEAN
  /\ outcome \in Outcomes
  /\ rxCount \in 0..MaxFrames
  /\ streamed \in SUBSET Frames /\ published \in SUBSET Frames
  /\ report \in Records \cup {None}

(* A signal, a stored metadata or a handler half-way belongs to the exchange *)
(* the contact task is waiting for, and to its responder: no event of an     *)
(* earlier exchange is left to wake a later one (ftm.rs:72, 88, 122, 124;    *)
(* the signal and the metadata are never cleared before a session starts).   *)
ReportMatchesSession ==
  /\ radio # None => /\ task = "radio" /\ radio = target
                     /\ handler = "idle" /\ ~radioDone /\ metadata = None
  /\ handler = "stored" => task = "radio" /\ metadata # None /\ ~radioDone
  /\ radioDone => task = "radio" /\ handler = "idle"
  /\ metadata # None => task = "radio" /\ metadata = target
  /\ task = "radio" => target # None /\ target = ftmCsi.mac

(* The other half, without which the contact loop would stop for good, for   *)
(* the wait has no timeout: while the task waits for the radio its wakeup is *)
(* on the way, as a session the driver has still to report, a handler that   *)
(* has still to signal or a signal not yet taken (ftm.rs:79-98, 122).        *)
WakeupComing ==
  task = "radio" => radio # None \/ handler = "stored" \/ radioDone

(* Frames stay in the order they were received, through the channel and into *)
(* the buffer of an exchange, so the record of an exchange lists its CSI in  *)
(* time order (csi.rs:213, 223, 235).                                        *)
ReceptionOrder ==
  LET pending == ftmCsi.buffer \o csiChannel
  IN  \A i, j \in DOMAIN pending : i < j => pending[i].stamp < pending[j].stamp

(* Whatever an abandoned or a running exchange left in the buffer is CSI of  *)
(* the one peer buffering is set to, never of a stranger (csi.rs:233-235).   *)
BufferIsPeers ==
  \A f \in InSeq(ftmCsi.buffer) : f.mac = ftmCsi.mac

(* No frame is printed twice: it is waiting, buffered, streamed or part of a *)
(* record, and never two of these (csi.rs:91, 223, 242-249).                 *)
NoFrameTwice ==
  LET waiting == InSeq(csiChannel)
      kept == InSeq(ftmCsi.buffer)
  IN  /\ waiting \cap (kept \cup streamed \cup published) = {}
      /\ kept \cap (streamed \cup published) = {}
      /\ streamed \cap published = {}

(* Between exchanges a peer's frames are kept from the console only after an *)
(* exchange that failed after it was accepted (ftm.rs:142, 146); after a     *)
(* refused or a reported one every frame is streamed again.                  *)
SilencedOnlyByFailure ==
  task = "timer" /\ ftmCsi.active => outcome \in {"noMetadata", "noReport"}

(* The doc comment of FtmCsiState.active (csi.rs:43-45): set by the reset    *)
(* when an exchange starts, back to false by the dump when it ends.          *)
BufferingEndsWithSession == task = "timer" => ~ftmCsi.active

(* The steps that bring more to do: a session asked for, a frame received.   *)
Brings ==
  \/ \E p \in Peers, n \in BurstCounts : InitiateFtm(p, n) \/ InitiateRefused(p, n)
  \/ \E m \in Senders : CsiRxCallback(m)

(* Handler, signal and resumption still to come for the exchange accepted.   *)
Duty ==
  IF radio # None THEN 3
  ELSE IF handler = "stored" THEN 2 ELSE IF radioDone THEN 1 ELSE 0

(* Whatever has been accepted and received is worked off: every step that    *)
(* brings no new session or frame leaves less to do, so no two of the threads*)
(* keep each other busy, no frame is taken twice and no session is reported  *)
(* or resumed twice (ftm.rs:67-98, 122-125, csi.rs:222-249).                 *)
WorkRunsOut == [][Brings \/ (Len(csiChannel) + Duty)' < Len(csiChannel) + Duty]_vars

(* The session implements the abstract exchange: one is outstanding while    *)
(* the task waits for the radio, and the last record is the last one printed.*)
RecordSenders(csi) == {f.mac : f \in InSeq(csi)}

Outstanding == IF task = "radio" THEN target ELSE None

LastPrinted ==
  IF report = None THEN None
  ELSE [peer |-> report.peer, senders |-> RecordSenders(report.csi)]

Exchange == INSTANCE FtmExchange WITH current <- Outstanding, printed <- LastPrinted

(* Each exchange is answered for the peer asked, with CSI of that peer only, *)
(* or given up, and one of the two happens: every exchange the driver        *)
(* accepted ends, so the contact loop goes on (ftm.rs:103-214).              *)
ExchangeSpec == Exchange!Spec
=============================================================================
