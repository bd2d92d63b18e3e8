------------------------------ MODULE FtmLink ------------------------------
(* A ranging report's way to the host: initiate_ftm prints it field by field *)
(* with the buffered CSI behind it (firmware/src/ftm.rs, csi.rs), on a line  *)
(* it shares with every log; the controller's reader cuts the lines, parses  *)
(* them and pairs each report entry with its CSI frame (controller/src/      *)
(* tlv.rs, esp_io.rs).  Before it the board may print the ranges it makes of *)
(* the same CSI (firmware/src/wipro.rs), and between records the CSI of      *)
(* other senders; those lines are one print each.                            *)
(*                                                                           *)
(* A print! is one action.  Printing a report, the executor does not yield,  *)
(* but the WiFi task and the drivers log from their own threads, and the     *)
(* board may restart.  The wire itself is assumed to lose and to add nothing *)
(* and to hold whatever is printed.  A token is what one print! or log       *)
(* writes; the five fields of a CSI frame, and the three that open a report, *)
(* are one token.                                                            *)
EXTENDS Integers, Sequences, FiniteSets, SequencesExt

CONSTANTS Reports,     \* what exchanges may yield: FTM entries and CSI frames
          Strays,      \* frames printed on their own
          Window,      \* largest distance of paired times, exclusive (2 ns)
          ChanCap,     \* capacity of the channel to the controller (100)
          MaxReports,  \* bound on the reports and stray frames of a behaviour
          MaxBreaks    \* bound on the logs of other threads and the faults

(* An entry is its t2; a frame has its time and its CSI, which is Empty when *)
(* the radio gave none (csi.rs:171-181) and can be ranged with when it is    *)
(* that of an HT40 frame, so not empty (384 bytes, wipro.rs:140).  A report  *)
(* is ranged when estimate_range was set at its end.                         *)
Empty == 0
Frames ==
  {f \in [ts : Int, payload : Nat, ht40 : BOOLEAN] : f.ht40 => f.payload # Empty}
ASSUME ReportsAreTimed ==
  /\ \A r \in Reports :
       r.entries \in Seq(Int) /\ r.frames \in Seq(Frames) /\ r.ranged \in BOOLEAN
  /\ Strays \subseteq Frames
  /\ Window \in Nat /\ ChanCap \in Nat \ {0}
  /\ MaxReports \in Nat /\ MaxBreaks \in Nat

VARIABLES sent,      \* the reports begun and the frames printed, in order
          toPrint,   \* the tokens left to print of the current report
          line,      \* the text on the wire behind the last newline
          wire,      \* the lines the host has not read
          idAsked,   \* the host's only "id" command awaits its reply
          reader,    \* the host's reader is "up" or has "ended"
          macKnown,  \* ESP_MAC is set
          chan,      \* events on their way to the controller
          received,  \* events the controller has taken
          breaks,    \* logs, restarts and failures of the reader so far
          whole      \* history: the message in one piece on each line, or a log

boardVars == <<sent, toPrint, line, whole>>
hostVars == <<reader, macKnown, chan, received>>
vars == <<boardVars, wire, idAsked, hostVars, breaks>>

Tokens == [kind : {"FTM", "CSI", "entry", "frame", "log", "MAC", "RANGE", "stray", "end"},
           id : Nat, t : Int, payload : Nat]
Token(kind, id, t, payload) == [kind |-> kind, id |-> id, t |-> t, payload |-> payload]
Plain(kind) == Token(kind, 0, 0, Empty)

(* A message of one print; its line ends behind it, as that of a log does. *)
Single(token) == token.kind \in {"MAC", "RANGE", "stray"}
EndsLine(token) == Single(token) \/ token.kind \in {"log", "end"}

-----------------------------------------------------------------------------
(* The board *)

(* dump_csi_buf(true) prints the frames, or logs that there are none. *)
DumpTokens(frames) ==
  IF frames = <<>> THEN <<Plain("log")>>
  ELSE <<Plain("CSI")>> \o
       [j \in DOMAIN frames |-> Token("frame", 0, frames[j].ts, frames[j].payload)]

Near(t, ts) == ts - t > -Window /\ ts - t < Window

MatchesOnBoard_BugInclusive(t, frames) ==
  {j \in DOMAIN frames : frames[j].ts - t \in -Window .. Window}

MatchesOnBoard(t, frames) == {j \in DOMAIN frames : Near(t, frames[j].ts)}

(* process_report: a range for each entry whose first match is HT40, in turn.*)
Match(r, i) == r.frames[Min(MatchesOnBoard(r.entries[i], r.frames))]

Ranged(r) ==
  {i \in DOMAIN r.entries :
     r.ranged /\ MatchesOnBoard(r.entries[i], r.frames) # {} /\ Match(r, i).ht40}

InTurn(S) ==
  {turn \in [1 .. Cardinality(S) -> S] : \A j, k \in DOMAIN turn : j < k => turn[j] < turn[k]}

RangeTokens(id, r, turn) ==
  [n \in DOMAIN turn |-> Token("RANGE", id, r.entries[turn[n]], Match(r, turn[n]).payload)]

RecordTokens_BugDumpsLast(id, r) ==
  <<Token("FTM", id, 0, Empty)>>
    \o [i \in DOMAIN r.entries |-> Token("entry", 0, r.entries[i], Empty)]
    \o <<Plain("end")>> \o DumpTokens(r.frames)

RecordTokens(id, r) ==
  <<Token("FTM", id, 0, Empty)>>
    \o [i \in DOMAIN r.entries |-> Token("entry", 0, r.entries[i], Empty)]
    \o DumpTokens(r.frames) \o <<Plain("end")>>

(* A newline puts the line on the wire. *)
Write(token) ==
  IF EndsLine(token)
  THEN line' = <<>> /\ wire' = Append(wire, Append(line, token))
  ELSE line' = Append(line, token) /\ UNCHANGED wire

(* History: a record is whole when all of it stands on the line it ends.     *)
InOnePiece(token) ==
  \/ Single(token)
  \/ /\ token.kind = "end" /\ line # <<>> /\ line[1].kind = "FTM"
     /\ Append(line, token) = RecordTokens(line[1].id, sent[line[1].id].of)

Notes(token) ==
  whole' = IF ~EndsLine(token) THEN whole
           ELSE Append(whole, IF InOnePiece(token) THEN Append(line, token)[1] ELSE Plain("log"))

ReportBegins(r) ==
  /\ toPrint = <<>> /\ Len(sent) < MaxReports
  /\ sent' = Append(sent, [kind |-> "FTM", of |-> r])
  /\ \E turn \in InTurn(Ranged(r)) :
       toPrint' = RangeTokens(Len(sent'), r, turn) \o RecordTokens(Len(sent'), r)
  /\ UNCHANGED <<line, wire, idAsked, breaks, hostVars, whole>>

(* csi_processing_task, with a frame that is not buffered and not empty. *)
PrintStray(frame) ==
  /\ toPrint = <<>> /\ Len(sent) < MaxReports
  /\ frame.payload # Empty
  /\ sent' = Append(sent, [kind |-> "stray", of |-> frame])
  /\ Write(Token("stray", Len(sent'), frame.ts, frame.payload))
  /\ Notes(Token("stray", Len(sent'), frame.ts, frame.payload))
  /\ UNCHANGED <<toPrint, idAsked, breaks, hostVars>>

PrintNext ==
  /\ toPrint # <<>>
  /\ Write(Head(toPrint)) /\ Notes(Head(toPrint))
  /\ toPrint' = Tail(toPrint)
  /\ UNCHANGED <<sent, idAsked, breaks, hostVars>>

(* The console task answers "id" between two reports. *)
AnswerId ==
  /\ idAsked /\ toPrint = <<>>
  /\ Write(Plain("MAC")) /\ Notes(Plain("MAC"))
  /\ idAsked' = FALSE
  /\ UNCHANGED <<sent, toPrint, breaks, hostVars>>

(* Another thread logs: the WiFi task (espnow.rs:80) or a driver. *)
ThreadLogs ==
  /\ breaks < MaxBreaks /\ breaks' = breaks + 1
  /\ Write(Plain("log")) /\ Notes(Plain("log"))
  /\ UNCHANGED <<sent, toPrint, idAsked, hostVars>>

(* The boot messages follow what was printed last; a command may be lost. *)
Restart ==
  /\ breaks < MaxBreaks /\ breaks' = breaks + 1
  /\ Write(Plain("log")) /\ Notes(Plain("log"))
  /\ toPrint' = <<>>
  /\ \/ UNCHANGED idAsked
     \/ idAsked' = FALSE
  /\ UNCHANGED <<sent, hostVars>>

-----------------------------------------------------------------------------
(* parse and parse_ftm *)

Positions(text, kind) == {i \in DOMAIN text : text[i].kind = kind}

(* The message starts at the first 0x02 and ends at the next 0x03. *)
Opens(text) == {i \in DOMAIN text : Single(text[i]) \/ text[i].kind = "FTM"}
Closes(text, start) ==
  {i \in DOMAIN text : i >= start /\ (Single(text[i]) \/ text[i].kind = "end")}

HasMessage(text) == Opens(text) # {} /\ Closes(text, Min(Opens(text))) # {}

Fields(text) ==
  LET start == Min(Opens(text))
      end == Min(Closes(text, start))
  IN  SubSeq(text, start, IF Single(text[end]) THEN end ELSE end - 1)

FirstEntry_BugOneLate == 4

(* The entries are read from the fifth field (ii = 4) to the "CSI" mark; the *)
(* first three fields are the first token.  The frames follow.               *)
FirstEntry == 3

CsiMark(fields) ==
  Min({Len(fields) + 1} \cup {i \in Positions(fields, "CSI") : i >= FirstEntry})

EntryFields(fields) == SubSeq(fields, FirstEntry, CsiMark(fields) - 1)
FrameFields(fields) == SubSeq(fields, CsiMark(fields) + 1, Len(fields))

(* A field among the entries that is none does not decode. *)
FtmDecodes(fields) == \A f \in ToSet(EntryFields(fields)) : f.kind = "entry"

Receiver_BugLast(entries, frame) ==
  Max({0} \cup {i \in DOMAIN entries : Near(entries[i].t, frame.t)})

(* A frame goes to the first entry it is near, whatever that had before. *)
Receiver(entries, frame) ==
  Min({Len(entries) + 1} \cup {i \in DOMAIN entries : Near(entries[i].t, frame.t)})

(* The last frame an entry is given stands. *)
Received(entries, frames, i) == {j \in DOMAIN frames : Receiver(entries, frames[j]) = i}
CsiOf(entries, frames, i) ==
  IF Received(entries, frames, i) = {} THEN Empty
  ELSE frames[Max(Received(entries, frames, i))].payload

(* Entries without CSI are not retained; the others keep their numbers. *)
ParseFtm(fields) ==
  LET entries == EntryFields(fields)
      frames == FrameFields(fields)
      retained == {i \in DOMAIN entries : CsiOf(entries, frames, i) # Empty}
  IN  [kind |-> "FTM", id |-> fields[1].id,
       reports |-> [i \in retained |->
                      [t2 |-> entries[i].t, payload |-> CsiOf(entries, frames, i)]]]

(* parse_range and parse_csi *)
ParseSingle(field) ==
  [kind |-> field.kind, id |-> field.id,
   reports |-> <<[t2 |-> field.t, payload |-> field.payload]>>]

-----------------------------------------------------------------------------
(* The controller's reader and its main loop *)

IsMac(text) == HasMessage(text) /\ Fields(text)[1].kind = "MAC"

(* handle_message has an event for the controller. *)
HasEvent(text) ==
  /\ macKnown
  /\ HasMessage(text) /\ ~IsMac(text)
  /\ Fields(text)[1].kind = "FTM" => FtmDecodes(Fields(text))

EventIn(text) ==
  IF Fields(text)[1].kind = "FTM" THEN ParseFtm(Fields(text))
                                  ELSE ParseSingle(Fields(text)[1])

(* line.clear(): the next line is read into an empty buffer. *)
NextWire == Tail(wire)

ReadLine ==
  /\ reader = "up" /\ wire # <<>>
  /\ ~HasEvent(Head(wire))
  /\ wire' = NextWire
  /\ macKnown' = (macKnown \/ IsMac(Head(wire)))
  /\ UNCHANGED <<boardVars, idAsked, reader, chan, received, breaks>>

Offer_BugDrops(event) ==
  chan' = IF Len(chan) < ChanCap THEN Append(chan, event) ELSE chan

(* msg_tx.send waits while the channel is full. *)
Offer(event) == Len(chan) < ChanCap /\ chan' = Append(chan, event)

ReadEvent ==
  /\ reader = "up" /\ wire # <<>>
  /\ HasEvent(Head(wire))
  /\ Offer(EventIn(Head(wire)))
  /\ wire' = NextWire
  /\ UNCHANGED <<boardVars, idAsked, reader, macKnown, received, breaks>>

(* A line that is not text, an error of the port or its end: the reader is   *)
(* over for good.                                                            *)
ReaderEnds ==
  /\ reader = "up" /\ reader' = "ended"
  /\ breaks < MaxBreaks /\ breaks' = breaks + 1
  /\ UNCHANGED <<boardVars, wire, idAsked, macKnown, chan, received>>

ControllerTakes ==
  /\ chan # <<>>
  /\ received' = Append(received, Head(chan))
  /\ chan' = Tail(chan)
  /\ UNCHANGED <<boardVars, wire, idAsked, reader, macKnown, breaks>>

-----------------------------------------------------------------------------
Init ==
  /\ sent = <<>> /\ toPrint = <<>> /\ line = <<>> /\ wire = <<>>
  /\ idAsked = TRUE /\ reader = "up" /\ macKnown = FALSE
  /\ chan = <<>> /\ received = <<>> /\ breaks = 0 /\ whole = <<>>

Next ==
  \/ \E r \in Reports : ReportBegins(r)
  \/ \E f \in Strays : PrintStray(f)
  \/ PrintNext \/ AnswerId \/ ThreadLogs \/ Restart
  \/ ReadLine \/ ReadEvent \/ ReaderEnds \/ ControllerTakes

Spec == Init /\ [][Next]_vars

-----------------------------------------------------------------------------
Events == received \o chan

(* The shape of the state; only an open report has text on the wire without  *)
(* a newline (ftm.rs:170-205).                                               *)
TypeOK ==
  /\ sent \in Seq([kind : {"FTM"}, of : Reports] \cup [kind : {"stray"}, of : Strays])
  /\ toPrint \in Seq(Tokens)
  /\ line \in Seq(Tokens) /\ (toPrint = <<>> => line = <<>>)
  /\ wire \in Seq(Seq(Tokens))
  /\ idAsked \in BOOLEAN /\ reader \in {"up", "ended"} /\ macKnown \in BOOLEAN
  /\ \A e \in ToSet(Events) :
       /\ e.kind \in {"FTM", "RANGE", "stray"} /\ e.id \in Nat
       /\ e.reports \in [DOMAIN e.reports -> [t2 : Int, payload : Nat]]
  /\ Len(chan) <= ChanCap
  /\ whole \in Seq(Tokens)

(* What the host should make of a report, said without fields or folds: the  *)
(* last frame whose first near entry is entry i.                             *)
Claims(r, i) ==
  {j \in DOMAIN r.frames :
     /\ Near(r.entries[i], r.frames[j].ts)
     /\ \A k \in 2 .. i - 1 : ~Near(r.entries[k], r.frames[j].ts)}

PayloadOf(r, i) ==
  IF Claims(r, i) = {} THEN Empty ELSE r.frames[Max(Claims(r, i))].payload

Faithful(event, r) ==
  LET timed == {i \in 1 .. Len(r.entries) - 1 : PayloadOf(r, i + 1) # Empty}
  IN  event.reports =
        [i \in timed |-> [t2 |-> r.entries[i + 1], payload |-> PayloadOf(r, i + 1)]]

(* Whatever other threads log and whenever the board restarts, no event mixes*)
(* two messages: an event is one report in full, without its first entry,    *)
(* each entry with the CSI taken at its time, or one frame, or a range made  *)
(* of an entry of its report (tlv.rs:90-180, 344-360, wipro.rs:347-353).     *)
EventsAreReports ==
  \A e \in ToSet(Events) :
    /\ e.id \in DOMAIN sent
    /\ LET s == sent[e.id]
       IN  \/ e.kind = "FTM" /\ s.kind = "FTM" /\ Faithful(e, s.of)
           \/ /\ e.kind = "RANGE" /\ s.kind = "FTM" /\ s.of.ranged
              /\ e.reports[1].t2 \in ToSet(s.of.entries)
              /\ \E j \in DOMAIN s.of.frames :
                   /\ s.of.frames[j].ht40 /\ Near(e.reports[1].t2, s.of.frames[j].ts)
                   /\ e.reports[1].payload = s.of.frames[j].payload
           \/ /\ e.kind = "stray" /\ s.kind = "stray"
              /\ e.reports = <<[t2 |-> s.of.ts, payload |-> s.of.payload]>>

(* Board and host pair entries with frames each in its own way: the board    *)
(* takes an entry's first frame, the host gives a frame to its first entry   *)
(* and lets the last frame stand.  Of an entry with one frame near it, which *)
(* is near no other entry, they say the same: the CSI its range was made of  *)
(* is the CSI the host files with it (wipro.rs:321-335, tlv.rs:167-176).     *)
RangesAgree ==
  \A x, e \in ToSet(Events) :
    x.kind = "RANGE" /\ e.kind = "FTM" /\ x.id = e.id =>
      LET r == sent[x.id].of
          t == x.reports[1].t2
          near == {j \in DOMAIN r.frames : Near(t, r.frames[j].ts)}
      IN  \/ r.entries[1] = t
          \/ Cardinality(near) > 1
          \/ \E k \in DOMAIN r.entries, j \in near :
               r.entries[k] # t /\ Near(r.entries[k], r.frames[j].ts)
          \/ x.reports[1] \in ToSet(e.reports)

Key(kind, id, t) == <<kind, id, IF kind = "RANGE" THEN t ELSE 0>>

(* The reader is past this many lines. *)
LinesTaken == Len(whole) - Len(wire)

(* Behind the reply to "id", a line is due to the controller; only a record  *)
(* without entries is refused.  So many are due up to line n.                *)
IsDue(n) ==
  /\ whole[n].kind \in {"FTM", "RANGE", "stray"}
  /\ \E k \in 1 .. n - 1 : whole[k].kind = "MAC"
  /\ whole[n].kind = "FTM" => sent[whole[n].id].of.entries # <<>>

DueUpTo(n) == Cardinality({k \in 1 .. n : IsDue(k)})
(* The controller gets the messages the board printed in one piece behind    *)
(* the reply to "id", each once and in the order printed, however slowly it  *)
(* takes them and whatever stands between; what the reader has not come to   *)
(* is on the wire, where it will find those messages and no others           *)
(* (tlv.rs:341-361, esp_io.rs:58-82, 158-204).                               *)
NothingLost ==
  /\ Len(Events) = DueUpTo(LinesTaken)
  /\ \A n \in 1 .. LinesTaken : IsDue(n) =>
       LET e == Events[DueUpTo(n)]
           m == whole[n]
       IN  Key(e.kind, e.id, e.reports[1].t2) = Key(m.kind, m.id, m.t)
  /\ \A n \in DOMAIN wire :
       IF HasMessage(wire[n]) THEN Fields(wire[n])[1] = whole[LinesTaken + n]
                              ELSE whole[LinesTaken + n].kind = "log"

(* Entry i and frame j of a report belong together and to nothing else. *)
OnlyPair(r, i, j) ==
  /\ r.frames[j].payload # Empty
  /\ {k \in DOMAIN r.entries : Near(r.entries[k], r.frames[j].ts)} = {i}
  /\ {k \in DOMAIN r.frames : Near(r.entries[i], r.frames[k].ts)} = {j}

PairsParsedFrom(first) ==
  \A e \in {x \in ToSet(Events) : x.kind = "FTM"} :
    LET r == sent[e.id].of
    IN  \A i \in DOMAIN r.entries, j \in DOMAIN r.frames :
          i >= first /\ OnlyPair(r, i, j) =>
            [t2 |-> r.entries[i], payload |-> r.frames[j].payload] \in ToSet(e.reports)

(* tlv.rs:116, "Parse each FTM report": an entry with a CSI frame near it,   *)
(* and near no other entry, is among the event's reports with that CSI.      *)
EachEntryParsed == PairsParsedFrom(1)

(* What is left of that: no such entry behind the first is lost, wherever it *)
(* stands and whatever other entries and frames compete for each other, and  *)
(* it is filed with its own frame's CSI (tlv.rs:116-134, 155-180).           *)
LaterEntriesParsed == PairsParsedFrom(2)
=============================================================================
