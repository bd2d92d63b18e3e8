--------------------------- MODULE HostNet_proofs ---------------------------
(* The safety of the host side, for any number of controllers and any        *)
(* capacities.                                                               *)
EXTENDS HostNet, SequenceTheorems, TLAPS

LEMMA HeadAndTail ==
  ASSUME NEW S, NEW s \in Seq(S), s # <<>>
  PROVE  /\ Len(s) \in Nat \ {0} /\ Head(s) \in S /\ Head(s) = s[1]
         /\ Tail(s) \in Seq(S) /\ Len(Tail(s)) = Len(s) - 1
         /\ \A i \in 1 .. Len(s) - 1 : Tail(s)[i] = s[i + 1]
BY HeadTailProperties, EmptySeq

LEMMA Appended ==
  ASSUME NEW S, NEW s \in Seq(S), NEW e \in S
  PROVE  /\ Append(s, e) \in Seq(S) /\ Len(Append(s, e)) = Len(s) + 1
         /\ \A i \in 1 .. Len(s) : Append(s, e)[i] = s[i]
         /\ Append(s, e)[Len(s) + 1] = e
BY AppendProperties

LEMMA Cut ==
  ASSUME NEW S, NEW s \in Seq(S), NEW k \in 0 .. Len(s)
  PROVE  /\ SubSeq(s, 1, k) \in Seq(S) /\ Len(SubSeq(s, 1, k)) = k
         /\ \A i \in 1 .. k : SubSeq(s, 1, k)[i] = s[i]
<1>1. \A i \in 1 .. k : s[i] \in S
  BY ElementOfSeq, LenProperties
<1> QED
  BY <1>1, SubSeqProperties

LEMMA QueueChanged ==
  ASSUME NEW S, NEW f \in [Controllers -> Seq(S)], NEW cap \in Nat,
         \A d \in Controllers : Len(f[d]) <= cap,
         NEW c \in Controllers, NEW s \in Seq(S), Len(s) <= cap
  PROVE  /\ [f EXCEPT ![c] = s] \in [Controllers -> Seq(S)]
         /\ \A d \in Controllers : Len([f EXCEPT ![c] = s][d]) <= cap
OBVIOUS

LEMMA Caps ==
  /\ EventCap \in Nat \ {0} /\ CommandCap \in Nat \ {0} /\ UiCap \in Nat \ {0}
  /\ UiCommandCap \in Nat \ {0} /\ IpcCap \in Nat \ {0} /\ MaxCommands \in Nat
BY BoundsAreCounts

LEMMA InitTypeOK == Init => TypeOK
BY BoundsAreCounts, NoneIsNothing
   DEF Init, TypeOK, CtlOK, NetOK, SrvOK, PubOK, UiOK

LEMMA ControllerTypeOK ==
  ASSUME TypeOK, NEW c \in Controllers, ControllerNext(c)
  PROVE  CtlOK'
<1> USE DEF TypeOK, CtlOK
<1>1. ASSUME BoardReports(c) PROVE CtlOK'
  <2> DEFINE e == [from |-> c, n |-> read'[c]]
  <2>0. /\ read' = [read EXCEPT ![c] = @ + 1] /\ OfferEvent(c, e)
        /\ UNCHANGED <<loop, held, commandQ, writer, written>>
    BY <1>1, Zenon DEF BoardReports
  <2>1. read' \in [Controllers -> Nat] /\ read'[c] \in Nat
    BY <2>0
  <2>2. e \in Events
    BY <2>1 DEF Events
  <2>3. eventQ[c] \in Seq(Events) /\ Len(eventQ[c]) \in Nat
    BY LenProperties
  <2> HIDE DEF e
  <2>4. Append(eventQ[c], e) \in Seq(Events) /\ Len(Append(eventQ[c], e)) = Len(eventQ[c]) + 1
    BY <2>2, <2>3, Appended
  <2>5. \/ eventQ' = eventQ
        \/ eventQ' = [eventQ EXCEPT ![c] = Append(@, e)] /\ Len(eventQ[c]) < EventCap
    BY <2>0, Zenon DEF OfferEvent, EventAccepted
  <2>6. /\ eventQ' \in [Controllers -> Seq(Events)]
        /\ \A d \in Controllers : Len(eventQ'[d]) <= EventCap
    <3>1. CASE eventQ' = [eventQ EXCEPT ![c] = Append(@, e)] /\ Len(eventQ[c]) < EventCap
      <4>1. Len(Append(eventQ[c], e)) <= EventCap
        BY <2>3, <2>4, <3>1, Caps
      <4> QED
        BY <3>1, <2>4, <4>1, Caps, QueueChanged
    <3> QED
      BY <2>5, <3>1
  <2> QED
    BY <2>0, <2>1, <2>6
<1>2. CASE Connects(c)
  BY <1>2 DEF Connects
<1>3. CASE LoopEnds(c)
  BY <1>3, BoundsAreCounts, SMTT(60) DEF LoopEnds
<1>4. CASE Forwards(c)
  <2>1. Tail(eventQ[c]) \in Seq(Events) /\ Len(Tail(eventQ[c])) = Len(eventQ[c]) - 1
    BY <1>4, HeadAndTail DEF Forwards
  <2>2. Len(eventQ[c]) \in Nat
    BY LenProperties
  <2> QED
    BY <1>4, <2>1, <2>2, BoundsAreCounts, SMTT(60) DEF Forwards
<1>5. CASE TakesCommand(c)
  BY <1>5, HeadAndTail DEF TakesCommand, NetOK
<1>6. CASE SendsCommand(c)
  <2>1. held[c] \in Numbers
    BY <1>6 DEF SendsCommand
  <2>2. /\ Append(commandQ[c], held[c]) \in Seq(Numbers)
        /\ Len(Append(commandQ[c], held[c])) = Len(commandQ[c]) + 1
    BY <2>1, Appended
  <2>3. Len(commandQ[c]) \in Nat
    BY LenProperties
  <2>4. /\ commandQ' \in [Controllers -> Seq(Numbers)]
        /\ \A d \in Controllers : Len(commandQ'[d]) <= CommandCap
    <3>1. CASE /\ commandQ' = [commandQ EXCEPT ![c] = Append(@, held[c])]
               /\ Len(commandQ[c]) < CommandCap
      <4>1. Len(Append(commandQ[c], held[c])) <= CommandCap
        BY <2>2, <2>3, <3>1, Caps
      <4> QED
        BY <3>1, <2>2, <4>1, Caps, QueueChanged
    <3> QED
      BY <1>6, <3>1 DEF SendsCommand, OfferCommand, CommandAccepted
  <2> QED
    BY <1>6, <2>4 DEF SendsCommand
<1>7. ASSUME Writes(c) \/ WriteFails(c) PROVE CtlOK'
  <2>1. /\ Tail(commandQ[c]) \in Seq(Numbers) /\ Len(Tail(commandQ[c])) = Len(commandQ[c]) - 1
        /\ Head(commandQ[c]) \in Numbers
    BY <1>7, HeadAndTail DEF Writes, WriteFails, WriterTakes
  <2>2. Append(written[c], Head(commandQ[c])) \in Seq(Numbers)
    BY <2>1, Appended
  <2>3. Len(commandQ[c]) \in Nat
    BY LenProperties
  <2>4. CASE Writes(c)
    BY <2>1, <2>2, <2>3, <2>4, BoundsAreCounts, SMTT(60) DEF Writes, WriterTakes
  <2>5. CASE WriteFails(c)
    <3>1. /\ commandQ' \in [Controllers -> Seq(Numbers)]
          /\ \A d \in Controllers : Len(commandQ'[d]) <= CommandCap
      <4>1. <<>> \in Seq(Numbers) /\ Len(<<>>) <= CommandCap /\ CommandCap \in Nat
        BY Caps
      <4> QED
        BY <2>5, <4>1, QueueChanged DEF WriteFails
    <3>2. written' \in [Controllers -> Seq(Numbers)]
      BY <2>2, <2>5 DEF WriteFails
    <3> QED
      BY <2>5, <3>1, <3>2 DEF WriteFails, WriterTakes
  <2> QED
    BY <1>7, <2>4, <2>5
<1> QED
  BY <1>1, <1>2, <1>3, <1>4, <1>5, <1>6, <1>7
     DEF ControllerNext, LoopNext, WriterNext, ConnectFails, ReceiveFails, ForwardFails

LEMMA NetworkTypeOK ==
  ASSUME TypeOK, NEW c \in Controllers,
         ControllerNext(c) \/ Disconnects(c) \/ ServerReceives(c) \/ BroadcastSends(c)
  PROVE  NetOK'
<1> USE DEF netVars
<1>1. up \in [Controllers -> Seq(Events)] /\ down \in [Controllers -> Seq(Numbers)]
      /\ lost \subseteq Controllers
  BY DEF TypeOK, NetOK
<1>2. CASE Forwards(c)
  <2>1. eventQ[c] \in Seq(Events) /\ up[c] \in Seq(Events)
    BY DEF TypeOK, CtlOK, NetOK
  <2>2. Append(up[c], Head(eventQ[c])) \in Seq(Events)
    BY <1>2, <2>1, HeadAndTail, Appended DEF Forwards
  <2> QED
    BY <1>1, <1>2, <2>2 DEF Forwards, NetOK
<1>3. CASE TakesCommand(c)
  <2>1. down[c] \in Seq(Numbers) /\ Tail(down[c]) \in Seq(Numbers)
    BY <1>1, <1>3, HeadAndTail DEF TakesCommand
  <2> QED
    BY <1>1, <1>3, <2>1 DEF TakesCommand, NetOK
<1>4. CASE Disconnects(c)
  <2>1. PICK k \in 0 .. Len(up[c]) : up' = [up EXCEPT ![c] = SubSeq(@, 1, k)]
    BY <1>4 DEF Disconnects
  <2>2. PICK m \in 0 .. Len(down[c]) : down' = [down EXCEPT ![c] = SubSeq(@, 1, m)]
    BY <1>4 DEF Disconnects
  <2>3. SubSeq(up[c], 1, k) \in Seq(Events) /\ SubSeq(down[c], 1, m) \in Seq(Numbers)
    BY <1>1, Cut
  <2> QED
    BY <1>1, <1>4, <2>1, <2>2, <2>3 DEF Disconnects, NetOK
<1>5. CASE ServerReceives(c)
  <2>1. up[c] \in Seq(Events) /\ Tail(up[c]) \in Seq(Events)
    BY <1>1, <1>5, HeadAndTail DEF ServerReceives
  <2> QED
    BY <1>1, <1>5, <2>1 DEF ServerReceives, NetOK
<1>6. CASE BroadcastSends(c)
  <2>1. down[c] \in Seq(Numbers) /\ Append(down[c], order) \in Seq(Numbers)
    BY <1>1, <1>6, Appended DEF BroadcastSends, TypeOK, SrvOK
  <2> QED
    BY <1>1, <1>6, <2>1 DEF BroadcastSends, NetOK
<1>7. CASE UNCHANGED netVars
  BY <1>1, <1>7 DEF NetOK
<1> QED
  BY <1>2, <1>3, <1>4, <1>5, <1>6, <1>7, Zenon
     DEF ControllerNext, LoopNext, WriterNext, BoardReports, Connects, ConnectFails,
         ReceiveFails, ForwardFails, LoopEnds, SendsCommand, Writes, WriteFails, WriterTakes

(* What a step of a controller leaves alone. *)
LEMMA ControllerFrame ==
  ASSUME NEW c \in Controllers, ControllerNext(c)
  PROVE  UNCHANGED <<srvVars, pubVars, tuiVars, lost, orders, sentTo>>
BY Zenon
   DEF ControllerNext, LoopNext, WriterNext, BoardReports, Connects, ConnectFails,
       ReceiveFails, ForwardFails, LoopEnds, Forwards, TakesCommand, SendsCommand,
       Writes, WriteFails, WriterTakes, netVars

(* What a step of the server leaves alone. *)
LEMMA ServerFrame ==
  ASSUME ServerNext
  PROVE  /\ UNCHANGED ctlVars /\ UNCHANGED lost
         /\ \/ UNCHANGED <<up, down>>
            \/ \E c \in Controllers : ServerReceives(c) \/ BroadcastSends(c)
         /\ ServerPublishes \/ UNCHANGED pubVars
         /\ \/ UNCHANGED tuiVars
            \/ SendsNote \/ ServerLists \/ ServerShutsDown \/ ServerBroadcasts
<1> USE DEF netVars, tuiVars
<1>1. CASE ServerPublishes
  BY <1>1, Zenon DEF ServerPublishes
<1>2. CASE SendsNote \/ ServerReceiveFails \/ BroadcastEnds \/ Aborts
  BY <1>2, Zenon DEF SendsNote, ServerReceiveFails, BroadcastEnds, Aborts
<1>3. CASE ServerLists \/ ServerShutsDown \/ ServerBroadcasts
  BY <1>3, Zenon DEF ServerLists, ServerShutsDown, ServerBroadcasts, ServerTakes
<1>4. ASSUME NEW c \in Controllers,
             ServerReceives(c) \/ BroadcastSends(c) \/ BroadcastFails(c)
      PROVE  /\ UNCHANGED ctlVars /\ UNCHANGED lost
             /\ UNCHANGED <<up, down>> \/ ServerReceives(c) \/ BroadcastSends(c)
             /\ UNCHANGED pubVars /\ UNCHANGED tuiVars
  BY <1>4, Zenon DEF ServerReceives, BroadcastSends, BroadcastFails
<1> QED
  BY <1>1, <1>2, <1>3, <1>4, Zenon DEF ServerNext

LEMMA ServerTypeOK ==
  ASSUME TypeOK, ServerNext
  PROVE  SrvOK'
<1> USE DEF netVars, srvVars, tuiVars
<1>1. SrvOK /\ NetOK /\ UiOK
  BY DEF TypeOK
<1>2. CASE SendsNote \/ ServerReceiveFails \/ BroadcastEnds \/ Aborts
  BY <1>1, <1>2 DEF SrvOK, SendsNote, ServerReceiveFails, BroadcastEnds, Aborts, ServerSelects
<1>3. CASE ServerPublishes
  <2>1. event \in Events
    BY <1>1, <1>3 DEF SrvOK, ServerPublishes
  <2>2. Append(recorded, event) \in Seq(Events)
    BY <1>1, <2>1, Appended DEF SrvOK
  <2> QED
    BY <1>1, <1>3, <2>2 DEF SrvOK, ServerPublishes
<1>4. CASE ServerLists \/ ServerShutsDown
  BY <1>1, <1>4 DEF SrvOK, ServerLists, ServerShutsDown, ServerTakes, ServerSelects
<1>5. CASE ServerBroadcasts
  <2>1. Head(uiCommandQ) \in Commands
    BY <1>1, <1>5, HeadAndTail DEF UiOK, ServerBroadcasts, ServerTakes
  <2>2. order' \in Numbers /\ order' # 0
    BY <1>5, <2>1 DEF ServerBroadcasts, Commands, Numbers
  <2>3. [n |-> order', to |-> clients] \in [n : Numbers, to : SUBSET Controllers]
    BY <1>1, <2>2 DEF SrvOK
  <2>4. orders' \in Seq([n : Numbers, to : SUBSET Controllers])
    BY <1>1, <1>5, <2>3, Appended DEF SrvOK, ServerBroadcasts
  <2> QED
    BY <1>1, <1>5, <2>2, <2>4 DEF SrvOK, ServerBroadcasts, ServerTakes, ServerSelects
<1>6. ASSUME NEW c \in Controllers, ServerReceives(c) PROVE SrvOK'
  <2>1. Head(up[c]) \in Events
    BY <1>1, <1>6, HeadAndTail DEF NetOK, ServerReceives
  <2>2. Head(up[c]) # None
    BY <2>1, NoneIsNothing
  <2> QED
    BY <1>1, <1>6, <2>1, <2>2 DEF SrvOK, ServerReceives, ServerSelects
<1>7. ASSUME NEW c \in Controllers, BroadcastSends(c) PROVE SrvOK'
  <2>1. sentTo[c] \in Seq(Numbers) /\ order \in Numbers
    BY <1>1, <1>7 DEF SrvOK, BroadcastSends
  <2>2. Append(sentTo[c], order) \in Seq(Numbers)
    BY <2>1, Appended
  <2> QED
    BY <1>1, <1>7, <2>2 DEF SrvOK, BroadcastSends
<1>8. ASSUME NEW c \in Controllers, BroadcastFails(c) PROVE SrvOK'
  BY <1>1, <1>8 DEF SrvOK, BroadcastFails
<1> QED
  BY <1>2, <1>3, <1>4, <1>5, <1>6, <1>7, <1>8 DEF ServerNext

LEMMA PublisherTypeOK ==
  ASSUME TypeOK, ServerPublishes \/ PublisherTakes \/ Publishes \/ PublishFails
  PROVE  PubOK'
<1>1. PubOK /\ SrvOK
  BY DEF TypeOK
<1>2. CASE ServerPublishes
  <2>1. event \in Events /\ Len(ipcQ) \in Nat /\ ipcQ \in Seq(Events)
    BY <1>1, <1>2, LenProperties DEF SrvOK, PubOK, ServerPublishes
  <2>2. Append(ipcQ, event) \in Seq(Events) /\ Len(Append(ipcQ, event)) = Len(ipcQ) + 1
    BY <2>1, Appended
  <2> QED
    BY <1>1, <1>2, <2>1, <2>2, Caps DEF ServerPublishes, IpcAccepted, PubOK
<1>3. CASE PublisherTakes
  <2>1. /\ Head(ipcQ) \in Events /\ Tail(ipcQ) \in Seq(Events)
        /\ Len(ipcQ) \in Nat /\ Len(Tail(ipcQ)) = Len(ipcQ) - 1
    BY <1>1, <1>3, HeadAndTail DEF PublisherTakes, PubOK
  <2> QED
    BY <1>1, <1>3, <2>1, Caps DEF PublisherTakes, PubOK
<1>4. CASE Publishes \/ PublishFails
  <2>1. publishing \in Events
    BY <1>1, <1>4 DEF Publishes, PublishFails, PublisherDone, PubOK
  <2>2. Append(published, publishing) \in Seq(Events)
    BY <1>1, <2>1, Appended DEF PubOK
  <2> QED
    BY <1>1, <1>4, <2>2 DEF Publishes, PublishFails, PublisherDone, PubOK
<1> QED
  BY <1>2, <1>3, <1>4

LEMMA UiTypeOK ==
  ASSUME TypeOK,
         UiNext \/ SendsNote \/ ServerLists \/ ServerShutsDown \/ ServerBroadcasts
  PROVE  UiOK'
<1>1. UiOK
  BY DEF TypeOK
<1>2. Len(uiCommandQ) \in Nat
  BY <1>1, LenProperties DEF UiOK
<1> USE DEF tuiVars
<1>3. CASE UiDrains \/ UiPollsNothing \/ UiQuits \/ Logs
  BY <1>1, <1>3, Caps DEF UiOK, UiDrains, UiPollsNothing, UiQuits, Logs
<1>4. ASSUME NEW kind \in {"list", "broadcast", "shutdown"}, UiTypes(kind) PROVE UiOK'
  <2>1. typed' \in Numbers
    BY <1>1, <1>4, Caps DEF UiOK, UiTypes, Numbers
  <2>2. typing' \in Commands
    BY <1>4, <2>1 DEF UiTypes, Commands
  <2>3. typing' # None
    BY <2>2, NoneIsNothing
  <2> QED
    BY <1>1, <1>4, <2>1, <2>2, <2>3 DEF UiOK, UiTypes, Numbers
<1>5. CASE UiSends
  <2>1. typing \in Commands
    BY <1>1, <1>5 DEF UiOK, UiSends
  <2>2. /\ Append(uiCommandQ, typing) \in Seq(Commands)
        /\ Len(Append(uiCommandQ, typing)) = Len(uiCommandQ) + 1
    BY <1>1, <2>1, Appended DEF UiOK
  <2> QED
    BY <1>1, <1>2, <1>5, <2>2, Caps DEF UiOK, UiSends, OfferUiCommand, UiCommandAccepted
<1>6. CASE SendsNote
  BY <1>1, <1>6, Caps DEF UiOK, SendsNote, NoteAccepted
<1>7. CASE ServerLists \/ ServerShutsDown \/ ServerBroadcasts
  <2>1. /\ Tail(uiCommandQ) \in Seq(Commands)
        /\ Len(Tail(uiCommandQ)) = Len(uiCommandQ) - 1
    BY <1>1, <1>7, HeadAndTail
       DEF UiOK, ServerLists, ServerShutsDown, ServerBroadcasts, ServerTakes
  <2>2. uiCommandQ' = Tail(uiCommandQ) /\ UNCHANGED <<tui, uiQ, typed, typing>>
    BY <1>7 DEF ServerLists, ServerShutsDown, ServerBroadcasts, ServerTakes
  <2> QED
    BY <1>1, <1>2, <2>1, <2>2, Caps DEF UiOK
<1> QED
  BY <1>3, <1>4, <1>5, <1>6, <1>7 DEF UiNext

LEMMA StepTypeOK == TypeOK /\ [Next]_vars => TypeOK'
<1> SUFFICES ASSUME TypeOK, [Next]_vars PROVE TypeOK'
  OBVIOUS
<1> USE DEF ctlVars, netVars, srvVars, pubVars, tuiVars
<1>1. ASSUME NEW c \in Controllers, ControllerNext(c) PROVE TypeOK'
  <2>1. UNCHANGED <<srvVars, pubVars, tuiVars, orders, sentTo>>
    BY <1>1, ControllerFrame
  <2>2. SrvOK' /\ PubOK' /\ UiOK'
    BY <2>1 DEF TypeOK, SrvOK, PubOK, UiOK
  <2> QED
    BY <1>1, <2>2, ControllerTypeOK, NetworkTypeOK DEF TypeOK
<1>2. ASSUME NEW c \in Controllers, Disconnects(c) PROVE TypeOK'
  <2>1. UNCHANGED <<ctlVars, srvVars, pubVars, tuiVars, orders, sentTo>>
    BY <1>2 DEF Disconnects
  <2>2. CtlOK' /\ SrvOK' /\ PubOK' /\ UiOK'
    BY <2>1 DEF TypeOK, CtlOK, SrvOK, PubOK, UiOK
  <2> QED
    BY <1>2, <2>2, NetworkTypeOK DEF TypeOK
<1>3. CASE ServerNext
  <2>1. UNCHANGED ctlVars
    BY <1>3, ServerFrame
  <2>2. CtlOK'
    BY <2>1 DEF TypeOK, CtlOK
  <2>3. NetOK'
    BY <1>3, ServerFrame, NetworkTypeOK DEF TypeOK, NetOK
  <2>4. PubOK'
    BY <1>3, ServerFrame, PublisherTypeOK DEF TypeOK, PubOK
  <2>5. UiOK'
    BY <1>3, ServerFrame, UiTypeOK DEF TypeOK, UiOK
  <2> QED
    BY <1>3, <2>2, <2>3, <2>4, <2>5, ServerTypeOK DEF TypeOK
<1>4. CASE PublisherTakes \/ Publishes \/ PublishFails
  <2>1. UNCHANGED <<ctlVars, netVars, srvVars, tuiVars, orders, sentTo>>
    BY <1>4 DEF PublisherTakes, Publishes, PublishFails, PublisherDone
  <2> QED
    BY <1>4, <2>1, PublisherTypeOK, ZenonT(60) DEF TypeOK, CtlOK, NetOK, SrvOK, UiOK
<1>5. CASE UiNext
  <2>1. UNCHANGED <<ctlVars, netVars, srvVars, pubVars, orders, sentTo>>
    BY <1>5 DEF UiNext, UiDrains, UiPollsNothing, UiSends, UiQuits, Logs, UiTypes
  <2> QED
    BY <1>5, <2>1, UiTypeOK DEF TypeOK, CtlOK, NetOK, SrvOK, PubOK
<1>6. CASE UNCHANGED vars
  BY <1>6 DEF vars, TypeOK, CtlOK, NetOK, SrvOK, PubOK, UiOK
<1> QED
  BY <1>1, <1>2, <1>3, <1>4, <1>5, <1>6 DEF Next

(* The state keeps its shape, and no channel holds more than its capacity    *)
(* (esp_io.rs:27-28, server.rs:66, 166-167).                                 *)
THEOREM HostTyped == Spec => []TypeOK
BY InitTypeOK, StepTypeOK, PTL DEF Spec

-----------------------------------------------------------------------------
(* Queues that hold a piece of a longer sequence: q is s from k + 1 on.      *)
Piece(q, s, k) ==
  k + Len(q) <= Len(s) /\ \A i \in 1 .. Len(q) : q[i] = s[k + i]

LEMMA PieceHead ==
  ASSUME NEW S, NEW q \in Seq(S), NEW s \in Seq(S), NEW k \in Nat,
         Piece(q, s, k), q # <<>>
  PROVE  /\ k + 1 <= Len(s) /\ Head(q) = s[k + 1] /\ Piece(Tail(q), s, k + 1)
<1>1. /\ Len(q) \in Nat \ {0} /\ Len(s) \in Nat /\ Head(q) = q[1]
      /\ Len(Tail(q)) = Len(q) - 1 /\ \A i \in 1 .. Len(q) - 1 : Tail(q)[i] = q[i + 1]
  BY HeadAndTail, LenProperties
<1>2. k + 1 <= Len(s) /\ q[1] = s[k + 1]
  BY <1>1 DEF Piece
<1>3. ASSUME NEW i \in 1 .. Len(Tail(q)) PROVE Tail(q)[i] = s[(k + 1) + i]
  <2>1. i + 1 \in 1 .. Len(q) /\ k + (i + 1) = (k + 1) + i
    BY <1>1
  <2> QED
    BY <1>1, <2>1 DEF Piece
<1> QED
  BY <1>1, <1>2, <1>3 DEF Piece

LEMMA PieceAppend ==
  ASSUME NEW S, NEW q \in Seq(S), NEW s \in Seq(S), NEW k \in Nat, NEW e \in S,
         Piece(q, s, k), k + Len(q) + 1 <= Len(s), e = s[k + Len(q) + 1]
  PROVE  Piece(Append(q, e), s, k)
<1>1. /\ Len(Append(q, e)) = Len(q) + 1 /\ Append(q, e)[Len(q) + 1] = e
      /\ \A i \in 1 .. Len(q) : Append(q, e)[i] = q[i]
  BY Appended
<1>2. Len(q) \in Nat /\ Len(s) \in Nat
  BY LenProperties
<1>3. ASSUME NEW i \in 1 .. Len(q) + 1 PROVE Append(q, e)[i] = s[k + i]
  <2>1. CASE i = Len(q) + 1
    <3>1. k + i = k + Len(q) + 1
      BY <1>2, <2>1
    <3> QED
      BY <1>1, <2>1, <3>1
  <2>2. CASE i \in 1 .. Len(q)
    BY <1>1, <2>2 DEF Piece
  <2> QED
    BY <1>2, <2>1, <2>2
<1> QED
  BY <1>1, <1>2, <1>3 DEF Piece

LEMMA PieceGrow ==
  ASSUME NEW S, NEW q \in Seq(S), NEW s \in Seq(S), NEW k \in Nat, NEW e \in S,
         Piece(q, s, k)
  PROVE  Piece(q, Append(s, e), k)
<1>1. /\ Len(Append(s, e)) = Len(s) + 1
      /\ \A i \in 1 .. Len(s) : Append(s, e)[i] = s[i]
  BY Appended
<1>2. Len(q) \in Nat /\ Len(s) \in Nat
  BY LenProperties
<1>3. \A i \in 1 .. Len(q) : k + i \in 1 .. Len(s)
  BY <1>2 DEF Piece
<1> QED
  BY <1>1, <1>2, <1>3 DEF Piece

LEMMA PieceCut ==
  ASSUME NEW S, NEW q \in Seq(S), NEW s \in Seq(S), NEW k \in Nat,
         NEW m \in 0 .. Len(q), Piece(q, s, k)
  PROVE  Piece(SubSeq(q, 1, m), s, k)
<1>1. Len(q) \in Nat /\ Len(s) \in Nat
  BY LenProperties
<1>2. Len(SubSeq(q, 1, m)) = m /\ \A i \in 1 .. m : SubSeq(q, 1, m)[i] = q[i]
  BY Cut
<1> QED
  BY <1>1, <1>2 DEF Piece

LEMMA PrefixIsPiece ==
  ASSUME NEW S, NEW q \in Seq(S), NEW s \in Seq(S)
  PROVE  IsPrefix(q, s) <=> Piece(q, s, 0)
<1>1. Len(q) \in Nat /\ Len(s) \in Nat
  BY LenProperties
<1>2. Len(q) <= Len(s) =>
        /\ SubSeq(s, 1, Len(q)) \in Seq(S) /\ Len(SubSeq(s, 1, Len(q))) = Len(q)
        /\ \A i \in 1 .. Len(q) : SubSeq(s, 1, Len(q))[i] = s[i]
  BY <1>1, Cut
<1>3. Len(q) <= Len(s) =>
        (q = SubSeq(s, 1, Len(q)) <=> \A i \in 1 .. Len(q) : q[i] = s[i])
  BY <1>2, SeqEqual
<1> QED
  BY <1>1, <1>3 DEF IsPrefix, Piece

-----------------------------------------------------------------------------
(* A connection or a server that is gone does not come back. *)
LEMMA BrokenStays ==
  ASSUME TypeOK, [Next]_vars, NEW d \in Controllers, Broken(d)
  PROVE  Broken(d)'
<1> USE DEF ctlVars, netVars, srvVars, pubVars, tuiVars, ServerUp, ServerSelects
<1>1. CASE ServerNext
  <2>1. UNCHANGED lost
    BY <1>1, ServerFrame
  <2>2. ~ServerUp => ~ServerUp'
    <3>1. CASE SendsNote \/ ServerReceiveFails \/ BroadcastEnds \/ Aborts \/ ServerPublishes
      BY <3>1 DEF SendsNote, ServerReceiveFails, BroadcastEnds, Aborts, ServerPublishes
    <3>2. CASE ServerLists \/ ServerShutsDown \/ ServerBroadcasts
      BY <3>2 DEF ServerLists, ServerShutsDown, ServerBroadcasts, ServerTakes
    <3>3. ASSUME NEW c \in Controllers,
                 ServerReceives(c) \/ BroadcastSends(c) \/ BroadcastFails(c)
          PROVE  ~ServerUp => ~ServerUp'
      BY <3>3 DEF ServerReceives, BroadcastSends, BroadcastFails
    <3> QED
      BY <1>1, <3>1, <3>2, <3>3 DEF ServerNext
  <2> QED
    BY <2>1, <2>2 DEF Broken
<1>2. CASE UNCHANGED <<server, notes>> /\ lost \subseteq lost'
  BY <1>2 DEF Broken
<1>3. ServerNext \/ (UNCHANGED <<server, notes>> /\ lost \subseteq lost')
  <2>1. ASSUME NEW c \in Controllers, ControllerNext(c) \/ Disconnects(c)
        PROVE  UNCHANGED <<server, notes>> /\ lost \subseteq lost'
    BY <2>1, ControllerFrame DEF Disconnects
  <2>2. CASE PublisherTakes \/ Publishes \/ PublishFails
    BY <2>2 DEF PublisherTakes, Publishes, PublishFails, PublisherDone
  <2>3. CASE UiNext
    BY <2>3 DEF UiNext, UiDrains, UiPollsNothing, UiSends, UiQuits, Logs, UiTypes
  <2> QED
    BY <2>1, <2>2, <2>3 DEF Next, vars
<1> QED
  BY <1>1, <1>2, <1>3

(* What there is of the server's commands to c: written to the board, in the *)
(* writer's channel, in the loop's hand, and on the way.                     *)
Given(c) == Len(written[c])
Waiting(c) == Given(c) + Len(commandQ[c])
InHand(c) == Waiting(c) + (IF held[c] = None THEN 0 ELSE 1)

(* As long as the writer lives these are, one after the other, the commands  *)
(* sent to c, and all of them as long as the connection lives, too.          *)
CommandsOf(c) ==
  /\ Piece(written[c], sentTo[c], 0)
  /\ writer[c] = "up" =>
       /\ Piece(commandQ[c], sentTo[c], Given(c))
       /\ held[c] # None => held[c] = sentTo[c][Waiting(c) + 1]
       /\ Piece(down[c], sentTo[c], InHand(c))
       /\ Broken(c) \/ InHand(c) + Len(down[c]) = Len(sentTo[c])

CommandsInv == \A c \in Controllers : CommandsOf(c)

commandVars == <<written, commandQ, held, down, writer, sentTo>>

LEMMA CommandSteps ==
  ASSUME [Next]_vars
  PROVE  \/ UNCHANGED commandVars
         \/ \E c \in Controllers :
              \/ TakesCommand(c) \/ SendsCommand(c) \/ Writes(c) \/ WriteFails(c)
              \/ Disconnects(c) \/ BroadcastSends(c)
<1> USE DEF ctlVars, netVars, commandVars
<1>1. ASSUME NEW c \in Controllers, ControllerNext(c)
      PROVE  \/ UNCHANGED commandVars
             \/ TakesCommand(c) \/ SendsCommand(c) \/ Writes(c) \/ WriteFails(c)
  BY <1>1, Zenon
     DEF ControllerNext, LoopNext, WriterNext, BoardReports, Connects, ConnectFails,
         ReceiveFails, ForwardFails, LoopEnds, Forwards
<1>2. CASE ServerNext
  <2>1. ASSUME NEW c \in Controllers, ServerReceives(c) \/ BroadcastFails(c)
        PROVE  UNCHANGED commandVars
    BY <2>1, Zenon DEF ServerReceives, BroadcastFails
  <2> QED
    BY <1>2, <2>1, Zenon
       DEF ServerNext, SendsNote, ServerPublishes, ServerReceiveFails, ServerLists,
           ServerShutsDown, ServerBroadcasts, ServerTakes, BroadcastEnds, Aborts
<1>3. CASE PublisherTakes \/ Publishes \/ PublishFails
  BY <1>3, Zenon DEF PublisherTakes, Publishes, PublishFails, PublisherDone
<1>4. CASE UiNext
  BY <1>4, Zenon DEF UiNext, UiDrains, UiPollsNothing, UiSends, UiQuits, Logs, UiTypes
<1>5. CASE UNCHANGED vars
  BY <1>5, Zenon DEF vars
<1> QED
  BY <1>1, <1>2, <1>3, <1>4, <1>5, Zenon DEF Next

LEMMA CommandsKept ==
  ASSUME NEW d \in Controllers, CommandsOf(d), Broken(d) => Broken(d)',
         written'[d] = written[d], commandQ'[d] = commandQ[d], held'[d] = held[d],
         down'[d] = down[d], writer'[d] = writer[d], sentTo'[d] = sentTo[d]
  PROVE  CommandsOf(d)'
BY DEF CommandsOf, Given, Waiting, InHand

LEMMA StepCommands ==
  ASSUME TypeOK, CommandsInv, [Next]_vars
  PROVE  CommandsInv'
<1> SUFFICES ASSUME NEW d \in Controllers PROVE CommandsOf(d)'
  BY DEF CommandsInv
<1>1. Broken(d) => Broken(d)'
  BY BrokenStays
<1>2. CommandsOf(d)
  BY DEF CommandsInv
<1>3. /\ written \in [Controllers -> Seq(Numbers)] /\ sentTo \in [Controllers -> Seq(Numbers)]
      /\ commandQ \in [Controllers -> Seq(Numbers)] /\ down \in [Controllers -> Seq(Numbers)]
      /\ held \in [Controllers -> Numbers \cup {None}]
      /\ writer \in [Controllers -> {"up", "ended"}]
      /\ order \in Numbers \cup {0}
  BY DEF TypeOK, CtlOK, NetOK, SrvOK
<1>4. /\ written[d] \in Seq(Numbers) /\ sentTo[d] \in Seq(Numbers)
      /\ commandQ[d] \in Seq(Numbers) /\ down[d] \in Seq(Numbers)
  BY <1>3
<1>5. /\ Len(written[d]) \in Nat /\ Len(sentTo[d]) \in Nat
      /\ Len(commandQ[d]) \in Nat /\ Len(down[d]) \in Nat
  BY <1>4, LenProperties
<1>6. None \notin Numbers
  BY NoneIsNothing
<1>7. Given(d) \in Nat /\ Waiting(d) \in Nat /\ InHand(d) \in Nat
  <2>1. Given(d) \in Nat
    BY <1>5 DEF Given
  <2>2. Waiting(d) \in Nat
    BY <1>5, <2>1 DEF Waiting
  <2> QED
    BY <2>1, <2>2 DEF InHand
<1>8. CASE UNCHANGED commandVars
  BY <1>1, <1>2, <1>8, CommandsKept DEF commandVars
<1>9. ASSUME NEW c \in Controllers, c # d,
             \/ TakesCommand(c) \/ SendsCommand(c) \/ Writes(c) \/ WriteFails(c)
             \/ Disconnects(c) \/ BroadcastSends(c)
      PROVE  CommandsOf(d)'
  <2>1. /\ written'[d] = written[d] /\ commandQ'[d] = commandQ[d] /\ held'[d] = held[d]
        /\ down'[d] = down[d] /\ writer'[d] = writer[d] /\ sentTo'[d] = sentTo[d]
    BY <1>3, <1>9
       DEF TakesCommand, SendsCommand, OfferCommand, CommandAccepted, Writes, WriteFails, WriterTakes,
           Disconnects, BroadcastSends, ctlVars, netVars
  <2> QED
    BY <1>1, <1>2, <2>1, CommandsKept
<1>10. CASE TakesCommand(d)
  <2>1. /\ held[d] = None /\ down[d] # <<>>
        /\ held'[d] = Head(down[d]) /\ down'[d] = Tail(down[d])
        /\ written' = written /\ commandQ' = commandQ /\ writer' = writer /\ sentTo' = sentTo
    BY <1>3, <1>10 DEF TakesCommand, Selects
  <2>2. Head(down[d]) # None /\ Len(Tail(down[d])) = Len(down[d]) - 1
    BY <1>4, <1>6, <2>1, HeadAndTail
  <2>3. CASE writer[d] = "up"
    <3>1. InHand(d) = Waiting(d)
      BY <1>7, <2>1 DEF InHand
    <3>2. /\ Head(down[d]) = sentTo[d][Waiting(d) + 1]
          /\ Piece(Tail(down[d]), sentTo[d], Waiting(d) + 1)
      BY <1>2, <1>4, <1>7, <2>1, <2>3, <3>1, PieceHead DEF CommandsOf
    <3>3. InHand(d)' = Waiting(d) + 1 /\ Waiting(d)' = Waiting(d) /\ Given(d)' = Given(d)
      BY <2>1, <2>2 DEF InHand, Waiting, Given
    <3> QED
      BY <1>1, <1>2, <1>5, <1>7, <2>1, <2>2, <2>3, <3>1, <3>2, <3>3 DEF CommandsOf
  <2> QED
    BY <1>2, <1>3, <2>1, <2>3 DEF CommandsOf
<1>11. CASE SendsCommand(d)
  <2>1. /\ held[d] # None /\ held'[d] = None /\ OfferCommand(d)
        /\ written' = written /\ down' = down /\ writer' = writer /\ sentTo' = sentTo
    BY <1>3, <1>11 DEF SendsCommand, netVars
  <2>2. CASE writer[d] = "up"
    <3>1. commandQ'[d] = Append(commandQ[d], held[d])
      BY <1>3, <2>1, <2>2 DEF OfferCommand, CommandAccepted
    <3>2. /\ held[d] \in Numbers /\ held[d] = sentTo[d][Waiting(d) + 1]
          /\ InHand(d) = Waiting(d) + 1 /\ Waiting(d) + 1 <= Len(sentTo[d])
      BY <1>2, <1>3, <1>5, <1>7, <2>1, <2>2 DEF CommandsOf, InHand, Piece
    <3>3. Piece(Append(commandQ[d], held[d]), sentTo[d], Given(d))
      BY <1>2, <1>4, <1>7, <2>2, <3>2, PieceAppend DEF CommandsOf, Waiting
    <3>4. Len(commandQ'[d]) = Len(commandQ[d]) + 1
      BY <1>4, <3>1, <3>2, Appended
    <3>5. Given(d)' = Given(d)
      BY <2>1 DEF Given
    <3>6. Waiting(d)' = Waiting(d) + 1
      BY <1>5, <1>7, <3>4, <3>5 DEF Waiting
    <3>7. InHand(d)' = InHand(d)
      BY <1>7, <2>1, <3>2, <3>6 DEF InHand
    <3> QED
      BY <1>1, <1>2, <2>1, <2>2, <3>1, <3>3, <3>5, <3>6, <3>7 DEF CommandsOf
  <2> QED
    BY <1>2, <1>3, <2>1, <2>2 DEF CommandsOf
<1>12. ASSUME Writes(d) \/ WriteFails(d) PROVE CommandsOf(d)'
  <2>1. /\ writer[d] = "up" /\ commandQ[d] # <<>>
        /\ held' = held /\ down' = down /\ sentTo' = sentTo
    BY <1>12 DEF Writes, WriteFails, WriterTakes, netVars
  <2>2. /\ Given(d) + 1 <= Len(sentTo[d])
        /\ Head(commandQ[d]) \in Numbers /\ Head(commandQ[d]) = sentTo[d][Given(d) + 1]
        /\ Piece(Tail(commandQ[d]), sentTo[d], Given(d) + 1)
    BY <1>2, <1>4, <1>7, <2>1, HeadAndTail, PieceHead, SMTT(60) DEF CommandsOf
  <2>3. Piece(Append(written[d], Head(commandQ[d])), sentTo[d], 0)
    <3>1. Piece(written[d], sentTo[d], 0)
      BY <1>2 DEF CommandsOf
    <3>2. 0 + Len(written[d]) + 1 = Given(d) + 1
      BY <1>5 DEF Given
    <3> QED
      BY <1>4, <2>2, <3>1, <3>2, PieceAppend
  <2>4. CASE Writes(d)
    <3>1. /\ written'[d] = Append(written[d], Head(commandQ[d]))
          /\ commandQ'[d] = Tail(commandQ[d]) /\ writer' = writer
      BY <1>3, <2>4 DEF Writes
    <3>2. /\ Len(written'[d]) = Len(written[d]) + 1
          /\ Len(commandQ'[d]) = Len(commandQ[d]) - 1
      BY <1>4, <2>1, <2>2, <3>1, HeadAndTail, Appended
    <3>3. Given(d)' = Given(d) + 1
      BY <3>2 DEF Given
    <3>4. Waiting(d)' = Waiting(d)
      BY <1>5, <1>7, <3>2, <3>3 DEF Waiting
    <3>5. InHand(d)' = InHand(d)
      BY <2>1, <3>4 DEF InHand
    <3> QED
      BY <1>1, <1>2, <2>1, <2>2, <2>3, <3>1, <3>3, <3>4, <3>5 DEF CommandsOf
  <2>5. CASE WriteFails(d)
    <3>1. /\ writer'[d] = "ended"
          /\ written'[d] \in {written[d], Append(written[d], Head(commandQ[d]))}
      BY <1>3, <2>5 DEF WriteFails
    <3> QED
      BY <1>2, <2>1, <2>3, <3>1 DEF CommandsOf
  <2> QED
    BY <1>12, <2>4, <2>5
<1>13. CASE Disconnects(d)
  <2>1. PICK m \in 0 .. Len(down[d]) : down' = [down EXCEPT ![d] = SubSeq(@, 1, m)]
    BY <1>13 DEF Disconnects
  <2>2. /\ down'[d] = SubSeq(down[d], 1, m) /\ Broken(d)'
        /\ UNCHANGED <<written, commandQ, held, writer, sentTo>>
    BY <1>3, <1>13, <2>1 DEF Disconnects, Broken, ctlVars
  <2>3. writer[d] = "up" => Piece(SubSeq(down[d], 1, m), sentTo[d], InHand(d))
    BY <1>2, <1>4, <1>7, PieceCut DEF CommandsOf
  <2> QED
    BY <1>2, <2>2, <2>3 DEF CommandsOf, InHand, Waiting, Given
<1>14. CASE BroadcastSends(d)
  <2>1. /\ order \in Numbers /\ sentTo'[d] = Append(sentTo[d], order)
        /\ UNCHANGED <<written, commandQ, held, writer>>
        /\ down'[d] = IF Broken(d) THEN down[d] ELSE Append(down[d], order)
    BY <1>3, <1>14 DEF BroadcastSends, ctlVars, TypeOK, SrvOK
  <2>2. /\ Len(sentTo'[d]) = Len(sentTo[d]) + 1 /\ sentTo'[d][Len(sentTo[d]) + 1] = order
        /\ \A i \in 1 .. Len(sentTo[d]) : sentTo'[d][i] = sentTo[d][i]
        /\ sentTo'[d] \in Seq(Numbers)
    BY <1>4, <2>1, Appended
  <2>3. Piece(written[d], sentTo'[d], 0)
    BY <1>2, <1>4, <2>1, PieceGrow DEF CommandsOf
  <2>4. Given(d)' = Given(d) /\ Waiting(d)' = Waiting(d) /\ InHand(d)' = InHand(d)
    BY <2>1 DEF Given, Waiting, InHand
  <2>5. ASSUME writer[d] = "up"
        PROVE  /\ Piece(commandQ[d], sentTo'[d], Given(d))
               /\ Piece(down[d], sentTo'[d], InHand(d))
               /\ held[d] # None => held[d] = sentTo'[d][Waiting(d) + 1]
    <3>1. Piece(commandQ[d], sentTo'[d], Given(d)) /\ Piece(down[d], sentTo'[d], InHand(d))
      BY <1>2, <1>4, <1>7, <2>1, <2>5, PieceGrow DEF CommandsOf
    <3>2. held[d] # None => Waiting(d) + 1 \in 1 .. Len(sentTo[d])
      BY <1>2, <1>5, <1>7, <2>5 DEF CommandsOf, InHand, Piece
    <3> QED
      BY <1>2, <2>2, <2>5, <3>1, <3>2 DEF CommandsOf
  <2>6. CASE Broken(d)
    BY <1>1, <2>1, <2>3, <2>4, <2>5, <2>6 DEF CommandsOf
  <2>7. CASE ~Broken(d)
    <3>1. down'[d] = Append(down[d], order) /\ Len(down'[d]) = Len(down[d]) + 1
      BY <1>4, <2>1, <2>7, Appended
    <3>2. ASSUME writer[d] = "up"
          PROVE  /\ Piece(down'[d], sentTo'[d], InHand(d))
                 /\ InHand(d) + Len(down'[d]) = Len(sentTo'[d])
      <4>1. InHand(d) + Len(down[d]) = Len(sentTo[d])
        BY <1>2, <2>7, <3>2 DEF CommandsOf
      <4>2. /\ InHand(d) + Len(down[d]) + 1 = Len(sentTo'[d])
            /\ InHand(d) + Len(down[d]) + 1 <= Len(sentTo'[d])
            /\ order = sentTo'[d][InHand(d) + Len(down[d]) + 1]
        BY <1>5, <1>7, <2>2, <4>1
      <4>3. Piece(down[d], sentTo'[d], InHand(d)) /\ sentTo'[d] \in Seq(Numbers)
        BY <2>2, <2>5, <3>2
      <4>4. Piece(Append(down[d], order), sentTo'[d], InHand(d))
        BY <1>4, <1>7, <2>1, <4>2, <4>3, PieceAppend, Zenon
      <4> QED
        BY <1>5, <1>7, <3>1, <4>2, <4>4
    <3> QED
      BY <2>1, <2>3, <2>4, <2>5, <3>2 DEF CommandsOf
  <2> QED
    BY <2>6, <2>7
<1> QED
  BY <1>8, <1>9, <1>10, <1>11, <1>12, <1>13, <1>14, CommandSteps

LEMMA CommandsHold == Spec => []CommandsInv
<1>1. Init => CommandsInv
  <2> SUFFICES ASSUME Init, NEW c \in Controllers PROVE CommandsOf(c)
    BY DEF CommandsInv
  <2>1. /\ written[c] = <<>> /\ commandQ[c] = <<>> /\ down[c] = <<>> /\ sentTo[c] = <<>>
        /\ held[c] = None
    BY DEF Init
  <2> QED
    BY <2>1 DEF CommandsOf, Piece, Given, Waiting, InHand
<1>2. TypeOK /\ CommandsInv /\ [Next]_vars => CommandsInv'
  BY StepCommands
<1> QED
  BY <1>1, <1>2, HostTyped, PTL DEF Spec

(* A board gets the server's commands in order and none after one it missed  *)
(* (server.rs:139-142, controller.rs:82-89, esp_io.rs:105-115).              *)
THEOREM CommandsGivenInOrder == Spec => []CommandsInOrder
<1>1. TypeOK /\ CommandsInv => CommandsInOrder
  <2> SUFFICES ASSUME TypeOK, CommandsInv, NEW c \in Controllers
               PROVE  IsPrefix(written[c], sentTo[c])
    BY DEF CommandsInOrder
  <2>1. written[c] \in Seq(Numbers) /\ sentTo[c] \in Seq(Numbers)
    BY DEF TypeOK, CtlOK, SrvOK
  <2> QED
    BY <2>1, PrefixIsPiece DEF CommandsInv, CommandsOf
<1> QED
  BY <1>1, CommandsHold, HostTyped, PTL

-----------------------------------------------------------------------------
(* The numbers of the commands, which grow from the UI's hand back through   *)
(* its channel to the command last broadcast.                                *)
NumbersInv ==
  /\ order <= typed
  /\ \A i \in 1 .. Len(uiCommandQ) : order < uiCommandQ[i].n /\ uiCommandQ[i].n <= typed
  /\ \A i, j \in 1 .. Len(uiCommandQ) : i < j => uiCommandQ[i].n < uiCommandQ[j].n
  /\ typing # None =>
       /\ typing.n = typed /\ order < typed
       /\ \A i \in 1 .. Len(uiCommandQ) : uiCommandQ[i].n < typed

numberVars == <<order, typed, typing, uiCommandQ>>

LEMMA NumberSteps ==
  ASSUME [Next]_vars
  PROVE  \/ UNCHANGED numberVars
         \/ ServerLists \/ ServerShutsDown \/ ServerBroadcasts \/ UiSends
         \/ \E kind \in {"list", "broadcast", "shutdown"} : UiTypes(kind)
<1> USE DEF srvVars, tuiVars, numberVars
<1>1. ASSUME NEW c \in Controllers, ControllerNext(c) \/ Disconnects(c)
      PROVE  UNCHANGED numberVars
  BY <1>1, ControllerFrame DEF Disconnects
<1>2. CASE ServerNext
  <2>1. ASSUME NEW c \in Controllers,
               ServerReceives(c) \/ BroadcastSends(c) \/ BroadcastFails(c)
        PROVE  UNCHANGED numberVars
    BY <2>1, Zenon DEF ServerReceives, BroadcastSends, BroadcastFails
  <2> QED
    BY <1>2, <2>1, Zenon
       DEF ServerNext, SendsNote, ServerPublishes, ServerReceiveFails, BroadcastEnds, Aborts
<1>3. CASE PublisherTakes \/ Publishes \/ PublishFails
  BY <1>3, Zenon DEF PublisherTakes, Publishes, PublishFails, PublisherDone
<1>4. CASE UiNext
  BY <1>4, Zenon DEF UiNext, UiDrains, UiPollsNothing, UiQuits, Logs
<1>5. CASE UNCHANGED vars
  BY <1>5, Zenon DEF vars
<1> QED
  BY <1>1, <1>2, <1>3, <1>4, <1>5, Zenon DEF Next

LEMMA StepNumbers ==
  ASSUME TypeOK, NumbersInv, [Next]_vars
  PROVE  NumbersInv'
<1>1. /\ order \in Nat /\ typed \in Nat /\ typing \in Commands \cup {None}
      /\ uiCommandQ \in Seq(Commands) /\ Len(uiCommandQ) \in Nat
  BY LenProperties DEF TypeOK, SrvOK, UiOK, Numbers
<1>2. \A i \in 1 .. Len(uiCommandQ) : uiCommandQ[i].n \in Nat
  <2>1. \A i \in 1 .. Len(uiCommandQ) : uiCommandQ[i] \in Commands
    BY <1>1, ElementOfSeq
  <2> QED
    BY <2>1 DEF Commands, Numbers
<1>3. CASE UNCHANGED numberVars
  BY <1>3 DEF numberVars, NumbersInv
<1>4. CASE ServerLists \/ ServerShutsDown \/ ServerBroadcasts
  <2>1. /\ uiCommandQ # <<>> /\ uiCommandQ' = Tail(uiCommandQ)
        /\ order' \in {order, Head(uiCommandQ).n} /\ UNCHANGED <<typed, typing>>
    BY <1>4 DEF ServerLists, ServerShutsDown, ServerBroadcasts, ServerTakes
  <2>2. /\ Head(uiCommandQ) = uiCommandQ[1] /\ Len(uiCommandQ') = Len(uiCommandQ) - 1
        /\ Len(uiCommandQ) \in Nat \ {0}
        /\ \A i \in 1 .. Len(uiCommandQ) - 1 : uiCommandQ'[i] = uiCommandQ[i + 1]
    BY <1>1, <2>1, HeadAndTail
  <2>3. \A i \in 1 .. Len(uiCommandQ) - 1 : i + 1 \in 1 .. Len(uiCommandQ) /\ 1 < i + 1
    BY <2>2
  <2>4. /\ order' <= typed /\ order <= order' /\ order' <= uiCommandQ[1].n
        /\ \A i \in 1 .. Len(uiCommandQ) - 1 : order' < uiCommandQ[i + 1].n
    BY <1>1, <1>2, <2>1, <2>2, <2>3 DEF NumbersInv
  <2>5. typing # None => order' < typed
    BY <1>1, <1>2, <2>1, <2>2 DEF NumbersInv
  <2> QED
    BY <1>1, <1>2, <2>1, <2>2, <2>3, <2>4, <2>5 DEF NumbersInv
<1>5. ASSUME NEW kind \in {"list", "broadcast", "shutdown"}, UiTypes(kind)
      PROVE  NumbersInv'
  <2>1. /\ typed' = typed + 1 /\ typing'.n = typed' /\ UNCHANGED <<order, uiCommandQ>>
    BY <1>5 DEF UiTypes, srvVars
  <2> QED
    BY <1>1, <1>2, <2>1 DEF NumbersInv
<1>6. CASE UiSends
  <2>1. /\ typing # None /\ typing' = None /\ UNCHANGED <<order, typed>>
        /\ uiCommandQ' = uiCommandQ \/ uiCommandQ' = Append(uiCommandQ, typing)
    BY <1>6 DEF UiSends, OfferUiCommand, UiCommandAccepted, srvVars, TypeOK, UiOK
  <2>2. CASE uiCommandQ' = Append(uiCommandQ, typing)
    <3>1. /\ Len(uiCommandQ') = Len(uiCommandQ) + 1
          /\ uiCommandQ'[Len(uiCommandQ) + 1] = typing
          /\ \A i \in 1 .. Len(uiCommandQ) : uiCommandQ'[i] = uiCommandQ[i]
      BY <1>1, <2>1, <2>2, Appended
    <3>2. \A i \in 1 .. Len(uiCommandQ) + 1 : i \in 1 .. Len(uiCommandQ) \/ i = Len(uiCommandQ) + 1
      BY <1>1
    <3>3. typing.n = typed /\ order < typed
      BY <2>1 DEF NumbersInv
    <3> QED
      BY <1>1, <1>2, <2>1, <3>1, <3>2, <3>3, SMTT(60) DEF NumbersInv
  <2>3. CASE uiCommandQ' = uiCommandQ
    BY <2>1, <2>3 DEF NumbersInv
  <2> QED
    BY <2>1, <2>2, <2>3
<1> QED
  BY <1>3, <1>4, <1>5, <1>6, NumberSteps

LEMMA NumbersHold == Spec => []NumbersInv
<1>1. Init => NumbersInv
  BY DEF Init, NumbersInv
<1>2. TypeOK /\ NumbersInv /\ [Next]_vars => NumbersInv'
  BY StepNumbers
<1> QED
  BY <1>1, <1>2, HostTyped, PTL DEF Spec

(* What a client has been sent is what was broadcast to it, but for the      *)
(* command under way, and grows.                                             *)
MeantFor(c) == {orders[i].n : i \in {j \in DOMAIN orders : c \in orders[j].to}}

SentOf(c) ==
  /\ \A i \in 1 .. Len(sentTo[c]) : sentTo[c][i] <= order
  /\ \A i, j \in 1 .. Len(sentTo[c]) : i < j => sentTo[c][i] < sentTo[c][j]
  /\ server \in {"select", "publish"} => ToSet(sentTo[c]) = MeantFor(c)
  /\ server = "broadcast" /\ c \notin todo => ToSet(sentTo[c]) = MeantFor(c)
  /\ server = "broadcast" /\ c \in todo =>
       /\ MeantFor(c) = ToSet(sentTo[c]) \cup {order}
       /\ \A i \in 1 .. Len(sentTo[c]) : sentTo[c][i] < order

SentInv == \A c \in Controllers : SentOf(c)

(* What a step may do to a broadcast. *)
LEMMA BroadcastSteps ==
  ASSUME [Next]_vars, server \in {"select", "publish", "broadcast", "ended"}
  PROVE  \/ ServerBroadcasts \/ \E c \in Controllers : BroadcastSends(c)
         \/ /\ UNCHANGED <<order, orders, sentTo>>
            /\ \/ server' = "ended"
               \/ server \in {"select", "publish"} /\ server' \in {"select", "publish"}
               \/ server = "broadcast" /\ todo = {} /\ server' = "select"
               \/ UNCHANGED <<server, todo>>
<1> USE DEF srvVars
<1>1. ASSUME NEW c \in Controllers, ControllerNext(c) \/ Disconnects(c)
      PROVE  UNCHANGED <<order, orders, sentTo, server, todo>>
  BY <1>1, ControllerFrame DEF Disconnects
<1>2. CASE ServerNext
  <2>1. ASSUME NEW c \in Controllers, ServerReceives(c)
        PROVE  /\ UNCHANGED <<order, orders, sentTo>>
               /\ server = "select" /\ server' = "publish"
    BY <2>1, Zenon DEF ServerReceives, ServerSelects
  <2>2. ASSUME NEW c \in Controllers, BroadcastFails(c)
        PROVE  UNCHANGED <<order, orders, sentTo>> /\ server' = "ended"
    BY <2>2, Zenon DEF BroadcastFails
  <2>3. CASE ServerPublishes
    BY <2>3, Zenon DEF ServerPublishes
  <2>4. CASE ServerReceiveFails \/ Aborts
    BY <2>4, Zenon DEF ServerReceiveFails, Aborts
  <2>5. CASE SendsNote \/ ServerLists \/ ServerShutsDown \/ BroadcastEnds
    BY <2>5, Zenon
       DEF SendsNote, ServerLists, ServerShutsDown, ServerTakes, BroadcastEnds
  <2> QED
    BY <1>2, <2>1, <2>2, <2>3, <2>4, <2>5 DEF ServerNext
<1>3. CASE PublisherTakes \/ Publishes \/ PublishFails
  BY <1>3, Zenon DEF PublisherTakes, Publishes, PublishFails, PublisherDone
<1>4. CASE UiNext
  BY <1>4, Zenon DEF UiNext, UiDrains, UiPollsNothing, UiSends, UiQuits, Logs, UiTypes
<1>5. CASE UNCHANGED vars
  BY <1>5, Zenon DEF vars
<1> QED
  BY <1>1, <1>2, <1>3, <1>4, <1>5, Zenon DEF Next

LEMMA ToSetAppend ==
  ASSUME NEW S, NEW s \in Seq(S), NEW e \in S
  PROVE  ToSet(Append(s, e)) = ToSet(s) \cup {e}
<1>1. /\ Append(s, e) \in Seq(S) /\ Len(Append(s, e)) = Len(s) + 1
      /\ \A i \in 1 .. Len(s) : Append(s, e)[i] = s[i]
      /\ Append(s, e)[Len(s) + 1] = e
  BY Appended
<1>2. Len(s) \in Nat /\ DOMAIN s = 1 .. Len(s) /\ DOMAIN Append(s, e) = 1 .. Len(s) + 1
  BY <1>1, LenProperties
<1>3. 1 .. Len(s) + 1 = (1 .. Len(s)) \cup {Len(s) + 1}
  BY <1>2
<1> QED
  BY <1>1, <1>2, <1>3 DEF ToSet

LEMMA MeantForAppend ==
  ASSUME TypeOK, NEW c \in Controllers, NEW o \in [n : Numbers, to : SUBSET Controllers],
         orders' = Append(orders, o)
  PROVE  MeantFor(c)' = MeantFor(c) \cup (IF c \in o.to THEN {o.n} ELSE {})
<1> DEFINE O == [n : Numbers, to : SUBSET Controllers]
<1>1. /\ orders \in Seq(O) /\ orders' \in Seq(O) /\ Len(orders') = Len(orders) + 1
      /\ \A i \in 1 .. Len(orders) : orders'[i] = orders[i]
      /\ orders'[Len(orders) + 1] = o
  BY Appended DEF TypeOK, SrvOK
<1>2. /\ Len(orders) \in Nat /\ DOMAIN orders = 1 .. Len(orders)
      /\ DOMAIN orders' = 1 .. Len(orders) + 1
  BY <1>1, LenProperties
<1> HIDE DEF O
<1>3. 1 .. Len(orders) + 1 = (1 .. Len(orders)) \cup {Len(orders) + 1}
  BY <1>2
<1> QED
  BY <1>1, <1>2, <1>3 DEF MeantFor

LEMMA StepSent ==
  ASSUME TypeOK, NumbersInv, SentInv, [Next]_vars
  PROVE  SentInv'
<1> SUFFICES ASSUME NEW d \in Controllers PROVE SentOf(d)'
  BY DEF SentInv
<1>1. SentOf(d)
  BY DEF SentInv
<1>2. /\ server \in {"select", "publish", "broadcast", "ended"}
      /\ order \in Nat /\ todo \subseteq clients /\ clients \subseteq Controllers
      /\ sentTo \in [Controllers -> Seq(Numbers)]
      /\ uiCommandQ \in Seq(Commands) /\ Len(uiCommandQ) \in Nat
  BY LenProperties DEF TypeOK, SrvOK, UiOK, Numbers
<1>3. /\ sentTo[d] \in Seq(Numbers) /\ Len(sentTo[d]) \in Nat
      /\ DOMAIN sentTo[d] = 1 .. Len(sentTo[d])
      /\ \A i \in 1 .. Len(sentTo[d]) : sentTo[d][i] \in Nat
  <2>1. sentTo[d] \in Seq(Numbers)
    BY <1>2
  <2>2. \A i \in 1 .. Len(sentTo[d]) : sentTo[d][i] \in Numbers
    BY <2>1, ElementOfSeq
  <2> QED
    BY <2>1, <2>2, LenProperties DEF Numbers
<1>4. CASE ServerBroadcasts
  <2>1. /\ uiCommandQ # <<>> /\ order' = Head(uiCommandQ).n
        /\ server = "select" /\ server' = "broadcast" /\ todo' = clients
        /\ sentTo' = sentTo /\ orders' = Append(orders, [n |-> order', to |-> clients])
    BY <1>4 DEF ServerBroadcasts, ServerTakes, ServerSelects
  <2>2. Head(uiCommandQ) \in Commands /\ Head(uiCommandQ) = uiCommandQ[1] /\ Len(uiCommandQ) >= 1
    BY <1>2, <2>1, HeadAndTail
  <2>3. order' \in Numbers /\ order' \in Nat /\ order < order'
    BY <2>1, <2>2, <1>2 DEF NumbersInv, Commands, Numbers
  <2>4. MeantFor(d)' = MeantFor(d) \cup (IF d \in clients THEN {order'} ELSE {})
    <3> DEFINE o == [n |-> order', to |-> clients]
    <3>1. o \in [n : Numbers, to : SUBSET Controllers] /\ o.n = order' /\ o.to = clients
      BY <1>2, <2>3
    <3>2. orders' = Append(orders, o)
      BY <2>1
    <3> HIDE DEF o
    <3> QED
      BY <3>1, <3>2, MeantForAppend
  <2>5. \A i \in 1 .. Len(sentTo[d]) : sentTo[d][i] < order'
    BY <1>1, <1>2, <1>3, <2>3 DEF SentOf
  <2> QED
    BY <1>1, <1>3, <2>1, <2>3, <2>4, <2>5 DEF SentOf
<1>5. ASSUME NEW c \in Controllers, BroadcastSends(c) PROVE SentOf(d)'
  <2>1. /\ server = "broadcast" /\ c \in todo /\ todo' = todo \ {c}
        /\ sentTo' = [sentTo EXCEPT ![c] = Append(@, order)]
        /\ UNCHANGED <<server, order, orders>> /\ order \in Numbers
    BY <1>5 DEF BroadcastSends, TypeOK, SrvOK
  <2>2. MeantFor(d)' = MeantFor(d)
    BY <2>1 DEF MeantFor
  <2>3. CASE c # d
    <3>1. sentTo'[d] = sentTo[d]
      BY <1>2, <2>1, <2>3
    <3> QED
      BY <1>1, <2>1, <2>2, <2>3, <3>1 DEF SentOf
  <2>4. CASE c = d
    <3>1. sentTo'[d] = Append(sentTo[d], order)
      BY <1>2, <2>1, <2>4
    <3>2. /\ Len(sentTo'[d]) = Len(sentTo[d]) + 1 /\ sentTo'[d][Len(sentTo[d]) + 1] = order
          /\ \A i \in 1 .. Len(sentTo[d]) : sentTo'[d][i] = sentTo[d][i]
      BY <1>3, <2>1, <3>1, Appended
    <3>3. ToSet(sentTo'[d]) = ToSet(sentTo[d]) \cup {order}
      BY <1>3, <2>1, <3>1, ToSetAppend
    <3>4. \A i \in 1 .. Len(sentTo[d]) + 1 : i \in 1 .. Len(sentTo[d]) \/ i = Len(sentTo[d]) + 1
      BY <1>3
    <3>5. \A i \in 1 .. Len(sentTo[d]) : sentTo[d][i] < order
      BY <1>1, <2>1, <2>4 DEF SentOf
    <3>6. \A i \in 1 .. Len(sentTo'[d]) : sentTo'[d][i] <= order
      BY <1>2, <1>3, <3>2, <3>4, <3>5, SMTT(60)
    <3>7. \A i, j \in 1 .. Len(sentTo'[d]) : i < j => sentTo'[d][i] < sentTo'[d][j]
      <4>1. \A i, j \in 1 .. Len(sentTo[d]) : i < j => sentTo[d][i] < sentTo[d][j]
        BY <1>1 DEF SentOf
      <4>2. Len(sentTo[d]) \in Nat
        BY <1>3, LenProperties
      <4> DEFINE n == Len(sentTo[d])  m == Len(sentTo'[d])  s == sentTo[d]  t == sentTo'[d]
      <4>3. /\ n \in Nat /\ m = n + 1 /\ t[n + 1] = order
            /\ \A i \in 1 .. n : t[i] = s[i] /\ s[i] < order
            /\ \A i, j \in 1 .. n : i < j => s[i] < s[j]
        BY <3>2, <3>5, <4>1, <4>2
      <4> SUFFICES \A i, j \in 1 .. m : i < j => t[i] < t[j]
        OBVIOUS
      <4> HIDE DEF n, m, s, t
      <4>4. ASSUME NEW i \in 1 .. m, NEW j \in 1 .. m, i < j PROVE t[i] < t[j]
        <5>1. i \in 1 .. n /\ (j \in 1 .. n \/ j = n + 1)
          BY <4>3, <4>4
        <5> QED
          BY <4>3, <4>4, <5>1
      <4> QED
        BY <4>4
    <3> QED
      BY <1>1, <2>1, <2>2, <2>4, <3>3, <3>6, <3>7 DEF SentOf
  <2> QED
    BY <2>3, <2>4
<1>6. ASSUME UNCHANGED <<order, orders, sentTo>>,
             \/ server' = "ended"
             \/ server \in {"select", "publish"} /\ server' \in {"select", "publish"}
             \/ server = "broadcast" /\ todo = {} /\ server' = "select"
             \/ UNCHANGED <<server, todo>>
      PROVE  SentOf(d)'
  <2>1. MeantFor(d)' = MeantFor(d)
    BY <1>6 DEF MeantFor
  <2> QED
    BY <1>1, <1>6, <2>1 DEF SentOf
<1> QED
  BY <1>2, <1>4, <1>5, <1>6, BroadcastSteps

LEMMA SentHolds == Spec => []SentInv
<1>1. Init => SentInv
  <2> SUFFICES ASSUME Init, NEW c \in Controllers PROVE SentOf(c)
    BY DEF SentInv
  <2>1. sentTo[c] = <<>> /\ orders = <<>> /\ server = "select"
    BY DEF Init
  <2> QED
    BY <2>1 DEF SentOf, MeantFor, ToSet
<1>2. TypeOK /\ NumbersInv /\ SentInv /\ [Next]_vars => SentInv'
  BY StepSent
<1> QED
  BY <1>1, <1>2, NumbersHold, HostTyped, PTL DEF Spec

(* Back at its select, the server has sent every broadcast to every client   *)
(* it had when the broadcast began, once and in order (server.rs:139-144).   *)
THEOREM BroadcastsReachAll == Spec => []BroadcastsComplete
<1>1. TypeOK /\ SentInv => BroadcastsComplete
  <2> SUFFICES ASSUME TypeOK, SentInv, server = "select", NEW c \in Controllers
               PROVE  /\ ToSet(sentTo[c]) = MeantFor(c)
                      /\ \A i, j \in DOMAIN sentTo[c] :
                           i < j => sentTo[c][i] < sentTo[c][j]
    BY DEF BroadcastsComplete, MeantFor
  <2>1. DOMAIN sentTo[c] = 1 .. Len(sentTo[c])
    BY LenProperties DEF TypeOK, SrvOK
  <2> QED
    BY <2>1 DEF SentInv, SentOf
<1> QED
  BY <1>1, SentHolds, HostTyped, PTL

-----------------------------------------------------------------------------
(* The events c has read so far, of which its channel and the connection     *)
(* hold pieces, and what a sequence of everyone's events has of c's first r. *)
ReadBy(c) == [i \in 1 .. read[c] |-> [from |-> c, n |-> i]]

Holds(s, c, r) ==
  /\ {s[i].n : i \in FromOf(c, s)} = 1 .. r
  /\ \A i, j \in FromOf(c, s) : i < j => s[i].n < s[j].n

LEMMA HoldsAppend ==
  ASSUME NEW s \in Seq(Events), NEW e \in Events, NEW c \in Controllers, NEW r \in Nat,
         Holds(s, c, r)
  PROVE  /\ e.from # c => Holds(Append(s, e), c, r)
         /\ e.from = c /\ e.n = r + 1 => Holds(Append(s, e), c, r + 1)
<1>1. /\ Append(s, e) \in Seq(Events) /\ Len(Append(s, e)) = Len(s) + 1
      /\ \A i \in 1 .. Len(s) : Append(s, e)[i] = s[i]
      /\ Append(s, e)[Len(s) + 1] = e
  BY Appended
<1>2. /\ Len(s) \in Nat /\ DOMAIN s = 1 .. Len(s)
      /\ DOMAIN Append(s, e) = (1 .. Len(s)) \cup {Len(s) + 1}
  BY <1>1, LenProperties
<1>3. FromOf(c, Append(s, e)) =
        FromOf(c, s) \cup (IF e.from = c THEN {Len(s) + 1} ELSE {})
  BY <1>1, <1>2 DEF FromOf
<1>4. \A i \in FromOf(c, s) : i \in 1 .. Len(s) /\ Append(s, e)[i] = s[i] /\ s[i].n \in 1 .. r
  BY <1>1, <1>2 DEF FromOf, Holds
<1>5. CASE e.from # c
  BY <1>3, <1>4, <1>5 DEF Holds
<1>6. CASE e.from = c /\ e.n = r + 1
  <2>1. {Append(s, e)[i].n : i \in FromOf(c, Append(s, e))} = (1 .. r) \cup {r + 1}
    BY <1>1, <1>3, <1>4, <1>6 DEF Holds
  <2>2. (1 .. r) \cup {r + 1} = 1 .. r + 1
    OBVIOUS
  <2>3. \A i, j \in FromOf(c, Append(s, e)) :
          i < j => Append(s, e)[i].n < Append(s, e)[j].n
    BY <1>1, <1>2, <1>3, <1>4, <1>6 DEF Holds
  <2> QED
    BY <1>6, <2>1, <2>2, <2>3 DEF Holds
<1> QED
  BY <1>5, <1>6
(* It has the first events of c up to one number only. *)
LEMMA HoldsOne ==
  ASSUME NEW s, NEW c, NEW q \in Nat, NEW r \in Nat, Holds(s, c, q), Holds(s, c, r)
  PROVE  q = r
<1>1. 1 .. q = 1 .. r
  BY DEF Holds
<1> QED
  BY <1>1

(* The event the server is handling comes from c. *)
Mine(c) == event # None /\ event.from = c

(* Behind the first k events of c, those on their way to the server, and     *)
(* those in c's channel: without a gap as long as the connection lives.      *)
Coming(c, k) ==
  /\ Piece(up[c], ReadBy(c), k)
  /\ loop[c] # "ended" =>
       /\ Piece(eventQ[c], ReadBy(c), read[c] - Len(eventQ[c]))
       /\ k + Len(up[c]) + Len(eventQ[c]) <= read[c]
       /\ Broken(c) \/ k + Len(up[c]) + Len(eventQ[c]) = read[c]

Reached(c, r) == IF Mine(c) THEN r + 1 ELSE r

EventsUpTo(c, r) ==
  /\ loop[c] = "ended" => Broken(c)
  /\ Holds(recorded, c, r)
  /\ Mine(c) => event.n = r + 1
  /\ Coming(c, Reached(c, r))

EventsInv == \A c \in Controllers : \E r \in Nat : EventsUpTo(c, r)

eventVars == <<read, eventQ, loop, up, event, recorded>>

LEMMA EventSteps ==
  ASSUME [Next]_vars
  PROVE  \/ UNCHANGED eventVars
         \/ ServerPublishes
         \/ \E c \in Controllers :
              \/ BoardReports(c) \/ Connects(c) \/ (LoopEnds(c) /\ Broken(c))
              \/ Forwards(c) \/ Disconnects(c) \/ ServerReceives(c)
<1> USE DEF ctlVars, netVars, srvVars, eventVars
<1>1. ASSUME NEW c \in Controllers, ControllerNext(c)
      PROVE  \/ UNCHANGED eventVars
             \/ BoardReports(c) \/ Connects(c) \/ (LoopEnds(c) /\ Broken(c)) \/ Forwards(c)
  BY <1>1, Zenon
     DEF ControllerNext, LoopNext, WriterNext, ConnectFails, ReceiveFails, ForwardFails,
         TakesCommand, SendsCommand, Writes, WriteFails, WriterTakes, Broken
<1>2. CASE ServerNext
  <2>1. ASSUME NEW c \in Controllers, BroadcastSends(c) \/ BroadcastFails(c)
        PROVE  UNCHANGED eventVars
    BY <2>1, Zenon DEF BroadcastSends, BroadcastFails
  <2> QED
    BY <1>2, <2>1, Zenon
       DEF ServerNext, SendsNote, ServerReceiveFails, ServerLists, ServerShutsDown,
           ServerBroadcasts, ServerTakes, BroadcastEnds, Aborts
<1>3. CASE PublisherTakes \/ Publishes \/ PublishFails
  BY <1>3, Zenon DEF PublisherTakes, Publishes, PublishFails, PublisherDone
<1>4. CASE UiNext
  BY <1>4, Zenon DEF UiNext, UiDrains, UiPollsNothing, UiSends, UiQuits, Logs, UiTypes
<1>5. CASE UNCHANGED vars
  BY <1>5, Zenon DEF vars
<1> QED
  BY <1>1, <1>2, <1>3, <1>4, <1>5, Zenon DEF Next

(* What a step elsewhere leaves alone. *)
LEMMA EventsKept ==
  ASSUME NEW d \in Controllers, NEW r \in Nat, EventsUpTo(d, r), Broken(d) => Broken(d)',
         read'[d] = read[d], eventQ'[d] = eventQ[d], loop'[d] = loop[d], up'[d] = up[d],
         UNCHANGED <<event, recorded>>
  PROVE  EventsUpTo(d, r)'
BY DEF EventsUpTo, Holds, FromOf, Mine, Coming, Reached, ReadBy

LEMMA FirstsAreSeq ==
  ASSUME NEW c \in Controllers, NEW m \in Nat,
         NEW s, s = [i \in 1 .. m |-> [from |-> c, n |-> i]]
  PROVE  /\ s \in Seq(Events) /\ Len(s) = m
         /\ \A i \in 1 .. m : s[i] = [from |-> c, n |-> i]
<1>1. \A i \in 1 .. m : [from |-> c, n |-> i] \in Events
  BY DEF Events
<1> QED
  BY <1>1

LEMMA ReadByIsSeq ==
  ASSUME NEW c \in Controllers, read[c] \in Nat
  PROVE  /\ ReadBy(c) \in Seq(Events) /\ Len(ReadBy(c)) = read[c]
         /\ \A i \in 1 .. read[c] : ReadBy(c)[i] = [from |-> c, n |-> i]
BY FirstsAreSeq DEF ReadBy

LEMMA StepEvents ==
  ASSUME TypeOK, EventsInv, [Next]_vars
  PROVE  EventsInv'
<1> SUFFICES ASSUME NEW d \in Controllers PROVE \E r \in Nat : EventsUpTo(d, r)'
  BY DEF EventsInv
<1>1. PICK r \in Nat : EventsUpTo(d, r)
  BY DEF EventsInv
<1>2. Broken(d) => Broken(d)'
  BY BrokenStays
<1>3. /\ read \in [Controllers -> Nat] /\ eventQ \in [Controllers -> Seq(Events)]
      /\ loop \in [Controllers -> {"connecting", "up", "ended"}]
      /\ up \in [Controllers -> Seq(Events)] /\ recorded \in Seq(Events)
      /\ event \in Events \cup {None}
  BY DEF TypeOK, CtlOK, NetOK, SrvOK
<1>4. /\ read[d] \in Nat /\ eventQ[d] \in Seq(Events) /\ up[d] \in Seq(Events)
  BY <1>3
<1>5. /\ Len(eventQ[d]) \in Nat /\ Len(up[d]) \in Nat
  BY <1>4, LenProperties
<1>6. /\ ReadBy(d) \in Seq(Events) /\ Len(ReadBy(d)) = read[d]
      /\ \A i \in 1 .. read[d] : ReadBy(d)[i] = [from |-> d, n |-> i]
  BY <1>4, ReadByIsSeq
<1>7. Reached(d, r) \in Nat
  BY DEF Reached
<1>8. Coming(d, Reached(d, r))
  BY <1>1 DEF EventsUpTo
<1>19. loop[d] # "ended" =>
         /\ Reached(d, r) + Len(up[d]) + Len(eventQ[d]) <= read[d]
         /\ Broken(d) \/ Reached(d, r) + Len(up[d]) + Len(eventQ[d]) = read[d]
  BY <1>8, Zenon DEF Coming
<1>9. None \notin Events
  BY NoneIsNothing
<1>10. CASE UNCHANGED eventVars
  BY <1>1, <1>2, <1>10, EventsKept DEF eventVars
<1>11. ASSUME NEW c \in Controllers, c # d,
              \/ BoardReports(c) \/ Connects(c) \/ (LoopEnds(c) /\ Broken(c))
              \/ Forwards(c) \/ Disconnects(c)
       PROVE  EventsUpTo(d, r)'
  <2>1. /\ read'[d] = read[d] /\ eventQ'[d] = eventQ[d] /\ loop'[d] = loop[d]
        /\ up'[d] = up[d] /\ UNCHANGED <<event, recorded>>
    <3>1. CASE BoardReports(c)
      <4>1. /\ read' = [read EXCEPT ![c] = @ + 1]
            /\ OfferEvent(c, [from |-> c, n |-> read'[c]])
            /\ UNCHANGED <<loop, up, event, recorded>>
        BY <3>1, Zenon DEF BoardReports, netVars, srvVars
      <4> QED
        BY <1>3, <1>11, <4>1 DEF OfferEvent, EventAccepted
    <3>2. CASE Connects(c) \/ LoopEnds(c)
      BY <1>3, <1>11, <3>2 DEF Connects, LoopEnds, netVars, srvVars
    <3>3. CASE Forwards(c) \/ Disconnects(c)
      BY <1>3, <1>11, <3>3 DEF Forwards, Disconnects, ctlVars, srvVars
    <3> QED
      BY <1>11, <3>1, <3>2, <3>3
  <2> QED
    BY <1>1, <1>2, <2>1, EventsKept
<1>12. CASE BoardReports(d)
  <2> DEFINE e == [from |-> d, n |-> read[d] + 1]
  <2>1. /\ read' = [read EXCEPT ![d] = @ + 1]
        /\ OfferEvent(d, [from |-> d, n |-> read'[d]])
        /\ UNCHANGED <<loop, up, event, recorded>>
    BY <1>12, Zenon DEF BoardReports, netVars, srvVars
  <2>2. read'[d] = read[d] + 1 /\ e \in Events /\ OfferEvent(d, e)
    BY <1>3, <2>1 DEF Events
  <2>3. ReadBy(d)' = Append(ReadBy(d), e)
    <3>1. /\ ReadBy(d)' \in Seq(Events) /\ Len(ReadBy(d)') = read[d] + 1
          /\ \A i \in 1 .. read[d] + 1 : ReadBy(d)'[i] = [from |-> d, n |-> i]
      <4>1. ReadBy(d)' = [i \in 1 .. read[d] + 1 |-> [from |-> d, n |-> i]]
        BY <2>2 DEF ReadBy
      <4> QED
        BY <1>4, <4>1, FirstsAreSeq, read[d] + 1 \in Nat, Zenon
    <3>2. /\ Append(ReadBy(d), e) \in Seq(Events)
          /\ Len(Append(ReadBy(d), e)) = read[d] + 1
          /\ \A i \in 1 .. read[d] : Append(ReadBy(d), e)[i] = ReadBy(d)[i]
          /\ Append(ReadBy(d), e)[read[d] + 1] = e
      BY <1>6, <2>2, Appended
    <3>3. \A i \in 1 .. read[d] + 1 : ReadBy(d)'[i] = Append(ReadBy(d), e)[i]
      <4>1. \A i \in 1 .. read[d] + 1 : i \in 1 .. read[d] \/ i = read[d] + 1
        BY <1>4
      <4>2. ReadBy(d)'[read[d] + 1] = e
        BY <1>4, <3>1
      <4>3. ASSUME NEW i \in 1 .. read[d]
            PROVE  ReadBy(d)'[i] = Append(ReadBy(d), e)[i]
        <5>1. ReadBy(d)'[i] = [from |-> d, n |-> i]
          BY <1>4, <3>1
        <5>2. Append(ReadBy(d), e)[i] = [from |-> d, n |-> i]
          BY <1>6, <3>2
        <5> QED
          BY <5>1, <5>2
      <4> QED
        BY <3>2, <4>1, <4>2, <4>3
    <3> QED
      BY <3>1, <3>2, <3>3, SeqEqual
  <2> HIDE DEF e
  <2>4. Piece(up[d], ReadBy(d)', Reached(d, r))
    BY <1>4, <1>6, <1>7, <1>8, <2>2, <2>3, PieceGrow DEF Coming
  <2>5. CASE loop[d] = "ended"
    BY <1>1, <1>2, <2>1, <2>4, <2>5
       DEF EventsUpTo, Holds, FromOf, Mine, Reached, Coming
  <2>6. CASE loop[d] # "ended"
    <3>1. eventQ'[d] = Append(eventQ[d], e) /\ Len(eventQ'[d]) = Len(eventQ[d]) + 1
      BY <1>3, <1>4, <2>2, <2>6, Appended DEF OfferEvent, EventAccepted
    <3>2. /\ Piece(eventQ[d], ReadBy(d), read[d] - Len(eventQ[d]))
          /\ read[d] - Len(eventQ[d]) \in Nat
      BY <1>4, <1>5, <1>7, <1>8, <1>19, <2>6, SMTT(60) DEF Coming
    <3>3. /\ ReadBy(d)' \in Seq(Events) /\ Len(ReadBy(d)') = read[d] + 1
          /\ ReadBy(d)'[read[d] + 1] = e
      BY <1>6, <2>2, <2>3, Appended
    <3>4. Piece(eventQ[d], ReadBy(d)', read[d] - Len(eventQ[d]))
      BY <1>4, <1>6, <2>2, <2>3, <3>2, PieceGrow
    <3> DEFINE k == read[d] - Len(eventQ[d])
               s == ReadBy(d)'
    <3>5. /\ k \in Nat /\ k + Len(eventQ[d]) + 1 = read[d] + 1
          /\ k + Len(eventQ[d]) + 1 <= read[d] + 1
      BY <1>4, <1>5, <3>2
    <3>6. Piece(Append(eventQ[d], e), ReadBy(d)', read[d] - Len(eventQ[d]))
      <4>1. Piece(eventQ[d], s, k) /\ s \in Seq(Events)
        BY <3>3, <3>4
      <4>2. k + Len(eventQ[d]) + 1 <= Len(s) /\ e = s[k + Len(eventQ[d]) + 1]
        BY <3>3, <3>5
      <4> HIDE DEF k, s
      <4>3. Piece(Append(eventQ[d], e), s, k)
        BY <1>4, <2>2, <3>5, <4>1, <4>2, PieceAppend
      <4> QED
        BY <4>3 DEF k, s
    <3>7. read'[d] - Len(eventQ'[d]) = read[d] - Len(eventQ[d])
      <4>1. \A n, m \in Nat : (n + 1) - (m + 1) = n - m
        OBVIOUS
      <4> QED
        BY <1>4, <1>5, <2>2, <3>1, <4>1, Zenon
    <3>8. /\ Reached(d, r) + Len(up[d]) + Len(eventQ'[d]) <= read'[d]
          /\ \/ Broken(d)
             \/ Reached(d, r) + Len(up[d]) + Len(eventQ'[d]) = read'[d]
      <4> DEFINE a == Reached(d, r)
                 b == Len(up[d])
                 m == Len(eventQ[d])
                 n == read[d]
      <4>1. a \in Nat /\ b \in Nat /\ m \in Nat /\ n \in Nat
        BY <1>4, <1>5, <1>7
      <4>2. /\ Reached(d, r) + Len(up[d]) + Len(eventQ[d]) <= read[d]
            /\ Broken(d) \/ Reached(d, r) + Len(up[d]) + Len(eventQ[d]) = read[d]
        BY <1>19, <2>6, Zenon
      <4>3. read'[d] = read[d] + 1 /\ Len(eventQ'[d]) = Len(eventQ[d]) + 1
        BY <2>2, <3>1, Zenon
      <4>4. a + b + m <= n /\ (Broken(d) \/ a + b + m = n)
        BY <4>2
      <4> HIDE DEF a, b, m, n
      <4>5. /\ a + b + (m + 1) <= n + 1
            /\ a + b + m = n => a + b + (m + 1) = n + 1
        BY <4>1, <4>4
      <4> QED
        BY <4>3, <4>4, <4>5, Zenon DEF a, b, m, n
    <3>9. Reached(d, r)' = Reached(d, r)
      BY <2>1 DEF Reached, Mine
    <3>10. Coming(d, Reached(d, r))'
      BY <1>2, <2>1, <2>4, <3>1, <3>6, <3>7, <3>8, <3>9 DEF Coming
    <3> QED
      BY <1>1, <2>1, <2>6, <3>10 DEF EventsUpTo, Holds, FromOf, Mine
  <2> QED
    BY <2>5, <2>6
<1>13. CASE Connects(d)
  <2>1. /\ loop[d] # "ended" /\ loop'[d] # "ended"
        /\ UNCHANGED <<read, eventQ, up, event, recorded>>
    BY <1>3, <1>13 DEF Connects, netVars, srvVars
  <2> QED
    BY <1>1, <1>2, <2>1 DEF EventsUpTo, Holds, FromOf, Mine, Reached, Coming, ReadBy
<1>14. CASE LoopEnds(d) /\ Broken(d)
  <2>1. loop'[d] = "ended" /\ UNCHANGED <<read, up, event, recorded>>
    BY <1>3, <1>14 DEF LoopEnds, netVars, srvVars
  <2> QED
    BY <1>1, <1>2, <1>14, <2>1, ZenonT(60) DEF EventsUpTo, Holds, FromOf, Mine, Reached, Coming, ReadBy
<1>15. CASE Forwards(d)
  <2> DEFINE k == read[d] - Len(eventQ[d])
  <2>1. /\ loop[d] = "up" /\ loop' = loop /\ eventQ[d] # <<>>
        /\ eventQ'[d] = Tail(eventQ[d])
        /\ up'[d] = IF Broken(d) THEN up[d] ELSE Append(up[d], Head(eventQ[d]))
        /\ UNCHANGED <<read, event, recorded>>
    BY <1>3, <1>15 DEF Forwards, Selects, srvVars
  <2>2. /\ Piece(eventQ[d], ReadBy(d), k) /\ k \in Nat
        /\ Reached(d, r) + Len(up[d]) <= k
        /\ Broken(d) \/ Reached(d, r) + Len(up[d]) = k
    <3>1. Piece(eventQ[d], ReadBy(d), k)
      BY <1>8, <2>1 DEF Coming
    <3>2. k \in Nat /\ Reached(d, r) + Len(up[d]) <= k
      <4>1. Reached(d, r) + Len(up[d]) + Len(eventQ[d]) <= read[d]
        BY <1>19, <2>1
      <4>2. \A a, u, q, n \in Nat : a + u + q <= n => n - q \in Nat /\ a + u <= n - q
        OBVIOUS
      <4> QED
        BY <1>4, <1>5, <1>7, <4>1, <4>2, Zenon
    <3>3. ~Broken(d) => Reached(d, r) + Len(up[d]) = k
      BY <1>4, <1>5, <1>7, <1>19, <2>1
    <3> QED
      BY <3>1, <3>2, <3>3
  <2>3. /\ Head(eventQ[d]) \in Events /\ Len(Tail(eventQ[d])) = Len(eventQ[d]) - 1
    BY <1>4, <2>1, HeadAndTail
  <2>4. read'[d] - Len(eventQ'[d]) = k + 1
    BY <1>4, <1>5, <2>1, <2>3
  <2> HIDE DEF k
  <2>5. /\ k + 1 <= read[d] /\ Head(eventQ[d]) = ReadBy(d)[k + 1]
        /\ Piece(Tail(eventQ[d]), ReadBy(d), k + 1)
    BY <1>4, <1>6, <2>1, <2>2, PieceHead
  <2>6. ReadBy(d)' = ReadBy(d) /\ Reached(d, r)' = Reached(d, r)
    BY <2>1 DEF ReadBy, Reached, Mine
  <2>7. Coming(d, Reached(d, r))'
    <3>1. CASE Broken(d)
      <4>1. up'[d] = up[d] /\ Broken(d)'
        BY <1>2, <2>1, <3>1
      <4>2. Reached(d, r) + Len(up'[d]) + Len(eventQ'[d]) <= read'[d]
        <5>1. /\ Reached(d, r) + Len(up[d]) + Len(eventQ[d]) <= read[d]
              /\ Len(eventQ'[d]) = Len(eventQ[d]) - 1 /\ Len(up'[d]) = Len(up[d])
              /\ read'[d] = read[d]
          BY <1>19, <2>1, <2>3, <4>1
        <5>2. \A a, b, m, n \in Nat : a + b + m <= n => a + b + (m - 1) <= n
          OBVIOUS
        <5> QED
          BY <1>4, <1>5, <1>7, <5>1, <5>2, Zenon
      <4> QED
        BY <1>8, <2>1, <2>4, <2>5, <2>6, <4>1, <4>2 DEF Coming
    <3>2. CASE ~Broken(d)
      <4>1. /\ up'[d] = Append(up[d], Head(eventQ[d])) /\ Len(up'[d]) = Len(up[d]) + 1
            /\ Reached(d, r) + Len(up[d]) = k
        BY <1>4, <2>1, <2>2, <2>3, <3>2, Appended
      <4>2. /\ Reached(d, r) + Len(up[d]) + 1 <= Len(ReadBy(d))
            /\ Head(eventQ[d]) = ReadBy(d)[Reached(d, r) + Len(up[d]) + 1]
        BY <1>6, <2>5, <4>1
      <4>3. Piece(up[d], ReadBy(d), Reached(d, r))
        BY <1>8 DEF Coming
      <4>4. Piece(Append(up[d], Head(eventQ[d])), ReadBy(d), Reached(d, r))
        BY <1>4, <1>6, <1>7, <2>3, <4>2, <4>3, PieceAppend
      <4>5. Reached(d, r) + Len(up'[d]) + Len(eventQ'[d]) = read'[d]
        BY <1>4, <1>5, <1>7, <1>19, <2>1, <2>3, <3>2, <4>1, SMTT(60)
      <4>6. Reached(d, r) + Len(up'[d]) + Len(eventQ'[d]) <= read'[d]
        BY <1>4, <2>1, <4>5
      <4> QED
        BY <2>1, <2>4, <2>5, <2>6, <4>1, <4>4, <4>5, <4>6 DEF Coming
    <3> QED
      BY <3>1, <3>2
  <2> QED
    BY <1>1, <2>1, <2>7 DEF EventsUpTo, Holds, FromOf, Mine
<1>16. CASE Disconnects(d)
  <2>1. PICK m \in 0 .. Len(up[d]) : up' = [up EXCEPT ![d] = SubSeq(@, 1, m)]
    BY <1>16 DEF Disconnects
  <2>2. /\ up'[d] = SubSeq(up[d], 1, m) /\ Len(up'[d]) = m /\ m <= Len(up[d]) /\ m \in Nat
        /\ Broken(d)' /\ UNCHANGED <<read, eventQ, loop, event, recorded>>
    BY <1>3, <1>4, <1>5, <1>16, <2>1, Cut DEF Disconnects, Broken, ctlVars, srvVars
  <2>3. Piece(up'[d], ReadBy(d), Reached(d, r))
    BY <1>4, <1>6, <1>7, <1>8, <2>2, PieceCut DEF Coming
  <2>4. loop[d] # "ended" => Reached(d, r) + Len(up'[d]) + Len(eventQ[d]) <= read[d]
    <3>1. \A a, b, k, l, n \in Nat : k <= b /\ a + b + l <= n => a + k + l <= n
      OBVIOUS
    <3>2. Len(up'[d]) \in Nat /\ Len(up'[d]) <= Len(up[d])
      BY <2>2, Zenon
    <3> QED
      BY <1>4, <1>5, <1>7, <1>19, <3>1, <3>2, Zenon
  <2>5. ReadBy(d)' = ReadBy(d) /\ Reached(d, r)' = Reached(d, r)
    BY <2>2 DEF ReadBy, Reached, Mine
  <2>6. Coming(d, Reached(d, r))'
    BY <1>8, <2>2, <2>3, <2>4, <2>5 DEF Coming
  <2> QED
    BY <1>1, <2>2, <2>6 DEF EventsUpTo, Holds, FromOf, Mine
<1>17. ASSUME NEW c \in Controllers, ServerReceives(c) PROVE EventsUpTo(d, r)'
  <2>1. /\ event = None /\ up[c] # <<>> /\ event' = Head(up[c])
        /\ up' = [up EXCEPT ![c] = Tail(@)]
        /\ UNCHANGED <<read, eventQ, loop, recorded>>
    BY <1>17 DEF ServerReceives, ServerSelects, ctlVars, TypeOK, SrvOK
  <2>2. PICK q \in Nat : EventsUpTo(c, q)
    BY DEF EventsInv
  <2>3. Reached(c, q) = q /\ Piece(up[c], ReadBy(c), q)
    BY <2>1, <2>2 DEF EventsUpTo, Coming, Reached, Mine
  <2>4. /\ ReadBy(c) \in Seq(Events) /\ Len(ReadBy(c)) = read[c] /\ read[c] \in Nat
        /\ \A i \in 1 .. read[c] : ReadBy(c)[i] = [from |-> c, n |-> i]
        /\ up[c] \in Seq(Events)
    BY <1>3, ReadByIsSeq
  <2>5. /\ q + 1 <= read[c] /\ Head(up[c]) = ReadBy(c)[q + 1]
        /\ Piece(Tail(up[c]), ReadBy(c), q + 1)
    BY <2>1, <2>3, <2>4, PieceHead
  <2>6. /\ event'.from = c /\ event'.n = q + 1
    <3>1. q + 1 \in 1 .. read[c]
      BY <2>4, <2>5
    <3>2. event' = [from |-> c, n |-> q + 1]
      BY <2>1, <2>4, <2>5, <3>1
    <3> QED
      BY <3>2
  <2>7. event' # None
    BY <1>9, <2>1, <2>4, HeadAndTail
  <2>8. CASE c = d
    <3>1. q = r
      BY <1>1, <2>2, <2>8, HoldsOne DEF EventsUpTo
    <3>2. Mine(d)' /\ Reached(d, r)' = r + 1 /\ Reached(d, r) = r
      BY <2>1, <2>6, <2>7, <2>8 DEF Mine, Reached
    <3>3. up'[d] = Tail(up[d]) /\ Len(up'[d]) = Len(up[d]) - 1
      BY <1>3, <1>4, <2>1, <2>8, HeadAndTail
    <3>4. ReadBy(d)' = ReadBy(d)
      BY <2>1 DEF ReadBy
    <3>5. r + 1 + Len(up'[d]) = Reached(d, r) + Len(up[d])
      <4>1. Reached(d, r) = r
        BY <3>2
      <4>2. Len(up'[d]) = Len(up[d]) - 1
        BY <3>3
      <4>3. \A n, m \in Nat : n + 1 + (m - 1) = n + m
        OBVIOUS
      <4> QED
        BY <1>5, <4>1, <4>2, <4>3, ZenonT(60)
    <3>6. Coming(d, r + 1)'
      BY <1>2, <1>8, <2>1, <2>5, <2>8, <3>1, <3>3, <3>4, <3>5 DEF Coming
    <3> QED
      BY <1>1, <1>2, <2>1, <2>6, <3>1, <3>2, <3>6 DEF EventsUpTo, Holds, FromOf
  <2>9. CASE c # d
    <3>1. ~Mine(d)' /\ ~Mine(d)
      BY <2>1, <2>6, <2>9 DEF Mine
    <3>2. up'[d] = up[d]
      BY <1>3, <2>1, <2>9
    <3> QED
      BY <1>1, <1>2, <2>1, <3>1, <3>2
         DEF EventsUpTo, Holds, FromOf, Reached, Coming, ReadBy
  <2> QED
    BY <2>8, <2>9
<1>18. CASE ServerPublishes
  <2>1. /\ event \in Events /\ event # None /\ recorded' = Append(recorded, event)
        /\ event' = None /\ UNCHANGED <<read, eventQ, loop, up>>
    BY <1>18 DEF ServerPublishes, ctlVars, netVars, TypeOK, SrvOK
  <2>2. ~Mine(d)' /\ \A k : Reached(d, k)' = k
    BY <2>1 DEF Mine, Reached
  <2>3. \A k : Coming(d, k) => Coming(d, k)'
    BY <1>2, <2>1 DEF Coming, ReadBy
  <2>4. CASE event.from = d
    <3>1. Reached(d, r) = r + 1 /\ event.n = r + 1
      BY <1>1, <2>1, <2>4 DEF Mine, Reached, EventsUpTo
    <3>2. Holds(recorded, d, r + 1)'
      <4>1. Holds(Append(recorded, event), d, r + 1)
        BY <1>1, <1>3, <2>1, <2>4, <3>1, HoldsAppend DEF EventsUpTo
      <4> QED
        BY <2>1, <4>1 DEF Holds, FromOf
    <3>3. EventsUpTo(d, r + 1)'
      BY <1>1, <1>2, <1>8, <2>1, <2>2, <2>3, <3>1, <3>2 DEF EventsUpTo
    <3> QED
      BY <3>3
  <2>5. CASE event.from # d
    <3>1. Reached(d, r) = r
      BY <2>5 DEF Mine, Reached
    <3>2. Holds(recorded, d, r)'
      <4>1. Holds(Append(recorded, event), d, r)
        BY <1>1, <1>3, <2>1, <2>5, HoldsAppend DEF EventsUpTo
      <4> QED
        BY <2>1, <4>1 DEF Holds, FromOf
    <3> QED
      BY <1>1, <1>2, <1>8, <2>1, <2>2, <2>3, <3>1, <3>2 DEF EventsUpTo
  <2> QED
    BY <2>4, <2>5
<1> QED
  BY <1>10, <1>11, <1>12, <1>13, <1>14, <1>15, <1>16, <1>17, <1>18, EventSteps

LEMMA EventsHold == Spec => []EventsInv
<1>1. Init => EventsInv
  <2> SUFFICES ASSUME Init, NEW c \in Controllers PROVE EventsUpTo(c, 0)
    BY DEF EventsInv
  <2>1. /\ read[c] = 0 /\ eventQ[c] = <<>> /\ up[c] = <<>> /\ loop[c] = "connecting"
        /\ event = None /\ recorded = <<>>
    BY DEF Init
  <2>2. ReadBy(c) \in Seq(Events) /\ Len(ReadBy(c)) = 0
    BY <2>1, ReadByIsSeq
  <2>3. FromOf(c, recorded) = {}
    BY <2>1 DEF FromOf
  <2>4. Reached(c, 0) = 0 /\ ~Mine(c)
    BY <2>1 DEF Reached, Mine
  <2>5. Holds(recorded, c, 0)
    BY <2>3 DEF Holds
  <2>6. Coming(c, 0)
    BY <2>1, <2>2 DEF Coming, Piece
  <2> QED
    BY <2>1, <2>4, <2>5, <2>6 DEF EventsUpTo
<1>2. TypeOK /\ EventsInv /\ [Next]_vars => EventsInv'
  BY StepEvents
<1> QED
  BY <1>1, <1>2, HostTyped, PTL DEF Spec

LEMMA Conserved == TypeOK /\ EventsInv => EventsConserved
<1> SUFFICES ASSUME TypeOK, EventsInv, NEW c \in Controllers
             PROVE  \E k \in 0 .. read[c] :
                      /\ Holds(Handled, c, k)
                      /\ \A i \in DOMAIN up[c] : up[c][i] = [from |-> c, n |-> k + i]
                      /\ ~Failed(c) => up[c] \o eventQ[c] =
                           [i \in 1 .. read[c] - k |-> [from |-> c, n |-> k + i]]
  BY DEF EventsConserved, Holds
<1>1. PICK r \in Nat : EventsUpTo(c, r)
  BY DEF EventsInv
<1> DEFINE k == Reached(c, r)
<1>2. /\ read[c] \in Nat /\ up[c] \in Seq(Events) /\ eventQ[c] \in Seq(Events)
      /\ recorded \in Seq(Events) /\ event \in Events \cup {None}
  BY DEF TypeOK, CtlOK, NetOK, SrvOK
<1>13. /\ read \in [Controllers -> Nat] /\ up \in [Controllers -> Seq(Events)]
       /\ eventQ \in [Controllers -> Seq(Events)]
  BY DEF TypeOK, CtlOK, NetOK
<1>12. DOMAIN up[c] = 1 .. Len(up[c])
  BY <1>2, LenProperties
<1>3. Len(up[c]) \in Nat /\ Len(eventQ[c]) \in Nat
  BY <1>2, LenProperties
<1>4. /\ ReadBy(c) \in Seq(Events) /\ Len(ReadBy(c)) = read[c]
      /\ \A i \in 1 .. read[c] : ReadBy(c)[i] = [from |-> c, n |-> i]
  BY <1>2, ReadByIsSeq
<1>5. k \in Nat
  BY DEF Reached
<1>11. Coming(c, k)
  BY <1>1 DEF EventsUpTo
<1>6. Holds(Handled, c, k)
  <2>1. CASE event = None
    <3>1. Handled = recorded /\ k = r
      BY <1>2, <2>1, ConcatEmptySeq DEF Handled, Reached, Mine
    <3> QED
      BY <1>1, <3>1 DEF EventsUpTo
  <2>2. CASE event # None
    <3>1. Handled = Append(recorded, event) /\ event \in Events
      BY <1>2, <2>2, AppendIsConcat DEF Handled
    <3>2. CASE event.from = c
      BY <1>1, <1>2, <2>2, <3>1, <3>2, HoldsAppend DEF EventsUpTo, Reached, Mine
    <3>3. CASE event.from # c
      BY <1>1, <1>2, <2>2, <3>1, <3>3, HoldsAppend DEF EventsUpTo, Reached, Mine
    <3> QED
      BY <3>2, <3>3
  <2> QED
    BY <2>1, <2>2
<1> HIDE DEF k
<1>7. /\ k + Len(up[c]) <= read[c]
      /\ \A i \in 1 .. Len(up[c]) : up[c][i] = ReadBy(c)[k + i]
  BY <1>4, <1>11 DEF Coming, Piece
<1>8. \A i \in 1 .. Len(up[c]) : up[c][i] = [from |-> c, n |-> k + i]
  <2>1. \A i \in 1 .. Len(up[c]) : k + i \in 1 .. read[c]
    BY <1>2, <1>3, <1>5, <1>7
  <2> QED
    BY <1>4, <1>7, <2>1
<1>9. ASSUME ~Failed(c)
      PROVE  up[c] \o eventQ[c] = [i \in 1 .. read[c] - k |-> [from |-> c, n |-> k + i]]
  <2> DEFINE s == up[c] \o eventQ[c]
  <2>1. /\ k + Len(up[c]) + Len(eventQ[c]) = read[c]
        /\ Piece(eventQ[c], ReadBy(c), read[c] - Len(eventQ[c]))
    BY <1>9, <1>11, Zenon DEF Coming, Failed
  <2>2. /\ s \in Seq(Events) /\ Len(s) = Len(up[c]) + Len(eventQ[c])
        /\ \A i \in 1 .. Len(up[c]) + Len(eventQ[c]) :
             s[i] = IF i <= Len(up[c]) THEN up[c][i] ELSE eventQ[c][i - Len(up[c])]
    BY <1>2, ConcatProperties
  <2>3. DOMAIN s = 1 .. Len(s) /\ s = [i \in 1 .. Len(s) |-> s[i]]
    BY <2>2, LenProperties
  <2> HIDE DEF s
  <2>4. Len(s) = read[c] - k
    <3>1. k + Len(up[c]) + Len(eventQ[c]) = read[c] /\ Len(s) = Len(up[c]) + Len(eventQ[c])
      BY <2>1, <2>2
    <3> QED
      BY <1>3, <1>5, <1>13, <3>1
  <2>5. ASSUME NEW i \in 1 .. Len(s) PROVE s[i] = [from |-> c, n |-> k + i]
    <3>1. CASE i <= Len(up[c])
      <4>1. i \in 1 .. Len(up[c]) /\ i \in 1 .. Len(up[c]) + Len(eventQ[c])
        BY <1>3, <1>13, <2>2, <3>1
      <4> QED
        BY <1>8, <2>2, <3>1, <4>1
    <3>2. CASE ~(i <= Len(up[c]))
      <4>1. i - Len(up[c]) \in 1 .. Len(eventQ[c]) /\ k + i \in 1 .. read[c]
        <5>1. /\ k + Len(up[c]) + Len(eventQ[c]) = read[c]
              /\ i \in 1 .. Len(up[c]) + Len(eventQ[c])
          BY <2>1, <2>2
        <5> QED
          BY <1>3, <1>5, <1>13, <3>2, <5>1
      <4>2. read[c] - Len(eventQ[c]) + (i - Len(up[c])) = k + i
        <5>1. k + Len(up[c]) + Len(eventQ[c]) = read[c]
          BY <2>1
        <5> QED
          BY <1>3, <1>5, <1>13, <5>1
      <4>3. eventQ[c][i - Len(up[c])] = ReadBy(c)[k + i]
        BY <2>1, <4>1, <4>2 DEF Piece
      <4> QED
        BY <1>3, <1>4, <2>2, <3>2, <4>1, <4>3
    <3> QED
      BY <3>1, <3>2
  <2> QED
    BY <2>3, <2>4, <2>5 DEF s
<1>10. k \in 0 .. read[c]
  BY <1>2, <1>3, <1>5, <1>7
<1> QED
  BY <1>6, <1>8, <1>9, <1>10, <1>12

(* The server has the first events of each controller, in order and without  *)
(* a hole, and while nothing has failed the rest is on its way, whichever    *)
(* channels were full (esp_io.rs:71, controller.rs:98-110, server.rs:111).   *)
THEOREM NoEventLost == Spec => []EventsConserved
BY Conserved, EventsHold, HostTyped, PTL

-----------------------------------------------------------------------------
(* What the subscribers have seen, are being sent and will be sent.          *)
Taken == IF publishing = None THEN <<>> ELSE <<publishing>>
Seen == published \o Taken \o ipcQ

Before(r, e, f) == \E i, j \in 1 .. Len(r) : i < j /\ r[i] = e /\ r[j] = f

InOrder(s, r) ==
  /\ \A i \in 1 .. Len(s) : s[i] \in ToSet(r)
  /\ \A i, j \in 1 .. Len(s) : i < j => Before(r, s[i], s[j])

ShownInv == InOrder(Seen, recorded)

LEMMA InOrderAppend ==
  ASSUME NEW S, NEW s \in Seq(S), NEW r \in Seq(S), NEW e \in S, InOrder(s, r)
  PROVE  InOrder(Append(s, e), Append(r, e))
<1>1. /\ Len(Append(s, e)) = Len(s) + 1 /\ Append(s, e)[Len(s) + 1] = e
      /\ \A i \in 1 .. Len(s) : Append(s, e)[i] = s[i]
  BY Appended
<1>2. /\ Len(Append(r, e)) = Len(r) + 1 /\ Append(r, e)[Len(r) + 1] = e
      /\ \A i \in 1 .. Len(r) : Append(r, e)[i] = r[i]
  BY Appended
<1>3. ToSet(Append(r, e)) = ToSet(r) \cup {e}
  BY ToSetAppend
<1>4. Len(s) \in Nat /\ Len(r) \in Nat /\ ToSet(r) = {r[i] : i \in 1 .. Len(r)}
  BY LenProperties DEF ToSet
<1>5. \A i \in 1 .. Len(s) + 1 : i \in 1 .. Len(s) \/ i = Len(s) + 1
  BY <1>4
<1>6. \A i \in 1 .. Len(r) : i \in 1 .. Len(r) + 1 /\ i < Len(r) + 1
  BY <1>4
<1>7. \A i \in 1 .. Len(s) + 1 : Append(s, e)[i] \in ToSet(Append(r, e))
  BY <1>1, <1>3, <1>5 DEF InOrder
<1>8. ASSUME NEW i \in 1 .. Len(s), NEW j \in 1 .. Len(s), i < j
      PROVE  Before(Append(r, e), Append(s, e)[i], Append(s, e)[j])
  <2>1. PICK a, b \in 1 .. Len(r) : a < b /\ r[a] = s[i] /\ r[b] = s[j]
    BY <1>8 DEF InOrder, Before
  <2>2. /\ a \in 1 .. Len(r) + 1 /\ b \in 1 .. Len(r) + 1
        /\ Append(r, e)[a] = s[i] /\ Append(r, e)[b] = s[j]
    BY <1>2, <1>6, <2>1
  <2> QED
    BY <1>1, <1>2, <2>1, <2>2 DEF Before
<1>9. ASSUME NEW i \in 1 .. Len(s)
      PROVE  Before(Append(r, e), Append(s, e)[i], e)
  <2>1. PICK a \in 1 .. Len(r) : r[a] = s[i]
    BY <1>4 DEF InOrder
  <2>2. a \in 1 .. Len(r) + 1 /\ a < Len(r) + 1 /\ Append(r, e)[a] = Append(s, e)[i]
    BY <1>1, <1>2, <1>6, <2>1
  <2>3. Len(r) + 1 \in 1 .. Len(r) + 1
    BY <1>4
  <2> QED
    BY <1>2, <2>2, <2>3 DEF Before
<1>10. ASSUME NEW i \in 1 .. Len(s) + 1, NEW j \in 1 .. Len(s) + 1, i < j
       PROVE  Before(Append(r, e), Append(s, e)[i], Append(s, e)[j])
  <2>1. i \in 1 .. Len(s)
    BY <1>4, <1>10
  <2> QED
    BY <1>1, <1>5, <1>8, <1>9, <1>10, <2>1
<1> QED
  BY <1>1, <1>7, <1>10 DEF InOrder

LEMMA InOrderWithout ==
  ASSUME NEW S, NEW a \in Seq(S), NEW e \in S, NEW b \in Seq(S), NEW r \in Seq(S),
         InOrder(Append(a, e) \o b, r)
  PROVE  InOrder(a \o b, r)
<1> DEFINE s == Append(a, e) \o b
           t == a \o b
           at(i) == IF i <= Len(a) THEN i ELSE i + 1
<1>1. /\ Append(a, e) \in Seq(S) /\ Len(Append(a, e)) = Len(a) + 1
      /\ \A i \in 1 .. Len(a) : Append(a, e)[i] = a[i]
  BY Appended
<1>2. /\ Len(s) = Len(a) + 1 + Len(b)
      /\ \A i \in 1 .. Len(a) + 1 + Len(b) :
           s[i] = IF i <= Len(a) + 1 THEN Append(a, e)[i] ELSE b[i - (Len(a) + 1)]
  BY <1>1, ConcatProperties
<1>3. /\ Len(t) = Len(a) + Len(b)
      /\ \A i \in 1 .. Len(a) + Len(b) : t[i] = IF i <= Len(a) THEN a[i] ELSE b[i - Len(a)]
  BY ConcatProperties
<1>4. Len(a) \in Nat /\ Len(b) \in Nat
  BY LenProperties
<1> HIDE DEF s, t
<1>5. ASSUME NEW i \in 1 .. Len(t) PROVE at(i) \in 1 .. Len(s) /\ t[i] = s[at(i)]
  <2>1. CASE i <= Len(a)
    BY <1>1, <1>2, <1>3, <1>4, <2>1
  <2>2. CASE ~(i <= Len(a))
    <3>1. i + 1 \in 1 .. Len(a) + 1 + Len(b) /\ ~(i + 1 <= Len(a) + 1)
      BY <1>3, <1>4, <2>2
    <3>2. i + 1 - (Len(a) + 1) = i - Len(a)
      BY <1>3, <1>4
    <3> QED
      BY <1>2, <1>3, <2>2, <3>1, <3>2, SMTT(60)
  <2> QED
    BY <2>1, <2>2
<1>6. ASSUME NEW i \in 1 .. Len(t), NEW j \in 1 .. Len(t), i < j PROVE at(i) < at(j)
  BY <1>3, <1>4, <1>6
<1>7. InOrder(s, r)
  BY DEF s
<1> HIDE DEF at
<1>8. InOrder(t, r)
  BY <1>5, <1>6, <1>7 DEF InOrder
<1> QED
  BY <1>8 DEF t

LEMMA HeadMoves ==
  ASSUME NEW S, NEW p \in Seq(S), NEW q \in Seq(S), q # <<>>
  PROVE  Append(p, Head(q)) \o Tail(q) = p \o q
<1>1. /\ Head(q) \in S /\ Head(q) = q[1] /\ Tail(q) \in Seq(S) /\ Len(q) \in Nat \ {0}
      /\ Len(Tail(q)) = Len(q) - 1 /\ \A i \in 1 .. Len(q) - 1 : Tail(q)[i] = q[i + 1]
  BY HeadAndTail
<1>2. /\ Append(p, Head(q)) = p \o <<Head(q)>> /\ <<Head(q)>> \in Seq(S)
  BY <1>1, AppendIsConcat
<1>3. <<Head(q)>> \o Tail(q) = q
  <2> DEFINE h == <<Head(q)>>
  <2>1. h \in Seq(S) /\ Len(h) = 1 /\ h[1] = q[1]
    BY <1>1
  <2> HIDE DEF h
  <2>2. /\ h \o Tail(q) \in Seq(S) /\ Len(h \o Tail(q)) = Len(h) + Len(Tail(q))
        /\ \A i \in 1 .. Len(h) + Len(Tail(q)) :
             (h \o Tail(q))[i] = IF i <= Len(h) THEN h[i] ELSE Tail(q)[i - Len(h)]
    BY <1>1, <2>1, ConcatProperties, ZenonT(60)
  <2>3. Len(h \o Tail(q)) = Len(q)
    BY <1>1, <2>1, <2>2
  <2>4. \A i \in 1 .. Len(q) : (h \o Tail(q))[i] = q[i]
    BY <1>1, <2>1, <2>2
  <2>5. h \o Tail(q) = q
    BY <2>2, <2>3, <2>4, SeqEqual
  <2> QED
    BY <2>5 DEF h
<1> QED
  BY <1>1, <1>2, <1>3, ConcatAssociative

LEMMA ShownSteps ==
  ASSUME [Next]_vars
  PROVE  \/ UNCHANGED <<pubVars, recorded>>
         \/ ServerPublishes \/ PublisherTakes \/ Publishes \/ PublishFails
<1> USE DEF srvVars, pubVars
<1>1. ASSUME NEW c \in Controllers, ControllerNext(c) \/ Disconnects(c)
      PROVE  UNCHANGED <<pubVars, recorded>>
  BY <1>1, ControllerFrame DEF Disconnects
<1>2. CASE ServerNext
  <2>1. ASSUME NEW c \in Controllers,
               ServerReceives(c) \/ BroadcastSends(c) \/ BroadcastFails(c)
        PROVE  UNCHANGED <<pubVars, recorded>>
    BY <2>1, Zenon DEF ServerReceives, BroadcastSends, BroadcastFails
  <2> QED
    BY <1>2, <2>1, Zenon
       DEF ServerNext, SendsNote, ServerReceiveFails, ServerLists, ServerShutsDown,
           ServerBroadcasts, ServerTakes, BroadcastEnds, Aborts
<1>3. CASE UiNext
  BY <1>3, Zenon DEF UiNext, UiDrains, UiPollsNothing, UiSends, UiQuits, Logs, UiTypes
<1>4. CASE UNCHANGED vars
  BY <1>4, Zenon DEF vars
<1> QED
  BY <1>1, <1>2, <1>3, <1>4, Zenon DEF Next

(* While an event is being published, it stands between what was and what    *)
(* will be.                                                                  *)
LEMMA SeenSplit ==
  ASSUME TypeOK
  PROVE  /\ publishing = None => Seen = published \o ipcQ
         /\ publishing # None => Seen = Append(published, publishing) \o ipcQ
         /\ Seen \in Seq(Events)
<1>1. /\ published \in Seq(Events) /\ ipcQ \in Seq(Events)
      /\ publishing \in Events \cup {None}
  BY DEF TypeOK, PubOK
<1>2. publishing = None => published \o Taken = published
  BY <1>1, ConcatEmptySeq DEF Taken
<1>3. publishing # None => published \o Taken = Append(published, publishing)
  BY <1>1, AppendIsConcat DEF Taken
<1>4. publishing # None => Append(published, publishing) \in Seq(Events)
  BY <1>1, Appended
<1> QED
  BY <1>1, <1>2, <1>3, <1>4, ConcatProperties DEF Seen

LEMMA SeenSplitNext ==
  ASSUME TypeOK'
  PROVE  /\ publishing' = None => Seen' = published' \o ipcQ'
         /\ publishing' # None => Seen' = Append(published', publishing') \o ipcQ'
<1>1. /\ published' \in Seq(Events) /\ ipcQ' \in Seq(Events)
      /\ publishing' \in Events \cup {None}
  BY DEF TypeOK, PubOK
<1>2. publishing' = None => published' \o Taken' = published'
  BY <1>1, ConcatEmptySeq DEF Taken
<1>3. publishing' # None => published' \o Taken' = Append(published', publishing')
  BY <1>1, AppendIsConcat DEF Taken
<1> QED
  BY <1>2, <1>3 DEF Seen

LEMMA StepShown ==
  ASSUME TypeOK, TypeOK', ShownInv, [Next]_vars
  PROVE  ShownInv'
<1>1. /\ published \in Seq(Events) /\ ipcQ \in Seq(Events) /\ recorded \in Seq(Events)
      /\ publishing \in Events \cup {None}
  BY DEF TypeOK, PubOK, SrvOK
<1>2. None \notin Events
  BY NoneIsNothing
<1>3. CASE UNCHANGED <<pubVars, recorded>>
  <2>1. Seen' = Seen /\ recorded' = recorded
    BY <1>3 DEF pubVars, Seen, Taken
  <2> QED
    BY <2>1 DEF ShownInv
<1>4. CASE ServerPublishes
  <2>1. /\ event \in Events /\ recorded' = Append(recorded, event)
        /\ ipcQ' = Append(ipcQ, event) /\ UNCHANGED <<published, publishing>>
    BY <1>4 DEF ServerPublishes, TypeOK, SrvOK
  <2>2. Seen' = Append(Seen, event)
    <3>1. \A s \in Seq(Events) : s \o Append(ipcQ, event) = Append(s \o ipcQ, event)
      BY <1>1, <2>1, AppendIsConcat, ConcatAssociative, ConcatProperties, SMTT(60)
    <3>2. published \o Taken \in Seq(Events)
      BY <1>1, ConcatProperties DEF Taken
    <3> QED
      BY <2>1, <3>1, <3>2 DEF Seen, Taken
  <2>3. InOrder(Append(Seen, event), Append(recorded, event))
    BY <1>1, <2>1, SeenSplit, InOrderAppend DEF ShownInv
  <2> QED
    BY <2>1, <2>2, <2>3 DEF ShownInv
<1>5. CASE PublisherTakes
  <2>1. /\ publishing = None /\ ipcQ # <<>> /\ publishing' = Head(ipcQ)
        /\ ipcQ' = Tail(ipcQ) /\ UNCHANGED <<published, recorded>>
    BY <1>5 DEF PublisherTakes, srvVars
  <2>2. publishing' # None
    BY <1>1, <1>2, <2>1, HeadAndTail
  <2>3. Seen' = Append(published, Head(ipcQ)) \o Tail(ipcQ)
    <3>1. Seen' = Append(published', publishing') \o ipcQ'
      BY <2>2, SeenSplitNext
    <3> QED
      BY <2>1, <3>1
  <2>4. Seen' = Seen
    BY <1>1, <2>1, <2>3, HeadMoves, SeenSplit
  <2> QED
    BY <2>1, <2>4 DEF ShownInv
<1>6. CASE Publishes
  <2>1. /\ publishing # None /\ publishing' = None
        /\ published' = Append(published, publishing) /\ UNCHANGED <<ipcQ, recorded>>
    BY <1>6 DEF Publishes, PublisherDone, srvVars
  <2>2. Seen' = Append(published, publishing) \o ipcQ
    BY <2>1, SeenSplitNext
  <2>3. Seen' = Seen
    BY <2>1, <2>2, SeenSplit
  <2> QED
    BY <2>1, <2>3 DEF ShownInv
<1>7. CASE PublishFails
  <2>1. /\ publishing # None /\ publishing' = None
        /\ UNCHANGED <<ipcQ, published, recorded>>
    BY <1>7 DEF PublishFails, PublisherDone, srvVars
  <2>2. Seen' = published \o ipcQ
    BY <2>1, SeenSplitNext
  <2>3. InOrder(Append(published, publishing) \o ipcQ, recorded)
    BY <2>1, SeenSplit DEF ShownInv
  <2>4. InOrder(published \o ipcQ, recorded)
    BY <1>1, <2>1, <2>3, InOrderWithout
  <2> QED
    BY <2>1, <2>2, <2>4 DEF ShownInv
<1> QED
  BY <1>3, <1>4, <1>5, <1>6, <1>7, ShownSteps

LEMMA ShownHolds == Spec => []ShownInv
<1>1. Init => ShownInv
  <2> SUFFICES ASSUME Init PROVE ShownInv
    OBVIOUS
  <2>1. published = <<>> /\ publishing = None /\ ipcQ = <<>> /\ recorded = <<>>
    BY DEF Init
  <2>2. Seen = <<>>
    BY <2>1 DEF Seen, Taken
  <2> QED
    BY <2>2 DEF ShownInv, InOrder
<1>2. TypeOK /\ TypeOK' /\ ShownInv /\ [Next]_vars => ShownInv'
  BY StepShown
<1> QED
  BY <1>1, <1>2, HostTyped, PTL DEF Spec

(* No event stands in the files twice. *)
LEMMA NoneTwice ==
  ASSUME TypeOK, EventsInv, NEW i \in 1 .. Len(recorded), NEW j \in 1 .. Len(recorded),
         recorded[i] = recorded[j]
  PROVE  i = j
<1>1. recorded \in Seq(Events) /\ Len(recorded) \in Nat /\ DOMAIN recorded = 1 .. Len(recorded)
  BY LenProperties DEF TypeOK, SrvOK
<1>2. recorded[i] \in Events
  BY <1>1, ElementOfSeq
<1> DEFINE c == recorded[i].from
<1>3. c \in Controllers /\ recorded[i].n \in Nat
  BY <1>2 DEF Events
<1>4. i \in FromOf(c, recorded) /\ j \in FromOf(c, recorded)
  BY <1>1 DEF FromOf
<1>5. i < j => recorded[i].n < recorded[j].n
  BY <1>3, <1>4 DEF EventsInv, EventsUpTo, Holds
<1>6. j < i => recorded[j].n < recorded[i].n
  BY <1>3, <1>4 DEF EventsInv, EventsUpTo, Holds
<1> QED
  BY <1>1, <1>3, <1>5, <1>6

(* Subscribers see events in the order of the server's files, none twice and *)
(* none that is not in them (ipc_publisher.rs:111-116, server.rs:111-123).   *)
THEOREM ShownAsRecorded == Spec => []PublishedAsRecorded
<1>1. TypeOK /\ EventsInv /\ ShownInv => PublishedAsRecorded
  <2> DEFINE place(e) == CHOOSE i \in DOMAIN recorded : recorded[i] = e
  <2> SUFFICES ASSUME TypeOK, EventsInv, ShownInv
               PROVE  /\ ToSet(Seen) \subseteq ToSet(recorded)
                      /\ \A i, j \in DOMAIN Seen : i < j => place(Seen[i]) < place(Seen[j])
    BY DEF PublishedAsRecorded, Seen, Taken
  <2>1. /\ Seen \in Seq(Events) /\ DOMAIN Seen = 1 .. Len(Seen)
        /\ DOMAIN recorded = 1 .. Len(recorded)
    BY SeenSplit, LenProperties DEF TypeOK, SrvOK
  <2>2. ToSet(Seen) \subseteq ToSet(recorded)
    BY <2>1 DEF ShownInv, InOrder, ToSet
  <2>3. ASSUME NEW a \in 1 .. Len(recorded) PROVE place(recorded[a]) = a
    <3>1. place(recorded[a]) \in DOMAIN recorded /\ recorded[place(recorded[a])] = recorded[a]
      BY <2>1
    <3> QED
      BY <2>1, <3>1, NoneTwice
  <2>4. ASSUME NEW i \in DOMAIN Seen, NEW j \in DOMAIN Seen, i < j
        PROVE  place(Seen[i]) < place(Seen[j])
    <3>1. PICK a, b \in 1 .. Len(recorded) :
            a < b /\ recorded[a] = Seen[i] /\ recorded[b] = Seen[j]
      BY <2>1, <2>4 DEF ShownInv, InOrder, Before
    <3> QED
      BY <2>3, <3>1
  <2> QED
    BY <2>2, <2>4
<1> QED
  BY <1>1, EventsHold, ShownHolds, HostTyped, PTL

-----------------------------------------------------------------------------
(* The steps of the promise.                                                 *)
promised == <<read, recorded, published, sentTo, written>>

LEMMA PromiseSteps ==
  ASSUME [Next]_vars
  PROVE  \/ UNCHANGED promised
         \/ ServerPublishes \/ Publishes
         \/ \E c \in Controllers :
              BoardReports(c) \/ BroadcastSends(c) \/ Writes(c) \/ WriteFails(c)
<1> USE DEF ctlVars, srvVars, pubVars, promised
<1>1. ASSUME NEW c \in Controllers, ControllerNext(c)
      PROVE  \/ UNCHANGED promised
             \/ BoardReports(c) \/ Writes(c) \/ WriteFails(c)
  BY <1>1, Zenon
     DEF ControllerNext, LoopNext, WriterNext, Connects, ConnectFails, ReceiveFails,
         ForwardFails, LoopEnds, Forwards, TakesCommand, SendsCommand
<1>2. ASSUME NEW c \in Controllers, Disconnects(c)
      PROVE  UNCHANGED promised
  BY <1>2, Zenon DEF Disconnects
<1>3. CASE ServerNext
  <2>1. ASSUME NEW c \in Controllers, ServerReceives(c) \/ BroadcastFails(c)
        PROVE  UNCHANGED promised
    BY <2>1, Zenon DEF ServerReceives, BroadcastFails
  <2> QED
    BY <1>3, <2>1, Zenon
       DEF ServerNext, SendsNote, ServerReceiveFails, ServerLists, ServerShutsDown,
           ServerBroadcasts, ServerTakes, BroadcastEnds, Aborts
<1>4. CASE PublisherTakes \/ PublishFails
  BY <1>4, Zenon DEF PublisherTakes, PublishFails, PublisherDone
<1>5. CASE UiNext
  BY <1>5, Zenon DEF UiNext, UiDrains, UiPollsNothing, UiSends, UiQuits, Logs, UiTypes
<1>6. CASE UNCHANGED vars
  BY <1>6, Zenon DEF vars
<1> QED
  BY <1>1, <1>2, <1>3, <1>4, <1>5, <1>6, Zenon DEF Next

LEMMA ServerPublishesRecords ==
  ASSUME TypeOK, EventsInv, ServerPublishes
  PROVE  \E c \in Controllers : Promise!Records(c)
<1> DEFINE c == event.from
<1>1. /\ event \in Events /\ event # None /\ recorded' = Append(recorded, event)
      /\ UNCHANGED <<read, published, sentTo, written>>
  BY DEF ServerPublishes, ctlVars, TypeOK, SrvOK
<1>2. /\ c \in Controllers /\ event.n \in Nat /\ event = [from |-> c, n |-> event.n]
  BY <1>1 DEF Events
<1>3. /\ read \in [Controllers -> Nat] /\ up \in [Controllers -> Seq(Events)]
  BY DEF TypeOK, CtlOK, NetOK
<1>4. PICK r \in Nat : EventsUpTo(c, r)
  BY <1>2 DEF EventsInv
<1>5. event.n = r + 1 /\ Reached(c, r) = r + 1
  BY <1>1, <1>4 DEF EventsUpTo, Mine, Reached
<1>6. Piece(up[c], ReadBy(c), r + 1)
  BY <1>4, <1>5 DEF EventsUpTo, Coming
<1>7. r + 1 <= read[c]
  <2>1. Len(up[c]) \in Nat /\ read[c] \in Nat
    BY <1>2, <1>3, LenProperties
  <2>2. Len(ReadBy(c)) = read[c]
    BY <1>2, <2>1, ReadByIsSeq
  <2>3. r + 1 + Len(up[c]) <= Len(ReadBy(c))
    BY <1>6 DEF Piece
  <2> QED
    BY <1>2, <1>3, <2>1, <2>2, <2>3
<1>8. Promise!RecordedOf(c) = 1 .. r
  BY <1>4 DEF EventsUpTo, Holds, FromOf, Promise!RecordedOf
<1> HIDE DEF c
<1>9. Promise!Records(c)
  <2>1. event.n \in 1 .. read[c]
    BY <1>2, <1>3, <1>5, <1>7
  <2>2. event.n \notin Promise!RecordedOf(c) /\ 1 .. event.n - 1 \subseteq Promise!RecordedOf(c)
    BY <1>5, <1>8
  <2> QED
    BY <1>1, <1>2, <2>1, <2>2 DEF Promise!Records
<1> QED
  BY <1>2, <1>9

LEMMA PublishesShows ==
  ASSUME TypeOK, EventsInv, ShownInv, Publishes
  PROVE  Promise!Shows
<1>1. /\ publishing # None /\ publishing \in Events /\ published' = Append(published, publishing)
      /\ UNCHANGED <<read, recorded, sentTo, written>>
  BY DEF Publishes, PublisherDone, ctlVars, srvVars, TypeOK, PubOK
<1>2. /\ published \in Seq(Events) /\ ipcQ \in Seq(Events) /\ Len(published) \in Nat
      /\ Len(ipcQ) \in Nat /\ DOMAIN published = 1 .. Len(published)
      /\ DOMAIN recorded = 1 .. Len(recorded) /\ Len(recorded) \in Nat
  BY LenProperties DEF TypeOK, PubOK, SrvOK
<1> DEFINE at == Len(published) + 1
<1>3. /\ at \in 1 .. Len(Seen) /\ Seen[at] = publishing
      /\ \A k \in 1 .. Len(published) : k \in 1 .. Len(Seen) /\ k < at /\ Seen[k] = published[k]
  <2>1. Seen = Append(published, publishing) \o ipcQ
    BY <1>1, SeenSplit
  <2>2. /\ Append(published, publishing) \in Seq(Events)
        /\ Len(Append(published, publishing)) = at
        /\ Append(published, publishing)[at] = publishing
        /\ \A k \in 1 .. Len(published) : Append(published, publishing)[k] = published[k]
    BY <1>1, <1>2, Appended
  <2>3. /\ Len(Seen) = at + Len(ipcQ)
        /\ \A k \in 1 .. at + Len(ipcQ) : k <= at => Seen[k] = Append(published, publishing)[k]
    BY <1>2, <2>1, <2>2, ConcatProperties
  <2> QED
    BY <1>2, <2>2, <2>3
<1>4. PICK i \in 1 .. Len(recorded) : recorded[i] = publishing
  BY <1>2, <1>3 DEF ShownInv, InOrder, ToSet
<1>5. ASSUME NEW j \in i .. Len(recorded), NEW k \in DOMAIN published
      PROVE  published[k] # recorded[j]
  <2>1. PICK a, b \in 1 .. Len(recorded) :
          a < b /\ recorded[a] = published[k] /\ recorded[b] = publishing
    <3>1. k \in 1 .. Len(Seen) /\ k < at /\ Seen[k] = published[k]
      BY <1>2, <1>3
    <3>2. Before(recorded, Seen[k], Seen[at])
      BY <1>3, <3>1 DEF ShownInv, InOrder
    <3> QED
      BY <1>3, <3>1, <3>2 DEF Before
  <2>2. b = i
    BY <1>4, <2>1, NoneTwice
  <2>3. j \in 1 .. Len(recorded) /\ a # j
    BY <1>2, <2>1, <2>2
  <2> QED
    BY <2>1, <2>3, NoneTwice
<1> QED
  BY <1>1, <1>2, <1>4, <1>5 DEF Promise!Shows

LEMMA BroadcastSendsOrders ==
  ASSUME TypeOK, SentInv, NEW c \in Controllers, BroadcastSends(c)
  PROVE  Promise!Orders(c)
<1>1. /\ order \in Numbers /\ server = "broadcast" /\ c \in todo
      /\ sentTo' = [sentTo EXCEPT ![c] = Append(@, order)]
      /\ UNCHANGED <<read, recorded, published, written>>
  BY DEF BroadcastSends, ctlVars, pubVars, TypeOK, SrvOK
<1>2. DOMAIN sentTo[c] = 1 .. Len(sentTo[c])
  BY LenProperties DEF TypeOK, SrvOK
<1>3. \A i \in DOMAIN sentTo[c] : sentTo[c][i] < order
  BY <1>1, <1>2 DEF SentInv, SentOf
<1> QED
  BY <1>1, <1>3 DEF Promise!Orders

LEMMA WritesGives ==
  ASSUME TypeOK, CommandsInv, NEW c \in Controllers, Writes(c) \/ WriteFails(c)
  PROVE  Promise!Gives(c) \/ UNCHANGED promised
<1>1. /\ writer[c] = "up" /\ commandQ[c] # <<>>
      /\ UNCHANGED <<read, recorded, published, sentTo>>
      /\ \/ written' = written
         \/ written' = [written EXCEPT ![c] = Append(@, Head(commandQ[c]))]
  BY DEF Writes, WriteFails, WriterTakes, srvVars, pubVars
<1>2. /\ written \in [Controllers -> Seq(Numbers)] /\ sentTo \in [Controllers -> Seq(Numbers)]
      /\ commandQ \in [Controllers -> Seq(Numbers)]
  BY DEF TypeOK, CtlOK, SrvOK
<1>3. Piece(commandQ[c], sentTo[c], Given(c)) /\ Given(c) \in Nat
  BY <1>1, <1>2, LenProperties DEF CommandsInv, CommandsOf, Given
<1>4. Given(c) + 1 <= Len(sentTo[c]) /\ Head(commandQ[c]) = sentTo[c][Given(c) + 1]
  <2>1. commandQ[c] \in Seq(Numbers) /\ sentTo[c] \in Seq(Numbers)
    BY <1>2
  <2> QED
    BY <1>1, <1>3, <2>1, PieceHead
<1>5. Len(written[c]) < Len(sentTo[c])
  <2>1. Len(sentTo[c]) \in Nat
    BY <1>2, LenProperties
  <2> QED
    BY <1>2, <1>3, <1>4, <2>1 DEF Given
<1> QED
  BY <1>1, <1>4, <1>5 DEF Promise!Gives, Given, promised

LEMMA BoardReportsReports ==
  ASSUME NEW c \in Controllers, BoardReports(c)
  PROVE  Promise!Reports(c)
BY Zenon DEF BoardReports, ctlVars, srvVars, pubVars, Promise!Reports

(* All the interleavings, full channels and failures keep what the host      *)
(* promises: every step is a step of HostPromise or none (esp_io.rs:71-115,  *)
(* controller.rs:79-112, server.rs:67-157, ipc_publisher.rs:78-119).         *)
THEOREM HostKeepsPromise == Spec => KeepsPromise
<1>1. Init => Promise!Init
  BY DEF Init, Promise!Init
<1>2. ASSUME TypeOK, CommandsInv, SentInv, EventsInv, ShownInv, [Next]_vars
      PROVE  [Promise!Next]_(Promise!promiseVars)
  <2>1. CASE UNCHANGED promised
    BY <2>1 DEF promised, Promise!promiseVars
  <2>2. CASE ServerPublishes
    BY <1>2, <2>2, ServerPublishesRecords DEF Promise!Next
  <2>3. CASE Publishes
    BY <1>2, <2>3, PublishesShows DEF Promise!Next
  <2>4. ASSUME NEW c \in Controllers,
               BoardReports(c) \/ BroadcastSends(c) \/ Writes(c) \/ WriteFails(c)
        PROVE  UNCHANGED promised \/ Promise!Next
    BY <1>2, <2>4, BoardReportsReports, BroadcastSendsOrders, WritesGives DEF Promise!Next
  <2> QED
    BY <1>2, <2>1, <2>2, <2>3, <2>4, PromiseSteps
<1> QED
  BY <1>1, <1>2, HostTyped, CommandsHold, SentHolds, EventsHold, ShownHolds, PTL
     DEF Spec, KeepsPromise, Promise!Spec
-----------------------------------------------------------------------------
(* Who waits for whom.  A full channel is not an empty one, so the receiver  *)
(* has something to take; it takes it unless it waits in turn.               *)
LEMMA FullQueue ==
  ASSUME NEW S, NEW s \in Seq(S), NEW cap \in Nat \ {0}, ~(Len(s) < cap)
  PROVE  s # <<>>
OBVIOUS

(* With commands waiting for it a server that runs can go on, unless it waits*)
(* for the UI itself; where it waits for the publisher, that can.            *)
LEMMA ServerServes ==
  ASSUME TypeOK, ServerUp, uiCommandQ # <<>>
  PROVE  ServerGoes \/ PublisherGoes \/ (notes > 0 /\ ~NoteAccepted)
<1>1. notes = 0 \/ notes > 0
  BY DEF TypeOK, SrvOK
<1>2. CASE notes > 0
  BY <1>2 DEF ServerGoes
<1>3. CASE notes = 0
  <2>1. server \in {"select", "publish", "broadcast"}
    BY <1>3 DEF ServerUp, TypeOK, SrvOK
  <2>2. CASE server = "select"
    BY <1>3, <2>2 DEF ServerGoes, ServerSelects
  <2>3. CASE server = "publish"
    <3>1. IpcAccepted \/ ipcQ # <<>>
      BY Caps, FullQueue DEF IpcAccepted, TypeOK, PubOK
    <3>. QED BY <1>3, <2>3, <3>1 DEF ServerGoes, PublisherGoes
  <2>4. CASE server = "broadcast"
    BY <1>3, <2>4 DEF ServerGoes
  <2>. QED BY <2>1, <2>2, <2>3, <2>4
<1>. QED BY <1>1, <1>2, <1>3

(* Both channels between them full, and each sending.                        *)
LEMMA CircleIs ==
  ASSUME TypeOK, notes > 0, ~NoteAccepted, tui = "send", ~UiCommandAccepted
  PROVE  CircularWait
<1>1. uiQ = UiCap
  BY Caps DEF NoteAccepted, TypeOK, UiOK
<1>2. Len(uiCommandQ) = UiCommandCap
  <2>1. Len(uiCommandQ) \in Nat /\ Len(uiCommandQ) <= UiCommandCap
    BY LenProperties DEF TypeOK, UiOK
  <2>. QED BY <2>1, Caps DEF UiCommandAccepted
<1>. QED BY <1>1, <1>2 DEF CircularWait

LEMMA UiServesNotes ==
  ASSUME TypeOK, notes > 0, ~NoteAccepted
  PROVE  UiGoes \/ CircularWait
<1>1. tui \in {"drain", "poll", "send"} /\ uiQ > 0
  BY Caps DEF NoteAccepted, TypeOK, UiOK
<1>. QED BY <1>1, CircleIs DEF UiGoes

LEMMA WriterServes ==
  ASSUME TypeOK, NEW c \in Controllers, ~CommandAccepted(c)
  PROVE  WriterGoes(c)
<1>1. commandQ[c] \in Seq(Numbers)
  BY DEF TypeOK, CtlOK
<1>. QED BY <1>1, Caps, FullQueue DEF CommandAccepted, WriterGoes

(* Every wait of the host's tasks ends in one that can go on, or in the one  *)
(* circle of server and UI, for all capacities and whatever has failed.      *)
THEOREM WaitsServed == Spec => []WaitsAreServed
<1>1. ASSUME TypeOK PROVE WaitsAreServed
  <2> USE <1>1
  <2>1. ASSUME NEW c \in Controllers, ~EventAccepted(c)
        PROVE  LoopGoes(c) \/ WriterGoes(c)
    <3>1. eventQ[c] \in Seq(Events) /\ loop[c] \in {"connecting", "up", "ended"}
      BY DEF TypeOK, CtlOK
    <3>2. eventQ[c] # <<>> /\ loop[c] \in {"connecting", "up"}
      BY <2>1, <3>1, Caps, FullQueue DEF EventAccepted
    <3>3. CASE held[c] # None
      BY <3>3, WriterServes DEF LoopGoes
    <3>4. CASE held[c] = None
      BY <3>2, <3>4 DEF LoopGoes, Selects
    <3>. QED BY <3>3, <3>4
  <2>2. server = "publish" /\ notes = 0 /\ ~IpcAccepted => PublisherGoes
    BY Caps, FullQueue DEF IpcAccepted, PublisherGoes, TypeOK, PubOK
  <2>3. ASSUME tui = "send", ~UiCommandAccepted
        PROVE  ServerGoes \/ PublisherGoes \/ CircularWait
    <3>1. ServerUp /\ uiCommandQ # <<>>
      BY <2>3, Caps, FullQueue DEF UiCommandAccepted, TypeOK, UiOK
    <3>. QED BY <2>3, <3>1, ServerServes, CircleIs
  <2>. QED BY <2>1, <2>2, <2>3, WriterServes, UiServesNotes DEF WaitsAreServed
<1>. QED BY <1>1, HostTyped, PTL

(* No capacity and no failure makes anything wait in vain, and what is under *)
(* way while nothing has failed finds a task that can go on, unless server   *)
(* and UI wait for each other.                                               *)
THEOREM NeverStuckElsewhere == Spec => []StuckOnlyInCircle
<1>1. ASSUME TypeOK PROVE UnderWayGoesOn
  <2> USE <1>1
  <2>1. SUFFICES ASSUME NEW c \in Controllers, ~Failed(c), ~CircularWait,
                        eventQ[c] # <<>> \/ held[c] # None \/ up[c] # <<>> \/ down[c] # <<>>
                 PROVE  SomeoneGoes
    BY DEF UnderWayGoesOn
  <2>2. ServerUp /\ loop[c] \in {"connecting", "up"}
    BY <2>1 DEF Failed, Broken, TypeOK, CtlOK
  <2>3. CASE held[c] # None
    BY <2>3, WriterServes DEF LoopGoes, SomeoneGoes
  <2>4. CASE held[c] = None /\ (eventQ[c] # <<>> \/ down[c] # <<>>)
    BY <2>2, <2>4 DEF LoopGoes, Selects, SomeoneGoes
  <2>5. CASE up[c] # <<>>
    <3>1. notes = 0 \/ notes > 0
      BY DEF TypeOK, SrvOK
    <3>2. CASE notes > 0
      BY <2>1, <3>2, UiServesNotes DEF ServerGoes, SomeoneGoes
    <3>3. CASE notes = 0 /\ server = "select"
      BY <2>5, <3>3 DEF ServerGoes, ServerSelects, SomeoneGoes
    <3>4. CASE notes = 0 /\ server = "publish"
      <4>1. IpcAccepted \/ ipcQ # <<>>
        BY Caps, FullQueue DEF IpcAccepted, TypeOK, PubOK
      <4>. QED BY <3>4, <4>1 DEF ServerGoes, PublisherGoes, SomeoneGoes
    <3>5. CASE notes = 0 /\ server = "broadcast"
      BY <3>5 DEF ServerGoes, SomeoneGoes
    <3>. QED BY <2>2, <3>1, <3>2, <3>3, <3>4, <3>5 DEF ServerUp, TypeOK, SrvOK
  <2>. QED BY <2>1, <2>3, <2>4, <2>5
<1>. QED BY <1>1, HostTyped, WaitsServed, PTL DEF StuckOnlyInCircle
=============================================================================
