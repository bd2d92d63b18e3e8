------------------------------ MODULE HostNet ------------------------------
(* The host side: one controller per board (controller/src/bin/controller.rs,*)
(* esp_io.rs), the server with its publisher (bin/server.rs, ipc_publisher.rs)*)
(* and its terminal UI (tui.rs).  All of them are tasks joined by bounded    *)
(* channels; a task that sends on a full channel waits.                      *)
(*                                                                           *)
(* A handler of a select loop is one action up to its next await that may    *)
(* wait.  The network (external) is a pair of queues per controller; a       *)
(* connection that breaks stays broken, and either end notices at a send or  *)
(* a receive, or never.  What else the server may be sent is left out, and   *)
(* so are the commands a controller gives its own board, "id" and "help" at  *)
(* the start and what its user types: they share commandQ and the writer.    *)
EXTENDS Integers, Sequences, FiniteSets, SequencesExt

CONSTANTS Controllers,   \* each with its board
          None,          \* absence of an event or a command
          EventCap,      \* reader to select loop (100)
          CommandCap,    \* select loop to the port's writer (100)
          UiCap,         \* server to terminal UI (1024)
          UiCommandCap,  \* terminal UI to server (1024)
          IpcCap,        \* server to publisher (1024)
          MaxEvents,     \* bound on the events of all boards
          MaxCommands,   \* bound on the commands typed
          MaxFaults      \* bound on broken connections, failed writes and sends

ASSUME BoundsAreCounts ==
  /\ {EventCap, CommandCap, UiCap, UiCommandCap, IpcCap} \subseteq Nat \ {0}
  /\ {MaxEvents, MaxCommands, MaxFaults} \subseteq Nat

VARIABLES read,       \* [c]: events the reader has taken from its board
          eventQ,     \* [c]: msg_tx to msg_rx
          loop,       \* [c]: "connecting", "up" or "ended"
          held,       \* [c]: the command the loop is putting into commandQ
          commandQ,   \* [c]: tx to write_task
          writer,     \* [c]: write_task is "up" or has "ended"
          written,    \* [c]: commands written to the board
          up, down,   \* [c]: messages on their way to and from the server
          lost,       \* the controllers whose connection has broken
          server,     \* what run_server does once its notes are sent
          event,      \* the event it is handling
          notes,      \* messages to the UI it must send before it goes on
          todo,       \* the clients a broadcast has still to reach
          order,      \* the command being broadcast
          clients,    \* everyone heard of
          recorded,   \* events written to the server's files
          ipcQ,       \* events on their way to the publisher
          publishing, \* the event the publisher has taken
          published,  \* events published
          tui,        \* what the UI does next
          uiQ,        \* number of messages waiting for the UI
          typed,      \* commands typed so far
          typing,     \* the command the UI is sending
          uiCommandQ, \* commands for the server
          orders,     \* every broadcast begun, with its clients
          sentTo,     \* [c]: commands the server has sent to c
          faults      \* so far

ctlVars == <<read, eventQ, loop, held, commandQ, writer, written>>
netVars == <<up, down, lost>>
srvVars == <<server, event, notes, todo, order, clients, recorded>>
pubVars == <<ipcQ, publishing, published>>
tuiVars == <<tui, uiQ, typed, typing, uiCommandQ>>
vars == <<ctlVars, netVars, srvVars, pubVars, tuiVars, orders, sentTo, faults>>

Events == [from : Controllers, n : Nat]
Numbers == 1 .. MaxCommands
Commands == [kind : {"list", "broadcast", "shutdown"}, n : Numbers]

ASSUME NoneIsNothing == None \notin Events \cup Commands \cup Numbers

ServerUp == server # "ended" \/ notes > 0

Broken(c) == c \in lost \/ ~ServerUp

Fault == faults < MaxFaults /\ faults' = faults + 1

-----------------------------------------------------------------------------
(* A controller *)

OfferEvent_BugDrops(c, e) ==
  eventQ' = IF loop[c] = "ended" \/ Len(eventQ[c]) >= EventCap THEN eventQ
            ELSE [eventQ EXCEPT ![c] = Append(@, e)]

EventAccepted(c) == loop[c] # "ended" => Len(eventQ[c]) < EventCap

(* msg_tx.send waits while the channel is full; it fails, and the reader     *)
(* goes on, when the loop has ended.                                         *)
OfferEvent(c, e) ==
  /\ EventAccepted(c)
  /\ eventQ' = IF loop[c] = "ended" THEN eventQ
               ELSE [eventQ EXCEPT ![c] = Append(@, e)]

BoardReports(c) ==
  /\ FoldFunction(LAMBDA a, b : a + b, 0, read) < MaxEvents
  /\ read' = [read EXCEPT ![c] = @ + 1]
  /\ OfferEvent(c, [from |-> c, n |-> read'[c]])
  /\ UNCHANGED <<loop, held, commandQ, writer, written>>
  /\ UNCHANGED <<netVars, srvVars, pubVars, tuiVars, orders, sentTo, faults>>

Connects(c) ==
  /\ loop[c] = "connecting" /\ ServerUp
  /\ loop' = [loop EXCEPT ![c] = "up"]
  /\ UNCHANGED <<read, eventQ, held, commandQ, writer, written>>
  /\ UNCHANGED <<netVars, srvVars, pubVars, tuiVars, orders, sentTo, faults>>

(* The loop ends and drops its ends of the channels. *)
LoopEnds(c) ==
  /\ loop' = [loop EXCEPT ![c] = "ended"]
  /\ eventQ' = [eventQ EXCEPT ![c] = <<>>]
  /\ UNCHANGED <<read, held, commandQ, writer, written>>
  /\ UNCHANGED <<netVars, srvVars, pubVars, tuiVars, orders, sentTo, faults>>

ConnectFails(c) == loop[c] = "connecting" /\ ~ServerUp /\ LoopEnds(c)

Selects(c) == loop[c] = "up" /\ held[c] = None

(* socket.recv() fails. *)
ReceiveFails(c) == Selects(c) /\ Broken(c) /\ LoopEnds(c)

(* socket.send() fails. *)
ForwardFails(c) == Selects(c) /\ Broken(c) /\ eventQ[c] # <<>> /\ LoopEnds(c)

(* On a broken connection the message may also vanish. *)
Forwards(c) ==
  /\ Selects(c) /\ eventQ[c] # <<>>
  /\ eventQ' = [eventQ EXCEPT ![c] = Tail(@)]
  /\ up' = IF Broken(c) THEN up ELSE [up EXCEPT ![c] = Append(@, Head(eventQ[c]))]
  /\ UNCHANGED <<read, loop, held, commandQ, writer, written, down, lost>>
  /\ UNCHANGED <<srvVars, pubVars, tuiVars, orders, sentTo, faults>>

TakesCommand(c) ==
  /\ Selects(c) /\ down[c] # <<>>
  /\ held' = [held EXCEPT ![c] = Head(down[c])]
  /\ down' = [down EXCEPT ![c] = Tail(@)]
  /\ UNCHANGED <<read, eventQ, loop, commandQ, writer, written, up, lost>>
  /\ UNCHANGED <<srvVars, pubVars, tuiVars, orders, sentTo, faults>>

CommandAccepted_BugNeverFails(c) == writer[c] = "up" /\ Len(commandQ[c]) < CommandCap

CommandAccepted(c) == writer[c] = "up" => Len(commandQ[c]) < CommandCap

(* send_command waits while the channel is full; it fails, and the loop goes *)
(* on, when the writer has ended.                                            *)
OfferCommand(c) ==
  /\ CommandAccepted(c)
  /\ commandQ' = IF writer[c] = "ended" THEN commandQ
                 ELSE [commandQ EXCEPT ![c] = Append(@, held[c])]

SendsCommand(c) ==
  /\ held[c] # None
  /\ OfferCommand(c)
  /\ held' = [held EXCEPT ![c] = None]
  /\ UNCHANGED <<read, eventQ, loop, writer, written>>
  /\ UNCHANGED <<netVars, srvVars, pubVars, tuiVars, orders, sentTo, faults>>

WriterTakes(c) ==
  /\ writer[c] = "up" /\ commandQ[c] # <<>>
  /\ UNCHANGED <<read, eventQ, loop, held>>
  /\ UNCHANGED <<netVars, srvVars, pubVars, tuiVars, orders, sentTo>>

Writes(c) ==
  /\ WriterTakes(c)
  /\ written' = [written EXCEPT ![c] = Append(@, Head(commandQ[c]))]
  /\ commandQ' = [commandQ EXCEPT ![c] = Tail(@)]
  /\ UNCHANGED <<writer, faults>>

WriteFails_BugGoesOn(c) ==
  /\ WriterTakes(c) /\ Fault
  /\ commandQ' = [commandQ EXCEPT ![c] = Tail(@)]
  /\ UNCHANGED <<writer, written>>

(* write_task ends at the first error, of the write or of the flush after    *)
(* it; what waits behind it is lost.                                         *)
WriteFails(c) ==
  /\ WriterTakes(c) /\ Fault
  /\ writer' = [writer EXCEPT ![c] = "ended"]
  /\ commandQ' = [commandQ EXCEPT ![c] = <<>>]
  /\ \/ UNCHANGED written
     \/ written' = [written EXCEPT ![c] = Append(@, Head(commandQ[c]))]

(* The connection breaks; of what is under way, some is still delivered. *)
Disconnects(c) ==
  /\ loop[c] = "up" /\ c \notin lost /\ Fault
  /\ lost' = lost \cup {c}
  /\ \E k \in 0 .. Len(up[c]) : up' = [up EXCEPT ![c] = SubSeq(@, 1, k)]
  /\ \E k \in 0 .. Len(down[c]) : down' = [down EXCEPT ![c] = SubSeq(@, 1, k)]
  /\ UNCHANGED <<ctlVars, srvVars, pubVars, tuiVars, orders, sentTo>>

-----------------------------------------------------------------------------
(* run_server *)

ServerSelects == server = "select" /\ notes = 0

NoteAccepted == tui # "ended" => uiQ < UiCap

(* event_tx.send waits while the channel is full, and fails when the UI has  *)
(* returned.                                                                 *)
SendsNote ==
  /\ notes > 0 /\ NoteAccepted
  /\ notes' = notes - 1
  /\ uiQ' = IF tui = "ended" THEN uiQ ELSE uiQ + 1
  /\ UNCHANGED <<server, event, todo, order, clients, recorded>>
  /\ UNCHANGED <<ctlVars, netVars, pubVars, tui, typed, typing, uiCommandQ>>
  /\ UNCHANGED <<orders, sentTo, faults>>

(* An event arrives; the first of a controller makes it a client, which the  *)
(* UI is told in two messages.                                               *)
ServerReceives(c) ==
  /\ ServerSelects /\ up[c] # <<>>
  /\ event' = Head(up[c])
  /\ up' = [up EXCEPT ![c] = Tail(@)]
  /\ clients' = clients \cup {c}
  /\ notes' = IF c \in clients THEN 0 ELSE 2
  /\ server' = "publish"
  /\ UNCHANGED <<todo, order, recorded, down, lost>>
  /\ UNCHANGED <<ctlVars, pubVars, tuiVars, orders, sentTo, faults>>

IpcAccepted == Len(ipcQ) < IpcCap

(* ipc_publisher.send, which waits while the channel is full, then the files.*)
ServerPublishes ==
  /\ server = "publish" /\ notes = 0 /\ IpcAccepted
  /\ ipcQ' = Append(ipcQ, event)
  /\ recorded' = Append(recorded, event)
  /\ server' = "select" /\ event' = None
  /\ UNCHANGED <<notes, todo, order, clients, publishing, published>>
  /\ UNCHANGED <<ctlVars, netVars, tuiVars, orders, sentTo, faults>>

(* The library reports a broken connection as an error: the loop breaks. *)
ServerReceiveFails ==
  /\ ServerSelects /\ lost # {}
  /\ server' = "ended" /\ notes' = 1
  /\ UNCHANGED <<event, todo, order, clients, recorded>>
  /\ UNCHANGED <<ctlVars, netVars, pubVars, tuiVars, orders, sentTo, faults>>

ServerTakes(kind) ==
  /\ ServerSelects
  /\ uiCommandQ # <<>> /\ Head(uiCommandQ).kind = kind
  /\ uiCommandQ' = Tail(uiCommandQ)
  /\ UNCHANGED <<event, clients, recorded, tui, uiQ, typed, typing>>
  /\ UNCHANGED <<ctlVars, netVars, pubVars, sentTo, faults>>

ServerLists ==
  /\ ServerTakes("list")
  /\ notes' = 1
  /\ UNCHANGED <<server, todo, order, orders>>

ServerShutsDown ==
  /\ ServerTakes("shutdown")
  /\ server' = "ended" /\ notes' = 1
  /\ UNCHANGED <<todo, order, orders>>

ServerBroadcasts ==
  /\ ServerTakes("broadcast")
  /\ server' = "broadcast" /\ todo' = clients /\ order' = Head(uiCommandQ).n
  /\ orders' = Append(orders, [n |-> order', to |-> clients])
  /\ UNCHANGED notes

(* socket.send to a client; on a broken connection the message vanishes. *)
BroadcastSends(c) ==
  /\ server = "broadcast" /\ c \in todo
  /\ todo' = todo \ {c}
  /\ sentTo' = [sentTo EXCEPT ![c] = Append(@, order)]
  /\ down' = IF Broken(c) THEN down ELSE [down EXCEPT ![c] = Append(@, order)]
  /\ UNCHANGED <<server, event, notes, order, clients, recorded, up, lost>>
  /\ UNCHANGED <<ctlVars, pubVars, tuiVars, orders, faults>>

BroadcastFails_BugSkips(c) ==
  /\ server = "broadcast" /\ c \in todo /\ Broken(c)
  /\ todo' = todo \ {c}
  /\ UNCHANGED <<server, event, notes, order, clients, recorded>>
  /\ UNCHANGED <<ctlVars, netVars, pubVars, tuiVars, orders, sentTo, faults>>

(* Or it fails, and with it run_server: send_to_client(..).await?  *)
BroadcastFails(c) ==
  /\ server = "broadcast" /\ c \in todo /\ Broken(c)
  /\ server' = "ended" /\ todo' = {}
  /\ UNCHANGED <<event, notes, order, clients, recorded>>
  /\ UNCHANGED <<ctlVars, netVars, pubVars, tuiVars, orders, sentTo, faults>>

BroadcastEnds ==
  /\ server = "broadcast" /\ todo = {}
  /\ server' = "select" /\ notes' = 1
  /\ UNCHANGED <<event, todo, order, clients, recorded>>
  /\ UNCHANGED <<ctlVars, netVars, pubVars, tuiVars, orders, sentTo, faults>>

(* The UI has returned: main aborts the server's task. *)
Aborts ==
  /\ tui = "ended" /\ ServerUp
  /\ server' = "ended" /\ notes' = 0
  /\ UNCHANGED <<event, todo, order, clients, recorded>>
  /\ UNCHANGED <<ctlVars, netVars, pubVars, tuiVars, orders, sentTo, faults>>

-----------------------------------------------------------------------------
(* run_publisher *)

PublisherTakes ==
  /\ publishing = None /\ ipcQ # <<>>
  /\ publishing' = Head(ipcQ) /\ ipcQ' = Tail(ipcQ)
  /\ UNCHANGED published
  /\ UNCHANGED <<ctlVars, netVars, srvVars, tuiVars, orders, sentTo, faults>>

PublisherDone ==
  /\ publishing # None /\ publishing' = None
  /\ UNCHANGED <<ctlVars, netVars, srvVars, tuiVars, orders, sentTo>>

Publishes ==
  /\ PublisherDone
  /\ published' = Append(published, publishing)
  /\ UNCHANGED <<ipcQ, faults>>

PublishFails_BugRetriesLater ==
  /\ publishing # None /\ ipcQ # <<>> /\ Fault
  /\ publishing' = Head(ipcQ) /\ ipcQ' = Append(Tail(ipcQ), publishing)
  /\ UNCHANGED published
  /\ UNCHANGED <<ctlVars, netVars, srvVars, tuiVars, orders, sentTo>>

(* "Continue processing other messages" *)
PublishFails ==
  /\ PublisherDone /\ Fault
  /\ UNCHANGED <<ipcQ, published>>

-----------------------------------------------------------------------------
(* run_tui *)

UiDrains ==
  /\ tui = "drain"
  /\ \/ uiQ > 0 /\ uiQ' = uiQ - 1 /\ UNCHANGED tui
     \/ uiQ = 0 /\ tui' = "poll" /\ UNCHANGED uiQ
  /\ UNCHANGED <<typed, typing, uiCommandQ>>
  /\ UNCHANGED <<ctlVars, netVars, srvVars, pubVars, orders, sentTo, faults>>

UiPollsNothing ==
  /\ tui = "poll" /\ tui' = "drain"
  /\ UNCHANGED <<uiQ, typed, typing, uiCommandQ>>
  /\ UNCHANGED <<ctlVars, netVars, srvVars, pubVars, orders, sentTo, faults>>

(* Anyone's log line, try_send: dropped when the channel is full. *)
Logs ==
  /\ tui # "ended" /\ uiQ < UiCap
  /\ uiQ' = uiQ + 1
  /\ UNCHANGED <<tui, typed, typing, uiCommandQ>>
  /\ UNCHANGED <<ctlVars, netVars, srvVars, pubVars, orders, sentTo, faults>>

UiTypes(kind) ==
  /\ tui = "poll" /\ typed < MaxCommands
  /\ typed' = typed + 1
  /\ typing' = [kind |-> kind, n |-> typed']
  /\ tui' = "send"
  /\ UNCHANGED <<uiQ, uiCommandQ>>
  /\ UNCHANGED <<ctlVars, netVars, srvVars, pubVars, orders, sentTo, faults>>

OfferUiCommand_BugOneMore ==
  \/ ~ServerUp /\ UNCHANGED uiCommandQ
  \/ /\ ServerUp /\ Len(uiCommandQ) <= UiCommandCap
     /\ uiCommandQ' = Append(uiCommandQ, typing)

UiCommandAccepted == ServerUp => Len(uiCommandQ) < UiCommandCap

(* cmd_tx.send waits while the channel is full, and does nothing when the    *)
(* server has ended.                                                         *)
OfferUiCommand ==
  /\ UiCommandAccepted
  /\ uiCommandQ' = IF ServerUp THEN Append(uiCommandQ, typing) ELSE uiCommandQ

UiSends ==
  /\ tui = "send"
  /\ OfferUiCommand
  /\ tui' = IF typing.kind = "shutdown" THEN "ended" ELSE "drain"
  /\ typing' = None
  /\ UNCHANGED <<uiQ, typed>>
  /\ UNCHANGED <<ctlVars, netVars, srvVars, pubVars, orders, sentTo, faults>>

(* The escape key. *)
UiQuits ==
  /\ tui = "poll" /\ tui' = "ended"
  /\ UNCHANGED <<uiQ, typed, typing, uiCommandQ>>
  /\ UNCHANGED <<ctlVars, netVars, srvVars, pubVars, orders, sentTo, faults>>

-----------------------------------------------------------------------------
Init ==
  /\ read = [c \in Controllers |-> 0] /\ eventQ = [c \in Controllers |-> <<>>]
  /\ loop = [c \in Controllers |-> "connecting"]
  /\ held = [c \in Controllers |-> None]
  /\ commandQ = [c \in Controllers |-> <<>>]
  /\ writer = [c \in Controllers |-> "up"] /\ written = [c \in Controllers |-> <<>>]
  /\ up = [c \in Controllers |-> <<>>] /\ down = [c \in Controllers |-> <<>>]
  /\ lost = {}
  /\ server = "select" /\ event = None /\ notes = 2
  /\ todo = {} /\ order = 0 /\ clients = {} /\ recorded = <<>>
  /\ ipcQ = <<>> /\ publishing = None /\ published = <<>>
  /\ tui = "drain" /\ uiQ = 0 /\ typed = 0 /\ typing = None /\ uiCommandQ = <<>>
  /\ orders = <<>> /\ sentTo = [c \in Controllers |-> <<>>] /\ faults = 0

LoopNext(c) ==
  \/ Connects(c) \/ ConnectFails(c) \/ ReceiveFails(c) \/ ForwardFails(c)
  \/ Forwards(c) \/ TakesCommand(c) \/ SendsCommand(c)
WriterNext(c) == Writes(c) \/ WriteFails(c)
ControllerNext(c) == BoardReports(c) \/ LoopNext(c) \/ WriterNext(c)

ServerNext ==
  \/ SendsNote \/ ServerPublishes \/ ServerReceiveFails
  \/ ServerLists \/ ServerShutsDown \/ ServerBroadcasts \/ BroadcastEnds \/ Aborts
  \/ \E c \in Controllers : ServerReceives(c) \/ BroadcastSends(c) \/ BroadcastFails(c)

UiNext ==
  \/ UiDrains \/ UiPollsNothing \/ UiSends \/ UiQuits \/ Logs
  \/ \E kind \in {"list", "broadcast", "shutdown"} : UiTypes(kind)

Next ==
  \/ \E c \in Controllers : ControllerNext(c) \/ Disconnects(c)
  \/ ServerNext
  \/ PublisherTakes \/ Publishes \/ PublishFails
  \/ UiNext

Spec == Init /\ [][Next]_vars

-----------------------------------------------------------------------------
CtlOK ==
  /\ read \in [Controllers -> Nat]
  /\ eventQ \in [Controllers -> Seq(Events)]
  /\ \A c \in Controllers : Len(eventQ[c]) <= EventCap
  /\ loop \in [Controllers -> {"connecting", "up", "ended"}]
  /\ held \in [Controllers -> Numbers \cup {None}]
  /\ commandQ \in [Controllers -> Seq(Numbers)]
  /\ \A c \in Controllers : Len(commandQ[c]) <= CommandCap
  /\ writer \in [Controllers -> {"up", "ended"}]
  /\ written \in [Controllers -> Seq(Numbers)]

NetOK ==
  /\ up \in [Controllers -> Seq(Events)]
  /\ down \in [Controllers -> Seq(Numbers)]
  /\ lost \subseteq Controllers

SrvOK ==
  /\ server \in {"select", "publish", "broadcast", "ended"}
  /\ event \in Events \cup {None} /\ notes \in 0 .. 2
  /\ todo \subseteq clients /\ clients \subseteq Controllers
  /\ order \in Numbers \cup {0} /\ recorded \in Seq(Events)
  /\ orders \in Seq([n : Numbers, to : SUBSET Controllers])
  /\ sentTo \in [Controllers -> Seq(Numbers)]
  /\ server = "publish" => event # None
  /\ server \in {"select", "broadcast"} => event = None
  /\ server = "broadcast" => order # 0

PubOK ==
  /\ ipcQ \in Seq(Events) /\ Len(ipcQ) <= IpcCap
  /\ publishing \in Events \cup {None} /\ published \in Seq(Events)

UiOK ==
  /\ tui \in {"drain", "poll", "send", "ended"} /\ uiQ \in 0 .. UiCap
  /\ typed \in 0 .. MaxCommands /\ typing \in Commands \cup {None}
  /\ uiCommandQ \in Seq(Commands) /\ Len(uiCommandQ) <= UiCommandCap
  /\ tui = "send" <=> typing # None

(* The shape of the state, with every channel within its capacity            *)
(* (esp_io.rs:27-28, server.rs:66, 166-167).                                 *)
TypeOK == CtlOK /\ NetOK /\ SrvOK /\ PubOK /\ UiOK

Failed(c) == loop[c] = "ended" \/ Broken(c) \/ tui = "ended"

(* The server's files and the event it is about to write there. *)
Handled == recorded \o (IF event = None THEN <<>> ELSE <<event>>)

FromOf(c, s) == {i \in DOMAIN s : s[i].from = c}

(* What the server has of a controller is the first k events the controller  *)
(* read, in order, none twice and without a hole, whichever channels were    *)
(* full and whatever broke; those on their way to it follow at once; and     *)
(* while nothing has failed, every later event read is in the controller's   *)
(* channel (esp_io.rs:71, controller.rs:98-110, server.rs:111).              *)
EventsConserved ==
  \A c \in Controllers : \E k \in 0 .. read[c] :
    LET mine == FromOf(c, Handled)
        under == up[c] \o eventQ[c]
    IN  /\ {Handled[i].n : i \in mine} = 1 .. k
        /\ \A i, j \in mine : i < j => Handled[i].n < Handled[j].n
        /\ \A i \in DOMAIN up[c] : up[c][i] = [from |-> c, n |-> k + i]
        /\ ~Failed(c) => under = [i \in 1 .. read[c] - k |-> [from |-> c, n |-> k + i]]

(* Subscribers see events in the order of the server's files, none twice and *)
(* none that is not in them (ipc_publisher.rs:111-116, server.rs:111-123).   *)
PublishedAsRecorded ==
  LET taken == IF publishing = None THEN <<>> ELSE <<publishing>>
      seen == published \o taken \o ipcQ
      place(e) == CHOOSE i \in DOMAIN recorded : recorded[i] = e
  IN  /\ ToSet(seen) \subseteq ToSet(recorded)
      /\ \A i, j \in DOMAIN seen : i < j => place(seen[i]) < place(seen[j])

(* A board gets the server's commands in order and none after one it missed  *)
(* (server.rs:139-142, controller.rs:82-89, esp_io.rs:105-115).              *)
CommandsInOrder ==
  \A c \in Controllers : IsPrefix(written[c], sentTo[c])

(* Back at its select, the server has sent every broadcast to every client   *)
(* it had when the broadcast began, once, in the order the broadcasts were   *)
(* typed (server.rs:139-144).                                                *)
BroadcastsComplete ==
  server = "select" =>
    \A c \in Controllers :
      /\ ToSet(sentTo[c]) =
           {orders[i].n : i \in {j \in DOMAIN orders : c \in orders[j].to}}
      /\ \A i, j \in DOMAIN sentTo[c] : i < j => sentTo[c][i] < sentTo[c][j]

(* The server waits for the UI to read and the UI for the server: both       *)
(* channels between them are full.                                           *)
CircularWait ==
  /\ notes > 0 /\ uiQ = UiCap
  /\ tui = "send" /\ Len(uiCommandQ) = UiCommandCap

(* The guards of the tasks' steps: who can go on.                            *)
LoopGoes(c) ==
  \/ loop[c] = "connecting"
  \/ held[c] # None /\ CommandAccepted(c)
  \/ Selects(c) /\ (eventQ[c] # <<>> \/ down[c] # <<>> \/ Broken(c))

WriterGoes(c) == writer[c] = "up" /\ commandQ[c] # <<>>

ServerGoes ==
  \/ notes > 0 /\ NoteAccepted
  \/ notes = 0 /\ server = "publish" /\ IpcAccepted
  \/ notes = 0 /\ server = "broadcast"
  \/ ServerSelects /\ (uiCommandQ # <<>> \/ lost # {} \/ \E c \in Controllers : up[c] # <<>>)
  \/ tui = "ended" /\ ServerUp

PublisherGoes == publishing # None \/ ipcQ # <<>>

UiGoes ==
  \/ tui = "send" /\ UiCommandAccepted
  \/ tui \in {"drain", "poll"} /\ uiQ > 0

(* Whatever has failed: a task that waits for room waits for one that can go *)
(* on, or that waits in turn for one that can.  The reader waits for the loop*)
(* and the loop for the writer, the server for the UI or the publisher, the  *)
(* UI for the server: no other circle, and no wait for a task that has ended *)
(* (esp_io.rs:71, 105-115, controller.rs:79-112, server.rs:67-157,           *)
(* tui.rs:69-85, 137-148).                                                   *)
WaitsAreServed ==
  /\ \A c \in Controllers :
       /\ ~EventAccepted(c) => LoopGoes(c) \/ WriterGoes(c)
       /\ held[c] # None /\ ~CommandAccepted(c) => WriterGoes(c)
  /\ notes > 0 /\ ~NoteAccepted => UiGoes \/ CircularWait
  /\ server = "publish" /\ notes = 0 /\ ~IpcAccepted => PublisherGoes
  /\ tui = "send" /\ ~UiCommandAccepted => ServerGoes \/ PublisherGoes \/ CircularWait

SomeoneGoes ==
  \/ \E c \in Controllers : LoopGoes(c) \/ WriterGoes(c)
  \/ ServerGoes \/ PublisherGoes \/ UiGoes

(* As long as connection and programs live, an event or a command under way  *)
(* finds some task that can go on, whichever channels are full.              *)
UnderWayGoesOn ==
  \A c \in Controllers :
    ~Failed(c) /\ ~CircularWait
    /\ (eventQ[c] # <<>> \/ held[c] # None \/ up[c] # <<>> \/ down[c] # <<>>)
      => SomeoneGoes

(* Nothing waits in vain and nothing gets stuck, but where server and UI wait*)
(* for each other (controller.rs:79-112, server.rs:67-157, tui.rs:69-85,     *)
(* 137-148).                                                                 *)
StuckOnlyInCircle == WaitsAreServed /\ UnderWayGoesOn

(* All the interleavings, full channels and failures keep what the host      *)
(* promises: events recorded from the first on, shown in the files' order,   *)
(* commands given from the first on, nothing taken back (esp_io.rs:71-115,   *)
(* controller.rs:79-112, server.rs:67-157, ipc_publisher.rs:78-119).         *)
Promise == INSTANCE HostPromise
KeepsPromise == Promise!Spec
=============================================================================
