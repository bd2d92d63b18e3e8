------------------------------ MODULE Console ------------------------------
(* The board's console: console_task puts lines together from whatever bytes *)
(* have come in, and handle_command changes the settings of the other tasks  *)
(* (firmware/src/console.rs, ftm.rs, wipro.rs, wifi.rs).  Composed with the  *)
(* beacon, which one of the commands turns on and off.                       *)
(*                                                                           *)
(* A line is two pieces, the second with its newline; a piece may hold bytes *)
(* that are not UTF-8, or half a character.  The task reads while the beacon *)
(* task sleeps: they share the executor.                                     *)
EXTENDS Beacon, Sequences, FiniteSets, SequencesExt

CONSTANTS CommandLines,  \* what is typed: a name, its number, a bandwidth
          MaxLines,      \* bound on the lines of a behaviour
          MaxGarbled     \* bound on those with a piece that does not decode

Names == {"mute", "interval", "promi", "channel", "beacon", "burst", "wipro",
          "wipro_iters", "other"}

ASSUME CommandsAreTyped ==
  /\ CommandLines \subseteq [name : Names, arg : Int, bw : Nat]
  /\ \A c \in CommandLines : c.name = "beacon" => c.arg \in Rates
  /\ MaxLines \in Nat /\ MaxGarbled \in Nat

VARIABLES typed,      \* the lines sent to the board: a command and its bad pieces
          unread,     \* the pieces on their way
          buffer,     \* the pieces of the line being read
          handled,    \* history: the pieces of each line handled
          settings    \* FTM_STATE, CONFIG, WIPRO_STATE, WIFI_STATE, the driver

consoleVars == <<typed, unread, buffer, handled, settings>>
allVars == <<vars, consoleVars>>

NoCommand == [name |-> "other", arg |-> 0, bw |-> 0]

Pieces == [line : Nat, part : {1, 2}]
Garbled(piece) == piece.part \in typed[piece.line].bad

-----------------------------------------------------------------------------
(* handle_command *)

Defaults ==
  [mute |-> TRUE, interval |-> 5000, promi |-> FALSE, channel |-> 6, ht40 |-> TRUE,
   burst |-> 16, ranging |-> FALSE, iters |-> 3]

(* The number parses as its type and passes the handler's test. *)
Accepted(c) ==
  CASE c.name \in {"mute", "promi", "wipro", "wipro_iters"} -> c.arg >= 0
    [] c.name = "interval" -> c.arg > 0
    [] c.name = "burst" -> c.arg \in {16, 24, 32, 64}
    [] c.name = "channel" -> c.arg \in {1, 6, 11} /\ c.bw \in {20, 40}
    [] c.name = "beacon" -> TRUE
    [] c.name = "other" -> FALSE

On(c) == c.arg # 0
Ht40(c) == c.bw = 40

(* Each setting has its command; two go with the channel. *)
Told(c, name, new, old) == IF c.name = name THEN new ELSE old

With(s, c) ==
  [mute |-> Told(c, "mute", On(c), s.mute),
   interval |-> Told(c, "interval", c.arg, s.interval),
   promi |-> Told(c, "promi", On(c), s.promi),
   channel |-> Told(c, "channel", c.arg, s.channel),
   ht40 |-> Told(c, "channel", Ht40(c), s.ht40),
   burst |-> Told(c, "burst", c.arg, s.burst),
   ranging |-> Told(c, "wipro", On(c), s.ranging),
   iters |-> Told(c, "wipro_iters", c.arg, s.iters)]

SetsBeacon(c) ==
  /\ c.name = "beacon"
  /\ (c.arg = 0 /\ BeaconOff) \/ BeaconOn(c.arg)
  /\ UNCHANGED settings

(* set_mute, set_burst, ...; the driver may refuse a channel. *)
Sets(c) ==
  /\ c.name # "beacon" /\ Accepted(c)
  /\ \/ settings' = With(settings, c)
     \/ c.name = "channel" /\ UNCHANGED settings
  /\ UNCHANGED vars

Refuses_BugStoresFirst(c) ==
  /\ ~Accepted(c)
  /\ settings' = With(settings, c)
  /\ UNCHANGED vars

Refuses(c) == ~Accepted(c) /\ UNCHANGED <<settings, vars>>

HandleCommand(c) == SetsBeacon(c) \/ Sets(c) \/ Refuses(c)

(* Pieces of two lines may make any command, or none. *)
HandleMixed ==
  \/ UNCHANGED <<settings, vars>>
  \/ \E c \in CommandLines : HandleCommand(c)

-----------------------------------------------------------------------------
(* console_task *)

IsLine(pieces) ==
  /\ Len(pieces) = 2 /\ pieces[1].line = pieces[2].line
  /\ pieces[1].part = 1 /\ pieces[2].part = 2

Handles(pieces) ==
  /\ handled' = Append(handled, pieces)
  /\ IF IsLine(pieces) THEN HandleCommand(typed[pieces[1].line].command)
                       ELSE HandleMixed

(* read_line takes what has arrived, up to a newline: one piece or two. *)
Arrived == {SubSeq(unread, 1, n) : n \in {1, 2} \cap DOMAIN unread}
Chunks ==
  {chunk \in Arrived : \A n \in 1 .. Len(chunk) - 1 : chunk[n].part = 1}

EndsInNewline(chunk) == Last(chunk).part = 2

(* What does not decode is not appended, be it a whole chunk. *)
Decodes(chunk) == \A piece \in ToSet(chunk) : ~Garbled(piece)

Takes(chunk) ==
  /\ task = "sleep"
  /\ unread' = SubSeq(unread, Len(chunk) + 1, Len(unread))
  /\ UNCHANGED typed

ReadsLine(chunk) ==
  /\ Takes(chunk) /\ EndsInNewline(chunk) /\ Decodes(chunk)
  /\ Handles(buffer \o chunk)
  /\ buffer' = <<>>

KeepPart_BugForgets(chunk) == buffer' = <<>>

(* WouldBlock: what was read so far stays in the buffer. *)
KeepPart(chunk) == buffer' = buffer \o chunk

ReadsPart(chunk) ==
  /\ Takes(chunk) /\ ~EndsInNewline(chunk) /\ Decodes(chunk)
  /\ KeepPart(chunk)
  /\ UNCHANGED <<handled, settings, vars>>

(* The chunk is lost, and with it the newline it may end with. *)
ReadFails(chunk) ==
  /\ Takes(chunk) /\ ~Decodes(chunk)
  /\ UNCHANGED <<buffer, handled, settings, vars>>

ConsoleReads ==
  \E chunk \in Chunks : ReadsLine(chunk) \/ ReadsPart(chunk) \/ ReadFails(chunk)

(* The host writes a line, or noise changes what it wrote. *)
Types(c, bad) ==
  /\ Len(typed) < MaxLines
  /\ bad # {} => Len(SelectSeq(typed, LAMBDA l : l.bad # {})) < MaxGarbled
  /\ typed' = Append(typed, [command |-> c, bad |-> bad])
  /\ unread' = unread \o <<[line |-> Len(typed'), part |-> 1],
                           [line |-> Len(typed'), part |-> 2]>>
  /\ UNCHANGED <<buffer, handled, settings, vars>>

-----------------------------------------------------------------------------
ConsoleInit ==
  /\ Init
  /\ typed = <<>> /\ unread = <<>> /\ buffer = <<>> /\ handled = <<>>
  /\ settings = Defaults

Others == (Rounds \/ Driver) /\ UNCHANGED consoleVars

ConsoleNext ==
  \/ ConsoleReads
  \/ \E c \in CommandLines : Types(c, {})
  \/ \E bad \in SUBSET {1, 2} \ {{}} : Types(NoCommand, bad)
  \/ Others

(* The executor polls the console in the pauses of the beacon task; the      *)
(* beacon's fairness is its own.                                             *)
ConsoleFairness == SF_allVars(ConsoleReads) /\ Fairness

ConsoleSpec == ConsoleInit /\ [][ConsoleNext]_allVars /\ ConsoleFairness

-----------------------------------------------------------------------------
(* The shape of the state; the settings are ones the tasks can work with: a  *)
(* positive interval, a number of frames and a channel the driver knows      *)
(* (console.rs:122, 177, ftm.rs:354, wifi.rs:78-81).                         *)
ConsoleTypeOK ==
  /\ TypeOK
  /\ typed \in Seq([command : CommandLines \cup {NoCommand}, bad : SUBSET {1, 2}])
  /\ unread \in Seq(Pieces) /\ buffer \in Seq(Pieces) /\ handled \in Seq(Seq(Pieces))
  /\ settings \in [mute : BOOLEAN, interval : Nat \ {0}, promi : BOOLEAN,
                   channel : {1, 6, 11}, ht40 : BOOLEAN, burst : {16, 24, 32, 64},
                   ranging : BOOLEAN, iters : Nat]

Clean(n) == typed[n].bad = {}

(* The lines whose newline has been read. *)
LinesRead == IF unread = <<>> THEN Len(typed) ELSE unread[1].line - 1

(* However the bytes of the lines arrive, a line is handled whole, once and  *)
(* in its turn; only one that does not decode, or stands behind such a one,  *)
(* may be missing, and nothing else is handled beside it (console.rs:14-47). *)
LinesIntact ==
  /\ \A j, k \in DOMAIN handled :
       j < k /\ IsLine(handled[j]) /\ IsLine(handled[k]) =>
         handled[j][1].line < handled[k][1].line
  /\ \A n \in 1 .. LinesRead : Clean(n) /\ (n > 1 => Clean(n - 1)) =>
       \E k \in DOMAIN handled : IsLine(handled[k]) /\ handled[k][1].line = n
  /\ \A k \in DOMAIN handled : ~IsLine(handled[k]) =>
       \E i \in DOMAIN handled[k] : ~Clean(handled[k][i].line)

AllClean == \A n \in DOMAIN typed : Clean(n)

(* The n-th line is an accepted one of this name, and the last such read. *)
Says(n, name) == typed[n].command.name = name /\ Accepted(typed[n].command)
Unsaid(name) == \A n \in 1 .. LinesRead : ~Says(n, name)
LastSaid(n, name) == Says(n, name) /\ \A m \in n + 1 .. LinesRead : ~Says(m, name)

AsSaid(name, value, default, Said(_)) ==
  \/ Unsaid(name) /\ value = default
  \/ \E n \in 1 .. LinesRead : LastSaid(n, name) /\ value = Said(typed[n].command)

Number(c) == c.arg
Pause(c) == RateFor(c.arg)

(* While every line has decoded, each setting is what the last accepted line *)
(* of its name that was read says, or the default; the beacon's too.  Only   *)
(* a channel may be another, which the driver refused (console.rs:50-251).   *)
InForce ==
  AllClean =>
    /\ AsSaid("mute", settings.mute, Defaults.mute, On)
    /\ AsSaid("interval", settings.interval, Defaults.interval, Number)
    /\ AsSaid("promi", settings.promi, Defaults.promi, On)
    /\ AsSaid("burst", settings.burst, Defaults.burst, Number)
    /\ AsSaid("wipro", settings.ranging, Defaults.ranging, On)
    /\ AsSaid("wipro_iters", settings.iters, Defaults.iters, Number)
    /\ AsSaid("beacon", should, FALSE, On)
    /\ AsSaid("beacon", rate, DefaultRate, Pause)

(* Told to be silent by the last line it is sent, the board falls silent for *)
(* good, whatever its round was at (console.rs:199-210, espnow.rs:293-308).  *)
ToldToStop ==
  /\ AllClean
  /\ LET beacons == SelectSeq(typed, LAMBDA l : l.command.name = "beacon")
     IN  beacons # <<>> /\ Last(beacons).command.arg = 0
FallsSilent == <>[]ToldToStop => <>[][~Sends]_allVars
=============================================================================
