--------------------------- MODULE Console_proofs ---------------------------
(* The console against the beacon: for any commands and any bounds, a step   *)
(* of the console is one of the beacon or leaves it alone, so that what is   *)
(* proved of the beacon holds of the board.  A line handled whole must be    *)
(* one that was typed; that is what the pieces under way have to be numbered *)
(* for.  Then the console by itself: a line is handled whole, once and in its*)
(* turn however its bytes arrive, and the settings in force are the ones the *)
(* lines read have asked for.                                                *)
EXTENDS Console, Beacon_proofs, SequenceTheorems

Lines == [command : CommandLines \cup {NoCommand}, bad : SUBSET {1, 2}]

NumberedIn(pieces, lines) == \A i \in DOMAIN pieces : pieces[i].line \in DOMAIN lines

Shape ==
  /\ typed \in Seq(Lines)
  /\ unread \in Seq(Pieces) /\ NumberedIn(unread, typed)
  /\ buffer \in Seq(Pieces) /\ NumberedIn(buffer, typed)

LEMMA ChunkOfUnread ==
  ASSUME Shape, NEW chunk \in Chunks
  PROVE  /\ chunk \in Seq(Pieces) /\ NumberedIn(chunk, typed)
         /\ Len(chunk) \in 1 .. Len(unread)
<1>1. PICK n \in {1, 2} \cap DOMAIN unread : chunk = SubSeq(unread, 1, n)
  BY DEF Chunks, Arrived
<1>2. n \in 1 .. Len(unread)
  BY <1>1 DEF Shape
<1>3. chunk \in Seq(Pieces) /\ Len(chunk) = n /\ \A i \in 1 .. n : chunk[i] = unread[i]
  BY <1>1, <1>2 DEF Shape
<1>4. NumberedIn(chunk, typed)
  BY <1>2, <1>3 DEF Shape, NumberedIn
<1> QED
  BY <1>2, <1>3, <1>4

LEMMA RestOfUnread ==
  ASSUME Shape, NEW k \in 1 .. Len(unread)
  PROVE  LET rest == SubSeq(unread, k + 1, Len(unread))
         IN  rest \in Seq(Pieces) /\ NumberedIn(rest, typed)
<1> DEFINE rest == SubSeq(unread, k + 1, Len(unread))
<1>1. rest \in Seq(Pieces)
  BY DEF Shape
<1>2. \A i \in DOMAIN rest : i + k \in DOMAIN unread /\ rest[i] = unread[i + k]
  <2>1. unread \in Seq(Pieces) /\ k \in Nat /\ Len(unread) \in Nat /\ k <= Len(unread)
    BY DEF Shape
  <2>2. DOMAIN rest = 1 .. Len(unread) - k
    BY <2>1
  <2>3. \A i \in 1 .. Len(unread) - k : rest[i] = unread[k + 1 + i - 1]
    BY <2>1
  <2>4. \A i \in 1 .. Len(unread) - k : k + 1 + i - 1 = i + k /\ i + k \in DOMAIN unread
    BY <2>1
  <2> QED
    BY <2>2, <2>3, <2>4
<1>3. NumberedIn(rest, typed)
  BY <1>2 DEF Shape, NumberedIn
<1> QED
  BY <1>1, <1>3

LEMMA JoinedPieces ==
  ASSUME NEW s \in Seq(Pieces), NEW t \in Seq(Pieces),
         NumberedIn(s, typed), NumberedIn(t, typed)
  PROVE  s \o t \in Seq(Pieces) /\ NumberedIn(s \o t, typed)
<1>1. s \o t \in Seq(Pieces)
  OBVIOUS
<1>2. ASSUME NEW i \in DOMAIN (s \o t) PROVE (s \o t)[i].line \in DOMAIN typed
  <2>1. i \in 1 .. Len(s) + Len(t)
    BY <1>2
  <2>2. CASE i <= Len(s)
    BY <2>1, <2>2 DEF NumberedIn
  <2>3. CASE i > Len(s)
    <3>1. i - Len(s) \in DOMAIN t /\ (s \o t)[i] = t[i - Len(s)]
      BY <2>1, <2>3
    <3> QED
      BY <3>1 DEF NumberedIn
  <2> QED
    BY <2>1, <2>2, <2>3
<1> QED
  BY <1>1, <1>2 DEF NumberedIn

LEMMA StepShape == Shape /\ [ConsoleNext]_allVars => Shape'
<1> SUFFICES ASSUME Shape, [ConsoleNext]_allVars PROVE Shape'
  OBVIOUS
<1>1. ASSUME NEW chunk \in Chunks, ReadsLine(chunk) \/ ReadsPart(chunk) \/ ReadFails(chunk)
      PROVE  Shape'
  <2>1. chunk \in Seq(Pieces) /\ NumberedIn(chunk, typed) /\ Len(chunk) \in 1 .. Len(unread)
    BY <1>1, ChunkOfUnread
  <2>2. typed' = typed /\ unread' = SubSeq(unread, Len(chunk) + 1, Len(unread))
    BY <1>1 DEF ReadsLine, ReadsPart, ReadFails, Takes
  <2>3. unread' \in Seq(Pieces) /\ NumberedIn(unread', typed)
    BY <2>1, <2>2, RestOfUnread
  <2>4. buffer' \in {<<>>, buffer \o chunk, buffer}
    BY <1>1 DEF ReadsLine, ReadsPart, KeepPart, ReadFails
  <2>5. buffer' \in Seq(Pieces) /\ NumberedIn(buffer', typed)
    <3>1. CASE buffer' = <<>>
      BY <3>1 DEF NumberedIn
    <3>2. CASE buffer' = buffer \o chunk
      BY <3>2, <2>1, JoinedPieces DEF Shape
    <3>3. CASE buffer' = buffer
      BY <3>3 DEF Shape
    <3> QED
      BY <2>4, <3>1, <3>2, <3>3
  <2> QED
    BY <2>2, <2>3, <2>5 DEF Shape, NumberedIn
<1>2. ASSUME NEW c \in CommandLines \cup {NoCommand}, NEW bad \in SUBSET {1, 2}, Types(c, bad)
      PROVE  Shape'
  <2> DEFINE line == [command |-> c, bad |-> bad]
             n == Len(typed) + 1
             added == <<[line |-> n, part |-> 1], [line |-> n, part |-> 2]>>
  <2>1. typed' = Append(typed, line) /\ line \in Lines
    BY <1>2 DEF Types, Lines
  <2>2. typed' \in Seq(Lines) /\ Len(typed') = n /\ DOMAIN typed \subseteq DOMAIN typed'
    BY <2>1 DEF Shape
  <2>3. unread' = unread \o added /\ buffer' = buffer
    BY <1>2, <2>2 DEF Types
  <2>4. NumberedIn(unread, typed') /\ NumberedIn(buffer, typed')
    BY <2>2 DEF Shape, NumberedIn
  <2>5. n \in Nat /\ n \in DOMAIN typed'
    BY <2>2 DEF Shape
  <2>6. added \in Seq(Pieces) /\ \A i \in DOMAIN added : added[i].line = n
    BY <2>5 DEF Pieces
  <2>7. unread' \in Seq(Pieces)
    BY <2>3, <2>6 DEF Shape
  <2>8. ASSUME NEW i \in DOMAIN unread' PROVE unread'[i].line \in DOMAIN typed'
    <3>1. CASE i <= Len(unread)
      <4>1. i \in DOMAIN unread /\ unread'[i] = unread[i]
        BY <2>3, <2>6, <2>7, <2>8, <3>1 DEF Shape
      <4> QED
        BY <4>1, <2>4 DEF NumberedIn
    <3>2. CASE ~(i <= Len(unread))
      <4>1. i - Len(unread) \in DOMAIN added /\ unread'[i] = added[i - Len(unread)]
        BY <2>3, <2>6, <2>7, <2>8, <3>2 DEF Shape
      <4> QED
        BY <4>1, <2>5, <2>6
    <3> QED
      BY <3>1, <3>2
  <2> QED
    BY <2>2, <2>3, <2>4, <2>7, <2>8 DEF Shape, NumberedIn
<1>3. CASE UNCHANGED consoleVars
  BY <1>3 DEF consoleVars, Shape, NumberedIn
<1> QED
  BY <1>1, <1>2, <1>3 DEF ConsoleNext, ConsoleReads, Others, allVars

LEMMA InitShape == ConsoleInit => Shape
BY DEF ConsoleInit, Shape, NumberedIn, Lines, Pieces

LEMMA ShapeInvariant == ConsoleSpec => []Shape
BY InitShape, StepShape, PTL DEF ConsoleSpec

TypedCommand(pieces) == typed[pieces[1].line].command

LEMMA TypedCommandKnown ==
  ASSUME Shape, NEW chunk \in Chunks, IsLine(buffer \o chunk)
  PROVE  TypedCommand(buffer \o chunk) \in CommandLines \cup {NoCommand}
<1> DEFINE pieces == buffer \o chunk
<1>1. pieces \in Seq(Pieces) /\ NumberedIn(pieces, typed)
  BY ChunkOfUnread, JoinedPieces DEF Shape
<1>2. pieces[1].line \in DOMAIN typed
  BY <1>1 DEF IsLine, NumberedIn
<1>3. \A n \in DOMAIN typed : typed[n] \in Lines
  BY DEF Shape
<1> QED
  BY <1>2, <1>3 DEF Lines, TypedCommand

LEMMA CommandOfBeacon ==
  ASSUME NEW c \in CommandLines \cup {NoCommand}, HandleCommand(c)
  PROVE  [Next]_vars
<1>1. CASE SetsBeacon(c)
  <2>1. c.name = "beacon" /\ c \in CommandLines
    BY <1>1 DEF SetsBeacon, NoCommand
  <2>2. c.arg \in Rates
    BY <2>1, CommandsAreTyped
  <2>3. BeaconOff \/ BeaconOn(c.arg)
    BY <1>1 DEF SetsBeacon
  <2> QED
    BY <2>2, <2>3 DEF Next, Commands
<1>2. CASE Sets(c) \/ Refuses(c)
  BY <1>2 DEF Sets, Refuses
<1> QED
  BY <1>1, <1>2 DEF HandleCommand

LEMMA StepOfBeacon == Shape /\ [ConsoleNext]_allVars => [Next]_vars
<1> SUFFICES ASSUME Shape, [ConsoleNext]_allVars PROVE [Next]_vars
  OBVIOUS
<1>1. ASSUME NEW chunk \in Chunks, ReadsLine(chunk) PROVE [Next]_vars
  <2> DEFINE pieces == buffer \o chunk
  <2>1. Handles(pieces)
    BY <1>1 DEF ReadsLine
  <2>2. CASE IsLine(pieces)
    BY <2>1, <2>2, TypedCommandKnown, CommandOfBeacon DEF Handles, TypedCommand
  <2>3. CASE ~IsLine(pieces)
    BY <2>1, <2>3, CommandOfBeacon DEF Handles, HandleMixed
  <2> QED
    BY <2>2, <2>3
<1>2. ASSUME NEW chunk \in Chunks, ReadsPart(chunk) \/ ReadFails(chunk) PROVE [Next]_vars
  BY <1>2 DEF ReadsPart, ReadFails
<1>3. ASSUME NEW c, NEW bad, Types(c, bad) PROVE [Next]_vars
  BY <1>3 DEF Types
<1>4. CASE Others
  BY <1>4 DEF Others, Next
<1>5. CASE UNCHANGED allVars
  BY <1>5 DEF allVars
<1> QED
  BY <1>1, <1>2, <1>3, <1>4, <1>5 DEF ConsoleNext, ConsoleReads

(* Whatever is typed, torn or garbled, the console moves the beacon only as  *)
(* its own commands and tasks may (console.rs:194-205, espnow.rs:293-308).   *)
THEOREM ConsoleDrivesBeacon == ConsoleSpec => Init /\ [][Next]_vars
<1>1. ConsoleInit => Init
  BY DEF ConsoleInit
<1> QED
  BY <1>1, ShapeInvariant, StepOfBeacon, PTL DEF ConsoleSpec

(* On the whole board, the socket a round sends from is bound to the address *)
(* it found (espnow.rs:223-263).                                             *)
THEOREM BoardBound == ConsoleSpec => []BoundToStation
<1>1. Init => BoundToStation
  BY DEF Init, BoundToStation
<1> QED
  BY <1>1, ConsoleDrivesBeacon, InitTypeOK, StepTypeOK, StepBound, PTL

-----------------------------------------------------------------------------
(* The pieces on their way are those of consecutive lines, up to the last    *)
(* one typed.                                                                *)
Follows(p, q) ==
  /\ p.part = 1 => q = [line |-> p.line, part |-> 2]
  /\ p.part = 2 => q = [line |-> p.line + 1, part |-> 1]

StreamOK ==
  unread # <<>> =>
    /\ \A i \in 1 .. Len(unread) - 1 : Follows(unread[i], unread[i + 1])
    /\ unread[Len(unread)] = [line |-> Len(typed), part |-> 2]

(* Half of the current line has been read. *)
Torn == unread # <<>> /\ unread[1].part = 2
Current == LinesRead + 1
Half == <<[line |-> Current, part |-> 1]>>

(* Pieces are left over from a line that has been read: its newline did not  *)
(* decode, nor any since.                                                    *)
Leftover == buffer # <<>> /\ LinesRead >= 1 /\ ~Clean(LinesRead) /\ ~Clean(buffer[1].line)

BufferOK ==
  IF Torn THEN (buffer = <<>> /\ 1 \in typed[Current].bad) \/ buffer = Half \/ Leftover
          ELSE buffer = <<>> \/ Leftover

NumbersRead == \A k \in DOMAIN handled : IsLine(handled[k]) => handled[k][1].line \in 1 .. LinesRead

LinesInv == Shape /\ StreamOK /\ BufferOK /\ handled \in Seq(Seq(Pieces))

-----------------------------------------------------------------------------
LEMMA FirstUnread ==
  ASSUME Shape, unread # <<>>
  PROVE  /\ Len(unread) \in Nat /\ Len(unread) >= 1 /\ unread[1] \in Pieces
         /\ Current = unread[1].line /\ Current \in DOMAIN typed /\ LinesRead \in Nat
<1>1. unread \in Seq(Pieces) /\ Len(unread) \in Nat /\ Len(unread) >= 1
  BY DEF Shape
<1>2. unread[1] \in Pieces /\ unread[1].line \in DOMAIN typed
  BY <1>1 DEF Shape, NumberedIn
<1>3. DOMAIN typed = 1 .. Len(typed) /\ Len(typed) \in Nat
  BY DEF Shape
<1>4. LinesRead = unread[1].line - 1
  BY DEF LinesRead
<1>. QED BY <1>1, <1>2, <1>3, <1>4 DEF Current

LEMMA LinesReadTyped ==
  ASSUME Shape
  PROVE  LinesRead \in 0 .. Len(typed) /\ Len(typed) \in Nat /\ DOMAIN typed = 1 .. Len(typed)
<1>1. Len(typed) \in Nat /\ DOMAIN typed = 1 .. Len(typed)
  BY DEF Shape
<1>2. CASE unread = <<>>
  BY <1>1, <1>2 DEF LinesRead
<1>3. CASE unread # <<>>
  <2>1. LinesRead + 1 \in 1 .. Len(typed) /\ LinesRead \in Nat
    BY <1>1, <1>3, FirstUnread DEF Current
  <2>. QED BY <1>1, <2>1
<1>. QED BY <1>1, <1>2, <1>3

(* Taking k pieces leaves a stream that begins with the one after them. *)
LEMMA RestOfStream ==
  ASSUME Shape, StreamOK, NEW k \in 1 .. Len(unread),
         typed' = typed, unread' = SubSeq(unread, k + 1, Len(unread))
  PROVE  /\ StreamOK'
         /\ k = Len(unread) => unread' = <<>>
         /\ k < Len(unread) => unread' # <<>> /\ unread'[1] = unread[k + 1]
<1>1. /\ unread \in Seq(Pieces) /\ Len(unread) \in Nat /\ k \in Nat
      /\ 1 <= k /\ k <= Len(unread)
  BY DEF Shape
<1>2. /\ unread' \in Seq(Pieces) /\ Len(unread') = Len(unread) - k
      /\ \A i \in 1 .. Len(unread) - k : unread'[i] = unread[i + k]
  <2>1. unread' \in Seq(Pieces) /\ Len(unread') = Len(unread) - k
    BY <1>1
  <2>2. \A i \in 1 .. Len(unread) - k : unread'[i] = unread[k + 1 + i - 1]
    BY <1>1
  <2>3. \A i \in 1 .. Len(unread) - k : k + 1 + i - 1 = i + k
    BY <1>1
  <2>. QED BY <2>1, <2>2, <2>3
<1>3. CASE k = Len(unread)
  <2>1. unread' = <<>>
    BY <1>1, <1>2, <1>3
  <2>. QED BY <1>1, <1>3, <2>1 DEF StreamOK
<1>4. CASE k < Len(unread)
  <2>0. /\ 1 \in 1 .. Len(unread) - k /\ Len(unread) - k \in 1 .. Len(unread) - k
        /\ 1 + k = k + 1 /\ (Len(unread) - k) + k = Len(unread)
    BY <1>1, <1>4
  <2>1. unread' # <<>> /\ unread'[1] = unread[k + 1] /\ unread # <<>>
    <3>1. unread'[1] = unread[k + 1]
      BY <1>2, <2>0
    <3>2. Len(unread') # 0 /\ Len(unread) # 0
      BY <1>1, <1>2, <1>4, SMTT(60)
    <3>3. Len(<<>>) = 0
      BY SMTT(60)
    <3>. QED BY <3>1, <3>2, <3>3, ZenonT(60)
  <2>2. unread'[Len(unread')] = unread[Len(unread)]
    BY <1>2, <2>0
  <2>3. ASSUME NEW i \in 1 .. Len(unread') - 1
        PROVE  Follows(unread'[i], unread'[i + 1])
    <3>1. /\ i \in 1 .. Len(unread) - k /\ i + 1 \in 1 .. Len(unread) - k
          /\ i + k \in 1 .. Len(unread) - 1 /\ (i + 1) + k = (i + k) + 1
      BY <1>1, <1>2, <2>3
    <3>2. Follows(unread[i + k], unread[(i + k) + 1])
      BY <2>1, <3>1 DEF StreamOK
    <3>3. unread'[i] = unread[i + k] /\ unread'[i + 1] = unread[(i + k) + 1]
      BY <1>2, <3>1
    <3>. QED BY <3>2, <3>3
  <2>4. StreamOK'
    BY <2>1, <2>2, <2>3 DEF StreamOK, Follows
  <2>. QED BY <1>4, <2>1, <2>4
<1>. QED BY <1>1, <1>3, <1>4

(* What a read takes: the first half of a line, the second or both.          *)
FirstHalf(chunk) ==
  /\ Len(chunk) = 1 /\ chunk[1] = [line |-> Current, part |-> 1]
  /\ ~Torn /\ ~EndsInNewline(chunk) /\ Torn' /\ LinesRead' = LinesRead
SecondHalf(chunk) ==
  /\ Len(chunk) = 1 /\ chunk[1] = [line |-> Current, part |-> 2]
  /\ Torn /\ EndsInNewline(chunk) /\ ~Torn' /\ LinesRead' = Current
WholeLine(chunk) ==
  /\ Len(chunk) = 2 /\ chunk[1] = [line |-> Current, part |-> 1]
  /\ chunk[2] = [line |-> Current, part |-> 2]
  /\ ~Torn /\ EndsInNewline(chunk) /\ ~Torn' /\ LinesRead' = Current

LEMMA ChunkKinds ==
  ASSUME Shape, StreamOK, NEW chunk \in Chunks, Takes(chunk)
  PROVE  /\ StreamOK' /\ Current \in DOMAIN typed /\ typed' = typed
         /\ chunk \in Seq(Pieces)
         /\ FirstHalf(chunk) \/ SecondHalf(chunk) \/ WholeLine(chunk)
<1>1. PICK k \in {1, 2} \cap DOMAIN unread : chunk = SubSeq(unread, 1, k)
  BY DEF Chunks, Arrived
<1>2. unread \in Seq(Pieces) /\ Len(unread) \in Nat /\ k \in 1 .. Len(unread) /\ unread # <<>>
  BY <1>1 DEF Shape
<1>3. chunk \in Seq(Pieces) /\ Len(chunk) = k /\ \A i \in 1 .. k : chunk[i] = unread[i]
  BY <1>1, <1>2
<1>4. typed' = typed /\ unread' = SubSeq(unread, k + 1, Len(unread))
  BY <1>3 DEF Takes
<1>5. /\ StreamOK'
      /\ k = Len(unread) => unread' = <<>>
      /\ k < Len(unread) => unread' # <<>> /\ unread'[1] = unread[k + 1]
  BY <1>2, <1>4, RestOfStream
<1>6. /\ Current = unread[1].line /\ Current \in DOMAIN typed /\ unread[1] \in Pieces
      /\ LinesRead \in Nat /\ Current = LinesRead + 1
  BY <1>2, FirstUnread DEF Current
<1>7. /\ \A i \in 1 .. Len(unread) - 1 : Follows(unread[i], unread[i + 1])
      /\ unread[Len(unread)] = [line |-> Len(typed), part |-> 2]
  BY <1>2 DEF StreamOK
<1>8. /\ unread[1].part = 1 => /\ Len(unread) >= 2
                               /\ unread[2] = [line |-> Current, part |-> 2]
      /\ unread[1] = [line |-> Current, part |-> unread[1].part]
      /\ unread[1].part \in {1, 2}
  <2>1. unread[1] = [line |-> Current, part |-> unread[1].part] /\ unread[1].part \in {1, 2}
    BY <1>6 DEF Pieces
  <2>2. ASSUME unread[1].part = 1
        PROVE  Len(unread) >= 2 /\ unread[2] = [line |-> Current, part |-> 2]
    <3>1. Len(unread) # 1
      BY <1>7, <2>2
    <3>2. 1 \in 1 .. Len(unread) - 1 /\ Len(unread) >= 2
      <4>1. Len(unread) \in Nat /\ Len(unread) # 0
        BY <1>2
      <4>2. \A n \in Nat : n # 0 /\ n # 1 => 1 \in 1 .. n - 1 /\ n >= 2
        OBVIOUS
      <4>. QED BY <3>1, <4>1, <4>2, Zenon
    <3>3. Follows(unread[1], unread[1 + 1])
      BY <1>7, <3>2
    <3>. QED BY <1>6, <2>2, <3>2, <3>3 DEF Follows
  <2>. QED BY <2>1, <2>2
(* After a newline the next piece begins the next line. *)
<1>9. ASSUME unread[k].part = 2, unread[k].line = Current
      PROVE  ~Torn' /\ LinesRead' = Current
  <2>1. CASE k = Len(unread)
    <3>1. unread' = <<>> /\ Len(typed) = Current
      BY <1>5, <1>7, <1>9, <2>1
    <3>. QED BY <1>4, <3>1 DEF Torn, LinesRead
  <2>2. CASE k < Len(unread)
    <3>1. k \in 1 .. Len(unread) - 1
      BY <1>2, <2>2
    <3>2. unread[k + 1] = [line |-> Current + 1, part |-> 1]
      BY <1>7, <1>9, <3>1 DEF Follows
    <3>3. unread' # <<>> /\ unread'[1] = [line |-> Current + 1, part |-> 1]
      BY <1>5, <2>2, <3>2
    <3>4. (Current + 1) - 1 = Current
      BY <1>6
    <3>. QED BY <3>3, <3>4 DEF Torn, LinesRead
  <2>. QED BY <1>2, <2>1, <2>2
<1>10. CASE k = 1 /\ unread[1].part = 1
  <2>1. chunk[1] = [line |-> Current, part |-> 1] /\ ~Torn /\ ~EndsInNewline(chunk)
    BY <1>3, <1>8, <1>10 DEF Torn, EndsInNewline, Last
  <2>2. unread' # <<>> /\ unread'[1] = [line |-> Current, part |-> 2]
    BY <1>2, <1>5, <1>8, <1>10
  <2>3. Torn' /\ LinesRead' = Current - 1
    BY <2>2 DEF Torn, LinesRead
  <2>4. LinesRead' = LinesRead
    BY <1>6, <2>3
  <2>. QED BY <1>3, <1>4, <1>5, <1>6, <1>10, <2>1, <2>3, <2>4 DEF FirstHalf
<1>11. CASE k = 1 /\ unread[1].part = 2
  <2>1. chunk[1] = [line |-> Current, part |-> 2] /\ Torn /\ EndsInNewline(chunk)
    BY <1>2, <1>3, <1>8, <1>11 DEF Torn, EndsInNewline, Last
  <2>. QED BY <1>3, <1>4, <1>5, <1>6, <1>9, <1>11, <2>1 DEF SecondHalf
<1>12. CASE k = 2
  <2>1. chunk[1].part = 1
    <3>1. \A n \in 1 .. Len(chunk) - 1 : chunk[n].part = 1
      BY DEF Chunks
    <3>2. 1 \in 1 .. Len(chunk) - 1
      BY <1>3, <1>12
    <3>. QED BY <3>1, <3>2
  <2>2. unread[1].part = 1 /\ chunk[1] = unread[1] /\ chunk[2] = unread[2]
    BY <1>3, <1>12, <2>1
  <2>3. chunk[1] = [line |-> Current, part |-> 1] /\ chunk[2] = [line |-> Current, part |-> 2]
    BY <1>8, <2>2
  <2>4. ~Torn /\ EndsInNewline(chunk)
    BY <1>3, <1>12, <2>2, <2>3 DEF Torn, EndsInNewline, Last
  <2>. QED BY <1>3, <1>4, <1>5, <1>6, <1>9, <1>12, <2>2, <2>3, <2>4 DEF WholeLine
<1>. QED BY <1>1, <1>8, <1>10, <1>11, <1>12

(* A line typed goes behind the others. *)
LEMMA TypesExtends ==
  ASSUME Shape, StreamOK, NEW c, NEW bad, Types(c, bad)
  PROVE  /\ StreamOK' /\ LinesRead' = LinesRead /\ (Torn' <=> Torn)
         /\ DOMAIN typed \subseteq DOMAIN typed'
         /\ \A n \in DOMAIN typed : typed'[n] = typed[n]
<1> DEFINE n == Len(typed) + 1
           a == [line |-> n, part |-> 1]
           b == [line |-> n, part |-> 2]
<1>1. Len(typed) \in Nat /\ n \in Nat /\ unread \in Seq(Pieces) /\ Len(unread) \in Nat
  BY DEF Shape
<1>2. /\ typed' = Append(typed, [command |-> c, bad |-> bad])
      /\ Len(typed') = n
      /\ DOMAIN typed \subseteq DOMAIN typed'
      /\ \A m \in DOMAIN typed : typed'[m] = typed[m]
  <2>1. typed' = Append(typed, [command |-> c, bad |-> bad])
    BY DEF Types
  <2>2. typed \in Seq(Lines)
    BY DEF Shape
  <2>. QED BY <1>1, <2>1, <2>2
<1>3. unread' = unread \o <<a, b>>
  BY <1>2 DEF Types
<1>4. a \in Pieces /\ b \in Pieces
  BY <1>1 DEF Pieces
<1> HIDE DEF a, b
<1>5. /\ unread' \in Seq(Pieces) /\ Len(unread') = Len(unread) + 2
      /\ \A i \in 1 .. Len(unread) : unread'[i] = unread[i]
      /\ unread'[Len(unread) + 1] = a /\ unread'[Len(unread) + 2] = b
  <2>1. <<a, b>> \in Seq(Pieces) /\ Len(<<a, b>>) = 2 /\ <<a, b>>[1] = a /\ <<a, b>>[2] = b
    BY <1>4
  <2>. QED BY <1>1, <1>3, <2>1
<1>6. a.line = n /\ a.part = 1 /\ b = [line |-> a.line, part |-> 2]
  BY DEF a, b
<1>7. unread' # <<>>
  <2>1. Len(unread') # 0 /\ Len(<<>>) = 0
    BY <1>1, <1>5
  <2>. QED BY <2>1, Zenon
<1>8. CASE unread = <<>>
  <2>1. Len(unread) = 0
    BY <1>8
  <2>2. unread'[1] = a /\ unread'[2] = b /\ Len(unread') = 2
    BY <1>5, <2>1
  <2>3. LinesRead' = n - 1 /\ LinesRead = Len(typed) /\ ~Torn /\ ~Torn'
    BY <1>6, <1>7, <1>8, <2>2 DEF LinesRead, Torn
  <2>4. \A i \in 1 .. Len(unread') - 1 : i = 1
    BY <2>2
  <2>5. Follows(unread'[1], unread'[1 + 1]) /\ unread'[Len(unread')] = [line |-> Len(typed'), part |-> 2]
    BY <1>2, <1>6, <2>2 DEF Follows
  <2>6. StreamOK'
    BY <2>4, <2>5 DEF StreamOK, Follows
  <2>7. n - 1 = Len(typed)
    BY <1>1
  <2>. QED BY <1>2, <2>3, <2>6, <2>7
<1>9. CASE unread # <<>>
  <2>1. Len(unread) >= 1 /\ unread'[1] = unread[1]
    BY <1>1, <1>5, <1>9, FirstUnread
  <2>2. LinesRead' = LinesRead /\ (Torn' <=> Torn)
    BY <1>7, <1>9, <2>1 DEF LinesRead, Torn
  <2>3. ASSUME NEW i \in 1 .. Len(unread') - 1
        PROVE  Follows(unread'[i], unread'[i + 1])
    <3>1. i \in 1 .. Len(unread) - 1 \/ i = Len(unread) \/ i = Len(unread) + 1
      BY <1>1, <1>5, <2>3
    <3>2. CASE i \in 1 .. Len(unread) - 1
      <4>1. unread'[i] = unread[i] /\ unread'[i + 1] = unread[i + 1]
        BY <1>1, <1>5, <3>2
      <4>. QED BY <1>9, <3>2, <4>1 DEF StreamOK
    <3>3. CASE i = Len(unread)
      <4>1. unread'[i] = unread[Len(unread)] /\ unread'[i + 1] = a
        BY <1>1, <1>5, <2>1, <3>3
      <4>2. unread'[i].part = 2 /\ unread'[i].line + 1 = n
        BY <1>9, <4>1 DEF StreamOK
      <4>3. a = [line |-> n, part |-> 1]
        BY DEF a
      <4>. QED BY <4>1, <4>2, <4>3 DEF Follows
    <3>4. CASE i = Len(unread) + 1
      <4>1. i + 1 = Len(unread) + 2
        BY <1>1, <3>4
      <4>2. unread'[i] = a /\ unread'[i + 1] = b
        BY <1>5, <3>4, <4>1
      <4>. QED BY <1>6, <4>2 DEF Follows
    <3>. QED BY <3>1, <3>2, <3>3, <3>4
  <2>4. unread'[Len(unread')] = [line |-> Len(typed'), part |-> 2]
    BY <1>2, <1>5, <1>6
  <2>5. StreamOK'
    BY <2>3, <2>4 DEF StreamOK, Follows
  <2>. QED BY <1>2, <2>2, <2>5
<1>. QED BY <1>8, <1>9

-----------------------------------------------------------------------------
(* The line a newline completes: it is whole, or one of its pieces is of a   *)
(* line that was garbled; and it is whole if it and the one before it were   *)
(* typed as they were meant.                                                 *)
LEMMA HandledWhole ==
  ASSUME LinesInv, NEW chunk \in Chunks, ReadsLine(chunk)
  PROVE  LET pieces == buffer \o chunk
         IN  /\ pieces \in Seq(Pieces)
             /\ IsLine(pieces) => pieces[1].line = Current
             /\ ~IsLine(pieces) => \E i \in DOMAIN pieces : ~Clean(pieces[i].line)
             /\ Clean(Current) /\ (Current > 1 => Clean(Current - 1)) => IsLine(pieces)
<1> SUFFICES ASSUME NEW pieces, pieces = buffer \o chunk
             PROVE  /\ pieces \in Seq(Pieces)
                    /\ IsLine(pieces) => pieces[1].line = Current
                    /\ ~IsLine(pieces) => \E i \in DOMAIN pieces : ~Clean(pieces[i].line)
                    /\ Clean(Current) /\ (Current > 1 => Clean(Current - 1)) => IsLine(pieces)
  OBVIOUS
<1>1. Takes(chunk) /\ EndsInNewline(chunk)
  BY DEF ReadsLine
<1>2. /\ SecondHalf(chunk) \/ WholeLine(chunk)
      /\ chunk \in Seq(Pieces) /\ Current \in DOMAIN typed
  BY <1>1, ChunkKinds DEF LinesInv, FirstHalf
<1>3. buffer \in Seq(Pieces) /\ Len(buffer) \in Nat /\ Len(chunk) \in Nat
  BY <1>2 DEF LinesInv, Shape
<1>4. /\ pieces \in Seq(Pieces) /\ Len(pieces) = Len(buffer) + Len(chunk)
      /\ DOMAIN pieces = 1 .. Len(buffer) + Len(chunk)
      /\ \A i \in 1 .. Len(buffer) : pieces[i] = buffer[i]
      /\ \A i \in 1 .. Len(chunk) : pieces[Len(buffer) + i] = chunk[i]
  BY <1>2, <1>3
<1>5. LinesRead \in Nat /\ Current = LinesRead + 1 /\ Current - 1 = LinesRead
  BY LinesReadTyped DEF LinesInv, Current
<1>6. CASE Leftover
  <2>1. Len(buffer) >= 1
    <3>1. Len(buffer) # 0
      BY <1>3, <1>6 DEF Leftover
    <3>. QED BY <1>3, <3>1
  <2>2. 1 \in DOMAIN pieces /\ pieces[1] = buffer[1]
    BY <1>2, <1>3, <1>4, <2>1
  <2>3. ~Clean(pieces[1].line) /\ ~Clean(LinesRead) /\ LinesRead >= 1
    BY <1>6, <2>2 DEF Leftover
  <2>4. Current > 1
    BY <1>5, <2>3
  <2>5. ~(Clean(Current) /\ (Current > 1 => Clean(Current - 1)))
    BY <1>5, <2>3, <2>4
  <2>6. IsLine(pieces) => pieces[1].line = Current
    <3>1. SUFFICES ASSUME Len(pieces) = 2, pieces[1].line = pieces[2].line
                   PROVE  pieces[2].line = Current
      BY DEF IsLine
    <3>2. Len(chunk) = 1 /\ Len(buffer) = 1 /\ chunk[1].line = Current
      BY <1>2, <1>3, <1>4, <2>1, <3>1 DEF SecondHalf, WholeLine
    <3>3. pieces[Len(buffer) + 1] = chunk[1]
      BY <1>4, <3>2
    <3>. QED BY <3>2, <3>3
  <2>. QED BY <1>4, <2>2, <2>3, <2>5, <2>6
<1>7. CASE buffer = <<>> /\ WholeLine(chunk)
  <2>1. Len(buffer) = 0
    BY <1>7
  <2>2. Len(pieces) = 2 /\ pieces[1] = chunk[1] /\ pieces[2] = chunk[2]
    BY <1>4, <1>7, <2>1 DEF WholeLine
  <2>3. IsLine(pieces) /\ pieces[1].line = Current
    BY <1>7, <2>2 DEF IsLine, WholeLine
  <2>. QED BY <1>4, <2>3
<1>8. CASE buffer = Half /\ SecondHalf(chunk)
  <2>1. Len(buffer) = 1 /\ buffer[1] = [line |-> Current, part |-> 1]
    BY <1>8 DEF Half
  <2>2. Len(pieces) = 2 /\ pieces[1] = buffer[1] /\ pieces[2] = chunk[1]
    BY <1>4, <1>8, <2>1 DEF SecondHalf
  <2>3. IsLine(pieces) /\ pieces[1].line = Current
    BY <1>8, <2>1, <2>2 DEF IsLine, SecondHalf
  <2>. QED BY <1>4, <2>3
<1>9. CASE buffer = <<>> /\ 1 \in typed[Current].bad /\ SecondHalf(chunk)
  <2>1. Len(buffer) = 0
    BY <1>9
  <2>2. Len(pieces) = 1 /\ pieces[1] = chunk[1] /\ 1 \in DOMAIN pieces
    BY <1>4, <1>9, <2>1 DEF SecondHalf
  <2>3. ~IsLine(pieces) /\ pieces[1].line = Current /\ ~Clean(Current)
    BY <1>9, <2>2 DEF IsLine, SecondHalf, Clean
  <2>. QED BY <1>4, <2>2, <2>3
<1>10. CASE SecondHalf(chunk)
  <2>1. Torn /\ BufferOK
    BY <1>10 DEF LinesInv, SecondHalf
  <2>2. (buffer = <<>> /\ 1 \in typed[Current].bad) \/ buffer = Half \/ Leftover
    BY <2>1 DEF BufferOK
  <2>. QED BY <1>6, <1>8, <1>9, <1>10, <2>2
<1>11. CASE WholeLine(chunk)
  <2>1. ~Torn /\ BufferOK
    BY <1>11 DEF LinesInv, WholeLine
  <2>2. buffer = <<>> \/ Leftover
    BY <2>1 DEF BufferOK
  <2>. QED BY <1>6, <1>7, <1>11, <2>2
<1>. QED BY <1>2, <1>10, <1>11

(* A chunk that does not decode holds a piece of a garbled line. *)
LEMMA UndecodedGarbled ==
  ASSUME NEW chunk, ~Decodes(chunk), \A i \in DOMAIN chunk : chunk[i].line = Current
  PROVE  \E i \in DOMAIN chunk : chunk[i].part \in typed[Current].bad
BY DEF Decodes, Garbled, ToSet

LEMMA ReadKeepsBuffer ==
  ASSUME LinesInv, NEW chunk \in Chunks,
         ReadsLine(chunk) \/ ReadsPart(chunk) \/ ReadFails(chunk)
  PROVE  /\ StreamOK' /\ BufferOK'
         /\ ReadsLine(chunk) => LinesRead' = Current
         /\ ~ReadsLine(chunk) =>
              LinesRead' = LinesRead \/ (LinesRead' = Current /\ ~Clean(Current))
<1>1. Takes(chunk)
  BY DEF ReadsLine, ReadsPart, ReadFails
<1>2. /\ StreamOK' /\ Current \in DOMAIN typed /\ typed' = typed /\ chunk \in Seq(Pieces)
      /\ FirstHalf(chunk) \/ SecondHalf(chunk) \/ WholeLine(chunk)
  BY <1>1, ChunkKinds DEF LinesInv
<1>3. LinesRead \in Nat /\ Current = LinesRead + 1 /\ Current >= 1
  BY LinesReadTyped DEF LinesInv, Current
<1>4. \A n : Clean(n)' <=> Clean(n)
  BY <1>2 DEF Clean
<1>5. buffer \in Seq(Pieces) /\ BufferOK
  BY DEF LinesInv, Shape
<1>6. CASE FirstHalf(chunk)
  <2>1. ~ReadsLine(chunk) /\ ~Torn /\ Torn' /\ LinesRead' = LinesRead /\ Current' = Current
    BY <1>6 DEF FirstHalf, ReadsLine, Current
  <2>2. buffer = <<>> \/ Leftover
    BY <1>5, <2>1 DEF BufferOK
  <2>3. CASE ReadsPart(chunk)
    <3>1. buffer' = buffer \o chunk
      BY <2>3 DEF ReadsPart, KeepPart
    <3>2. ASSUME buffer = <<>> PROVE buffer' = Half'
      <4>1. buffer' = chunk
        BY <1>2, <3>1, <3>2
      <4>2. chunk = <<[line |-> Current, part |-> 1]>>
        BY <1>2, <1>6 DEF FirstHalf
      <4>. QED BY <2>1, <4>1, <4>2 DEF Half
    <3>3. ASSUME Leftover PROVE Leftover'
      <4>1. Len(buffer) \in Nat /\ Len(buffer) # 0
        BY <1>5, <3>3 DEF Leftover
      <4>2. Len(buffer') = Len(buffer) + Len(chunk) /\ Len(chunk) \in Nat
        BY <1>2, <1>5, <3>1
      <4>3. buffer'[1] = buffer[1] /\ Len(buffer') # 0
        BY <1>2, <1>5, <3>1, <4>1, <4>2
      <4>4. buffer' # <<>>
        <5>1. Len(<<>>) = 0
          OBVIOUS
        <5>. QED BY <4>3, <5>1, Zenon
      <4>. QED BY <1>4, <2>1, <3>3, <4>3, <4>4 DEF Leftover
    <3>. QED BY <1>2, <2>1, <2>2, <3>2, <3>3 DEF BufferOK
  <2>4. CASE ReadFails(chunk)
    <3>1. buffer' = buffer /\ ~Decodes(chunk)
      BY <2>4 DEF ReadFails
    <3>2. \A i \in DOMAIN chunk : chunk[i] = [line |-> Current, part |-> 1]
      BY <1>2, <1>6 DEF FirstHalf
    <3>3. 1 \in typed[Current].bad
      BY <3>1, <3>2, UndecodedGarbled
    <3>4. Leftover => Leftover'
      BY <1>4, <2>1, <3>1 DEF Leftover
    <3>. QED BY <1>2, <2>1, <2>2, <3>1, <3>3, <3>4 DEF BufferOK
  <2>. QED BY <2>1, <2>3, <2>4
<1>7. CASE SecondHalf(chunk) \/ WholeLine(chunk)
  <2>1. EndsInNewline(chunk) /\ ~Torn' /\ LinesRead' = Current
    BY <1>7 DEF SecondHalf, WholeLine
  <2>2. CASE ReadsLine(chunk)
    BY <1>2, <2>1, <2>2 DEF ReadsLine, BufferOK
  <2>3. CASE ReadFails(chunk)
    <3>1. buffer' = buffer /\ ~Decodes(chunk)
      BY <2>3 DEF ReadFails
    <3>2. \A i \in DOMAIN chunk : chunk[i].line = Current
      <4>1. DOMAIN chunk \subseteq {1, 2} /\ (SecondHalf(chunk) => DOMAIN chunk = {1})
        BY <1>2, <1>7 DEF SecondHalf, WholeLine
      <4>. QED BY <1>7, <4>1 DEF SecondHalf, WholeLine
    <3>3. ~Clean(Current)
      BY <3>1, <3>2, UndecodedGarbled DEF Clean
    <3>4. buffer # <<>> => ~Clean(buffer[1].line)
      BY <1>5, <3>3 DEF BufferOK, Half, Leftover
    <3>5. buffer' = <<>> \/ Leftover'
      BY <1>3, <1>4, <2>1, <3>1, <3>3, <3>4 DEF Leftover
    <3>. QED BY <1>2, <2>1, <3>3, <3>5 DEF BufferOK
  <2>. QED BY <2>1, <2>2, <2>3 DEF ReadsPart
<1>. QED BY <1>2, <1>6, <1>7

LEMMA TypesKeepsBuffer ==
  ASSUME LinesInv, NEW c, NEW bad, Types(c, bad)
  PROVE  /\ StreamOK' /\ BufferOK'
         /\ \A n \in DOMAIN typed : Clean(n)' <=> Clean(n)
<1>1. /\ StreamOK' /\ LinesRead' = LinesRead /\ (Torn' <=> Torn)
      /\ \A n \in DOMAIN typed : typed'[n] = typed[n]
  BY TypesExtends DEF LinesInv
<1>2. buffer' = buffer /\ Current' = Current /\ BufferOK
  BY <1>1 DEF Types, Current, LinesInv
<1>3. \A n \in DOMAIN typed : Clean(n)' <=> Clean(n)
  BY <1>1 DEF Clean
<1>4. LinesRead \in 0 .. Len(typed) /\ DOMAIN typed = 1 .. Len(typed) /\ Len(typed) \in Nat
  BY LinesReadTyped DEF LinesInv
<1>5. buffer # <<>> => buffer[1].line \in DOMAIN typed
  <2>1. buffer \in Seq(Pieces) /\ NumberedIn(buffer, typed)
    BY DEF LinesInv, Shape
  <2>2. buffer # <<>> => 1 \in DOMAIN buffer
    BY <2>1
  <2>. QED BY <2>1, <2>2 DEF NumberedIn
<1>6. Leftover => Leftover'
  <2>1. LinesRead >= 1 => LinesRead \in DOMAIN typed
    BY <1>4
  <2>. QED BY <1>1, <1>2, <1>3, <1>5, <2>1 DEF Leftover
<1>7. Torn => typed'[Current] = typed[Current]
  <2>1. Torn => Current \in DOMAIN typed
    BY FirstUnread DEF Torn, LinesInv
  <2>. QED BY <1>1, <2>1
<1>8. Half' = Half
  BY <1>2 DEF Half
<1>9. BufferOK'
  <2>1. CASE Torn
    <3>1. (buffer = <<>> /\ 1 \in typed[Current].bad) \/ buffer = Half \/ Leftover
      BY <1>2, <2>1 DEF BufferOK
    <3>2. (buffer' = <<>> /\ 1 \in typed'[Current'].bad) \/ buffer' = Half' \/ Leftover'
      BY <1>2, <1>6, <1>7, <1>8, <2>1, <3>1
    <3>. QED BY <1>1, <2>1, <3>2 DEF BufferOK
  <2>2. CASE ~Torn
    <3>1. buffer = <<>> \/ Leftover
      BY <1>2, <2>2 DEF BufferOK
    <3>. QED BY <1>1, <1>2, <1>6, <2>2, <3>1 DEF BufferOK
  <2>. QED BY <2>1, <2>2
<1>. QED BY <1>1, <1>3, <1>9

-----------------------------------------------------------------------------
(* Every line handled has been read, and the pieces handled were typed. *)
HandledInv ==
  /\ handled \in Seq(Seq(Pieces))
  /\ \A k \in DOMAIN handled :
       /\ NumberedIn(handled[k], typed)
       /\ IsLine(handled[k]) => handled[k][1].line \in 1 .. LinesRead

LEMMA LineHandled ==
  ASSUME LinesInv, HandledInv, LinesIntact,
         NEW chunk \in Chunks, ReadsLine(chunk)
  PROVE  HandledInv' /\ LinesIntact'
<1> DEFINE pieces == buffer \o chunk
           n == Len(handled)
<1>1. /\ pieces \in Seq(Pieces)
      /\ IsLine(pieces) => pieces[1].line = Current
      /\ ~IsLine(pieces) => \E i \in DOMAIN pieces : ~Clean(pieces[i].line)
      /\ Clean(Current) /\ (Current > 1 => Clean(Current - 1)) => IsLine(pieces)
  BY HandledWhole
<1>2. NumberedIn(pieces, typed)
  BY ChunkOfUnread, JoinedPieces DEF LinesInv, Shape
<1>3. handled' = Append(handled, pieces) /\ typed' = typed
  BY DEF ReadsLine, Takes, Handles
<1>4. LinesRead' = Current /\ LinesRead \in Nat /\ Current = LinesRead + 1
  BY ReadKeepsBuffer, LinesReadTyped DEF LinesInv, Current
<1> HIDE DEF pieces
<1>5. /\ handled' \in Seq(Seq(Pieces)) /\ n \in Nat /\ DOMAIN handled = 1 .. n
      /\ DOMAIN handled' = 1 .. n + 1 /\ handled'[n + 1] = pieces
      /\ \A k \in 1 .. n : handled'[k] = handled[k]
  BY <1>1, <1>3 DEF HandledInv
<1>6. \A k \in 1 .. n + 1 : k \in 1 .. n \/ k = n + 1
  BY <1>5
<1> HIDE DEF n
<1>7. \A l : Clean(l)' <=> Clean(l)
  BY <1>3 DEF Clean
<1>8. \A k \in 1 .. n : IsLine(handled[k]) => handled[k][1].line \in 1 .. LinesRead
  BY <1>5 DEF HandledInv
<1>9. HandledInv'
  <2>1. 1 .. LinesRead \subseteq 1 .. Current /\ Current \in 1 .. Current
    BY <1>4
  <2>2. ASSUME NEW k \in 1 .. n + 1
        PROVE  /\ NumberedIn(handled'[k], typed')
               /\ IsLine(handled'[k]) => handled'[k][1].line \in 1 .. Current
    <3>1. CASE k \in 1 .. n
      BY <1>3, <1>5, <2>1, <3>1 DEF HandledInv
    <3>2. CASE k = n + 1
      BY <1>1, <1>2, <1>3, <1>5, <2>1, <3>2
    <3>. QED BY <1>6, <2>2, <3>1, <3>2
  <2>. QED BY <1>4, <1>5, <2>2 DEF HandledInv, IsLine, NumberedIn
<1>10. ASSUME NEW j \in 1 .. n + 1, NEW k \in 1 .. n + 1, j < k,
              IsLine(handled'[j]), IsLine(handled'[k])
       PROVE  handled'[j][1].line < handled'[k][1].line
  <2>1. j \in 1 .. n /\ handled'[j] = handled[j]
    BY <1>5, <1>10
  <2>2. CASE k \in 1 .. n
    <3>1. handled'[k] = handled[k]
      BY <1>5, <2>2
    <3>. QED BY <1>5, <1>10, <2>1, <2>2, <3>1 DEF LinesIntact
  <2>3. CASE k = n + 1
    <3>1. handled[j][1].line \in 1 .. LinesRead /\ handled'[k][1].line = Current
      BY <1>1, <1>5, <1>8, <1>10, <2>1, <2>3
    <3>. QED BY <1>4, <2>1, <3>1
  <2>. QED BY <1>6, <2>2, <2>3
<1>11. ASSUME NEW l \in 1 .. Current, Clean(l), l > 1 => Clean(l - 1)
       PROVE  \E k \in 1 .. n + 1 : IsLine(handled'[k]) /\ handled'[k][1].line = l
  <2>1. CASE l = Current
    <3>1. IsLine(pieces) /\ pieces[1].line = l
      BY <1>1, <1>11, <2>1
    <3>2. n + 1 \in 1 .. n + 1 /\ handled'[n + 1] = pieces
      BY <1>5
    <3>. QED BY <3>1, <3>2
  <2>2. CASE l \in 1 .. LinesRead
    <3>1. PICK k \in 1 .. n : IsLine(handled[k]) /\ handled[k][1].line = l
      BY <1>5, <1>11, <2>2 DEF LinesIntact
    <3>2. k \in 1 .. n + 1 /\ handled'[k] = handled[k]
      BY <1>5
    <3>. QED BY <3>1, <3>2
  <2>. QED BY <1>4, <2>1, <2>2
<1>12. ASSUME NEW k \in 1 .. n + 1, ~IsLine(handled'[k])
       PROVE  \E i \in DOMAIN handled'[k] : ~Clean(handled'[k][i].line)
  <2>1. CASE k \in 1 .. n
    BY <1>5, <1>12, <2>1 DEF LinesIntact
  <2>2. CASE k = n + 1
    BY <1>1, <1>5, <1>12, <2>2
  <2>. QED BY <1>6, <2>1, <2>2
<1>13. LinesIntact'
  BY <1>4, <1>5, <1>7, <1>10, <1>11, <1>12 DEF LinesIntact, IsLine
<1>. QED BY <1>9, <1>13

(* Nothing is handled: lines may be read that were garbled, or typed. *)
LEMMA NoLineHandled ==
  ASSUME Shape, HandledInv, LinesIntact, handled' = handled,
         DOMAIN typed \subseteq DOMAIN typed',
         \A l \in DOMAIN typed : Clean(l)' <=> Clean(l),
         LinesRead' = LinesRead \/ (LinesRead' = Current /\ ~Clean(Current)),
         Current \in DOMAIN typed \/ LinesRead' = LinesRead
  PROVE  HandledInv' /\ LinesIntact'
<1>1. /\ LinesRead \in 0 .. Len(typed) /\ DOMAIN typed = 1 .. Len(typed)
      /\ Len(typed) \in Nat /\ Current = LinesRead + 1
  BY LinesReadTyped DEF Current
<1>2. 1 .. LinesRead \subseteq 1 .. LinesRead' /\ 1 .. LinesRead' \subseteq DOMAIN typed
  BY <1>1
<1>3. HandledInv'
  BY <1>2 DEF HandledInv, NumberedIn, IsLine
<1>4. ASSUME NEW l \in 1 .. LinesRead', Clean(l), l > 1 => Clean(l - 1)
      PROVE  \E k \in DOMAIN handled : IsLine(handled[k]) /\ handled[k][1].line = l
  <2>1. l \in 1 .. LinesRead
    <3>1. LinesRead' = Current => l # Current
      BY <1>1, <1>4
    <3>. QED BY <1>1, <1>4, <3>1
  <2>. QED BY <1>4, <2>1 DEF LinesIntact
<1>5. \A l \in 1 .. LinesRead' :
        /\ Clean(l)' <=> Clean(l)
        /\ l > 1 => (Clean(l - 1)' <=> Clean(l - 1))
  <2>1. \A l \in 1 .. LinesRead' : l > 1 => l - 1 \in 1 .. LinesRead'
    BY <1>1
  <2>. QED BY <1>2, <2>1
<1>6. \A k \in DOMAIN handled : \A i \in DOMAIN handled[k] :
        Clean(handled[k][i].line)' <=> Clean(handled[k][i].line)
  BY DEF HandledInv, NumberedIn
<1>7. \A j, k \in DOMAIN handled' :
        j < k /\ IsLine(handled'[j]) /\ IsLine(handled'[k]) =>
          handled'[j][1].line < handled'[k][1].line
  BY DEF LinesIntact
<1>8. ASSUME NEW l \in 1 .. LinesRead', Clean(l)', l > 1 => Clean(l - 1)'
      PROVE  \E k \in DOMAIN handled' : IsLine(handled'[k]) /\ handled'[k][1].line = l
  BY <1>4, <1>5, <1>8
<1>9. ASSUME NEW k \in DOMAIN handled', ~IsLine(handled'[k])
      PROVE  \E i \in DOMAIN handled'[k] : ~Clean(handled[k][i].line)'
  BY <1>6, <1>9 DEF LinesIntact
<1>. QED BY <1>3, <1>7, <1>8, <1>9 DEF LinesIntact, IsLine, Clean

LEMMA StepLines ==
  LinesInv /\ HandledInv /\ LinesIntact /\ [ConsoleNext]_allVars =>
    (LinesInv /\ HandledInv /\ LinesIntact)'
<1> SUFFICES ASSUME LinesInv, HandledInv, LinesIntact, [ConsoleNext]_allVars
             PROVE  StreamOK' /\ BufferOK' /\ HandledInv' /\ LinesIntact'
  BY StepShape DEF LinesInv, HandledInv
<1>1. ASSUME NEW chunk \in Chunks, ReadsLine(chunk) \/ ReadsPart(chunk) \/ ReadFails(chunk)
      PROVE  StreamOK' /\ BufferOK' /\ HandledInv' /\ LinesIntact'
  <2>1. /\ StreamOK' /\ BufferOK'
        /\ ~ReadsLine(chunk) =>
             LinesRead' = LinesRead \/ (LinesRead' = Current /\ ~Clean(Current))
    BY <1>1, ReadKeepsBuffer
  <2>2. CASE ReadsLine(chunk)
    BY <2>1, <2>2, LineHandled
  <2>3. CASE ~ReadsLine(chunk)
    <3>1. handled' = handled /\ Takes(chunk)
      BY <1>1, <2>3 DEF ReadsPart, ReadFails
    <3>2. typed' = typed /\ Current \in DOMAIN typed
      BY <3>1, ChunkKinds DEF LinesInv
    <3>. QED BY <2>1, <2>3, <3>1, <3>2, NoLineHandled DEF LinesInv, Clean
  <2>. QED BY <2>2, <2>3
<1>2. ASSUME NEW c, NEW bad, Types(c, bad)
      PROVE  StreamOK' /\ BufferOK' /\ HandledInv' /\ LinesIntact'
  <2>1. /\ StreamOK' /\ BufferOK'
        /\ \A n \in DOMAIN typed : Clean(n)' <=> Clean(n)
    BY <1>2, TypesKeepsBuffer
  <2>2. LinesRead' = LinesRead /\ DOMAIN typed \subseteq DOMAIN typed'
    BY <1>2, TypesExtends DEF LinesInv
  <2>3. handled' = handled
    BY <1>2 DEF Types
  <2>. QED BY <2>1, <2>2, <2>3, NoLineHandled DEF LinesInv
<1>3. CASE UNCHANGED consoleVars
  <2>1. UNCHANGED <<typed, unread, buffer, handled>>
    BY <1>3 DEF consoleVars
  <2>2. LinesRead' = LinesRead /\ StreamOK' /\ BufferOK'
    BY <2>1 DEF LinesRead, LinesInv, StreamOK, BufferOK, Torn, Half, Current, Leftover, Clean
  <2>. QED BY <2>1, <2>2, NoLineHandled DEF LinesInv, Clean
<1>. QED BY <1>1, <1>2, <1>3 DEF ConsoleNext, ConsoleReads, Others, allVars

LEMMA InitLines == ConsoleInit => LinesInv /\ HandledInv /\ LinesIntact
<1> SUFFICES ASSUME ConsoleInit PROVE LinesInv /\ HandledInv /\ LinesIntact
  OBVIOUS
<1>1. typed = <<>> /\ unread = <<>> /\ buffer = <<>> /\ handled = <<>> /\ Shape
  BY InitShape DEF ConsoleInit
<1>2. StreamOK /\ BufferOK /\ ~Torn
  BY <1>1 DEF StreamOK, BufferOK, Torn
<1>3. HandledInv
  BY <1>1 DEF HandledInv
<1>4. LinesRead = 0 /\ 1 .. 0 = {} /\ DOMAIN handled = {}
  BY <1>1 DEF LinesRead
<1>. QED BY <1>1, <1>2, <1>3, <1>4 DEF LinesInv, HandledInv, LinesIntact

LEMMA LinesInvariant == ConsoleSpec => [](LinesInv /\ HandledInv /\ LinesIntact)
BY InitLines, StepLines, PTL DEF ConsoleSpec

(* However the bytes of the lines arrive, a line is handled whole, once and  *)
(* in its turn (console.rs:14-47).                                           *)
THEOREM LinesHandledWhole == ConsoleSpec => []LinesIntact
BY LinesInvariant, PTL

-----------------------------------------------------------------------------
(* The settings. *)
Bursts == {16, 24, 32, 64}

SettingsOK ==
  /\ settings = [mute |-> settings.mute, interval |-> settings.interval,
                 promi |-> settings.promi, channel |-> settings.channel,
                 ht40 |-> settings.ht40, burst |-> settings.burst,
                 ranging |-> settings.ranging, iters |-> settings.iters]
  /\ settings.mute \in BOOLEAN /\ settings.interval \in Nat \ {0}
  /\ settings.promi \in BOOLEAN /\ settings.channel \in {1, 6, 11}
  /\ settings.ht40 \in BOOLEAN /\ settings.burst \in Bursts
  /\ settings.ranging \in BOOLEAN /\ settings.iters \in Nat

LEMMA EightFields ==
  ASSUME NEW A, NEW B, NEW C, NEW D, NEW E, NEW F, NEW G, NEW H,
         NEW a \in A, NEW b \in B, NEW c \in C, NEW d \in D,
         NEW e \in E, NEW f \in F, NEW g \in G, NEW h \in H
  PROVE  [mute |-> a, interval |-> b, promi |-> c, channel |-> d,
          ht40 |-> e, burst |-> f, ranging |-> g, iters |-> h]
         \in [mute : A, interval : B, promi : C, channel : D,
              ht40 : E, burst : F, ranging : G, iters : H]
OBVIOUS

(* The number of an accepted command is one its task can work with. *)
LEMMA AcceptedNumbers ==
  ASSUME NEW c \in CommandLines \cup {NoCommand}, Accepted(c)
  PROVE  /\ c.name = "interval" => c.arg \in Nat \ {0}
         /\ c.name = "burst" => c.arg \in Bursts
         /\ c.name = "channel" => c.arg \in {1, 6, 11}
         /\ c.name = "wipro_iters" => c.arg \in Nat
<1>1. c.arg \in Int
  BY CommandsAreTyped DEF NoCommand
<1>2. c.name = "interval" => c.arg > 0
  BY DEF Accepted
<1>3. c.name = "burst" => c.arg \in Bursts
  BY DEF Accepted, Bursts
<1>4. c.name = "channel" => c.arg \in {1, 6, 11}
  BY DEF Accepted
<1>5. c.name = "wipro_iters" => c.arg >= 0
  BY DEF Accepted
<1>. QED BY <1>1, <1>2, <1>3, <1>4, <1>5

LEMMA ToldTyped ==
  ASSUME NEW c, NEW name, NEW S, NEW old \in S, NEW new, c.name = name => new \in S
  PROVE  Told(c, name, new, old) \in S
BY DEF Told

LEMMA FieldsOfWith ==
  ASSUME NEW s, NEW c
  PROVE  LET w == With(s, c)
         IN  /\ w = [mute |-> w.mute, interval |-> w.interval, promi |-> w.promi,
                     channel |-> w.channel, ht40 |-> w.ht40, burst |-> w.burst,
                     ranging |-> w.ranging, iters |-> w.iters]
             /\ w.mute = Told(c, "mute", On(c), s.mute)
             /\ w.interval = Told(c, "interval", c.arg, s.interval)
             /\ w.promi = Told(c, "promi", On(c), s.promi)
             /\ w.channel = Told(c, "channel", c.arg, s.channel)
             /\ w.ht40 = Told(c, "channel", Ht40(c), s.ht40)
             /\ w.burst = Told(c, "burst", c.arg, s.burst)
             /\ w.ranging = Told(c, "wipro", On(c), s.ranging)
             /\ w.iters = Told(c, "wipro_iters", c.arg, s.iters)
BY DEF With

LEMMA CommandKeepsSettings ==
  ASSUME SettingsOK, NEW c \in CommandLines \cup {NoCommand}, HandleCommand(c)
  PROVE  SettingsOK'
<1>1. CASE settings' = settings
  BY <1>1 DEF SettingsOK
<1>2. CASE settings' = With(settings, c) /\ Accepted(c)
  <2>1. On(c) \in BOOLEAN /\ Ht40(c) \in BOOLEAN
    BY DEF On, Ht40
  <2>2. settings'.mute \in BOOLEAN
    BY <1>2, <2>1, FieldsOfWith, ToldTyped DEF SettingsOK
  <2>3. settings'.promi \in BOOLEAN
    BY <1>2, <2>1, FieldsOfWith, ToldTyped DEF SettingsOK
  <2>4. settings'.ht40 \in BOOLEAN
    BY <1>2, <2>1, FieldsOfWith, ToldTyped DEF SettingsOK
  <2>5. settings'.ranging \in BOOLEAN
    BY <1>2, <2>1, FieldsOfWith, ToldTyped DEF SettingsOK
  <2>5a. /\ c.name = "interval" => c.arg \in Nat \ {0}
         /\ c.name = "burst" => c.arg \in Bursts
         /\ c.name = "channel" => c.arg \in {1, 6, 11}
         /\ c.name = "wipro_iters" => c.arg \in Nat
    BY <1>2, AcceptedNumbers
  <2>5b. /\ settings'.interval = Told(c, "interval", c.arg, settings.interval)
         /\ settings'.channel = Told(c, "channel", c.arg, settings.channel)
         /\ settings'.burst = Told(c, "burst", c.arg, settings.burst)
         /\ settings'.iters = Told(c, "wipro_iters", c.arg, settings.iters)
    BY <1>2, FieldsOfWith
  <2>6. settings'.interval \in Nat \ {0}
    BY <2>5a, <2>5b, Zenon DEF SettingsOK, Told
  <2>7. settings'.channel \in {1, 6, 11}
    BY <2>5a, <2>5b, Zenon DEF SettingsOK, Told
  <2>8. settings'.burst \in Bursts
    BY <2>5a, <2>5b, Zenon DEF SettingsOK, Told
  <2>9. settings'.iters \in Nat
    BY <2>5a, <2>5b, Zenon DEF SettingsOK, Told
  <2>10. settings' = [mute |-> settings'.mute, interval |-> settings'.interval,
                      promi |-> settings'.promi, channel |-> settings'.channel,
                      ht40 |-> settings'.ht40, burst |-> settings'.burst,
                      ranging |-> settings'.ranging, iters |-> settings'.iters]
    BY <1>2, FieldsOfWith
  <2>. QED BY <2>2, <2>3, <2>4, <2>5, <2>6, <2>7, <2>8, <2>9, <2>10 DEF SettingsOK
<1>. QED BY <1>1, <1>2 DEF HandleCommand, SetsBeacon, Sets, Refuses

(* A step leaves the settings alone or is some command's. *)
LEMMA StepSettings ==
  ASSUME LinesInv, SettingsOK, [ConsoleNext]_allVars
  PROVE  SettingsOK'
<1>1. ASSUME UNCHANGED settings PROVE SettingsOK'
  BY <1>1 DEF SettingsOK
<1>2. ASSUME NEW chunk \in Chunks, ReadsLine(chunk) PROVE SettingsOK'
  <2> DEFINE pieces == buffer \o chunk
  <2>1. Handles(pieces)
    BY <1>2 DEF ReadsLine
  <2>2. CASE IsLine(pieces)
    BY <2>1, <2>2, TypedCommandKnown, CommandKeepsSettings DEF Handles, TypedCommand, LinesInv
  <2>3. CASE ~IsLine(pieces)
    <3>1. HandleMixed
      BY <2>1, <2>3 DEF Handles
    <3>. QED BY <1>1, <3>1, CommandKeepsSettings DEF HandleMixed
  <2>. QED BY <2>2, <2>3
<1>3. ASSUME NEW chunk \in Chunks, ReadsPart(chunk) \/ ReadFails(chunk) PROVE SettingsOK'
  BY <1>1, <1>3 DEF ReadsPart, ReadFails
<1>4. ASSUME NEW c, NEW bad, Types(c, bad) PROVE SettingsOK'
  BY <1>1, <1>4 DEF Types
<1>5. CASE Others \/ UNCHANGED allVars
  BY <1>1, <1>5 DEF Others, allVars, consoleVars
<1>. QED BY <1>2, <1>3, <1>4, <1>5 DEF ConsoleNext, ConsoleReads

LEMMA SettingsInvariant == ConsoleSpec => []SettingsOK
<1>1. ConsoleInit => SettingsOK
  <2>1. ASSUME ConsoleInit PROVE settings = Defaults
    BY <2>1 DEF ConsoleInit
  <2>2. Defaults.mute \in BOOLEAN /\ Defaults.promi \in BOOLEAN
    BY DEF Defaults
  <2>3. Defaults.ht40 \in BOOLEAN /\ Defaults.ranging \in BOOLEAN
    BY DEF Defaults
  <2>4. /\ Defaults.interval \in Nat \ {0} /\ Defaults.channel \in {1, 6, 11}
        /\ Defaults.burst \in Bursts /\ Defaults.iters \in Nat
    BY DEF Defaults, Bursts
  <2>5. Defaults = [mute |-> Defaults.mute, interval |-> Defaults.interval,
                    promi |-> Defaults.promi, channel |-> Defaults.channel,
                    ht40 |-> Defaults.ht40, burst |-> Defaults.burst,
                    ranging |-> Defaults.ranging, iters |-> Defaults.iters]
    BY DEF Defaults
  <2>. QED BY <2>1, <2>2, <2>3, <2>4, <2>5 DEF SettingsOK
<1>. QED BY <1>1, LinesInvariant, StepSettings, PTL DEF ConsoleSpec

(* The state of the console keeps its shape; the settings are ones the tasks *)
(* can work with (console.rs:122, 177, ftm.rs:354, wifi.rs:78-81).           *)
THEOREM ConsoleTyped == ConsoleSpec => []ConsoleTypeOK
<1>1. TypeOK /\ LinesInv /\ SettingsOK => ConsoleTypeOK
  <2> SUFFICES ASSUME TypeOK, LinesInv, SettingsOK PROVE ConsoleTypeOK
    OBVIOUS
  <2>1. settings \in [mute : BOOLEAN, interval : Nat \ {0}, promi : BOOLEAN,
                      channel : {1, 6, 11}, ht40 : BOOLEAN, burst : Bursts,
                      ranging : BOOLEAN, iters : Nat]
    BY EightFields DEF SettingsOK
  <2>. QED BY <2>1 DEF ConsoleTypeOK, LinesInv, Shape, Lines, Bursts
<1>2. ConsoleSpec => []TypeOK
  BY ConsoleDrivesBeacon, InitTypeOK, StepTypeOK, PTL
<1>. QED BY <1>1, <1>2, LinesInvariant, SettingsInvariant, PTL

-----------------------------------------------------------------------------
(* The settings in force. *)
LEMMA SaidNext ==
  ASSUME Shape, NEW read \in DOMAIN typed, read = Current,
         typed' = typed, LinesRead' = read, NEW name
  PROVE  /\ Says(read, name) => LastSaid(read, name)'
         /\ ~Says(read, name) =>
              /\ Unsaid(name) => Unsaid(name)'
              /\ \A n \in 1 .. LinesRead : LastSaid(n, name) => LastSaid(n, name)'
<1>1. LinesRead \in Nat /\ read = LinesRead + 1 /\ LinesRead' = read
  BY LinesReadTyped DEF Current
<1>2. \A n : Says(n, name)' <=> Says(n, name)
  BY DEF Says
<1>3. 1 .. read = (1 .. LinesRead) \cup {read}
  BY <1>1
<1>4. \A n \in 1 .. LinesRead : n + 1 .. read = (n + 1 .. LinesRead) \cup {read}
  BY <1>1
<1>5. \A m : m \notin read + 1 .. read
  BY <1>1
<1>6. Says(read, name) => LastSaid(read, name)'
  BY <1>1, <1>2, <1>5 DEF LastSaid
<1>7. ASSUME ~Says(read, name), Unsaid(name) PROVE Unsaid(name)'
  BY <1>1, <1>2, <1>3, <1>7 DEF Unsaid
<1>8. ASSUME ~Says(read, name), NEW n \in 1 .. LinesRead, LastSaid(n, name)
      PROVE  LastSaid(n, name)'
  BY <1>1, <1>2, <1>4, <1>8 DEF LastSaid
<1>. QED BY <1>6, <1>7, <1>8

LEMMA SaidSame ==
  ASSUME Shape, LinesRead' = LinesRead,
         \A n \in DOMAIN typed : typed'[n] = typed[n], NEW name
  PROVE  /\ Unsaid(name)' <=> Unsaid(name)
         /\ \A n \in 1 .. LinesRead : LastSaid(n, name)' <=> LastSaid(n, name)
<1>1. LinesRead \in Nat /\ 1 .. LinesRead \subseteq DOMAIN typed
  BY LinesReadTyped
<1>2. \A n \in 1 .. LinesRead : Says(n, name)' <=> Says(n, name)
  BY <1>1 DEF Says
<1>3. \A n \in 1 .. LinesRead : n + 1 .. LinesRead \subseteq 1 .. LinesRead
  BY <1>1
<1>4. Unsaid(name)' <=> Unsaid(name)
  BY <1>2 DEF Unsaid
<1>5. \A n \in 1 .. LinesRead : LastSaid(n, name)' <=> LastSaid(n, name)
  BY <1>2, <1>3 DEF LastSaid
<1>. QED BY <1>4, <1>5

(* One setting, with what each line would make of it: it is as said before   *)
(* the step, and becomes what the line read now says if that is one of its   *)
(* own.                                                                      *)
AsTold(name, value, default, told) ==
  \/ Unsaid(name) /\ value = default
  \/ \E n \in 1 .. LinesRead : LastSaid(n, name) /\ value = told[n]

LEMMA TellNext ==
  ASSUME Shape, NEW read \in DOMAIN typed, read = Current,
         typed' = typed, LinesRead' = read,
         NEW name, NEW default, NEW told, NEW value, NEW after,
         AsTold(name, value, default, told),
         Says(read, name) => after = told[read],
         ~Says(read, name) => after = value
  PROVE  \/ Unsaid(name)' /\ after = default
         \/ \E n \in 1 .. read : LastSaid(n, name)' /\ after = told[n]
<1>1. LinesRead \in Nat /\ read = LinesRead + 1
  BY LinesReadTyped DEF Current
<1>2. 1 .. LinesRead \subseteq 1 .. read /\ read \in 1 .. read
  BY <1>1
<1>3. CASE Says(read, name)
  BY <1>2, <1>3, SaidNext
<1>4. CASE ~Says(read, name)
  <2>1. /\ Unsaid(name) => Unsaid(name)'
        /\ \A n \in 1 .. LinesRead : LastSaid(n, name) => LastSaid(n, name)'
    BY <1>4, SaidNext
  <2>. QED BY <1>2, <1>4, <2>1 DEF AsTold
<1>. QED BY <1>3, <1>4

LEMMA TellSame ==
  ASSUME Shape, LinesRead' = LinesRead, \A n \in DOMAIN typed : typed'[n] = typed[n],
         NEW name, NEW default, NEW told, NEW value, AsTold(name, value, default, told)
  PROVE  \/ Unsaid(name)' /\ value = default
         \/ \E n \in 1 .. LinesRead : LastSaid(n, name)' /\ value = told[n]
BY SaidSame DEF AsTold

(* The step reads no line and leaves the value alone, or reads a line and    *)
(* the value becomes what it says.                                           *)
Tells(name, value, after, told) ==
  \/ LinesRead' = LinesRead /\ after = value
  \/ /\ LinesRead' = Current /\ Current \in DOMAIN typed /\ typed' = typed
     /\ after = IF Says(Current, name) THEN told[Current] ELSE value

LEMMA TellStep ==
  ASSUME Shape, \A n \in DOMAIN typed : typed'[n] = typed[n],
         NEW name, NEW default, NEW told, NEW value, NEW after,
         AsTold(name, value, default, told), Tells(name, value, after, told)
  PROVE  \/ Unsaid(name)' /\ after = default
         \/ \E n \in 1 .. LinesRead' :
              n \in DOMAIN typed /\ LastSaid(n, name)' /\ after = told[n]
<1>1. LinesRead \in Nat /\ 1 .. LinesRead \subseteq DOMAIN typed
  BY LinesReadTyped
<1>2. CASE LinesRead' = LinesRead /\ after = value
  BY <1>1, <1>2, TellSame
<1>3. CASE /\ LinesRead' = Current /\ Current \in DOMAIN typed /\ typed' = typed
           /\ after = IF Says(Current, name) THEN told[Current] ELSE value
  <2>1. PICK read \in DOMAIN typed : read = Current
    BY <1>3
  <2>2. \/ Unsaid(name)' /\ after = default
        \/ \E n \in 1 .. read : LastSaid(n, name)' /\ after = told[n]
    BY <1>3, <2>1, TellNext
  <2>3. 1 .. read \subseteq DOMAIN typed
    BY LinesReadTyped
  <2>. QED BY <1>3, <2>1, <2>2, <2>3
<1>. QED BY <1>2, <1>3 DEF Tells

(* What a command changes: each setting has its own. *)
LEMMA CommandSays ==
  ASSUME NEW c \in CommandLines \cup {NoCommand}, HandleCommand(c)
  PROVE  /\ settings'.mute = IF c.name = "mute" /\ Accepted(c) THEN On(c) ELSE settings.mute
         /\ settings'.interval =
              IF c.name = "interval" /\ Accepted(c) THEN c.arg ELSE settings.interval
         /\ settings'.promi = IF c.name = "promi" /\ Accepted(c) THEN On(c) ELSE settings.promi
         /\ settings'.burst = IF c.name = "burst" /\ Accepted(c) THEN c.arg ELSE settings.burst
         /\ settings'.ranging =
              IF c.name = "wipro" /\ Accepted(c) THEN On(c) ELSE settings.ranging
         /\ settings'.iters =
              IF c.name = "wipro_iters" /\ Accepted(c) THEN c.arg ELSE settings.iters
         /\ should' = (IF c.name = "beacon" /\ Accepted(c) THEN On(c) ELSE should)
         /\ rate' = IF c.name = "beacon" /\ Accepted(c) THEN RateFor(c.arg) ELSE rate
<1>1. CASE SetsBeacon(c)
  <2>1. c.name = "beacon" /\ settings' = settings
    BY <1>1 DEF SetsBeacon
  <2>2. Accepted(c)
    BY <2>1 DEF Accepted
  <2>3. CASE BeaconOn(c.arg)
    <3>1. should' = On(c)
      BY <2>3 DEF BeaconOn, On
    <3>2. rate' = RateFor(c.arg)
      BY <2>3 DEF BeaconOn
    <3>. QED BY <2>1, <2>2, <3>1, <3>2
  <2>4. CASE c.arg = 0 /\ BeaconOff
    <3>1. should' = On(c)
      BY <2>4 DEF BeaconOff, On
    <3>2. rate' = RateFor(c.arg)
      BY <2>4 DEF BeaconOff, RateFor
    <3>. QED BY <2>1, <2>2, <3>1, <3>2
  <2>. QED BY <1>1, <2>3, <2>4 DEF SetsBeacon
<1>2. CASE Sets(c)
  <2>1. should' = should /\ rate' = rate /\ c.name # "beacon" /\ Accepted(c)
    BY <1>2 DEF Sets, vars, beaconVars
  <2>2. CASE settings' = With(settings, c)
    BY <2>1, <2>2, FieldsOfWith DEF Told
  <2>3. CASE c.name = "channel" /\ settings' = settings
    BY <2>1, <2>3
  <2>. QED BY <1>2, <2>2, <2>3 DEF Sets
<1>3. CASE Refuses(c)
  BY <1>3 DEF Refuses, vars, beaconVars
<1>. QED BY <1>1, <1>2, <1>3 DEF HandleCommand

(* What a step makes of a setting, whose lines say On, Number or Pause.      *)
Turns(name, value, after) ==
  Tells(name, value, after, [n \in DOMAIN typed |-> On(typed[n].command)])
Counts(name, value, after) ==
  Tells(name, value, after, [n \in DOMAIN typed |-> Number(typed[n].command)])
Pauses(name, value, after) ==
  Tells(name, value, after, [n \in DOMAIN typed |-> Pause(typed[n].command)])

StepTells ==
  /\ \A n \in DOMAIN typed : typed'[n] = typed[n]
  /\ DOMAIN typed \subseteq DOMAIN typed'
  /\ Turns("mute", settings.mute, settings'.mute)
  /\ Counts("interval", settings.interval, settings'.interval)
  /\ Turns("promi", settings.promi, settings'.promi)
  /\ Counts("burst", settings.burst, settings'.burst)
  /\ Turns("wipro", settings.ranging, settings'.ranging)
  /\ Counts("wipro_iters", settings.iters, settings'.iters)
  /\ Turns("beacon", should, should')
  /\ Pauses("beacon", rate, rate')

LEMMA QuietTells ==
  ASSUME LinesRead' = LinesRead, UNCHANGED <<settings, should, rate>>,
         \A n \in DOMAIN typed : typed'[n] = typed[n],
         DOMAIN typed \subseteq DOMAIN typed'
  PROVE  StepTells
BY DEF StepTells, Turns, Counts, Pauses, Tells

(* While every line has decoded, the line handled is the one just read.      *)
LEMMA CleanStepTells ==
  ASSUME LinesInv, AllClean, [ConsoleNext]_allVars
  PROVE  StepTells
<1>1. ASSUME NEW chunk \in Chunks, ReadsLine(chunk) PROVE StepTells
  <2> DEFINE pieces == buffer \o chunk
             c == typed[Current].command
  <2>1. LinesRead' = Current /\ typed' = typed /\ Current \in DOMAIN typed
    BY <1>1, ReadKeepsBuffer, ChunkKinds DEF ReadsLine, LinesInv
  <2>2. LinesRead \in Nat /\ Current = LinesRead + 1 /\ DOMAIN typed = 1 .. Len(typed)
        /\ Len(typed) \in Nat
    BY LinesReadTyped DEF LinesInv, Current
  <2>3. Clean(Current) /\ (Current > 1 => Clean(Current - 1))
    <3>1. Current > 1 => Current - 1 \in DOMAIN typed
      BY <2>1, <2>2
    <3>. QED BY <2>1, <3>1 DEF AllClean
  <2>4. IsLine(pieces) /\ pieces[1].line = Current
    BY <1>1, <2>3, HandledWhole
  <2>5. HandleCommand(c)
    BY <1>1, <2>4 DEF ReadsLine, Handles
  <2>6. c \in CommandLines \cup {NoCommand}
    BY <1>1, <2>4, TypedCommandKnown DEF TypedCommand, LinesInv
  <2>7. \A name : Says(Current, name) <=> c.name = name /\ Accepted(c)
    BY DEF Says
  <2> HIDE DEF c, pieces
  <2>8. /\ [n \in DOMAIN typed |-> On(typed[n].command)][Current] = On(c)
        /\ [n \in DOMAIN typed |-> Number(typed[n].command)][Current] = c.arg
        /\ [n \in DOMAIN typed |-> Pause(typed[n].command)][Current] = RateFor(c.arg)
    BY <2>1 DEF c, Number, Pause
  <2>9. /\ settings'.mute = IF Says(Current, "mute") THEN On(c) ELSE settings.mute
        /\ settings'.interval = IF Says(Current, "interval") THEN c.arg ELSE settings.interval
        /\ settings'.promi = IF Says(Current, "promi") THEN On(c) ELSE settings.promi
        /\ settings'.burst = IF Says(Current, "burst") THEN c.arg ELSE settings.burst
        /\ settings'.ranging = IF Says(Current, "wipro") THEN On(c) ELSE settings.ranging
        /\ settings'.iters = IF Says(Current, "wipro_iters") THEN c.arg ELSE settings.iters
        /\ should' = (IF Says(Current, "beacon") THEN On(c) ELSE should)
        /\ rate' = IF Says(Current, "beacon") THEN RateFor(c.arg) ELSE rate
    BY <2>5, <2>6, <2>7, CommandSays
  <2>. QED BY <2>1, <2>8, <2>9 DEF StepTells, Turns, Counts, Pauses, Tells
<1>2. ASSUME NEW chunk \in Chunks, ReadsPart(chunk) \/ ReadFails(chunk), ~ReadsLine(chunk)
      PROVE  StepTells
  <2>1. typed' = typed /\ Current \in DOMAIN typed
    BY <1>2, ChunkKinds DEF ReadsPart, ReadFails, LinesInv, Takes
  <2>2. LinesRead' = LinesRead
    BY <1>2, <2>1, ReadKeepsBuffer DEF AllClean
  <2>3. UNCHANGED <<settings, should, rate>>
    BY <1>2 DEF ReadsPart, ReadFails, vars, beaconVars
  <2>. QED BY <2>1, <2>2, <2>3, QuietTells
<1>3. ASSUME NEW c, NEW bad, Types(c, bad) PROVE StepTells
  BY <1>3, TypesExtends, QuietTells DEF LinesInv, Types, vars, beaconVars
<1>4. CASE Others \/ UNCHANGED allVars
  <2>1. UNCHANGED <<typed, unread, settings>>
    BY <1>4 DEF Others, allVars, consoleVars
  <2>2. UNCHANGED <<should, rate>>
    <3>1. Driver => UNCHANGED beaconVars
      BY DEF Driver, Reconnects, Joins, JoinFails, Leaves, Assigns
    <3>2. Rounds => UNCHANGED beaconVars
      BY DEF Rounds, RoundOff, RoundLooks, RoundWithoutIp, RoundJoins, RoundJoinFails,
             RoundWaitsForIp, Binds, BindFails, Sends, SendOutOfMemory, SendFails
    <3>. QED BY <1>4, <3>1, <3>2 DEF Others, allVars, vars, beaconVars
  <2>. QED BY <2>1, <2>2, QuietTells DEF LinesRead
<1>. QED BY <1>1, <1>2, <1>3, <1>4 DEF ConsoleNext, ConsoleReads

(* The sayings of InForce, one for each kind of line. *)
AsTurned(name, value, default) == AsSaid(name, value, default, On)
AsCounted(name, value, default) == AsSaid(name, value, default, Number)
AsPaused(name, value, default) == AsSaid(name, value, default, Pause)

LEMMA TurnsAsSaid ==
  ASSUME Shape, StepTells, NEW name, NEW value, NEW default, NEW after,
         Turns(name, value, after), AsTurned(name, value, default)
  PROVE  \/ Unsaid(name)' /\ after = default
         \/ \E n \in 1 .. LinesRead' : LastSaid(n, name)' /\ after = On(typed'[n].command)
<1> DEFINE told == [n \in DOMAIN typed |-> On(typed[n].command)]
<1>1. AsTold(name, value, default, told)
  <2>1. 1 .. LinesRead \subseteq DOMAIN typed
    BY LinesReadTyped
  <2>. QED BY <2>1 DEF AsTold, AsTurned, AsSaid
<1>2. \A n \in DOMAIN typed : told[n] = On(typed'[n].command)
  BY DEF StepTells, On
<1>3. Tells(name, value, after, told)
  BY DEF Turns
<1> HIDE DEF told
<1>4. \/ Unsaid(name)' /\ after = default
      \/ \E n \in 1 .. LinesRead' : n \in DOMAIN typed /\ LastSaid(n, name)' /\ after = told[n]
  BY <1>1, <1>3, TellStep DEF StepTells
<1>. QED BY <1>2, <1>4

LEMMA CountsAsSaid ==
  ASSUME Shape, StepTells, NEW name, NEW value, NEW default, NEW after,
         Counts(name, value, after), AsCounted(name, value, default)
  PROVE  \/ Unsaid(name)' /\ after = default
         \/ \E n \in 1 .. LinesRead' : LastSaid(n, name)' /\ after = Number(typed'[n].command)
<1> DEFINE told == [n \in DOMAIN typed |-> Number(typed[n].command)]
<1>1. AsTold(name, value, default, told)
  <2>1. 1 .. LinesRead \subseteq DOMAIN typed
    BY LinesReadTyped
  <2>. QED BY <2>1 DEF AsTold, AsCounted, AsSaid
<1>2. \A n \in DOMAIN typed : told[n] = Number(typed'[n].command)
  BY DEF StepTells, Number
<1>3. Tells(name, value, after, told)
  BY DEF Counts
<1> HIDE DEF told
<1>4. \/ Unsaid(name)' /\ after = default
      \/ \E n \in 1 .. LinesRead' : n \in DOMAIN typed /\ LastSaid(n, name)' /\ after = told[n]
  BY <1>1, <1>3, TellStep DEF StepTells
<1>. QED BY <1>2, <1>4

LEMMA PausesAsSaid ==
  ASSUME Shape, StepTells, NEW name, NEW value, NEW default, NEW after,
         Pauses(name, value, after), AsPaused(name, value, default)
  PROVE  \/ Unsaid(name)' /\ after = default
         \/ \E n \in 1 .. LinesRead' : LastSaid(n, name)' /\ after = Pause(typed'[n].command)
<1> DEFINE told == [n \in DOMAIN typed |-> Pause(typed[n].command)]
<1>1. AsTold(name, value, default, told)
  <2>1. 1 .. LinesRead \subseteq DOMAIN typed
    BY LinesReadTyped
  <2>. QED BY <2>1 DEF AsTold, AsPaused, AsSaid
<1>2. \A n \in DOMAIN typed : told[n] = Pause(typed'[n].command)
  BY DEF StepTells, Pause
<1>3. Tells(name, value, after, told)
  BY DEF Pauses
<1> HIDE DEF told
<1>4. \/ Unsaid(name)' /\ after = default
      \/ \E n \in 1 .. LinesRead' : n \in DOMAIN typed /\ LastSaid(n, name)' /\ after = told[n]
  BY <1>1, <1>3, TellStep DEF StepTells
<1>. QED BY <1>2, <1>4

LEMMA StepInForce == LinesInv /\ InForce /\ [ConsoleNext]_allVars => InForce'
<1> SUFFICES ASSUME LinesInv, InForce, [ConsoleNext]_allVars, AllClean' PROVE InForce'
  BY DEF InForce
<1>1. AllClean
  <2>1. ASSUME NEW c, NEW bad, Types(c, bad) PROVE AllClean
    BY <2>1, TypesKeepsBuffer, TypesExtends DEF AllClean, LinesInv
  <2>2. ASSUME typed' = typed PROVE AllClean
    BY <2>2 DEF AllClean, Clean
  <2>. QED BY <2>1, <2>2
           DEF ConsoleNext, ConsoleReads, ReadsLine, ReadsPart, ReadFails, Takes, Others,
               consoleVars, allVars
<1>2. StepTells /\ Shape
  BY <1>1, CleanStepTells DEF LinesInv
<1>3. /\ AsTurned("mute", settings.mute, Defaults.mute)
      /\ AsCounted("interval", settings.interval, Defaults.interval)
      /\ AsTurned("promi", settings.promi, Defaults.promi)
      /\ AsCounted("burst", settings.burst, Defaults.burst)
      /\ AsTurned("wipro", settings.ranging, Defaults.ranging)
      /\ AsCounted("wipro_iters", settings.iters, Defaults.iters)
      /\ AsTurned("beacon", should, FALSE)
      /\ AsPaused("beacon", rate, DefaultRate)
  BY <1>1 DEF InForce, AsTurned, AsCounted, AsPaused
<1>4. /\ Turns("mute", settings.mute, settings'.mute)
      /\ Counts("interval", settings.interval, settings'.interval)
      /\ Turns("promi", settings.promi, settings'.promi)
      /\ Counts("burst", settings.burst, settings'.burst)
      /\ Turns("wipro", settings.ranging, settings'.ranging)
      /\ Counts("wipro_iters", settings.iters, settings'.iters)
      /\ Turns("beacon", should, should')
      /\ Pauses("beacon", rate, rate')
  BY <1>2 DEF StepTells
<1>5. AsSaid("mute", settings.mute, Defaults.mute, On)'
  <2>1. \/ Unsaid("mute")' /\ settings'.mute = Defaults.mute
        \/ \E n \in 1 .. LinesRead' :
             LastSaid(n, "mute")' /\ settings'.mute = On(typed'[n].command)
    BY <1>2, <1>3, <1>4, TurnsAsSaid
  <2>. QED BY <2>1, ZenonT(60) DEF AsSaid, On, Defaults, DefaultRate
<1>6. AsSaid("interval", settings.interval, Defaults.interval, Number)'
  <2>1. \/ Unsaid("interval")' /\ settings'.interval = Defaults.interval
        \/ \E n \in 1 .. LinesRead' :
             LastSaid(n, "interval")' /\ settings'.interval = Number(typed'[n].command)
    BY <1>2, <1>3, <1>4, CountsAsSaid, SMTT(60)
  <2>. QED BY <2>1 DEF AsSaid, Number, Defaults, DefaultRate
<1>7. AsSaid("promi", settings.promi, Defaults.promi, On)'
  <2>1. \/ Unsaid("promi")' /\ settings'.promi = Defaults.promi
        \/ \E n \in 1 .. LinesRead' :
             LastSaid(n, "promi")' /\ settings'.promi = On(typed'[n].command)
    BY <1>2, <1>3, <1>4, TurnsAsSaid
  <2>. QED BY <2>1, ZenonT(60) DEF AsSaid, On, Defaults, DefaultRate
<1>8. AsSaid("burst", settings.burst, Defaults.burst, Number)'
  <2>1. \/ Unsaid("burst")' /\ settings'.burst = Defaults.burst
        \/ \E n \in 1 .. LinesRead' :
             LastSaid(n, "burst")' /\ settings'.burst = Number(typed'[n].command)
    BY <1>2, <1>3, <1>4, CountsAsSaid, SMTT(60)
  <2>. QED BY <2>1 DEF AsSaid, Number, Defaults, DefaultRate
<1>9. AsSaid("wipro", settings.ranging, Defaults.ranging, On)'
  <2>1. \/ Unsaid("wipro")' /\ settings'.ranging = Defaults.ranging
        \/ \E n \in 1 .. LinesRead' :
             LastSaid(n, "wipro")' /\ settings'.ranging = On(typed'[n].command)
    BY <1>2, <1>3, <1>4, TurnsAsSaid
  <2>. QED BY <2>1, ZenonT(60) DEF AsSaid, On, Defaults, DefaultRate
<1>10. AsSaid("wipro_iters", settings.iters, Defaults.iters, Number)'
  <2>1. \/ Unsaid("wipro_iters")' /\ settings'.iters = Defaults.iters
        \/ \E n \in 1 .. LinesRead' :
             LastSaid(n, "wipro_iters")' /\ settings'.iters = Number(typed'[n].command)
    BY <1>2, <1>3, <1>4, CountsAsSaid
  <2>. QED BY <2>1 DEF AsSaid, Number, Defaults, DefaultRate
<1>11. AsSaid("beacon", should, FALSE, On)'
  <2>1. ASSUME NEW name, NEW value, NEW default, NEW after,
               Turns(name, value, after), AsTurned(name, value, default)
        PROVE  \/ Unsaid(name)' /\ after = default
               \/ \E n \in 1 .. LinesRead' : LastSaid(n, name)' /\ after = On(typed'[n].command)
    BY <1>2, <2>1, TurnsAsSaid
  <2>2. ASSUME NEW default, default = FALSE, NEW after, after = should'
        PROVE  \/ Unsaid("beacon")' /\ after = default
               \/ \E n \in 1 .. LinesRead' :
                    LastSaid(n, "beacon")' /\ after = On(typed'[n].command)
    <3>1. Turns("beacon", should, after)
      BY <1>4, <2>2, Zenon
    <3>2. AsTurned("beacon", should, default)
      BY <1>3, <2>2, Zenon
    <3>. QED BY <2>1, <3>1, <3>2
  <2>. QED BY <2>2, Zenon DEF AsSaid
<1>12. AsSaid("beacon", rate, DefaultRate, Pause)'
  <2>1. \/ Unsaid("beacon")' /\ rate' = DefaultRate
        \/ \E n \in 1 .. LinesRead' :
             LastSaid(n, "beacon")' /\ rate' = Pause(typed'[n].command)
    BY <1>2, <1>3, <1>4, PausesAsSaid
  <2>. QED BY <2>1 DEF AsSaid, Pause, Defaults, DefaultRate
<1>. QED BY <1>5, <1>6, <1>7, <1>8, <1>9, <1>10, <1>11, <1>12 DEF InForce

(* While every line has decoded, the settings in force are those the lines   *)
(* read have asked for (console.rs:50-251).                                  *)
THEOREM SettingsInForce == ConsoleSpec => []InForce
<1>1. ConsoleInit => InForce
  <2> SUFFICES ASSUME ConsoleInit PROVE InForce
    OBVIOUS
  <2>1. typed = <<>> /\ unread = <<>> /\ settings = Defaults /\ should = FALSE /\ rate = DefaultRate
    BY DEF ConsoleInit, Init
  <2>2. LinesRead = 0 /\ 1 .. 0 = {}
    BY <2>1 DEF LinesRead
  <2>3. \A name : Unsaid(name)
    BY <2>2 DEF Unsaid
  <2>. QED BY <2>1, <2>3 DEF InForce, AsSaid
<1>. QED BY <1>1, LinesInvariant, StepInForce, PTL DEF ConsoleSpec
=============================================================================
