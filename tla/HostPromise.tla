---------------------------- MODULE HostPromise ----------------------------
(* What the host's programs promise, whatever channels fill and whatever     *)
(* breaks between them: the server's files hold each board's events from the *)
(* first on, subscribers are shown the files' events in their order, with    *)
(* gaps at most, and a board is given the commands meant for it from the     *)
(* first on, so that a lost one is the last it would have been given.        *)
(* HostNet implements it.                                                    *)
EXTENDS Naturals, Sequences

CONSTANTS Controllers,  \* each with its board
          Numbers       \* the numbers of the commands typed

VARIABLES read,       \* [c]: number of events the board has reported
          recorded,   \* the events in the server's files
          published,  \* the events shown to the subscribers
          sentTo,     \* [c]: commands the server has sent to the board
          written     \* [c]: commands the board has been given

promiseVars == <<read, recorded, published, sentTo, written>>

Init ==
  /\ read = [c \in Controllers |-> 0]
  /\ recorded = <<>> /\ published = <<>>
  /\ sentTo = [c \in Controllers |-> <<>>] /\ written = [c \in Controllers |-> <<>>]

Reports(c) ==
  /\ read' = [read EXCEPT ![c] = @ + 1]
  /\ UNCHANGED <<recorded, published, sentTo, written>>

RecordedOf(c) == {recorded[i].n : i \in {j \in DOMAIN recorded : recorded[j].from = c}}

(* The first event of the board that the files do not hold yet. *)
Records(c) ==
  \E n \in 1 .. read[c] :
    /\ n \notin RecordedOf(c) /\ 1 .. n - 1 \subseteq RecordedOf(c)
    /\ recorded' = Append(recorded, [from |-> c, n |-> n])
    /\ UNCHANGED <<read, published, sentTo, written>>

(* An event that stands in the files behind all that were shown. *)
Shows ==
  \E i \in DOMAIN recorded :
    /\ \A j \in i .. Len(recorded), k \in DOMAIN published : published[k] # recorded[j]
    /\ published' = Append(published, recorded[i])
    /\ UNCHANGED <<read, recorded, sentTo, written>>

(* Commands are numbered as they are typed. *)
Orders(c) ==
  \E n \in Numbers :
    /\ \A i \in DOMAIN sentTo[c] : sentTo[c][i] < n
    /\ sentTo' = [sentTo EXCEPT ![c] = Append(@, n)]
    /\ UNCHANGED <<read, recorded, published, written>>

Gives(c) ==
  /\ Len(written[c]) < Len(sentTo[c])
  /\ written' = [written EXCEPT ![c] = Append(@, sentTo[c][Len(@) + 1])]
  /\ UNCHANGED <<read, recorded, published, sentTo>>

Next ==
  \/ \E c \in Controllers : Reports(c) \/ Records(c) \/ Orders(c) \/ Gives(c)
  \/ Shows

Spec == Init /\ [][Next]_promiseVars
=============================================================================
