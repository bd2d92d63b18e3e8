---------------------------- MODULE FtmExchange ----------------------------
(* What a device promises about fine-timing exchanges, whatever the buffers, *)
(* threads and callbacks behind it: at most one exchange is outstanding, it  *)
(* is answered or given up, and the record printed for it names the peer     *)
(* that was asked and carries CSI of that peer only.  FtmSession implements  *)
(* this specification.                                                       *)
CONSTANTS Peers,  \* the stations that can be asked for an exchange
          None    \* absence of a peer or of a record

VARIABLES current,  \* the peer of the outstanding exchange, or None
          printed   \* the last FTM record printed on the console, or None

vars == <<current, printed>>

Records == [peer : Peers, senders : SUBSET Peers]

Init == current = None /\ printed = None

Request(p) ==
  /\ current = None
  /\ current' = p
  /\ UNCHANGED printed

Answer ==
  /\ current # None
  /\ \E senders \in SUBSET {current} :
       printed' = [peer |-> current, senders |-> senders]
  /\ current' = None

GiveUp ==
  /\ current # None
  /\ current' = None
  /\ UNCHANGED printed

Next == \/ \E p \in Peers : Request(p)
        \/ Answer
        \/ GiveUp

Safety == Init /\ [][Next]_vars
Spec == Safety /\ WF_vars(Answer \/ GiveUp)
=============================================================================
