----------------------------- MODULE PeerContact -----------------------------
(* Who is ranged with, and when: PEER_LIST (firmware/src/peers.rs) and the   *)
(* tasks that share it, contact_loop and ftm_notification_task (ftm.rs),     *)
(* scan_task (scan.rs) and the ESP-NOW receive callback (espnow.rs).         *)
(*                                                                           *)
(* All tasks run on one cooperative executor and yield only at a timer, an   *)
(* empty channel or the radio's signal, so each stretch between two yields   *)
(* is one action, run at any moment from its deadline on.  A scan blocks     *)
(* the executor while it lasts; the ESP-NOW callback runs on another thread. *)
(* One exchange is FtmSession's business; here it ends, some time later.     *)
(* The console may set mute and interval between any two looks of the        *)
(* contact loop, their only reader: each look draws them anew.               *)
EXTENDS Integers, Sequences, FiniteSets, FiniteSetsExt

CONSTANTS Peers,         \* the other boards, by BSSID
          MaxPeers,      \* capacity of PEER_LIST (64)
          MaxAps,        \* records kept of a scan (32)
          SeqMod,        \* sequence numbers wrap here (2^32)
          NotifyCap,     \* capacity of FTM_NOTIFY_CHANNEL (8)
          StartDelay,    \* first look of the contact loop (5 s)
          MinGap,        \* shortest pause between exchanges (300 ms)
          MaxSleep,      \* longest pause of the contact loop (1 s)
          StaleAge,      \* age at which a peer is forgotten (60 s)
          RescanEmpty,   \* pause between scans without peers (5 s)
          Rescan,        \* and with peers (600 s)
          Intervals,     \* values of contact_interval_ms
          Seqs,          \* sequence numbers other boards announce
          Horizon        \* bound on the clock

ASSUME CapsArePositive ==
  /\ MaxPeers \in Nat /\ MaxAps \in Nat /\ SeqMod \in Nat \ {0}
  /\ NotifyCap \in Nat /\ Horizon \in Nat
ASSUME TimesAreOrdered ==
  /\ StartDelay \in Nat /\ MinGap \in Nat \ {0} /\ MaxSleep \in Nat
  /\ MinGap <= MaxSleep /\ MinGap <= StartDelay
  /\ StaleAge \in Nat /\ RescanEmpty \in Nat /\ Rescan \in Nat
(* console.rs:120 accepts no interval of 0. *)
ASSUME IntervalsArePositive == Intervals \subseteq Nat \ {0}
ASSUME SeqsAreNumbers == Seqs \subseteq 0 .. SeqMod - 1
ASSUME PeersAreFinite == IsFiniteSet(Peers)

VARIABLES now,       \* Instant::now(), since boot
          peers,     \* PEER_LIST: the entry of each listed peer
          contact,   \* contact_loop: asleep, or in an exchange
          executor,  \* "free", or "scan" while a scan blocks it
          scanAt,    \* when scan_task wakes
          notifyQ,   \* FTM_NOTIFY_CHANNEL
          overtook   \* [p][q]: contacts of q while p was due and waiting

vars == <<now, peers, contact, executor, scanAt, notifyQ, overtook>>

Listed == DOMAIN peers

SeqNumbers == 0 .. SeqMod - 1

(* `rank` is the entry's place in the list.  `listed`: the peer has been  *)
(* listed without a break since the exchange with it began.  `after`: what   *)
(* the loop did before it fell asleep.                                       *)
Entries == [next : Nat, seq : SeqNumbers, seen : Nat, rank : Nat]
Packets == [peer : Peers, seq : Seqs]
Sleeping == [pc : {"sleep"}, until : Nat,
             after : {"look", "failed", "notified", "unlisted"}]
Ranging == [pc : {"ftm"}, peer : Peers, seq : SeqNumbers, listed : BOOLEAN]
Never == [p \in Peers |-> [q \in Peers |-> 0]]

-----------------------------------------------------------------------------
(* PEER_LIST *)

AddOrUpdate_BugReplaces(found, added, seq, rank) ==
  [p \in Listed \cup added |->
     IF p \in added THEN [next |-> now, seq |-> seq, seen |-> now, rank |-> rank[p]]
     ELSE IF p \in found
     THEN [next |-> now, seq |-> seq, seen |-> now, rank |-> peers[p].rank]
     ELSE peers[p]]

(* add_or_update, for each of `found`: a listed peer has only its contact    *)
(* stats replaced, one of `added` is appended.                               *)
AddOrUpdate(found, added, seq, rank) ==
  [p \in Listed \cup added |->
     IF p \in added THEN [next |-> now, seq |-> seq, seen |-> now, rank |-> rank[p]]
     ELSE IF p \in found THEN [peers[p] EXCEPT !.seen = now]
     ELSE peers[p]]

Room_BugOneMore == MaxPeers - Cardinality(Listed) + 1

Room == MaxPeers - Cardinality(Listed)

(* The places of appended peers: after all listed ones, each its own. *)
Ranks(added) ==
  LET last == Cardinality(Listed)
  IN  {rank \in [added -> last + 1 .. last + Cardinality(added)] :
         \A p, q \in added : p # q => rank[p] # rank[q]}

Fresh_BugAtCutoff(list) ==
  {p \in DOMAIN list : now >= StaleAge => list[p].seen > now - StaleAge}

(* remove_stale: nothing is stale before the board is StaleAge old. *)
Fresh(list) ==
  {p \in DOMAIN list : now >= StaleAge => list[p].seen >= now - StaleAge}

(* Vec::retain closes the gaps and keeps the order. *)
Retain(list, kept) ==
  LET upTo(p) == {q \in kept : list[q].rank <= list[p].rank}
  IN  [p \in kept |-> [list[p] EXCEPT !.rank = Cardinality(upTo(p))]]

-----------------------------------------------------------------------------
(* contact_loop *)

Due == {p \in Listed : now >= peers[p].next}

Before_BugByRank(p, q) == peers[p].rank <= peers[q].rank

(* p is contacted before q: longer overdue, or listed first. *)
Before(p, q) ==
  \/ peers[p].next < peers[q].next
  \/ peers[p].next = peers[q].next /\ peers[p].rank <= peers[q].rank

MostOverdue(p) == p \in Due /\ \A q \in Due : Before(p, q)

Asleep(pause, after) == [pc |-> "sleep", until |-> now + pause, after |-> after]

(* t_to_next with nobody due: until the next peer is, at most MaxSleep and   *)
(* at least MinGap.                                                          *)
IdlePause_BugIgnoresPeers == MaxSleep

IdlePause ==
  Max({MinGap, Min({MaxSleep} \cup {peers[p].next - now + 1 : p \in Listed})})

(* After a contact t_to_next is 1 ms, raised to MinGap. *)
BusyPause == Max({MinGap, 1})

Looks == executor = "free" /\ contact.pc = "sleep" /\ now >= contact.until

ContactIdle ==
  /\ Looks
  /\ Due = {}
  /\ contact' = Asleep(IdlePause, "look")
  /\ UNCHANGED <<now, peers, executor, scanAt, notifyQ, overtook>>

Overtakes(p) ==
  overtook' = [q \in Peers |->
                 IF q = p THEN Never[p]
                 ELSE IF q \in Due THEN [overtook[q] EXCEPT ![p] = @ + 1]
                 ELSE overtook[q]]

(* mute and interval as they are at this look. *)
ContactPeer(p, muted, interval) ==
  /\ Looks
  /\ MostOverdue(p)
  /\ peers' = [peers EXCEPT ![p].next = now + interval,
                            ![p].seq = IF muted THEN @ ELSE (@ + 1) % SeqMod]
  /\ Overtakes(p)
  /\ UNCHANGED <<now, executor, scanAt, notifyQ>>

(* Nothing is sent: the loop is muted, or initiate_ftm fails at once. *)
ContactSkips(p, muted, interval) ==
  /\ ContactPeer(p, muted, interval)
  /\ contact' = Asleep(BusyPause, "look")

(* initiate_ftm suspends until the radio has reported. *)
ContactStarts(p, interval) ==
  /\ ContactPeer(p, FALSE, interval)
  /\ contact' = [pc |-> "ftm", peer |-> p, seq |-> (peers[p].seq + 1) % SeqMod,
                 listed |-> TRUE]

ContactEnds(after) ==
  /\ executor = "free" /\ contact.pc = "ftm"
  /\ contact' = Asleep(BusyPause, after)
  /\ UNCHANGED <<now, peers, executor, scanAt, notifyQ, overtook>>

(* The exchange gave no report. *)
ContactFails == ContactEnds("failed")

(* The peer is looked up again after the exchange, and notified with the     *)
(* sequence number its entry has by then.                                    *)
NotifiedSeq == peers[contact.peer].seq

ContactNotifies == ContactEnds("notified") /\ contact.peer \in Listed

(* "FTM'd peer not in list!" *)
ContactUnlisted == ContactEnds("unlisted") /\ contact.peer \notin Listed

-----------------------------------------------------------------------------
(* ftm_notification_task and the ESP-NOW receive callback *)

EspNowRecv(p, s) ==
  /\ Len(notifyQ) < NotifyCap  \* try_send drops the packet otherwise
  /\ notifyQ' = Append(notifyQ, [peer |-> p, seq |-> s])
  /\ UNCHANGED <<now, peers, contact, executor, scanAt, overtook>>

Notified == executor = "free" /\ notifyQ # <<>>

NotifyAdds ==
  /\ Notified
  /\ LET packet == Head(notifyQ)
         added == {packet.peer} \ Listed
     IN  /\ Cardinality(added) <= Room
         /\ \E rank \in Ranks(added) :
              peers' = AddOrUpdate({packet.peer}, added, packet.seq, rank)
  /\ notifyQ' = Tail(notifyQ)
  /\ UNCHANGED <<now, contact, executor, scanAt, overtook>>

AtBoot ==
  [now |-> 0, peers |-> [p \in {} |-> 0],
   contact |-> [pc |-> "sleep", until |-> StartDelay, after |-> "look"],
   executor |-> "free", scanAt |-> 0, notifyQ |-> <<>>, overtook |-> Never]

(* add_or_update(..).unwrap() on a full list: the panic restarts the board.  *)
NotifyPanics ==
  /\ Notified
  /\ Head(notifyQ).peer \notin Listed /\ Room <= 0
  /\ now' = AtBoot.now /\ peers' = AtBoot.peers
  /\ contact' = AtBoot.contact /\ executor' = AtBoot.executor
  /\ scanAt' = AtBoot.scanAt /\ notifyQ' = AtBoot.notifyQ
  /\ overtook' = AtBoot.overtook

-----------------------------------------------------------------------------
(* scan_task *)

ScanStarts ==
  /\ executor = "free" /\ now >= scanAt
  /\ executor' = "scan"
  /\ UNCHANGED <<now, peers, contact, scanAt, notifyQ, overtook>>

ScanPause(list) == IF DOMAIN list = {} THEN RescanEmpty ELSE Rescan

(* The scan or the fetch of its records fails, or it heard no access point.  *)
ScanFails ==
  /\ executor = "scan" /\ executor' = "free"
  /\ scanAt' = now + ScanPause(peers)
  /\ UNCHANGED <<now, peers, contact, notifyQ, overtook>>

(* The boards of our prefix among the records: the new ones are appended in  *)
(* the order of the records while the list has room, then the stale ones go. *)
ScanFinds(found) ==
  /\ executor = "scan" /\ executor' = "free"
  /\ Cardinality(found) <= MaxAps
  /\ \E added \in SUBSET (found \ Listed) :
       /\ Cardinality(added) = Min({Room, Cardinality(found \ Listed)})
       /\ \E rank \in Ranks(added) :
            LET list == AddOrUpdate(found, added, 0, rank)
            IN  peers' = Retain(list, Fresh(list))
  /\ scanAt' = now + ScanPause(peers')
  /\ contact' = IF contact.pc = "ftm" /\ contact.peer \notin DOMAIN peers'
                THEN [contact EXCEPT !.listed = FALSE] ELSE contact
  /\ overtook' = [p \in Peers |-> IF p \in DOMAIN peers' THEN overtook[p] ELSE Never[p]]
  /\ UNCHANGED <<now, notifyQ>>

-----------------------------------------------------------------------------
Tick ==
  /\ now < Horizon
  /\ now' = now + 1
  /\ UNCHANGED <<peers, contact, executor, scanAt, notifyQ, overtook>>

Init ==
  /\ now = AtBoot.now /\ peers = AtBoot.peers
  /\ contact = AtBoot.contact /\ executor = AtBoot.executor
  /\ scanAt = AtBoot.scanAt /\ notifyQ = AtBoot.notifyQ
  /\ overtook = AtBoot.overtook

Next ==
  \/ ContactIdle
  \/ \E p \in Peers, i \in Intervals :
       \/ \E muted \in BOOLEAN : ContactSkips(p, muted, i)
       \/ ContactStarts(p, i)
  \/ ContactFails \/ ContactNotifies \/ ContactUnlisted
  \/ \E p \in Peers, s \in Seqs : EspNowRecv(p, s)
  \/ NotifyAdds \/ NotifyPanics
  \/ ScanStarts \/ ScanFails
  \/ \E found \in SUBSET Peers : ScanFinds(found)
  \/ Tick

Spec == Init /\ [][Next]_vars

-----------------------------------------------------------------------------
(* The shape of the state: the list and the channel keep within their        *)
(* capacities, and no two entries share a place (peers.rs:46, 65, ftm.rs:74).*)
TypeOK ==
  /\ now \in 0..Horizon
  /\ Listed \subseteq Peers /\ peers \in [Listed -> Entries]
  /\ Cardinality(Listed) <= MaxPeers
  /\ \A p \in Listed : peers[p].rank \in 1..Cardinality(Listed)
  /\ \A p, q \in Listed : p # q => peers[p].rank # peers[q].rank
  /\ contact \in Sleeping \cup Ranging
  /\ executor \in {"free", "scan"} /\ scanAt \in Nat
  /\ notifyQ \in Seq(Packets) /\ Len(notifyQ) <= NotifyCap
  /\ overtook \in [Peers -> [Peers -> Nat]]

(* No peer starves: while a listed peer is due and waits, any other one is   *)
(* contacted at most once, however often either is refreshed, removed and    *)
(* listed again (ftm.rs:240-273, peers.rs:54-67).                            *)
BoundedOvertaking == \A p, q \in Peers : overtook[p][q] <= 1

(* After every look and every exchange the loop pauses at least MinGap,      *)
(* "can't do FTMs faster than this" (ftm.rs:297-300), and otherwise does not *)
(* sleep past the moment the first listed peer becomes due (ftm.rs:236-258). *)
Punctual ==
  [][contact' # contact /\ contact'.pc = "sleep" /\ ~NotifyPanics =>
       /\ contact'.until >= now + MinGap
       /\ \A p \in Listed :
            contact'.until <= Max({now + MinGap, peers'[p].next + 1})]_vars

(* A notification carries the sequence number its exchange was begun with,   *)
(* whatever was heard of the peer meanwhile, unless the peer was dropped     *)
(* from the list and listed anew (ftm.rs:155-161, 276-278).                  *)
SyncNamesExchange ==
  [][ContactNotifies /\ contact.listed => NotifiedSeq = contact.seq]_vars

(* A peer leaves the list only when nothing was heard of it, by a scan or a  *)
(* notification, for longer than StaleAge (scan.rs:109-112, ftm.rs:326).     *)
OnlyStaleLeave ==
  [][\A p \in Listed : p \notin Listed' /\ ~NotifyPanics =>
       peers[p].seen + StaleAge < now]_vars

(* ftm.rs:163: "we FTM'ed a peer we don't know about? Shouldn't happen."     *)
RangedPeerIsListed == contact.pc = "sleep" => contact.after # "unlisted"

(* A full list is handled, "Peer list full, cannot add" (scan.rs:101-103);   *)
(* the board does not restart on it.                                         *)
NeverPanics == [][~NotifyPanics]_vars
=============================================================================
