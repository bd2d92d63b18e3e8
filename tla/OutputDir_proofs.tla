--------------------------- MODULE OutputDir_proofs ---------------------------
(* When a log is safe, for any number of programs and any span of time.      *)
EXTENDS OutputDir, TLAPS

(* The shape of the state; files are created only in directories that are    *)
(* there (config.rs:69, 181, esp_io.rs:30-44).                               *)
Dirs == {Given} \cup {LogOf(s) : s \in Nat}

TypeOK ==
  /\ now \in Nat
  /\ step \in [Programs -> {"look", "stamp", "make", "open", "logging"}]
  /\ chosen \in [Programs -> Dirs] /\ dirs \subseteq Dirs
  /\ \A p \in Settled : {Given, chosen[p]} \subseteq dirs
  /\ DOMAIN logs \subseteq dirs
  /\ \A d \in DOMAIN logs : logs[d] \in Programs
  /\ \A p \in Programs : step[p] = "logging" => chosen[p] \in DOMAIN logs
  /\ began \in [Programs -> Nat] /\ before \in [Programs -> SUBSET Programs]

(* What is left of README.md:83 when NoLogOverwritten fails: a log is lost   *)
(* only to a program that looked before the owner's directory was made, or in*)
(* the very second the directory is named by; whoever starts later truncates *)
(* nothing, however many start and however their calls interleave            *)
(* (config.rs:58-69, 171-181).                                               *)
LostOnlyToContemporary ==
  \A p \in Programs : step[p] = "logging" /\ logs[chosen[p]] # p =>
    \E q \in Programs :
      /\ logs[chosen[p]] = q
      /\ p \notin before[q] \/ chosen[p] = LogOf(began[q])

-----------------------------------------------------------------------------
(* The path itself is not one of its subdirectories, and seconds name them   *)
(* apart.                                                                    *)
LEMMA DirsApart ==
  /\ Given \in Dirs /\ \A s \in Nat : LogOf(s) \in Dirs /\ LogOf(s) # Given
  /\ \A s, t \in Nat : LogOf(s) = LogOf(t) => s = t
BY DEF LogOf, Given, Dirs

(* Nothing but the shape and that directories exist before files do.         *)
LEMMA StepTyped == TypeOK /\ [Next]_vars => TypeOK'
<1> SUFFICES ASSUME TypeOK, [Next]_vars PROVE TypeOK'
  OBVIOUS
<1> USE DEF TypeOK, Goes, Settled, Begins, history
<1>1. ASSUME NEW p \in Programs, FindsPath(p) PROVE TypeOK'
  BY <1>1 DEF FindsPath
<1>2. ASSUME NEW p \in Programs, FindsNothing(p) PROVE TypeOK'
  BY <1>2, DirsApart DEF FindsNothing
<1>3. ASSUME NEW p \in Programs, Stamps(p) PROVE TypeOK'
  BY <1>3, DirsApart DEF Stamps
<1>4. ASSUME NEW p \in Programs, MakesDir(p) PROVE TypeOK'
  BY <1>4, DirsApart DEF MakesDir
<1>5. ASSUME NEW p \in Programs, OpensFiles(p) PROVE TypeOK'
  BY <1>5 DEF OpensFiles
<1>6. CASE Tick
  BY <1>6 DEF Tick
<1>7. CASE UNCHANGED vars
  BY <1>7 DEF vars
<1>. QED BY <1>1, <1>2, <1>3, <1>4, <1>5, <1>6, <1>7 DEF Next

THEOREM DirsTyped == Spec => []TypeOK
<1>1. Init => TypeOK
  BY DirsApart DEF Init, TypeOK, Settled
<1>. QED BY <1>1, StepTyped, PTL DEF Spec

-----------------------------------------------------------------------------
(* Why a later start is harmless: whoever looks once a directory has been    *)
(* made finds the path, so it takes a subdirectory, named by a second no     *)
(* earlier than the one it looked in, while those made by then are named by  *)
(* seconds no later.                                                         *)
NamedBy(p, S) == \A s \in Nat : chosen[p] = LogOf(s) => s \in S

DirInv ==
  /\ \A p \in Programs :
       /\ began[p] <= now
       /\ step[p] \in {"make", "open", "logging"} => NamedBy(p, began[p] .. now)
       /\ step[p] = "look" => before[p] = {}
  /\ \A q \in Programs : \A p \in before[q] :
       /\ p \in Settled /\ NamedBy(p, 0 .. began[q])
       /\ step[q] \in {"make", "open", "logging"} => chosen[q] # Given
  /\ \A p \in Programs : step[p] = "logging" =>
       /\ logs[chosen[p]] \in Programs
       /\ step[logs[chosen[p]]] = "logging" /\ chosen[logs[chosen[p]]] = chosen[p]

LEMMA DirInitially == Init => DirInv
BY DirsApart DEF Init, DirInv, NamedBy, Settled

(* A step that leaves the directories chosen and the files alone, and in     *)
(* which nobody looks.                                                       *)
LEMMA LookIn ==
  ASSUME TypeOK, DirInv, NEW p \in Programs, Goes(p, "look", step'[p]), Begins(p),
         step'[p] \in {"stamp", "make"}, UNCHANGED <<now, logs>>,
         \A q \in Programs \ {p} : chosen'[q] = chosen[q],
         step'[p] = "make" => chosen'[p] = Given /\ Settled = {}
  PROVE  DirInv'
<1>1. /\ step' = [step EXCEPT ![p] = step'[p]] /\ step[p] = "look"
      /\ step'[p] \notin {"look", "open", "logging"}
  BY DEF Goes
<1>2. /\ \A q \in Programs \ {p} : step'[q] = step[q] /\ chosen'[q] = chosen[q]
                                   /\ began'[q] = began[q] /\ before'[q] = before[q]
      /\ began'[p] = now /\ before'[p] = Settled
  BY <1>1 DEF TypeOK, Begins
<1>3. Settled' = Settled /\ p \notin Settled /\ Settled \subseteq Programs
  BY <1>1, <1>2 DEF Settled
<1>4. ASSUME NEW q \in Programs
      PROVE  /\ began'[q] <= now'
             /\ step'[q] \in {"make", "open", "logging"} => NamedBy(q, began[q] .. now)'
             /\ step'[q] = "look" => before'[q] = {}
  <2>1. CASE q = p
    BY <1>1, <1>2, <2>1, DirsApart DEF NamedBy, TypeOK
  <2>2. CASE q # p
    BY <1>2, <2>2 DEF DirInv, NamedBy
  <2>. QED BY <2>1, <2>2
<1>5. ASSUME NEW q \in Programs, NEW r \in before'[q]
      PROVE  /\ r \in Settled' /\ NamedBy(r, 0 .. began[q])'
             /\ step'[q] \in {"make", "open", "logging"} => chosen'[q] # Given
  <2>1. CASE q = p
    <3>1. r \in Settled /\ r \in Programs \ {p}
      BY <1>2, <1>3, <1>5, <2>1
    <3>2. NamedBy(r, began[r] .. now) /\ began[r] \in Nat
      BY <3>1 DEF DirInv, Settled, TypeOK
    <3>3. NamedBy(r, 0 .. now)
      BY <3>2 DEF NamedBy, TypeOK
    <3>4. chosen'[r] = chosen[r] /\ began'[q] = now
      BY <1>2, <2>1, <3>1
    <3>5. step'[p] # "make"
      BY <3>1
    <3>. QED BY <1>1, <1>3, <2>1, <3>1, <3>3, <3>4, <3>5 DEF NamedBy
  <2>2. CASE q # p
    <3>1. r \in before[q]
      BY <1>2, <1>5, <2>2
    <3>2. r \in Programs \ {p}
      BY <1>3, <3>1 DEF DirInv
    <3>. QED BY <1>2, <1>3, <2>2, <3>1, <3>2 DEF DirInv, NamedBy
  <2>. QED BY <2>1, <2>2
<1>6. ASSUME NEW q \in Programs, step'[q] = "logging"
      PROVE  /\ logs'[chosen'[q]] \in Programs
             /\ step'[logs'[chosen'[q]]] = "logging"
             /\ chosen'[logs'[chosen'[q]]] = chosen'[q]
  <2>1. q # p /\ step[q] = "logging" /\ chosen'[q] = chosen[q]
    BY <1>1, <1>2, <1>6
  <2>2. /\ logs[chosen[q]] \in Programs \ {p} /\ step[logs[chosen[q]]] = "logging"
        /\ chosen[logs[chosen[q]]] = chosen[q]
    BY <1>1, <2>1 DEF DirInv
  <2>. QED BY <1>2, <2>1, <2>2
<1>. QED BY <1>4, <1>5, <1>6 DEF DirInv

LEMMA StampsIn ==
  ASSUME TypeOK, DirInv, NEW p \in Programs, Stamps(p)
  PROVE  DirInv'
<1>1. /\ step' = [step EXCEPT ![p] = "make"] /\ step[p] = "stamp"
      /\ chosen' = [chosen EXCEPT ![p] = LogOf(now)]
      /\ UNCHANGED <<now, dirs, logs, began, before>>
  BY DEF Stamps, Goes, history
<1>2. /\ \A q \in Programs \ {p} : step'[q] = step[q] /\ chosen'[q] = chosen[q]
      /\ step'[p] = "make" /\ chosen'[p] = LogOf(now) /\ now \in Nat
  BY <1>1 DEF TypeOK
<1>3. Settled' = Settled /\ p \notin Settled
  BY <1>1, <1>2 DEF Settled
<1>4. ASSUME NEW q \in Programs
      PROVE  /\ began'[q] <= now'
             /\ step'[q] \in {"make", "open", "logging"} => NamedBy(q, began[q] .. now)'
             /\ step'[q] = "look" => before'[q] = {}
  <2>1. CASE q = p
    <3>1. \A s \in Nat : chosen'[p] = LogOf(s) => s = now
      BY <1>2, DirsApart
    <3>2. began[p] <= now /\ began[p] \in Nat /\ now \in Nat
      BY DEF DirInv, TypeOK
    <3>. QED BY <1>1, <1>2, <2>1, <3>1, <3>2 DEF NamedBy
  <2>2. CASE q # p
    BY <1>1, <1>2, <2>2 DEF DirInv, NamedBy
  <2>. QED BY <2>1, <2>2
<1>5. ASSUME NEW q \in Programs, NEW r \in before'[q]
      PROVE  /\ r \in Settled' /\ NamedBy(r, 0 .. began[q])'
             /\ step'[q] \in {"make", "open", "logging"} => chosen'[q] # Given
  <2>1. r \in before[q] /\ r \in Settled /\ r \in Programs \ {p}
    BY <1>1, <1>3, <1>5 DEF DirInv, Settled
  <2>2. NamedBy(r, 0 .. began[q])'
    BY <1>1, <1>2, <2>1 DEF DirInv, NamedBy
  <2>3. step'[q] \in {"make", "open", "logging"} => chosen'[q] # Given
    BY <1>2, <2>1, DirsApart DEF DirInv
  <2>. QED BY <1>3, <2>1, <2>2, <2>3
<1>6. ASSUME NEW q \in Programs, step'[q] = "logging"
      PROVE  /\ logs'[chosen'[q]] \in Programs
             /\ step'[logs'[chosen'[q]]] = "logging"
             /\ chosen'[logs'[chosen'[q]]] = chosen'[q]
  <2>1. q # p /\ step[q] = "logging" /\ chosen'[q] = chosen[q]
    BY <1>2, <1>6
  <2>2. /\ logs[chosen[q]] \in Programs \ {p} /\ step[logs[chosen[q]]] = "logging"
        /\ chosen[logs[chosen[q]]] = chosen[q]
    BY <1>1, <2>1 DEF DirInv
  <2>. QED BY <1>1, <1>2, <2>1, <2>2
<1>. QED BY <1>4, <1>5, <1>6 DEF DirInv

(* Making a directory and creating the files in it: the chosen directories   *)
(* stay, and whoever creates files last has the directory's.                 *)
LEMMA GoesOn ==
  ASSUME TypeOK, DirInv, NEW p \in Programs, MakesDir(p) \/ OpensFiles(p)
  PROVE  DirInv'
<1>1. /\ UNCHANGED <<now, chosen, began, before>>
      /\ step[p] \in {"make", "open"} /\ step'[p] \in {"open", "logging"}
      /\ \A q \in Programs \ {p} : step'[q] = step[q]
  BY DEF MakesDir, OpensFiles, Goes, TypeOK, history
<1>2. Settled \subseteq Settled'
  BY <1>1 DEF Settled
<1>3. ASSUME NEW q \in Programs
      PROVE  /\ began'[q] <= now'
             /\ step'[q] \in {"make", "open", "logging"} => NamedBy(q, began[q] .. now)'
             /\ step'[q] = "look" => before'[q] = {}
  BY <1>1 DEF DirInv, NamedBy
<1>4. ASSUME NEW q \in Programs, NEW r \in before'[q]
      PROVE  /\ r \in Settled' /\ NamedBy(r, 0 .. began[q])'
             /\ step'[q] \in {"make", "open", "logging"} => chosen'[q] # Given
  BY <1>1, <1>2, <1>4 DEF DirInv, NamedBy
<1>5. ASSUME NEW q \in Programs, step'[q] = "logging"
      PROVE  /\ logs'[chosen'[q]] \in Programs
             /\ step'[logs'[chosen'[q]]] = "logging"
             /\ chosen'[logs'[chosen'[q]]] = chosen'[q]
  <2>1. CASE MakesDir(p)
    <3>1. UNCHANGED logs /\ step' = [step EXCEPT ![p] = "open"] /\ step[p] = "make"
      BY <2>1 DEF MakesDir, Goes
    <3>2. q # p /\ step[q] = "logging"
      BY <1>5, <3>1 DEF TypeOK
    <3>3. /\ logs[chosen[q]] \in Programs \ {p} /\ step[logs[chosen[q]]] = "logging"
          /\ chosen[logs[chosen[q]]] = chosen[q]
      BY <3>1, <3>2 DEF DirInv
    <3>. QED BY <1>1, <3>1, <3>3
  <2>2. CASE OpensFiles(p)
    <3>1. /\ chosen[p] \in DOMAIN logs' /\ logs'[chosen[p]] = p
          /\ \A d \in DOMAIN logs : d # chosen[p] => logs'[d] = logs[d]
          /\ step[p] = "open" /\ step'[p] = "logging"
      BY <2>2 DEF OpensFiles, Goes, TypeOK
    <3>2. CASE chosen[q] = chosen[p]
      <4>1. logs'[chosen[q]] = p
        BY <3>1, <3>2
      <4>. QED BY <1>1, <3>1, <3>2, <4>1
    <3>3. CASE chosen[q] # chosen[p]
      <4>1. q # p /\ step[q] = "logging"
        BY <1>1, <1>5, <3>3
      <4>2. logs'[chosen[q]] = logs[chosen[q]]
        BY <1>1, <3>1, <3>3, <4>1 DEF TypeOK
      <4>3. /\ logs[chosen[q]] \in Programs \ {p} /\ step[logs[chosen[q]]] = "logging"
            /\ chosen[logs[chosen[q]]] = chosen[q]
        BY <3>1, <4>1 DEF DirInv
      <4>. QED BY <1>1, <4>2, <4>3
    <3>. QED BY <3>2, <3>3
  <2>. QED BY <2>1, <2>2
<1>. QED BY <1>3, <1>4, <1>5 DEF DirInv

LEMMA DirPreserved == TypeOK /\ DirInv /\ [Next]_vars => DirInv'
<1> SUFFICES ASSUME TypeOK, DirInv, [Next]_vars PROVE DirInv'
  OBVIOUS
<1>1. ASSUME NEW p \in Programs, FindsPath(p) PROVE DirInv'
  <2>1. /\ step'[p] = "stamp" /\ Goes(p, "look", step'[p]) /\ Begins(p)
        /\ UNCHANGED <<now, logs, chosen>>
    BY <1>1 DEF FindsPath, Goes, TypeOK
  <2>. QED BY <2>1, LookIn
<1>2. ASSUME NEW p \in Programs, FindsNothing(p) PROVE DirInv'
  <2>1. /\ step'[p] = "make" /\ Goes(p, "look", step'[p]) /\ Begins(p)
        /\ UNCHANGED <<now, logs>> /\ chosen'[p] = Given
        /\ \A q \in Programs \ {p} : chosen'[q] = chosen[q]
    BY <1>2 DEF FindsNothing, Goes, TypeOK
  <2>2. Settled = {}
    BY <1>2 DEF FindsNothing, TypeOK, Settled
  <2>. QED BY <2>1, <2>2, LookIn
<1>3. ASSUME NEW p \in Programs, Stamps(p) PROVE DirInv'
  BY <1>3, StampsIn
<1>4. ASSUME NEW p \in Programs, MakesDir(p) \/ OpensFiles(p) PROVE DirInv'
  BY <1>4, GoesOn
<1>5. CASE Tick
  <2>1. now \in Nat /\ now' = now + 1 /\ UNCHANGED <<step, chosen, logs, began, before>>
    BY <1>5 DEF Tick, TypeOK, history
  <2>2. \A p \in Programs : began[p] \in Nat /\ began[p] <= now
    BY DEF TypeOK, DirInv
  <2>3. \A p \in Programs : began[p] <= now' /\ began[p] .. now \subseteq began[p] .. now'
    BY <2>1, <2>2
  <2>. QED BY <2>1, <2>3 DEF DirInv, NamedBy, Settled
<1>6. CASE UNCHANGED vars
  BY <1>6 DEF vars, history, DirInv, NamedBy, Settled
<1>. QED BY <1>1, <1>2, <1>3, <1>4, <1>5, <1>6 DEF Next

LEMMA DirHolds == Spec => []DirInv
BY DirInitially, DirPreserved, DirsTyped, PTL DEF Spec

(* However many programs share a path and however their calls interleave, a  *)
(* log is lost only to one that looked before its owner's directory was made,*)
(* or in the second the directory is named by.                               *)
THEOREM LaterStartsHarmless == Spec => []LostOnlyToContemporary
<1>1. ASSUME TypeOK, DirInv PROVE LostOnlyToContemporary
  <2>1. SUFFICES ASSUME NEW p \in Programs, step[p] = "logging"
                 PROVE  LET q == logs[chosen[p]]
                        IN  q \in Programs /\ (p \notin before[q] \/ chosen[p] = LogOf(began[q]))
    BY DEF LostOnlyToContemporary
  <2> DEFINE q == logs[chosen[p]]
  <2>2. q \in Programs /\ step[q] = "logging" /\ chosen[q] = chosen[p]
    BY <1>1, <2>1 DEF DirInv
  <2> HIDE DEF q
  <2>3. ASSUME p \in before[q] PROVE chosen[p] = LogOf(began[q])
    <3>1. /\ chosen[q] # Given /\ chosen[q] \in Dirs
          /\ NamedBy(p, 0 .. began[q]) /\ NamedBy(q, began[q] .. now)
      BY <1>1, <2>2, <2>3 DEF DirInv, TypeOK
    <3>2. PICK s \in Nat : chosen[q] = LogOf(s)
      BY <3>1 DEF Dirs
    <3>3. s \in 0 .. began[q] /\ s \in began[q] .. now /\ began[q] \in Nat
      BY <1>1, <2>2, <3>1, <3>2 DEF NamedBy, TypeOK
    <3>4. s = began[q]
      BY <3>3
    <3>. QED BY <2>2, <3>2, <3>4
  <2>. QED BY <2>2, <2>3 DEF q
<1>. QED BY <1>1, DirsTyped, DirHolds, PTL
=============================================================================
