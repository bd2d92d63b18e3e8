----------------------------- MODULE OutputDir -----------------------------
(* Where a controller or a server keeps its logs: Config::init and           *)
(* ServerConfig::init choose a directory and make it (controller/src/        *)
(* config.rs), connect_serial and run_server create their files in it, under *)
(* the same names (esp_io.rs, bin/server.rs).                                *)
(*                                                                           *)
(* Programs are started at any time with the same -o path; the calls to the  *)
(* file system and the clock are steps of their own.  The clock is not set   *)
(* back.  A directory stands for the five files in it.                       *)
EXTENDS Naturals

CONSTANTS Programs,    \* every start of a program with this path
          MaxSeconds   \* bound on the seconds they are started in

(* A directory is the seconds its name adds to the path. *)
Given == {}                 \* the path itself
LogOf(second) == {second}   \* its subdirectory "log<timestamp>"

VARIABLES now,     \* Utc::now(), to the second the name keeps
          step,    \* [p]: "look", "stamp", "make", "open" or "logging"
          chosen,  \* [p]: output_path_full, from "make" on
          dirs,    \* the directories that exist
          logs,    \* [d]: whose log the files of a directory are, where there are any
          began,   \* history [p]: the second it looked in
          before   \* history [p]: who had a directory by then

history == <<began, before>>
vars == <<now, step, chosen, dirs, logs, history>>

Goes(p, from, to) == step[p] = from /\ step' = [step EXCEPT ![p] = to]

Settled == {p \in Programs : step[p] \in {"open", "logging"}}

Begins(p) ==
  /\ began' = [began EXCEPT ![p] = now]
  /\ before' = [before EXCEPT ![p] = Settled]

-----------------------------------------------------------------------------
(* output_path.exists() *)
FindsPath(p) ==
  /\ Given \in dirs
  /\ Goes(p, "look", "stamp") /\ Begins(p)
  /\ UNCHANGED <<now, chosen, dirs, logs>>

FindsNothing(p) ==
  /\ Given \notin dirs
  /\ Goes(p, "look", "make") /\ Begins(p)
  /\ chosen' = [chosen EXCEPT ![p] = Given]
  /\ UNCHANGED <<now, dirs, logs>>

Stamps(p) ==
  /\ Goes(p, "stamp", "make")
  /\ chosen' = [chosen EXCEPT ![p] = LogOf(now)]
  /\ UNCHANGED <<now, dirs, logs, history>>

(* create_dir_all: a directory that exists is as good as a new one. *)
MakesDir(p) ==
  /\ Goes(p, "make", "open")
  /\ dirs' = dirs \cup {Given, chosen[p]}
  /\ UNCHANGED <<now, chosen, logs, history>>

(* File::create: files that exist are truncated. *)
OpensFiles(p) ==
  /\ Goes(p, "open", "logging")
  /\ logs' = [d \in DOMAIN logs \cup {chosen[p]} |-> IF d = chosen[p] THEN p ELSE logs[d]]
  /\ UNCHANGED <<now, chosen, dirs, history>>

Tick ==
  /\ now < MaxSeconds /\ now' = now + 1
  /\ UNCHANGED <<step, chosen, dirs, logs, history>>

Init ==
  /\ now = 0
  /\ step = [p \in Programs |-> "look"] /\ chosen = [p \in Programs |-> Given]
  /\ dirs \in {{}, {Given}}
  /\ logs = [d \in {} |-> Given]
  /\ began = [p \in Programs |-> 0] /\ before = [p \in Programs |-> {}]

Next ==
  \/ \E p \in Programs : FindsPath(p) \/ FindsNothing(p) \/ Stamps(p) \/ MakesDir(p)
                         \/ OpensFiles(p)
  \/ Tick

Spec == Init /\ [][Next]_vars

-----------------------------------------------------------------------------
(* "controller will create a unique subfolder to ensure you don't overwrite  *)
(* existing log files" (README.md:83): the log of a program that has begun   *)
(* one stays where it is.                                                    *)
NoLogOverwritten ==
  \A p \in Programs : step[p] = "logging" => logs[chosen[p]] = p
=============================================================================
