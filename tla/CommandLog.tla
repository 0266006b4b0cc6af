------------------------------ MODULE CommandLog ------------------------------
(***************************************************************************)
(* What a user of the controller may rely on, without sessions, frames and *)
(* ciphers: commands are executed at most once, in the order in which they *)
(* were issued, and one that is reported as successful was executed.       *)
(* SessionChannel implements it.                                           *)
(***************************************************************************)
EXTENDS Naturals, Sequences

CONSTANT MaxCommands

VARIABLES
  issued,      \* the number of commands issued: they are 1, 2, ...
  executed,    \* the commands whose execution was begun, in that order
  done,        \* those that succeeded
  outcome      \* what the user was told of each command

vars == <<issued, executed, done, outcome>>
Command == 1 .. MaxCommands

Init ==
  /\ issued = 0 /\ executed = <<>> /\ done = {}
  /\ outcome = [c \in Command |-> "none"]

\* One command is under way at a time.
Issue ==
  /\ issued < MaxCommands /\ \A c \in Command : outcome[c] # "waiting"
  /\ issued' = issued + 1
  /\ outcome' = [outcome EXCEPT ![issued + 1] = "waiting"]
  /\ UNCHANGED <<executed, done>>

\* A command may be executed though its user was told that it expired.
Execute(c) ==
  /\ c <= issued /\ \A k \in DOMAIN executed : executed[k] < c
  /\ executed' = Append(executed, c)
  /\ UNCHANGED <<issued, done, outcome>>

Succeed(c) ==
  /\ executed # <<>> /\ executed[Len(executed)] = c /\ c \notin done
  /\ done' = done \cup {c}
  /\ UNCHANGED <<issued, executed, outcome>>

Report(c, what) ==
  /\ outcome[c] = "waiting"
  /\ what = "succeeded" => c \in done
  /\ outcome' = [outcome EXCEPT ![c] = what]
  /\ UNCHANGED <<issued, executed, done>>

Next ==
  \/ Issue
  \/ \E c \in Command : Execute(c) \/ Succeed(c)
  \/ \E c \in Command, what \in {"succeeded", "failed", "expired", "lost"} : Report(c, what)

Spec == Init /\ [][Next]_vars
=============================================================================
