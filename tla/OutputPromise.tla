---------------------------- MODULE OutputPromise ----------------------------
(***************************************************************************)
(* What the command line promises about one output file per run ("Output   *)
(* files" in the README of the crate): the target goes from what it was to *)
(* a complete new document in one step, a run that reports success has     *)
(* made that step, a run that reports an error never makes it, and a run   *)
(* that returns leaves no temporary file.  CliOutput implements it.        *)
(***************************************************************************)
CONSTANT Runs

VARIABLES
  target,       \* "as it was" or "new"
  temp,         \* "none" or "staged"
  verdict       \* "running", "ok", "error", "cancelled" or "stopped"

vars == <<target, temp, verdict>>

Init ==
  /\ target  = [r \in Runs |-> "as it was"]
  /\ temp    = [r \in Runs |-> "none"]
  /\ verdict = [r \in Runs |-> "running"]

Running(r) == verdict[r] = "running"

Stage(r) ==
  /\ Running(r) /\ temp[r] = "none" /\ target[r] = "as it was"
  /\ temp' = [temp EXCEPT ![r] = "staged"]
  /\ UNCHANGED <<target, verdict>>

Publish(r) ==
  /\ Running(r) /\ temp[r] = "staged"
  /\ target' = [target EXCEPT ![r] = "new"]
  /\ temp'   = [temp EXCEPT ![r] = "none"]
  /\ UNCHANGED verdict

Discard(r) ==
  /\ Running(r) /\ temp[r] = "staged"
  /\ temp' = [temp EXCEPT ![r] = "none"]
  /\ UNCHANGED <<target, verdict>>

Report(r) ==
  /\ Running(r) /\ temp[r] = "none"
  /\ \E v \in {"ok", "error", "cancelled"} :
       /\ v = "ok" => target[r] = "new"
       /\ v = "error" => target[r] = "as it was"
       /\ verdict' = [verdict EXCEPT ![r] = v]
  /\ UNCHANGED <<target, temp>>

\* The process is gone: a kill, or the handler's own exit.
Stop(r) ==
  /\ Running(r)
  /\ verdict' = [verdict EXCEPT ![r] = "stopped"]
  /\ UNCHANGED <<target, temp>>

Next == \E r \in Runs : Stage(r) \/ Publish(r) \/ Discard(r) \/ Report(r) \/ Stop(r)

Spec == Init /\ [][Next]_vars
=============================================================================
