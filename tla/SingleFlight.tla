---------------------------- MODULE SingleFlight ----------------------------
(***************************************************************************)
(* What the request manager promises: requests are answered one at a time, *)
(* each one from the profile that was active when it was admitted, and the *)
(* profile changes only between requests.                                  *)
(***************************************************************************)
CONSTANTS Requests, Profiles

VARIABLES
  phase,    \* of each request
  used,     \* profiles a request takes its prompt and its servers from
  profile   \* the active profile

vars == <<phase, used, profile>>

Idle == \A r \in Requests : phase[r] # "running"

Init ==
  /\ phase = [r \in Requests |-> "absent"]
  /\ used = [r \in Requests |-> {}]
  /\ profile \in Profiles

Admit(r) ==
  /\ Idle
  /\ phase[r] = "absent"
  /\ phase' = [phase EXCEPT ![r] = "running"]
  /\ used' = [used EXCEPT ![r] = {profile}]
  /\ UNCHANGED profile

Finish(r, verdict) ==
  /\ phase[r] = "running"
  /\ phase' = [phase EXCEPT ![r] = verdict]
  /\ UNCHANGED <<used, profile>>

Switch(p) ==
  /\ Idle
  /\ profile' = p
  /\ UNCHANGED <<phase, used>>

Next ==
  \/ \E r \in Requests : Admit(r) \/ Finish(r, "answered") \/ Finish(r, "failed")
  \/ \E p \in Profiles : Switch(p)

Spec == Init /\ [][Next]_vars
=============================================================================
