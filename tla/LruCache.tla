------------------------------ MODULE LruCache ------------------------------
(***************************************************************************)
(* What a device promises to the pipelines: models are on it or not, in    *)
(* use or idle, never more of them than fit, and room is made by dropping  *)
(* the idle model whose last use lies furthest back (one never used since  *)
(* it was brought in counts as oldest).  "Last use" is a relation here, no *)
(* data structure: <<a, b>> \in older says that a's last use is before b's. *)
(***************************************************************************)
EXTENDS DeviceMemory

VARIABLES
  active,   \* models in use
  idle,     \* models kept on the device for a later use
  used,     \* models on the device that were used since they came in
  older     \* pairs <<a, b>> of used models: b was used after a

vars == <<active, idle, used, older>>

Init ==
  /\ active = {}
  /\ idle = {}
  /\ used = {}
  /\ older = {}

(* Pairs that do not mention m.                                            *)
Apart(m) == { p \in older : p[1] # m /\ p[2] # m }

(* An absent model comes in, within the limit.                             *)
BringIn(m) ==
  /\ m \notin active \cup idle
  /\ UsedGpuMem(active \cup idle \cup {m}) =< GpuMemLimit
  /\ active' = active \cup {m}
  /\ UNCHANGED <<idle, used, older>>

Activate(m) ==
  /\ m \in idle
  /\ idle' = idle \ {m}
  /\ active' = active \cup {m}
  /\ UNCHANGED <<used, older>>

(* Some models in use become idle.                                         *)
Release(S) ==
  /\ S \subseteq active
  /\ active' = active \ S
  /\ idle' = idle \cup S
  /\ UNCHANGED <<used, older>>

(* m is used: it is now the most recently used of all.                     *)
Use(m) ==
  /\ m \in active
  /\ used' = used \cup {m}
  /\ older' = Apart(m) \cup { <<a, m>> : a \in used \ {m} }
  /\ UNCHANGED <<active, idle>>

(* An idle model is least recently used.                                   *)
LeastRecent(v) ==
  \/ v \notin used
  \/ /\ idle \subseteq used
     /\ \A u \in idle : <<u, v>> \notin older

Drop(v) ==
  /\ v \in idle
  /\ LeastRecent(v)
  /\ idle' = idle \ {v}
  /\ used' = used \ {v}
  /\ older' = Apart(v)
  /\ UNCHANGED active

Next ==
  \/ \E m \in Model : BringIn(m) \/ Activate(m) \/ Use(m) \/ Drop(m)
  \/ \E S \in SUBSET Model : Release(S)

Spec == Init /\ [][Next]_vars
=============================================================================
