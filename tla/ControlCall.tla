----------------------------- MODULE ControlCall -----------------------------
(***************************************************************************)
(* What the requests over the daemon's control socket promise the code     *)
(* that awaits them: each is carried out at most once, a success is        *)
(* reported only when it was carried out, and a failure says nothing       *)
(* either way.  MeshDaemon implements this specification.                  *)
(***************************************************************************)
CONSTANT Callers

VARIABLES
  stage,   \* what each caller knows
  done     \* whether the daemon has carried its request out

vars == <<stage, done>>

Init ==
  /\ stage = [c \in Callers |-> "none"]
  /\ done = [c \in Callers |-> FALSE]

Learn(c, from, to) ==
  stage[c] = from /\ stage' = [stage EXCEPT ![c] = to] /\ UNCHANGED done

Ask(c) == Learn(c, "none", "asked")
Succeed(c) == done[c] /\ Learn(c, "asked", "ok")

\* What has become of the requests of C.
Failed(C) == [c \in Callers |-> IF c \in C THEN "failed" ELSE stage[c]]

\* A daemon that goes away fails what it had not answered, of all its callers.
Fail(C) ==
  /\ \A c \in C : stage[c] = "asked"
  /\ stage' = Failed(C)
  /\ UNCHANGED done

\* A daemon may still carry out what its caller has given up.
CarryOut(c) ==
  /\ stage[c] \in {"asked", "failed"} /\ ~done[c]
  /\ done' = [done EXCEPT ![c] = TRUE]
  /\ UNCHANGED stage

\* The caller is through with it, or its process is gone; a daemon that goes
\* with the process fails what it had not answered of the other callers, C.
Forget(c, C) ==
  /\ \A b \in C : stage[b] = "asked"
  /\ stage' = [Failed(C) EXCEPT ![c] = "none"]
  /\ done' = [done EXCEPT ![c] = FALSE]

Next ==
  \/ \E c \in Callers : Ask(c) \/ Succeed(c) \/ CarryOut(c)
  \/ \E C \in SUBSET Callers : Fail(C) \/ \E c \in Callers : Forget(c, C)

Spec == Init /\ [][Next]_vars
=============================================================================
