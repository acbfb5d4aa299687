----------------------------- MODULE WorkLedger -----------------------------
(***************************************************************************)
(* What the work queue promises about one job, whoever runs it: it is      *)
(* enqueued once, handed out at most as often as its attempt budget        *)
(* allows, its effect is acknowledged at most once and only while it is    *)
(* handed out, it succeeds only after that acknowledgement, and once it    *)
(* succeeded nothing changes any more.  WorkQueue refines this             *)
(* specification; processes, leases, fencing tokens and time do not occur  *)
(* in it.                                                                  *)
(***************************************************************************)
EXTENDS Naturals

CONSTANT Job

VARIABLES
  phase,    \* phase[j]: where the job is
  granted,  \* granted[j]: how often it was handed out
  budget,   \* budget[j]: how often it may be handed out
  acked     \* acked[j]: its effect was acknowledged

ledger == <<phase, granted, budget, acked>>

Phase == {"absent", "waiting", "handedOut", "succeeded", "buried", "paused"}

Init ==
  /\ phase = [j \in Job |-> "absent"]
  /\ granted = [j \in Job |-> 0]
  /\ budget = [j \in Job |-> 0]
  /\ acked = [j \in Job |-> FALSE]

Enqueue(j) ==
  /\ phase[j] = "absent"
  /\ phase'[j] = "waiting"
  /\ budget'[j] \in Nat \ {0}
  /\ granted'[j] = granted[j]
  /\ acked'[j] = acked[j]

\* A waiting job, or one whose holder is taken to be gone, is handed out.
HandOut(j) ==
  /\ phase[j] \in {"waiting", "handedOut"}
  /\ granted[j] < budget[j]
  /\ phase'[j] = "handedOut"
  /\ granted'[j] = granted[j] + 1
  /\ budget'[j] = budget[j]
  /\ acked'[j] = acked[j]

Acknowledge(j) ==
  /\ phase[j] = "handedOut"
  /\ ~acked[j]
  /\ acked'[j]
  /\ phase'[j] = phase[j]
  /\ granted'[j] = granted[j]
  /\ budget'[j] = budget[j]

Succeed(j) ==
  /\ phase[j] = "handedOut"
  /\ acked[j]
  /\ phase'[j] = "succeeded"
  /\ granted'[j] = granted[j]
  /\ budget'[j] = budget[j]
  /\ acked'[j] = acked[j]

\* The holder gives the job back, for another try or for good.
GiveBack(j) ==
  /\ phase[j] = "handedOut"
  /\ \/ phase'[j] = "waiting" /\ granted[j] < budget[j]
     \/ phase'[j] \in {"buried", "paused"}
  /\ granted'[j] = granted[j]
  /\ budget'[j] = budget[j]
  /\ acked'[j] = acked[j]

Revive(j) ==
  /\ phase[j] = "buried"
  /\ phase'[j] = "waiting"
  /\ budget'[j] > budget[j]
  /\ granted'[j] = granted[j]
  /\ acked'[j] = acked[j]

Rest(j) ==
  /\ phase'[j] = phase[j]
  /\ granted'[j] = granted[j]
  /\ budget'[j] = budget[j]
  /\ acked'[j] = acked[j]

Move(j) ==
  \/ Enqueue(j)
  \/ HandOut(j)
  \/ Acknowledge(j)
  \/ Succeed(j)
  \/ GiveBack(j)
  \/ Revive(j)

\* A claim hands out a batch: any number of jobs may move in one step.
Next == \A j \in Job : Move(j) \/ Rest(j)

Spec == Init /\ [][Next]_ledger
=============================================================================
