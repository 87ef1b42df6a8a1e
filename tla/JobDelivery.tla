----------------------------- MODULE JobDelivery -----------------------------
(***************************************************************************)
(* What the job queue promises: a job that was enqueued stays in the queue *)
(* until a worker takes it, and is lost only if all who took it end before *)
(* they have run it.                                                       *)
(***************************************************************************)
CONSTANT Jobs

VARIABLE state  \* of each job

Init == state = [j \in Jobs |-> "new"]

(* Some jobs that are in one state go to another together.                 *)
Move(from, to) ==
  /\ \A j \in Jobs : state'[j] # state[j] => state[j] = from /\ state'[j] = to
  /\ state' = [j \in Jobs |-> state'[j]]

Enqueue == Move("new", "queued")
Take == Move("queued", "taken")
Run == Move("taken", "done")
Lose == Move("taken", "lost")

Next == Enqueue \/ Take \/ Run \/ Lose

Spec == Init /\ [][Next]_state
=============================================================================
