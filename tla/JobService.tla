---------------------------- MODULE JobService ----------------------------
(***************************************************************************)
(* What a DatabasePool promises to the code that submits jobs, without     *)
(* threads, locks or a condition variable: an accepted job is performed at *)
(* most once and in the order of acceptance, never after the pool closed;  *)
(* its callback is made at most once, only for a job that asked for one,   *)
(* only after the job was performed, and in the same order.                *)
(***************************************************************************)
EXTENDS Sequences

CONSTANT Jobs

VARIABLES accepted,     \* the jobs submitted so far
          wants,        \* those whose bHasCallback is set
          pending,      \* accepted and not performed, oldest first
          due,          \* performed and owed a callback, oldest first
          answered,     \* the callbacks made, oldest first
          open          \* the connection may still be used

vars == <<accepted, wants, pending, due, answered, open>>

Init ==
  /\ accepted = {} /\ wants = {}
  /\ pending = <<>> /\ due = <<>> /\ answered = <<>>
  /\ open = TRUE

Accept(j) ==
  /\ j \notin accepted
  /\ accepted' = accepted \cup {j}
  /\ wants' \in {wants, wants \cup {j}}
  /\ pending' = Append(pending, j)
  /\ UNCHANGED <<due, answered, open>>

Perform ==
  /\ open /\ pending # <<>>
  /\ pending' = Tail(pending)
  /\ due' = IF Head(pending) \in wants THEN Append(due, Head(pending)) ELSE due
  /\ UNCHANGED <<accepted, wants, answered, open>>

Answer ==
  /\ due # <<>>
  /\ due' = Tail(due)
  /\ answered' = Append(answered, Head(due))
  /\ UNCHANGED <<accepted, wants, pending, open>>

Close ==
  /\ open /\ open' = FALSE
  /\ UNCHANGED <<accepted, wants, pending, due, answered>>

Next == (\E j \in Jobs : Accept(j)) \/ Perform \/ Answer \/ Close

Spec == Init /\ [][Next]_vars
=============================================================================
