----------------------------- MODULE BatchDriver -----------------------------
(***************************************************************************)
(* What the two pipeline drivers promise (spec section 4.8, as the code    *)
(* implements it): after a start that may fail, the items of a queue are  *)
(* visited one at a time in queue order; an item is either noted missing, *)
(* produced, or raises and aborts the batch; when the queue is exhausted  *)
(* the missing items are reported and the exit status is 1 exactly when  *)
(* some were missing.  The process runs until it ends (weak fairness on   *)
(* the one sequential process).                                           *)
(*                                                                         *)
(* The main() of render-marketing-screenshots.py and of                   *)
(* render-iphone-framed-screenshots.py each implement this specification; *)
(* MarketingDriver and FrameDriver give the refinement mappings.          *)
(***************************************************************************)
EXTENDS Integers, Sequences, Functions

CONSTANTS
  Items    \* the items a queue may hold

Kinds == {"absent", "produces", "raises"}

VARIABLES
  kind,      \* what visiting each item does
  queue,     \* the items to visit, each at most once: the environment
             \* the batch meets fixes it, as it fixes kind
  next,      \* how many items of the queue have been visited
  produced,  \* the items produced, in order
  missed,    \* the items noted missing, in order
  report,    \* the missing items reported at the end
  status,    \* "start", "running", "done", "aborted"
  exitCode

avars == <<kind, queue, next, produced, missed, report, status, exitCode>>

Init ==
  /\ kind \in [Items -> Kinds]
  /\ queue \in Seq(Items)
  /\ IsInjective(queue)
  /\ next = 0
  /\ produced = <<>>
  /\ missed = <<>>
  /\ report = <<>>
  /\ status = "start"
  /\ exitCode = 0

Begin ==
  /\ status = "start"
  /\ status' = "running"
  /\ UNCHANGED <<kind, queue, next, produced, missed, report, exitCode>>

StartFails ==
  /\ status = "start"
  /\ status' = "aborted"
  /\ exitCode' = 1
  /\ UNCHANGED <<kind, queue, next, produced, missed, report>>

Item == queue[next + 1]

Visit ==
  /\ status = "running"
  /\ next < Len(queue)
  /\ kind[Item] # "raises"
  /\ IF kind[Item] = "absent"
     THEN missed' = Append(missed, Item) /\ UNCHANGED produced
     ELSE produced' = Append(produced, Item) /\ UNCHANGED missed
  /\ next' = next + 1
  /\ UNCHANGED <<kind, queue, report, status, exitCode>>

Abort ==
  /\ status = "running"
  /\ next < Len(queue)
  /\ kind[Item] = "raises"
  /\ status' = "aborted"
  /\ exitCode' = 1
  /\ UNCHANGED <<kind, queue, next, produced, missed, report>>

Finish ==
  /\ status = "running"
  /\ next = Len(queue)
  /\ report' = missed
  /\ exitCode' = IF missed = <<>> THEN 0 ELSE 1
  /\ status' = "done"
  /\ UNCHANGED <<kind, queue, next, produced, missed>>

Next == Begin \/ StartFails \/ Visit \/ Abort \/ Finish

FairSpec == Init /\ [][Next]_avars /\ WF_avars(Next)

=============================================================================
