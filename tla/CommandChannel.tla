--------------------------- MODULE CommandChannel ---------------------------
(***************************************************************************)
(* What a client core promises about commands, whatever its language       *)
(* (docs/communication.md, sections 6 and 8; the doc comment of            *)
(* FtSwarmSerialTransport.command): while the transport is up, commands    *)
(* are answered strictly in the order in which they were submitted, and an *)
(* answer is the answer to that very command.  A transport that went down  *)
(* may fail its commands, and promises nothing any more about who is       *)
(* answered with what.  KotlinTransport and PythonTransport implement it.  *)
(***************************************************************************)
EXTENDS Naturals, Sequences

CONSTANT Calls        \* the commands that may be submitted, one value each

VARIABLES
    queue,            \* while up: the calls not answered yet, oldest first
    outcome,          \* what became of every call
    up                \* the transport has neither failed nor been closed

vars == <<queue, outcome, up>>

Outcomes == {"idle", "waiting", "own", "foreign", "failed"}

Init ==
    /\ queue = <<>>
    /\ outcome = [c \in Calls |-> "idle"]
    /\ up = TRUE

Waiting == {c \in Calls : outcome[c] = "waiting"}

(* A call takes the next place in the order.                               *)
Submit(c) ==
    /\ up
    /\ outcome[c] = "idle"
    /\ queue' = Append(queue, c)
    /\ outcome' = [outcome EXCEPT ![c] = "waiting"]
    /\ UNCHANGED up

(* The oldest call gets the answer to itself.                              *)
Answer ==
    /\ up
    /\ queue # <<>>
    /\ queue' = Tail(queue)
    /\ outcome' = [outcome EXCEPT ![Head(queue)] = "own"]
    /\ UNCHANGED up

(* The transport goes down, and may fail a call in the same step.          *)
Shut ==
    /\ up
    /\ up' = FALSE
    /\ queue' = <<>>
    /\ \/ UNCHANGED outcome
       \/ \E c \in Waiting : outcome' = [outcome EXCEPT ![c] = "failed"]

(* Down: a call that races with the failure is refused, or accepted.       *)
SubmitLate(c) ==
    /\ ~up
    /\ outcome[c] = "idle"
    /\ \E o \in {"waiting", "failed"} : outcome' = [outcome EXCEPT ![c] = o]
    /\ UNCHANGED <<queue, up>>

(* Down: calls that wait fail, or take any answer that is still on its way. *)
Settle ==
    /\ ~up
    /\ \E S \in SUBSET Waiting : \E o \in [S -> {"own", "foreign", "failed"}] :
          outcome' = [c \in Calls |-> IF c \in S THEN o[c] ELSE outcome[c]]
    /\ UNCHANGED <<queue, up>>

Next ==
    \/ \E c \in Calls : Submit(c) \/ SubmitLate(c)
    \/ Answer
    \/ Shut
    \/ Settle

Spec == Init /\ [][Next]_vars

-----------------------------------------------------------------------------

TypeOK ==
    /\ queue \in Seq(Calls)
    /\ outcome \in [Calls -> Outcomes]
    /\ up \in BOOLEAN

(* While the channel is up no call has been given the answer to another    *)
(* one, nor failed: what communication.md section 6 calls correlation.     *)
UpMeansCorrelated ==
    up => \A c \in Calls : outcome[c] \notin {"foreign", "failed"}

(* While the channel is up every call that waits has exactly one place in  *)
(* the order, and only such calls have one: nobody is answered twice and   *)
(* nobody is forgotten.                                                    *)
QueueHoldsTheWaiting ==
    up => /\ \A c \in Calls : c \in Waiting <=> \E i \in 1..Len(queue) : queue[i] = c
          /\ \A i, j \in 1..Len(queue) : queue[i] = queue[j] => i = j
=============================================================================
