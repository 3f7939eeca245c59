---------------------------- MODULE BatchContract ----------------------------
(***************************************************************************)
(* What a batch of links promises its owner: while it is open it counts    *)
(* links that completed; once it has a verdict this never changes and      *)
(* names exactly the links that ever complete, because no link completes,  *)
(* and so none is charged, behind its back.  The only links the verdict    *)
(* may miss are the doubtful ones: those whose completion the process      *)
(* could not confirm, and those whose details have expired since.          *)
(***************************************************************************)
CONSTANT Links

VARIABLES
    outcome,   \* what became of each link
    verdict,   \* what became of the batch
    counted,   \* the links it reports, and adds up, as completed
    doubtful   \* the links it may miss

vars == <<outcome, verdict, counted, doubtful>>

open == verdict = "open"

Completed == {c \in Links : outcome[c] = "completed"}

\* What an account of the batch's completed links may be.
Exact(links) ==
    /\ links \subseteq Completed
    /\ Completed \ links \subseteq doubtful

Init ==
    /\ outcome = [c \in Links |-> "open"]
    /\ verdict = "open"
    /\ counted = {}
    /\ doubtful = {}

Complete(c) ==
    /\ outcome[c] = "open" /\ open
    /\ outcome' = [outcome EXCEPT ![c] = "completed"]
    /\ doubtful' \in {doubtful, doubtful \union {c}}
    /\ UNCHANGED <<verdict, counted>>

Fail(c) ==
    /\ outcome[c] = "open"
    /\ outcome' = [outcome EXCEPT ![c] = "failed"]
    /\ UNCHANGED <<verdict, counted, doubtful>>

Doubt(c) ==
    /\ outcome[c] # "open"
    /\ doubtful' = doubtful \union {c}
    /\ UNCHANGED <<outcome, verdict, counted>>

\* A link that is counted stays counted, unless it has become doubtful.
Count ==
    /\ open
    /\ \E links \in SUBSET Completed :
          counted \ links \subseteq doubtful /\ counted' = links
    /\ UNCHANGED <<outcome, verdict, doubtful>>

\* The verdict names its links, and the batch is completed if there are any.
Close ==
    /\ open
    /\ \E links \in SUBSET Completed :
          /\ Exact(links)
          /\ counted' = links
          /\ verdict' = IF links = {} THEN "failed" ELSE "completed"
    /\ UNCHANGED <<outcome, doubtful>>

\* A restart fails links that had not ended, and the batch with them, which
\* still reports those that completed; a link that was never taken up stays
\* open and can only fail.
Interrupt ==
    /\ \E lost \in SUBSET {c \in Links : outcome[c] = "open"} :
          outcome' = [c \in Links |-> IF c \in lost THEN "failed" ELSE outcome[c]]
    /\ IF open
       THEN /\ verdict' = "failed"
            /\ \E links \in SUBSET Completed : Exact(links) /\ counted' = links
       ELSE UNCHANGED <<verdict, counted>>
    /\ UNCHANGED doubtful

Next ==
    \/ \E c \in Links : Complete(c) \/ Fail(c) \/ Doubt(c)
    \/ Count
    \/ Close
    \/ Interrupt

Spec == Init /\ [][Next]_vars

-----------------------------------------------------------------------------

\* The verdict of a batch that has ended names every link that completed but
\* doubtful ones, and is completed only if it names one; neither then nor
\* before is a link counted that did not complete.
VerdictIsExact ==
    /\ counted \subseteq Completed
    /\ ~open => Exact(counted)
    /\ verdict = "completed" => counted # {}
=============================================================================
