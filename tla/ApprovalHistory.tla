--------------------------- MODULE ApprovalHistory ---------------------------
(***************************************************************************)
(* What is left of an approval chain when requests overlap.  A decision is *)
(* taken on the status somebody read a while ago, and an edit may save the *)
(* whole row it read, status included, over the decisions of others.  The  *)
(* status may then fall back, a decision may be repeated, and a deleted    *)
(* document may return.  What stays true is that every decision was taken  *)
(* after one of those it needs, and that a document never shows a status   *)
(* it was not given by a decision, or by its opening.                      *)
(*                                                                         *)
(* EventApproval and MainDuty implement this specification under any       *)
(* interleaving of their requests.                                         *)
(***************************************************************************)

CONSTANTS
  Docs,         \* the documents under approval: duty days, events, main duties
  Decisions,    \* the decisions, named by the status they lead to
  Needs,        \* Needs[x] : decisions one of which must come before x; {} for the first
  Rewrites      \* TRUE when edits save the whole row

VARIABLES
  status,       \* status[d] : where document d stands
  taken         \* taken[d]  : the decisions ever taken about d

vars == <<status, taken>>

Absent == {"unborn", "deleted"}

TypeOK ==
  /\ status \in [Docs -> Decisions \cup {"DRAFT"} \cup Absent]
  /\ taken  \in [Docs -> SUBSET Decisions]

Init ==
  /\ status = [d \in Docs |-> "unborn"]
  /\ taken  = [d \in Docs |-> {}]

Open(d) ==
  /\ status[d] = "unborn"
  /\ status' = [status EXCEPT ![d] = "DRAFT"]
  /\ UNCHANGED taken

Discard(d) ==
  /\ status[d] # "unborn"
  /\ status' = [status EXCEPT ![d] = "deleted"]
  /\ UNCHANGED taken

\* Decision x, whatever the status has become since it was looked at.
Take(d, x) ==
  /\ status[d] \notin Absent
  /\ Needs[x] = {} \/ Needs[x] \cap taken[d] # {}
  /\ status' = [status EXCEPT ![d] = x]
  /\ taken'  = [taken EXCEPT ![d] = @ \cup {x}]

\* An edit saves the row it read: an earlier status, even after a deletion.
Rewrite(d) ==
  /\ Rewrites
  /\ status[d] # "unborn"
  /\ \E x \in taken[d] \cup {"DRAFT"} : status' = [status EXCEPT ![d] = x]
  /\ UNCHANGED taken

Next ==
  \E d \in Docs :
    \/ Open(d) \/ Discard(d) \/ Rewrite(d)
    \/ \E x \in Decisions : Take(d, x)

Spec == Init /\ [][Next]_vars

\* Every decision was preceded by one it needs, and the status was once decided.
InOrder ==
  \A d \in Docs :
    /\ \A x \in taken[d] : Needs[x] = {} \/ Needs[x] \cap taken[d] # {}
    /\ status[d] \in taken[d] \cup {"DRAFT"} \cup Absent
=============================================================================
