---------------------------- MODULE ApprovalChain ----------------------------
(***************************************************************************)
(* The promise of the approval chain that duty days and events share, told *)
(* without requests, database rows or threads.  A document is opened as a  *)
(* draft, may be discarded while it is a draft, is submitted by an officer,*)
(* collected by the collector and approved by the district administrator;  *)
(* while it is under review it may be rejected, for good.  Every decision  *)
(* leaves the signature of the one who took it, and nothing is decided     *)
(* twice.                                                                  *)
(*                                                                         *)
(* DutyDay implements this specification when requests do not overlap.     *)
(***************************************************************************)

CONSTANT Docs   \* the documents under approval: duty days, events

VARIABLES
  status,       \* status[d] : where document d stands
  signed        \* signed[d] : the decisions taken about d, by their signatures

vars == <<status, signed>>

Status     == {"DRAFT", "SUBMITTED", "COLLECTED", "APPROVED", "REJECTED"}
Absent     == {"unborn", "deleted"}
Signatures == {"submitted", "collected", "approved", "rejected"}

Init ==
  /\ status = [d \in Docs |-> "unborn"]
  /\ signed = [d \in Docs |-> {}]

\* Document d leaves a status of `from` for `to`, on the authority of `signature`.
Decide(d, from, to, signature) ==
  /\ status[d] \in from
  /\ status' = [status EXCEPT ![d] = to]
  /\ signed' = [signed EXCEPT ![d] = @ \cup {signature}]

Open(d) ==
  /\ status[d] = "unborn"
  /\ status' = [status EXCEPT ![d] = "DRAFT"]
  /\ UNCHANGED signed

Discard(d) ==
  /\ status[d] = "DRAFT"
  /\ status' = [status EXCEPT ![d] = "deleted"]
  /\ UNCHANGED signed

Submit(d)  == Decide(d, {"DRAFT"}, "SUBMITTED", "submitted")
Collect(d) == Decide(d, {"SUBMITTED"}, "COLLECTED", "collected")
Approve(d) == Decide(d, {"COLLECTED"}, "APPROVED", "approved")
Reject(d)  == Decide(d, {"SUBMITTED", "COLLECTED"}, "REJECTED", "rejected")

Next ==
  \E d \in Docs :
    Open(d) \/ Discard(d) \/ Submit(d) \/ Collect(d) \/ Approve(d) \/ Reject(d)

Spec == Init /\ [][Next]_vars
=============================================================================
