---------------------------- MODULE ListingReview ----------------------------
(***************************************************************************)
(* What agents and administrators see of listings: the review workflow of  *)
(* app/domains/properties/service.py, each request done at once and none   *)
(* in flight.  Content is edited before a review only, an approval is of   *)
(* the content as it is, and a status changes along the workflow.          *)
(*                                                                         *)
(* Requests decide on rows they have not locked.  An Overwrite is the      *)
(* decision of one of them on a row that no longer allows it: it leaves    *)
(* its mark in `upset`, and even then it changes the status or the content *)
(* of one listing, and an approval is of a version the listing once had.   *)
(***************************************************************************)
EXTENDS Naturals

CONSTANTS Listings

VARIABLES
    status,    \* properties.approval_status, or "absent"
    content,   \* the version of the content
    approved,  \* the version approved last, from 1 on
    upset      \* some decision was applied to a row that had changed

vars == <<status, content, approved, upset>>

Init ==
    /\ status = [l \in Listings |-> "absent"]
    /\ content = [l \in Listings |-> 0]
    /\ approved = [l \in Listings |-> 0]
    /\ upset = FALSE

Draft(l) ==
    /\ status[l] = "absent"
    /\ status' = [status EXCEPT ![l] = "DRAFT"]
    /\ UNCHANGED <<content, approved, upset>>

Edit(l) ==
    /\ status[l] \in {"DRAFT", "REJECTED"}
    /\ content' = [content EXCEPT ![l] = @ + 1]
    /\ UNCHANGED <<status, approved, upset>>

Approve(l) ==
    /\ status[l] = "PENDING_REVIEW"
    /\ status' = [status EXCEPT ![l] = "APPROVED"]
    /\ approved' = [approved EXCEPT ![l] = content[l] + 1]
    /\ UNCHANGED <<content, upset>>

\* Every change of status but the approval.
Workflow ==
    ({"DRAFT", "REJECTED", "ARCHIVED", "PUBLISHED"} \X {"PENDING_REVIEW"})
    \cup {<<"PENDING_REVIEW", "REJECTED">>,
          <<"APPROVED", "DRAFT">>, <<"APPROVED", "PUBLISHED">>,
          <<"PUBLISHED", "RESERVED">>, <<"PUBLISHED", "SOLD">>}
    \cup ({"PUBLISHED", "RESERVED"} \X {"RENTED"})
    \cup ({"PUBLISHED", "RESERVED", "RENTED", "SOLD"} \X {"ARCHIVED"})

Move(l, new) ==
    /\ <<status[l], new>> \in Workflow
    /\ status' = [status EXCEPT ![l] = new]
    /\ UNCHANGED <<content, approved, upset>>

Statuses == {"DRAFT", "PENDING_REVIEW", "APPROVED", "REJECTED", "PUBLISHED",
             "RESERVED", "RENTED", "SOLD", "ARCHIVED"}

OverwriteContent(l) ==
    /\ content' = [content EXCEPT ![l] = @ + 1]
    /\ UNCHANGED <<status, approved>>

OverwriteStatus(l, new) ==
    /\ status' = [status EXCEPT ![l] = new]
    /\ \/ UNCHANGED approved
       \/ /\ new = "APPROVED"
          /\ \E version \in 0 .. content[l] :
                approved' = [approved EXCEPT ![l] = version + 1]
    /\ UNCHANGED content

Overwrite(l) ==
    /\ upset' = TRUE
    /\ status[l] # "absent"
    /\ OverwriteContent(l) \/ \E new \in Statuses : OverwriteStatus(l, new)

Next ==
    \E l \in Listings :
       \/ Draft(l)
       \/ Edit(l)
       \/ Approve(l)
       \/ \E new \in Statuses : Move(l, new)
       \/ Overwrite(l)

Spec == Init /\ [][Next]_vars
=============================================================================
