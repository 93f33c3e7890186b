------------------------------ MODULE Listings ------------------------------
(***************************************************************************)
(* The life of a listing: app/domains/properties/{service,repository,      *)
(* models,router}.py.                                                      *)
(*                                                                         *)
(* An agent edits a draft and submits it, an administrator approves or     *)
(* rejects it, and what is approved can be published, reserved, rented,    *)
(* sold and archived.  As in Bookings every handler reads the row without  *)
(* a lock, compares its approval_status in Python, and later overwrites    *)
(* the columns it sets, under the row lock that the UPDATE takes and the   *)
(* commit releases.  SQLAlchemy writes changed columns only: a change of   *)
(* status leaves the content as it is, and an edit leaves the status.      *)
(*                                                                         *)
(* Content is a version number.  Images are another table (media) and left *)
(* out; SUSPENDED is a status that no code of this repository assigns.     *)
(***************************************************************************)
EXTENDS Naturals

CONSTANTS
    Listings,  \* primary keys that create may insert
    Requests,  \* handlers that may be in flight together
    MaxEdits,  \* bound on the edits of one listing
    NoListing

ASSUME ListingsAssumption == NoListing \notin Listings
ASSUME BoundsAssumption == MaxEdits \in Nat

VARIABLES
    status,     \* properties.approval_status; "absent" before create commits
    content,    \* the version of the content columns
    expiry,     \* expires_at: not set, in the future, or passed
    txn,        \* the handler of each request
    approved,   \* history: the version that the last approval read, from 1 on
    lostUpdate  \* history: a commit applied a decision taken on another row

vars == <<status, content, expiry, txn, approved, lostUpdate>>

Statuses == {"absent", "DRAFT", "PENDING_REVIEW", "APPROVED", "REJECTED",
             "PUBLISHED", "RESERVED", "RENTED", "SOLD", "ARCHIVED"}

(***************************************************************************)
(* What each endpoint demands of approval_status, and sets it to.          *)
(***************************************************************************)

\* A reserved listing can be sold without being published again.
SellReserved(op) ==
    CASE op = "update"  -> {"DRAFT", "REJECTED"}
      [] op = "submit"  -> {"DRAFT", "REJECTED", "ARCHIVED", "PUBLISHED"}
      [] op \in {"approve", "reject"}  -> {"PENDING_REVIEW"}
      [] op \in {"revert", "publish"}  -> {"APPROVED"}
      [] op = "reserve" -> {"PUBLISHED"}
      [] op \in {"rent", "sell"}       -> {"PUBLISHED", "RESERVED"}
      [] op = "archive" -> {"PUBLISHED", "RESERVED", "RENTED", "SOLD"}

\* Approved listings can be edited until they are published.
EditableTillPublished == {"DRAFT", "REJECTED", "APPROVED"}

\* _EDITABLE_STATES
Editable == {"DRAFT", "REJECTED"}

From(op) ==
    CASE op = "update"  -> Editable
      [] op = "submit"  -> {"DRAFT", "REJECTED", "ARCHIVED", "PUBLISHED"}
      [] op = "approve" -> {"PENDING_REVIEW"}
      [] op = "reject"  -> {"PENDING_REVIEW"}
      [] op = "revert"  -> {"APPROVED"}
      [] op = "publish" -> {"APPROVED"}
      [] op = "reserve" -> {"PUBLISHED"}
      [] op = "rent"    -> {"PUBLISHED", "RESERVED"}
      [] op = "sell"    -> {"PUBLISHED"}
      [] op = "archive" -> {"PUBLISHED", "RESERVED", "RENTED", "SOLD"}

To(op) ==
    CASE op = "submit"  -> "PENDING_REVIEW"
      [] op = "approve" -> "APPROVED"
      [] op = "reject"  -> "REJECTED"
      [] op = "revert"  -> "DRAFT"
      [] op = "publish" -> "PUBLISHED"
      [] op = "reserve" -> "RESERVED"
      [] op = "rent"    -> "RENTED"
      [] op = "sell"    -> "SOLD"
      [] op = "archive" -> "ARCHIVED"

Transitions == {"submit", "approve", "reject", "revert", "publish", "reserve",
                "rent", "sell", "archive"}
Ops == Transitions \cup {"update"}

\* A handler's locals: the content it read with the status, and whether the
\* row it overwrites is still one it would have accepted.
Request == [op : Ops \cup {"none"}, step : {"idle", "checked", "locked"},
            listing : Listings \cup {NoListing}, seen : 0 .. MaxEdits,
            stale : BOOLEAN]

Idle == [op |-> "none", step |-> "idle", listing |-> NoListing, seen |-> 0,
         stale |-> FALSE]

TypeOK ==
    /\ status \in [Listings -> Statuses]
    /\ content \in [Listings -> 0 .. MaxEdits]
    /\ expiry \in [Listings -> {"unset", "running", "passed"}]
    /\ txn \in [Requests -> Request]
    /\ approved \in [Listings -> 0 .. MaxEdits + 1]
    /\ lostUpdate \in BOOLEAN

Init ==
    /\ status = [l \in Listings |-> "absent"]
    /\ content = [l \in Listings |-> 0]
    /\ expiry = [l \in Listings |-> "unset"]
    /\ txn = [r \in Requests |-> Idle]
    /\ approved = [l \in Listings |-> 0]
    /\ lostUpdate = FALSE

(***************************************************************************)
(* Handlers.                                                               *)
(***************************************************************************)

Create(l) ==
    /\ status[l] = "absent"
    /\ status' = [status EXCEPT ![l] = "DRAFT"]
    /\ UNCHANGED <<content, expiry, txn, approved, lostUpdate>>

Check(r, op, l) ==
    /\ txn[r] = Idle
    /\ status[l] \in From(op)
    /\ op = "update" => content[l] < MaxEdits
    /\ txn' = [txn EXCEPT ![r] = [op |-> op, step |-> "checked", listing |-> l,
                                  seen |-> content[l], stale |-> FALSE]]
    /\ UNCHANGED <<status, content, expiry, approved, lostUpdate>>

Free(l) == \A r \in Requests : ~(txn[r].listing = l /\ txn[r].step = "locked")

\* The row no longer passes the check, or is not the one that was approved.
Overtaken(r, l) ==
    \/ status[l] \notin From(txn[r].op)
    \/ txn[r].op = "approve" /\ content[l] # txn[r].seen

\* The flushed UPDATE, which names the row by its id alone.
Update(r) ==
    LET l == txn[r].listing IN
    /\ txn[r].step = "checked"
    /\ Free(l)
    /\ txn' = [txn EXCEPT ![r].step = "locked",
                          ![r].stale = Overtaken(r, l)]
    /\ UNCHANGED <<status, content, expiry, approved, lostUpdate>>

Finish(r) ==
    /\ txn[r].step = "locked"
    /\ txn' = [txn EXCEPT ![r] = Idle]
    /\ lostUpdate' = (lostUpdate \/ txn[r].stale)

CommitEdit(r) ==
    LET l == txn[r].listing IN
    /\ txn[r].op = "update"
    /\ Finish(r)
    /\ content[l] < MaxEdits
    /\ content' = [content EXCEPT ![l] = @ + 1]
    /\ UNCHANGED <<status, expiry, approved>>

\* publish that leaves expires_at as it is.
NoExpiry(op, l) == expiry

\* publish sets expires_at = now + LISTING_EXPIRY_DAYS.
NewExpiry(op, l) ==
    IF op = "publish" THEN [expiry EXCEPT ![l] = "running"] ELSE expiry

CommitTransition(r) ==
    LET l  == txn[r].listing
        op == txn[r].op IN
    /\ op \in Transitions
    /\ Finish(r)
    /\ status' = [status EXCEPT ![l] = To(op)]
    /\ expiry' = NewExpiry(op, l)
    /\ approved' = IF op = "approve" THEN [approved EXCEPT ![l] = txn[r].seen + 1]
                                     ELSE approved
    /\ UNCHANGED content

\* An exception or a crash before the commit.
Abort(r) ==
    /\ txn[r] # Idle
    /\ txn' = [txn EXCEPT ![r] = Idle]
    /\ UNCHANGED <<status, content, expiry, approved, lostUpdate>>

\* The status that ARCHIVED replaced (models.py:109-110).
ExpireStatus(l) ==
    /\ expiry[l] = "running"
    /\ expiry' = [expiry EXCEPT ![l] = "passed"]
    /\ status' = [status EXCEPT ![l] = "EXPIRED"]
    /\ UNCHANGED <<content, txn, approved, lostUpdate>>

\* Time passes.  No task archives the listing then: app/tasks is empty.
Expire(l) ==
    /\ expiry[l] = "running"
    /\ expiry' = [expiry EXCEPT ![l] = "passed"]
    /\ UNCHANGED <<status, content, txn, approved, lostUpdate>>

Next ==
    \/ \E l \in Listings : Create(l) \/ Expire(l)
    \/ \E r \in Requests :
          \/ \E op \in Ops, l \in Listings : Check(r, op, l)
          \/ Update(r)
          \/ CommitEdit(r)
          \/ CommitTransition(r)
          \/ Abort(r)

Spec == Init /\ [][Next]_vars

-----------------------------------------------------------------------------
(***************************************************************************)
(* Properties.                                                             *)
(***************************************************************************)

\* Listings that passed a review and have not gone back to be edited.
OnMarket(l) == status[l] \in {"APPROVED", "PUBLISHED", "RESERVED", "RENTED", "SOLD"}

\* is_publicly_visible, which the page of a listing asks.
Visible(l) == status[l] = "PUBLISHED" /\ expiry[l] # "passed"

\* The condition of the public search, which has no case for a missing date.
Searchable(l) == status[l] = "PUBLISHED" /\ expiry[l] = "running"

\* Search and page show the same listings, though they ask differently.
SearchMatchesPage == \A l \in Listings : Visible(l) <=> Searchable(l)

\* "A PUBLISHED listing must go through PENDING_REVIEW to be updated"
\* (service.py:178-179): what the public sees is what was approved.
PublicIsApproved ==
    \A l \in Listings : Visible(l) => approved[l] = content[l] + 1

\* A listing on the market has the content that its last approval read, in any
\* interleaving of edits, reviews and agents, until a commit applies a decision
\* that the row it overwrites would no longer have allowed.
ApprovedContentUnlessLostUpdate ==
    ~lostUpdate => \A l \in Listings : OnMarket(l) => approved[l] = content[l] + 1

\* The listings as agents and administrators see them, with no requests in
\* flight.
Review == INSTANCE ListingReview
    WITH status <- status, content <- content, approved <- approved,
         upset <- lostUpdate

\* Whatever handlers overlap and roll back, listings move along the workflow
\* and change their content before a review only; a commit that does not is
\* marked as a lost update, and changes the status or the content of one
\* listing.
ImplementsReview == Review!Spec
=============================================================================
