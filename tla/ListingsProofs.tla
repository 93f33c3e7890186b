--------------------------- MODULE ListingsProofs ---------------------------
(***************************************************************************)
(* What TLAPS proves about Listings, for any number of listings, requests  *)
(* and edits.                                                              *)
(*                                                                         *)
(* The status of a listing on the market says nothing of a request that    *)
(* checked it earlier and is about to commit.  IInv adds that a row has    *)
(* one writer at a time, and that a writer that was not overtaken when it  *)
(* locked the row still is not when it commits.                            *)
(***************************************************************************)
EXTENDS Listings, TLAPS

ShapeOK ==
    \A r \in Requests :
        txn[r].step # "idle" =>
           /\ txn[r].op \in Ops
           /\ txn[r].listing \in Listings
           /\ status[txn[r].listing] # "absent"

LocksExclusive ==
    \A q, r \in Requests :
        /\ txn[q].step = "locked" /\ txn[r].step = "locked"
        /\ txn[q].listing = txn[r].listing
        => q = r

\* What holds when the row is locked holds until the commit.
LockedStays ==
    \A r \in Requests :
        txn[r].step = "locked" /\ ~txn[r].stale =>
           /\ status[txn[r].listing] \in From(txn[r].op)
           /\ txn[r].op = "approve" => txn[r].seen = content[txn[r].listing]

\* publish is the only way into PUBLISHED.
PublishedHasDate ==
    \A l \in Listings : status[l] = "PUBLISHED" => expiry[l] # "unset"

IInv ==
    /\ TypeOK
    /\ ShapeOK
    /\ LocksExclusive
    /\ LockedStays
    /\ PublishedHasDate
    /\ ApprovedContentUnlessLostUpdate

-----------------------------------------------------------------------------

\* The fields of a handler that has nothing to do.
LEMMA IdleFields ==
    Idle \in Request /\ Idle.step = "idle" /\ Idle.op = "none"
BY BoundsAssumption DEF Idle, Request

\* No listing, no request.
LEMMA InitIInv == Init => IInv
<1> SUFFICES ASSUME Init PROVE IInv
  OBVIOUS
<1>0. 0 \in 0 .. MaxEdits /\ 0 \in 0 .. MaxEdits + 1
  BY BoundsAssumption
<1>1. TypeOK
  <2>1. /\ status \in [Listings -> Statuses]
        /\ expiry \in [Listings -> {"unset", "running", "passed"}]
        /\ lostUpdate \in BOOLEAN
    BY DEF Init, Statuses
  <2>2. content \in [Listings -> 0 .. MaxEdits] /\ approved \in [Listings -> 0 .. MaxEdits + 1]
    BY <1>0 DEF Init
  <2>3. txn \in [Requests -> Request]
    BY IdleFields DEF Init
  <2>4. QED
    BY <2>1, <2>2, <2>3 DEF TypeOK
<1>2. /\ \A r \in Requests : txn[r] = Idle
      /\ \A l \in Listings : status[l] = "absent"
  BY DEF Init
<1>3. ShapeOK /\ LocksExclusive /\ LockedStays
  BY <1>2, IdleFields DEF ShapeOK, LocksExclusive, LockedStays
<1>4. PublishedHasDate /\ ApprovedContentUnlessLostUpdate
  BY <1>2 DEF PublishedHasDate, ApprovedContentUnlessLostUpdate, OnMarket
<1>5. QED
  BY <1>1, <1>3, <1>4 DEF IInv

\* A step of one request that changes no row.
LEMMA RowsUnchanged ==
    ASSUME IInv, NEW r \in Requests, NEW t \in Request,
           txn' = [txn EXCEPT ![r] = t],
           UNCHANGED <<status, content, expiry, approved, lostUpdate>>,
           t.step # "idle" => /\ t.op \in Ops
                              /\ t.listing \in Listings
                              /\ status[t.listing] # "absent",
           t.step = "locked" =>
              /\ Free(t.listing)
              /\ ~t.stale =>
                    /\ status[t.listing] \in From(t.op)
                    /\ t.op = "approve" => t.seen = content[t.listing]
    PROVE  IInv'
<1>1. txn'[r] = t /\ \A q \in Requests : q # r => txn'[q] = txn[q]
  BY DEF IInv, TypeOK
<1>2. TypeOK'
  BY DEF IInv, TypeOK
<1>3. ShapeOK' /\ LockedStays'
  BY <1>1 DEF IInv, ShapeOK, LockedStays
<1>4. LocksExclusive'
  BY <1>1 DEF IInv, LocksExclusive, Free
<1>5. PublishedHasDate' /\ ApprovedContentUnlessLostUpdate'
  BY DEF IInv, PublishedHasDate, ApprovedContentUnlessLostUpdate, OnMarket
<1>6. QED
  BY <1>2, <1>3, <1>4, <1>5 DEF IInv

\* A check that passes says nothing yet: no row is locked.
LEMMA CheckIInv ==
    ASSUME IInv, NEW r \in Requests, NEW op \in Ops, NEW l \in Listings,
           Check(r, op, l)
    PROVE  IInv'
<1> DEFINE t == [op |-> op, step |-> "checked", listing |-> l,
                 seen |-> content[l], stale |-> FALSE]
<1>1. t \in Request /\ t.op = op /\ t.step = "checked" /\ t.listing = l
  BY DEF Request, IInv, TypeOK
<1>2. status[l] # "absent"
  BY DEF Check, From, Editable, Ops, Transitions
<1>3. txn' = [txn EXCEPT ![r] = t]
  BY DEF Check
<1> HIDE DEF t
<1>4. QED
  BY <1>1, <1>2, <1>3, RowsUnchanged DEF Check

\* The flushed UPDATE locks the row, and sees whether it was overtaken.
LEMMA UpdateIInv == ASSUME IInv, NEW r \in Requests, Update(r) PROVE IInv'
<1> DEFINE l == txn[r].listing
           t == [txn[r] EXCEPT !.step = "locked", !.stale = Overtaken(r, l)]
<1>1. /\ txn[r] \in Request /\ txn[r].op \in Ops /\ l \in Listings
      /\ status[l] # "absent" /\ Free(l)
  BY DEF Update, IInv, TypeOK, ShapeOK
<1>2. Overtaken(r, l) \in BOOLEAN
  BY DEF Overtaken
<1>3. /\ t \in Request /\ t.op = txn[r].op /\ t.step = "locked"
      /\ t.listing = l /\ t.seen = txn[r].seen /\ t.stale = Overtaken(r, l)
  BY <1>1, <1>2 DEF Request
<1>4. txn' = [txn EXCEPT ![r] = t]
  BY <1>1 DEF Update, IInv, TypeOK
<1>5. ~Overtaken(r, l) =>
         /\ status[l] \in From(txn[r].op)
         /\ txn[r].op = "approve" => txn[r].seen = content[l]
  BY DEF Overtaken
<1>6. UNCHANGED <<status, content, expiry, approved, lostUpdate>>
  BY DEF Update
<1>7. t.step = "locked" =>
         /\ Free(t.listing)
         /\ ~t.stale =>
               /\ status[t.listing] \in From(t.op)
               /\ t.op = "approve" => t.seen = content[t.listing]
  BY <1>1, <1>3, <1>5
<1> HIDE DEF t, l
<1>8. t.step # "idle" => /\ t.op \in Ops
                         /\ t.listing \in Listings
                         /\ status[t.listing] # "absent"
  BY <1>1, <1>3
<1>9. QED
  BY <1>3, <1>4, <1>6, <1>7, <1>8, RowsUnchanged

\* A rollback leaves every row as it was.
LEMMA AbortIInv == ASSUME IInv, NEW r \in Requests, Abort(r) PROVE IInv'
BY IdleFields, RowsUnchanged DEF Abort

\* A step that changes at most one row, which no request but r has locked.
LEMMA OneRow ==
    ASSUME IInv, NEW l \in Listings, TypeOK',
           \A q \in Requests : txn'[q] = txn[q] \/ txn'[q] = Idle,
           \A q \in Requests : txn'[q].step = "locked" => txn[q].listing # l,
           \A k \in Listings : k # l =>
              /\ status'[k] = status[k] /\ content'[k] = content[k]
              /\ expiry'[k] = expiry[k] /\ approved'[k] = approved[k],
           status'[l] # "absent",
           status'[l] = "PUBLISHED" => expiry'[l] # "unset",
           lostUpdate => lostUpdate',
           OnMarket(l)' /\ ~lostUpdate' => approved'[l] = content'[l] + 1
    PROVE  IInv'
<1>1. \A q \in Requests :
         txn'[q].step # "idle" => txn'[q] = txn[q] /\ txn[q].step # "idle"
  BY IdleFields
<1>2. ShapeOK'
  BY <1>1 DEF IInv, ShapeOK
<1>3. LocksExclusive'
  BY <1>1 DEF IInv, LocksExclusive
<1>4. LockedStays'
  BY <1>1 DEF IInv, LockedStays, ShapeOK
<1>5. PublishedHasDate'
  BY DEF IInv, PublishedHasDate
<1>6. ApprovedContentUnlessLostUpdate'
  BY DEF IInv, ApprovedContentUnlessLostUpdate, OnMarket
<1>7. QED
  BY <1>2, <1>3, <1>4, <1>5, <1>6 DEF IInv

\* A new listing is a draft, which nobody has locked.
LEMMA CreateIInv == ASSUME IInv, NEW l \in Listings, Create(l) PROVE IInv'
<1>1. /\ status[l] = "absent" /\ status'[l] = "DRAFT"
      /\ \A k \in Listings : k # l => status'[k] = status[k]
      /\ UNCHANGED <<content, expiry, txn, approved, lostUpdate>>
  BY DEF Create, IInv, TypeOK
<1>2. TypeOK'
  BY DEF Create, IInv, TypeOK, Statuses
<1>3. \A q \in Requests : txn[q].step = "locked" => txn[q].listing # l
  BY <1>1 DEF IInv, ShapeOK
<1>4. QED
  BY <1>1, <1>2, <1>3, OneRow DEF OnMarket

\* The end of every handler.
LEMMA Finishing ==
    ASSUME IInv, NEW r \in Requests, Finish(r)
    PROVE  /\ txn[r].listing \in Listings /\ txn[r].op \in Ops /\ txn[r] \in Request
           /\ status[txn[r].listing] # "absent"
           /\ txn' = [txn EXCEPT ![r] = Idle] /\ txn' \in [Requests -> Request]
           /\ lostUpdate' \in BOOLEAN /\ (lostUpdate => lostUpdate')
           /\ \A q \in Requests : txn'[q] = txn[q] \/ txn'[q] = Idle
           /\ \A q \in Requests :
                 txn'[q].step = "locked" => txn[q].listing # txn[r].listing
           /\ ~lostUpdate' =>
                 /\ ~lostUpdate
                 /\ status[txn[r].listing] \in From(txn[r].op)
                 /\ txn[r].op = "approve" => txn[r].seen = content[txn[r].listing]
<1>1. /\ txn[r].listing \in Listings /\ txn[r].op \in Ops /\ txn[r] \in Request
      /\ status[txn[r].listing] # "absent" /\ txn[r].step = "locked"
      /\ txn' = [txn EXCEPT ![r] = Idle] /\ txn' \in [Requests -> Request]
  BY IdleFields DEF Finish, IInv, ShapeOK, TypeOK
<1>2. \A q \in Requests :
         txn'[q].step = "locked" => txn[q].listing # txn[r].listing
  BY <1>1, IdleFields DEF IInv, TypeOK, LocksExclusive
<1>3. /\ lostUpdate' \in BOOLEAN /\ (lostUpdate => lostUpdate')
      /\ ~lostUpdate' => ~lostUpdate /\ ~txn[r].stale
  BY <1>1 DEF Finish, IInv, TypeOK, Request
<1>4. \A q \in Requests : txn'[q] = txn[q] \/ txn'[q] = Idle
  BY <1>1 DEF IInv, TypeOK
<1>5. QED
  BY <1>1, <1>2, <1>3, <1>4 DEF IInv, LockedStays

\* What is edited is not on the market, or an update was lost.
LEMMA CommitEditIInv ==
    ASSUME IInv, NEW r \in Requests, CommitEdit(r) PROVE IInv'
<1>0. PICK l : l = txn[r].listing
  OBVIOUS
<1>1. /\ Finish(r) /\ txn[r].op = "update" /\ content[l] < MaxEdits
      /\ content' = [content EXCEPT ![l] = @ + 1]
      /\ UNCHANGED <<status, expiry, approved>>
  BY <1>0 DEF CommitEdit
<1>2. /\ l \in Listings /\ status[l] # "absent"
      /\ \A q \in Requests : txn'[q].step = "locked" => txn[q].listing # l
  BY <1>0, <1>1, Finishing
<1>3. TypeOK'
  BY <1>1, <1>2, Finishing, BoundsAssumption DEF IInv, TypeOK
<1>4. ~lostUpdate' => ~OnMarket(l)'
  <2>1. From("update") = Editable
    BY DEF From
  <2>2. ~lostUpdate' => status[l] \in Editable
    BY <1>0, <1>1, <2>1, Finishing
  <2>3. QED
    BY <1>1, <2>2 DEF Editable, OnMarket
<1>5. \A k \in Listings : k # l => content'[k] = content[k]
  BY <1>1, <1>2 DEF IInv, TypeOK
<1>6. QED
  <2>1. status'[l] # "absent" /\ (status'[l] = "PUBLISHED" => expiry'[l] # "unset")
    BY <1>1, <1>2 DEF IInv, PublishedHasDate
  <2>2. /\ \A q \in Requests : txn'[q] = txn[q] \/ txn'[q] = Idle
        /\ lostUpdate => lostUpdate'
    BY <1>1, Finishing
  <2>3. QED
    BY <1>1, <1>2, <1>3, <1>4, <1>5, <2>1, <2>2, OneRow

\* What comes on the market was approved, or was there before.
LEMMA CommitTransitionIInv ==
    ASSUME IInv, NEW r \in Requests, CommitTransition(r) PROVE IInv'
<1>0. PICK l, op : l = txn[r].listing /\ op = txn[r].op
  OBVIOUS
<1>1. /\ Finish(r) /\ op \in Transitions /\ UNCHANGED content
      /\ status' = [status EXCEPT ![l] = To(op)]
      /\ expiry' = IF op = "publish" THEN [expiry EXCEPT ![l] = "running"] ELSE expiry
      /\ approved' = IF op = "approve" THEN [approved EXCEPT ![l] = txn[r].seen + 1]
                                       ELSE approved
  BY <1>0 DEF CommitTransition, NewExpiry
<1>2. /\ l \in Listings /\ txn[r].seen \in 0 .. MaxEdits
      /\ \A q \in Requests : txn'[q].step = "locked" => txn[q].listing # l
  BY <1>0, <1>1, Finishing DEF Request
<1>3. /\ To(op) \in Statuses \ {"absent"}
      /\ To(op) = "PUBLISHED" => op = "publish"
      /\ To(op) = "APPROVED" => op = "approve"
  BY <1>1 DEF To, Transitions, Statuses
<1>4. /\ status'[l] = To(op)
      /\ op = "publish" => expiry'[l] = "running"
      /\ op = "approve" => approved'[l] = txn[r].seen + 1
      /\ op # "approve" => approved'[l] = approved[l]
      /\ \A k \in Listings : k # l =>
            /\ status'[k] = status[k] /\ content'[k] = content[k]
            /\ expiry'[k] = expiry[k] /\ approved'[k] = approved[k]
  BY <1>1, <1>2 DEF IInv, TypeOK
<1>5. TypeOK'
  <2>1. status' \in [Listings -> Statuses]
    BY <1>1, <1>2, <1>3 DEF IInv, TypeOK
  <2>2. expiry' \in [Listings -> {"unset", "running", "passed"}]
    BY <1>1, <1>2 DEF IInv, TypeOK
  <2>3. approved' \in [Listings -> 0 .. MaxEdits + 1]
    <3>1. txn[r].seen + 1 \in 0 .. MaxEdits + 1
      BY <1>2, BoundsAssumption
    <3>2. QED
      BY <1>1, <1>2, <3>1 DEF IInv, TypeOK
  <2>4. QED
    BY <1>1, <2>1, <2>2, <2>3, Finishing DEF IInv, TypeOK
<1>6. OnMarket(l)' /\ ~lostUpdate' => approved'[l] = content'[l] + 1
  <2> SUFFICES ASSUME ~lostUpdate', To(op) \in {"APPROVED", "PUBLISHED",
                                                "RESERVED", "RENTED", "SOLD"}
               PROVE  approved'[l] = content[l] + 1
    BY <1>1, <1>4 DEF OnMarket
  <2>1. ~lostUpdate /\ status[l] \in From(op)
    BY <1>0, <1>1, Finishing
  <2>2. CASE op = "approve"
    BY <1>0, <1>1, <1>4, <2>1, <2>2, Finishing
  <2>3. CASE op # "approve"
    <3>1. OnMarket(l)
      BY <1>1, <2>1, <2>3 DEF To, From, Transitions, OnMarket
    <3>2. QED
      BY <1>2, <1>4, <2>1, <2>3, <3>1 DEF IInv, ApprovedContentUnlessLostUpdate
  <2>4. QED
    BY <2>2, <2>3
<1>7. /\ \A q \in Requests : txn'[q] = txn[q] \/ txn'[q] = Idle
      /\ lostUpdate => lostUpdate'
  BY <1>1, Finishing
<1>8. status'[l] # "absent" /\ (status'[l] = "PUBLISHED" => expiry'[l] # "unset")
  BY <1>3, <1>4
<1>9. QED
  BY <1>2, <1>4, <1>5, <1>6, <1>7, <1>8, OneRow

\* A date that passes is still a date.
LEMMA ExpireIInv ==
    ASSUME IInv, NEW l \in Listings, Expire(l) PROVE IInv'
<1>1. /\ expiry'[l] = "passed"
      /\ \A k \in Listings : k # l => expiry'[k] = expiry[k]
      /\ UNCHANGED <<status, content, txn, approved, lostUpdate>>
  BY DEF Expire, IInv, TypeOK
<1>2. TypeOK'
  BY DEF Expire, IInv, TypeOK
<1>3. ShapeOK' /\ LocksExclusive' /\ LockedStays'
  BY <1>1 DEF IInv, ShapeOK, LocksExclusive, LockedStays
<1>4. PublishedHasDate' /\ ApprovedContentUnlessLostUpdate'
  BY <1>1 DEF IInv, PublishedHasDate, ApprovedContentUnlessLostUpdate, OnMarket
<1>5. QED
  BY <1>2, <1>3, <1>4 DEF IInv

-----------------------------------------------------------------------------

\* The strengthened invariant holds in every reachable state.
THEOREM Invariance == Spec => []IInv
<1>1. Init => IInv
  BY InitIInv
<1>2. IInv /\ [Next]_vars => IInv'
  <2> SUFFICES ASSUME IInv, [Next]_vars PROVE IInv'
    OBVIOUS
  <2>1. CASE UNCHANGED vars
    BY <2>1 DEF vars, IInv, TypeOK, ShapeOK, LocksExclusive, LockedStays,
       PublishedHasDate, ApprovedContentUnlessLostUpdate, OnMarket
  <2>2. ASSUME NEW l \in Listings, Create(l) PROVE IInv'
    BY <2>2, CreateIInv
  <2>3. ASSUME NEW r \in Requests,
               \/ \E op \in Ops, l \in Listings : Check(r, op, l)
               \/ Update(r) \/ CommitEdit(r) \/ CommitTransition(r) \/ Abort(r)
        PROVE  IInv'
    BY <2>3, CheckIInv, UpdateIInv, CommitEditIInv, CommitTransitionIInv, AbortIInv
  <2>4. QED
    BY <2>1, <2>2, <2>3, ExpireIInv DEF Next
<1>3. QED
  BY <1>1, <1>2, PTL DEF Spec

\* Columns and locals have their types; SUSPENDED in particular never occurs.
THEOREM TypeCorrect == Spec => []TypeOK
<1>1. IInv => TypeOK
  BY DEF IInv
<1>2. QED
  BY <1>1, Invariance, PTL

\* The search and the page of a listing agree on what is public.
THEOREM SearchMatchesPageProved == Spec => []SearchMatchesPage
<1>1. IInv => SearchMatchesPage
  BY DEF IInv, TypeOK, PublishedHasDate, SearchMatchesPage, Visible, Searchable
<1>2. QED
  BY <1>1, Invariance, PTL

\* What is on the market is what was approved, unless an update was lost.
THEOREM ApprovedContentProved == Spec => []ApprovedContentUnlessLostUpdate
<1>1. IInv => ApprovedContentUnlessLostUpdate
  BY DEF IInv
<1>2. QED
  BY <1>1, Invariance, PTL

-----------------------------------------------------------------------------
(***************************************************************************)
(* Listings implements the review workflow of ListingReview.               *)
(***************************************************************************)

\* No handler has read a version that the listing has not had.
SeenOnce ==
    \A r \in Requests :
        txn[r].step # "idle" => txn[r].seen <= content[txn[r].listing]

\* Content only gains versions.
LEMMA NextSeenOnce == IInv /\ SeenOnce /\ [Next]_vars => SeenOnce'
<1> SUFFICES ASSUME IInv, SeenOnce, [Next]_vars,
                    NEW r \in Requests, txn'[r].step # "idle"
             PROVE  txn'[r].seen <= content'[txn'[r].listing]
  BY DEF SeenOnce
<1>1. \A l \in Listings : content[l] \in Nat /\ content'[l] \in Nat /\ content[l] <= content'[l]
  <2>1. \A l \in Listings : content[l] \in Nat
    BY BoundsAssumption DEF IInv, TypeOK
  <2>2. CASE UNCHANGED content
    BY <2>1, <2>2
  <2>3. CASE \E q \in Requests : CommitEdit(q)
    BY <2>1, <2>3 DEF CommitEdit, IInv, TypeOK
  <2>4. QED
    BY <2>2, <2>3 DEF Next, vars, Create, Expire, Check, Update, CommitTransition, Abort
<1>2. CASE /\ txn[r].step # "idle"
           /\ txn'[r].seen = txn[r].seen /\ txn'[r].listing = txn[r].listing
  <2>1. txn[r].seen <= content[txn[r].listing] /\ txn[r].listing \in Listings
    BY <1>2 DEF SeenOnce, IInv, ShapeOK
  <2>2. txn[r].seen \in Nat
    BY BoundsAssumption DEF IInv, TypeOK, Request
  <2>3. QED
    BY <1>1, <1>2, <2>1, <2>2
<1>3. CASE \E op \in Ops, l \in Listings : Check(r, op, l)
  BY <1>1, <1>3 DEF Check, IInv, TypeOK
<1>4. CASE Update(r)
  BY <1>2, <1>4 DEF Update, IInv, TypeOK, Request
<1>5. CASE Finish(r) \/ Abort(r)
  BY <1>5, IdleFields DEF Finish, Abort, IInv, TypeOK
<1>6. CASE txn'[r] = txn[r]
  BY <1>2, <1>6
<1>7. ASSUME NEW q \in Requests, q # r,
             \/ \E op \in Ops, l \in Listings : Check(q, op, l)
             \/ Update(q) \/ CommitEdit(q) \/ CommitTransition(q) \/ Abort(q)
      PROVE  txn'[r] = txn[r]
  BY <1>7 DEF Check, Update, CommitEdit, CommitTransition, Finish, Abort, IInv, TypeOK
<1>8. CASE UNCHANGED txn
  BY <1>6, <1>8
<1>9. QED
  BY <1>3, <1>4, <1>5, <1>6, <1>7, <1>8
     DEF Next, vars, Create, Expire, CommitEdit, CommitTransition

\* The commit of an edit.
LEMMA CommitEditIsReview ==
    ASSUME IInv, NEW r \in Requests, CommitEdit(r) PROVE Review!Next
<1>1. /\ txn[r].listing \in Listings /\ status[txn[r].listing] # "absent"
      /\ ~lostUpdate' => ~lostUpdate /\ status[txn[r].listing] \in From("update")
      /\ lostUpdate' \in BOOLEAN
  BY Finishing DEF CommitEdit
<1>2. /\ content' = [content EXCEPT ![txn[r].listing] = @ + 1]
      /\ UNCHANGED <<status, approved>>
  BY DEF CommitEdit
<1>3. CASE lostUpdate'
  BY <1>1, <1>2, <1>3 DEF Review!Next, Review!Overwrite, Review!OverwriteContent
<1>4. CASE ~lostUpdate'
  <2>1. lostUpdate' = lostUpdate /\ status[txn[r].listing] \in {"DRAFT", "REJECTED"}
    BY <1>1, <1>4 DEF From, Editable, IInv, TypeOK
  <2>2. QED
    BY <1>1, <1>2, <2>1 DEF Review!Next, Review!Edit
<1>5. QED
  BY <1>3, <1>4

\* Each endpoint but approve is a move of the workflow.
LEMMA EndpointsAreMoves ==
    ASSUME NEW op \in Transitions \ {"approve"}, NEW old \in From(op)
    PROVE  <<old, To(op)>> \in Review!Workflow
BY DEF Transitions, From, To, Review!Workflow

\* The commit of any other decision.
LEMMA CommitTransitionIsReview ==
    ASSUME IInv, SeenOnce, NEW r \in Requests, CommitTransition(r)
    PROVE  Review!Next
<1>0. PICK l, op : l = txn[r].listing /\ op = txn[r].op
  OBVIOUS
<1>1. /\ op \in Transitions /\ Finish(r) /\ UNCHANGED content
      /\ status' = [status EXCEPT ![l] = To(op)]
      /\ approved' = IF op = "approve" THEN [approved EXCEPT ![l] = txn[r].seen + 1]
                                       ELSE approved
  BY <1>0 DEF CommitTransition
<1>2. /\ l \in Listings /\ status[l] # "absent" /\ lostUpdate' \in BOOLEAN
      /\ ~lostUpdate' => /\ ~lostUpdate /\ status[l] \in From(op)
                         /\ op = "approve" => txn[r].seen = content[l]
  BY <1>0, <1>1, Finishing
<1>3. To(op) \in Review!Statuses
  BY <1>1 DEF To, Transitions, Review!Statuses
<1>4. CASE lostUpdate'
  <2>1. txn[r].seen \in 0 .. content[l]
    BY <1>0, <1>1, <1>2, BoundsAssumption DEF Finish, SeenOnce, IInv, TypeOK, Request
  <2>2. op = "approve" => To(op) = "APPROVED"
    BY DEF To
  <2>3. Review!OverwriteStatus(l, To(op))
    BY <1>1, <2>1, <2>2 DEF Review!OverwriteStatus
  <2>4. QED
    BY <1>2, <1>3, <1>4, <2>3 DEF Review!Next, Review!Overwrite
<1>5. CASE ~lostUpdate' /\ op = "approve"
  <2>1. lostUpdate' = lostUpdate /\ status[l] = "PENDING_REVIEW"
    BY <1>2, <1>5 DEF From, IInv, TypeOK
  <2>2. To(op) = "APPROVED" /\ txn[r].seen = content[l]
    BY <1>2, <1>5 DEF To
  <2>3. Review!Approve(l)
    BY <1>1, <1>5, <2>1, <2>2 DEF Review!Approve
  <2>4. QED
    BY <1>2, <2>3 DEF Review!Next
<1>6. CASE ~lostUpdate' /\ op # "approve"
  <2>1. lostUpdate' = lostUpdate /\ <<status[l], To(op)>> \in Review!Workflow
    BY <1>1, <1>2, <1>6, EndpointsAreMoves DEF IInv, TypeOK
  <2>2. Review!Move(l, To(op))
    BY <1>1, <1>6, <2>1 DEF Review!Move
  <2>3. QED
    BY <1>2, <1>3, <2>2 DEF Review!Next
<1>7. QED
  BY <1>4, <1>5, <1>6

\* Overlapping and aborted handlers together do what agents and administrators
\* one at a time would, but for overwrites that leave their mark.
THEOREM ImplementsReviewProved == Spec => ImplementsReview
<1>1. Init => Review!Init /\ SeenOnce
  BY IdleFields DEF Init, Review!Init, SeenOnce
<1>2. IInv /\ SeenOnce /\ [Next]_vars => [Review!Next]_(Review!vars)
  <2> SUFFICES ASSUME IInv, SeenOnce, [Next]_vars
               PROVE  [Review!Next]_(Review!vars)
    OBVIOUS
  <2>1. CASE UNCHANGED <<status, content, approved, lostUpdate>>
    BY <2>1 DEF Review!vars
  <2>2. ASSUME NEW l \in Listings, Create(l) PROVE Review!Next
    BY <2>2 DEF Create, Review!Next, Review!Draft
  <2>3. CASE UNCHANGED vars
    BY <2>1, <2>3 DEF vars
  <2>4. CASE Next
    BY <2>1, <2>2, <2>4, CommitEditIsReview, CommitTransitionIsReview
       DEF Next, Expire, Check, Update, Abort
  <2>5. QED
    BY <2>3, <2>4
<1>3. QED
  BY <1>1, <1>2, NextSeenOnce, Invariance, PTL DEF Spec, ImplementsReview, Review!Spec

-----------------------------------------------------------------------------
(***************************************************************************)
(* Requests that do not decide on the same listing at the same time.       *)
(***************************************************************************)

\* While a listing is submitted, reviewed or moved, nothing else is done to it.
\* Edits may overlap edits.
NoOverlap ==
    \A q, r \in Requests :
        /\ q # r
        /\ txn[q].step # "idle" /\ txn[r].step # "idle"
        /\ txn[q].listing = txn[r].listing
        => txn[q].op = "update" /\ txn[r].op = "update"

\* What a handler checked still holds.
NothingStale ==
    /\ ~lostUpdate
    /\ \A r \in Requests :
          /\ ~txn[r].stale
          /\ txn[r].step = "checked" => ~Overtaken(r, txn[r].listing)

\* Without overlaps, nobody's check goes stale.
LEMMA NextNothingStale ==
    IInv /\ NothingStale /\ NoOverlap /\ [Next]_vars => NothingStale'
<1> SUFFICES ASSUME IInv, NothingStale, NoOverlap, [Next]_vars PROVE NothingStale'
  OBVIOUS
<1>1. ASSUME NEW r \in Requests, NEW t,
             txn' = [txn EXCEPT ![r] = t], ~t.stale, ~lostUpdate',
             t.step = "checked" =>
                /\ status'[t.listing] \in From(t.op)
                /\ t.op = "approve" => content'[t.listing] = t.seen,
             \A q \in Requests \ {r} : txn[q].step = "checked" =>
                /\ status'[txn[q].listing] = status[txn[q].listing]
                /\ txn[q].op = "approve" =>
                      content'[txn[q].listing] = content[txn[q].listing]
      PROVE  NothingStale'
  <2>1. txn'[r] = t /\ \A q \in Requests \ {r} : txn'[q] = txn[q]
    BY <1>1 DEF IInv, TypeOK
  <2>2. QED
    BY <1>1, <2>1 DEF NothingStale, Overtaken
<1>2. CASE UNCHANGED <<status, content, txn, lostUpdate>>
  BY <1>2 DEF NothingStale, Overtaken
<1>3. ASSUME NEW l \in Listings, Create(l) PROVE NothingStale'
  <2>1. \A q \in Requests : txn[q].step = "checked" =>
           status'[txn[q].listing] = status[txn[q].listing]
    BY <1>3 DEF Create, IInv, TypeOK, ShapeOK
  <2>2. QED
    BY <1>3, <2>1 DEF Create, NothingStale, Overtaken
<1>4. ASSUME NEW r \in Requests, NEW op \in Ops, NEW l \in Listings, Check(r, op, l)
      PROVE  NothingStale'
  <2> DEFINE t == [op |-> op, step |-> "checked", listing |-> l,
                   seen |-> content[l], stale |-> FALSE]
  <2>1. /\ txn' = [txn EXCEPT ![r] = t] /\ UNCHANGED <<status, content, lostUpdate>>
        /\ status[l] \in From(op)
    BY <1>4 DEF Check
  <2>2. t.op = op /\ t.listing = l /\ t.seen = content[l] /\ ~t.stale
    OBVIOUS
  <2> HIDE DEF t
  <2>3. QED
    BY <1>1, <2>1, <2>2 DEF NothingStale
<1>5. ASSUME NEW r \in Requests, Update(r) PROVE NothingStale'
  <2> DEFINE over == Overtaken(r, txn[r].listing)
             t == [txn[r] EXCEPT !.step = "locked", !.stale = over]
  <2>1. txn[r] \in Request /\ txn[r].step = "checked" /\ ~over
    BY <1>5 DEF Update, NothingStale, IInv, TypeOK
  <2>2. txn' = [txn EXCEPT ![r] = t] /\ UNCHANGED <<status, content, lostUpdate>>
    BY <1>5 DEF Update, IInv, TypeOK
  <2>3. t.step = "locked" /\ ~t.stale
    BY <2>1 DEF Request
  <2> HIDE DEF t, over
  <2>4. QED
    BY <1>1, <2>2, <2>3 DEF NothingStale
<1>6. ASSUME NEW r \in Requests, CommitEdit(r) \/ CommitTransition(r)
      PROVE  NothingStale'
  <2>1. /\ txn[r].listing \in Listings /\ txn[r].op \in Ops
        /\ txn' = [txn EXCEPT ![r] = Idle] /\ ~lostUpdate'
        /\ txn[r].step = "locked"
    BY <1>6, Finishing DEF CommitEdit, CommitTransition, Finish, NothingStale
  <2>2. ~Idle.stale /\ Idle.step # "checked"
    BY DEF Idle
  <2>3. /\ \A k \in Listings : k # txn[r].listing =>
              status'[k] = status[k] /\ content'[k] = content[k]
        /\ txn[r].op = "update" => status' = status
    BY <1>6, <2>1 DEF CommitEdit, CommitTransition, IInv, TypeOK, Transitions
  <2>4. ASSUME NEW q \in Requests \ {r}, txn[q].step = "checked"
        PROVE  /\ status'[txn[q].listing] = status[txn[q].listing]
               /\ txn[q].op = "approve" =>
                     content'[txn[q].listing] = content[txn[q].listing]
    <3>1. txn[q].listing \in Listings
      BY <2>4 DEF IInv, ShapeOK
    <3>2. txn[q].listing = txn[r].listing =>
             txn[q].op = "update" /\ txn[r].op = "update"
      BY <2>1, <2>4 DEF NoOverlap
    <3>3. QED
      BY <2>3, <3>1, <3>2
  <2>5. QED
    BY <1>1, <2>1, <2>2, <2>4
<1>7. ASSUME NEW r \in Requests, Abort(r) PROVE NothingStale'
  <2>1. ~Idle.stale /\ Idle.step # "checked"
    BY DEF Idle
  <2>2. QED
    BY <1>1, <1>7, <2>1 DEF Abort, NothingStale
<1>8. QED
  BY <1>2, <1>3, <1>4, <1>5, <1>6, <1>7 DEF Next, vars, Expire

\* An unreviewed version reaches the public by overlapping requests only: while
\* no decision on a listing overlaps another request for it, what the public
\* sees is what the last approval read.
THEOREM PublicIsApprovedAlone == Spec /\ []NoOverlap => []PublicIsApproved
<1>1. Init => NothingStale
  <2>1. ~Idle.stale /\ Idle.step # "checked"
    BY DEF Idle
  <2>2. QED
    BY <2>1 DEF Init, NothingStale
<1>2. IInv /\ NothingStale => PublicIsApproved
  BY DEF IInv, NothingStale, ApprovedContentUnlessLostUpdate, PublicIsApproved,
     Visible, OnMarket
<1>3. QED
  BY <1>1, <1>2, NextNothingStale, Invariance, PTL DEF Spec
=============================================================================
