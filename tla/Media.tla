------------------------------- MODULE Media -------------------------------
(***************************************************************************)
(* The images of one listing: app/domains/media/{service,repository,       *)
(* models,router}.py and the partial unique index of the migration         *)
(* 2026_07_31_1451.  Listings share no row of property_images, so one is   *)
(* enough.                                                                 *)
(*                                                                         *)
(* Transactions are as in Bookings: READ COMMITTED, unlocked SELECTs, row  *)
(* locks that UPDATE and DELETE wait for and hold to the end, writes that  *)
(* the commit makes visible.  Two things are new here.                     *)
(*                                                                         *)
(*  - UPDATE ... WHERE is_primary finds its rows in one snapshot, waits    *)
(*    for their locks, and skips those that no longer match when it has    *)
(*    them; a row that became primary meanwhile it never sees.             *)
(*  - uq_property_primary_image makes whoever sets is_primary wait for     *)
(*    every transaction that could still change which row is primary, and  *)
(*    then refuses a second one (IntegrityError).                          *)
(*                                                                         *)
(* Handlers hold several locks and take them in no common order, so they   *)
(* can wait for each other in a circle; PostgreSQL finds that and rolls    *)
(* one of them back.                                                       *)
(*                                                                         *)
(* Uploads and virtual tours are rows of their own that no operation here  *)
(* looks at, but for the existence of the asset, which is given.           *)
(***************************************************************************)
EXTENDS Naturals, FiniteSets

CONSTANTS
    Requests,      \* handlers that may be in flight together
    Images,        \* primary keys, numbers in the order PostgreSQL sorts them
    Positions,     \* the display_order an attach may ask for
    Arrangements,  \* the orders a reorder may ask for, image -> position
    MaxImages,     \* MAX_PROPERTY_IMAGES
    Unlisted,      \* "not in image_ids_in_order"
    NoImage

ASSUME ImagesAssumption ==
    /\ Images \subseteq Nat
    /\ NoImage \notin Images
    /\ Positions \subseteq Nat
    /\ Arrangements \subseteq [Images -> Nat \cup {Unlisted}]

ASSUME LimitAssumption == MaxImages \in Nat

ASSUME RequestsAssumption == IsFiniteSet(Requests) /\ Requests # {}

VARIABLES
    row,       \* property_images: is the image's row there
    primary,   \* the rows with is_primary
    order,     \* display_order
    txn,       \* the handler of each request
    overtaken, \* history: a commit acted on a gallery that was another by then
    mixed      \* history: a reorder left out an image that had moved meanwhile

vars == <<row, primary, order, txn, overtaken, mixed>>

Attached == {i \in Images : row[i] = "attached"}

Steps == {"idle", "delete", "list", "clear", "clearing", "find", "promote",
          "mark", "move", "written"}

\* A handler's locals.  `flag` is is_primary of an attach, was_primary of a
\* delete, and says of a reorder that a row it was to change is gone; `seen` is
\* what it counted, listed or found out of place, `found` the rows its UPDATE
\* still has to lock.
Request == [op : {"none", "attach", "delete", "reorder"}, step : Steps,
            image : Images \cup {NoImage}, flag : BOOLEAN, position : Nat,
            seen : SUBSET Images, found : SUBSET Images, locks : SUBSET Images,
            target : Images \cup {NoImage},
            list : [Images -> Nat \cup {Unlisted}]]

NoList == [i \in Images |-> Unlisted]

Idle == [op |-> "none", step |-> "idle", image |-> NoImage, flag |-> FALSE,
         position |-> 0, seen |-> {}, found |-> {}, locks |-> {},
         target |-> NoImage, list |-> NoList]

TypeOK ==
    /\ row \in [Images -> {"absent", "attached", "deleted"}]
    /\ primary \subseteq Attached
    /\ order \in [Images -> Nat]
    /\ txn \in [Requests -> Request]
    /\ overtaken \in BOOLEAN
    /\ mixed \in BOOLEAN

Init ==
    /\ row = [i \in Images |-> "absent"]
    /\ primary = {}
    /\ order = [i \in Images |-> 0]
    /\ txn = [r \in Requests |-> Idle]
    /\ overtaken = FALSE
    /\ mixed = FALSE

(***************************************************************************)
(* Transactions.                                                           *)
(***************************************************************************)

At(r, op, step) == txn[r].op = op /\ txn[r].step = step

Begin(r, req) == txn[r] = Idle /\ txn' = [txn EXCEPT ![r] = req]

\* A statement that changes nothing others can see before the commit.
Statement(r, locals) ==
    /\ txn' = [txn EXCEPT ![r] = locals]
    /\ UNCHANGED <<row, primary, order, overtaken, mixed>>

\* get_db()'s rollback: a database error, a lost connection, a killed worker.
Abort(r) == txn[r] # Idle /\ Statement(r, Idle)

Finish(r) == txn' = [txn EXCEPT ![r] = Idle]

(***************************************************************************)
(* Row locks and the index: whom a handler waits for.                      *)
(***************************************************************************)

\* One row after the other, as the request names them.
AsNamed(r) ==
    {i \in txn[r].found : \A j \in txn[r].found : txn[r].list[i] <= txn[r].list[j]}

\* The unit of work writes rows in the order of their keys.
ByKey(r) == {i \in txn[r].found : \A j \in txn[r].found : i <= j}

\* The rows whose is_primary the handler sets.
Sets(r) ==
    IF txn[r].op = "attach" /\ txn[r].flag THEN {txn[r].image}
    ELSE {txn[r].target} \ {NoImage}

\* A new entry of the partial index that is not committed yet.
Marking(r) == txn[r].step = "written" /\ Sets(r) # {}

\* The committed entries of the index that the handler does not replace.
Others(r) == primary \ (txn[r].locks \cup Sets(r))

\* The rows that the statement a handler is at has to lock, or to see settled.
Needs(r) ==
    CASE txn[r].step = "delete"   -> {txn[r].image}
      [] txn[r].step = "clearing" -> txn[r].found
      [] txn[r].step = "promote"  -> {txn[r].target}
      [] txn[r].step = "move"     -> ByKey(r)
      [] txn[r].step = "mark"     -> Others(r)
      [] OTHER                    -> {}

WaitsFor(r, q) ==
    /\ r # q
    /\ \/ Needs(r) \cap txn[q].locks # {}
       \/ txn[r].step = "mark" /\ Marking(q)

Unblocked(r) == \A q \in Requests : ~WaitsFor(r, q)

\* Handlers who all wait for each other.
WaitCircle(S) == S # {} /\ \A p \in S : \E q \in S : WaitsFor(p, q)

(***************************************************************************)
(* The primary flag.                                                       *)
(***************************************************************************)

\* _clear_primary: the rows the UPDATE's snapshot matches.
Clear(r) ==
    /\ txn[r].step = "clear"
    /\ Statement(r, [txn[r] EXCEPT !.step = "clearing",
                                   !.found = primary \ txn[r].locks])

\* The UPDATE has waited for them, and changes those that still match.
Cleared(r) ==
    /\ txn[r].step = "clearing"
    /\ Unblocked(r)
    /\ Statement(r, [txn[r] EXCEPT
                        !.step = IF txn[r].op = "attach" THEN "mark" ELSE "find",
                        !.locks = @ \cup (txn[r].found \cap primary),
                        !.found = {}])

\* No partial index: two rows may be primary.
NoIndex(r) == FALSE

\* A committed row keeps the index entry that the handler asks for.
Taken(r) == Others(r) # {}

\* IntegrityError is caught and the flush tried again, until it succeeds.
CaughtAndRetried(r) == Taken(r) /\ Statement(r, txn[r])

\* IntegrityError.
Refuse(r) == Taken(r) /\ Abort(r)

\* The flushed row gets its entry in uq_property_primary_image.
Mark(r) ==
    /\ txn[r].step = "mark"
    /\ Unblocked(r)
    /\ \/ Refuse(r)
       \/ ~Taken(r) /\ Statement(r, [txn[r] EXCEPT !.step = "written"])

(***************************************************************************)
(* attach_image                                                            *)
(***************************************************************************)

\* The new image's uuid4 key is nobody else's.
Fresh(i) == row[i] = "absent" /\ \A r \in Requests : txn[r].image # i

\* Off by one in the limit.
WithinLimitOrEqual == Cardinality(Attached) <= MaxImages

\* The count takes no lock: other requests may pass it too.
WithinLimit == Cardinality(Attached) < MaxImages

\* Only what the request says, without "first image is primary".
AsAsked(wanted) == wanted

IsPrimary(wanted) == wanted \/ Attached = {}

StartAttach(r, i, wanted, position) ==
    /\ Fresh(i)
    /\ WithinLimit
    /\ Begin(r, [Idle EXCEPT
                    !.op = "attach", !.image = i, !.position = position,
                    !.flag = IsPrimary(wanted), !.seen = Attached,
                    !.step = IF IsPrimary(wanted) THEN "clear" ELSE "written"])
    /\ UNCHANGED <<row, primary, order, overtaken, mixed>>

CommitAttach(r) ==
    LET i == txn[r].image IN
    /\ At(r, "attach", "written")
    /\ row' = [row EXCEPT ![i] = "attached"]
    /\ primary' = (primary \ txn[r].locks) \cup Sets(r)
    /\ order' = [order EXCEPT ![i] = txn[r].position]
    /\ overtaken' = (overtaken \/ (txn[r].seen # {} /\ Attached = {}))
    /\ Finish(r)
    /\ UNCHANGED mixed

(***************************************************************************)
(* delete_image                                                            *)
(***************************************************************************)

StartDelete(r, i) ==
    /\ i \in Attached
    /\ Begin(r, [Idle EXCEPT !.op = "delete", !.step = "delete", !.image = i,
                             !.flag = i \in primary])
    /\ UNCHANGED <<row, primary, order, overtaken, mixed>>

\* A row that is gone is a warning of SQLAlchemy's, and the handler goes on.
DeleteRow(r) ==
    /\ At(r, "delete", "delete")
    /\ Unblocked(r)
    /\ Statement(r, [txn[r] EXCEPT
                        !.step = IF txn[r].flag THEN "list" ELSE "written",
                        !.locks = {txn[r].image} \cap Attached])

Remaining(r) == Attached \ {txn[r].image}

\* The first by display_order; rows that tie come in any order.
First(S) == {i \in S : \A j \in S : order[i] <= order[j]}

ListRemaining(r) ==
    /\ At(r, "delete", "list")
    /\ \/ /\ Remaining(r) = {}
          /\ Statement(r, [txn[r] EXCEPT !.step = "written"])
       \/ \E i \in First(Remaining(r)) :
             Statement(r, [txn[r] EXCEPT !.step = "clear", !.target = i,
                                         !.seen = Remaining(r)])

\* get_image_by_id: an image that is gone is no longer promoted, silently.
FindTarget(r) ==
    /\ At(r, "delete", "find")
    /\ IF txn[r].target \in Attached
       THEN Statement(r, [txn[r] EXCEPT !.step = "promote"])
       ELSE Statement(r, [txn[r] EXCEPT !.step = "written", !.target = NoImage])

\* An UPDATE that does not look at its row count.
NeverVanishes(i) == FALSE

Vanished(i) == i \notin Attached

\* The UPDATE of the promoted row; StaleDataError when it is gone by then.
Promote(r) ==
    LET i == txn[r].target IN
    /\ At(r, "delete", "promote")
    /\ Unblocked(r)
    /\ IF Vanished(i) THEN Abort(r)
       ELSE Statement(r, [txn[r] EXCEPT !.step = "mark", !.locks = @ \cup {i}])

\* was_primary has changed, or the gallery is not the one it promoted from.
GalleryChanged(r) ==
    \/ txn[r].flag # (txn[r].image \in primary)
    \/ txn[r].flag /\ txn[r].seen # Remaining(r)

CommitDelete(r) ==
    /\ At(r, "delete", "written")
    /\ row' = [row EXCEPT ![txn[r].image] = "deleted"]
    /\ primary' = ((primary \ txn[r].locks) \cup Sets(r)) \ {txn[r].image}
    /\ overtaken' = (overtaken \/ GalleryChanged(r))
    /\ Finish(r)
    /\ UNCHANGED <<order, mixed>>

(***************************************************************************)
(* reorder_images                                                          *)
(***************************************************************************)

\* The images that are not where the list puts them.
Misplaced(list) == {i \in Attached : list[i] \notin {Unlisted, order[i]}}

\* The loop ends one image early.
ButLast(list) ==
    {i \in Misplaced(list) : \E j \in Images : list[j] # Unlisted /\ list[i] < list[j]}

\* The rows that get another display_order: the others are not written.
Changed(list) == Misplaced(list)

StartReorder(r, list) ==
    /\ Changed(list) # {}
    /\ Begin(r, [Idle EXCEPT !.op = "reorder", !.step = "move", !.list = list,
                             !.seen = Misplaced(list), !.found = Changed(list)])
    /\ UNCHANGED <<row, primary, order, overtaken, mixed>>

\* One batch of UPDATEs, a changed row each, by primary key.  psycopg 3 counts
\* the rows when the whole batch is done: if one is gone, StaleDataError rolls
\* the others back too.
Move(r) ==
    /\ At(r, "reorder", "move")
    /\ Unblocked(r)
    /\ \E i \in ByKey(r) :
          LET gone == txn[r].flag \/ Vanished(i)
              last == txn[r].found = {i} IN
          \/ last /\ gone /\ Abort(r)
          \/ ~(last /\ gone)
             /\ Statement(r, [txn[r] EXCEPT
                    !.flag = gone, !.found = @ \ {i},
                    !.locks = @ \cup ({i} \cap Attached),
                    !.step = IF last THEN "written" ELSE "move"])

\* Only display_order changed: only that column is written.  An image that has
\* come, or left its place, since the handler looked at it is left where it is.
CommitReorder(r) ==
    /\ At(r, "reorder", "written")
    /\ order' = [i \in Images |-> IF i \in txn[r].locks THEN txn[r].list[i]
                                  ELSE order[i]]
    /\ mixed' = (mixed \/ ~(Misplaced(txn[r].list) \subseteq txn[r].seen))
    /\ Finish(r)
    /\ UNCHANGED <<row, primary, overtaken>>

(***************************************************************************)
(* The system.                                                             *)
(***************************************************************************)

Proceed(r) ==
    \/ Clear(r) \/ Cleared(r) \/ Mark(r)
    \/ CommitAttach(r)
    \/ DeleteRow(r) \/ ListRemaining(r) \/ FindTarget(r) \/ Promote(r)
    \/ CommitDelete(r)
    \/ Move(r) \/ CommitReorder(r)

\* PostgreSQL's deadlock detector rolls back a handler that is one of several
\* who all wait for each other.
BreakDeadlock(r) ==
    /\ \E S \in SUBSET Requests : r \in S /\ WaitCircle(S)
    /\ Abort(r)

Next ==
    \E r \in Requests :
       \/ \E i \in Images, wanted \in BOOLEAN, position \in Positions :
             StartAttach(r, i, wanted, position)
       \/ \E i \in Images : StartDelete(r, i)
       \/ \E list \in Arrangements : StartReorder(r, list)
       \/ Proceed(r)
       \/ Abort(r)

Spec == Init /\ [][Next]_vars

\* As in Bookings, handlers run and get the locks they wait for; a circle of
\* waiters is found and broken.
FairSpec ==
    /\ Spec
    /\ \A r \in Requests : SF_vars(Proceed(r))
    /\ WF_vars(\E r \in Requests : BreakDeadlock(r))

-----------------------------------------------------------------------------
(***************************************************************************)
(* Properties.                                                             *)
(***************************************************************************)

\* "Exactly one image per property should be is_primary=True" (models.py),
\* one half of it: however attaches and deletes interleave, two rows are never
\* primary together.  Clearing before setting does not achieve that.
AtMostOnePrimary == Cardinality(primary) <= 1

\* The other half: a gallery that is not empty has a primary image, until a
\* handler commits although the gallery it counted or listed, or the flag it
\* read, has changed under it.  Within one handler, promotion misses nothing.
PrimaryUnlessOvertaken == ~overtaken => (Attached # {} => primary # {})

\* The images attached or being attached.
Attaching == Attached \cup {i \in Images : \E r \in Requests :
                               txn[r].op = "attach" /\ txn[r].image = i}

\* The limit is counted without a lock, and exceeded by no more than the
\* requests that run together with the one that reaches it.
ImagesOvershootBounded ==
    Cardinality(Attaching) + 1 <= MaxImages + Cardinality(Requests)

\* Reorders lock their rows in the order of the keys, and deletes that promote
\* nothing lock one row: these never deadlock among each other.  A circle of
\* waiters has a handler that moves the primary flag.
DeadlockMovesPrimary ==
    \A S \in SUBSET Requests :
        WaitCircle(S) => \E r \in S : txn[r].op \in {"attach", "delete"} /\ txn[r].flag

\* The images as visitors see them, with no requests in flight.
Shown == INSTANCE Gallery
    WITH row <- row, primary <- primary, order <- order, upset <- overtaken,
         mixed <- mixed

\* Whatever handlers overlap, wait, fail and roll back, a commit adds, deletes
\* or rearranges images as one request would, or is marked: as overtaken, or as
\* a reorder that left an image where others had put it meanwhile.
ImplementsGallery == Shown!Spec

\* Attach, delete and reorder can deadlock, and every request ends all the same.
EveryRequestEnds == \A r \in Requests : (txn[r] # Idle) ~> (txn[r] = Idle)
=============================================================================
