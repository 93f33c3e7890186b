---------------------------- MODULE MediaProofs ----------------------------
(***************************************************************************)
(* What TLAPS proves about Media, for any number of images and requests.   *)
(*                                                                         *)
(* Which rows are primary says nothing of a handler that has cleared a     *)
(* flag and is about to set one.  IInv adds what such a handler knows: the *)
(* rows it holds are nobody else's and still there, only one handler has   *)
(* an uncommitted index entry, and every other primary row is one that     *)
(* this handler has cleared.                                               *)
(***************************************************************************)
EXTENDS Media, Counting, TLAPS

AttachOK(t) ==
    /\ t.image \in Images /\ row[t.image] = "absent"
    /\ t.target = NoImage
    /\ t.step \in {"clear", "clearing", "mark", "written"}
    /\ ~t.flag => t.step = "written" /\ t.locks = {} /\ t.seen # {}

DeleteOK(t) ==
    /\ t.image \in Images /\ row[t.image] # "absent"
    /\ t.step \in {"delete", "list", "clear", "clearing", "find", "promote",
                   "mark", "written"}
    /\ t.step # "delete" => t.image \in t.locks \/ row[t.image] = "deleted"
    /\ t.step \in {"delete", "list"} => t.target = NoImage /\ t.seen = {}
    /\ ~t.flag => t.step \in {"delete", "written"} /\ t.target = NoImage
    /\ t.step \in {"clear", "clearing", "find", "promote", "mark"} =>
          t.target \in t.seen
    /\ t.target # NoImage => t.target # t.image
    /\ t.step \in {"mark", "written"} /\ t.target # NoImage => t.target \in t.locks
    /\ t.step = "written" /\ t.target = NoImage /\ t.seen # {} =>
          \E i \in t.seen : row[i] = "deleted"
    /\ \A i \in t.seen : row[i] # "absent"
    /\ t.step = "delete" => t.locks = {}
    /\ ~t.flag => t.locks \subseteq {t.image}

ReorderOK(t) ==
    /\ t.step \in {"move", "written"}
    /\ t.target = NoImage
    /\ \A i \in t.found \cup t.locks : t.list[i] # Unlisted
    /\ t.flag \/ t.seen \subseteq t.found \cup t.locks
    /\ t.step = "written" => ~t.flag /\ t.found = {}

\* What a handler with the locals t may rely on.
RequestOK(t) ==
    /\ t.op = "none" => t = Idle
    /\ t.locks \subseteq Attached
    /\ t.op = "attach" => AttachOK(t)
    /\ t.op = "delete" => DeleteOK(t)
    /\ t.op = "reorder" => ReorderOK(t)

\* Sets(r), for the locals t.
SetsOf(t) ==
    IF t.op = "attach" /\ t.flag THEN {t.image} ELSE {t.target} \ {NoImage}

\* Two handlers share no row lock and no new key.
Apart(t, u) ==
    /\ t.locks \cap u.locks = {}
    /\ t.op = "attach" /\ u.op = "attach" => t.image # u.image

HandlersApart == \A q, r \in Requests : q # r => Apart(txn[q], txn[r])

OneMarking == \A q, r \in Requests : Marking(q) /\ Marking(r) => q = r

\* Whoever has the uncommitted entry has cleared all committed ones.
MarkedAlone == \A r \in Requests : Marking(r) => Others(r) = {}

PrimaryUnique == \A i, j \in primary : i = j

IInv ==
    /\ TypeOK
    /\ \A r \in Requests : RequestOK(txn[r])
    /\ HandlersApart
    /\ OneMarking
    /\ MarkedAlone
    /\ PrimaryUnique
    /\ PrimaryUnlessOvertaken

-----------------------------------------------------------------------------

\* The fields of a handler that has nothing to do.
LEMMA IdleFields ==
    /\ Idle \in Request
    /\ Idle.op = "none" /\ Idle.step = "idle" /\ Idle.locks = {}
    /\ Idle.target = NoImage /\ Idle.found = {} /\ Idle.seen = {}
    /\ Idle.image = NoImage
    /\ RequestOK(Idle) /\ SetsOf(Idle) = {}
<1>1. NoList \in [Images -> Nat \cup {Unlisted}]
  BY DEF NoList
<1>2. Idle \in Request
  BY <1>1 DEF Idle, Request, Steps
<1>3. /\ Idle.op = "none" /\ Idle.step = "idle" /\ Idle.locks = {}
      /\ Idle.target = NoImage /\ Idle.found = {} /\ Idle.seen = {}
      /\ Idle.image = NoImage
  BY DEF Idle
<1>4. RequestOK(Idle) /\ SetsOf(Idle) = {}
  BY <1>3 DEF RequestOK, SetsOf
<1>5. QED
  BY <1>2, <1>3, <1>4

\* SetsOf is Sets.
LEMMA SetsFact ==
    \A r \in Requests : /\ Sets(r) = SetsOf(txn[r])
                        /\ Marking(r) <=> txn[r].step = "written" /\ SetsOf(txn[r]) # {}
                        /\ Others(r) = primary \ (txn[r].locks \cup SetsOf(txn[r]))
BY DEF Sets, SetsOf, Marking, Others

\* An empty gallery.
LEMMA InitIInv == Init => IInv
<1> SUFFICES ASSUME Init PROVE IInv
  OBVIOUS
<1>1. TypeOK
  BY IdleFields DEF Init, TypeOK, Attached
<1>2. \A r \in Requests : txn[r] = Idle
  BY DEF Init
<1>3. \A r \in Requests : RequestOK(txn[r]) /\ ~Marking(r)
  BY <1>2, IdleFields, SetsFact
<1>4. HandlersApart
  BY <1>2, IdleFields DEF HandlersApart, Apart
<1>5. PrimaryUnique /\ PrimaryUnlessOvertaken
  BY DEF Init, PrimaryUnique, PrimaryUnlessOvertaken, Attached
<1>6. QED
  BY <1>1, <1>3, <1>4, <1>5 DEF IInv, OneMarking, MarkedAlone

\* A statement of one handler leaves the invariant if its new locals are in
\* order and in nobody's way.
LEMMA StatementIInv ==
    ASSUME IInv, NEW r \in Requests, NEW t \in Request, Statement(r, t),
           RequestOK(t),
           \A q \in Requests \ {r} : Apart(t, txn[q]),
           t.step = "written" /\ SetsOf(t) # {} =>
              /\ \A q \in Requests \ {r} : ~Marking(q)
              /\ primary \subseteq t.locks \cup SetsOf(t)
    PROVE  IInv'
<1>1. /\ txn' = [txn EXCEPT ![r] = t]
      /\ row' = row /\ primary' = primary /\ order' = order
      /\ overtaken' = overtaken /\ mixed' = mixed
  BY DEF Statement
<1>2. txn'[r] = t /\ \A q \in Requests : q # r => txn'[q] = txn[q]
  BY <1>1 DEF IInv, TypeOK
<1>3. Attached' = Attached
  BY <1>1 DEF Attached
<1>4. TypeOK'
  BY <1>1, <1>3 DEF IInv, TypeOK
<1>5. \A q \in Requests : RequestOK(txn[q])'
  BY <1>1, <1>2, <1>3 DEF IInv, RequestOK, AttachOK, DeleteOK, ReorderOK
<1>6. HandlersApart'
  BY <1>2 DEF IInv, HandlersApart, Apart
<1>7. \A q \in Requests :
         /\ Marking(q)' <=> txn'[q].step = "written" /\ SetsOf(txn'[q]) # {}
         /\ Others(q)' = primary \ (txn'[q].locks \cup SetsOf(txn'[q]))
  BY <1>1 DEF Sets, SetsOf, Marking, Others
<1>8. OneMarking' /\ MarkedAlone'
  BY <1>2, <1>7, SetsFact DEF IInv, OneMarking, MarkedAlone
<1>9. PrimaryUnique' /\ PrimaryUnlessOvertaken'
  BY <1>1, <1>3 DEF IInv, PrimaryUnique, PrimaryUnlessOvertaken
<1>10. QED
  BY <1>4, <1>5, <1>6, <1>8, <1>9 DEF IInv

LEMMA AbortIInv == ASSUME IInv, NEW r \in Requests, Abort(r) PROVE IInv'
<1>1. \A q \in Requests : Apart(Idle, txn[q])
  BY IdleFields DEF Apart
<1>2. QED
  BY <1>1, IdleFields, StatementIInv DEF Abort

-----------------------------------------------------------------------------

\* What IInv says of one handler, for use in the lemmas below.
LEMMA OneHandler ==
    ASSUME IInv, NEW r \in Requests
    PROVE  /\ txn[r] \in Request /\ RequestOK(txn[r])
           /\ \A q \in Requests \ {r} : Apart(txn[r], txn[q])
           /\ primary \subseteq Attached
BY DEF IInv, TypeOK, HandlersApart

LEMMA StartAttachIInv ==
    ASSUME IInv, NEW r \in Requests, NEW i \in Images, NEW wanted \in BOOLEAN,
           NEW position \in Positions, StartAttach(r, i, wanted, position)
    PROVE  IInv'
<1> DEFINE t == [Idle EXCEPT !.op = "attach", !.image = i, !.position = position,
                             !.flag = IsPrimary(wanted), !.seen = Attached,
                             !.step = IF IsPrimary(wanted) THEN "clear" ELSE "written"]
<1>1. IsPrimary(wanted) \in BOOLEAN
  BY DEF IsPrimary
<1>2. position \in Nat /\ Attached \subseteq Images
  BY ImagesAssumption DEF Attached
<1>3. /\ t \in Request /\ t.op = "attach" /\ t.image = i /\ t.locks = {}
      /\ t.flag = IsPrimary(wanted) /\ t.target = NoImage
      /\ t.step = IF IsPrimary(wanted) THEN "clear" ELSE "written"
      /\ ~IsPrimary(wanted) => t.seen # {}
  BY <1>1, <1>2, IdleFields DEF Idle, Request, Steps, IsPrimary
<1>4. Statement(r, t)
  BY DEF StartAttach, Begin, Statement
<1>5. row[i] = "absent" /\ \A q \in Requests : txn[q].image # i
  BY DEF StartAttach, Fresh
<1> HIDE DEF t
<1>6. RequestOK(t)
  BY <1>1, <1>3, <1>5 DEF RequestOK, AttachOK
<1>7. \A q \in Requests : Apart(t, txn[q])
  BY <1>3, <1>5 DEF Apart
<1>8. ~(t.step = "written" /\ SetsOf(t) # {})
  BY <1>1, <1>3 DEF SetsOf
<1>9. QED
  BY <1>3, <1>4, <1>6, <1>7, <1>8, StatementIInv

LEMMA StartDeleteIInv ==
    ASSUME IInv, NEW r \in Requests, NEW i \in Images, StartDelete(r, i)
    PROVE  IInv'
<1> DEFINE t == [Idle EXCEPT !.op = "delete", !.step = "delete", !.image = i,
                             !.flag = i \in primary]
<1>1. (i \in primary) \in BOOLEAN
  OBVIOUS
<1>2. /\ t \in Request /\ t.op = "delete" /\ t.step = "delete" /\ t.image = i
      /\ t.locks = {} /\ t.target = NoImage /\ t.seen = {}
  BY <1>1, IdleFields DEF Idle, Request, Steps
<1>3. Statement(r, t) /\ i \in Attached
  BY DEF StartDelete, Begin, Statement
<1> HIDE DEF t
<1>4. RequestOK(t)
  BY <1>2, <1>3 DEF RequestOK, DeleteOK, Attached
<1>5. \A q \in Requests : Apart(t, txn[q])
  BY <1>2 DEF Apart
<1>6. QED
  BY <1>2, <1>3, <1>4, <1>5, StatementIInv

LEMMA StartReorderIInv ==
    ASSUME IInv, NEW r \in Requests, NEW list \in Arrangements,
           StartReorder(r, list)
    PROVE  IInv'
<1> DEFINE t == [Idle EXCEPT !.op = "reorder", !.step = "move", !.list = list,
                             !.seen = Misplaced(list),
                             !.found = Changed(list)]
<1>1. /\ Misplaced(list) \subseteq Images /\ Changed(list) = Misplaced(list)
      /\ list \in [Images -> Nat \cup {Unlisted}]
  BY ImagesAssumption DEF Changed, Misplaced, Attached
<1>2. /\ t \in Request /\ t.op = "reorder" /\ t.step = "move"
      /\ t.locks = {} /\ t.target = NoImage /\ t.found = Misplaced(list)
      /\ t.seen = Misplaced(list) /\ t.list = list
  BY <1>1, IdleFields DEF Idle, Request, Steps
<1>3. Statement(r, t)
  BY DEF StartReorder, Begin, Statement
<1> HIDE DEF t
<1>4. RequestOK(t)
  BY <1>2 DEF RequestOK, ReorderOK, Misplaced
<1>5. \A q \in Requests : Apart(t, txn[q])
  BY <1>2 DEF Apart
<1>6. QED
  BY <1>2, <1>3, <1>4, <1>5, StatementIInv

\* A handler whose next step is not the last sets no entry.
LEMMA ClearIInv == ASSUME IInv, NEW r \in Requests, Clear(r) PROVE IInv'
<1> DEFINE t == [txn[r] EXCEPT !.step = "clearing", !.found = primary \ txn[r].locks]
<1>1. /\ txn[r] \in Request /\ RequestOK(txn[r]) /\ primary \subseteq Images
      /\ \A q \in Requests \ {r} : Apart(txn[r], txn[q])
  BY OneHandler DEF Attached
<1>2. /\ txn[r].step = "clear" /\ Statement(r, t)
  BY DEF Clear
<1>3. /\ t \in Request /\ t.step = "clearing" /\ t.op = txn[r].op
      /\ t.image = txn[r].image /\ t.locks = txn[r].locks /\ t.flag = txn[r].flag
      /\ t.target = txn[r].target /\ t.seen = txn[r].seen
  BY <1>1 DEF Request, Steps
<1> HIDE DEF t
<1>4. RequestOK(t)
  BY <1>1, <1>2, <1>3, IdleFields DEF RequestOK, AttachOK, DeleteOK, ReorderOK
<1>5. \A q \in Requests \ {r} : Apart(t, txn[q])
  BY <1>1, <1>3 DEF Apart
<1>6. QED
  BY <1>2, <1>3, <1>4, <1>5, StatementIInv

\* The rows that it has just locked are nobody else's.
LEMMA ClearedIInv == ASSUME IInv, NEW r \in Requests, Cleared(r) PROVE IInv'
<1> DEFINE next == IF txn[r].op = "attach" THEN "mark" ELSE "find"
           t == [txn[r] EXCEPT !.step = next,
                               !.locks = @ \cup (txn[r].found \cap primary),
                               !.found = {}]
<1>1. /\ txn[r] \in Request /\ RequestOK(txn[r]) /\ primary \subseteq Attached
      /\ Attached \subseteq Images
      /\ \A q \in Requests \ {r} : Apart(txn[r], txn[q])
  BY OneHandler DEF Attached
<1>2. txn[r].step = "clearing" /\ Unblocked(r) /\ Statement(r, t)
  BY DEF Cleared
<1>3. \A q \in Requests \ {r} : txn[r].found \cap txn[q].locks = {}
  BY <1>2 DEF Unblocked, WaitsFor, Needs
<1>4. /\ t \in Request /\ t.step = next /\ t.op = txn[r].op
      /\ t.image = txn[r].image /\ t.flag = txn[r].flag
      /\ t.locks = txn[r].locks \cup (txn[r].found \cap primary)
      /\ t.target = txn[r].target /\ t.seen = txn[r].seen
  BY <1>1 DEF Request, Steps
<1> HIDE DEF t
<1>5. RequestOK(t)
  BY <1>1, <1>2, <1>4, IdleFields DEF RequestOK, AttachOK, DeleteOK, ReorderOK
<1>6. \A q \in Requests \ {r} : Apart(t, txn[q])
  BY <1>1, <1>3, <1>4 DEF Apart
<1>7. QED
  BY <1>2, <1>4, <1>5, <1>6, StatementIInv

\* The index lets one handler in, when no other row is primary.
LEMMA MarkIInv == ASSUME IInv, NEW r \in Requests, Mark(r) PROVE IInv'
<1> DEFINE t == [txn[r] EXCEPT !.step = "written"]
<1>1. /\ txn[r] \in Request /\ RequestOK(txn[r])
      /\ \A q \in Requests \ {r} : Apart(txn[r], txn[q])
  BY OneHandler
<1>2. CASE Refuse(r)
  BY <1>2, AbortIInv DEF Refuse
<1>3. CASE ~Taken(r) /\ Statement(r, t)
  <2>1. txn[r].step = "mark" /\ Unblocked(r)
    BY DEF Mark
  <2>2. \A q \in Requests \ {r} : ~Marking(q)
    BY <2>1 DEF Unblocked, WaitsFor
  <2>3. /\ t \in Request /\ t.step = "written" /\ t.op = txn[r].op
        /\ t.image = txn[r].image /\ t.flag = txn[r].flag
        /\ t.locks = txn[r].locks
        /\ t.target = txn[r].target /\ t.seen = txn[r].seen
    BY <1>1 DEF Request, Steps
  <2> HIDE DEF t
  <2>4. primary \subseteq t.locks \cup SetsOf(t)
    BY <1>3, <2>3, SetsFact DEF Taken, SetsOf
  <2>5. txn[r].op = "delete" => txn[r].target # NoImage
    BY <1>1, <2>1, ImagesAssumption DEF RequestOK, DeleteOK, Request
  <2>6. RequestOK(t)
    BY <1>1, <2>1, <2>3, <2>5, IdleFields DEF RequestOK, AttachOK, DeleteOK, ReorderOK
  <2>7. \A q \in Requests \ {r} : Apart(t, txn[q])
    BY <1>1, <2>3 DEF Apart
  <2>8. QED
    BY <1>3, <2>2, <2>3, <2>4, <2>6, <2>7, StatementIInv
<1>4. QED
  BY <1>2, <1>3 DEF Mark

-----------------------------------------------------------------------------

\* The DELETE holds its row, or found it gone for good.
LEMMA DeleteRowIInv == ASSUME IInv, NEW r \in Requests, DeleteRow(r) PROVE IInv'
<1> DEFINE next == IF txn[r].flag THEN "list" ELSE "written"
           held == {txn[r].image} \cap Attached
           t == [txn[r] EXCEPT !.step = next, !.locks = held]
<1>1. /\ txn[r] \in Request /\ RequestOK(txn[r]) /\ Attached \subseteq Images
      /\ \A q \in Requests \ {r} : Apart(txn[r], txn[q])
  BY OneHandler DEF Attached
<1>2. /\ txn[r].op = "delete" /\ txn[r].step = "delete"
      /\ Unblocked(r) /\ Statement(r, t)
  BY DEF DeleteRow, At
<1>3. \A q \in Requests \ {r} : {txn[r].image} \cap txn[q].locks = {}
  BY <1>2 DEF Unblocked, WaitsFor, Needs
<1>4. /\ t \in Request /\ t.step = next /\ t.op = "delete"
      /\ t.image = txn[r].image /\ t.flag = txn[r].flag /\ t.locks = held
      /\ t.target = NoImage /\ t.seen = {}
  BY <1>1, <1>2 DEF Request, Steps, RequestOK, DeleteOK
<1>5. /\ txn[r].flag \in BOOLEAN /\ txn[r].image \in Images
      /\ row[txn[r].image] # "absent"
      /\ row \in [Images -> {"absent", "attached", "deleted"}]
  BY <1>1, <1>2 DEF Request, RequestOK, DeleteOK, IInv, TypeOK
<1> HIDE DEF t
<1>6. RequestOK(t)
  BY <1>4, <1>5 DEF RequestOK, DeleteOK, Attached
<1>7. \A q \in Requests \ {r} : Apart(t, txn[q])
  BY <1>3, <1>4 DEF Apart
<1>8. SetsOf(t) = {}
  BY <1>4 DEF SetsOf
<1>9. QED
  BY <1>2, <1>4, <1>6, <1>7, <1>8, StatementIInv

\* The image to promote is one of the rest.
LEMMA ListRemainingIInv ==
    ASSUME IInv, NEW r \in Requests, ListRemaining(r) PROVE IInv'
<1>1. /\ txn[r] \in Request /\ RequestOK(txn[r]) /\ Attached \subseteq Images
      /\ \A q \in Requests \ {r} : Apart(txn[r], txn[q])
  BY OneHandler DEF Attached
<1>2. txn[r].op = "delete" /\ txn[r].step = "list"
  BY DEF ListRemaining, At
<1>3. /\ txn[r].flag = TRUE /\ txn[r].target = NoImage /\ txn[r].seen = {}
  BY <1>1, <1>2 DEF Request, RequestOK, DeleteOK
<1>4. CASE Statement(r, [txn[r] EXCEPT !.step = "written"])
  <2> DEFINE t == [txn[r] EXCEPT !.step = "written"]
  <2>1. /\ t \in Request /\ t.step = "written" /\ t.op = "delete"
        /\ t.image = txn[r].image /\ t.flag = txn[r].flag
        /\ t.locks = txn[r].locks /\ t.target = NoImage /\ t.seen = {}
    BY <1>1, <1>2, <1>3 DEF Request, Steps
  <2>2. Statement(r, t)
    BY <1>4
  <2> HIDE DEF t
  <2>3. RequestOK(t)
    BY <1>1, <1>2, <1>3, <2>1 DEF RequestOK, DeleteOK
  <2>4. \A q \in Requests \ {r} : Apart(t, txn[q])
    BY <1>1, <1>2, <2>1 DEF Apart
  <2>5. SetsOf(t) = {}
    BY <2>1 DEF SetsOf
  <2>6. QED
    BY <2>1, <2>2, <2>3, <2>4, <2>5, StatementIInv
<1>5. ASSUME NEW i \in First(Remaining(r)),
             Statement(r, [txn[r] EXCEPT !.step = "clear", !.target = i,
                                         !.seen = Remaining(r)])
      PROVE  IInv'
  <2> DEFINE t == [txn[r] EXCEPT !.step = "clear", !.target = i,
                                 !.seen = Remaining(r)]
  <2>1. /\ i \in Remaining(r) /\ Remaining(r) \subseteq Images
        /\ i # txn[r].image /\ i # NoImage
        /\ \A j \in Remaining(r) : row[j] = "attached"
    BY <1>1, ImagesAssumption DEF First, Remaining, Attached
  <2>2. /\ t \in Request /\ t.step = "clear" /\ t.op = "delete"
        /\ t.image = txn[r].image /\ t.flag = txn[r].flag
        /\ t.locks = txn[r].locks /\ t.target = i /\ t.seen = Remaining(r)
    BY <1>1, <1>2, <2>1 DEF Request, Steps
  <2>3. Statement(r, t)
    BY <1>5
  <2> HIDE DEF t
  <2>4. RequestOK(t)
    BY <1>1, <1>2, <1>3, <2>1, <2>2 DEF RequestOK, DeleteOK
  <2>5. \A q \in Requests \ {r} : Apart(t, txn[q])
    BY <1>1, <1>2, <2>2 DEF Apart
  <2>6. QED
    BY <2>2, <2>3, <2>4, <2>5, StatementIInv
<1>6. QED
  BY <1>4, <1>5 DEF ListRemaining

\* An image of the list that is gone is gone for good.
LEMMA FindTargetIInv ==
    ASSUME IInv, NEW r \in Requests, FindTarget(r) PROVE IInv'
<1>1. /\ txn[r] \in Request /\ RequestOK(txn[r])
      /\ \A q \in Requests \ {r} : Apart(txn[r], txn[q])
  BY OneHandler
<1>2. /\ txn[r].op = "delete" /\ txn[r].step = "find"
      /\ txn[r].target \in txn[r].seen /\ txn[r].flag = TRUE
  BY <1>1 DEF FindTarget, At, RequestOK, DeleteOK, Request
<1>3. CASE Statement(r, [txn[r] EXCEPT !.step = "promote"])
  <2> DEFINE t == [txn[r] EXCEPT !.step = "promote"]
  <2>1. /\ t \in Request /\ t.step = "promote" /\ t.op = "delete"
        /\ t.image = txn[r].image /\ t.flag = txn[r].flag
        /\ t.locks = txn[r].locks /\ t.target = txn[r].target
        /\ t.seen = txn[r].seen
    BY <1>1, <1>2 DEF Request, Steps
  <2>2. Statement(r, t)
    BY <1>3
  <2> HIDE DEF t
  <2>3. RequestOK(t)
    BY <1>1, <1>2, <2>1 DEF RequestOK, DeleteOK
  <2>4. \A q \in Requests \ {r} : Apart(t, txn[q])
    BY <1>1, <1>2, <2>1 DEF Apart
  <2>5. QED
    BY <2>1, <2>2, <2>3, <2>4, StatementIInv
<1>4. CASE /\ txn[r].target \notin Attached
           /\ Statement(r, [txn[r] EXCEPT !.step = "written", !.target = NoImage])
  <2> DEFINE t == [txn[r] EXCEPT !.step = "written", !.target = NoImage]
  <2>1. /\ t \in Request /\ t.step = "written" /\ t.op = "delete"
        /\ t.image = txn[r].image /\ t.flag = txn[r].flag
        /\ t.locks = txn[r].locks /\ t.target = NoImage
        /\ t.seen = txn[r].seen
    BY <1>1, <1>2 DEF Request, Steps
  <2>2. Statement(r, t)
    BY <1>4
  <2> HIDE DEF t
  <2>3. row[txn[r].target] = "deleted" /\ txn[r].target \in t.seen
    <3>1. txn[r].target \in Images /\ row[txn[r].target] # "absent"
      BY <1>1, <1>2 DEF Request, RequestOK, DeleteOK
    <3>2. QED
      BY <1>2, <1>4, <2>1, <3>1 DEF IInv, TypeOK, Attached
  <2>7. RequestOK(t)
    BY <1>1, <1>2, <2>1, <2>3 DEF RequestOK, DeleteOK
  <2>4. \A q \in Requests \ {r} : Apart(t, txn[q])
    BY <1>1, <1>2, <2>1 DEF Apart
  <2>5. SetsOf(t) = {}
    BY <2>1 DEF SetsOf
  <2>6. QED
    BY <2>1, <2>2, <2>4, <2>5, <2>7, StatementIInv
<1>5. QED
  BY <1>3, <1>4 DEF FindTarget

\* The promoted row is locked, and there.
LEMMA PromoteIInv == ASSUME IInv, NEW r \in Requests, Promote(r) PROVE IInv'
<1> DEFINE i == txn[r].target
           t == [txn[r] EXCEPT !.step = "mark", !.locks = @ \cup {i}]
<1>1. /\ txn[r] \in Request /\ RequestOK(txn[r])
      /\ \A q \in Requests \ {r} : Apart(txn[r], txn[q])
  BY OneHandler
<1>2. /\ txn[r].op = "delete" /\ txn[r].step = "promote" /\ Unblocked(r)
      /\ i \in txn[r].seen /\ i \in Images
  BY <1>1 DEF Promote, At, RequestOK, DeleteOK, Request
<1>3. CASE Vanished(i)
  BY <1>3, AbortIInv DEF Promote
<1>4. CASE ~Vanished(i)
  <2>1. Statement(r, t) /\ i \in Attached
    BY <1>4 DEF Promote, Vanished
  <2>2. \A q \in Requests \ {r} : i \notin txn[q].locks
    BY <1>2 DEF Unblocked, WaitsFor, Needs
  <2>3. /\ t \in Request /\ t.step = "mark" /\ t.op = "delete"
        /\ t.image = txn[r].image /\ t.flag = txn[r].flag
        /\ t.locks = txn[r].locks \cup {i} /\ t.target = i
        /\ t.seen = txn[r].seen
    BY <1>1, <1>2 DEF Request, Steps
  <2> HIDE DEF t
  <2>4. RequestOK(t)
    BY <1>1, <1>2, <2>1, <2>3 DEF RequestOK, DeleteOK
  <2>5. \A q \in Requests \ {r} : Apart(t, txn[q])
    BY <1>1, <1>2, <2>2, <2>3 DEF Apart
  <2>6. QED
    BY <2>1, <2>3, <2>4, <2>5, StatementIInv
<1>5. QED
  BY <1>3, <1>4

\* The locals of a reorder that has come to the row i.
Gone(r, i) == txn[r].flag \/ Vanished(i)

Last(r, i) == txn[r].found = {i}

Moved(r, i) ==
    [txn[r] EXCEPT !.flag = Gone(r, i), !.found = @ \ {i},
                   !.locks = @ \cup ({i} \cap Attached),
                   !.step = IF Last(r, i) THEN "written" ELSE "move"]

LEMMA MoveCases ==
    ASSUME NEW r \in Requests, Move(r)
    PROVE  \E i \in ByKey(r) :
              \/ Abort(r)
              \/ ~(Last(r, i) /\ Gone(r, i)) /\ Statement(r, Moved(r, i))
BY DEF Move, Moved, Gone, Last

LEMMA MovedFields ==
    ASSUME NEW r \in Requests, txn[r] \in Request, NEW i \in Images
    PROVE  LET t == Moved(r, i) IN
           /\ t \in Request /\ t.op = txn[r].op /\ t.target = txn[r].target
           /\ t.list = txn[r].list /\ t.seen = txn[r].seen
           /\ t.step = IF Last(r, i) THEN "written" ELSE "move"
           /\ t.flag = Gone(r, i) /\ t.found = txn[r].found \ {i}
           /\ t.locks = txn[r].locks \cup ({i} \cap Attached)
<1> DEFINE gone == Gone(r, i)
           next == IF Last(r, i) THEN "written" ELSE "move"
           t == [txn[r] EXCEPT !.flag = gone, !.found = @ \ {i},
                               !.locks = @ \cup ({i} \cap Attached),
                               !.step = next]
<1>1. gone \in BOOLEAN /\ next \in Steps
  BY DEF Gone, Steps
<1> HIDE DEF gone, next
<1>2. /\ t \in Request /\ t.op = txn[r].op /\ t.target = txn[r].target
      /\ t.list = txn[r].list /\ t.seen = txn[r].seen /\ t.step = next
      /\ t.flag = gone /\ t.found = txn[r].found \ {i}
      /\ t.locks = txn[r].locks \cup ({i} \cap Attached)
  BY <1>1 DEF Request
<1>3. QED
  BY <1>2 DEF Moved, gone, next

\* A reorder gets to its end with every row that it found out of place locked:
\* one that is gone takes it back instead.
LEMMA MoveIInv == ASSUME IInv, NEW r \in Requests, Move(r) PROVE IInv'
<1>1. /\ txn[r] \in Request /\ RequestOK(txn[r])
      /\ \A q \in Requests \ {r} : Apart(txn[r], txn[q])
  BY OneHandler
<1>2. txn[r].op = "reorder" /\ txn[r].step = "move" /\ Unblocked(r)
  BY DEF Move, At
<1>3. PICK i \in ByKey(r) : \/ Abort(r)
                           \/ /\ ~(Last(r, i) /\ Gone(r, i))
                              /\ Statement(r, Moved(r, i))
  BY MoveCases
<1>4. CASE Abort(r)
  BY <1>4, AbortIInv
<1>5. CASE ~(Last(r, i) /\ Gone(r, i)) /\ Statement(r, Moved(r, i))
  <2> DEFINE t == Moved(r, i)
  <2>1. /\ i \in txn[r].found /\ i \in Images
        /\ \A q \in Requests \ {r} : i \notin txn[q].locks
    BY <1>1, <1>2 DEF Unblocked, WaitsFor, Needs, ByKey, Request
  <2>2. /\ t \in Request /\ t.op = "reorder" /\ t.target = txn[r].target
        /\ t.list = txn[r].list /\ t.seen = txn[r].seen
        /\ t.step = IF Last(r, i) THEN "written" ELSE "move"
        /\ t.flag = Gone(r, i) /\ t.found = txn[r].found \ {i}
        /\ t.locks = txn[r].locks \cup ({i} \cap Attached)
    BY <1>1, <1>2, <2>1, MovedFields
  <2> HIDE DEF t
  <2>3. ReorderOK(t)
    <3>1. ReorderOK(txn[r])
      BY <1>1, <1>2 DEF RequestOK
    <3>2. /\ t.step \in {"move", "written"} /\ t.target = NoImage
          /\ \A j \in t.found \cup t.locks : t.list[j] # Unlisted
      BY <2>1, <2>2, <3>1 DEF ReorderOK
    <3>3. t.flag \/ t.seen \subseteq t.found \cup t.locks
      BY <2>2, <3>1 DEF ReorderOK, Gone, Vanished
    <3>4. t.step = "written" => ~t.flag /\ t.found = {}
      BY <1>5, <2>2 DEF Last
    <3>5. QED
      BY <3>2, <3>3, <3>4 DEF ReorderOK
  <2>4. RequestOK(t)
    BY <1>1, <2>2, <2>3 DEF RequestOK
  <2>5. \A q \in Requests \ {r} : Apart(t, txn[q])
    BY <1>1, <1>2, <2>1, <2>2 DEF Apart
  <2>6. SetsOf(t) = {}
    BY <2>2, <2>3 DEF SetsOf, ReorderOK
  <2>7. QED
    <3>1. Statement(r, t)
      BY <1>5 DEF t
    <3>2. QED
      BY <2>2, <2>4, <2>5, <2>6, <3>1, StatementIInv
<1>6. QED
  BY <1>3, <1>4, <1>5

-----------------------------------------------------------------------------

\* A commit ends its handler and leaves the others what they rely on: it
\* changes only rows that none of them has locked.
LEMMA CommitIInv ==
    ASSUME IInv, NEW r \in Requests, txn[r].step = "written", Finish(r),
           row' \in [Images -> {"absent", "attached", "deleted"}],
           order' \in [Images -> Nat], overtaken' \in BOOLEAN, mixed' \in BOOLEAN,
           \A i \in Images : row'[i] # row[i] =>
              \/ /\ row[i] = "absent" /\ row'[i] = "attached"
                 /\ txn[r].op = "attach" /\ txn[r].image = i
              \/ /\ row[i] = "attached" /\ row'[i] = "deleted"
                 /\ i \in txn[r].locks,
           primary' \subseteq Attached',
           primary' \subseteq (primary \ txn[r].locks) \cup Sets(r) \/ primary' = primary,
           PrimaryUnlessOvertaken'
    PROVE  IInv'
<1>1. /\ txn'[r] = Idle /\ \A q \in Requests : q # r => txn'[q] = txn[q]
      /\ txn' \in [Requests -> Request]
  BY IdleFields DEF Finish, IInv, TypeOK
<1>2. TypeOK'
  BY <1>1 DEF TypeOK
<1>3. RequestOK(txn[r])' /\ RequestOK(Idle)'
  BY <1>1, IdleFields DEF RequestOK
<1>4. ASSUME NEW q \in Requests, q # r PROVE RequestOK(txn[q])'
  <2>1. /\ txn'[q] = txn[q] /\ RequestOK(txn[q]) /\ txn[q] \in Request
        /\ Apart(txn[q], txn[r])
    BY <1>1, <1>4, OneHandler
  <2>2. txn[q].locks \subseteq Attached'
    BY <2>1 DEF RequestOK, Apart, Attached, Request
  <2>3. txn[q].op = "attach" => AttachOK(txn[q])'
    BY <2>1 DEF RequestOK, AttachOK, Apart
  <2>4. txn[q].op = "delete" => DeleteOK(txn[q])'
    <3> SUFFICES ASSUME txn[q].op = "delete" PROVE DeleteOK(txn[q])'
      OBVIOUS
    <3>1. DeleteOK(txn[q]) /\ txn[q].image \in Images /\ txn[q].seen \subseteq Images
      BY <2>1 DEF RequestOK, DeleteOK, Request
    <3>2. \A i \in Images : /\ row[i] # "absent" => row'[i] # "absent"
                            /\ row[i] = "deleted" => row'[i] = "deleted"
      OBVIOUS
    <3>3. QED
      BY <2>1, <3>1, <3>2 DEF DeleteOK
  <2>5. txn[q].op = "reorder" => ReorderOK(txn[q])'
    BY <2>1 DEF RequestOK, ReorderOK
  <2>6. QED
    BY <2>1, <2>2, <2>3, <2>4, <2>5 DEF RequestOK
<1>5. HandlersApart'
  BY <1>1, IdleFields DEF IInv, HandlersApart, Apart
<1>6. \A q \in Requests :
         /\ Marking(q)' <=> txn'[q].step = "written" /\ SetsOf(txn'[q]) # {}
         /\ Others(q)' = primary' \ (txn'[q].locks \cup SetsOf(txn'[q]))
  BY DEF Sets, SetsOf, Marking, Others
<1>7. OneMarking'
  <2>1. \A q \in Requests : Marking(q)' => q # r /\ Marking(q)
    BY <1>1, <1>6, IdleFields, SetsFact
  <2>2. QED
    BY <2>1 DEF IInv, OneMarking
<1>8. CASE Marking(r)
  <2>1. \A q \in Requests : ~Marking(q)'
    BY <1>1, <1>6, <1>8, IdleFields, SetsFact DEF IInv, OneMarking
  <2>2. primary \subseteq txn[r].locks \cup Sets(r)
    BY <1>8 DEF IInv, MarkedAlone, Others
  <2>3. PrimaryUnique'
    BY <2>2 DEF Sets, IInv, PrimaryUnique
  <2>4. QED
    BY <1>2, <1>3, <1>4, <1>5, <1>7, <2>1, <2>3 DEF IInv, MarkedAlone
<1>9. CASE ~Marking(r)
  <2>1. primary' \subseteq primary
    BY <1>9 DEF Marking
  <2>2. PrimaryUnique'
    BY <2>1 DEF IInv, PrimaryUnique
  <2>3. MarkedAlone'
    BY <1>1, <1>6, <2>1, IdleFields, SetsFact DEF IInv, MarkedAlone
  <2>4. QED
    BY <1>2, <1>3, <1>4, <1>5, <1>7, <2>2, <2>3 DEF IInv
<1>10. QED
  BY <1>8, <1>9

\* A new row is primary if it is the first, or its handler saw others.
LEMMA CommitAttachIInv ==
    ASSUME IInv, NEW r \in Requests, CommitAttach(r) PROVE IInv'
<1> DEFINE i == txn[r].image
<1>1. /\ txn[r] \in Request /\ txn[r].op = "attach" /\ txn[r].step = "written"
      /\ AttachOK(txn[r]) /\ primary \subseteq Attached
  BY OneHandler DEF CommitAttach, At, RequestOK
<1>2. /\ row' = [row EXCEPT ![i] = "attached"]
      /\ primary' = (primary \ txn[r].locks) \cup Sets(r)
      /\ order' = [order EXCEPT ![i] = txn[r].position]
      /\ overtaken' = (overtaken \/ (txn[r].seen # {} /\ Attached = {}))
      /\ mixed' = mixed /\ Finish(r)
  BY DEF CommitAttach
<1>3. /\ i \in Images /\ row[i] = "absent" /\ txn[r].position \in Nat
      /\ row' \in [Images -> {"absent", "attached", "deleted"}]
      /\ order' \in [Images -> Nat] /\ overtaken' \in BOOLEAN /\ mixed' \in BOOLEAN
  BY <1>1, <1>2 DEF AttachOK, Request, IInv, TypeOK
<1>4. Attached' = Attached \cup {i}
  BY <1>2, <1>3 DEF Attached, IInv, TypeOK
<1>5. Sets(r) = IF txn[r].flag THEN {i} ELSE {}
  BY <1>1 DEF Sets, AttachOK
<1>6. PrimaryUnlessOvertaken'
  <2> SUFFICES ASSUME ~overtaken' PROVE primary' # {}
    BY DEF PrimaryUnlessOvertaken
  <2>1. CASE txn[r].flag
    BY <1>2, <1>5, <2>1
  <2>2. CASE ~txn[r].flag
    BY <1>1, <1>2, <1>5, <2>2 DEF AttachOK, IInv, PrimaryUnlessOvertaken
  <2>3. QED
    BY <2>1, <2>2
<1>7. \A j \in Images : row'[j] # row[j] =>
         row[j] = "absent" /\ row'[j] = "attached" /\ i = j
  BY <1>2, <1>3 DEF IInv, TypeOK
<1>8. primary' \subseteq Attached'
  BY <1>1, <1>2, <1>4, <1>5
<1>9. QED
  BY <1>1, <1>2, <1>3, <1>6, <1>7, <1>8, CommitIInv

\* If the gallery is as it was listed, the image to promote was found.
LEMMA CommitDeleteIInv ==
    ASSUME IInv, NEW r \in Requests, CommitDelete(r) PROVE IInv'
<1> DEFINE i == txn[r].image
<1>1. /\ txn[r] \in Request /\ txn[r].op = "delete" /\ txn[r].step = "written"
      /\ DeleteOK(txn[r]) /\ txn[r].locks \subseteq Attached
      /\ primary \subseteq Attached
  BY OneHandler DEF CommitDelete, At, RequestOK
<1>2. /\ row' = [row EXCEPT ![i] = "deleted"]
      /\ primary' = ((primary \ txn[r].locks) \cup Sets(r)) \ {i}
      /\ overtaken' = (overtaken \/ GalleryChanged(r))
      /\ Finish(r) /\ order' = order /\ mixed' = mixed
  BY DEF CommitDelete
<1>3. /\ i \in Images /\ (i \in txn[r].locks \/ row[i] = "deleted")
      /\ row' \in [Images -> {"absent", "attached", "deleted"}]
      /\ order' \in [Images -> Nat] /\ overtaken' \in BOOLEAN /\ mixed' \in BOOLEAN
  <2>1. GalleryChanged(r) \in BOOLEAN
    BY DEF GalleryChanged
  <2>2. QED
    BY <1>1, <1>2, <2>1 DEF DeleteOK, IInv, TypeOK
<1>4. Attached' = Attached \ {i}
  BY <1>2, <1>3 DEF Attached, IInv, TypeOK
<1>5. Sets(r) = {txn[r].target} \ {NoImage}
  BY <1>1 DEF Sets
<1>6. PrimaryUnlessOvertaken'
  <2> SUFFICES ASSUME ~overtaken', Attached' # {} PROVE primary' # {}
    BY DEF PrimaryUnlessOvertaken
  <2>1. ~overtaken /\ ~GalleryChanged(r)
    BY <1>2
  <2>2. CASE txn[r].flag
    <3>1. txn[r].seen = Attached'
      BY <1>4, <2>1, <2>2 DEF GalleryChanged, Remaining
    <3>2. \A j \in txn[r].seen : row[j] # "deleted"
      BY <1>4, <3>1 DEF Attached
    <3>3. txn[r].target # NoImage /\ txn[r].target # i
      BY <1>1, <3>1, <3>2 DEF DeleteOK
    <3>4. QED
      BY <1>2, <1>5, <3>3
  <2>3. CASE ~txn[r].flag
    <3>1. i \notin primary /\ txn[r].locks \subseteq {i} /\ txn[r].target = NoImage
      BY <1>1, <2>1, <2>3 DEF GalleryChanged, DeleteOK, Request
    <3>2. primary' = primary
      BY <1>2, <1>5, <3>1
    <3>3. QED
      BY <1>4, <2>1, <3>2 DEF IInv, PrimaryUnlessOvertaken
  <2>4. QED
    BY <2>2, <2>3
<1>7. \A j \in Images : row'[j] # row[j] =>
         row[j] = "attached" /\ row'[j] = "deleted" /\ j \in txn[r].locks
  BY <1>1, <1>2, <1>3 DEF IInv, TypeOK, Attached
<1>8. primary' \subseteq Attached'
  BY <1>1, <1>2, <1>4, <1>5 DEF DeleteOK
<1>9. QED
  BY <1>1, <1>2, <1>3, <1>6, <1>7, <1>8, CommitIInv

\* A reorder changes no flag.
LEMMA CommitReorderIInv ==
    ASSUME IInv, NEW r \in Requests, CommitReorder(r) PROVE IInv'
<1>1. /\ txn[r] \in Request /\ txn[r].op = "reorder" /\ txn[r].step = "written"
      /\ ReorderOK(txn[r]) /\ primary \subseteq Attached
  BY OneHandler DEF CommitReorder, At, RequestOK
<1>2. /\ order' = [i \in Images |-> IF i \in txn[r].locks THEN txn[r].list[i]
                                    ELSE order[i]]
      /\ Finish(r) /\ row' = row /\ primary' = primary /\ overtaken' = overtaken
      /\ mixed' = (mixed \/ ~(Misplaced(txn[r].list) \subseteq txn[r].seen))
  BY DEF CommitReorder
<1>3. Attached' = Attached
  BY <1>2 DEF Attached
<1>4. \A i \in Images : (IF i \in txn[r].locks THEN txn[r].list[i] ELSE order[i]) \in Nat
  BY <1>1 DEF ReorderOK, Request, IInv, TypeOK
<1>5. /\ row' \in [Images -> {"absent", "attached", "deleted"}]
      /\ order' \in [Images -> Nat] /\ overtaken' \in BOOLEAN /\ mixed' \in BOOLEAN
  BY <1>2, <1>4 DEF IInv, TypeOK
<1>6. PrimaryUnlessOvertaken'
  BY <1>2, <1>3 DEF IInv, PrimaryUnlessOvertaken
<1>7. QED
  BY <1>1, <1>2, <1>3, <1>5, <1>6, CommitIInv

\* Every step.
LEMMA NextIInv == IInv /\ [Next]_vars => IInv'
<1> SUFFICES ASSUME IInv, [Next]_vars PROVE IInv'
  OBVIOUS
<1>1. CASE UNCHANGED vars
  <2>1. /\ row' = row /\ primary' = primary /\ order' = order /\ txn' = txn
        /\ overtaken' = overtaken /\ mixed' = mixed /\ Attached' = Attached
    BY <1>1 DEF vars, Attached
  <2>2. TypeOK' /\ HandlersApart' /\ PrimaryUnique' /\ PrimaryUnlessOvertaken'
    BY <2>1 DEF IInv, TypeOK, HandlersApart, Apart, PrimaryUnique,
       PrimaryUnlessOvertaken
  <2>3. \A r \in Requests : RequestOK(txn[r])'
    BY <2>1 DEF IInv, RequestOK, AttachOK, DeleteOK, ReorderOK
  <2>4. \A r \in Requests : Marking(r)' = Marking(r) /\ Others(r)' = Others(r)
    BY <2>1 DEF Marking, Others, Sets
  <2>5. OneMarking' /\ MarkedAlone'
    BY <2>4 DEF IInv, OneMarking, MarkedAlone
  <2>6. QED
    BY <2>2, <2>3, <2>5 DEF IInv
<1>2. ASSUME NEW r \in Requests, Proceed(r) PROVE IInv'
  BY <1>2, ClearIInv, ClearedIInv, MarkIInv, CommitAttachIInv, DeleteRowIInv,
     ListRemainingIInv, FindTargetIInv, PromoteIInv, CommitDeleteIInv, MoveIInv,
     CommitReorderIInv DEF Proceed
<1>3. QED
  BY <1>1, <1>2, StartAttachIInv, StartDeleteIInv, StartReorderIInv, AbortIInv
     DEF Next

-----------------------------------------------------------------------------

\* Whatever requests, failures and lock waits there are, IInv holds.
THEOREM Invariance == Spec => []IInv
BY InitIInv, NextIInv, PTL DEF Spec

\* Every variable keeps its type, and only attached rows are primary.
THEOREM TypeCorrect == Spec => []TypeOK
<1>1. IInv => TypeOK
  BY DEF IInv
<1>2. QED
  BY <1>1, Invariance, PTL

\* Two images of one listing are never primary together.
THEOREM AtMostOnePrimaryProved == Spec => []AtMostOnePrimary
<1>1. ASSUME IInv PROVE AtMostOnePrimary
  <2>1. CASE primary = {}
    BY <2>1, FS_EmptySet DEF AtMostOnePrimary
  <2>2. ASSUME NEW i \in primary PROVE AtMostOnePrimary
    <3>1. primary = {i}
      BY <1>1, <2>2 DEF IInv, PrimaryUnique
    <3>2. QED
      BY <3>1, FS_Singleton DEF AtMostOnePrimary
  <2>3. QED
    BY <2>1, <2>2
<1>2. QED
  BY <1>1, Invariance, PTL

\* Until a commit is overtaken, a gallery with images has a primary one.
THEOREM PrimaryUnlessOvertakenProved == Spec => []PrimaryUnlessOvertaken
<1>1. IInv => PrimaryUnlessOvertaken
  BY DEF IInv
<1>2. QED
  BY <1>1, Invariance, PTL

-----------------------------------------------------------------------------

BoundInv == IsFiniteSet(Attaching) /\ ImagesOvershootBounded

\* Statements and commits bring no image that was not on its way.
LEMMA NoNewImage ==
    ASSUME IInv, NEW r \in Requests, Proceed(r) \/ Abort(r)
    PROVE  Attaching' \subseteq Attaching
<1>1. txn \in [Requests -> Request] /\ txn[r] \in Request
  BY DEF IInv, TypeOK
<1>2. ASSUME NEW t, Statement(r, t),
             t.op = "attach" => txn[r].op = "attach" /\ t.image = txn[r].image
      PROVE  Attaching' \subseteq Attaching
  BY <1>1, <1>2 DEF Statement, Attaching, Attached
<1>3. Abort(r) => Attaching' \subseteq Attaching
  BY <1>2, IdleFields DEF Abort
<1>4. CASE CommitAttach(r)
  BY <1>1, <1>4, IdleFields
     DEF CommitAttach, At, Finish, Attaching, Attached, IInv, TypeOK
<1>5. CASE CommitDelete(r)
  BY <1>1, <1>5, IdleFields
     DEF CommitDelete, At, Finish, Attaching, Attached, IInv, TypeOK
<1>6. CASE CommitReorder(r)
  BY <1>1, <1>6, IdleFields DEF CommitReorder, Finish, Attaching, Attached
<1>7. CASE Clear(r)
  BY <1>1, <1>2, <1>7 DEF Clear, Request
<1>8. CASE Cleared(r)
  BY <1>1, <1>2, <1>8 DEF Cleared, Request
<1>9. CASE Mark(r)
  BY <1>1, <1>2, <1>3, <1>9 DEF Mark, Refuse, Request
<1>10. CASE DeleteRow(r)
  BY <1>1, <1>2, <1>10 DEF DeleteRow, Request
<1>11. CASE ListRemaining(r)
  BY <1>1, <1>2, <1>11 DEF ListRemaining, Request
<1>12. CASE FindTarget(r)
  BY <1>1, <1>2, <1>12 DEF FindTarget, Request
<1>13. CASE Promote(r)
  BY <1>1, <1>2, <1>3, <1>13 DEF Promote, Request
<1>14. CASE Move(r)
  BY <1>1, <1>2, <1>3, <1>14, MoveCases DEF Move, At, Moved, Request
<1>15. QED
  BY <1>3, <1>4, <1>5, <1>6, <1>7, <1>8, <1>9, <1>10, <1>11, <1>12, <1>13, <1>14
     DEF Proceed

LEMMA NextBoundInv == IInv /\ BoundInv /\ [Next]_vars => BoundInv'
<1> SUFFICES ASSUME IInv, BoundInv, [Next]_vars PROVE BoundInv'
  OBVIOUS
<1>1. ASSUME Attaching' \subseteq Attaching PROVE BoundInv'
  <2>1. IsFiniteSet(Attaching') /\ Cardinality(Attaching') <= Cardinality(Attaching)
    BY <1>1, FS_Subset DEF BoundInv
  <2>2. /\ Cardinality(Attaching') \in Nat /\ Cardinality(Attaching) \in Nat
        /\ Cardinality(Requests) \in Nat
    BY <2>1, FS_CardinalityType, RequestsAssumption DEF BoundInv
  <2>3. QED
    BY <2>1, <2>2, LimitAssumption DEF BoundInv, ImagesOvershootBounded
<1>2. CASE UNCHANGED vars
  BY <1>1, <1>2 DEF vars, Attaching, Attached
<1>3. ASSUME NEW r \in Requests, NEW i \in Images, NEW wanted \in BOOLEAN,
             NEW position \in Positions, StartAttach(r, i, wanted, position)
      PROVE  BoundInv'
  <2> DEFINE f == [q \in Requests |-> txn'[q].image]
  <2>1. Attached' = Attached /\ Cardinality(Attached) < MaxImages
    BY <1>3 DEF StartAttach, WithinLimit, Attached
  <2>2. Attaching' \subseteq Attached \cup {f[q] : q \in Requests}
    BY <2>1 DEF Attaching
  <2>3. IsFiniteSet(Attached)
    BY FS_Subset DEF Attaching, BoundInv
  <2> HIDE DEF f
  <2>4. IsFiniteSet(Attaching') /\ Cardinality(Attaching') + 1 <= MaxImages + Cardinality(Requests)
    BY <2>1, <2>2, <2>3, OvershootBound, RequestsAssumption, LimitAssumption
  <2>5. QED
    BY <2>4 DEF BoundInv, ImagesOvershootBounded
<1>4. ASSUME NEW r \in Requests, NEW i \in Images, StartDelete(r, i) PROVE BoundInv'
  BY <1>1, <1>4, IdleFields DEF StartDelete, Begin, Attaching, Attached, Idle, IInv, TypeOK
<1>5. ASSUME NEW r \in Requests, NEW list \in Arrangements, StartReorder(r, list)
      PROVE  BoundInv'
  BY <1>1, <1>5, IdleFields DEF StartReorder, Begin, Attaching, Attached, Idle, IInv, TypeOK
<1>6. QED
  BY <1>1, <1>2, <1>3, <1>4, <1>5, NoNewImage DEF Next

\* Requests that count without a lock exceed the image limit by less than
\* there are requests at once.
THEOREM ImagesOvershootBoundedProved == Spec => []ImagesOvershootBounded
<1>1. ASSUME Init PROVE BoundInv
  <2>1. Attaching = {}
    BY <1>1, IdleFields DEF Init, Attaching, Attached
  <2>2. Cardinality(Requests) \in Nat /\ Cardinality(Requests) # 0
    BY RequestsAssumption, FS_CardinalityType, FS_EmptySet
  <2>3. QED
    BY <2>1, <2>2, LimitAssumption, FS_EmptySet DEF BoundInv, ImagesOvershootBounded
<1>2. BoundInv => ImagesOvershootBounded
  BY DEF BoundInv
<1>3. QED
  BY <1>1, <1>2, NextBoundInv, Invariance, PTL DEF Spec

-----------------------------------------------------------------------------
(***************************************************************************)
(* What a handler was asked for, and the order in which a reorder locks.   *)
(***************************************************************************)

\* The rows a reorder still has to lock come after those it holds.
Asked(t) ==
    /\ t.op = "attach" => t.position \in Positions
    /\ t.op = "reorder" => /\ t.list \in Arrangements
                           /\ t.step = "move" => t.found # {}
                           /\ \A i \in t.locks, j \in t.found : i < j

AllAsked == \A r \in Requests : Asked(txn[r])

LEMMA NextAsked == IInv /\ AllAsked /\ [Next]_vars => AllAsked'
<1> SUFFICES ASSUME IInv, AllAsked, [Next]_vars PROVE AllAsked'
  OBVIOUS
<1>1. ASSUME NEW r \in Requests, NEW t, txn' = [txn EXCEPT ![r] = t], Asked(t)
      PROVE  AllAsked'
  BY <1>1 DEF IInv, TypeOK, AllAsked, Asked
<1>2. ASSUME NEW r \in Requests, NEW t, txn' = [txn EXCEPT ![r] = t],
             t.op \in {"attach", "delete"}, t.op = txn[r].op,
             t.position = txn[r].position
      PROVE  AllAsked'
  BY <1>1, <1>2 DEF AllAsked, Asked
<1>3. ASSUME NEW r \in Requests, txn' = [txn EXCEPT ![r] = Idle] PROVE AllAsked'
  BY <1>1, <1>3, IdleFields DEF Asked
<1>4. CASE UNCHANGED vars
  BY <1>4 DEF vars, AllAsked, Asked
<1>5. ASSUME NEW r \in Requests, NEW i \in Images, NEW wanted \in BOOLEAN,
             NEW position \in Positions, StartAttach(r, i, wanted, position)
      PROVE  AllAsked'
  <2> DEFINE t == [Idle EXCEPT
                     !.op = "attach", !.image = i, !.position = position,
                     !.flag = IsPrimary(wanted), !.seen = Attached,
                     !.step = IF IsPrimary(wanted) THEN "clear" ELSE "written"]
  <2>1. t.op = "attach" /\ t.position = position
    BY DEF Idle
  <2>2. txn' = [txn EXCEPT ![r] = t]
    BY <1>5 DEF StartAttach, Begin
  <2> HIDE DEF t
  <2>3. QED
    BY <1>1, <2>1, <2>2 DEF Asked
<1>6. ASSUME NEW r \in Requests, NEW i \in Images, StartDelete(r, i)
      PROVE  AllAsked'
  <2> DEFINE t == [Idle EXCEPT !.op = "delete", !.step = "delete", !.image = i,
                               !.flag = i \in primary]
  <2>1. t.op = "delete"
    BY DEF Idle
  <2>2. txn' = [txn EXCEPT ![r] = t]
    BY <1>6 DEF StartDelete, Begin
  <2> HIDE DEF t
  <2>3. QED
    BY <1>1, <2>1, <2>2 DEF Asked
<1>7. ASSUME NEW r \in Requests, NEW list \in Arrangements, StartReorder(r, list)
      PROVE  AllAsked'
  <2> DEFINE t == [Idle EXCEPT !.op = "reorder", !.step = "move", !.list = list,
                               !.seen = Misplaced(list),
                               !.found = Changed(list)]
  <2>1. t.op = "reorder" /\ t.list = list /\ t.locks = {} /\ t.found = Changed(list)
    BY DEF Idle
  <2>2. txn' = [txn EXCEPT ![r] = t] /\ Changed(list) # {}
    BY <1>7 DEF StartReorder, Begin
  <2> HIDE DEF t
  <2>3. QED
    BY <1>1, <2>1, <2>2 DEF Asked
<1>8. ASSUME NEW r \in Requests, Clear(r) \/ Cleared(r) \/ Mark(r)
      PROVE  AllAsked'
  <2>1. txn[r] \in Request /\ txn[r].op \in {"attach", "delete"}
    BY <1>8, OneHandler, IdleFields
       DEF Clear, Cleared, Mark, RequestOK, ReorderOK, Request
  <2>2. ASSUME NEW t, Statement(r, t), t.op = txn[r].op, t.position = txn[r].position
        PROVE  AllAsked'
    BY <1>2, <2>1, <2>2 DEF Statement
  <2>3. CASE Clear(r)
    BY <2>1, <2>2, <2>3 DEF Clear, Request
  <2>4. CASE Cleared(r)
    BY <2>1, <2>2, <2>4 DEF Cleared, Request
  <2>5. CASE Mark(r)
    BY <1>3, <2>1, <2>2, <2>5 DEF Mark, Refuse, Abort, Statement, Request
  <2>6. QED
    BY <1>8, <2>3, <2>4, <2>5
<1>9. ASSUME NEW r \in Requests,
             DeleteRow(r) \/ ListRemaining(r) \/ FindTarget(r) \/ Promote(r)
      PROVE  AllAsked'
  <2>1. txn[r] \in Request /\ txn[r].op = "delete"
    BY <1>9, OneHandler DEF DeleteRow, ListRemaining, FindTarget, Promote, At
  <2>2. ASSUME NEW t, Statement(r, t), t.op = "delete" PROVE AllAsked'
    BY <1>1, <2>2 DEF Statement, Asked
  <2>3. CASE DeleteRow(r)
    BY <2>1, <2>2, <2>3 DEF DeleteRow, Request
  <2>4. CASE ListRemaining(r)
    BY <2>1, <2>2, <2>4 DEF ListRemaining, Request
  <2>5. CASE FindTarget(r)
    BY <2>1, <2>2, <2>5 DEF FindTarget, Request
  <2>6. CASE Promote(r)
    BY <1>3, <2>1, <2>2, <2>6 DEF Promote, Abort, Statement, Request
  <2>7. QED
    BY <1>9, <2>3, <2>4, <2>5, <2>6
<1>10. ASSUME NEW r \in Requests, Move(r) PROVE AllAsked'
  <2>1. txn[r] \in Request /\ txn[r].op = "reorder" /\ Asked(txn[r])
    BY <1>10, OneHandler DEF Move, At, AllAsked
  <2>2. PICK i \in ByKey(r) : Abort(r) \/ Statement(r, Moved(r, i))
    BY <1>10, MoveCases
  <2>3. CASE Abort(r)
    BY <1>3, <2>3 DEF Abort, Statement
  <2>4. CASE ~Abort(r)
    <3> DEFINE t == Moved(r, i)
    <3>0. i \in Images
      BY <2>1 DEF ByKey, Request
    <3>1. /\ t.op = "reorder" /\ t.list = txn[r].list
          /\ t.step = "move" => txn[r].found # {i}
          /\ t.found = txn[r].found \ {i}
          /\ t.locks = txn[r].locks \cup ({i} \cap Attached)
      BY <2>1, <3>0, MovedFields DEF Last
    <3>2. txn' = [txn EXCEPT ![r] = t]
      BY <2>2, <2>4 DEF Statement
    <3> HIDE DEF t
    <3>3. /\ i \in txn[r].found /\ txn[r].found \subseteq Nat
          /\ \A j \in txn[r].found : i <= j
      BY <2>1, ImagesAssumption DEF ByKey, Request
    <3>4. \A j \in txn[r].found \ {i} : i < j
      BY <3>3
    <3>5. Asked(t)
      BY <2>1, <3>1, <3>3, <3>4 DEF Asked
    <3>6. QED
      BY <1>1, <3>2, <3>5
  <2>5. QED
    BY <2>3, <2>4
<1>11. ASSUME NEW r \in Requests,
              CommitAttach(r) \/ CommitDelete(r) \/ CommitReorder(r) \/ Abort(r)
       PROVE  AllAsked'
  BY <1>3, <1>11 DEF CommitAttach, CommitDelete, CommitReorder, Finish, Abort, Statement
<1>12. QED
  BY <1>4, <1>5, <1>6, <1>7, <1>8, <1>9, <1>10, <1>11 DEF Next, Proceed

\* Each of the waiters in a circle that moves no flag waits for a reorder whose
\* next row comes after its own; the last of these waits for nobody.
LEMMA CircleMovesPrimary ==
    ASSUME IInv, AllAsked, NEW S \in SUBSET Requests, WaitCircle(S),
           \A r \in S : ~(txn[r].op \in {"attach", "delete"} /\ txn[r].flag)
    PROVE  FALSE
<1>1. ASSUME NEW p \in S, NEW q \in S, WaitsFor(p, q)
      PROVE  Needs(p) \cap txn[q].locks # {}
  <2>1. txn[p] \in Request /\ RequestOK(txn[p])
    BY OneHandler
  <2>2. txn[p].step # "mark"
    BY <2>1, IdleFields
       DEF RequestOK, AttachOK, DeleteOK, ReorderOK, Request
  <2>3. QED
    BY <1>1, <2>2 DEF WaitsFor
<1>2. \A p \in S : Needs(p) # {}
  BY <1>1 DEF WaitCircle
<1>3. ASSUME NEW q \in S, txn[q].locks # {}
      PROVE  txn[q].op = "reorder" /\ txn[q].step = "move"
  <2>1. txn[q] \in Request /\ RequestOK(txn[q])
    BY OneHandler
  <2>2. txn[q].op = "reorder" \/ (txn[q].op = "delete" /\ ~txn[q].flag)
    <3>1. txn[q].op # "none"
      BY <1>3, <2>1, IdleFields DEF RequestOK
    <3>2. txn[q].op # "attach"
      <4>1. ~txn[q].flag /\ txn[q].op = "attach" => txn[q].locks = {}
        BY <2>1 DEF RequestOK, AttachOK
      <4>2. QED
        BY <1>3, <4>1
    <3>3. txn[q].op \in {"none", "attach", "delete", "reorder"}
      BY <2>1 DEF Request
    <3>4. txn[q].op = "delete" => ~txn[q].flag
      BY Zenon
    <3>5. txn[q].op = "reorder" \/ txn[q].op = "delete"
      BY <3>1, <3>2, <3>3
    <3>6. QED
      BY <3>4, <3>5, Zenon
  <2>3. CASE txn[q].op = "reorder"
    BY <1>2, <2>1, <2>3 DEF RequestOK, ReorderOK, Needs
  <2>4. CASE txn[q].op = "delete" /\ ~txn[q].flag
    BY <1>2, <1>3, <2>1, <2>4 DEF RequestOK, DeleteOK, Needs
  <2>5. QED
    BY <2>2, <2>3, <2>4
<1> DEFINE M == {q \in S : txn[q].op = "reorder" /\ txn[q].step = "move"}
           m == [q \in M |-> CHOOSE i \in ByKey(q) : TRUE]
<1>4. ASSUME NEW q \in M
      PROVE  /\ m[q] \in Nat /\ ByKey(q) = {m[q]} /\ m[q] \in txn[q].found
  <2>1. txn[q] \in Request
    BY OneHandler
  <2>2. ByKey(q) # {}
    BY <1>2 DEF Needs
  <2>3. m[q] \in ByKey(q)
    BY <2>2
  <2>4. ByKey(q) \subseteq Nat
    BY <2>1, ImagesAssumption DEF ByKey, Request
  <2> HIDE DEF m
  <2>5. \A i \in ByKey(q) : i <= m[q] /\ m[q] <= i
    BY <2>3 DEF ByKey
  <2>6. ByKey(q) = {m[q]}
    BY <2>3, <2>4, <2>5
  <2>7. QED
    BY <2>3, <2>4, <2>6 DEF ByKey
<1>5. ASSUME NEW p \in M PROVE \E q \in M : m[p] < m[q]
  <2>1. PICK q \in S : WaitsFor(p, q)
    BY DEF WaitCircle
  <2>2. Needs(p) = {m[p]}
    BY <1>4 DEF Needs
  <2> HIDE DEF m
  <2>3. m[p] \in txn[q].locks
    BY <1>1, <2>1, <2>2
  <2>4. q \in M
    BY <1>3, <2>3
  <2>5. m[q] \in txn[q].found
    BY <1>4, <2>4
  <2>6. m[p] < m[q]
    BY <2>3, <2>4, <2>5 DEF AllAsked, Asked
  <2>7. QED
    BY <2>4, <2>6
<1>6. M # {}
  <2>1. PICK p \in S, q \in S : WaitsFor(p, q)
    BY DEF WaitCircle
  <2>2. QED
    BY <1>1, <1>3, <2>1
<1>7. IsFiniteSet(M)
  BY RequestsAssumption, FS_Subset
<1>8. m \in [M -> Nat]
  BY <1>4
<1> HIDE DEF M, m
<1>9. PICK q \in M : \A p \in M : m[p] <= m[q]
  BY <1>6, <1>7, <1>8, LargestOfFinite
<1>10. PICK p \in M : m[q] < m[p]
  BY <1>5
<1>11. m[p] \in Nat /\ m[q] \in Nat /\ m[p] <= m[q]
  BY <1>8, <1>9
<1>12. QED
  BY <1>10, <1>11

\* Reorders, and deletes that promote nothing, do not deadlock.
THEOREM DeadlockMovesPrimaryProved == Spec => []DeadlockMovesPrimary
<1>1. Init => AllAsked
  BY IdleFields DEF Init, AllAsked, Asked
<1>2. IInv /\ AllAsked => DeadlockMovesPrimary
  BY CircleMovesPrimary DEF DeadlockMovesPrimary
<1>3. QED
  BY <1>1, <1>2, NextAsked, Invariance, PTL DEF Spec

-----------------------------------------------------------------------------
(***************************************************************************)
(* Media implements Gallery.                                               *)
(***************************************************************************)

LEMMA SameAttached == Shown!Attached = Attached
BY DEF Shown!Attached, Attached

\* Whoever has the uncommitted index entry replaces all committed ones.
LEMMA MarkedReplaces ==
    ASSUME IInv, NEW r \in Requests, txn[r].step = "written", Sets(r) # {}
    PROVE  (primary \ txn[r].locks) \cup Sets(r) = Sets(r)
BY DEF IInv, MarkedAlone, Marking, Others

LEMMA CommitAttachIsShown ==
    ASSUME IInv, AllAsked, NEW r \in Requests, CommitAttach(r)
    PROVE  Shown!Next
<1>0. PICK i, position : i = txn[r].image /\ position = txn[r].position
  OBVIOUS
<1>1. /\ txn[r] \in Request /\ txn[r].op = "attach" /\ txn[r].step = "written"
      /\ AttachOK(txn[r])
  BY OneHandler DEF CommitAttach, At, RequestOK
<1>2. /\ row' = [row EXCEPT ![i] = "attached"]
      /\ primary' = (primary \ txn[r].locks) \cup Sets(r)
      /\ order' = [order EXCEPT ![i] = position]
      /\ overtaken' = (overtaken \/ (txn[r].seen # {} /\ Attached = {}))
      /\ mixed' = mixed
  BY <1>0 DEF CommitAttach
<1>3. i \in Images /\ position \in Positions /\ Shown!Add(i, position)
  BY <1>0, <1>1, <1>2 DEF AttachOK, AllAsked, Asked, Shown!Add
<1>4. primary' = IF txn[r].flag THEN {i} ELSE primary
  <2>1. CASE txn[r].flag
    <3>1. Sets(r) = {i}
      BY <1>0, <1>1, <2>1 DEF Sets
    <3>2. QED
      BY <1>1, <1>2, <2>1, <3>1, MarkedReplaces
  <2>2. CASE ~txn[r].flag
    BY <1>1, <1>2, <2>2 DEF Sets, AttachOK
  <2>3. QED
    BY <2>1, <2>2
<1>5. CASE txn[r].seen # {} /\ Attached = {}
  <2>1. overtaken' = TRUE
    BY <1>2, <1>5
  <2>2. Shown!Overtaken(i)
    BY <1>2, <1>3, <1>4, <2>1 DEF Shown!Overtaken
  <2>3. QED
    BY <1>3, <2>2 DEF Shown!Next
<1>6. CASE ~(txn[r].seen # {} /\ Attached = {})
  <2>1. overtaken' = overtaken
    BY <1>2, <1>6 DEF IInv, TypeOK
  <2>2. Attached = {} => txn[r].flag
    BY <1>1, <1>6 DEF AttachOK
  <2>3. primary' = IF txn[r].flag \/ Attached = {} THEN {i} ELSE primary
    BY <1>4, <2>2
  <2>4. Shown!Attach(i, txn[r].flag, position)
    BY <1>2, <1>3, <2>1, <2>3, SameAttached DEF Shown!Attach
  <2>5. txn[r].flag \in BOOLEAN
    BY <1>1 DEF Request
  <2>6. QED
    BY <1>3, <2>4, <2>5 DEF Shown!Next
<1>7. QED
  BY <1>5, <1>6

LEMMA CommitDeleteIsShown ==
    ASSUME IInv, NEW r \in Requests, CommitDelete(r)
    PROVE  [Shown!Next]_(Shown!vars)
<1>0. PICK i, target : i = txn[r].image /\ target = txn[r].target
  OBVIOUS
<1>1. /\ txn[r] \in Request /\ txn[r].op = "delete" /\ txn[r].step = "written"
      /\ DeleteOK(txn[r]) /\ txn[r].locks \subseteq Attached
      /\ primary \subseteq Attached
  BY OneHandler DEF CommitDelete, At, RequestOK
<1>2. /\ row' = [row EXCEPT ![i] = "deleted"] /\ order' = order
      /\ primary' = ((primary \ txn[r].locks) \cup Sets(r)) \ {i}
      /\ overtaken' = (overtaken \/ GalleryChanged(r)) /\ mixed' = mixed
  BY <1>0 DEF CommitDelete
<1>3. i \in Images /\ row[i] \in {"attached", "deleted"}
  BY <1>0, <1>1 DEF DeleteOK, IInv, TypeOK
<1>4. Shown!Remove(i)
  BY <1>2, <1>3 DEF Shown!Remove
<1>5. Sets(r) = {target} \ {NoImage}
  BY <1>0, <1>1 DEF Sets
<1>6. target # NoImage => primary' = {target} /\ target \in Attached \ {i}
  <2> SUFFICES ASSUME target # NoImage
               PROVE  primary' = {target} /\ target \in Attached \ {i}
    OBVIOUS
  <2>1. target \in Attached /\ target # i
    BY <1>0, <1>1 DEF DeleteOK
  <2>2. Sets(r) = {target}
    BY <1>5
  <2>3. (primary \ txn[r].locks) \cup Sets(r) = {target}
    BY <1>1, <2>2, MarkedReplaces
  <2>4. QED
    BY <1>2, <2>1, <2>3
<1>7. target = NoImage => primary' \in {primary \ {i}, {}}
  BY <1>2, <1>5 DEF IInv, PrimaryUnique
<1>8. CASE GalleryChanged(r)
  <2>1. overtaken' = TRUE
    BY <1>2, <1>8
  <2>2. primary' \in {primary \ {i}, {}} \cup {{j} : j \in Attached \ {i}}
    BY <1>6, <1>7
  <2>3. Shown!Overtaken(i)
    BY <1>2, <1>4, <2>1, <2>2, SameAttached DEF Shown!Overtaken
  <2>4. QED
    BY <1>3, <2>3 DEF Shown!Next
<1>9. CASE ~GalleryChanged(r) /\ txn[r].flag
  <2>1. /\ overtaken' = overtaken /\ i \in primary
        /\ txn[r].seen = Attached \ {i}
    BY <1>0, <1>2, <1>9 DEF GalleryChanged, Remaining, IInv, TypeOK
  <2>2. CASE Attached # {i}
    <3>1. \A j \in txn[r].seen : row[j] # "deleted"
      BY <2>1 DEF Attached
    <3>2. txn[r].seen # {}
      BY <1>1, <2>1, <2>2
    <3>3. target # NoImage
      BY <1>0, <1>1, <3>1, <3>2 DEF DeleteOK
    <3>4. \E j \in Attached \ {i} : primary' = {j}
      BY <1>6, <3>3
    <3>5. Shown!Delete(i)
      BY <1>1, <1>2, <1>4, <2>1, <2>2, <3>4, SameAttached DEF Shown!Delete
    <3>6. QED
      BY <1>3, <3>5 DEF Shown!Next
  <2>3. CASE Attached = {i}
    <3>1. primary' = primary \ {i}
      BY <1>1, <1>6, <1>7, <2>3
    <3>2. Shown!Delete(i)
      BY <1>2, <1>4, <2>1, <2>3, <3>1, SameAttached DEF Shown!Delete
    <3>3. QED
      BY <1>3, <3>2 DEF Shown!Next
  <2>4. QED
    BY <2>2, <2>3
<1>10. CASE ~GalleryChanged(r) /\ ~txn[r].flag
  <2>1. overtaken' = overtaken /\ i \notin primary
    BY <1>0, <1>1, <1>2, <1>10 DEF GalleryChanged, IInv, TypeOK, Request
  <2>2. primary' = primary \ {i} /\ primary' = primary
    BY <1>0, <1>1, <1>2, <1>5, <1>10, <2>1 DEF DeleteOK
  <2>3. CASE row[i] = "attached"
    <3>1. Shown!Delete(i)
      BY <1>2, <1>3, <1>4, <2>1, <2>2, <2>3, SameAttached DEF Shown!Delete, Attached
    <3>2. QED
      BY <1>3, <3>1 DEF Shown!Next
  <2>4. CASE row[i] = "deleted"
    <3>1. row' = row
      BY <1>2, <1>3, <2>4 DEF IInv, TypeOK
    <3>2. QED
      BY <1>2, <2>1, <2>2, <3>1 DEF Shown!vars
  <2>5. QED
    BY <1>3, <2>3, <2>4
<1>11. QED
  BY <1>8, <1>9, <1>10

\* All rows that were out of place when the reorder looked are in its locks: if
\* no other row is out of place now, the whole list is in place afterwards.
LEMMA WholeReorder ==
    ASSUME IInv, NEW r \in Requests, CommitReorder(r),
           Misplaced(txn[r].list) \subseteq txn[r].seen
    PROVE  Shown!Reorder(txn[r].list)
<1> DEFINE list == txn[r].list
           locks == txn[r].locks
<1>1. /\ txn[r] \in Request /\ txn[r].step = "written"
      /\ ReorderOK(txn[r]) /\ locks \subseteq Attached
  BY OneHandler DEF CommitReorder, At, RequestOK
<1>2. /\ order' = [i \in Images |-> IF i \in locks THEN list[i] ELSE order[i]]
      /\ mixed' = mixed /\ UNCHANGED <<row, primary, overtaken>>
  BY DEF CommitReorder, IInv, TypeOK
<1>3. /\ Misplaced(list) \subseteq locks
      /\ \A i \in locks : i \in Attached /\ list[i] # Unlisted
  BY <1>1 DEF ReorderOK
<1> HIDE DEF list, locks
<1>4. ASSUME NEW i \in Images
      PROVE  (IF i \in locks THEN list[i] ELSE order[i]) =
             (IF i \in Attached /\ list[i] # Unlisted THEN list[i] ELSE order[i])
  BY <1>3 DEF Misplaced
<1>5. order' = [i \in Images |-> IF i \in Attached /\ list[i] # Unlisted
                                 THEN list[i] ELSE order[i]]
  BY <1>2, <1>4
<1>6. Shown!Reorder(list)
  BY <1>2, <1>5, SameAttached DEF Shown!Reorder
<1>7. QED
  BY <1>6 DEF list

LEMMA CommitReorderIsShown ==
    ASSUME IInv, AllAsked, NEW r \in Requests, CommitReorder(r)
    PROVE  Shown!Next
<1>1. /\ txn[r] \in Request /\ txn[r].op = "reorder"
      /\ ReorderOK(txn[r]) /\ txn[r].locks \in SUBSET Attached
  BY OneHandler DEF CommitReorder, At, RequestOK
<1>2. txn[r].list \in Arrangements
  BY <1>1 DEF AllAsked, Asked
<1>3. CASE Misplaced(txn[r].list) \subseteq txn[r].seen
  BY <1>2, <1>3, WholeReorder DEF Shown!Next
<1>4. CASE ~(Misplaced(txn[r].list) \subseteq txn[r].seen)
  <2>1. Shown!Mixed(txn[r].list, txn[r].locks)
    BY <1>1, <1>4 DEF CommitReorder, ReorderOK, Shown!Mixed
  <2>2. QED
    BY <1>1, <1>2, <2>1, SameAttached DEF Shown!Next
<1>5. QED
  BY <1>3, <1>4

\* Visitors see images come, go and move as single requests would have it, and
\* what an overtaken request may do.
THEOREM ImplementsGalleryProved == Spec => ImplementsGallery
<1>1. Init => AllAsked /\ Shown!Init
  BY IdleFields DEF Init, AllAsked, Asked, Shown!Init
<1>2. IInv /\ AllAsked /\ [Next]_vars => [Shown!Next]_(Shown!vars)
  <2> SUFFICES ASSUME IInv, AllAsked, [Next]_vars
               PROVE  [Shown!Next]_(Shown!vars)
    OBVIOUS
  <2>1. CASE UNCHANGED <<row, primary, order, overtaken, mixed>>
    BY <2>1 DEF Shown!vars
  <2>2. CASE UNCHANGED vars
    BY <2>1, <2>2 DEF vars
  <2>3. ASSUME NEW r \in Requests, Proceed(r)
        PROVE  [Shown!Next]_(Shown!vars)
    BY <2>1, <2>3, CommitAttachIsShown, CommitDeleteIsShown, CommitReorderIsShown
       DEF Proceed, Clear, Cleared, Mark, Refuse, DeleteRow, ListRemaining,
           FindTarget, Promote, Move, Abort, Statement
  <2>4. QED
    BY <2>1, <2>2, <2>3
       DEF Next, StartAttach, StartDelete, StartReorder, Abort, Statement
<1>3. QED
  BY <1>1, <1>2, NextAsked, Invariance, PTL
     DEF Spec, ImplementsGallery, Shown!Spec

-----------------------------------------------------------------------------
(***************************************************************************)
(* Attaches and deletes that do not overlap.                               *)
(***************************************************************************)

\* One attach or delete at a time; reorders may run with it and each other.
NoOverlap ==
    \A q, r \in Requests :
        q # r => ~(txn[q].op \in {"attach", "delete"} /\ txn[r].op \in {"attach", "delete"})

\* What a handler read is still so.
Current(t) ==
    /\ t.op = "attach" => t.seen = Attached
    /\ t.op = "delete" =>
          /\ t.flag <=> t.image \in primary
          /\ t.flag /\ t.step \notin {"delete", "list"} =>
                t.seen = Attached \ {t.image}

NothingStale == ~overtaken /\ \A r \in Requests : Current(txn[r])

LEMMA NextNothingStale ==
    IInv /\ NothingStale /\ NoOverlap /\ [Next]_vars => NothingStale'
<1> SUFFICES ASSUME IInv, NothingStale, NoOverlap, [Next]_vars PROVE NothingStale'
  OBVIOUS
<1>1. ASSUME NEW r \in Requests, NEW t, Statement(r, t), Current(t)
      PROVE  NothingStale'
  BY <1>1 DEF Statement, NothingStale, Current, Attached, IInv, TypeOK
<1>2. Current(Idle)
  BY IdleFields DEF Current
<1>3. ASSUME NEW r \in Requests, Finish(r), ~overtaken',
             \/ txn[r].op \in {"attach", "delete"}
             \/ UNCHANGED <<row, primary>>
      PROVE  NothingStale'
  <2>1. txn'[r] = Idle /\ \A q \in Requests \ {r} : txn'[q] = txn[q]
    BY <1>3 DEF Finish, IInv, TypeOK
  <2>2. ASSUME NEW q \in Requests \ {r} PROVE Current(txn[q])'
    BY <1>3, <2>1 DEF NothingStale, NoOverlap, Current, Attached
  <2>3. Current(txn[r])'
    BY <2>1, IdleFields DEF Current
  <2>4. QED
    BY <1>3, <2>2, <2>3 DEF NothingStale
<1>4. CASE UNCHANGED vars
  BY <1>4 DEF vars, NothingStale, Current, Attached
<1>5. ASSUME NEW r \in Requests, NEW i \in Images, NEW wanted \in BOOLEAN,
             NEW position \in Positions, StartAttach(r, i, wanted, position)
      PROVE  NothingStale'
  <2> DEFINE t == [Idle EXCEPT
                     !.op = "attach", !.image = i, !.position = position,
                     !.flag = IsPrimary(wanted), !.seen = Attached,
                     !.step = IF IsPrimary(wanted) THEN "clear" ELSE "written"]
  <2>1. t.op = "attach" /\ t.seen = Attached
    BY DEF Idle
  <2>2. Statement(r, t)
    BY <1>5 DEF StartAttach, Begin, Statement
  <2> HIDE DEF t
  <2>3. QED
    BY <1>1, <2>1, <2>2 DEF Current
<1>6. ASSUME NEW r \in Requests, NEW i \in Images, StartDelete(r, i)
      PROVE  NothingStale'
  <2> DEFINE isPrimary == i \in primary
             t == [Idle EXCEPT !.op = "delete", !.step = "delete", !.image = i,
                               !.flag = isPrimary]
  <2>1. /\ t.op = "delete" /\ t.step = "delete" /\ t.image = i
        /\ t.flag = isPrimary
    BY DEF Idle
  <2>2. Statement(r, t)
    BY <1>6 DEF StartDelete, Begin, Statement
  <2> HIDE DEF t
  <2>3. QED
    BY <1>1, <2>1, <2>2 DEF Current
<1>7. ASSUME NEW r \in Requests, NEW list \in Arrangements, StartReorder(r, list)
      PROVE  NothingStale'
  <2> DEFINE t == [Idle EXCEPT !.op = "reorder", !.step = "move", !.list = list,
                               !.seen = Misplaced(list),
                               !.found = Changed(list)]
  <2>1. t.op = "reorder"
    BY DEF Idle
  <2>2. Statement(r, t)
    BY <1>7 DEF StartReorder, Begin, Statement
  <2> HIDE DEF t
  <2>3. QED
    BY <1>1, <2>1, <2>2 DEF Current
<1>8. ASSUME NEW r \in Requests PROVE txn[r] \in Request /\ Current(txn[r])
  BY OneHandler DEF NothingStale
<1>9. ASSUME NEW r \in Requests, NEW t, Statement(r, t), t.op = txn[r].op,
             t.image = txn[r].image, t.flag = txn[r].flag, t.seen = txn[r].seen,
             txn[r].step \notin {"delete", "list"}
      PROVE  NothingStale'
  BY <1>1, <1>8, <1>9 DEF Current
<1>10. CASE \E r \in Requests : Abort(r)
  BY <1>1, <1>2, <1>10 DEF Abort
<1>11. ASSUME NEW r \in Requests, Clear(r) PROVE NothingStale'
  BY <1>8, <1>9, <1>11 DEF Clear, Request
<1>12. ASSUME NEW r \in Requests, Cleared(r) PROVE NothingStale'
  BY <1>8, <1>9, <1>12 DEF Cleared, Request
<1>13. ASSUME NEW r \in Requests, Mark(r) PROVE NothingStale'
  BY <1>8, <1>9, <1>10, <1>13 DEF Mark, Refuse, Request
<1>14. ASSUME NEW r \in Requests, DeleteRow(r) PROVE NothingStale'
  <2> DEFINE next == IF txn[r].flag THEN "list" ELSE "written"
             t == [txn[r] EXCEPT !.step = next,
                                 !.locks = {txn[r].image} \cap Attached]
  <2>1. Statement(r, t) /\ txn[r].op = "delete"
    BY <1>14 DEF DeleteRow, At
  <2>2. /\ t.op = txn[r].op /\ t.image = txn[r].image /\ t.flag = txn[r].flag
        /\ t.step = next
    BY <1>8 DEF Request
  <2> HIDE DEF t
  <2>3. QED
    BY <1>1, <1>8, <2>1, <2>2 DEF Current
<1>15. ASSUME NEW r \in Requests, ListRemaining(r) PROVE NothingStale'
  <2>1. txn[r].op = "delete"
    BY <1>15 DEF ListRemaining, At
  <2>2. CASE /\ Remaining(r) = {}
             /\ Statement(r, [txn[r] EXCEPT !.step = "written"])
    <3> DEFINE t == [txn[r] EXCEPT !.step = "written"]
    <3>1. /\ t.op = txn[r].op /\ t.image = txn[r].image /\ t.flag = txn[r].flag
          /\ t.seen = txn[r].seen
      BY <1>8 DEF Request
    <3>2. txn[r].seen = {} /\ Attached \ {txn[r].image} = {}
      BY <1>15, <2>1, <2>2, OneHandler
         DEF ListRemaining, At, RequestOK, DeleteOK, Remaining
    <3>3. Statement(r, t)
      BY <2>2
    <3> HIDE DEF t
    <3>4. QED
      BY <1>1, <1>8, <2>1, <3>1, <3>2, <3>3 DEF Current
  <2>3. ASSUME NEW i, Statement(r, [txn[r] EXCEPT !.step = "clear", !.target = i,
                                                  !.seen = Remaining(r)])
        PROVE  NothingStale'
    <3> DEFINE t == [txn[r] EXCEPT !.step = "clear", !.target = i,
                                   !.seen = Remaining(r)]
    <3>1. /\ t.op = txn[r].op /\ t.image = txn[r].image /\ t.flag = txn[r].flag
          /\ t.seen = Remaining(r)
      BY <1>8 DEF Request
    <3>2. Statement(r, t)
      BY <2>3
    <3> HIDE DEF t
    <3>3. QED
      BY <1>1, <1>8, <2>1, <3>1, <3>2 DEF Current, Remaining
  <2>4. QED
    BY <1>15, <2>2, <2>3 DEF ListRemaining
<1>16. ASSUME NEW r \in Requests, FindTarget(r) PROVE NothingStale'
  BY <1>8, <1>9, <1>16 DEF FindTarget, At, Request
<1>17. ASSUME NEW r \in Requests, Promote(r) PROVE NothingStale'
  BY <1>8, <1>9, <1>10, <1>17 DEF Promote, At, Request
<1>18. ASSUME NEW r \in Requests, Move(r) PROVE NothingStale'
  <2>1. txn[r].op = "reorder"
    BY <1>18 DEF Move, At
  <2>2. ASSUME NEW t, Statement(r, t), t.op = "reorder" PROVE NothingStale'
    BY <1>1, <2>2 DEF Current
  <2>3. QED
    BY <1>8, <1>10, <1>18, <2>1, <2>2, MoveCases DEF Moved, Request
<1>19. ASSUME NEW r \in Requests, CommitAttach(r) PROVE NothingStale'
  <2>1. /\ txn[r].op = "attach" /\ Finish(r)
        /\ overtaken' = (overtaken \/ (txn[r].seen # {} /\ Attached = {}))
    BY <1>19 DEF CommitAttach, At
  <2>2. txn[r].seen = Attached
    BY <1>8, <2>1 DEF Current
  <2>3. QED
    BY <1>3, <2>1, <2>2 DEF NothingStale
<1>20. ASSUME NEW r \in Requests, CommitDelete(r) PROVE NothingStale'
  <2>1. /\ txn[r].op = "delete" /\ txn[r].step = "written" /\ Finish(r)
        /\ overtaken' = (overtaken \/ GalleryChanged(r))
    BY <1>20 DEF CommitDelete, At
  <2>2. /\ txn[r].flag \in BOOLEAN /\ (txn[r].flag <=> txn[r].image \in primary)
        /\ txn[r].flag => txn[r].seen = Attached \ {txn[r].image}
    BY <1>8, <2>1 DEF Current, Request
  <2>3. ~GalleryChanged(r)
    BY <2>2 DEF GalleryChanged, Remaining
  <2>4. QED
    BY <1>3, <2>1, <2>3 DEF NothingStale
<1>21. ASSUME NEW r \in Requests, CommitReorder(r) PROVE NothingStale'
  BY <1>3, <1>21 DEF CommitReorder, NothingStale
<1>22. QED
  BY <1>4, <1>5, <1>6, <1>7, <1>10, <1>11, <1>12, <1>13, <1>14, <1>15, <1>16,
     <1>17, <1>18, <1>19, <1>20, <1>21 DEF Next, Proceed

\* "Exactly one image per property should be is_primary=True" (models.py).
ExactlyOnePrimary == Attached # {} => Cardinality(primary) = 1

\* A gallery loses its primary image by overlapping requests only: while one
\* attach or delete runs at a time, exactly one image is primary, failures and
\* reorders notwithstanding.
THEOREM ExactlyOnePrimaryAlone == Spec /\ []NoOverlap => []ExactlyOnePrimary
<1>1. Init => NothingStale
  BY IdleFields DEF Init, NothingStale, Current
<1>2. ASSUME IInv, NothingStale PROVE ExactlyOnePrimary
  <2> SUFFICES ASSUME Attached # {} PROVE Cardinality(primary) = 1
    BY DEF ExactlyOnePrimary
  <2>1. PICK i : i \in primary
    BY <1>2 DEF IInv, NothingStale, PrimaryUnlessOvertaken
  <2>2. primary = {i}
    BY <1>2, <2>1 DEF IInv, PrimaryUnique
  <2>3. QED
    BY <2>2, FS_Singleton
<1>3. QED
  BY <1>1, <1>2, NextNothingStale, Invariance, PTL DEF Spec

-----------------------------------------------------------------------------
(***************************************************************************)
(* Reorders that meet no other, and no attach.                             *)
(***************************************************************************)

\* Deletes may run with a reorder, and with each other.
ReordersAlone ==
    \A q, r \in Requests :
        q # r /\ txn[q].op = "reorder" => txn[r].op \notin {"attach", "reorder"}

\* No image has come, or left its place, since the reorder looked.
AllSeen ==
    \A r \in Requests :
        txn[r].op = "reorder" => Misplaced(txn[r].list) \subseteq txn[r].seen

LEMMA NextAllSeen ==
    IInv /\ AllSeen /\ ReordersAlone /\ [Next]_vars => AllSeen'
<1> SUFFICES ASSUME IInv, AllSeen, ReordersAlone, [Next]_vars PROVE AllSeen'
  OBVIOUS
<1>1. ASSUME NEW r \in Requests, NEW t, Statement(r, t),
             t.op = "reorder" => Misplaced(t.list) \subseteq t.seen
      PROVE  AllSeen'
  BY <1>1 DEF Statement, AllSeen, Misplaced, Attached, IInv, TypeOK
<1>2. ASSUME NEW r \in Requests, NEW t, Statement(r, t), t.op = txn[r].op,
             t.op = "reorder" => t.list = txn[r].list /\ t.seen = txn[r].seen
      PROVE  AllSeen'
  BY <1>1, <1>2 DEF AllSeen
<1>3. CASE UNCHANGED vars
  BY <1>3 DEF vars, AllSeen, Misplaced, Attached
<1>4. ASSUME NEW r \in Requests, Abort(r) PROVE AllSeen'
  BY <1>1, <1>4, IdleFields DEF Abort
<1>5. ASSUME NEW r \in Requests, NEW i \in Images, NEW wanted \in BOOLEAN,
             NEW position \in Positions, StartAttach(r, i, wanted, position)
      PROVE  AllSeen'
  <2> DEFINE t == [Idle EXCEPT
                     !.op = "attach", !.image = i, !.position = position,
                     !.flag = IsPrimary(wanted), !.seen = Attached,
                     !.step = IF IsPrimary(wanted) THEN "clear" ELSE "written"]
  <2>1. t.op = "attach"
    BY DEF Idle
  <2>2. Statement(r, t)
    BY <1>5 DEF StartAttach, Begin, Statement
  <2> HIDE DEF t
  <2>3. QED
    BY <1>1, <2>1, <2>2
<1>6. ASSUME NEW r \in Requests, NEW i \in Images, StartDelete(r, i)
      PROVE  AllSeen'
  <2> DEFINE t == [Idle EXCEPT !.op = "delete", !.step = "delete", !.image = i,
                               !.flag = i \in primary]
  <2>1. t.op = "delete"
    BY DEF Idle
  <2>2. Statement(r, t)
    BY <1>6 DEF StartDelete, Begin, Statement
  <2> HIDE DEF t
  <2>3. QED
    BY <1>1, <2>1, <2>2
<1>7. ASSUME NEW r \in Requests, NEW list \in Arrangements, StartReorder(r, list)
      PROVE  AllSeen'
  <2> DEFINE t == [Idle EXCEPT !.op = "reorder", !.step = "move", !.list = list,
                               !.seen = Misplaced(list),
                               !.found = Changed(list)]
  <2>1. t.list = list /\ t.seen = Misplaced(list)
    BY DEF Idle
  <2>2. Statement(r, t)
    BY <1>7 DEF StartReorder, Begin, Statement
  <2> HIDE DEF t
  <2>3. QED
    BY <1>1, <2>1, <2>2
<1>8. \A r \in Requests : txn[r] \in Request
  BY OneHandler
<1>9. ASSUME NEW r \in Requests, Clear(r) \/ Cleared(r) PROVE AllSeen'
  BY <1>2, <1>8, <1>9 DEF Clear, Cleared, Request
<1>10. ASSUME NEW r \in Requests, Mark(r) PROVE AllSeen'
  BY <1>2, <1>4, <1>8, <1>10 DEF Mark, Refuse, Request
<1>11. ASSUME NEW r \in Requests, DeleteRow(r) \/ ListRemaining(r) PROVE AllSeen'
  BY <1>2, <1>8, <1>11 DEF DeleteRow, ListRemaining, At, Request
<1>12. ASSUME NEW r \in Requests, FindTarget(r) PROVE AllSeen'
  BY <1>2, <1>8, <1>12 DEF FindTarget, At, Request
<1>13. ASSUME NEW r \in Requests, Promote(r) PROVE AllSeen'
  BY <1>2, <1>4, <1>8, <1>13 DEF Promote, At, Request
<1>14. ASSUME NEW r \in Requests, Move(r) PROVE AllSeen'
  BY <1>2, <1>4, <1>8, <1>14, MoveCases DEF Moved, Request
<1>15. ASSUME NEW r \in Requests, Finish(r)
       PROVE  /\ txn'[r].op = "none"
              /\ \A q \in Requests \ {r} : txn'[q] = txn[q]
  BY <1>15, IdleFields DEF Finish, IInv, TypeOK
<1>16. ASSUME NEW r \in Requests, CommitAttach(r) \/ CommitReorder(r)
       PROVE  AllSeen'
  <2>1. txn[r].op \in {"attach", "reorder"} /\ Finish(r)
    BY <1>16 DEF CommitAttach, CommitReorder, At
  <2>2. \A q \in Requests \ {r} : txn[q].op # "reorder"
    BY <2>1 DEF ReordersAlone
  <2>3. QED
    BY <1>15, <2>1, <2>2 DEF AllSeen
<1>17. ASSUME NEW r \in Requests, CommitDelete(r) PROVE AllSeen'
  <2>1. Finish(r) /\ order' = order
    BY <1>17 DEF CommitDelete
  <2>2. Attached' \subseteq Attached
    BY <1>17 DEF CommitDelete, Attached, IInv, TypeOK
  <2>3. QED
    BY <1>15, <2>1, <2>2 DEF AllSeen, Misplaced
<1>18. QED
  BY <1>3, <1>4, <1>5, <1>6, <1>7, <1>9, <1>10, <1>11, <1>12, <1>13, <1>14,
     <1>16, <1>17 DEF Next, Proceed

\* Every image that the list names gets its place.
WholeReorders ==
    [][\A r \in Requests : CommitReorder(r) => Shown!Reorder(txn[r].list)]_vars

\* A reorder that meets no other reorder and no attach puts every image of its
\* list that is still there in place, or is rolled back.  It looks at the images
\* without a lock, and deletes may take some of them from under it.
THEOREM WholeReordersAlone == Spec /\ []ReordersAlone => WholeReorders
<1>1. Init => AllSeen
  BY IdleFields DEF Init, AllSeen
<1>2. IInv /\ AllSeen =>
         [\A r \in Requests : CommitReorder(r) => Shown!Reorder(txn[r].list)]_vars
  <2>1. ASSUME IInv, AllSeen, NEW r \in Requests, CommitReorder(r)
        PROVE  Shown!Reorder(txn[r].list)
    BY <2>1, WholeReorder DEF AllSeen, CommitReorder, At
  <2>2. QED
    BY <2>1
<1>3. QED
  BY <1>1, <1>2, NextAllSeen, Invariance, PTL DEF Spec, WholeReorders
=============================================================================
