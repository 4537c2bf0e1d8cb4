--------------------------- MODULE RequestsProofs ---------------------------
(***************************************************************************)
(* What Requests promises for any number of requests, works, decisions and *)
(* restarts.                                                               *)
(***************************************************************************)
EXTENDS Requests, TLAPS

LEMMA TypeInit == Init => TypeOK
  <1> SUFFICES ASSUME Init PROVE TypeOK
    OBVIOUS
  <1>1. cached \in BOOLEAN /\ enabled \in BOOLEAN
    BY DEF Init
  <1> QED
    BY <1>1, RequestsAssumption DEF Init, TypeOK

LEMMA TypeStep == TypeOK /\ [Next]_vars => TypeOK'
  <1> SUFFICES ASSUME TypeOK, [Next]_vars PROVE TypeOK'
    OBVIOUS
  <1> USE RequestsAssumption
  <1> USE DEF TypeOK, cache, checker, counters, Exists, HasStatus
  <1>1. ASSUME NEW m \in Media, Create(m) PROVE TypeOK'
    <2>1. requests' \in [RequestId -> MediaRequest \cup {None}]
      BY <1>1 DEF Create, MediaRequest, Status
    <2>2. \A i \in RequestId : requests[i] # None => requests'[i] # None
      BY <1>1 DEF Create
    <2> QED
      BY <1>1, <2>1, <2>2 DEF Create
  <1>2. ASSUME NEW i \in RequestId, Approve(i) PROVE TypeOK'
    <2>1. requests[i] \in MediaRequest
      BY <1>2 DEF Approve
    <2>2. [requests[i] EXCEPT !.status = "approved"] \in MediaRequest
      BY <2>1 DEF MediaRequest, Status
    <2>3. /\ requests' \in [RequestId -> MediaRequest \cup {None}]
          /\ \A j \in RequestId : requests[j] # None => requests'[j] # None
      BY <1>2, <2>2 DEF Approve
    <2> QED
      BY <1>2, <2>1, <2>3 DEF Approve, MediaRequest
  <1>3. ASSUME NEW i \in RequestId, Reject(i) PROVE TypeOK'
    <2>1. requests[i] \in MediaRequest
      BY <1>3 DEF Reject
    <2>2. [requests[i] EXCEPT !.status = "rejected"] \in MediaRequest
      BY <2>1 DEF MediaRequest, Status
    <2>3. /\ requests' \in [RequestId -> MediaRequest \cup {None}]
          /\ \A j \in RequestId : requests[j] # None => requests'[j] # None
      BY <1>3, <2>2 DEF Reject
    <2> QED
      BY <1>3, <2>3 DEF Reject
  <1>4. CASE \E m \in Media : LibraryRemove(m) \/ MediaChanges(m)
    BY <1>4 DEF LibraryRemove, MediaChanges
  <1>5. CASE CacheFills \/ CacheExpires
    BY <1>5 DEF CacheFills, CacheExpires, CacheEmptied
  <1>13. CASE SaveSettings
    <2>1. /\ check' \in {"idle", "asking", "orphaned", "sweeping", "telling"}
          /\ (check' = "telling") <=> (check = "telling")
          /\ (check' = "idle") <=> (check = "idle")
      BY <1>13 DEF SaveSettings
    <2> QED
      BY <1>13, <2>1 DEF SaveSettings, CacheEmptied
  <1>6. CASE CheckStarts
    <2>1. approved' \subseteq {i \in RequestId : Exists(i)}
      BY <1>6 DEF CheckStarts, ApprovedRequests
    <2>2. owned' \subseteq Media /\ check' \in {"asking", "sweeping"}
      BY <1>6 DEF CheckStarts
    <2> QED
      BY <1>6, <2>1, <2>2 DEF CheckStarts
  <1>10. CASE CatalogueAnswered
    <2>1. cached' \in BOOLEAN /\ catalogue' \subseteq Media
      BY <1>10 DEF CatalogueAnswered
    <2> QED
      BY <1>10, <2>1 DEF CatalogueAnswered, Asking
  <1>11. CASE CatalogueFails
    BY <1>11 DEF CatalogueFails, Asking
  <1>12. CASE Restart
    <2>1. cached' \in BOOLEAN /\ catalogue' \subseteq Media
      BY <1>12 DEF Restart, CacheEmptied
    <2> QED
      BY <1>12, <2>1 DEF Restart
  <1>7. CASE Sweep
    <2>1. CASE Owned = {}
      BY <1>7, <2>1 DEF Sweep
    <2>2. CASE Owned # {}
      <3>1. PICK i \in Owned :
              /\ requests' = [requests EXCEPT ![i].status = "available"]
              /\ telling' = i
              /\ approved' = {j \in approved : j < i}
              /\ check' = "telling"
              /\ UNCHANGED owned
        BY <1>7, <2>2 DEF Sweep
      <3>2. i \in RequestId /\ requests[i] \in MediaRequest
        BY DEF Owned
      <3>3. [requests[i] EXCEPT !.status = "available"] \in MediaRequest
        BY <3>2 DEF MediaRequest, Status
      <3>4. /\ requests' \in [RequestId -> MediaRequest \cup {None}]
            /\ \A j \in RequestId : requests[j] # None => requests'[j] # None
        BY <3>1, <3>2, <3>3
      <3> QED
        BY <1>7, <3>1, <3>2, <3>4 DEF Sweep
    <2> QED
      BY <2>1, <2>2
  <1>8. CASE Tell
    BY <1>8 DEF Tell
  <1>9. CASE UNCHANGED vars
    BY <1>9 DEF vars
  <1> QED
    BY <1>1, <1>2, <1>3, <1>4, <1>5, <1>6, <1>7, <1>8, <1>9, <1>10, <1>11, <1>12, <1>13
    DEF Next, Check

(* Every reachable state has its types: the check never holds a request    *)
(* the store does not know, nor a notification at a step that sends none.  *)
THEOREM TypeCorrect == Spec => []TypeOK
  BY TypeInit, TypeStep, PTL DEF Spec

(***************************************************************************)
(* What a step may do to the statuses.                                     *)
(***************************************************************************)

(* A step creates one request for a work nobody waits for, or makes no     *)
(* request pending.                                                        *)
LEMMA PendingStep ==
    ASSUME TypeOK, [Next]_vars
    PROVE  \/ \E m \in Media : Create(m)
           \/ \A i \in RequestId : HasStatus(i, "pending")' =>
                  HasStatus(i, "pending") /\ requests'[i].media = requests[i].media
  <1> USE DEF HasStatus, Exists
  <1>1. CASE UNCHANGED requests
    BY <1>1
  <1>2. CASE \E i \in RequestId : Approve(i) \/ Reject(i)
    BY <1>2 DEF Approve, Reject, TypeOK, MediaRequest
  <1>3. CASE Sweep
    <2>1. \/ UNCHANGED requests
          \/ \E i \in RequestId : requests' = [requests EXCEPT ![i].status = "available"]
      BY <1>3 DEF Sweep, Owned, TypeOK
    <2>2. ASSUME NEW i \in RequestId, requests' = [requests EXCEPT ![i].status = "available"],
                 NEW j \in RequestId, HasStatus(j, "pending")'
          PROVE  HasStatus(j, "pending") /\ requests'[j].media = requests[j].media
      <3>1. CASE j = i
        BY <2>2, <3>1 DEF TypeOK, MediaRequest
      <3>2. CASE j # i
        BY <2>2, <3>2 DEF TypeOK
      <3> QED
        BY <3>1, <3>2
    <2> QED
      BY <1>1, <2>1, <2>2
  <1>4. CASE CacheFills \/ CacheExpires \/ SaveSettings \/ Restart \/ CheckStarts
             \/ CatalogueAnswered \/ CatalogueFails \/ Tell
    BY <1>1, <1>4 DEF CacheFills, CacheExpires, SaveSettings, Restart, CheckStarts,
                      CatalogueAnswered, CatalogueFails, Tell
  <1>5. CASE \E m \in Media : LibraryRemove(m) \/ MediaChanges(m)
    BY <1>1, <1>5 DEF LibraryRemove, MediaChanges
  <1>6. CASE UNCHANGED vars
    BY <1>1, <1>6 DEF vars
  <1> QED
    BY <1>2, <1>3, <1>4, <1>5, <1>6 DEF Next, Check

(* A work never waits twice for a decision.                                *)
THEOREM OnePendingCorrect == Spec => []OnePendingPerMedia
  <1>1. Init => OnePendingPerMedia
    BY DEF Init, OnePendingPerMedia, HasStatus, Exists
  <1>2. TypeOK /\ OnePendingPerMedia /\ [Next]_vars => OnePendingPerMedia'
    <2> SUFFICES ASSUME TypeOK, OnePendingPerMedia, [Next]_vars PROVE OnePendingPerMedia'
      OBVIOUS
    <2>1. ASSUME NEW m \in Media, Create(m) PROVE OnePendingPerMedia'
      BY <2>1 DEF Create, AlreadyAsked, OnePendingPerMedia, HasStatus, Exists, TypeOK
    <2>2. CASE \A i \in RequestId : HasStatus(i, "pending")' =>
                  HasStatus(i, "pending") /\ requests'[i].media = requests[i].media
      BY <2>2 DEF OnePendingPerMedia
    <2> QED
      BY <2>1, <2>2, PendingStep
  <1> QED
    BY <1>1, <1>2, TypeCorrect, PTL DEF Spec

(***************************************************************************)
(* Messages. ToldOncePerApproval is not inductive: a message in flight, an *)
(* entry of the snapshot and an approved status are messages to come.      *)
(***************************************************************************)

Due(i) == i \in approved \/ HasStatus(i, "approved")

ToldInv ==
    \A i \in RequestId :
        told[i] + (IF telling = i THEN 1 ELSE 0) + (IF Due(i) THEN 1 ELSE 0) <= approvals[i]

LEMMA ToldInit == Init => ToldInv
  BY RequestsAssumption DEF Init, ToldInv, Due, HasStatus, Exists, RequestId

(* Fewer messages to come, and as many sent.                               *)
LEMMA ToldKeeps ==
    ASSUME TypeOK, ToldInv, UNCHANGED <<told, telling, approvals>>,
           \A i \in RequestId : Due(i)' => Due(i)
    PROVE  ToldInv'
  BY DEF ToldInv, TypeOK

LEMMA ToldStep == TypeOK /\ ToldInv /\ [Next]_vars => ToldInv'
  <1> SUFFICES ASSUME TypeOK, ToldInv, [Next]_vars PROVE ToldInv'
    OBVIOUS
  <1> USE DEF counters, checker, Exists, HasStatus
  <1>1. ASSUME NEW m \in Media, Create(m) PROVE ToldInv'
    <2>1. \A i \in RequestId : Due(i)' => Due(i)
      BY <1>1 DEF Create, Due, TypeOK
    <2> QED
      BY <1>1, <2>1, ToldKeeps DEF Create
  <1>2. ASSUME NEW i \in RequestId, Approve(i) PROVE ToldInv'
    <2>1. approvals' = [approvals EXCEPT ![i] = @ + 1] /\ UNCHANGED <<told, telling, approved>>
      BY <1>2 DEF Approve
    <2>2. \A j \in RequestId : j # i => (Due(j)' <=> Due(j))
      BY <1>2 DEF Approve, Due, TypeOK
    <2> QED
      BY <2>1, <2>2 DEF ToldInv, TypeOK
  <1>3. ASSUME NEW i \in RequestId, Reject(i) PROVE ToldInv'
    <2>1. \A j \in RequestId : Due(j)' => Due(j)
      BY <1>3 DEF Reject, Due, TypeOK, MediaRequest
    <2> QED
      BY <1>3, <2>1, ToldKeeps DEF Reject
  <1>4. CASE CheckStarts
    <2>1. \A j \in RequestId : Due(j)' => Due(j)
      BY <1>4 DEF CheckStarts, Due, ApprovedRequests
    <2> QED
      BY <1>4, <2>1, ToldKeeps DEF CheckStarts
  <1>5. CASE Sweep /\ Owned = {}
    <2>1. \A j \in RequestId : Due(j)' => Due(j)
      BY <1>5 DEF Sweep, Due
    <2> QED
      BY <1>5, <2>1, ToldKeeps DEF Sweep
  <1>6. CASE Sweep /\ Owned # {}
    <2>1. PICK i \in Owned :
            /\ requests' = [requests EXCEPT ![i].status = "available"]
            /\ telling' = i
            /\ approved' = {j \in approved : j < i}
            /\ UNCHANGED <<told, approvals>>
      BY <1>6 DEF Sweep
    <2>2. telling = None
      BY <1>6 DEF Sweep, TypeOK
    <2>3. i \in RequestId /\ i \in approved /\ requests[i] \in MediaRequest
      BY DEF Owned, TypeOK
    <2>4. Due(i) /\ ~Due(i)'
      BY <2>1, <2>3, RequestsAssumption DEF Due, MediaRequest, TypeOK, RequestId
    <2>5. \A j \in RequestId : j # i => (Due(j)' => Due(j))
      BY <2>1, <2>3 DEF Due, TypeOK
    <2> QED
      BY <2>1, <2>2, <2>3, <2>4, <2>5, RequestsAssumption DEF ToldInv, TypeOK
  <1>7. CASE Tell
    <2>1. telling \in RequestId
      BY <1>7 DEF Tell, TypeOK
    <2>2. \A j \in RequestId : Due(j)' <=> Due(j)
      BY <1>7 DEF Tell, Due
    <2>3. telling' = None /\ UNCHANGED approvals
      BY <1>7 DEF Tell
    <2>4. told' = [told EXCEPT ![telling] = @ + 1] \/ UNCHANGED told
      BY <1>7 DEF Tell
    <2> QED
      BY <2>1, <2>2, <2>3, <2>4, RequestsAssumption DEF ToldInv, TypeOK
  <1>8. CASE Restart
    <2>1. \A j \in RequestId : Due(j)' => Due(j)
      BY <1>8 DEF Restart, Due
    <2>2. telling' = None /\ UNCHANGED <<told, approvals>>
      BY <1>8 DEF Restart
    <2> QED
      BY <2>1, <2>2, RequestsAssumption DEF ToldInv, TypeOK
  <1>9. CASE UNCHANGED <<requests, approved, told, telling, approvals>>
    <2>1. \A j \in RequestId : Due(j)' => Due(j)
      BY <1>9 DEF Due
    <2> QED
      BY <1>9, <2>1, ToldKeeps
  <1>10. CASE CacheFills \/ CacheExpires \/ SaveSettings \/ CatalogueAnswered \/ CatalogueFails
    BY <1>9, <1>10 DEF CacheFills, CacheExpires, SaveSettings, CatalogueAnswered, CatalogueFails
  <1>11. CASE \E m \in Media : LibraryRemove(m) \/ MediaChanges(m)
    BY <1>9, <1>11 DEF LibraryRemove, MediaChanges
  <1>12. CASE UNCHANGED vars
    BY <1>9, <1>12 DEF vars
  <1> QED
    BY <1>1, <1>2, <1>3, <1>4, <1>5, <1>6, <1>7, <1>8, <1>10, <1>11, <1>12 DEF Next, Check

(* The channels hear of a request at most once per approval, whatever is   *)
(* decided while the check awaits Jellyfin or a notification.              *)
THEOREM ToldCorrect == Spec => []ToldOncePerApproval
  <1>1. TypeOK /\ ToldInv => ToldOncePerApproval
    BY DEF ToldInv, ToldOncePerApproval, TypeOK
  <1> QED
    BY <1>1, ToldInit, ToldStep, TypeCorrect, PTL DEF Spec

=============================================================================
