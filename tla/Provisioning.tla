---------------------------- MODULE Provisioning ----------------------------
(***************************************************************************)
(* Provisioning of a subscription's storage: the handlers the worker runs  *)
(* for payments, ends, plan changes and deletions, the cleanup job, and    *)
(* what they share: the provisions rows, the load counters and buckets of  *)
(* the storage backends, and the status told to billing.  Every await is a *)
(* step boundary: a handler keeps working on the row as it read it, while  *)
(* other handlers and operators go on.                                     *)
(***************************************************************************)
EXTENDS Naturals, FiniteSets

CONSTANTS
  Subs,        \* externalSubscriptionIds
  Backends,    \* storage backends
  None,        \* no backend (NULL in the column)
  Capacities,  \* the capacities operators give a backend
  Workers,     \* jobs the worker runs at once
  Plans,       \* storageEnabled of the plans that are sold
  Kinds,       \* the kinds of handler that are started
  Faults,      \* may awaited calls throw?
  MaxJobs,     \* bound: handlers started
  MaxCrashes,  \* bound: crashes of the process
  MaxEdits     \* bound: edits of a backend by operators

HandlerKinds == {"pay", "cancel", "expire", "plan", "delete", "cleanup"}

ASSUME ProvisioningAssumption ==
  /\ None \notin Backends \cup Workers
  /\ Capacities \subseteq Nat \ {0}
  /\ Plans \subseteq BOOLEAN
  /\ Kinds \subseteq HandlerKinds
  /\ Faults \in BOOLEAN
  /\ MaxJobs \in Nat
  /\ MaxCrashes \in Nat
  /\ MaxEdits \in Nat

VARIABLES
  status,   \* provisions.status, "none" without a row
  home,     \* provisions.storage_backend_id (storage_bucket is set with it)
  due,      \* provisions.delete_after: "none", "later" or "passed"
  rid,      \* provisions.id of the row there is, or of the next one
  load,     \* storage_backends.current_load
  capacity, \* storage_backends.capacity
  open,     \* storage_backends.is_active
  buckets,  \* the buckets that exist, as <<backend, subscription>>
  billing,  \* the service status billing was last told
  worker,   \* what each worker is doing
  edit,     \* an operator's open edit of a backend
  jobs,     \* handlers started so far
  crashes,  \* crashes so far
  edits,    \* edits so far
  wiped,    \* history: subscriptions whose recorded bucket was deleted
  counted,  \* history: subscriptions whose row has a unit of load counted
            \*   for it, neither rolled back nor lost by a payment cut short
  crossed,  \* history: subscriptions of which two payments overlapped
  late,     \* history: subscriptions of which a payment that read no backend
            \*   overlapped a deletion
  writer,   \* history: the worker that wrote a row's status last
  most      \* history: the largest capacity a backend has had

rows == <<status, home, due, rid>>
stores == <<load, capacity, open, buckets>>
meetings == <<crossed, late>>
history == <<wiped, counted, meetings, writer, most>>
bounds == <<jobs, crashes, edits>>
vars == <<rows, stores, billing, worker, edit, bounds, history>>

Status == {"pending", "provisioning", "active", "failed", "suspended",
           "cancelled", "deleted"}

(* The steps of the handlers, each named for the call it is about to make. *)
Pc == {"resolving", "selecting", "creating", "counting", "dropping",
       "activating", "rollback", "failing", "apologizing",
       "marking", "releasing", "reporting", "deleting", "closing", "pushing",
       "sweeping", "restoring"}

(* A row as a handler read it. *)
Rows == [sub : Subs, id : Nat, was : Status, home : Backends \cup {None}]
Row(s, was) == [sub |-> s, id |-> rid[s], was |-> was, home |-> home[s]]

Idle == [pc |-> "idle"]
Handlers ==
  [pc : Pc \ {"sweeping"}, kind : HandlerKinds, row : Rows,
   nb : Backends \cup {None}, todo : SUBSET Rows]
Sweeps == [pc : {"sweeping"}, todo : SUBSET Rows]
Run(pc, kind, row, todo) ==
  [pc |-> pc, kind |-> kind, row |-> row, nb |-> None, todo |-> todo]
Sweep(todo) == [pc |-> "sweeping", todo |-> todo]

TypeOK ==
  /\ status \in [Subs -> Status \cup {"none"}]
  /\ home \in [Subs -> Backends \cup {None}]
  /\ due \in [Subs -> {"none", "later", "passed"}]
  /\ rid \in [Subs -> Nat]
  /\ load \in [Backends -> Nat]
  /\ capacity \in [Backends -> Capacities]
  /\ open \in [Backends -> BOOLEAN]
  /\ buckets \subseteq Backends \X Subs
  /\ billing \in [Subs -> Status \cup {"none"}]
  /\ worker \in [Workers -> {Idle} \cup Handlers \cup Sweeps]
  /\ edit \in {Idle} \cup [pc : {"editing"}, backend : Backends, load : Nat]
  /\ jobs \in 0 .. MaxJobs
  /\ crashes \in 0 .. MaxCrashes
  /\ edits \in 0 .. MaxEdits
  /\ wiped \subseteq Subs
  /\ counted \subseteq Subs
  /\ crossed \subseteq Subs
  /\ late \subseteq Subs
  /\ writer \in [Subs -> Workers \cup {None}]
  /\ most \in [Backends -> Capacities]

Init ==
  /\ status = [s \in Subs |-> "none"]
  /\ home = [s \in Subs |-> None]
  /\ due = [s \in Subs |-> "none"]
  /\ rid = [s \in Subs |-> 0]
  /\ load = [b \in Backends |-> 0]
  /\ capacity \in [Backends -> Capacities]
  /\ open = [b \in Backends |-> TRUE]
  /\ buckets = {}
  /\ billing = [s \in Subs |-> "none"]
  /\ worker = [w \in Workers |-> Idle]
  /\ edit = Idle
  /\ jobs = 0
  /\ crashes = 0
  /\ edits = 0
  /\ wiped = {}
  /\ counted = {}
  /\ crossed = {}
  /\ late = {}
  /\ writer = [s \in Subs |-> None]
  /\ most = capacity

Working(w) == worker[w].pc \notin {"idle", "sweeping"}

(* The subscriptions worker w has read a row of and is not done with. *)
Holds(w) ==
  (IF Working(w) THEN {worker[w].row.sub} ELSE {}) \cup
  (IF worker[w] # Idle THEN {r.sub : r \in worker[w].todo} ELSE {})

Busy(s) == \E w \in Workers : s \in Holds(w)

Paying(w, s) == Working(w) /\ worker[w].kind = "pay" /\ worker[w].row.sub = s

(* Worker w is deleting what s has, or has s on its list of rows to delete. *)
Deleting(w, s) ==
  /\ s \in Holds(w)
  /\ worker[w].pc = "sweeping" \/ worker[w].kind \in {"delete", "cleanup"}

At(w, pc) == worker[w].pc = pc
Sub(w) == worker[w].row.sub
Goto(w, pc) == worker' = [worker EXCEPT ![w].pc = pc]

(* The handler is over; a cleanup turns to the next row of its list. *)
Leave(w) ==
  worker' = [worker EXCEPT ![w] =
               IF @.todo = {} THEN Idle ELSE Sweep(@.todo)]

SetStatus(s, new) == status' = [status EXCEPT ![s] = new]

(* Rows are updated by their id: one purged since it was read stays away,  *)
(* whatever row the subscription has got in the meantime.                  *)
Live(w) == worker[w].row.id = rid[Sub(w)]

Write(w, new) ==
  IF Live(w)
  THEN SetStatus(Sub(w), new) /\ writer' = [writer EXCEPT ![Sub(w)] = w]
  ELSE UNCHANGED <<status, writer>>

-----------------------------------------------------------------------------
(* Faulty variants of definitions below.  Nothing here uses them: put in   *)
(* the place of the definition each names, they show that a property       *)
(* notices the mistake.                                                    *)

(* Decrement without GREATEST. *)
DecrementBare(b) == load' = [load EXCEPT ![b] = @ - 1]

(* Count that trusts the check made at the selection. *)
CountUnchecked(w) ==
  /\ At(w, "counting")
  /\ load' = [load EXCEPT ![worker[w].nb] = @ + 1]
  /\ counted' = IF Live(w) THEN counted \cup {Sub(w)} ELSE counted
  /\ Goto(w, "activating")
  /\ UNCHANGED <<rows, capacity, open, buckets, billing, edit, bounds, wiped,
                meetings, writer, most>>

(* Activate that writes the new backend only. *)
ActivateNewHome(w) ==
  /\ At(w, "activating")
  /\ Write(w, "active")
  /\ home' = IF Live(w) THEN [home EXCEPT ![Sub(w)] = worker[w].nb] ELSE home
  /\ Goto(w, "reporting")
  /\ UNCHANGED <<due, rid, stores, billing, edit, bounds, wiped, counted,
                meetings, most>>

(* MarkFailed that also removes the bucket, as a rollback of everything.   *)
MarkFailedDropsBucket(w) ==
  /\ At(w, "failing")
  /\ Write(w, "failed")
  /\ buckets' = buckets \ {<<home[Sub(w)], Sub(w)>>}
  /\ Goto(w, "apologizing")
  /\ UNCHANGED <<home, due, rid, load, capacity, open, billing, edit, bounds,
                wiped, counted, meetings, most>>

(* Caught without the return of the counted unit. *)
CaughtNoRollback(w) ==
  IF worker[w].pc \in {"rollback", "failing", "apologizing", "restoring"}
  THEN "idle"
  ELSE IF worker[w].kind = "cleanup" THEN "restoring"
  ELSE IF worker[w].kind # "pay" THEN "idle"
  ELSE "failing"

(* MarkEnded that sets the grace period and forgets the status. *)
MarkEndedGraceOnly(w) ==
  /\ At(w, "marking")
  /\ due' = [due EXCEPT ![Sub(w)] = "later"]
  /\ Goto(w, "releasing")
  /\ UNCHANGED <<status, home, rid, stores, billing, edit, bounds, history>>

(* DeleteBucket for active subscriptions only. *)
DeleteBucketOfActive(w) ==
  LET r == worker[w].row
  IN  /\ At(w, "deleting")
      /\ buckets' = IF r.was = "active"
                    THEN buckets \ {<<r.home, r.sub>>} ELSE buckets
      /\ wiped' = IF r.home = None THEN wiped ELSE wiped \cup {r.sub}
      /\ Goto(w, "releasing")
      /\ UNCHANGED <<rows, load, capacity, open, billing, edit, bounds, counted,
                    meetings, writer, most>>
-----------------------------------------------------------------------------
(* storage-backends.service.ts decrementLoad: GREATEST(load - 1, 0). *)
Decrement(b) ==
  load' = [load EXCEPT ![b] = IF @ > 0 THEN @ - 1 ELSE 0]

(* selectLeastLoaded: any of the least loaded backends with a free unit. *)
Available == {b \in Backends : open[b] /\ load[b] < capacity[b]}
LeastLoaded == {b \in Available : \A c \in Available : load[b] <= load[c]}
-----------------------------------------------------------------------------
(* Handlers start with the row as it is now.                               *)

Events == {"pay", "cancel", "expire", "plan", "delete"}

FirstStep == [pay |-> "resolving", cancel |-> "marking", expire |-> "marking",
              plan |-> "reporting", delete |-> "deleting"]

(* A payment of s is under way that has read no backend. *)
NewPayment(s) ==
  \E v \in Workers : Paying(v, s) /\ worker[v].row.home = None

(* A payment creates a missing row; every other handler ends without one,  *)
(* and a delete ends at once on a deleted one.                             *)
Start(w, kind, s) ==
  /\ kind \in Kinds
  /\ jobs < MaxJobs
  /\ jobs' = jobs + 1
  /\ worker[w] = Idle
  /\ kind # "pay" => status[s] # "none"
  /\ kind = "delete" => status[s] # "deleted"
  /\ LET was == IF status[s] = "none" THEN "pending" ELSE status[s]
     IN  /\ SetStatus(s, was)
         /\ worker' = [worker EXCEPT ![w] =
                         Run(FirstStep[kind], kind, Row(s, was), {})]
  /\ crossed' = IF kind = "pay" /\ (\E v \in Workers : Paying(v, s))
                THEN crossed \cup {s} ELSE crossed
  /\ late' = IF \/ /\ kind = "pay" /\ home[s] = None
                   /\ \E v \in Workers : Deleting(v, s)
                \/ kind = "delete" /\ NewPayment(s)
             THEN late \cup {s} ELSE late
  /\ UNCHANGED <<home, due, rid, stores, billing, edit, crashes, edits,
                wiped, counted, writer, most>>

(* findDueForDeletion: ended rows whose grace period is over. *)
DueForDeletion ==
  {s \in Subs : status[s] \in {"cancelled", "suspended"} /\ due[s] = "passed"}

StartCleanup(w) ==
  /\ "cleanup" \in Kinds
  /\ jobs < MaxJobs
  /\ jobs' = jobs + 1
  /\ DueForDeletion # {}
  /\ worker[w] = Idle
  /\ worker' = [worker EXCEPT ![w] =
                  Sweep({Row(s, status[s]) : s \in DueForDeletion})]
  /\ late' = late \cup {s \in DueForDeletion : NewPayment(s)}
  /\ UNCHANGED <<rows, stores, billing, edit, crashes, edits, wiped, counted,
                crossed, writer, most>>

(* The for loop of cleanupDueProvisions: the next row, as the list has it. *)
NextDue(w) ==
  /\ At(w, "sweeping")
  /\ worker[w].todo # {}
  /\ \E r \in worker[w].todo :
       worker' = [worker EXCEPT ![w] =
                    Run("deleting", "cleanup", r, @.todo \ {r})]
  /\ UNCHANGED <<rows, stores, billing, edit, bounds, history>>

-----------------------------------------------------------------------------
(* provisionOrRenew                                                        *)

(* The plan decides whether the subscription has storage at all.           *)
MarkProvisioning(w) ==
  /\ At(w, "resolving")
  /\ Write(w, "provisioning")
  /\ \E storageEnabled \in Plans :
       Goto(w, IF storageEnabled THEN "selecting" ELSE "activating")
  /\ UNCHANGED <<home, due, rid, stores, billing, edit, bounds, wiped, counted,
                meetings, most>>

(* A known backend is kept (its bucket only gets a new quota); otherwise   *)
(* one of the least loaded is chosen, or the payment fails without one.    *)
SelectBackend(w) ==
  /\ At(w, "selecting")
  /\ \/ /\ worker[w].row.home # None
        /\ Goto(w, "activating")
     \/ /\ worker[w].row.home = None
        /\ \E b \in LeastLoaded :
             worker' = [worker EXCEPT ![w].pc = "creating", ![w].nb = b]
     \/ /\ worker[w].row.home = None
        /\ Available = {}
        /\ Goto(w, "failing")
  /\ UNCHANGED <<rows, stores, billing, edit, bounds, history>>

(* The bucket's name is a function of the subscription's id.               *)
CreateBucket(w) ==
  /\ At(w, "creating")
  /\ buckets' = buckets \cup {<<worker[w].nb, Sub(w)>>}
  /\ Goto(w, "counting")
  /\ UNCHANGED <<rows, load, capacity, open, billing, edit, bounds, history>>

(* incrementLoad: one UPDATE ... WHERE is_active AND load < capacity.  The *)
(* unit counted for a row that is gone is nobody's.                        *)
Count(w) ==
  LET b == worker[w].nb
  IN  /\ At(w, "counting")
      /\ IF b \in Available
         THEN /\ load' = [load EXCEPT ![b] = @ + 1]
              /\ counted' = IF Live(w) THEN counted \cup {Sub(w)} ELSE counted
              /\ Goto(w, "activating")
         ELSE Goto(w, "dropping") /\ UNCHANGED <<load, counted>>
      /\ UNCHANGED <<rows, capacity, open, buckets, billing, edit, bounds, wiped,
                    meetings, writer, most>>

(* Somebody else took the last unit: the bucket goes, the payment fails.   *)
DropBucket(w) ==
  /\ At(w, "dropping")
  /\ buckets' = buckets \ {<<worker[w].nb, Sub(w)>>}
  /\ Goto(w, "failing")
  /\ UNCHANGED <<rows, load, capacity, open, billing, edit, bounds, history>>

(* markActive: the backend of the row as read, or else the new one.        *)
Activate(w) ==
  /\ At(w, "activating")
  /\ Write(w, "active")
  /\ home' = IF Live(w)
             THEN [home EXCEPT ![Sub(w)] = IF worker[w].row.home # None
                                           THEN worker[w].row.home
                                           ELSE worker[w].nb]
             ELSE home
  /\ Goto(w, "reporting")
  /\ UNCHANGED <<due, rid, stores, billing, edit, bounds, wiped, counted,
                meetings, most>>

(* The catch block: the unit is returned, the row marked, billing told.    *)
Rollback(w) ==
  /\ At(w, "rollback")
  /\ Decrement(worker[w].nb)
  /\ counted' = IF Live(w) THEN counted \ {Sub(w)} ELSE counted
  /\ Goto(w, "failing")
  /\ UNCHANGED <<rows, capacity, open, buckets, billing, edit, bounds, wiped,
                meetings, writer, most>>

MarkFailed(w) ==
  /\ At(w, "failing")
  /\ Write(w, "failed")
  /\ Goto(w, "apologizing")
  /\ UNCHANGED <<home, due, rid, stores, billing, edit, bounds, wiped, counted,
                meetings, most>>

Apologize(w) ==
  /\ At(w, "apologizing")
  /\ billing' = [billing EXCEPT ![Sub(w)] = "failed"]
  /\ Leave(w)
  /\ UNCHANGED <<rows, stores, edit, bounds, history>>
-----------------------------------------------------------------------------
(* suspend, deleteProvisionResources                                       *)

ReportedStatus == [pay |-> "active", plan |-> "active",
                   cancel |-> "cancelled", expire |-> "suspended"]

(* The row ends first, with a new grace period.                            *)
MarkEnded(w) ==
  /\ At(w, "marking")
  /\ Write(w, ReportedStatus[worker[w].kind])
  /\ due' = IF Live(w) THEN [due EXCEPT ![Sub(w)] = "later"] ELSE due
  /\ Goto(w, "releasing")
  /\ UNCHANGED <<home, rid, stores, billing, edit, bounds, wiped, counted,
                meetings, most>>

DeleteBucket(w) ==
  LET r == worker[w].row
  IN  /\ At(w, "deleting")
      /\ buckets' = buckets \ {<<r.home, r.sub>>}
      /\ wiped' = IF r.home = None THEN wiped ELSE wiped \cup {r.sub}
      /\ Goto(w, "releasing")
      /\ UNCHANGED <<rows, load, capacity, open, billing, edit, bounds, counted,
                    meetings, writer, most>>

(* Device accesses are revoked, and the unit of load is given back if the  *)
(* row was active when the handler read it.                                *)
Release(w) ==
  LET r == worker[w].row
  IN  /\ At(w, "releasing")
      /\ IF r.was = "active" /\ r.home # None
         THEN Decrement(r.home) ELSE UNCHANGED load
      /\ Goto(w, IF worker[w].kind \in {"cancel", "expire"}
                 THEN "reporting" ELSE "closing")
      /\ UNCHANGED <<rows, capacity, open, buckets, billing, edit, bounds, history>>

(* The device config and the status go to billing.                         *)
Report(w) ==
  /\ At(w, "reporting")
  /\ billing' = [billing EXCEPT ![Sub(w)] = ReportedStatus[worker[w].kind]]
  /\ Leave(w)
  /\ UNCHANGED <<rows, stores, edit, bounds, history>>

MarkDeleted(w) ==
  /\ At(w, "closing")
  /\ Write(w, "deleted")
  /\ Goto(w, "pushing")
  /\ UNCHANGED <<home, due, rid, stores, billing, edit, bounds, wiped, counted,
                meetings, most>>

(* After a deletion billing only gets the device config.                   *)
PushConfig(w) ==
  /\ At(w, "pushing")
  /\ Leave(w)
  /\ UNCHANGED <<rows, stores, billing, edit, bounds, history>>

(* cleanupDueProvisions' catch writes the status of its list back.         *)
Restore(w) ==
  /\ At(w, "restoring")
  /\ Write(w, worker[w].row.was)
  /\ Leave(w)
  /\ UNCHANGED <<home, due, rid, stores, billing, edit, bounds, wiped, counted,
                meetings, most>>
-----------------------------------------------------------------------------
(* Failures                                                                *)

(* The unit worker w has counted is not on the row yet.                    *)
InHand(w) ==
  /\ Live(w)
  /\ worker[w].pc \in {"activating", "rollback"}
  /\ worker[w].nb # None
  /\ home[Sub(w)] = None

(* Where an exception at w's next call leads.                              *)
Caught(w) ==
  IF worker[w].pc \in {"rollback", "failing", "apologizing", "restoring"}
  THEN "idle"
  ELSE IF worker[w].kind = "cleanup" THEN "restoring"
  ELSE IF worker[w].kind # "pay" THEN "idle"
  ELSE IF worker[w].pc \in {"activating", "reporting"} /\ worker[w].nb # None
  THEN "rollback" ELSE "failing"

(* The awaited call throws without effect.                                 *)
Throw(w) ==
  /\ Faults
  /\ Working(w)
  /\ IF Caught(w) = "idle"
     THEN worker' = [worker EXCEPT ![w] = Idle]
     ELSE Goto(w, Caught(w))
  /\ counted' = IF At(w, "rollback") /\ InHand(w)
                THEN counted \ {Sub(w)} ELSE counted
  /\ UNCHANGED <<rows, stores, billing, edit, bounds, wiped, meetings, writer,
                most>>

(* The process dies; all its handlers and requests are gone.               *)
Crash ==
  /\ crashes < MaxCrashes
  /\ crashes' = crashes + 1
  /\ counted' = counted \ {Sub(w) : w \in {v \in Workers :
                                            Working(v) /\ InHand(v)}}
  /\ worker' = [w \in Workers |-> Idle]
  /\ edit' = Idle
  /\ UNCHANGED <<rows, stores, billing, jobs, edits, wiped, meetings, writer,
                most>>
-----------------------------------------------------------------------------
(* Time and operators                                                      *)

GraceEnds(s) ==
  /\ due[s] = "later"
  /\ due' = [due EXCEPT ![s] = "passed"]
  /\ UNCHANGED <<status, home, rid, stores, billing, worker, edit, bounds,
                history>>

(* purgeDeleted removes a deleted row, whichever handlers have read it.  A *)
(* payment of the subscription then makes one with another id.             *)
Purge(s) ==
  /\ status[s] = "deleted"
  /\ SetStatus(s, "none")
  /\ rid' = [rid EXCEPT ![s] = @ + 1]
  /\ home' = [home EXCEPT ![s] = None]
  /\ due' = [due EXCEPT ![s] = "none"]
  /\ wiped' = wiped \ {s}
  /\ counted' = counted \ {s}
  /\ writer' = [writer EXCEPT ![s] = None]
  /\ UNCHANGED <<stores, billing, worker, edit, bounds, meetings, most>>

(* PATCH storage-backends/:id reads the entity ...                         *)
EditBackend(b) ==
  /\ edit = Idle
  /\ edits < MaxEdits
  /\ edits' = edits + 1
  /\ edit' = [pc |-> "editing", backend |-> b, load |-> load[b]]
  /\ UNCHANGED <<rows, stores, billing, worker, jobs, crashes, history>>

(* ... and saves all of it, the load it has read included.                 *)
SaveBackend ==
  LET b == edit.backend
  IN  /\ edit # Idle
      /\ load' = [load EXCEPT ![b] = edit.load]
      /\ \E active \in BOOLEAN : open' = [open EXCEPT ![b] = active]
      /\ \E c \in Capacities :
           /\ capacity' = [capacity EXCEPT ![b] = c]
           /\ most' = [most EXCEPT ![b] = IF c > @ THEN c ELSE @]
      /\ edit' = Idle
      /\ UNCHANGED <<rows, buckets, billing, worker, bounds, wiped, counted,
                    meetings, writer>>
-----------------------------------------------------------------------------
Payment(w) ==
  \/ MarkProvisioning(w) \/ SelectBackend(w) \/ CreateBucket(w) \/ Count(w)
  \/ DropBucket(w) \/ Activate(w)
  \/ Rollback(w) \/ MarkFailed(w) \/ Apologize(w)

Ending(w) ==
  \/ MarkEnded(w) \/ DeleteBucket(w) \/ Release(w) \/ Report(w)
  \/ MarkDeleted(w) \/ PushConfig(w) \/ Restore(w)

Next ==
  \/ \E w \in Workers :
       \/ \E kind \in Events, s \in Subs : Start(w, kind, s)
       \/ StartCleanup(w) \/ NextDue(w)
       \/ Payment(w) \/ Ending(w) \/ Throw(w)
  \/ \E s \in Subs : GraceEnds(s) \/ Purge(s)
  \/ \E b \in Backends : EditBackend(b)
  \/ SaveBackend
  \/ Crash

Spec == Init /\ [][Next]_vars
-----------------------------------------------------------------------------
(* A backend never counts less than nothing nor more than an operator has  *)
(* ever given it, whatever selects, counts, releases, stale saves and      *)
(* capacities lowered under a load interleave.                             *)
LoadWithinCapacity == \A b \in Backends : load[b] \in 0 .. most[b]

(* Sticky allocation: once a row names a backend it keeps it, through      *)
(* renewals, failures, retries, deletions and the late updates of purged   *)
(* rows, until it is purged itself.  Only two overlapping payments move it. *)
StickyBackend ==
  [][\A s \in Subs :
       home[s] # None
       => home'[s] = home[s] \/ status'[s] = "none" \/ s \in crossed]_vars

(* An active subscription whose bucket is missing was deleted before and   *)
(* paid again, or cleaned up from an outdated list: nothing else costs an  *)
(* active subscription its data, two overlapping payments aside.           *)
BucketLostByDeletion ==
  \A s \in Subs :
    status[s] = "active" /\ home[s] # None /\ <<home[s], s>> \notin buckets
    => s \in wiped \cup crossed

(* A row says deleted only when the bucket it names is gone, also when the *)
(* deletion works on an outdated list while a payment renews the row.  A   *)
(* payment that makes a bucket during the deletion leaves it behind.       *)
DeletedHasNoBucket ==
  \A s \in Subs \ (crossed \cup late) :
    status[s] = "deleted" => <<home[s], s>> \notin buckets

(* A payment is about to take a unit of load only for a row that has none: *)
(* renewals, retries and redeliveries do not count it again; overlapping   *)
(* payments do.                                                            *)
CountedOnce ==
  \A w \in Workers :
    Working(w) /\ At(w, "counting") => Sub(w) \notin counted \ crossed

(* What a payment, an end or a failure reports to billing is what the row  *)
(* says at that moment, unless another handler has written the row after   *)
(* it or the row was purged: the catch block reports what it has marked.   *)
ReportsCurrentStatus ==
  [][\A w \in Workers :
       /\ worker[w] # worker'[w]
       /\ worker[w].pc \in {"reporting", "apologizing"}
       /\ billing' # billing
       /\ worker[w].kind # "plan"
       /\ writer[Sub(w)] = w
       => billing'[Sub(w)] = status'[Sub(w)]]_vars
-----------------------------------------------------------------------------
(* What the documents say and the code does not do.                        *)

(* "Orchestrator -- FLOWS v1.0.txt":213-214 and 268-271: a backend at its  *)
(* capacity takes no more subscriptions.  The renewal of a suspended one   *)
(* returns to its backend uncounted, though its unit was released.         *)
CapacityRespected ==
  \A b \in Backends :
    Cardinality({s \in Subs : status[s] = "active" /\ home[s] = b}) <= most[b]

(* "Orchestrator -- FLOWS v1.0.txt":62-72: an active subscription has its  *)
(* bucket.  A deleted row keeps its backend and bucket, so the next        *)
(* payment only sends a quota to a bucket that is gone.                    *)
ActiveHasBucket ==
  \A s \in Subs :
    status[s] = "active" /\ home[s] # None /\ ~ Busy(s)
    => <<home[s], s>> \in buckets
=============================================================================
