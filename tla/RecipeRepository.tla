-------------------------- MODULE RecipeRepository --------------------------
(***************************************************************************)
(* RecipeRepositoryManager (src/.tekton/cli-pull-request.yaml 39-141): the *)
(* recipe database kept in a local git clone and refreshed by the lookups. *)
(* Every lookup (getArtifactPaths, getBuildPaths, getRepositoryPaths)      *)
(* calls doUpdate and then reads the layout of the working tree.  doUpdate *)
(* is double-checked locking on the volatile lastUpdate: an unlocked test, *)
(* synchronized(this), the same test again, git.pull(), lastUpdate = now.  *)
(*                                                                         *)
(* Threads are model values; the clock is System.currentTimeMillis in      *)
(* abstract ticks; the remote branch is a version number that other        *)
(* parties advance.  A pull is a fetch, which may throw GitAPIException,   *)
(* followed by a checkout that rewrites the working tree file by file:     *)
(* while it runs the tree is Updating.                                     *)
(***************************************************************************)
EXTENDS Naturals

CONSTANTS
    Threads,      \* threads calling the lookups
    Intervals,    \* possible updateInterval values, in ticks
    NoInterval,   \* Optional.empty()
    MaxTime,      \* bound on the clock
    MaxCalls,     \* bound on the lookups of each thread
    MaxVersion,   \* bound on the versions pushed to the remote
    None,         \* no thread holds the monitor
    Updating      \* the working tree while a checkout rewrites it

VARIABLES
    now,          \* System.currentTimeMillis()
    interval,     \* updateInterval
    lastUpdate,   \* the volatile field
    holder,       \* the thread inside synchronized (this), or None
    remote,       \* the version of the remote branch
    tree,         \* the version checked out in local, or Updating
    pc,           \* thread -> where it is in a lookup
    fetched,      \* thread -> the version its pull fetched
    seen,         \* thread -> what its last read of the layout saw
    calls         \* thread -> lookups made

vars == <<now, interval, lastUpdate, holder, remote, tree, pc, fetched, seen, calls>>

\* The test of lines 116 and 118
Expired == lastUpdate + interval < now

\* The constructor (65-73) ran at time 0 after create cloned the remote (75-85)
Init ==
    /\ now = 0
    /\ interval \in Intervals \cup {NoInterval}
    /\ lastUpdate = 0
    /\ holder = None
    /\ remote = 0
    /\ tree = 0
    /\ pc = [t \in Threads |-> "idle"]
    /\ fetched = [t \in Threads |-> 0]
    /\ seen = [t \in Threads |-> 0]
    /\ calls = [t \in Threads |-> 0]

(* A lookup calls doUpdate: it returns at once when there is no interval  *)
(* (113-115) or when the unlocked test finds the data fresh (116), and    *)
(* otherwise blocks on the monitor (117).                                  *)
Call(t) ==
    /\ pc[t] = "idle"
    /\ calls[t] < MaxCalls
    /\ calls' = [calls EXCEPT ![t] = @ + 1]
    /\ pc' = [pc EXCEPT ![t] = IF interval # NoInterval /\ Expired THEN "lock" ELSE "read"]
    /\ UNCHANGED <<now, interval, lastUpdate, holder, remote, tree, fetched, seen>>

\* Entering synchronized (this)
Acquire(t) ==
    /\ pc[t] = "lock"
    /\ holder = None
    /\ holder' = t
    /\ pc' = [pc EXCEPT ![t] = "recheck"]
    /\ UNCHANGED <<now, interval, lastUpdate, remote, tree, fetched, seen, calls>>

\* Mutant: the test is not repeated inside the monitor
RecheckDropped(t) ==
    /\ pc[t] = "recheck"
    /\ pc' = [pc EXCEPT ![t] = "fetch"]
    /\ UNCHANGED <<now, interval, lastUpdate, holder, remote, tree, fetched, seen, calls>>

\* Line 118: pull if still expired, else leave the monitor and read
Recheck(t) ==
    /\ pc[t] = "recheck"
    /\ IF Expired
       THEN /\ pc' = [pc EXCEPT ![t] = "fetch"]
            /\ UNCHANGED holder
       ELSE /\ pc' = [pc EXCEPT ![t] = "read"]
            /\ holder' = None
    /\ UNCHANGED <<now, interval, lastUpdate, remote, tree, fetched, seen, calls>>

\* Mutant: the monitor is left before the pull
FetchOutsideLock(t) ==
    /\ pc[t] = "fetch"
    /\ fetched' = [fetched EXCEPT ![t] = remote]
    /\ tree' = Updating
    /\ pc' = [pc EXCEPT ![t] = "checkout"]
    /\ holder' = None
    /\ UNCHANGED <<now, interval, lastUpdate, remote, seen, calls>>

\* The fetch of git.pull().call() (120): it gets the remote's version and the
\* checkout starts, or it throws GitAPIException, rethrown as a RuntimeException
\* (121-122) that leaves the monitor with lastUpdate untouched and ends the lookup.
Fetch(t) ==
    /\ pc[t] = "fetch"
    /\ \/ /\ fetched' = [fetched EXCEPT ![t] = remote]
          /\ tree' = Updating
          /\ pc' = [pc EXCEPT ![t] = "checkout"]
          /\ UNCHANGED holder
       \/ /\ pc' = [pc EXCEPT ![t] = "idle"]
          /\ holder' = None
          /\ UNCHANGED <<fetched, tree>>
    /\ UNCHANGED <<now, interval, lastUpdate, remote, seen, calls>>

\* Mutant: lastUpdate is set to the next deadline instead of the time
PullDoneStampsDeadline(t) ==
    /\ pc[t] = "checkout"
    /\ tree' = fetched[t]
    /\ lastUpdate' = now + interval
    /\ holder' = IF holder = t THEN None ELSE holder
    /\ pc' = [pc EXCEPT ![t] = "read"]
    /\ UNCHANGED <<now, interval, remote, fetched, seen, calls>>

\* The checkout completes, lastUpdate = now (124), and the monitor is left
PullDone(t) ==
    /\ pc[t] = "checkout"
    /\ tree' = fetched[t]
    /\ lastUpdate' = now
    /\ holder' = IF holder = t THEN None ELSE holder
    /\ pc' = [pc EXCEPT ![t] = "read"]
    /\ UNCHANGED <<now, interval, remote, fetched, seen, calls>>

\* recipeLayoutManager reads the working tree, without the monitor (97, 103, 109)
Read(t) ==
    /\ pc[t] = "read"
    /\ seen' = [seen EXCEPT ![t] = tree]
    /\ pc' = [pc EXCEPT ![t] = "idle"]
    /\ UNCHANGED <<now, interval, lastUpdate, holder, remote, tree, fetched, calls>>

\* Time passes
Tick ==
    /\ now < MaxTime
    /\ now' = now + 1
    /\ UNCHANGED <<interval, lastUpdate, holder, remote, tree, pc, fetched, seen, calls>>

\* Someone pushes new recipes to the remote branch
Push ==
    /\ remote < MaxVersion
    /\ remote' = remote + 1
    /\ UNCHANGED <<now, interval, lastUpdate, holder, tree, pc, fetched, seen, calls>>

Next ==
    \/ Tick
    \/ Push
    \/ \E t \in Threads :
          Call(t) \/ Acquire(t) \/ Recheck(t) \/ Fetch(t) \/ PullDone(t) \/ Read(t)

Spec == Init /\ [][Next]_vars

-----------------------------------------------------------------------------
(* Properties.                                                             *)

Versions == 0..MaxVersion

TypeOK ==
    /\ now \in 0..MaxTime
    /\ lastUpdate \in 0..now
    /\ holder \in Threads \cup {None}
    /\ tree \in Versions \cup {Updating}
    /\ pc \in [Threads -> {"idle", "lock", "recheck", "fetch", "checkout", "read"}]
    /\ seen \in [Threads -> Versions \cup {Updating}]

(* The point of the double-checked locking in doUpdate (116-124): however  *)
(* many threads find the data expired at once, lastUpdate only moves when  *)
(* a full interval has passed since it last moved, so the remote is pulled *)
(* successfully at most once per updateInterval.                           *)
PullsSpacedByInterval ==
    [][lastUpdate' # lastUpdate => lastUpdate' > lastUpdate + interval]_vars

(* git.pull() runs inside synchronized (this) (117-126): whenever no       *)
(* thread holds the monitor the working tree is a complete checkout, so a *)
(* pull never outlives the monitor and two pulls never rewrite the tree at *)
(* once.                                                                   *)
TreeCompleteOutsideLock ==
    holder = None => tree # Updating

=============================================================================
