------------------------------ MODULE S3Deploy ------------------------------
(***************************************************************************)
(* S3Deployer.deployArchive (repositories.gradle 110-141, the second file  *)
(* stored there): walk the entries of a tar.gz and put each one into the   *)
(* deployment bucket under deploymentPrefix + "/" + name, with a leading   *)
(* "./" stripped.  A put that finds no bucket (NoSuchBucketException)      *)
(* creates the bucket and puts once more.  Any other exception, and any    *)
(* exception of createBucket or of the second put, leaves the method.      *)
(*                                                                         *)
(* The bean is @ApplicationScoped, so several deployArchive calls may run  *)
(* at once on one S3Client.  Each call is a Deployer with its own archive, *)
(* a sequence of entry names.  S3 is the set of keys in the bucket.  A     *)
(* put or a createBucket may fail for reasons of its own (network,         *)
(* credentials), at most MaxFaults times in all.  createBucket of a bucket *)
(* that exists is idempotent in us-east-1 and throws                       *)
(* BucketAlreadyOwnedByYou elsewhere: Init chooses.                        *)
(***************************************************************************)
EXTENDS Naturals, Sequences, SequencesExt

CONSTANTS
    Deployers,   \* concurrent deployArchive calls
    Archives,    \* Deployers -> the entry names of the archive each deploys
    Dot,         \* the entry name prefix "./"
    MaxFaults    \* bound on the S3 calls that fail for reasons of their own

VARIABLES
    bucket,        \* the deployment bucket exists
    idempotent,    \* createBucket of an existing own bucket succeeds
    objects,       \* the keys in the bucket
    pc,            \* Deployers -> where the call is
    next,          \* Deployers -> index of the current tar entry
    faults         \* S3 calls failed so far

vars == <<bucket, idempotent, objects, pc, next, faults>>

\* Mutant: the "./" of an entry name is kept in the key
TargetPathNoStrip(name) == name

\* Lines 119-122: the key of an entry; an entry name is <<Dot, n>> or <<n>>
TargetPath(name) == IF name[1] = Dot THEN Tail(name) ELSE name

Entry(d) == Archives[d][next[d]]

Init ==
    /\ bucket \in BOOLEAN      \* "we normally create this on startup"
    /\ idempotent \in BOOLEAN
    /\ objects = {}
    /\ pc = [d \in Deployers |-> "entry"]
    /\ next = [d \in Deployers |-> 1]
    /\ faults = 0

\* Line 115: getNextTarEntry; null ends the loop and the method returns
NextEntry(d) ==
    /\ pc[d] = "entry"
    /\ pc' = [pc EXCEPT ![d] = IF next[d] > Len(Archives[d]) THEN "done" ELSE "put"]
    /\ UNCHANGED <<bucket, idempotent, objects, next, faults>>

\* An S3 call fails for a reason of its own; the exception leaves deployArchive
Fault(d) ==
    /\ pc[d] \in {"put", "create", "retry"}
    /\ faults < MaxFaults
    /\ faults' = faults + 1
    /\ pc' = [pc EXCEPT ![d] = "failed"]
    /\ UNCHANGED <<bucket, idempotent, objects, next>>

\* The entry is stored and the loop goes on to the next one
Stored(d) ==
    /\ objects' = objects \cup {TargetPath(Entry(d))}
    /\ next' = [next EXCEPT ![d] = @ + 1]
    /\ pc' = [pc EXCEPT ![d] = "entry"]

\* Lines 123-127: putObject; NoSuchBucketException goes to the catch block (130)
Put(d) ==
    /\ pc[d] = "put"
    /\ IF bucket
       THEN Stored(d)
       ELSE /\ pc' = [pc EXCEPT ![d] = "create"]
            /\ UNCHANGED <<objects, next>>
    /\ UNCHANGED <<bucket, idempotent, faults>>

(* Line 132: createBucket.  On a bucket another call created meanwhile it *)
(* succeeds only where it is idempotent; BucketAlreadyOwnedByYou is not   *)
(* caught and leaves deployArchive.                                        *)
CreateBucket(d) ==
    /\ pc[d] = "create"
    /\ bucket' = TRUE
    /\ pc' = [pc EXCEPT ![d] = IF bucket /\ ~idempotent THEN "failed" ELSE "retry"]
    /\ UNCHANGED <<idempotent, objects, next, faults>>

\* Mutant: the catch block creates the bucket and moves on without the second put
RetryDropped(d) ==
    /\ pc[d] = "retry"
    /\ pc' = [pc EXCEPT ![d] = "entry"]
    /\ next' = [next EXCEPT ![d] = @ + 1]
    /\ UNCHANGED <<bucket, idempotent, objects, faults>>

\* Lines 134-138: the second putObject, outside any try
Retry(d) ==
    /\ pc[d] = "retry"
    /\ Stored(d)
    /\ UNCHANGED <<bucket, idempotent, faults>>

Next ==
    \E d \in Deployers :
        NextEntry(d) \/ Put(d) \/ CreateBucket(d) \/ Retry(d) \/ Fault(d)

Spec == Init /\ [][Next]_vars

-----------------------------------------------------------------------------
(* Properties.                                                             *)

Names == UNION {ToSet(Archives[d]) : d \in Deployers}

TypeOK ==
    /\ objects \subseteq {k \in Names \cup {Tail(n) : n \in Names} : k # <<>> /\ k[1] # Dot}
    /\ pc \in [Deployers -> {"entry", "put", "create", "retry", "done", "failed"}]
    /\ \A d \in Deployers : next[d] \in 1..Len(Archives[d]) + 1
    /\ faults \in 0..MaxFaults

(* deployArchive returning normally is what tells its caller the archive   *)
(* is deployed: when it returns, every entry of its archive is in the      *)
(* bucket, including those that went through the create-and-retry path.   *)
ReturnsOnlyWhenDeployed ==
    \A d \in Deployers :
        pc[d] = "done" => \A k \in 1..Len(Archives[d]) : TargetPath(Archives[d][k]) \in objects

=============================================================================
