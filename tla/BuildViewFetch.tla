--------------------------- MODULE BuildViewFetch ---------------------------
(***************************************************************************)
(* The BuildView page of the dashboard (src/unnamed/part_001 224-306).     *)
(* The effect on [name] sets state to 'loading' and starts                 *)
(* getBuild(name); its response sets 'success' and the build, its failure  *)
(* 'error'.  Nothing cancels or ignores the request of a previous name.    *)
(* rebuild() posts the shown build's name to the build queue and, when the *)
(* POST resolves, writes back a copy of the build it captured at the click *)
(* with inQueue = true.                                                    *)
(*                                                                         *)
(* HTTP requests are in flight at once and answer in any order, so the     *)
(* requests in flight are a set, as a queue without ordering is.  A build *)
(* is a record of the name it is for and its inQueue flag.                 *)
(***************************************************************************)
EXTENDS Naturals, FiniteSets

CONSTANTS
    Names,       \* the route's :name values
    NoBuild,     \* the name of the initial empty BuildDTO
    MaxClicks    \* bound on navigations and rebuild clicks

VARIABLES
    name,      \* useParams().name
    state,     \* the state hook: "loading", "success", "error"
    build,     \* the build hook
    gets,      \* getBuild requests in flight: the names they are for
    posts,     \* rebuild POSTs in flight: the builds captured at the click
    queued,    \* the server: name -> the build is in the build queue
    clicks     \* navigations and clicks so far

vars == <<name, state, build, gets, posts, queued, clicks>>

Build(n, q) == [of |-> n, inQueue |-> q]

(* The first render (223-238) and the effect run after it (259-261); the *)
(* render with state '' comes before the effect and offers no click.      *)
Init ==
    /\ name \in Names
    /\ state = "loading"
    /\ build = Build(NoBuild, FALSE)
    /\ gets = {name}
    /\ posts = {}
    /\ queued = [n \in Names |-> FALSE]
    /\ clicks = 0

\* The route changes; the effect on [name] runs again (259-261)
Navigate(n) ==
    /\ clicks < MaxClicks
    /\ n # name
    /\ name' = n
    /\ state' = "loading"
    /\ gets' = gets \cup {n}
    /\ clicks' = clicks + 1
    /\ UNCHANGED <<build, posts, queued>>

\* getBuild(n) resolves with the server's build (262-266), whichever name is shown
GetResolves(n) ==
    /\ n \in gets
    /\ gets' = gets \ {n}
    /\ state' = "success"
    /\ build' = Build(n, queued[n])
    /\ UNCHANGED <<name, posts, queued, clicks>>

\* getBuild(n) is rejected (267-272)
GetFails(n) ==
    /\ n \in gets
    /\ gets' = gets \ {n}
    /\ state' = "error"
    /\ UNCHANGED <<name, build, posts, queued, clicks>>

(* The Rebuild button is rendered only when state is neither 'error' nor   *)
(* 'loading' (274-281, 393); the click posts build.name (298-299).         *)
Rebuild ==
    /\ clicks < MaxClicks
    /\ state = "success"
    /\ posts' = posts \cup {build}
    /\ clicks' = clicks + 1
    /\ UNCHANGED <<name, state, build, gets, queued>>

(* The server queues the build and the POST resolves: the copy of the      *)
(* build captured at the click is written back with inQueue (300-305).     *)
(* A rejected POST has no catch and changes nothing.                       *)
PostResolves(b) ==
    /\ b \in posts
    /\ posts' = posts \ {b}
    /\ \/ /\ queued' = [queued EXCEPT ![b.of] = TRUE]
          /\ build' = [b EXCEPT !.inQueue = TRUE]
       \/ UNCHANGED <<queued, build>>
    /\ UNCHANGED <<name, state, gets, clicks>>

\* The server takes a queued build out of the queue and builds it
Dequeue(n) ==
    /\ queued[n]
    /\ queued' = [queued EXCEPT ![n] = FALSE]
    /\ UNCHANGED <<name, state, build, gets, posts, clicks>>

Next ==
    \/ \E n \in Names : Navigate(n) \/ GetResolves(n) \/ GetFails(n) \/ Dequeue(n)
    \/ Rebuild
    \/ \E b \in posts : PostResolves(b)

Spec == Init /\ [][Next]_vars

-----------------------------------------------------------------------------
(* Properties.                                                             *)

TypeOK ==
    /\ name \in Names
    /\ state \in {"loading", "success", "error"}
    /\ build \in [of : Names \cup {NoBuild}, inQueue : BOOLEAN]
    /\ gets \subseteq Names
    /\ posts \subseteq [of : Names, inQueue : BOOLEAN]
    /\ clicks \in 0..MaxClicks

(* The page at /builds/<name> shows, once it has left 'loading', the      *)
(* build of that name: a response for a name the user has left, or a     *)
(* rebuild POST of the build shown before, never replaces it.              *)
ShowsCurrentBuild ==
    state = "success" => build.of = name

=============================================================================
