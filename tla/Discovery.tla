----------------------------- MODULE Discovery -----------------------------
(***************************************************************************)
(* How a process finds the services it depends on and keeps links to them: *)
(* container.Start runs connectToService in a goroutine per dependency,    *)
(* which subscribes to consul (naming/consul), builds a tcp client for     *)
(* every instance it is told of, and lets Forward use a client once its    *)
(* service is "adult".                                                     *)
(*                                                                         *)
(* Subscribe runs the watch loop itself, with the lock of Naming held, and *)
(* the loop ends only when UnSubscribe, which needs that lock, closes      *)
(* Quit: neither the end of Subscribe nor the Find after it in             *)
(* connectToService is ever reached, and they have no action here.         *)
(***************************************************************************)

CONSTANTS
    Dep,      \* names of the services in Container.deps
    Node,     \* service instances
    Serves,   \* the service of an instance
    Nil,
    Faults    \* the kinds of failure that may happen in a behaviour

FaultKinds == {"stop", "check", "consul", "race"}

ASSUME DiscoveryAssumption ==
    /\ Serves \in [Node -> Dep]
    /\ Nil \notin Dep \cup Node
    /\ Faults \subseteq FaultKinds

VARIABLES
    up,        \* instances whose process runs
    catalog,   \* instances consul lists as passing
    sick,      \* instances it lists although their health check fails
    alive,     \* the process of the container runs
    thread,    \* the goroutine of each dependency
    lock,      \* who holds Naming's mutex
    todo,      \* the list a watch has loaded and not yet walked through, with Nil
               \* for the nil entries among them
    building,  \* the instance for which buildClient holds a new connection
    link,      \* the latest client built for each instance
    timer,     \* its goroutine that makes it adult is sleeping
    adult,     \* its service_state is StateAdult
    lookups    \* a goroutine is in lookup, reading the maps

worldVars  == <<up, catalog, sick>>
namingVars == <<thread, lock, todo, building>>
clientVars == <<link, timer, adult>>
vars == <<up, catalog, sick, alive, thread, lock, todo, building, link, timer, adult, lookups>>

(***************************************************************************)
(* The goroutine of a dependency: entering the new Clients into the map    *)
(* srvclients ("put"), waiting for the lock of Naming, the first load,     *)
(* whose result has no callback, then loads with the callback ("load") and *)
(* the callback itself ("walk").                                           *)
(*                                                                         *)
(* A client is "dialled" until it is added to Clients ("lost" if its       *)
(* connection breaks meanwhile); its read loop starts before.  "early":    *)
(* that loop ended first.  "live" and "broken" clients are in Clients and  *)
(* being read; "dead": added after its read loop had ended.  "none": not   *)
(* in Clients.                                                             *)
(***************************************************************************)
ThreadPc  == {"start", "put", "lock", "first", "load", "walk"}
LinkState == {"none", "dialled", "lost", "early", "live", "broken", "dead"}
Listed    == {"live", "broken", "dead"}

TypeOK ==
    /\ up \subseteq Node /\ catalog \subseteq Node /\ sick \subseteq Node
    /\ alive \in BOOLEAN /\ lookups \in BOOLEAN
    /\ thread \in [Dep -> ThreadPc]
    /\ lock \in Dep \cup {Nil}
    /\ todo \in [Dep -> SUBSET (Node \cup {Nil})]
    /\ building \in [Dep -> Node \cup {Nil}]
    /\ link \in [Node -> LinkState]
    /\ timer \subseteq Node /\ adult \subseteq Node

Init ==
    /\ up \in SUBSET Node /\ catalog = up /\ sick = {}
    /\ alive = TRUE /\ lookups = FALSE
    /\ thread = [d \in Dep |-> "start"]
    /\ lock = Nil
    /\ todo = [d \in Dep |-> {}]
    /\ building = [d \in Dep |-> Nil]
    /\ link = [n \in Node |-> "none"]
    /\ timer = {} /\ adult = {}

Goto(d, pc) == thread' = [thread EXCEPT ![d] = pc]

-----------------------------------------------------------------------------
(* The services and consul *)

NodeStart(n) ==
    /\ n \notin up
    /\ up' = up \cup {n}
    /\ UNCHANGED <<catalog, sick, alive, namingVars, clientVars, lookups>>

Register(n) ==
    /\ n \in up \ (catalog \cup sick)
    /\ catalog' = catalog \cup {n}
    /\ UNCHANGED <<up, sick, alive, namingVars, clientVars, lookups>>

\* The process ends and its connections break.
NodeStop(n) ==
    /\ "stop" \in Faults
    /\ n \in up
    /\ up' = up \ {n}
    /\ link' = [link EXCEPT ![n] = CASE @ = "live"    -> "broken"
                                      [] @ = "dialled" -> "lost"
                                      [] OTHER         -> @]
    /\ UNCHANGED <<catalog, sick, alive, namingVars, timer, adult, lookups>>

\* A health check of the instance or of its node fails or passes again.
CheckTurns(n) ==
    /\ \/ "check" \in Faults /\ n \in catalog /\ catalog' = catalog \ {n} /\ sick' = sick \cup {n}
       \/ n \in sick /\ n \in up /\ catalog' = catalog \cup {n} /\ sick' = sick \ {n}
    /\ UNCHANGED <<up, alive, namingVars, clientVars, lookups>>

\* By the instance's own shutdown, or by consul after its check has failed.
Deregister(n) ==
    /\ n \in (catalog \cup sick) \ up
    /\ catalog' = catalog \ {n} /\ sick' = sick \ {n}
    /\ UNCHANGED <<up, alive, namingVars, clientVars, lookups>>

-----------------------------------------------------------------------------
(* connectToService *)

\* The write of srvclients takes no lock.
BeginPut(d) ==
    /\ alive
    /\ thread[d] = "start"
    /\ Goto(d, "put")
    /\ UNCHANGED <<worldVars, alive, lock, todo, building, clientVars, lookups>>

EndPut(d) ==
    /\ alive
    /\ thread[d] = "put"
    /\ Goto(d, "lock")
    /\ UNCHANGED <<worldVars, alive, lock, todo, building, clientVars, lookups>>

\* The Go runtime may notice a map that is written while another goroutine
\* writes or reads it, and ends the process: srvclients by two goroutines of
\* connectToService or by one and a lookup; the Meta map of a service by the
\* goroutine that makes it adult and a lookup.
MapRace ==
    /\ alive /\ "race" \in Faults
    /\ LET putting == {d \in Dep : thread[d] = "put"}
       IN  \/ \E d, e \in putting : d # e
           \/ putting # {} /\ lookups
           \/ lookups /\ \E n \in timer : link[n] \in Listed
    /\ alive' = FALSE
    /\ UNCHANGED <<worldVars, namingVars, clientVars, lookups>>

\* A faulty variant, to show which property depends on this step: the lock is
\* not taken.
SubscribeUnlocked(d) ==
    /\ alive
    /\ thread[d] = "lock"
    /\ Goto(d, "first")
    /\ UNCHANGED <<worldVars, alive, lock, todo, building, clientVars, lookups>>

\* Naming.Subscribe: n.Lock() is not released before the watch loop ends.
Subscribe(d) ==
    /\ alive
    /\ thread[d] = "lock"
    /\ lock = Nil
    /\ lock' = d
    /\ Goto(d, "first")
    /\ UNCHANGED <<worldVars, alive, todo, building, clientVars, lookups>>

\* watch calls doWatch once without a callback, whatever load returns.
FirstLoad(d) ==
    /\ alive
    /\ thread[d] = "first"
    /\ Goto(d, "load")
    /\ UNCHANGED <<worldVars, alive, lock, todo, building, clientVars, lookups>>

\* What load makes of the catalog: an instance that is not passing leaves a nil
\* entry behind.
Loaded(d) ==
    {n \in catalog : Serves[n] = d}
        \cup {Nil : n \in {m \in sick : Serves[m] = d}}

\* A faulty variant, to show which property depends on this step: the watch
\* stops after an error.
LoadOnce(d) ==
    /\ alive
    /\ thread[d] = "load"
    /\ \/ /\ todo' = [todo EXCEPT ![d] = Loaded(d)]
          /\ Goto(d, "walk")
       \/ "consul" \in Faults /\ UNCHANGED todo /\ Goto(d, "ended")
    /\ UNCHANGED <<worldVars, alive, lock, building, clientVars, lookups>>

\* load returns when the catalog has changed or the blocking query has waited
\* long enough; an error is logged and the loop goes on.
Load(d) ==
    /\ alive
    /\ thread[d] = "load"
    /\ \/ /\ todo' = [todo EXCEPT ![d] = Loaded(d)]
          /\ Goto(d, "walk")
       \/ "consul" \in Faults /\ UNCHANGED <<todo, thread>>
    /\ UNCHANGED <<worldVars, alive, lock, building, clientVars, lookups>>

Walking(d) == alive /\ thread[d] = "walk" /\ building[d] = Nil

\* The callback calls ServiceID() of a nil entry, and the panic ends the process.
NilEntry(d) ==
    /\ Walking(d)
    /\ Nil \in todo[d]
    /\ alive' = FALSE
    /\ UNCHANGED <<worldVars, namingVars, clientVars, lookups>>

\* clients.Get finds an entry: continue.
SkipKnown(d) ==
    \E n \in todo[d] \ {Nil} :
        /\ Walking(d)
        /\ link[n] \in Listed
        /\ todo' = [todo EXCEPT ![d] = @ \ {n}]
        /\ UNCHANGED <<worldVars, alive, thread, lock, building, clientVars, lookups>>

\* A faulty variant, to show which property depends on this step: no
\* goroutine makes the service adult.
DialWithoutTimer(d) ==
    \E n \in todo[d] \ {Nil} :
        /\ Walking(d)
        /\ link[n] \notin Listed
        /\ todo' = [todo EXCEPT ![d] = @ \ {n}]
        /\ adult' = adult \ {n}
        /\ IF n \in up
           THEN /\ link' = [link EXCEPT ![n] = "dialled"]
                /\ building' = [building EXCEPT ![d] = n]
           ELSE UNCHANGED <<link, building>>
        /\ UNCHANGED <<worldVars, alive, thread, lock, timer, lookups>>

\* A new service is young, a goroutine will make it adult, and buildClient
\* dials it, takes the lock of the container and starts the read loop.  A
\* failed dial is logged; the next list may name the service again.
Dial(d) ==
    \E n \in todo[d] \ {Nil} :
        /\ Walking(d)
        /\ link[n] \notin Listed
        /\ todo' = [todo EXCEPT ![d] = @ \ {n}]
        /\ adult' = adult \ {n}
        /\ timer' = timer \cup {n}
        /\ IF n \in up
           THEN /\ link' = [link EXCEPT ![n] = "dialled"]
                /\ building' = [building EXCEPT ![d] = n]
           ELSE UNCHANGED <<link, building>>
        /\ UNCHANGED <<worldVars, alive, thread, lock, lookups>>

\* clients.Add(cli), the last step of buildClient.
AddClient(d) ==
    /\ alive
    /\ building[d] # Nil
    /\ LET n == building[d]
       IN  link' = [link EXCEPT ![n] = CASE @ = "early" -> "dead"
                                         [] @ = "lost"  -> "broken"
                                         [] OTHER       -> "live"]
    /\ building' = [building EXCEPT ![d] = Nil]
    /\ UNCHANGED <<worldVars, alive, thread, lock, todo, timer, adult, lookups>>

EndWalk(d) ==
    /\ Walking(d)
    /\ todo[d] = {}
    /\ Goto(d, "load")
    /\ UNCHANGED <<worldVars, alive, lock, todo, building, clientVars, lookups>>

\* The goroutine of a client: readloop returns, Remove(id), Close.
ReadloopEnd(n) ==
    /\ alive
    /\ \/ link[n] = "broken" /\ link' = [link EXCEPT ![n] = "none"]
       \/ link[n] = "lost" /\ link' = [link EXCEPT ![n] = "early"]
    /\ UNCHANGED <<worldVars, alive, namingVars, timer, adult, lookups>>

\* After the delay: service_state = StateAdult.
BecomeAdult(n) ==
    /\ alive
    /\ n \in timer
    /\ timer' = timer \ {n}
    /\ adult' = adult \cup {n}
    /\ UNCHANGED <<worldVars, alive, namingVars, link, lookups>>

-----------------------------------------------------------------------------
(* lookup, called by Forward: reads srvclients and the Meta of the clients. *)

BeginLookup ==
    /\ alive /\ ~lookups
    /\ lookups' = TRUE
    /\ UNCHANGED <<worldVars, alive, namingVars, clientVars>>

EndLookup ==
    /\ alive /\ lookups
    /\ lookups' = FALSE
    /\ UNCHANGED <<worldVars, alive, namingVars, clientVars>>

-----------------------------------------------------------------------------
DepStep(d) ==
    \/ BeginPut(d) \/ EndPut(d) \/ Subscribe(d) \/ FirstLoad(d)
    \/ NilEntry(d) \/ SkipKnown(d) \/ Dial(d) \/ AddClient(d) \/ EndWalk(d)

NodeStep(n) ==
    NodeStart(n) \/ Register(n) \/ NodeStop(n) \/ CheckTurns(n) \/ Deregister(n)

Next ==
    \/ \E d \in Dep : DepStep(d) \/ Load(d)
    \/ \E n \in Node : NodeStep(n) \/ ReadloopEnd(n) \/ BecomeAdult(n)
    \/ MapRace \/ BeginLookup \/ EndLookup

Spec == Init /\ [][Next]_vars

\* Goroutines run and sleeps end; a blocking query returns, and not always with
\* an error; a service that runs registers.
Fairness ==
    /\ \A d \in Dep :
          /\ WF_vars(DepStep(d))
          /\ SF_vars(Load(d) /\ thread'[d] = "walk")
    /\ \A n \in Node :
          /\ WF_vars(ReadloopEnd(n))
          /\ WF_vars(BecomeAdult(n))
          /\ WF_vars(Register(n))
    /\ WF_vars(EndLookup)

FairSpec == Spec /\ Fairness

-----------------------------------------------------------------------------
(* Properties *)

Watched(d) == thread[d] \in {"first", "load", "walk"}

\* Naming's lock is held for as long as its holder watches, so the goroutine of
\* one dependency at most ever gets past Subscribe, and every client belongs to
\* the dependency it watches.
OneDependencyWatched ==
    /\ \A d \in Dep : Watched(d) <=> lock = d
    /\ \A n \in Node : link[n] # "none" => lock = Serves[n]

\* A service that in the end stays up and listed is in the end used by the
\* process that watches it, through restarts of the service, failing checks,
\* errors of consul and dials that fail, unless Clients is stuck with a dead
\* client, whose read loop ended before buildClient added it: no later list of
\* services replaces that one.  The watching process must live: a nil entry or a
\* race on a map ends it.
WatchedServiceIsUsed ==
    \A n \in Node :
        <>[](n \in up \cap catalog /\ alive /\ lock = Serves[n])
            => <>[](link[n] = "live" /\ n \in adult) \/ <>[](link[n] = "dead")

\* container.go:114, "connect to the services depended upon": a service of
\* every dependency that stays up and listed gets a client.
DependenciesConnected ==
    \A n \in Node : <>[](n \in up \cap catalog /\ alive) => <>(link[n] \in Listed)

=============================================================================
