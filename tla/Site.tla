--------------------------------- MODULE Site ---------------------------------
(***************************************************************************)
(* Visitors of the home page while one release replaces another.  A page   *)
(* comes from the shared cache or is rendered by an instance, which keeps  *)
(* the URL of every asset in a map that all its requests share without a   *)
(* lock.  The assets come under those URLs, from the shared cache, where   *)
(* they stay for a year, or from whichever instance the platform picks: it *)
(* sends what it has embedded, whatever fingerprint the URL carries.       *)
(*                                                                         *)
(* A release is one instance; the platform restarts it when it dies, and   *)
(* an instance that leaves the rotation goes on with the requests it has.  *)
(* Definitions marked "Fault" show what a bug in the definition that       *)
(* follows would do; nothing uses them.                                    *)
(***************************************************************************)
EXTENDS Startup

CONSTANTS
    Old, New,        \* the two releases
    Visitors,
    AssetOrder,      \* the assets of base.html in their order
    Content,         \* the bytes of each asset in each release
    Deployments,     \* bound: setups, the visitors who come, whether New is deployed
    None

Assets == {AssetOrder[n] : n \in DOMAIN AssetOrder}

ASSUME SiteAssumption ==
    /\ Instances = {Old, New} /\ Old # New /\ None \notin Instances
    /\ AssetOrder \in Seq(Assets)

ASSUME DeploymentsAssumption ==
    \A d \in Deployments : \A i \in Instances : SetupOK(d.setup[i])

VARIABLES
    launched,    \* instances the platform runs
    routed,      \* instances it sends new requests to
    overlapped,  \* history: both were in rotation at once
    deploys,     \* New will be deployed
    edge,        \* the release whose home page the shared cache holds
    copies,      \* what it holds of the assets: URL and bytes
    versions,    \* the map of each instance: the assets whose URL it has
    stage,       \* of each visitor
    by,          \* the instance that has their request
    next,        \* the asset their render, or their browser, is at
    page,        \* the release of their page
    cold,        \* their render began before the map was complete
    mixed        \* an asset they were sent is not that of their page

platform == <<launched, routed, overlapped, deploys>>
caches == <<edge, copies>>
visit == <<stage, by, next, page, cold, mixed>>
vars == <<starting, platform, caches, versions, visit>>

Init ==
    /\ \E d \in Deployments :
         /\ setup = d.setup /\ deploys = d.deploys
         /\ stage = [v \in Visitors |-> IF v \in d.coming THEN "coming" ELSE "away"]
    /\ StartInit
    /\ launched = {Old} /\ routed = {Old} /\ overlapped = FALSE
    /\ edge = None /\ copies = {}
    /\ versions = [i \in Instances |-> {}]
    /\ by = [v \in Visitors |-> None] /\ page = [v \in Visitors |-> None]
    /\ next = [v \in Visitors |-> 1]
    /\ cold = [v \in Visitors |-> FALSE] /\ mixed = [v \in Visitors |-> FALSE]

Enter(v, s) == stage' = [stage EXCEPT ![v] = s]

(* Fault: the URL is that of the file alone. *)
AssetUrlBare(i, a) == [name |-> a, v |-> None]

(* The fingerprint stands for the bytes it is a digest of. *)
AssetUrl(i, a) == [name |-> a, v |-> Content[i][a]]

-----------------------------------------------------------------------------
(* A visitor asks for the home page. *)

(* The shared cache answers, with a page it may have had for a day. *)
PageFromEdge(v) ==
    /\ stage[v] = "coming" /\ edge # None
    /\ page' = [page EXCEPT ![v] = edge]
    /\ Enter(v, "loading")
    /\ UNCHANGED <<starting, platform, caches, versions, by, next, cold, mixed>>

(* The request reaches an instance: a function makes it wait for its start,  *)
(* a server that is not up takes none.                                       *)
RequestPage(v) ==
    /\ stage[v] = "coming"
    /\ \E i \in routed :
         /\ by' = [by EXCEPT ![v] = i]
         /\ Enter(v, IF setup[i].kind = "function" \/ phase[i] = "up" THEN "waiting" ELSE "cut")
    /\ UNCHANGED <<starting, platform, caches, versions, next, page, cold, mixed>>

(* Fault: a start that failed is waited for. *)
ServeOnceUp(v) ==
    /\ stage[v] = "waiting" /\ phase[by[v]] = "up"
    /\ Enter(v, "template")
    /\ cold' = [cold EXCEPT ![v] = versions[by[v]] # Assets]
    /\ UNCHANGED <<starting, platform, caches, versions, by, next, page, mixed>>

(* The handler is there, or its start has failed for good: 503. *)
Serve(v) ==
    /\ stage[v] = "waiting" /\ phase[by[v]] \in {"up", "failed"}
    /\ Enter(v, IF phase[by[v]] = "up" THEN "template" ELSE "refused")
    /\ cold' = [cold EXCEPT ![v] = versions[by[v]] # Assets]
    /\ UNCHANGED <<starting, platform, caches, versions, by, next, page, mixed>>

-----------------------------------------------------------------------------
(* The render of base.html: one call of the asset helper after another.  A   *)
(* read or a write of the map takes time.                                    *)

InMap(i) == {v \in Visitors : stage[v] \in {"reading", "writing"} /\ by[v] = i}

BeginLookup(v) ==
    /\ stage[v] = "template" /\ next[v] <= Len(AssetOrder)
    /\ Enter(v, "reading")
    /\ UNCHANGED <<starting, platform, caches, versions, by, next, page, cold, mixed>>

(* Fault: the entry is written again when it is there. *)
LookupWritesAnyway(v) ==
    /\ stage[v] = "reading"
    /\ Enter(v, "writing")
    /\ UNCHANGED <<starting, platform, caches, versions, by, next, page, cold, mixed>>

(* The entry is there, or the file is digested and the entry written. *)
EndLookup(v) ==
    /\ stage[v] = "reading"
    /\ IF AssetOrder[next[v]] \in versions[by[v]]
         THEN Enter(v, "template") /\ next' = [next EXCEPT ![v] = @ + 1]
         ELSE Enter(v, "writing") /\ UNCHANGED next
    /\ UNCHANGED <<starting, platform, caches, versions, by, page, cold, mixed>>

(* The entry is in the map; it may be lost to another write at the same time. *)
EndWrite(v) ==
    /\ stage[v] = "writing"
    /\ \/ versions' = [versions EXCEPT ![by[v]] = @ \cup {AssetOrder[next[v]]}]
       \/ \E w \in InMap(by[v]) \ {v} : stage[w] = "writing" /\ UNCHANGED versions
    /\ Enter(v, "template")
    /\ next' = [next EXCEPT ![v] = @ + 1]
    /\ UNCHANGED <<starting, platform, caches, by, page, cold, mixed>>

(* The runtime sees a write at the same time as another access: no recover   *)
(* stops the fatal error, and every request of the process is cut.           *)
FatalError(i) ==
    /\ \E v \in InMap(i) : stage[v] = "writing" /\ InMap(i) # {v}
    /\ Die(i)
    /\ versions' = [versions EXCEPT ![i] = {}]
    /\ stage' = [v \in Visitors |->
                   IF by[v] = i /\ stage[v] \in {"waiting", "template", "reading", "writing", "fetching"}
                     THEN "cut" ELSE stage[v]]
    /\ UNCHANGED <<platform, caches, by, next, page, cold, mixed>>

(* The page is sent; the shared cache keeps it on its way. *)
EndRender(v) ==
    /\ stage[v] = "template" /\ next[v] > Len(AssetOrder)
    /\ page' = [page EXCEPT ![v] = by[v]]
    /\ edge' = by[v]
    /\ Enter(v, "loading") /\ next' = [next EXCEPT ![v] = 1]
    /\ UNCHANGED <<starting, platform, copies, versions, by, cold, mixed>>

-----------------------------------------------------------------------------
(* The browser loads the assets of its page. *)

Url(v) == AssetUrl(page[v], AssetOrder[next[v]])

(* The asset has come, with these bytes. *)
Receive(v, bytes) ==
    /\ mixed' = [mixed EXCEPT ![v] = @ \/ bytes # Content[page[v]][AssetOrder[next[v]]]]
    /\ next' = [next EXCEPT ![v] = @ + 1]
    /\ Enter(v, IF next[v] < Len(AssetOrder) THEN "loading" ELSE "shown")

AssetFromCache(v) ==
    /\ stage[v] = "loading"
    /\ \E c \in copies : c.url = Url(v) /\ Receive(v, c.bytes)
    /\ UNCHANGED <<starting, platform, caches, versions, by, page, cold>>

RequestAsset(v) ==
    /\ stage[v] = "loading" /\ \A c \in copies : c.url # Url(v)
    /\ \E i \in routed :
         /\ by' = [by EXCEPT ![v] = i]
         /\ Enter(v, IF setup[i].kind = "function" \/ phase[i] = "up" THEN "fetching" ELSE "cut")
    /\ UNCHANGED <<starting, platform, caches, versions, next, page, cold, mixed>>

(* The static handler sends the file of its release, to be kept for a year.  *)
SendAsset(v) ==
    /\ stage[v] = "fetching" /\ phase[by[v]] = "up"
    /\ LET bytes == Content[by[v]][AssetOrder[next[v]]] IN
       /\ Receive(v, bytes)
       /\ copies' = {c \in copies : c.url # Url(v)} \cup {[url |-> Url(v), bytes |-> bytes]}
    /\ UNCHANGED <<starting, platform, edge, versions, by, page, cold>>

(* A function whose start failed has 503 for assets as well. *)
AssetRefused(v) ==
    /\ stage[v] = "fetching" /\ phase[by[v]] = "failed"
    /\ Enter(v, "refused")
    /\ UNCHANGED <<starting, platform, caches, versions, by, next, page, cold, mixed>>

-----------------------------------------------------------------------------
(* The platform. *)

(* It starts a server, again when it has died; a function starts when the    *)
(* first request waits for it.                                               *)
StartInstance(i) ==
    /\ i \in launched
    /\ setup[i].kind = "function" => \E v \in Visitors : by[v] = i /\ stage[v] \in {"waiting", "fetching"}
    /\ Launch(i)
    /\ UNCHANGED <<platform, caches, versions, visit>>

Starts(i) == StartStep(i) /\ UNCHANGED <<platform, caches, versions, visit>>

Deploy ==
    /\ deploys /\ New \notin launched
    /\ launched' = launched \cup {New}
    /\ UNCHANGED <<starting, routed, overlapped, deploys, caches, versions, visit>>

(* The rotation changes for a server that is up, and for a function at once. *)
Ready == New \in launched /\ (setup[New].kind = "function" \/ phase[New] = "up")

Overlap ==
    /\ Ready /\ routed = {Old}
    /\ routed' = {Old, New} /\ overlapped' = TRUE
    /\ UNCHANGED <<starting, launched, deploys, caches, versions, visit>>

Switch ==
    /\ Ready /\ routed # {New}
    /\ routed' = {New}
    /\ UNCHANGED <<starting, launched, overlapped, deploys, caches, versions, visit>>

(* The shared cache drops its page. *)
PageExpires ==
    /\ edge # None
    /\ edge' = None
    /\ UNCHANGED <<starting, platform, copies, versions, visit>>

-----------------------------------------------------------------------------
Renders(v) == BeginLookup(v) \/ EndLookup(v) \/ EndWrite(v) \/ EndRender(v)
Loads(v) == AssetFromCache(v) \/ RequestAsset(v) \/ SendAsset(v) \/ AssetRefused(v)
Proceeds(v) == PageFromEdge(v) \/ RequestPage(v) \/ Serve(v) \/ Renders(v) \/ Loads(v)

Next ==
    \/ \E v \in Visitors : Proceeds(v)
    \/ \E i \in Instances : StartInstance(i) \/ Starts(i) \/ FatalError(i)
    \/ Deploy \/ Overlap \/ Switch \/ PageExpires

Spec == Init /\ [][Next]_vars

(* A request goes on, and so does a start that has begun. *)
Fairness ==
    /\ \A v \in Visitors : WF_vars(Proceeds(v))
    /\ \A i \in Instances : WF_vars(StartInstance(i)) /\ WF_vars(Starts(i))

FairSpec == Spec /\ Fairness

-----------------------------------------------------------------------------
(* Properties. *)

(* A process dies of the map only under a render that began before the map   *)
(* was complete: one that finds it complete when it begins only reads it.    *)
ColdRendersOnlyCrash ==
    [][\A i \in Instances : phase[i] = "up" /\ phase'[i] = "off" =>
         \E v \in InMap(i) : cold[v]]_vars

(* A page of the new release comes with the assets of the new release, even  *)
(* with copies of the old one's in the cache for a year, as long as the two  *)
(* are never in rotation together; a page of the old release loads its own   *)
(* until New is.                                                             *)
PagesWhole ==
    \A v \in Visitors : mixed[v] => overlapped \/ (page[v] = Old /\ New \in routed)

(* Whoever comes is answered: with a page and its assets, with 503, or by a  *)
(* connection that breaks.                                                   *)
EveryVisitorAnswered ==
    \A v \in Visitors : stage[v] = "coming" ~> stage[v] \in {"shown", "refused", "cut"}
=============================================================================
