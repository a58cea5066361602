---------------------------- MODULE SiteInvariant ----------------------------
(***************************************************************************)
(* The inductive invariant of Site.  Its parts: what the variables may     *)
(* hold, what .env and a start have done so far, what the renders of an    *)
(* instance know of its map, and what the copies and the requests on their *)
(* way owe to the release of a page.                                       *)
(***************************************************************************)
EXTENDS Site

Phases == {"off", "dotenv", "load", "build", "up", "failed"}

Rendering == {"template", "reading", "writing"}

Stages ==
    {"away", "coming", "waiting", "loading", "fetching", "shown", "refused", "cut"} \cup Rendering

(* Every variable that others are read by holds what it can. *)
TypeOK ==
    /\ \A i \in Instances : SetupOK(setup[i])
    /\ phase \in [Instances -> Phases]
    /\ at \in [Instances -> Nat \ {0}]
    /\ DOMAIN env = Instances
    /\ \A i \in Instances : \A key \in Numbers : key \in DOMAIN env[i] /\ NumberOrNone(env[i][key])
    /\ DOMAIN cfg = Instances
    /\ DOMAIN store = Instances
    /\ routed \in SUBSET Instances
    /\ overlapped \in BOOLEAN
    /\ edge \in Instances \cup {None}
    /\ DOMAIN versions = Instances
    /\ stage \in [Visitors -> Stages]
    /\ by \in [Visitors -> Instances \cup {None}]
    /\ next \in [Visitors -> Nat \ {0}]
    /\ page \in [Visitors -> Instances \cup {None}]
    /\ cold \in [Visitors -> BOOLEAN]
    /\ mixed \in [Visitors -> BOOLEAN]

(* The lines of .env that named a variable, of those read so far. *)
LinesFor(i, key) ==
    {n \in 1..(at[i] - 1) : setup[i].file[n].kind = "pair" /\ setup[i].file[n].key = key}

(* A variable is as it was given or as the first line for it says. *)
FileInv ==
    \A i \in Instances : \A key \in DOMAIN env[i] :
        LET lines == LinesFor(i, key) IN
        /\ (setup[i].env[key] # Unset \/ lines = {}) => env[i][key] = setup[i].env[key]
        /\ (setup[i].env[key] = Unset /\ lines # {}) =>
             \E n \in lines : /\ \A m \in lines : n <= m
                              /\ env[i][key] = LineValue(setup[i].file[n])
        /\ lines # {} => env[i][key] # Unset

(* Past its load an instance has the Config of an environment without        *)
(* errors; when it is up it has built the provider and opened the store of   *)
(* that Config.                                                              *)
StartInv ==
    \A i \in Instances :
        /\ phase[i] \in {"build", "up"} => Errors(env[i]) = {} /\ cfg[i] = LoadFrom(env[i])
        /\ phase[i] = "up" => /\ NewEmailProvider(cfg[i], env[i]) /\ Opens(cfg[i])
                               /\ store[i] = OpenStore(cfg[i])

(* The render of a page is with an instance; one that is not cold has the    *)
(* whole map and does not write.                                             *)
MapInv ==
    \A v \in Visitors :
        /\ stage[v] \in Rendering \cup {"waiting", "fetching"} => by[v] \in Instances
        /\ stage[v] = "reading" => next[v] <= Len(AssetOrder)
        /\ stage[v] \in Rendering /\ ~cold[v] => stage[v] # "writing" /\ Assets \subseteq versions[by[v]]

(* While the releases were never in rotation together: before New is, all    *)
(* is Old; after that, what New's URLs name is New's, and so is whoever      *)
(* fetches for a page of New.                                                *)
ReleaseInv ==
    /\ \A v \in Visitors : stage[v] \in {"loading", "fetching"} => page[v] \in Instances
    /\ \A v \in Visitors : mixed[v] => stage[v] \notin Rendering \cup {"coming", "waiting"}
    /\ ~overlapped =>
         /\ routed = {Old} \/ routed = {New}
         /\ routed = {Old} =>
              /\ edge # New
              /\ \A v \in Visitors : by[v] # New /\ page[v] # New
              /\ \A c \in copies : c.bytes = c.url.v
         /\ \A c \in copies : c.url.v = Content[New][c.url.name] => c.bytes = c.url.v
         /\ \A v \in Visitors : stage[v] = "fetching" /\ page[v] = New => by[v] = New
         /\ \A v \in Visitors : mixed[v] => page[v] = Old /\ routed = {New}

IInv == TypeOK /\ FileInv /\ StartInv /\ MapInv /\ ReleaseInv
=============================================================================
