------------------------------ MODULE SiteProofs ------------------------------
(***************************************************************************)
(* The start of an instance and the visitors of a rollout: the inductive   *)
(* invariant of Site, and from it the properties of its runs, for any      *)
(* environments and files, any visitors and any assets.                    *)
(***************************************************************************)
EXTENDS SiteInvariant, TLAPS

(* The visitors change nothing of a start.                                 *)
LEMMA VisitsLeaveStarts ==
    ASSUME NEW v \in Visitors, Proceeds(v)
    PROVE  UNCHANGED <<starting, platform>>
  BY DEF Proceeds, Renders, Loads, PageFromEdge, RequestPage, Serve, BeginLookup, EndLookup, EndWrite,
         EndRender, AssetFromCache, RequestAsset, SendAsset, AssetRefused, caches

(* The platform and the starts change nothing of a visit or of a map.      *)
LEMMA StartsLeaveVisits ==
    ASSUME NEW i \in Instances, StartInstance(i) \/ Starts(i)
    PROVE  UNCHANGED <<platform, caches, versions, visit>>
  BY DEF StartInstance, Starts

(* A step of a start leaves what the instance was given as it is.          *)
LEMMA StartsKeepSetup ==
    ASSUME NEW i \in Instances, StartInstance(i) \/ Starts(i) \/ FatalError(i)
    PROVE  UNCHANGED setup
  BY DEF StartInstance, Starts, StartStep, Launch, ReadLine, EndOfFile, Load, Build, BuildFails, FatalError, Die

-----------------------------------------------------------------------------
(* Types. *)

(* The initial states are of the types.                                    *)
LEMMA InitTypeOK == Init => TypeOK
<1> SUFFICES ASSUME Init PROVE TypeOK
  OBVIOUS
<1>1. PICK d \in Deployments : /\ setup = d.setup
                               /\ stage = [v \in Visitors |-> IF v \in d.coming THEN "coming" ELSE "away"]
  BY DEF Init
<1>2. \A i \in Instances : SetupOK(setup[i])
  BY <1>1, DeploymentsAssumption DEF DeploymentsAssumption
<1>7. \A i \in Instances : \A key \in Numbers : key \in DOMAIN env[i] /\ NumberOrNone(env[i][key])
  BY <1>2 DEF Init, StartInit, SetupOK
<1>3. stage \in [Visitors -> Stages]
  BY <1>1 DEF Stages
<1>4. /\ phase \in [Instances -> Phases] /\ at \in [Instances -> Nat \ {0}]
      /\ DOMAIN env = Instances /\ DOMAIN cfg = Instances /\ DOMAIN store = Instances
  BY DEF Init, StartInit, Phases
<1>5. /\ routed \in SUBSET Instances /\ overlapped \in BOOLEAN
      /\ edge \in Instances \cup {None} /\ DOMAIN versions = Instances
  BY SiteAssumption DEF Init, SiteAssumption
<1>6. /\ by \in [Visitors -> Instances \cup {None}] /\ page \in [Visitors -> Instances \cup {None}]
      /\ next \in [Visitors -> Nat \ {0}]
      /\ cold \in [Visitors -> BOOLEAN] /\ mixed \in [Visitors -> BOOLEAN]
  BY DEF Init
<1> QED
  BY <1>2, <1>3, <1>4, <1>5, <1>6, <1>7 DEF TypeOK

(* A start keeps what the number variables may hold.                       *)
LEMMA StartNumbers ==
    ASSUME TypeOK, NEW i \in Instances, StartInstance(i) \/ Starts(i)
    PROVE  \A j \in Instances : \A key \in Numbers :
             key \in DOMAIN env'[j] /\ NumberOrNone(env'[j][key])
<1>1. CASE ReadLine(i)
  <2> DEFINE line == setup[i].file[at[i]]
  <2>1. /\ at[i] \in 1..Len(setup[i].file)
        /\ env' = IF line.kind = "pair" THEN [env EXCEPT ![i] = SetFromFile(@, line)] ELSE env
    BY <1>1 DEF ReadLine, TypeOK
  <2>2. line.kind = "pair" /\ line.key \in Numbers => NumberOrNone(LineValue(line))
    BY <2>1 DEF TypeOK, SetupOK
  <2>3. \A j \in Instances : \A key \in Numbers : key \in DOMAIN env[j] /\ NumberOrNone(env[j][key])
    BY DEF TypeOK
  <2>4. DOMAIN env = Instances
    BY DEF TypeOK
  <2> HIDE DEF line
  <2> QED BY <2>1, <2>2, <2>3, <2>4 DEF SetFromFile
<1>2. CASE ~ReadLine(i)
  <2>1. UNCHANGED env
    BY <1>2 DEF StartInstance, Starts, StartStep, Launch, EndOfFile, Load, Build, BuildFails
  <2> QED BY <2>1 DEF TypeOK
<1> QED BY <1>1, <1>2

(* A start keeps the types.                                                *)
LEMMA StartTypes ==
    ASSUME TypeOK, NEW i \in Instances, StartInstance(i) \/ Starts(i)
    PROVE  TypeOK'
<1> USE DEF TypeOK, Phases
<1>1. UNCHANGED <<setup, platform, caches, versions, visit>>
  BY StartsLeaveVisits, StartsKeepSetup
<1>2. /\ phase' \in [Instances -> Phases] /\ at' \in [Instances -> Nat \ {0}]
      /\ DOMAIN env' = Instances /\ DOMAIN cfg' = Instances /\ DOMAIN store' = Instances
  <2>1. CASE StartInstance(i)
    BY <2>1 DEF StartInstance, Launch, GoTo
  <2>2. CASE ReadLine(i)
    BY <2>2 DEF ReadLine, GoTo
  <2>3. CASE EndOfFile(i) \/ Load(i)
    BY <2>3 DEF EndOfFile, Load, GoTo
  <2>4. CASE Build(i) \/ BuildFails(i)
    BY <2>4 DEF Build, BuildFails, GoTo
  <2> QED BY <2>1, <2>2, <2>3, <2>4 DEF Starts, StartStep
<1>3. \A j \in Instances : \A key \in Numbers : key \in DOMAIN env'[j] /\ NumberOrNone(env'[j][key])
  BY StartNumbers
<1> QED BY <1>1, <1>2, <1>3 DEF platform, caches, visit

(* A visitor's step keeps the types.                                       *)
LEMMA VisitTypes ==
    ASSUME TypeOK, NEW v \in Visitors, Proceeds(v)
    PROVE  TypeOK'
<1> USE DEF TypeOK, Stages, Rendering, Enter
<1>1. UNCHANGED <<starting, platform>>
  BY VisitsLeaveStarts
<1>2. /\ edge' \in Instances \cup {None} /\ DOMAIN versions' = Instances
      /\ stage' \in [Visitors -> Stages]
      /\ by' \in [Visitors -> Instances \cup {None}]
      /\ next' \in [Visitors -> Nat \ {0}]
      /\ page' \in [Visitors -> Instances \cup {None}]
      /\ cold' \in [Visitors -> BOOLEAN] /\ mixed' \in [Visitors -> BOOLEAN]
  <2>1. CASE PageFromEdge(v)
    BY <2>1 DEF PageFromEdge, caches
  <2>2. CASE RequestPage(v)
    BY <2>2 DEF RequestPage, caches
  <2>3. CASE RequestAsset(v)
    BY <2>3 DEF RequestAsset, caches
  <2>4. CASE Serve(v)
    BY <2>4 DEF Serve, caches
  <2>5. CASE BeginLookup(v)
    BY <2>5 DEF BeginLookup, caches
  <2>6. CASE EndLookup(v)
    <3>1. next' = next \/ next' = [next EXCEPT ![v] = @ + 1]
      BY <2>6 DEF EndLookup
    <3>2. stage' = [stage EXCEPT ![v] = "template"] \/ stage' = [stage EXCEPT ![v] = "writing"]
      BY <2>6 DEF EndLookup
    <3>3. UNCHANGED <<caches, versions, by, page, cold, mixed>>
      BY <2>6 DEF EndLookup
    <3>4. next' \in [Visitors -> Nat \ {0}]
      BY <3>1
    <3>5. stage' \in [Visitors -> Stages]
      BY <3>2
    <3> QED BY <3>3, <3>4, <3>5 DEF caches
  <2>7. CASE EndWrite(v)
    BY <2>7 DEF EndWrite, caches
  <2>8. CASE EndRender(v)
    BY <2>8 DEF EndRender
  <2>9. CASE AssetFromCache(v)
    BY <2>9 DEF AssetFromCache, Receive, caches
  <2>10. CASE SendAsset(v)
    BY <2>10 DEF SendAsset, Receive
  <2>11. CASE AssetRefused(v)
    BY <2>11 DEF AssetRefused, caches
  <2> QED BY <2>1, <2>2, <2>3, <2>4, <2>5, <2>6, <2>7, <2>8, <2>9, <2>10, <2>11 DEF Proceeds, Renders, Loads
<1> QED BY <1>1, <1>2 DEF starting, platform

(* Every step keeps the types.                                             *)
LEMMA NextTypeOK == TypeOK /\ [Next]_vars => TypeOK'
<1> SUFFICES ASSUME TypeOK, [Next]_vars PROVE TypeOK'
  OBVIOUS
<1>1. ASSUME NEW v \in Visitors, Proceeds(v) PROVE TypeOK'
  BY <1>1, VisitTypes
<1>2. ASSUME NEW i \in Instances, StartInstance(i) \/ Starts(i) PROVE TypeOK'
  BY <1>2, StartTypes
<1>3. ASSUME NEW i \in Instances, FatalError(i) PROVE TypeOK'
  <2>1. stage' \in [Visitors -> Stages]
    BY <1>3 DEF FatalError, TypeOK, Stages
  <2>2. \A j \in Instances : \A key \in Numbers : key \in DOMAIN env'[j] /\ NumberOrNone(env'[j][key])
    BY <1>3 DEF FatalError, Die, TypeOK, SetupOK
  <2> QED BY <1>3, <2>1, <2>2 DEF FatalError, Die, GoTo, TypeOK, Phases, platform, caches
<1>4. CASE Deploy \/ Overlap \/ Switch \/ PageExpires
  BY <1>4, SiteAssumption
     DEF Deploy, Overlap, Switch, PageExpires, TypeOK, SiteAssumption, starting, caches, visit, platform
<1>5. CASE UNCHANGED vars
  BY <1>5 DEF vars, TypeOK, starting, caches, visit, platform
<1> QED BY <1>1, <1>2, <1>3, <1>4, <1>5 DEF Next

-----------------------------------------------------------------------------
(* The file and the start. *)

(* Before the first line every variable is as it was given.                *)
LEMMA InitFileInv == Init => FileInv
<1> SUFFICES ASSUME Init, NEW i \in Instances
             PROVE  env[i] = setup[i].env /\ \A key : LinesFor(i, key) = {}
  BY DEF FileInv
<1> QED
  BY DEF Init, StartInit, LinesFor

(* A line that is read changes the variable it names, if that is not set,  *)
(* and is then the first line for it.                                      *)
LEMMA ReadLineFile ==
    ASSUME TypeOK, FileInv, NEW i \in Instances, ReadLine(i), UNCHANGED setup
    PROVE  FileInv'
<1> DEFINE line == setup[i].file[at[i]]
<1>1. /\ at[i] \in Nat \ {0} /\ at[i] \in 1..Len(setup[i].file)
      /\ at' = [at EXCEPT ![i] = @ + 1] /\ at'[i] = at[i] + 1
      /\ env' = IF line.kind = "pair" THEN [env EXCEPT ![i] = SetFromFile(@, line)] ELSE env
  BY DEF ReadLine, TypeOK
<1>2. LineValue(line) # Unset
  BY <1>1 DEF TypeOK, SetupOK
<1> SUFFICES ASSUME NEW j \in Instances, NEW key \in DOMAIN env'[j]
             PROVE  LET lines == LinesFor(j, key)' IN
                    /\ (setup[j].env[key] # Unset \/ lines = {}) => env'[j][key] = setup[j].env[key]
                    /\ (setup[j].env[key] = Unset /\ lines # {}) =>
                         \E n \in lines : /\ \A m \in lines : n <= m
                                          /\ env'[j][key] = LineValue(setup[j].file[n])
                    /\ lines # {} => env'[j][key] # Unset
  BY DEF FileInv
<1>3. CASE j # i
  <2>1. env'[j] = env[j] /\ LinesFor(j, key)' = LinesFor(j, key)
    BY <1>1, <1>3 DEF LinesFor, TypeOK
  <2> QED BY <2>1 DEF FileInv
<1>4. CASE j = i
  <2> DEFINE lines == LinesFor(i, key)
             names == line.kind = "pair" /\ line.key = key
  <2>1. LinesFor(i, key)' = IF names THEN lines \cup {at[i]} ELSE lines
    BY <1>1 DEF LinesFor
  <2>2. key \in DOMAIN env[i]
        /\ env'[i][key] = IF names /\ env[i][key] = Unset THEN LineValue(line) ELSE env[i][key]
    BY <1>1, <1>4 DEF SetFromFile, TypeOK
  <2>3. \A n \in lines : n \in Nat /\ n <= at[i]
    BY <1>1 DEF LinesFor
  <2>4. /\ (setup[i].env[key] # Unset \/ lines = {}) => env[i][key] = setup[i].env[key]
        /\ (setup[i].env[key] = Unset /\ lines # {}) =>
             \E n \in lines : /\ \A m \in lines : n <= m
                              /\ env[i][key] = LineValue(setup[i].file[n])
        /\ lines # {} => env[i][key] # Unset
    BY <2>2 DEF FileInv
  <2> HIDE DEF lines, line
  <2>5. CASE ~names
    BY <1>4, <2>1, <2>2, <2>4, <2>5
  <2>6. CASE names /\ lines # {}
    <3>1. env'[i][key] = env[i][key]
      BY <2>2, <2>4, <2>6
    <3> QED BY <1>1, <1>4, <2>1, <2>3, <2>4, <2>6, <3>1
  <2>7. CASE names /\ lines = {}
    <3>1. LinesFor(i, key)' = {at[i]} /\ at[i] <= at[i]
      BY <1>1, <2>1, <2>7
    <3>2. setup[i].env[key] = env[i][key]
      BY <2>4, <2>7
    <3> QED BY <1>2, <1>4, <2>2, <2>7, <3>1, <3>2 DEF line
  <2> QED BY <2>5, <2>6, <2>7
<1> QED BY <1>3, <1>4

(* Every step keeps what the file has set.                                 *)
LEMMA NextFileInv == TypeOK /\ FileInv /\ [Next]_vars => FileInv'
<1> SUFFICES ASSUME TypeOK, FileInv, [Next]_vars PROVE FileInv'
  OBVIOUS
<1>1. CASE UNCHANGED <<setup, env, at>>
  BY <1>1 DEF FileInv, LinesFor
<1>2. ASSUME NEW i \in Instances, ReadLine(i) PROVE FileInv'
  BY <1>2, ReadLineFile DEF ReadLine
<1>3. ASSUME NEW i \in Instances, FatalError(i) PROVE FileInv'
  <2>1. /\ UNCHANGED setup
        /\ env' = [env EXCEPT ![i] = setup[i].env] /\ at' = [at EXCEPT ![i] = 1]
    BY <1>3 DEF FatalError, Die
  <2>2. \A j \in Instances : j # i => /\ env'[j] = env[j]
                                      /\ \A key : LinesFor(j, key)' = LinesFor(j, key)
    BY <2>1 DEF LinesFor, TypeOK
  <2>3. env'[i] = setup[i].env /\ \A key : LinesFor(i, key)' = {}
    BY <2>1 DEF LinesFor, TypeOK
  <2> QED BY <2>1, <2>2, <2>3 DEF FileInv
<1>4. ASSUME NEW v \in Visitors, Proceeds(v) PROVE UNCHANGED <<setup, env, at>>
  BY <1>4, VisitsLeaveStarts DEF starting
<1>5. ASSUME NEW i \in Instances, StartInstance(i) \/ Starts(i), ~ReadLine(i)
      PROVE  UNCHANGED <<setup, env>> /\ at' = at
  BY <1>5 DEF StartInstance, Starts, StartStep, Launch, EndOfFile, Load, Build, BuildFails
<1>6. ASSUME Deploy \/ Overlap \/ Switch \/ PageExpires \/ UNCHANGED vars
      PROVE  UNCHANGED <<setup, env, at>>
  BY <1>6 DEF Deploy, Overlap, Switch, PageExpires, vars, starting
<1> QED BY <1>1, <1>2, <1>3, <1>4, <1>5, <1>6 DEF Next

(* Every step keeps what a start has loaded and built.                     *)
LEMMA NextStartInv == TypeOK /\ StartInv /\ [Next]_vars => StartInv'
<1> SUFFICES ASSUME TypeOK, StartInv, [Next]_vars PROVE StartInv'
  OBVIOUS
<1> DEFINE Same(j) == /\ phase'[j] = phase[j] /\ env'[j] = env[j]
                      /\ cfg'[j] = cfg[j] /\ store'[j] = store[j]
           Fine(j) == /\ phase'[j] \in {"build", "up"} => Errors(env'[j]) = {} /\ cfg'[j] = LoadFrom(env'[j])
                      /\ phase'[j] = "up" => /\ NewEmailProvider(cfg'[j], env'[j]) /\ Opens(cfg'[j])
                                             /\ store'[j] = OpenStore(cfg'[j])
<1>1. SUFFICES ASSUME NEW j \in Instances PROVE Fine(j)
  BY DEF StartInv
<1>2. Same(j) => Fine(j)
  BY DEF StartInv
<1>3. phase'[j] \in {"off", "dotenv", "load", "failed"} => Fine(j)
  OBVIOUS
<1>4. ASSUME NEW i \in Instances, StartInstance(i) PROVE Fine(j)
  <2>1. j # i => Same(j)
    BY <1>4 DEF StartInstance, Launch, GoTo, TypeOK
  <2>2. j = i => phase'[j] \in {"dotenv", "load"}
    BY <1>4 DEF StartInstance, Launch, GoTo, TypeOK
  <2> QED BY <1>2, <1>3, <2>1, <2>2
<1>5. ASSUME NEW i \in Instances, Starts(i) PROVE Fine(j)
  <2>1. CASE ReadLine(i) \/ EndOfFile(i)
    <3>1. j # i => Same(j)
      BY <2>1 DEF ReadLine, EndOfFile, GoTo, TypeOK
    <3>2. j = i => phase'[j] \in {"dotenv", "load", "failed"}
      BY <2>1 DEF ReadLine, EndOfFile, GoTo, TypeOK
    <3> QED BY <1>2, <1>3, <3>1, <3>2
  <2>2. CASE Load(i)
    <3>1. j # i => Same(j)
      BY <2>2 DEF Load, GoTo, TypeOK
    <3>2. j = i => \/ phase'[j] = "failed"
                   \/ /\ phase'[j] = "build" /\ Errors(env'[j]) = {} /\ cfg'[j] = LoadFrom(env'[j])
      BY <2>2 DEF Load, GoTo, TypeOK
    <3> QED BY <1>2, <1>3, <3>1, <3>2
  <2>3. CASE Build(i)
    <3>1. j # i => Same(j)
      BY <2>3 DEF Build, GoTo, TypeOK
    <3>2. j = i => \/ phase'[j] = "failed"
                   \/ /\ phase[j] = "build" /\ env'[j] = env[j] /\ cfg'[j] = cfg[j]
                      /\ NewEmailProvider(cfg[j], env[j]) /\ Opens(cfg[j])
                      /\ store'[j] = OpenStore(cfg[j])
      BY <2>3 DEF Build, GoTo, TypeOK
    <3> QED BY <1>2, <1>3, <3>1, <3>2 DEF StartInv
  <2>4. CASE BuildFails(i)
    <3>1. j # i => Same(j)
      BY <2>4 DEF BuildFails, GoTo, TypeOK
    <3>2. j = i => phase'[j] = "failed"
      BY <2>4 DEF BuildFails, GoTo, TypeOK
    <3> QED BY <1>2, <1>3, <3>1, <3>2
  <2> QED BY <1>5, <2>1, <2>2, <2>3, <2>4 DEF Starts, StartStep
<1>6. ASSUME NEW i \in Instances, FatalError(i) PROVE Fine(j)
  <2>1. j # i => Same(j)
    BY <1>6 DEF FatalError, Die, GoTo, TypeOK
  <2>2. j = i => phase'[j] = "off"
    BY <1>6 DEF FatalError, Die, GoTo, TypeOK
  <2> QED BY <1>2, <1>3, <2>1, <2>2
<1>7. ASSUME NEW v \in Visitors, Proceeds(v) PROVE Fine(j)
  BY <1>2, <1>7, VisitsLeaveStarts DEF starting
<1>8. CASE Deploy \/ Overlap \/ Switch \/ PageExpires \/ UNCHANGED vars
  <2>1. Same(j)
    BY <1>8 DEF Deploy, Overlap, Switch, PageExpires, vars, starting
  <2> QED BY <1>2, <2>1
<1> QED BY <1>4, <1>5, <1>6, <1>7, <1>8 DEF Next

-----------------------------------------------------------------------------
(* The asset map. *)

(* A visitor's step changes nothing of another one, takes nothing from a   *)
(* map, and leaves their own render with an instance and, unless it is     *)
(* cold, with the whole map.                                               *)
LEMMA VisitMap ==
    ASSUME TypeOK, MapInv, NEW v \in Visitors, Proceeds(v)
    PROVE  MapInv'
<1> DEFINE Same(w) == /\ stage'[w] = stage[w] /\ by'[w] = by[w]
                      /\ next'[w] = next[w] /\ cold'[w] = cold[w]
           Grows == \A i \in Instances : versions[i] \subseteq versions'[i]
           Mine == /\ stage'[v] \in Rendering \cup {"waiting", "fetching"} => by'[v] \in Instances
                   /\ stage'[v] = "reading" => next'[v] <= Len(AssetOrder)
                   /\ stage'[v] \in Rendering /\ ~cold'[v] =>
                        stage'[v] # "writing" /\ Assets \subseteq versions'[by'[v]]
<1> USE DEF Enter, Rendering
<1>1. SUFFICES (\A w \in Visitors \ {v} : Same(w)) /\ Grows /\ Mine
  BY DEF MapInv
<1>2. ASSUME UNCHANGED versions
      PROVE  Grows
  BY <1>2
<1>3. /\ stage[v] \in Rendering \cup {"waiting", "fetching"} => by[v] \in Instances
      /\ stage[v] = "reading" => next[v] <= Len(AssetOrder)
      /\ stage[v] \in Rendering /\ ~cold[v] => stage[v] # "writing" /\ Assets \subseteq versions[by[v]]
  BY DEF MapInv
<1>4. CASE PageFromEdge(v)
  BY <1>2, <1>4 DEF PageFromEdge, TypeOK
<1>5. CASE RequestPage(v)
  BY <1>2, <1>5 DEF RequestPage, TypeOK
<1>6. CASE Serve(v)
  BY <1>2, <1>3, <1>6 DEF Serve, TypeOK
<1>7. CASE BeginLookup(v)
  BY <1>2, <1>3, <1>7 DEF BeginLookup, TypeOK
<1>8. CASE EndLookup(v)
  <2>1. next[v] \in 1..Len(AssetOrder) /\ AssetOrder[next[v]] \in Assets
    BY <1>3, <1>8, SiteAssumption DEF EndLookup, TypeOK, SiteAssumption
  <2>2. UNCHANGED <<versions, by, cold>>
    BY <1>8 DEF EndLookup
  <2>3. CASE AssetOrder[next[v]] \in versions[by[v]]
    <3>1. stage' = [stage EXCEPT ![v] = "template"] /\ next' = [next EXCEPT ![v] = @ + 1]
      BY <1>8, <2>3 DEF EndLookup
    <3> QED BY <1>2, <1>3, <1>8, <2>2, <3>1 DEF EndLookup, TypeOK
  <2>4. CASE AssetOrder[next[v]] \notin versions[by[v]]
    <3>1. stage' = [stage EXCEPT ![v] = "writing"] /\ next' = next
      BY <1>8, <2>4 DEF EndLookup
    <3>2. cold[v]
      BY <1>3, <1>8, <2>1, <2>4 DEF EndLookup
    <3> QED BY <1>2, <1>3, <1>8, <2>2, <3>1, <3>2 DEF EndLookup, TypeOK
  <2> QED BY <2>3, <2>4
<1>9. CASE EndWrite(v)
  <2>1. /\ stage[v] = "writing" /\ stage' = [stage EXCEPT ![v] = "template"]
        /\ next' = [next EXCEPT ![v] = @ + 1] /\ UNCHANGED <<by, cold>>
        /\ versions' = [versions EXCEPT ![by[v]] = @ \cup {AssetOrder[next[v]]}] \/ UNCHANGED versions
    BY <1>9 DEF EndWrite
  <2>2. Grows
    <3>1. CASE UNCHANGED versions
      BY <3>1, <1>2
    <3>2. CASE versions' = [versions EXCEPT ![by[v]] = @ \cup {AssetOrder[next[v]]}]
      <4>1. DOMAIN versions = Instances
        BY DEF TypeOK
      <4> QED BY <3>2, <4>1
    <3> QED BY <2>1, <3>1, <3>2
  <2> QED BY <1>3, <2>1, <2>2 DEF TypeOK
<1>10. CASE EndRender(v)
  BY <1>2, <1>10 DEF EndRender, TypeOK
<1>11. CASE AssetFromCache(v)
  <2>1. stage'[v] \in {"loading", "shown"} /\ UNCHANGED <<versions, by, cold>>
        /\ \A w \in Visitors \ {v} : stage'[w] = stage[w] /\ next'[w] = next[w]
    BY <1>11 DEF AssetFromCache, Receive, TypeOK
  <2> QED BY <1>2, <2>1
<1>12. CASE RequestAsset(v)
  BY <1>2, <1>12 DEF RequestAsset, TypeOK
<1>13. CASE SendAsset(v)
  <2>1. stage'[v] \in {"loading", "shown"} /\ UNCHANGED <<versions, by, cold>>
        /\ \A w \in Visitors \ {v} : stage'[w] = stage[w] /\ next'[w] = next[w]
    BY <1>13 DEF SendAsset, Receive, TypeOK
  <2> QED BY <1>2, <2>1
<1>14. CASE AssetRefused(v)
  BY <1>2, <1>14 DEF AssetRefused, TypeOK
<1> QED BY <1>4, <1>5, <1>6, <1>7, <1>8, <1>9, <1>10, <1>11, <1>12, <1>13, <1>14 DEF Proceeds, Renders, Loads

(* A process that dies cuts every request it has, so that no render goes   *)
(* on with the empty map of its successor.                                 *)
LEMMA FatalMap ==
    ASSUME TypeOK, MapInv, NEW i \in Instances, FatalError(i)
    PROVE  MapInv'
<1> DEFINE Busy == {"waiting", "template", "reading", "writing", "fetching"}
<1>1. /\ versions' = [versions EXCEPT ![i] = {}] /\ UNCHANGED <<by, next, cold>>
      /\ \A v \in Visitors : stage'[v] = IF by[v] = i /\ stage[v] \in Busy THEN "cut" ELSE stage[v]
  BY DEF FatalError
<1> SUFFICES ASSUME NEW v \in Visitors
             PROVE  /\ stage'[v] \in Rendering \cup {"waiting", "fetching"} => by'[v] \in Instances
                    /\ stage'[v] = "reading" => next'[v] <= Len(AssetOrder)
                    /\ stage'[v] \in Rendering /\ ~cold'[v] =>
                         stage'[v] # "writing" /\ Assets \subseteq versions'[by'[v]]
  BY DEF MapInv
<1>2. CASE by[v] = i /\ stage[v] \in Busy
  BY <1>1, <1>2 DEF Rendering
<1>3. CASE ~(by[v] = i /\ stage[v] \in Busy)
  <2>1. stage'[v] = stage[v]
    BY <1>1, <1>3
  <2>2. stage[v] \in Rendering => versions'[by[v]] = versions[by[v]]
    BY <1>1, <1>3 DEF MapInv, Rendering, TypeOK
  <2> QED BY <1>1, <2>1, <2>2 DEF MapInv
<1> QED BY <1>2, <1>3

(* Every step keeps what renders know of their map.                        *)
LEMMA NextMapInv == TypeOK /\ MapInv /\ [Next]_vars => MapInv'
<1> SUFFICES ASSUME TypeOK, MapInv, [Next]_vars PROVE MapInv'
  OBVIOUS
<1>1. CASE UNCHANGED <<versions, visit>>
  BY <1>1 DEF MapInv, visit
<1>2. ASSUME NEW v \in Visitors, Proceeds(v) PROVE MapInv'
  BY <1>2, VisitMap
<1>3. ASSUME NEW i \in Instances, FatalError(i) PROVE MapInv'
  BY <1>3, FatalMap
<1>4. ASSUME NEW i \in Instances, StartInstance(i) \/ Starts(i) PROVE UNCHANGED <<versions, visit>>
  BY <1>4, StartsLeaveVisits
<1>5. CASE Deploy \/ Overlap \/ Switch \/ PageExpires \/ UNCHANGED vars
  BY <1>1, <1>5 DEF Deploy, Overlap, Switch, PageExpires, vars
<1> QED BY <1>1, <1>2, <1>3, <1>4, <1>5 DEF Next

-----------------------------------------------------------------------------
(* The releases. *)

(* An asset that arrives is that of the page, or the page is of the old    *)
(* release and the new one has taken over; a copy that is kept fits its    *)
(* URL where New's URLs name it.                                           *)
LEMMA SentAsset ==
    ASSUME TypeOK, MapInv, ReleaseInv, ~overlapped, NEW v \in Visitors, SendAsset(v)
    PROVE  LET bytes == Content[by[v]][AssetOrder[next[v]]] IN
           /\ bytes = Content[page[v]][AssetOrder[next[v]]] \/ (page[v] = Old /\ routed = {New})
           /\ routed = {Old} => bytes = Url(v).v
           /\ Url(v).v = Content[New][Url(v).name] => bytes = Url(v).v
<1>1. /\ stage[v] = "fetching" /\ page[v] \in {Old, New} /\ by[v] \in {Old, New}
      /\ routed = {Old} \/ routed = {New}
      /\ routed = {Old} => by[v] = Old /\ page[v] = Old
      /\ page[v] = New => by[v] = New
  BY SiteAssumption DEF SendAsset, MapInv, ReleaseInv, SiteAssumption
<1>2. Url(v).v = Content[page[v]][AssetOrder[next[v]]] /\ Url(v).name = AssetOrder[next[v]]
  BY DEF Url, AssetUrl
<1>3. CASE page[v] = New
  BY <1>1, <1>2, <1>3, SiteAssumption DEF SiteAssumption
<1>4. CASE page[v] = Old /\ by[v] = Old
  BY <1>1, <1>2, <1>4
<1>5. CASE page[v] = Old /\ by[v] = New
  BY <1>1, <1>2, <1>5, SiteAssumption DEF SiteAssumption
<1> QED BY <1>1, <1>3, <1>4, <1>5

(* A visitor's step keeps what copies and requests owe to the releases.    *)
LEMMA VisitRelease ==
    ASSUME TypeOK, MapInv, ReleaseInv, NEW v \in Visitors, Proceeds(v)
    PROVE  ReleaseInv'
<1> USE DEF Enter, Rendering
<1>1. UNCHANGED <<routed, overlapped>>
  BY VisitsLeaveStarts DEF platform
<1>2. Old # New /\ None # New /\ None # Old /\ Instances = {Old, New}
  BY SiteAssumption DEF SiteAssumption
<1>3. CASE PageFromEdge(v)
  <2>1. /\ stage[v] = "coming" /\ edge \in Instances /\ UNCHANGED <<edge, copies, by, mixed>>
        /\ page' = [page EXCEPT ![v] = edge] /\ stage' = [stage EXCEPT ![v] = "loading"]
    BY <1>3 DEF PageFromEdge, caches, TypeOK
  <2> QED BY <1>1, <1>2, <2>1 DEF ReleaseInv, TypeOK
<1>4. CASE RequestPage(v)
  <2>1. PICK i \in routed : by' = [by EXCEPT ![v] = i]
    BY <1>4 DEF RequestPage
  <2>2. /\ stage[v] = "coming" /\ UNCHANGED <<edge, copies, page, mixed>>
        /\ stage' = [stage EXCEPT ![v] = "waiting"] \/ stage' = [stage EXCEPT ![v] = "cut"]
    BY <1>4 DEF RequestPage, caches
  <2> QED BY <1>1, <1>2, <2>1, <2>2 DEF ReleaseInv, TypeOK
<1>5. CASE Serve(v) \/ BeginLookup(v) \/ EndLookup(v) \/ EndWrite(v)
  <2>1. /\ UNCHANGED <<edge, copies, by, page, mixed>>
        /\ stage[v] \in {"waiting"} \cup Rendering
    BY <1>5 DEF Serve, BeginLookup, EndLookup, EndWrite, caches
  <2>2. \E s \in Rendering \cup {"refused"} : stage' = [stage EXCEPT ![v] = s]
    BY <1>5 DEF Serve, BeginLookup, EndLookup, EndWrite
  <2> QED BY <1>1, <2>1, <2>2 DEF ReleaseInv, TypeOK
<1>6. CASE EndRender(v)
  <2>1. /\ stage[v] = "template" /\ by[v] \in Instances /\ UNCHANGED <<copies, by, mixed>>
        /\ page' = [page EXCEPT ![v] = by[v]] /\ edge' = by[v]
        /\ stage' = [stage EXCEPT ![v] = "loading"]
    BY <1>6 DEF EndRender, MapInv
  <2> QED BY <1>1, <1>2, <2>1 DEF ReleaseInv, TypeOK
<1>7. CASE AssetFromCache(v)
  <2>1. PICK c \in copies : c.url = Url(v) /\ Receive(v, c.bytes)
    BY <1>7 DEF AssetFromCache
  <2>2. /\ stage[v] = "loading" /\ page[v] \in Instances /\ UNCHANGED <<edge, copies, by, page>>
        /\ stage' = [stage EXCEPT ![v] = "loading"] \/ stage' = [stage EXCEPT ![v] = "shown"]
    BY <1>7, <2>1 DEF AssetFromCache, Receive, caches, ReleaseInv
  <2>3. ~overlapped => \/ c.bytes = Content[page[v]][AssetOrder[next[v]]]
                       \/ page[v] = Old /\ routed = {New}
    BY <1>2, <2>1, <2>2 DEF Url, AssetUrl, ReleaseInv
  <2>4. \A w \in Visitors : ~overlapped /\ mixed'[w] => mixed[w] \/ (page[w] = Old /\ routed = {New})
    BY <2>1, <2>3 DEF Receive, TypeOK
  <2>5. \A w \in Visitors : mixed'[w] => mixed[w] \/ w = v
    BY <2>1 DEF Receive, TypeOK
  <2>6. \A w \in Visitors : stage'[w] = stage[w] \/ (w = v /\ stage'[w] \in {"loading", "shown"})
    BY <2>2 DEF TypeOK
  <2>7. \A w \in Visitors : stage'[w] \in {"loading", "fetching"} => page[w] \in Instances
    BY <2>2, <2>6 DEF ReleaseInv
  <2>8. \A w \in Visitors : mixed'[w] => stage'[w] \notin {"template", "reading", "writing", "coming", "waiting"}
    BY <2>2, <2>5, <2>6 DEF ReleaseInv
  <2> HIDE DEF Enter
  <2> QED BY <1>1, <2>2, <2>4, <2>6, <2>7, <2>8 DEF ReleaseInv
<1>8. CASE RequestAsset(v)
  <2>1. PICK i \in routed : by' = [by EXCEPT ![v] = i]
    BY <1>8 DEF RequestAsset
  <2>2. /\ stage[v] = "loading" /\ UNCHANGED <<edge, copies, page, mixed>>
        /\ stage' = [stage EXCEPT ![v] = "fetching"] \/ stage' = [stage EXCEPT ![v] = "cut"]
    BY <1>8 DEF RequestAsset, caches
  <2> QED BY <1>1, <1>2, <2>1, <2>2 DEF ReleaseInv, TypeOK
<1>9. CASE SendAsset(v)
  <2> DEFINE bytes == Content[by[v]][AssetOrder[next[v]]]
             kept == [url |-> Url(v), bytes |-> bytes]
  <2>1. /\ stage[v] = "fetching" /\ UNCHANGED <<edge, by, page>> /\ Receive(v, bytes)
        /\ copies' = {c \in copies : c.url # Url(v)} \cup {kept}
        /\ stage' = [stage EXCEPT ![v] = "loading"] \/ stage' = [stage EXCEPT ![v] = "shown"]
    BY <1>9 DEF SendAsset, Receive
  <2>2. ~overlapped =>
          /\ bytes = Content[page[v]][AssetOrder[next[v]]] \/ (page[v] = Old /\ routed = {New})
          /\ routed = {Old} => kept.bytes = kept.url.v
          /\ kept.url.v = Content[New][kept.url.name] => kept.bytes = kept.url.v
    BY <1>9, SentAsset
  <2>3. \A w \in Visitors : ~overlapped /\ mixed'[w] => mixed[w] \/ (page[w] = Old /\ routed = {New})
    BY <2>1, <2>2 DEF Receive, TypeOK
  <2>4. \A w \in Visitors : mixed'[w] => mixed[w] \/ w = v
    BY <2>1 DEF Receive, TypeOK
  <2>5. \A c \in copies' : c \in copies \/ c = kept
    BY <2>1
  <2> HIDE DEF kept, bytes, Enter
  <2>6. \A w \in Visitors : stage'[w] = stage[w] \/ (w = v /\ stage'[w] \in {"loading", "shown"})
    BY <2>1 DEF TypeOK
  <2>7. \A w \in Visitors : stage'[w] \in {"loading", "fetching"} => page[w] \in Instances
    BY <2>1, <2>6 DEF ReleaseInv
  <2>8. \A w \in Visitors : mixed'[w] => stage'[w] \notin {"template", "reading", "writing", "coming", "waiting"}
    BY <2>1, <2>4, <2>6 DEF ReleaseInv
  <2>9. ~overlapped => /\ routed = {Old} => \A c \in copies' : c.bytes = c.url.v
                       /\ \A c \in copies' : c.url.v = Content[New][c.url.name] => c.bytes = c.url.v
    BY <2>2, <2>5 DEF ReleaseInv
  <2> QED BY <1>1, <2>1, <2>3, <2>9, <2>6, <2>7, <2>8 DEF ReleaseInv
<1>10. CASE AssetRefused(v)
  <2>1. /\ UNCHANGED <<edge, copies, by, page, mixed>>
        /\ stage' = [stage EXCEPT ![v] = "refused"]
    BY <1>10 DEF AssetRefused, caches
  <2> QED BY <1>1, <2>1 DEF ReleaseInv, TypeOK
<1> QED BY <1>3, <1>4, <1>5, <1>6, <1>7, <1>8, <1>9, <1>10 DEF Proceeds, Renders, Loads

(* Every step keeps what copies and requests owe to the releases.          *)
LEMMA NextReleaseInv == TypeOK /\ MapInv /\ ReleaseInv /\ [Next]_vars => ReleaseInv'
<1> SUFFICES ASSUME TypeOK, MapInv, ReleaseInv, [Next]_vars PROVE ReleaseInv'
  OBVIOUS
<1>1. CASE UNCHANGED <<platform, caches, versions, visit>>
  BY <1>1 DEF ReleaseInv, platform, caches, visit
<1>2. ASSUME NEW v \in Visitors, Proceeds(v) PROVE ReleaseInv'
  BY <1>2, VisitRelease
<1>3. ASSUME NEW i \in Instances, FatalError(i) PROVE ReleaseInv'
  <2>1. /\ UNCHANGED <<routed, overlapped, edge, copies, by, page, mixed>>
        /\ \A v \in Visitors : stage'[v] = stage[v] \/ stage'[v] = "cut"
    BY <1>3 DEF FatalError, platform, caches
  <2> QED BY <2>1 DEF ReleaseInv, Rendering
<1>4. ASSUME NEW i \in Instances, StartInstance(i) \/ Starts(i)
      PROVE  UNCHANGED <<platform, caches, versions, visit>>
  BY <1>4, StartsLeaveVisits
<1>5. CASE Deploy
  BY <1>5 DEF Deploy, ReleaseInv, caches, visit
<1>6. CASE Overlap
  BY <1>6 DEF Overlap, ReleaseInv, caches, visit
<1>7. CASE Switch
  <2>1. Old # New
    BY SiteAssumption DEF SiteAssumption
  <2> QED BY <1>7, <2>1 DEF Switch, ReleaseInv, caches, visit
<1>8. CASE PageExpires
  <2>1. None # New
    BY SiteAssumption DEF SiteAssumption
  <2> QED BY <1>8, <2>1 DEF PageExpires, ReleaseInv, platform, visit
<1>9. CASE UNCHANGED vars
  BY <1>1, <1>9 DEF vars
<1> QED BY <1>1, <1>2, <1>3, <1>4, <1>5, <1>6, <1>7, <1>8, <1>9 DEF Next

-----------------------------------------------------------------------------
(* The theorems. *)

(* The initial states satisfy the invariant.                               *)
LEMMA InitIInv == Init => IInv
<1> SUFFICES ASSUME Init PROVE IInv
  OBVIOUS
<1>1. \A v \in Visitors : stage[v] \in {"away", "coming"}
  BY DEF Init
<1>2. StartInv
  BY DEF Init, StartInit, StartInv
<1>3. MapInv
  BY <1>1 DEF MapInv, Rendering
<1>4. ReleaseInv
  <2>1. /\ routed = {Old} /\ edge = None /\ copies = {} /\ Old # New /\ None # New
        /\ \A v \in Visitors : ~mixed[v] /\ by[v] # New /\ page[v] # New
    BY SiteAssumption DEF Init, SiteAssumption
  <2> QED BY <1>1, <2>1 DEF ReleaseInv
<1> QED BY <1>2, <1>3, <1>4, InitTypeOK, InitFileInv DEF IInv

(* The invariant of the instances and the visitors holds: what the other   *)
(* theorems rest on.                                                       *)
THEOREM Invariance == Spec => []IInv
<1>1. IInv /\ [Next]_vars => IInv'
  BY NextTypeOK, NextFileInv, NextStartInv, NextMapInv, NextReleaseInv DEF IInv
<1> QED BY InitIInv, <1>1, PTL DEF Spec

(* A variable of a server is what it was given, set to nothing included,   *)
(* or what the first line of .env for it reads as.                         *)
THEOREM FirstSettingAlwaysWins == Spec => []FirstSettingWins
<1>1. IInv => FirstSettingWins
  <2> SUFFICES ASSUME IInv, NEW i \in Instances, NEW key \in DOMAIN env[i]
               PROVE  LET lines == LinesFor(i, key)
                      IN IF setup[i].env[key] # Unset \/ lines = {}
                           THEN env[i][key] = setup[i].env[key]
                           ELSE LET line == setup[i].file[CHOOSE n \in lines : \A m \in lines : n <= m]
                                IN env[i][key] = LineValue(line)
    BY DEF FirstSettingWins, LinesFor
  <2> DEFINE lines == LinesFor(i, key)
             first == CHOOSE n \in lines : \A m \in lines : n <= m
  <2>1. (setup[i].env[key] # Unset \/ lines = {}) => env[i][key] = setup[i].env[key]
    BY DEF IInv, FileInv
  <2>2. ASSUME setup[i].env[key] = Unset, lines # {}
        PROVE  env[i][key] = LineValue(setup[i].file[first])
    <3>1. PICK n \in lines : /\ \A m \in lines : n <= m
                             /\ env[i][key] = LineValue(setup[i].file[n])
      BY <2>2 DEF IInv, FileInv
    <3>2. first \in lines /\ \A m \in lines : first <= m
      BY <3>1
    <3>3. lines \subseteq Nat
      BY DEF LinesFor, IInv, TypeOK
    <3>4. first = n
      BY <3>1, <3>2, <3>3
    <3> QED BY <3>1, <3>4
  <2> HIDE DEF lines, first
  <2> QED BY <2>1, <2>2 DEF lines, first
<1> QED BY <1>1, Invariance, PTL

(* An environment without errors in production has every setting that it   *)
(* must have, and none that production must not have.                      *)
LEMMA NoErrors ==
    ASSUME NEW e, Errors(e) = {}, Production(e)
    PROVE  /\ Given(e, "DATABASE_URL") /\ Given(e, "EMAIL_PROVIDER") /\ e.EMAIL_PROVIDER # "log"
           /\ Given(e, "SALES_NOTIFICATION_EMAIL") /\ ParseAddress(e.SALES_NOTIFICATION_EMAIL)
           /\ Given(e, "IP_HASH_SALT") /\ e.IP_HASH_SALT >= 16
           /\ Origins(e) # <<>>
<1> DEFINE keys == {"DATABASE_URL", "EMAIL_PROVIDER", "SALES_NOTIFICATION_EMAIL", "IP_HASH_SALT", "ALLOWED_ORIGIN"}
<1>1. keys \subseteq DOMAIN Checks(e)
  BY DEF Checks
<1>2. \A key \in keys : Checks(e)[key]
  BY <1>1 DEF Errors
<1>3. /\ Checks(e).DATABASE_URL = Required(e, "DATABASE_URL")
      /\ Checks(e).EMAIL_PROVIDER = (/\ Required(e, "EMAIL_PROVIDER")
                                     /\ Production(e) => e.EMAIL_PROVIDER # "log")
      /\ Checks(e).SALES_NOTIFICATION_EMAIL = (/\ Required(e, "SALES_NOTIFICATION_EMAIL")
                                               /\ ParseAddress(valueOr(e, "SALES_NOTIFICATION_EMAIL", "bare")))
      /\ Checks(e).IP_HASH_SALT = (/\ Required(e, "IP_HASH_SALT")
                                   /\ Production(e) => valueOr(e, "IP_HASH_SALT", 16) >= 16)
      /\ Checks(e).ALLOWED_ORIGIN = (/\ \A n \in DOMAIN valueOr(e, "ALLOWED_ORIGIN", <<>>) :
                                           e.ALLOWED_ORIGIN[n] # Junk
                                     /\ Production(e) => Origins(e) # <<>>)
  BY DEF Checks
<1>4. /\ Required(e, "DATABASE_URL") /\ Required(e, "EMAIL_PROVIDER")
      /\ Required(e, "SALES_NOTIFICATION_EMAIL") /\ Required(e, "IP_HASH_SALT")
      /\ e.EMAIL_PROVIDER # "log" /\ ParseAddress(valueOr(e, "SALES_NOTIFICATION_EMAIL", "bare"))
      /\ valueOr(e, "IP_HASH_SALT", 16) >= 16 /\ Origins(e) # <<>>
  BY <1>2, <1>3
<1> QED BY <1>4 DEF Required, valueOr

(* An instance that serves as production stores in the database, mails     *)
(* through a real provider, knows its inbox and its origin, and has a long *)
(* salt, whatever else its environment and its .env say.                   *)
THEOREM ProductionIsAlwaysReal == Spec => []ProductionIsReal
<1>1. IInv => ProductionIsReal
  <2> SUFFICES ASSUME IInv, NEW i \in Instances, phase[i] = "up",
                      \/ env[i].APP_ENV = "production"
                      \/ env[i].VERCEL = "1" /\ ~Given(env[i], "APP_ENV")
               PROVE  /\ store[i].kind = "postgres"
                      /\ cfg[i].EmailProvider \in {"brevo", "ses"}
                      /\ FromEmail(cfg[i], env[i]) \in {"bare", "named"}
                      /\ env[i].SALES_NOTIFICATION_EMAIL \in {"bare", "named"}
                      /\ cfg[i].AllowedOrigins # <<>> /\ cfg[i].AllowedOrigins = Origins(env[i])
                      /\ env[i].IP_HASH_SALT >= 16
    BY DEF ProductionIsReal
  <2> DEFINE e == env[i]
  <2>1. Production(e)
    BY SettingsAssumption DEF SettingsAssumption, Production, Environment, Given
  <2>2. /\ Errors(e) = {} /\ cfg[i] = LoadFrom(e)
        /\ NewEmailProvider(cfg[i], e) /\ store[i] = OpenStore(cfg[i])
    BY DEF IInv, StartInv
  <2>3. /\ Given(e, "DATABASE_URL") /\ Given(e, "EMAIL_PROVIDER") /\ e.EMAIL_PROVIDER # "log"
        /\ ParseAddress(e.SALES_NOTIFICATION_EMAIL)
        /\ e.IP_HASH_SALT >= 16 /\ Origins(e) # <<>>
    BY <2>1, <2>2, NoErrors
  <2>4. /\ cfg[i].DatabaseURL = e.DATABASE_URL /\ cfg[i].EmailProvider = e.EMAIL_PROVIDER
        /\ cfg[i].AllowedOrigins = Origins(e)
    BY <2>2, <2>3 DEF LoadFrom, valueOr
  <2>5. store[i].kind = "postgres"
    BY <2>2, <2>3, <2>4 DEF OpenStore, Given
  <2>6. \/ cfg[i].EmailProvider = "brevo" /\ ParseAddress(e.BREVO_FROM_EMAIL)
        \/ cfg[i].EmailProvider = "ses" /\ ParseAddress(e.SES_FROM_EMAIL)
    BY <2>2, <2>3, <2>4 DEF NewEmailProvider, newBrevoFromEnv, newSESFromEnv
  <2>7. FromEmail(cfg[i], e) \in {"bare", "named"}
    BY <2>6 DEF FromEmail, ParseAddress
  <2> QED BY <2>3, <2>4, <2>5, <2>6, <2>7 DEF ParseAddress
<1> QED BY <1>1, Invariance, PTL

(* A number that a signed type can hold is converted as it is.             *)
LEMMA WrapBelowLimit ==
    ASSUME NEW limit \in Nat \ {0}, NEW n \in Int, -limit <= n, n < limit
    PROVE  Wrap(n, limit) = n
<1>1. n + limit \in 0..(2 * limit - 1) /\ 2 * limit \in Nat \ {0}
  OBVIOUS
<1>2. \A m \in Nat \ {0}, x \in Nat : x < m => x % m = x
  BY SMT
<1>3. (n + limit) % (2 * limit) = n + limit
  BY <1>1, <1>2
<1> QED BY <1>3 DEF Wrap

(* An environment without errors has positive numbers where it has any.    *)
LEMMA NumbersPositive ==
    ASSUME NEW e, Errors(e) = {}, NEW key \in {"EMAIL_SEND_TIMEOUT_SECONDS", "QUOTE_RATE_LIMIT_PER_HOUR"},
           Given(e, key)
    PROVE  e[key] # Junk /\ e[key] > 0
<1>1. key \in DOMAIN Checks(e)
  BY DEF Checks
<1>2. Checks(e)[key]
  BY <1>1 DEF Errors
<1>3. Checks(e)[key] = PositiveOrUnset(e, key)
  BY DEF Checks
<1> QED BY <1>2, <1>3 DEF PositiveOrUnset

(* Whatever numbers an instance was given that is up, in its environment   *)
(* or its .env, it has connections, admits quotes and gives a mail time;   *)
(* a timeout that is not positive came of more seconds than its type can   *)
(* hold.                                                                   *)
THEOREM LimitsAlwaysPositive == Spec => []LimitsPositive
<1>1. IInv => LimitsPositive
  <2> SUFFICES ASSUME IInv, NEW i \in Instances, phase[i] = "up"
               PROVE  /\ store[i].conns > 0
                      /\ cfg[i].QuoteRateLimitPerHour > 0
                      /\ cfg[i].EmailSendTimeout > 0
                           \/ valueOr(env[i], "EMAIL_SEND_TIMEOUT_SECONDS", 8) >= SecondsLimit
    BY DEF LimitsPositive
  <2> DEFINE e == env[i]
             seconds == valueOr(e, "EMAIL_SEND_TIMEOUT_SECONDS", 8)
  <2>1. /\ Errors(e) = {} /\ cfg[i] = LoadFrom(e)
        /\ store[i] = OpenStore(cfg[i])
    BY DEF IInv, StartInv
  <2>2. store[i].conns > 0
    BY <2>1, DriverAssumption DEF OpenStore, DriverAssumption
  <2>3. cfg[i].QuoteRateLimitPerHour > 0
    <3>1. valueOr(e, "QUOTE_RATE_LIMIT_PER_HOUR", 5) > 0
      BY <2>1, NumbersPositive DEF valueOr
    <3> QED BY <2>1, <3>1 DEF LoadFrom
  <2>4. seconds \in Int /\ seconds > 0
    <3>1. CASE Given(e, "EMAIL_SEND_TIMEOUT_SECONDS")
      <4>1. NumberOrNone(e["EMAIL_SEND_TIMEOUT_SECONDS"])
        BY DEF IInv, TypeOK, Numbers
      <4>2. e["EMAIL_SEND_TIMEOUT_SECONDS"] # Junk /\ e["EMAIL_SEND_TIMEOUT_SECONDS"] > 0
        BY <2>1, <3>1, NumbersPositive
      <4> QED BY <3>1, <4>1, <4>2 DEF NumberOrNone, Given, valueOr
    <3>2. CASE ~Given(e, "EMAIL_SEND_TIMEOUT_SECONDS")
      BY <3>2 DEF valueOr
    <3> QED BY <3>1, <3>2
  <2>5. cfg[i].EmailSendTimeout = Wrap(seconds, SecondsLimit)
    BY <2>1 DEF LoadFrom
  <2>6. SecondsLimit \in Nat \ {0}
    BY SettingsAssumption DEF SettingsAssumption
  <2> HIDE DEF seconds
  <2>7. cfg[i].EmailSendTimeout > 0 \/ seconds >= SecondsLimit
    BY <2>4, <2>5, <2>6, WrapBelowLimit
  <2> QED BY <2>2, <2>3, <2>7 DEF seconds
<1> QED BY <1>1, Invariance, PTL

(* A process dies of the asset map only under a render that began before   *)
(* the map was complete, however many renders there are at once.           *)
THEOREM OnlyColdRendersCrash == Spec => ColdRendersOnlyCrash
<1> DEFINE Blamed == \A i \in Instances : phase[i] = "up" /\ phase'[i] = "off" => \E v \in InMap(i) : cold[v]
<1>1. IInv /\ [Next]_vars => Blamed
  <2> SUFFICES ASSUME IInv, [Next]_vars, NEW i \in Instances, phase[i] = "up", phase'[i] = "off"
               PROVE  \E v \in InMap(i) : cold[v]
    OBVIOUS
  <2>1. CASE FatalError(i)
    BY <2>1 DEF FatalError, InMap, IInv, MapInv, Rendering
  <2>2. ASSUME NEW j \in Instances, FatalError(j) PROVE j = i
    BY <2>2 DEF FatalError, Die, GoTo, IInv, TypeOK
  <2>3. ASSUME NEW j \in Instances, StartInstance(j) \/ Starts(j) PROVE FALSE
    BY <2>3 DEF StartInstance, Starts, StartStep, Launch, ReadLine, EndOfFile, Load, Build, BuildFails,
                GoTo, IInv, TypeOK
  <2>4. ASSUME NEW v \in Visitors, Proceeds(v) PROVE FALSE
    BY <2>4, VisitsLeaveStarts DEF starting
  <2>5. ~(Deploy \/ Overlap \/ Switch \/ PageExpires \/ UNCHANGED vars)
    BY DEF Deploy, Overlap, Switch, PageExpires, vars, starting
  <2> QED BY <2>1, <2>2, <2>3, <2>4, <2>5 DEF Next
<1> QED BY <1>1, Invariance, PTL DEF Spec, ColdRendersOnlyCrash

(* Pages come with the assets of their release as long as the two releases *)
(* are never in rotation together, save old ones after the switch, for any *)
(* assets and any visitors.                                                *)
THEOREM PagesAreWhole == Spec => []PagesWhole
<1>1. IInv => PagesWhole
  BY SiteAssumption DEF IInv, ReleaseInv, PagesWhole
<1> QED BY <1>1, Invariance, PTL
=============================================================================
