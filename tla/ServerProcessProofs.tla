-------------------------- MODULE ServerProcessProofs --------------------------
(***************************************************************************)
(* The life of a server process: its inductive invariant, and from it the  *)
(* grace of the runs, the clean exit, the bound on the stop and the sum of *)
(* the deadlines, for every number of requests and every timeout.          *)
(***************************************************************************)
EXTENDS ServerInvariant, TLAPS

Stages == Busy \cup {"out", "header", "closed", "answered", "lost", "cut"}

-----------------------------------------------------------------------------
(* Arithmetic. *)

(* The product of naturals is a natural.                                   *)
LEMMA ProductNat == \A m, n \in Nat : m * n \in Nat
  OBVIOUS

(* Multiplication distributes over addition.                               *)
LEMMA Distributes == \A m, k, n \in Nat : (m + k) * n = m * n + k * n
  OBVIOUS

(* One attempt more takes one insert timeout more, and the attempts made   *)
(* never take more than all of them.                                       *)
LEMMA InsertBudget ==
    ASSUME NEW t \in 0..(Attempts - 1)
    PROVE  /\ t * InsertTimeout \in Nat /\ Attempts * InsertTimeout \in Nat
           /\ (t + 1) * InsertTimeout = t * InsertTimeout + InsertTimeout
           /\ t * InsertTimeout + InsertTimeout <= Attempts * InsertTimeout
  <1>1. t \in Nat /\ t + 1 \in Nat /\ Attempts \in Nat /\ InsertTimeout \in Nat
    BY ServerAssumption DEF ServerAssumption
  <1>2. (t + 1) * InsertTimeout = t * InsertTimeout + 1 * InsertTimeout
    BY <1>1, Distributes
  <1>3. PICK left \in Nat : Attempts = (t + 1) + left
    <2>1. Attempts - (t + 1) \in Nat /\ Attempts = (t + 1) + (Attempts - (t + 1))
      BY <1>1
    <2> QED
      BY <2>1
  <1>4. Attempts * InsertTimeout = (t + 1) * InsertTimeout + left * InsertTimeout
    BY <1>1, <1>3, Distributes
  <1>5. /\ left * InsertTimeout \in Nat
        /\ t * InsertTimeout \in Nat /\ Attempts * InsertTimeout \in Nat
    BY <1>1, <1>3, ProductNat
  <1> QED
    BY <1>1, <1>2, <1>4, <1>5

(* The constants are numbers, and every timeout is one a stopwatch reaches. *)
LEMMA Constants ==
    /\ Attempts \in Nat /\ Attempts > 0
    /\ ReadTimeout \in Nat /\ WriteTimeout \in Nat /\ Grace \in Nat /\ Cap \in Nat
    /\ HeaderTimeout \in Nat /\ HeaderTimeout < Grace /\ HeaderTimeout <= ReadTimeout
    /\ CloseTimeout \in Nat /\ Grace + CloseTimeout <= Cap
    /\ CountTimeout \in Nat /\ InsertTimeout \in Nat /\ SendTimeout \in Nat /\ EventTimeout \in Nat
    /\ Attempts * InsertTimeout \in Nat
    /\ Budget = CountTimeout + Attempts * InsertTimeout + SendTimeout + EventTimeout
    /\ Budget \in Nat /\ Budget <= Cap
    /\ \A s \in Busy \cup {"header"} : Timeout(s) \in Nat /\ Timeout(s) <= Cap
    /\ \A s \in OnDatabase : Timeout(s) \in {CountTimeout, InsertTimeout, EventTimeout}
    /\ \A t \in {CountTimeout, InsertTimeout, EventTimeout} :
         t \in Nat /\ Grace + t + CloseTimeout <= Cap
    /\ Timeout("header") = HeaderTimeout /\ Timeout("body") = ReadTimeout
  <1>1. /\ Attempts \in Nat /\ Attempts > 0
        /\ ReadTimeout \in Nat /\ WriteTimeout \in Nat /\ Grace \in Nat /\ Cap \in Nat
        /\ HeaderTimeout \in Nat /\ HeaderTimeout < Grace /\ HeaderTimeout <= ReadTimeout
        /\ CloseTimeout \in Nat
        /\ CountTimeout \in Nat /\ InsertTimeout \in Nat /\ SendTimeout \in Nat /\ EventTimeout \in Nat
        /\ Grace + CountTimeout + CloseTimeout <= Cap /\ Grace + InsertTimeout + CloseTimeout <= Cap
        /\ Grace + EventTimeout + CloseTimeout <= Cap
        /\ Budget <= Cap /\ SendTimeout <= Cap /\ ReadTimeout <= Cap
    BY ServerAssumption DEF ServerAssumption
  <1>2. Attempts * InsertTimeout \in Nat
    BY <1>1, ProductNat
  <1>3. Budget = CountTimeout + Attempts * InsertTimeout + SendTimeout + EventTimeout
    BY DEF Budget
  <1>4. \A s \in Busy \cup {"header"} : Timeout(s) \in Nat /\ Timeout(s) <= Cap
    BY <1>1 DEF Busy, Timeout
  <1>5. /\ \A s \in OnDatabase : Timeout(s) \in {CountTimeout, InsertTimeout, EventTimeout}
        /\ Timeout("header") = HeaderTimeout /\ Timeout("body") = ReadTimeout
    BY DEF OnDatabase, Timeout
  <1>7. /\ Grace + CloseTimeout <= Cap
        /\ \A t \in {CountTimeout, InsertTimeout, EventTimeout} :
             t \in Nat /\ Grace + t + CloseTimeout <= Cap
    BY <1>1
  <1> HIDE DEF Budget
  <1>6. Budget \in Nat
    BY <1>1, <1>2, <1>3
  <1> QED
    BY <1>1, <1>2, <1>3, <1>4, <1>5, <1>6, <1>7

(* Of the grace of a connection, its headers take at most their timeout.    *)
LEMMA GraceLessHeaders ==
    ASSUME NEW h \in Nat, NEW b \in Nat, NEW u \in Nat, h <= HeaderTimeout, h + b + u >= Grace
    PROVE  HeaderTimeout + b + u >= Grace
  BY Constants

-----------------------------------------------------------------------------
(* The steps of a run. *)

(* A run that enters a stage within what its calls so far may have taken    *)
(* keeps the invariant.                                                     *)
LEMMA EnterStep ==
    ASSUME IInv, NEW r \in Requests,
           NEW s \in {"count", "insert", "send", "event", "answered", "lost", "closed"},
           Enter(r, s), Open(r), main # "exited",
           tries' \in [Requests -> 0..(Attempts - 1)],
           \A x \in Requests : x # r => tries'[x] = tries[x],
           s \in Busy => used[r] <= SpentBefore(r)',
           s = "lost" => body[r] + Budget > WriteTimeout,
           UNCHANGED <<main, exit, signalled, clocks>>
    PROVE  IInv'
  <1>0. /\ TypeOK /\ OnTime /\ Connections /\ Course
        /\ RunsHaveTheirGrace /\ CleanExitIsClean /\ StopsInTime /\ Losses
        /\ Destruction
    BY DEF IInv
  <1>1. /\ stage'[r] = s /\ spent'[r] = 0
        /\ \A x \in Requests : x # r => stage'[x] = stage[x] /\ spent'[x] = spent[x]
    BY <1>0 DEF Enter, TypeOK
  <1>2. /\ \A x \in Requests : x # r => (x \in conns' <=> x \in conns) /\ (x \in refused' <=> x \in refused)
        /\ r \in conns' <=> s \in OnDatabase /\ PoolOpen
        /\ r \in refused' <=> r \in refused \/ (s \in OnDatabase /\ ~PoolOpen)
        /\ conns' \subseteq Requests /\ refused' \subseteq Requests
    <2>1. conns \subseteq Requests /\ refused \subseteq Requests
      BY <1>0 DEF TypeOK
    <2>2. CASE s \in OnDatabase /\ PoolOpen
      <3>1. conns' = conns \cup {r} /\ refused' = refused
        BY <2>2 DEF Enter
      <3> QED
        BY <2>1, <2>2, <3>1
    <2>3. CASE ~(s \in OnDatabase /\ PoolOpen)
      <3>1. /\ conns' = conns \ {r}
            /\ s \in OnDatabase => refused' = refused \cup {r}
            /\ s \notin OnDatabase => refused' = refused
        BY <2>3 DEF Enter
      <3> QED
        BY <2>1, <2>3, <3>1
    <2> QED
      BY <2>2, <2>3
  <1>3. UNCHANGED <<main, exit, signalled, waited, head, body, used>> /\ PoolOpen' = PoolOpen
    BY DEF clocks, PoolOpen
  <1>e. /\ r \in conns /\ ~PoolOpen => destroying' = TRUE /\ since' = 0
        /\ ~(r \in conns /\ ~PoolOpen) => destroying' = destroying /\ since' = since
    BY DEF Enter
  <1>t. destroying' \in BOOLEAN /\ since' \in 0..Cap
    <2>1. destroying \in BOOLEAN /\ since \in 0..Cap /\ 0 \in 0..Cap
      BY <1>0, Constants DEF TypeOK
    <2> QED
      BY <1>e, <2>1
  <1>4. TypeOK'
    <2>1. stage' = [stage EXCEPT ![r] = s] /\ spent' = [spent EXCEPT ![r] = 0]
      BY DEF Enter
    <2>2. stage' \in [Requests -> Stages]
      BY <1>0, <2>1 DEF TypeOK, Busy, Stages
    <2>3. spent' \in [Requests -> 0..Cap]
      BY <1>0, <2>1, Constants DEF TypeOK
    <2> QED
      BY <1>0, <1>2, <1>3, <1>t, <2>2, <2>3 DEF TypeOK, Stages
  <1>5. OnTime'
    <2> SUFFICES ASSUME NEW x \in Requests
                 PROVE  /\ Open(x)' => spent'[x] <= Timeout(stage'[x])
                        /\ InFlight(x)' /\ stage'[x] # "body" => used'[x] <= SpentBefore(x)' + spent'[x]
                        /\ stage'[x] \in {"out", "header", "body"} => used'[x] = 0
                        /\ stage'[x] \in {"out", "header"} => body'[x] = 0
                        /\ stage'[x] = "body" => body'[x] <= spent'[x]
                        /\ stage'[x] = "out" => head'[x] = 0
                        /\ stage'[x] = "header" => head'[x] <= spent'[x]
                        /\ head'[x] <= HeaderTimeout
                        /\ used'[x] <= Budget
      BY DEF OnTime
    <2>1. CASE x # r
      <3>1. SpentBefore(x)' = SpentBefore(x)
        BY <1>1, <2>1 DEF SpentBefore
      <3> QED
        BY <1>0, <1>1, <1>3, <2>1, <3>1 DEF OnTime, InFlight, Open
    <2>2. CASE x = r
      <3>1. SpentBefore(r)' \in Nat
        <4>1. tries'[r] * InsertTimeout \in Nat
          BY InsertBudget, <1>4 DEF TypeOK
        <4> QED
          BY <4>1, Constants DEF SpentBefore
      <3>2. used[r] \in Nat /\ (s \in Busy => used[r] <= SpentBefore(r)' + 0)
        BY <1>0, <3>1, Constants DEF TypeOK
      <3>3. s \in Busy => 0 <= Timeout(s)
        BY Constants
      <3> QED
        BY <1>0, <1>1, <1>3, <2>2, <3>2, <3>3 DEF OnTime, InFlight, Open, Busy
    <2> QED
      BY <2>1, <2>2
  <1>6. Connections'
    BY <1>0, <1>1, <1>2, <1>3 DEF Connections, TypeOK
  <1>7. Course'
    <2>1. \A x \in Requests : Open(x)' => Open(x)
      BY <1>1 DEF Open, InFlight
    <2>5. \A x \in Requests : Open(x)' /\ InFlight(x) => InFlight(x)'
      BY <1>1 DEF Open, InFlight
    <2>6. \A x \in Requests : Open(x)' /\ x = r => InFlight(x)'
      BY <1>1 DEF Open, InFlight
    <2>7. main = "closing" => exit # "drained"
      BY <1>0 DEF Course
    <2>2. main # "exited" => \A x \in Requests : stage'[x] # "cut"
      BY <1>0, <1>1 DEF Course
    <2>3. main = "closing" => \A x \in conns' : x \in conns /\ x # r
      BY <1>0, <1>2 DEF PoolOpen, TypeOK
    <2>4. main = "closing" => \A x \in conns' : waited <= Grace + spent'[x]
      BY <1>0, <1>1, <2>3 DEF Course, TypeOK
    <2> QED
      BY <1>0, <1>2, <1>3, <2>1, <2>2, <2>4, <2>5, <2>6, <2>7 DEF Course
  <1>d. Destruction'
    <2>1. CASE r \in conns /\ ~PoolOpen
      <3>1. main = "closing" /\ stage[r] \in OnDatabase /\ InFlight(r)
        BY <1>0, <2>1 DEF Connections, PoolOpen, TypeOK, InFlight, Busy, OnDatabase
      <3>2. waited <= Grace + spent[r] /\ spent[r] <= Timeout(stage[r])
        BY <1>0, <2>1, <3>1 DEF Course, OnTime, Open
      <3>3. /\ Timeout(stage[r]) \in {CountTimeout, InsertTimeout, EventTimeout}
            /\ Timeout(stage[r]) \in Nat /\ spent[r] \in Nat /\ waited \in Nat
        BY <1>0, <3>1, Constants DEF TypeOK
      <3>4. waited <= Grace + Timeout(stage[r]) + 0
        BY <3>2, <3>3, Constants
      <3> QED
        BY <1>3, <1>e, <2>1, <3>1, <3>3, <3>4, Constants DEF Destruction
    <2>2. CASE ~(r \in conns /\ ~PoolOpen)
      BY <1>0, <1>3, <1>e, <2>2 DEF Destruction
    <2> QED
      BY <2>1, <2>2
  <1>8. RunsHaveTheirGrace'
    <2>1. exit # "listener" /\ ~PoolOpen => head[r] + body[r] + used[r] >= Grace
      <3>1. ~PoolOpen => main = "closing" /\ exit # "none"
        BY <1>0 DEF PoolOpen, TypeOK, Course
      <3>2. exit # "drained"
        BY <1>0 DEF CleanExitIsClean
      <3> QED
        BY <1>0, <3>1, <3>2 DEF Course, TypeOK
    <2>2. \A x \in Requests : stage'[x] # "cut"
      BY <1>0, <1>1 DEF Course
    <2>3. head[r] + body[r] + used[r] >= Grace => HeaderTimeout + body[r] + used[r] >= Grace
      <3>1. head[r] \in Nat /\ body[r] \in Nat /\ used[r] \in Nat /\ head[r] <= HeaderTimeout
        BY <1>0, Constants DEF TypeOK, OnTime
      <3> QED
        BY <3>1, GraceLessHeaders
    <2> QED
      BY <1>0, <1>2, <1>3, <2>1, <2>2, <2>3 DEF RunsHaveTheirGrace
  <1>9. CleanExitIsClean'
    BY <1>0, <1>3 DEF CleanExitIsClean
  <1>10. StopsInTime'
    BY <1>0, <1>3 DEF StopsInTime
  <1>11. Losses'
    BY <1>0, <1>1, <1>3 DEF Losses
  <1> QED
    BY <1>4, <1>5, <1>6, <1>7, <1>d, <1>8, <1>9, <1>10, <1>11 DEF IInv

(* What the calls of a run have taken when its current one ends.            *)
LEMMA UsedSoFar ==
    ASSUME IInv, NEW r \in Requests, InFlight(r)
    PROVE  /\ used[r] \in Nat /\ body[r] \in Nat /\ used[r] <= Budget
           /\ stage[r] = "body" => used[r] = 0
           /\ stage[r] = "count" => used[r] <= CountTimeout
           /\ stage[r] = "insert" => used[r] <= CountTimeout + tries[r] * InsertTimeout + InsertTimeout
           /\ stage[r] = "send" => used[r] <= CountTimeout + Attempts * InsertTimeout + SendTimeout
           /\ tries[r] \in 0..(Attempts - 1)
  <1>1. /\ used[r] \in Nat /\ body[r] \in Nat /\ spent[r] \in Nat
        /\ tries[r] \in 0..(Attempts - 1)
    BY Constants DEF IInv, TypeOK
  <1>2. tries[r] * InsertTimeout \in Nat
    BY <1>1, InsertBudget
  <1>3. /\ spent[r] <= Timeout(stage[r]) /\ used[r] <= Budget
        /\ stage[r] # "body" => used[r] <= SpentBefore(r) + spent[r]
        /\ stage[r] = "body" => used[r] = 0
    BY DEF IInv, OnTime, Open
  <1>4. CASE stage[r] = "insert"
    BY <1>1, <1>2, <1>3, <1>4, Constants DEF SpentBefore, Timeout
  <1>5. CASE stage[r] = "send"
    BY <1>1, <1>3, <1>5, Constants DEF SpentBefore, Timeout
  <1>6. CASE stage[r] = "count"
    BY <1>1, <1>3, <1>6, Constants DEF SpentBefore, Timeout
  <1>7. CASE stage[r] \notin {"insert", "send", "count"}
    BY <1>1, <1>3, <1>7
  <1> QED
    BY <1>4, <1>5, <1>6, <1>7

(* A run that ends keeps the invariant, its response received or lost.      *)
LEMMA FinishStep ==
    ASSUME IInv, NEW r \in Requests, Finish(r), InFlight(r), main # "exited",
           UNCHANGED <<main, exit, signalled, clocks>>
    PROVE  IInv'
  <1>1. PICK s \in {"answered", "lost"} :
            Enter(r, s) /\ (s = "lost" => ~(body[r] + used[r] <= WriteTimeout))
    BY DEF Finish
  <1>2. s = "lost" => body[r] + Budget > WriteTimeout
    BY <1>1, UsedSoFar, Constants
  <1>3. /\ tries' \in [Requests -> 0..(Attempts - 1)]
        /\ \A x \in Requests : x # r => tries'[x] = tries[x]
    BY DEF Finish, IInv, TypeOK
  <1>4. s \notin Busy
    BY DEF Busy
  <1> QED
    BY <1>1, <1>2, <1>3, <1>4, EnterStep DEF Open

(* A run whose next call starts keeps the invariant.                        *)
LEMMA CallStep ==
    ASSUME IInv, NEW r \in Requests, InFlight(r), main # "exited",
           UNCHANGED <<main, exit, signalled, tries, clocks>>,
           \/ stage[r] = "body" /\ Enter(r, "count")
           \/ stage[r] = "count" /\ Enter(r, "insert")
           \/ stage[r] = "insert" /\ Enter(r, "send")
           \/ stage[r] = "send" /\ Enter(r, "event")
    PROVE  IInv'
  <1>1. /\ tries' \in [Requests -> 0..(Attempts - 1)]
        /\ \A x \in Requests : x # r => tries'[x] = tries[x]
    BY DEF IInv, TypeOK
  <1>2. tries'[r] = tries[r] /\ tries[r] * InsertTimeout \in Nat
    BY UsedSoFar, InsertBudget
  <1>3. \A s : Enter(r, s) => stage'[r] = s
    BY DEF Enter, IInv, TypeOK
  <1>4. CASE stage[r] = "body" /\ Enter(r, "count")
    <2>1. used[r] <= SpentBefore(r)'
      BY <1>3, <1>4, UsedSoFar DEF SpentBefore
    <2> QED
      BY <1>1, <1>4, <2>1, EnterStep DEF Open
  <1>5. CASE stage[r] = "count" /\ Enter(r, "insert")
    <2>1. used[r] <= SpentBefore(r)'
      BY <1>2, <1>3, <1>5, UsedSoFar, Constants DEF SpentBefore
    <2> QED
      BY <1>1, <1>5, <2>1, EnterStep DEF Open
  <1>6. CASE stage[r] = "insert" /\ Enter(r, "send")
    <2>1. used[r] <= CountTimeout + Attempts * InsertTimeout
      BY <1>2, <1>6, UsedSoFar, InsertBudget, Constants
    <2>2. used[r] <= SpentBefore(r)'
      BY <1>3, <1>6, <2>1 DEF SpentBefore
    <2> QED
      BY <1>1, <1>6, <2>2, EnterStep DEF Open
  <1>7. CASE stage[r] = "send" /\ Enter(r, "event")
    <2>1. used[r] <= SpentBefore(r)'
      BY <1>3, <1>7, UsedSoFar DEF SpentBefore
    <2> QED
      BY <1>1, <1>7, <2>1, EnterStep DEF Open
  <1> QED
    BY <1>4, <1>5, <1>6, <1>7

(* Every step of a run keeps the invariant.                                 *)
LEMMA RunsStep ==
    ASSUME IInv, NEW r \in Requests, Runs(r)
    PROVE  IInv'
  <1>1. /\ main # "exited" /\ InFlight(r)
        /\ UNCHANGED <<main, exit, signalled, clocks>>
    BY DEF Runs, CallSucceeds, TurnedAway, Collides, CallFails, InFlight, Busy
  <1>2. CASE CallSucceeds(r)
    <2>1. CASE stage[r] = "event" /\ Finish(r)
      BY <1>1, <2>1, FinishStep
    <2>2. CASE ~(stage[r] = "event" /\ Finish(r))
      BY <1>1, <1>2, <2>2, CallStep DEF CallSucceeds
    <2> QED
      BY <2>1, <2>2
  <1>3. CASE TurnedAway(r)
    BY <1>1, <1>3, FinishStep DEF TurnedAway
  <1>4. CASE Collides(r)
    <2>1. CASE Retries(r)
      <3>1. Enter(r, "insert") /\ tries' = [tries EXCEPT ![r] = @ + 1] /\ stage[r] = "insert"
        BY <1>4, <2>1 DEF Collides
      <3>2. /\ tries[r] \in 0..(Attempts - 1)
            /\ used[r] \in Nat
            /\ used[r] <= CountTimeout + tries[r] * InsertTimeout + InsertTimeout
        BY <1>1, <3>1, UsedSoFar
      <3>3. tries \in [Requests -> 0..(Attempts - 1)]
        BY DEF IInv, TypeOK
      <3>4. tries[r] + 1 \in 0..(Attempts - 1)
        BY <2>1, <3>2, Constants DEF Retries
      <3>5. /\ tries' \in [Requests -> 0..(Attempts - 1)]
            /\ tries'[r] = tries[r] + 1
            /\ \A x \in Requests : x # r => tries'[x] = tries[x]
        BY <3>1, <3>3, <3>4
      <3>6. stage'[r] = "insert"
        BY <3>1 DEF Enter, IInv, TypeOK
      <3>7. used[r] <= CountTimeout + (tries[r] + 1) * InsertTimeout
        <4>1. /\ tries[r] * InsertTimeout \in Nat
              /\ (tries[r] + 1) * InsertTimeout = tries[r] * InsertTimeout + InsertTimeout
          BY <3>2, InsertBudget
        <4> QED
          BY <3>2, <4>1, Constants
      <3>8. used[r] <= SpentBefore(r)'
        BY <3>5, <3>6, <3>7 DEF SpentBefore
      <3> QED
        BY <1>1, <3>1, <3>5, <3>8, EnterStep DEF Open
    <2>2. CASE ~Retries(r)
      BY <1>1, <1>4, <2>2, FinishStep DEF Collides
    <2> QED
      BY <2>1, <2>2
  <1>5. CASE CallFails(r)
    <2>1. CASE stage[r] \in {"body", "insert", "event"} /\ Finish(r)
      BY <1>1, <2>1, FinishStep
    <2>2. CASE ~(stage[r] \in {"body", "insert", "event"} /\ Finish(r))
      BY <1>1, <1>5, <2>2, CallStep DEF CallFails
    <2> QED
      BY <2>1, <2>2
  <1> QED
    BY <1>2, <1>3, <1>4, <1>5 DEF Runs

(* A request or a connection that arrives has taken no time yet.            *)
LEMMA ArriveStep ==
    ASSUME IInv, NEW r \in Requests, NEW s \in {"header", "body"},
           main = "serving", stage[r] = "out", Enter(r, s),
           UNCHANGED <<main, exit, signalled, tries, clocks>>
    PROVE  IInv'
  <1>0. /\ TypeOK /\ OnTime /\ Connections /\ Course
        /\ RunsHaveTheirGrace /\ CleanExitIsClean /\ StopsInTime /\ Losses
        /\ Destruction
    BY DEF IInv
  <1>1. /\ UNCHANGED <<main, exit, signalled, waited, head, body, used, tries>>
        /\ stage' = [stage EXCEPT ![r] = s] /\ spent' = [spent EXCEPT ![r] = 0]
        /\ conns' = conns \ {r} /\ refused' = refused
        /\ destroying' = destroying /\ since' = since
    BY DEF Enter, OnDatabase, clocks, PoolOpen
  <1>2. /\ stage'[r] = s /\ spent'[r] = 0
        /\ \A x \in Requests : x # r => stage'[x] = stage[x] /\ spent'[x] = spent[x]
    BY <1>0, <1>1 DEF TypeOK
  <1>3. TypeOK'
    <2>1. stage' \in [Requests -> Stages]
      BY <1>0, <1>1 DEF TypeOK, Busy, Stages
    <2>2. spent' \in [Requests -> 0..Cap]
      BY <1>0, <1>1, Constants DEF TypeOK
    <2> QED
      BY <1>0, <1>1, <2>1, <2>2 DEF TypeOK, Stages
  <1>4. OnTime'
    <2> SUFFICES ASSUME NEW x \in Requests
                 PROVE  /\ Open(x)' => spent'[x] <= Timeout(stage'[x])
                        /\ InFlight(x)' /\ stage'[x] # "body" => used'[x] <= SpentBefore(x)' + spent'[x]
                        /\ stage'[x] \in {"out", "header", "body"} => used'[x] = 0
                        /\ stage'[x] \in {"out", "header"} => body'[x] = 0
                        /\ stage'[x] = "body" => body'[x] <= spent'[x]
                        /\ stage'[x] = "out" => head'[x] = 0
                        /\ stage'[x] = "header" => head'[x] <= spent'[x]
                        /\ head'[x] <= HeaderTimeout
                        /\ used'[x] <= Budget
      BY DEF OnTime
    <2>1. CASE x # r
      <3>1. SpentBefore(x)' = SpentBefore(x)
        BY <1>1, <1>2, <2>1 DEF SpentBefore
      <3> QED
        BY <1>0, <1>1, <1>2, <2>1, <3>1 DEF OnTime, InFlight, Open
    <2>2. CASE x = r
      <3>1. Timeout(s) \in Nat
        BY Constants DEF Busy
      <3>2. used[r] = 0 /\ body[r] = 0 /\ head[r] = 0 /\ used[r] <= Budget /\ head[r] <= HeaderTimeout
        BY <1>0 DEF OnTime
      <3>3. stage'[r] = "header" \/ stage'[r] = "body"
        BY <1>2
      <3> QED
        BY <1>1, <1>2, <2>2, <3>1, <3>2, <3>3 DEF InFlight, Busy, Open
    <2> QED
      BY <2>1, <2>2
  <1>5. Connections'
    BY <1>0, <1>1, <1>2 DEF Connections, PoolOpen, OnDatabase
  <1>6. Course'
    BY <1>0, <1>1, <1>2 DEF Course, PoolOpen
  <1>d. Destruction'
    BY <1>0, <1>1 DEF Destruction
  <1>7. RunsHaveTheirGrace' /\ CleanExitIsClean' /\ StopsInTime' /\ Losses'
    <2>1. exit = "none" /\ refused = {} /\ \A x \in Requests : stage'[x] # "cut"
      BY <1>0, <1>1, <1>2 DEF Course, Connections, PoolOpen
    <2>2. RunsHaveTheirGrace' /\ CleanExitIsClean'
      BY <1>1, <2>1 DEF RunsHaveTheirGrace, CleanExitIsClean
    <2>3. StopsInTime' /\ Losses'
      BY <1>0, <1>1, <1>2 DEF StopsInTime, Losses
    <2> QED
      BY <2>2, <2>3
  <1> QED
    BY <1>3, <1>4, <1>5, <1>6, <1>d, <1>7 DEF IInv

(* Headers keep the deadline their connection has had since the accept.     *)
LEMMA HeadersStep ==
    ASSUME IInv, NEW r \in Requests, HeadersArrive(r)
    PROVE  IInv'
  <1>0. /\ TypeOK /\ OnTime /\ Connections /\ Course
        /\ RunsHaveTheirGrace /\ CleanExitIsClean /\ StopsInTime /\ Losses
        /\ Destruction
    BY DEF IInv
  <1>1. /\ main # "exited" /\ stage[r] = "header" /\ stage' = [stage EXCEPT ![r] = "body"]
        /\ UNCHANGED <<main, exit, signalled, waited, head, body, used, tries, spent>>
        /\ UNCHANGED <<conns, refused, destroying, since>>
    BY DEF HeadersArrive, clocks, pool
  <1>2. /\ stage'[r] = "body"
        /\ \A x \in Requests : x # r => stage'[x] = stage[x]
    BY <1>0, <1>1 DEF TypeOK
  <1>3. TypeOK'
    <2>1. stage' \in [Requests -> Stages]
      BY <1>0, <1>1 DEF TypeOK, Busy, Stages
    <2> QED
      BY <1>0, <1>1, <2>1 DEF TypeOK, Stages
  <1>4. OnTime'
    <2> SUFFICES ASSUME NEW x \in Requests
                 PROVE  /\ Open(x)' => spent'[x] <= Timeout(stage'[x])
                        /\ InFlight(x)' /\ stage'[x] # "body" => used'[x] <= SpentBefore(x)' + spent'[x]
                        /\ stage'[x] \in {"out", "header", "body"} => used'[x] = 0
                        /\ stage'[x] \in {"out", "header"} => body'[x] = 0
                        /\ stage'[x] = "body" => body'[x] <= spent'[x]
                        /\ stage'[x] = "out" => head'[x] = 0
                        /\ stage'[x] = "header" => head'[x] <= spent'[x]
                        /\ head'[x] <= HeaderTimeout
                        /\ used'[x] <= Budget
      BY DEF OnTime
    <2>1. CASE x # r
      <3>1. SpentBefore(x)' = SpentBefore(x)
        BY <1>1, <1>2, <2>1 DEF SpentBefore
      <3> QED
        BY <1>0, <1>1, <1>2, <2>1, <3>1 DEF OnTime, InFlight, Open
    <2>2. CASE x = r
      <3>1. /\ spent[r] <= HeaderTimeout /\ used[r] = 0 /\ body[r] = 0
            /\ used[r] <= Budget /\ head[r] <= HeaderTimeout
        BY <1>0, <1>1, Constants DEF OnTime, Open
      <3>2. spent[r] \in Nat /\ spent[r] <= Timeout("body")
        BY <1>0, <3>1, Constants DEF TypeOK
      <3> QED
        BY <1>1, <1>2, <2>2, <3>1, <3>2
    <2> QED
      BY <2>1, <2>2
  <1>5. Connections' /\ Destruction'
    <2>1. Connections'
      BY <1>0, <1>1, <1>2 DEF Connections, PoolOpen, OnDatabase, TypeOK
    <2> QED
      BY <1>0, <1>1, <2>1 DEF Destruction
  <1>6. Course'
    <2>1. \A x \in Requests : (Open(x)' => Open(x)) /\ (Open(x)' /\ InFlight(x) => InFlight(x)')
      BY <1>1, <1>2 DEF Open, InFlight, Busy
    <2>2. Open(r) /\ ~InFlight(r)
      BY <1>1 DEF Open, InFlight, Busy
    <2> QED
      BY <1>0, <1>1, <1>2, <2>1, <2>2 DEF Course, PoolOpen
  <1>7. RunsHaveTheirGrace' /\ CleanExitIsClean' /\ StopsInTime' /\ Losses'
    <2>1. RunsHaveTheirGrace'
      BY <1>0, <1>1, <1>2 DEF RunsHaveTheirGrace
    <2>2. CleanExitIsClean'
      <3>1. exit # "drained"
        BY <1>0, <1>1 DEF CleanExitIsClean, Open
      <3> QED
        BY <1>1, <3>1 DEF CleanExitIsClean
    <2>3. StopsInTime' /\ Losses'
      BY <1>0, <1>1, <1>2 DEF StopsInTime, Losses
    <2> QED
      BY <2>1, <2>2, <2>3
  <1> QED
    BY <1>3, <1>4, <1>5, <1>6, <1>7 DEF IInv

(* Every step of a connection keeps the invariant.                          *)
LEMMA ConnectionStep ==
    ASSUME IInv, NEW r \in Requests, Connection(r)
    PROVE  IInv'
  <1>1. CASE Arrive(r)
    BY <1>1, ArriveStep DEF Arrive
  <1>2. CASE Connect(r)
    BY <1>2, ArriveStep DEF Connect
  <1>3. CASE HeadersArrive(r)
    BY <1>3, HeadersStep
  <1>4. CASE HeadersFail(r)
    <2>1. /\ tries' \in [Requests -> 0..(Attempts - 1)]
          /\ \A x \in Requests : x # r => tries'[x] = tries[x]
      BY <1>4 DEF HeadersFail, IInv, TypeOK
    <2>2. "closed" \notin Busy
      BY DEF Busy
    <2> QED
      BY <1>4, <2>1, <2>2, EnterStep DEF HeadersFail, Open
  <1> QED
    BY <1>1, <1>2, <1>3, <1>4 DEF Connection

-----------------------------------------------------------------------------
(* The steps of main. *)

(* A step that moves main alone keeps what is said of the runs.             *)
LEMMA MainStep ==
    ASSUME IInv, main # "exited",
           UNCHANGED <<clocks, stage, tries, spent, conns, refused>>,
           signalled' \in BOOLEAN,
           \/ main' = main /\ exit' = exit
           \/ main = "serving" /\ main' = "draining" /\ exit' = "none"
           \/ main = "serving" /\ main' = "closing" /\ exit' = "listener"
           \/ /\ main = "draining" /\ main' = "closing" /\ exit' = "drained"
              /\ \A r \in Requests : ~Open(r)
           \/ main = "draining" /\ main' = "closing" /\ exit' = "grace" /\ waited >= Grace,
           destroying' \in BOOLEAN,
           \/ (destroying' => destroying) /\ since' = since
           \/ main \in {"serving", "draining"} /\ main' = "closing" /\ since' = 0
    PROVE  IInv'
  <1>0. /\ TypeOK /\ OnTime /\ Connections /\ Course
        /\ RunsHaveTheirGrace /\ CleanExitIsClean /\ StopsInTime /\ Losses
        /\ Destruction
    BY DEF IInv
  <1>1. UNCHANGED <<waited, head, body, used, stage, tries, spent, conns, refused>>
    BY DEF clocks
  <1>2. TypeOK'
    <2>1. since' \in 0..Cap
      BY <1>0, Constants DEF TypeOK
    <2> QED
      BY <1>0, <1>1, <2>1 DEF TypeOK
  <1>3. OnTime' /\ Losses'
    BY <1>0, <1>1 DEF OnTime, SpentBefore, InFlight, Open, Losses
  <1>4. /\ PoolOpen' => PoolOpen
        /\ waited' = waited /\ waited \in Nat
    BY <1>0, <1>1, Constants DEF PoolOpen, TypeOK
  <1>5. Connections'
    BY <1>0, <1>1, <1>4 DEF Connections
  <1>6. Course'
    <2>1. \A r \in Requests : spent[r] \in Nat /\ head[r] \in Nat /\ body[r] \in Nat /\ used[r] \in Nat
      BY <1>0, Constants DEF TypeOK
    <2>2. (exit = "none" <=> PoolOpen)'
      BY <1>0 DEF Course, PoolOpen
    <2>3. (main = "serving" => waited = 0)'
      BY <1>0, <1>1 DEF Course
    <2>4. (main = "draining" => \A r \in Requests : Open(r) => head[r] + body[r] + used[r] >= waited)'
      BY <1>0, <1>1, <2>1 DEF Course, Open, InFlight
    <2>5. (main = "closing" => \A r \in conns : waited <= Grace + spent[r])'
      <3>1. CASE main' = main
        BY <1>0, <1>1, <3>1 DEF Course
      <3>2. CASE main \in {"serving", "draining"}
        <4>1. waited <= Grace
          BY <1>0, <3>2, Constants DEF Course, StopsInTime
        <4> QED
          BY <1>0, <1>1, <1>4, <2>1, <4>1, Constants DEF TypeOK
      <3> QED
        BY <3>1, <3>2
    <2>6. (main = "closing" /\ exit = "grace" => \A r \in Requests :
               Open(r) => InFlight(r) /\ head[r] + body[r] + used[r] >= Grace)'
      <3>1. CASE main' = main
        BY <1>0, <1>1, <3>1 DEF Course, Open, InFlight
      <3>2. CASE main = "draining" /\ waited >= Grace
        <4>1. \A r \in Requests : Open(r) => head[r] + body[r] + used[r] >= Grace
          BY <1>0, <1>4, <2>1, <3>2, Constants DEF Course
        <4>2. \A r \in Requests : stage[r] = "header" => head[r] + body[r] + used[r] < Grace
          BY <1>0, <2>1, Constants DEF OnTime
        <4>3. \A r \in Requests : Open(r) => InFlight(r)
          BY <2>1, <4>1, <4>2, Constants DEF Open
        <4> QED
          BY <1>1, <4>1, <4>3 DEF Open, InFlight
      <3> QED
        BY <3>1, <3>2
    <2>8. (main = "closing" /\ exit = "drained" => \A r \in Requests : ~Open(r))'
      <3>1. CASE main' = main
        BY <1>0, <1>1, <3>1 DEF Course, Open, InFlight
      <3>2. CASE main # main'
        BY <1>1, <3>2 DEF Open, InFlight
      <3> QED
        BY <3>1, <3>2
    <2>7. main' # "exited" /\ (\A r \in Requests : stage[r] # "cut")'
      BY <1>0, <1>1 DEF Course
    <2> QED
      BY <2>2, <2>3, <2>4, <2>5, <2>6, <2>7, <2>8 DEF Course
  <1>7. RunsHaveTheirGrace' /\ CleanExitIsClean'
    <2>1. \A r \in Requests : stage[r] # "cut"
      BY <1>0 DEF Course
    <2>2. CASE main' = main
      BY <1>0, <1>1, <2>2 DEF RunsHaveTheirGrace, CleanExitIsClean, Open, InFlight
    <2>3. CASE main \in {"serving", "draining"}
      <3>1. refused = {}
        BY <1>0, <2>3 DEF Connections, PoolOpen
      <3>2. exit' = "drained" => \A r \in Requests : ~Open(r)
        BY <1>0, <2>3 DEF CleanExitIsClean
      <3> QED
        BY <1>1, <2>1, <3>1, <3>2 DEF RunsHaveTheirGrace, CleanExitIsClean, Open, InFlight
    <2> QED
      BY <2>2, <2>3
  <1>8. StopsInTime'
    <2>1. (main = "draining" => waited <= Grace)'
      BY <1>0, <1>1, Constants DEF StopsInTime, Course
    <2> QED
      BY <1>0, <1>1, <2>1 DEF StopsInTime
  <1>9. Destruction'
    <2>1. CASE (destroying' => destroying) /\ since' = since
      BY <1>0, <1>1, <2>1 DEF Destruction
    <2>2. CASE main \in {"serving", "draining"} /\ main' = "closing" /\ since' = 0
      <3>1. waited <= Grace
        BY <1>0, <2>2, Constants DEF Course, StopsInTime
      <3>2. waited <= Grace + CountTimeout + 0 /\ 0 <= CloseTimeout
        BY <1>4, <3>1, Constants
      <3> QED
        BY <1>1, <2>2, <3>2 DEF Destruction
    <2> QED
      BY <2>1, <2>2
  <1> QED
    BY <1>2, <1>3, <1>5, <1>6, <1>7, <1>8, <1>9 DEF IInv

(* The exit cuts off the runs it finds, which have had the grace.           *)
LEMMA ExitStep ==
    ASSUME IInv, Exit
    PROVE  IInv'
  <1>0. /\ TypeOK /\ OnTime /\ Connections /\ Course
        /\ RunsHaveTheirGrace /\ CleanExitIsClean /\ StopsInTime /\ Losses
        /\ Destruction
    BY DEF IInv
  <1>1. /\ main = "closing" /\ main' = "exited" /\ conns = {} /\ ~destroying
        /\ UNCHANGED <<exit, signalled, waited, head, body, used, tries, spent>>
        /\ UNCHANGED <<conns, refused, destroying, since>>
    BY DEF Exit, Leave, clocks, pool
  <1>2. /\ stage' = [r \in Requests |-> IF InFlight(r) THEN "cut"
                                       ELSE IF Open(r) THEN "closed" ELSE stage[r]]
        /\ \A r \in Requests : /\ InFlight(r) => stage'[r] = "cut"
                               /\ ~InFlight(r) /\ Open(r) => stage'[r] = "closed"
                               /\ ~InFlight(r) /\ ~Open(r) => stage'[r] = stage[r]
    BY DEF Exit
  <1>3. \A r \in Requests : stage'[r] \notin Busy /\ stage'[r] # "header"
    BY <1>2 DEF InFlight, Busy, Open
  <1>4. TypeOK'
    <2>1. stage' \in [Requests -> Stages]
      BY <1>0, <1>2 DEF TypeOK, Stages
    <2> QED
      BY <1>0, <1>1, <2>1 DEF TypeOK, Stages
  <1>5. OnTime'
    <2>1. \A r \in Requests : stage'[r] = "out" => stage[r] = "out"
      BY <1>2
    <2>2. \A r \in Requests : ~Open(r)' /\ ~InFlight(r)' /\ stage'[r] # "body"
      BY <1>3 DEF Open, InFlight, Busy
    <2> QED
      BY <1>0, <1>1, <1>3, <2>1, <2>2 DEF OnTime
  <1>6. Connections' /\ Course'
    BY <1>0, <1>1, <1>3 DEF Connections, Course, PoolOpen, Open, InFlight, OnDatabase
  <1>7. RunsHaveTheirGrace'
    <2>1. exit # "listener" => \A r \in Requests : InFlight(r) =>
             head[r] + body[r] + used[r] >= Grace /\ HeaderTimeout + body[r] + used[r] >= Grace
      <3>1. exit # "none"
        BY <1>0, <1>1 DEF Course, PoolOpen
      <3>2. exit # "listener" => \A r \in Requests :
               InFlight(r) => head[r] + body[r] + used[r] >= Grace
        BY <1>0, <1>1, <3>1 DEF Course, TypeOK, Open
      <3>3. \A r \in Requests : /\ head[r] \in Nat /\ body[r] \in Nat /\ used[r] \in Nat
                               /\ head[r] <= HeaderTimeout
        <4>1. \A r \in Requests : head[r] \in Nat /\ body[r] \in Nat /\ used[r] \in Nat
          BY <1>0, Constants DEF TypeOK
        <4>2. \A r \in Requests : head[r] <= HeaderTimeout
          BY <1>0 DEF OnTime
        <4> QED
          BY <4>1, <4>2
      <3> QED
        BY <3>2, <3>3, GraceLessHeaders
    <2>2. \A r \in Requests : stage'[r] = "cut" => InFlight(r)
      BY <1>0, <1>1, <1>2 DEF Course
    <2> QED
      BY <1>0, <1>1, <2>1, <2>2 DEF RunsHaveTheirGrace
  <1>8. CleanExitIsClean' /\ StopsInTime' /\ Losses'
    <2>1. CleanExitIsClean'
      <3>1. exit = "drained" => \A r \in Requests : stage'[r] = stage[r]
        BY <1>0, <1>2 DEF CleanExitIsClean, Open
      <3> QED
        BY <1>0, <1>1, <3>1 DEF CleanExitIsClean, Open, InFlight
    <2>2. StopsInTime' /\ Losses'
      BY <1>0, <1>1, <1>2 DEF StopsInTime, Losses
    <2> QED
      BY <2>1, <2>2
  <1>9. Destruction'
    BY <1>1 DEF Destruction
  <1> QED
    BY <1>4, <1>5, <1>6, <1>7, <1>8, <1>9 DEF IInv

-----------------------------------------------------------------------------
(* Time. *)

(* A tick finds every deadline ahead, so no stopwatch passes one.           *)
LEMMA TickStep ==
    ASSUME IInv, Tick
    PROVE  IInv'
  <1>0. /\ TypeOK /\ OnTime /\ Connections /\ Course
        /\ RunsHaveTheirGrace /\ CleanExitIsClean /\ StopsInTime /\ Losses
        /\ Destruction
    BY DEF IInv
  <1>1. /\ main # "exited" /\ ~MainDue /\ \A r \in Requests : ~Overdue(r)
        /\ UNCHANGED <<main, exit, signalled, stage, tries, conns, refused, destroying>>
    BY DEF Tick
  <1>2. \A n \in 0..Cap : /\ Later(n) \in 0..Cap /\ Later(n) >= n
                          /\ Later(n) <= n + 1
                          /\ n < Cap => Later(n) = n + 1
    BY Constants DEF Later
  <1>3. \A r \in Requests :
           /\ spent[r] \in 0..Cap /\ head[r] \in 0..Cap /\ body[r] \in 0..Cap /\ used[r] \in 0..Cap
           /\ tries[r] \in 0..(Attempts - 1)
    BY <1>0 DEF TypeOK
  <1>4. \A r \in Requests :
           /\ Open(r) => spent[r] < Timeout(stage[r]) /\ spent'[r] = spent[r] + 1
           /\ ~Open(r) => spent'[r] = spent[r]
    <2> SUFFICES ASSUME NEW r \in Requests
                 PROVE  /\ Open(r) => spent[r] < Timeout(stage[r]) /\ spent'[r] = spent[r] + 1
                        /\ ~Open(r) => spent'[r] = spent[r]
      OBVIOUS
    <2>1. Open(r) => spent[r] < Timeout(stage[r]) /\ Timeout(stage[r]) <= Cap /\ Timeout(stage[r]) \in Nat
      BY <1>1, <1>3, Constants DEF Overdue, Open, InFlight
    <2>2. spent'[r] = IF Open(r) THEN Later(spent[r]) ELSE spent[r]
      BY DEF Tick
    <2> QED
      BY <1>2, <1>3, <2>1, <2>2, Constants
  <1>5. \A r \in Requests :
           /\ stage[r] = "body" => body'[r] = body[r] + 1 /\ used'[r] = used[r]
           /\ stage[r] # "body" => body'[r] = body[r]
           /\ ~InFlight(r) => used'[r] = used[r]
           /\ InFlight(r) /\ stage[r] # "body" => used'[r] = used[r] + 1
    <2> SUFFICES ASSUME NEW r \in Requests
                 PROVE  /\ stage[r] = "body" => body'[r] = body[r] + 1 /\ used'[r] = used[r]
                        /\ stage[r] # "body" => body'[r] = body[r]
                        /\ ~InFlight(r) => used'[r] = used[r]
                        /\ InFlight(r) /\ stage[r] # "body" => used'[r] = used[r] + 1
      OBVIOUS
    <2>1. /\ body'[r] = IF stage[r] = "body" THEN Later(body[r]) ELSE body[r]
          /\ used'[r] = IF InFlight(r) /\ stage[r] # "body" THEN Later(used[r]) ELSE used[r]
      BY DEF Tick
    <2>2. stage[r] = "body" => body[r] < Cap
      <3>1. stage[r] = "body" => Open(r) /\ body[r] <= spent[r]
        BY <1>0 DEF OnTime, Open, InFlight, Busy
      <3>2. Open(r) => spent[r] < Cap
        BY <1>3, <1>4, Constants DEF Open, InFlight
      <3> QED
        BY <1>3, <3>1, <3>2, Constants
    <2>3. InFlight(r) /\ stage[r] # "body" => used[r] < Budget
      <3>1. SUFFICES ASSUME InFlight(r), stage[r] # "body" PROVE used[r] < Budget
        OBVIOUS
      <3>2. used[r] <= SpentBefore(r) + spent[r] /\ spent[r] < Timeout(stage[r])
        BY <1>0, <1>4, <3>1 DEF OnTime, Open
      <3>3. /\ tries[r] * InsertTimeout \in Nat
            /\ tries[r] * InsertTimeout + InsertTimeout <= Attempts * InsertTimeout
        BY <1>3, InsertBudget
      <3>4. CASE stage[r] = "count"
        BY <1>3, <3>2, <3>4, Constants DEF SpentBefore, Timeout
      <3>5. CASE stage[r] = "insert"
        BY <1>3, <3>2, <3>3, <3>5, Constants DEF SpentBefore, Timeout
      <3>6. CASE stage[r] = "send"
        BY <1>3, <3>2, <3>6, Constants DEF SpentBefore, Timeout
      <3>7. CASE stage[r] = "event"
        BY <1>3, <3>2, <3>7, Constants DEF SpentBefore, Timeout
      <3> QED
        BY <3>1, <3>4, <3>5, <3>6, <3>7 DEF InFlight, Busy
    <2>4. used[r] < Budget => used[r] < Cap
      BY <1>3, Constants
    <2> QED
      BY <1>2, <1>3, <2>1, <2>2, <2>3, <2>4
  <1>h. \A r \in Requests :
           /\ stage[r] = "header" => head'[r] = head[r] + 1 /\ head'[r] <= spent'[r]
                                     /\ head'[r] <= HeaderTimeout
           /\ stage[r] # "header" => head'[r] = head[r]
    <2> SUFFICES ASSUME NEW r \in Requests
                 PROVE  /\ stage[r] = "header" => head'[r] = head[r] + 1 /\ head'[r] <= spent'[r]
                                                  /\ head'[r] <= HeaderTimeout
                        /\ stage[r] # "header" => head'[r] = head[r]
      OBVIOUS
    <2>1. head'[r] = IF stage[r] = "header" THEN Later(head[r]) ELSE head[r]
      BY DEF Tick
    <2>2. ASSUME stage[r] = "header"
          PROVE  head[r] <= spent[r] /\ spent[r] < HeaderTimeout /\ spent'[r] = spent[r] + 1
      BY <1>0, <1>4, <2>2, Constants DEF OnTime, Open
    <2>3. HeaderTimeout \in Nat /\ HeaderTimeout <= Cap
      BY Constants
    <2>4. CASE stage[r] = "header"
      <3>1. head[r] < Cap
        BY <1>3, <2>2, <2>3, <2>4, Constants
      <3> QED
        BY <1>2, <1>3, <2>1, <2>2, <2>3, <2>4, <3>1
    <2> QED
      BY <2>1, <2>4
  <1>s. /\ since' \in 0..Cap
        /\ destroying => since < CloseTimeout /\ since' = since + 1
    <2>1. since \in 0..Cap /\ CloseTimeout <= Cap
      BY <1>0, Constants DEF TypeOK
    <2>2. since' = IF destroying THEN Later(since) ELSE since
      BY DEF Tick
    <2>3. destroying => since < CloseTimeout
      BY DEF Tick
    <2> QED
      BY <1>2, <2>1, <2>2, <2>3, Constants
  <1>6. /\ waited \in 0..Cap /\ waited' \in 0..Cap
        /\ main = "serving" => waited' = waited
        /\ main # "serving" => waited' <= waited + 1
    BY <1>0, <1>2 DEF Tick, TypeOK
  <1>7. TypeOK'
    <2>1. /\ spent' \in [Requests -> 0..Cap] /\ head' \in [Requests -> 0..Cap] /\ body' \in [Requests -> 0..Cap]
          /\ used' \in [Requests -> 0..Cap]
      BY <1>2, <1>3 DEF Tick
    <2> QED
      BY <1>0, <1>1, <1>6, <1>s, <2>1 DEF TypeOK
  <1>8. OnTime'
    <2> SUFFICES ASSUME NEW r \in Requests
                 PROVE  /\ Open(r)' => spent'[r] <= Timeout(stage'[r])
                        /\ InFlight(r)' /\ stage'[r] # "body" => used'[r] <= SpentBefore(r)' + spent'[r]
                        /\ stage'[r] \in {"out", "header", "body"} => used'[r] = 0
                        /\ stage'[r] \in {"out", "header"} => body'[r] = 0
                        /\ stage'[r] = "body" => body'[r] <= spent'[r]
                        /\ stage'[r] = "out" => head'[r] = 0
                        /\ stage'[r] = "header" => head'[r] <= spent'[r]
                        /\ head'[r] <= HeaderTimeout
                        /\ used'[r] <= Budget
      BY DEF OnTime
    <2>1. stage'[r] = stage[r] /\ SpentBefore(r)' = SpentBefore(r)
          /\ (InFlight(r)' <=> InFlight(r)) /\ (Open(r)' <=> Open(r))
      BY <1>1 DEF SpentBefore, InFlight, Open
    <2>h. head'[r] <= HeaderTimeout
      BY <1>0, <1>h DEF OnTime
    <2>2. CASE ~Open(r)
      BY <1>0, <1>4, <1>5, <1>h, <2>1, <2>2, <2>h DEF OnTime, Open, InFlight, Busy
    <2>5. CASE stage[r] = "header"
      <3>1. Open(r) /\ ~InFlight(r) /\ used'[r] = used[r] /\ body'[r] = body[r]
        BY <1>5, <2>5 DEF Open, InFlight, Busy
      <3>2. spent'[r] <= Timeout(stage[r])
        BY <1>3, <1>4, <2>5, <3>1, Constants
      <3>3. used[r] = 0 /\ body[r] = 0 /\ used[r] <= Budget
        BY <1>0, <2>5 DEF OnTime
      <3> QED
        BY <1>h, <2>1, <2>5, <2>h, <3>1, <3>2, <3>3
    <2>3. CASE stage[r] = "body"
      <3>1. Open(r) /\ spent'[r] <= Timeout(stage[r])
        BY <1>3, <1>4, <2>3, Constants DEF Open, InFlight, Busy
      <3> QED
        BY <1>0, <1>3, <1>4, <1>5, <2>1, <2>3, <2>h, <3>1 DEF OnTime, Open, InFlight, Busy
    <2>4. CASE InFlight(r) /\ stage[r] # "body"
      <3>1. SpentBefore(r) \in Nat
        BY <1>3, InsertBudget, Constants DEF SpentBefore
      <3>2. used'[r] <= SpentBefore(r) + spent'[r]
        BY <1>0, <1>3, <1>4, <1>5, <2>4, <3>1 DEF OnTime, Open
      <3>3. spent'[r] <= Timeout(stage[r])
        BY <1>3, <1>4, <2>4, Constants DEF InFlight, Open
      <3>4. /\ tries[r] * InsertTimeout \in Nat
            /\ tries[r] * InsertTimeout + InsertTimeout <= Attempts * InsertTimeout
        BY <1>3, InsertBudget
      <3>5. SpentBefore(r) + Timeout(stage[r]) <= Budget
        <4>1. CASE stage[r] = "count"
          BY <4>1, Constants DEF SpentBefore, Timeout
        <4>2. CASE stage[r] = "insert"
          BY <3>4, <4>2, Constants DEF SpentBefore, Timeout
        <4>3. CASE stage[r] = "send"
          BY <4>3, Constants DEF SpentBefore, Timeout
        <4>4. CASE stage[r] = "event"
          BY <4>4, Constants DEF SpentBefore, Timeout
        <4> QED
          BY <2>4, <4>1, <4>2, <4>3, <4>4 DEF InFlight, Busy
      <3>6. used'[r] \in Nat /\ spent'[r] \in Nat
        BY <1>7, Constants DEF TypeOK
      <3>7. used'[r] <= Budget
        BY <2>4, <3>1, <3>2, <3>3, <3>5, <3>6, Constants DEF InFlight
      <3> QED
        BY <2>1, <2>4, <2>h, <3>2, <3>3, <3>7 DEF InFlight, Busy, Open
    <2> QED
      BY <2>2, <2>3, <2>4, <2>5 DEF Open
  <1>9. Connections' /\ PoolOpen' = PoolOpen
    BY <1>0, <1>1 DEF Connections, PoolOpen
  <1>10. main = "draining" => waited < Grace
    BY <1>1, <1>6, Constants DEF MainDue
  <1>11. \A r \in Requests : Open(r) =>
            head'[r] + body'[r] + used'[r] = head[r] + body[r] + used[r] + 1
    <2>1. \A r \in Requests : stage[r] = "header" => ~InFlight(r) /\ stage[r] # "body"
      BY DEF InFlight, Busy
    <2>2. \A r \in Requests : stage[r] = "body" => InFlight(r)
      BY DEF InFlight, Busy
    <2> QED
      BY <1>3, <1>5, <1>h, <2>1, <2>2 DEF Open
  <1>12. \A r \in Requests : head'[r] >= head[r] /\ body'[r] >= body[r] /\ used'[r] >= used[r]
    BY <1>3, <1>5, <1>h
  <1>13. \A r \in conns : r \in Requests /\ InFlight(r) /\ Open(r)
    BY <1>0 DEF Connections, Open, InFlight, Busy, OnDatabase, TypeOK
  <1>14. Course'
    <2>1. main = "draining" =>
             \A r \in Requests : Open(r) => head'[r] + body'[r] + used'[r] >= waited'
      BY <1>0, <1>3, <1>6, <1>11 DEF Course
    <2>2. main = "closing" => \A r \in conns : waited' <= Grace + spent'[r]
      BY <1>0, <1>3, <1>4, <1>6, <1>13, Constants DEF Course
    <2>3. main = "closing" /\ exit = "grace" => \A r \in Requests :
               Open(r) => InFlight(r) /\ head'[r] + body'[r] + used'[r] >= Grace
      BY <1>0, <1>3, <1>11, Constants DEF Course
    <2>4. \A r \in Requests : (Open(r)' <=> Open(r)) /\ (InFlight(r)' <=> InFlight(r))
      BY <1>1 DEF Open, InFlight
    <2> QED
      BY <1>0, <1>1, <1>6, <1>9, <2>1, <2>2, <2>3, <2>4 DEF Course
  <1>d. Destruction'
    <2>1. SUFFICES ASSUME destroying'
                   PROVE  /\ main' = "closing" /\ since' <= CloseTimeout
                          /\ \E t \in {CountTimeout, InsertTimeout, EventTimeout} :
                               waited' <= Grace + t + since'
      BY DEF Destruction
    <2>2. destroying /\ main = "closing" /\ main' = "closing"
      BY <1>0, <1>1, <2>1 DEF Destruction
    <2>3. PICK t \in {CountTimeout, InsertTimeout, EventTimeout} : waited <= Grace + t + since
      BY <1>0, <2>2 DEF Destruction
    <2>4. since' = since + 1 /\ since' <= CloseTimeout /\ since \in Nat
      BY <1>0, <1>s, <2>2, Constants DEF TypeOK
    <2>5. waited' <= Grace + t + since' /\ t \in Nat
      BY <1>6, <2>2, <2>3, <2>4, Constants
    <2> QED
      BY <2>2, <2>4, <2>5
  <1>15. RunsHaveTheirGrace'
    <2>1. \A r \in Requests : /\ head[r] \in Nat /\ body[r] \in Nat /\ used[r] \in Nat
                             /\ head'[r] \in Nat /\ body'[r] \in Nat /\ used'[r] \in Nat
      BY <1>3, <1>7, Constants DEF TypeOK
    <2>2. \A r \in Requests :
             /\ head[r] + body[r] + used[r] >= Grace => head'[r] + body'[r] + used'[r] >= Grace
             /\ HeaderTimeout + body[r] + used[r] >= Grace =>
                  HeaderTimeout + body'[r] + used'[r] >= Grace
      BY <1>12, <2>1, Constants
    <2> QED
      BY <1>0, <1>1, <2>2 DEF RunsHaveTheirGrace
  <1>16. CleanExitIsClean'
    BY <1>0, <1>1 DEF CleanExitIsClean, Open, InFlight
  <1>17. StopsInTime'
    <2>1. main = "draining" => waited' <= Grace
      BY <1>6, <1>10, Constants
    <2>2. \E t \in {CountTimeout, InsertTimeout, EventTimeout} : waited' <= Grace + t + CloseTimeout
      <3>1. CASE main = "serving"
        BY <1>0, <1>6, <3>1 DEF StopsInTime
      <3>2. CASE main = "draining"
        <4>1. waited' <= Grace + CountTimeout + CloseTimeout
          BY <2>1, <3>2, <1>6, Constants
        <4> QED
          BY <4>1
      <3>3. CASE main = "closing" /\ conns # {}
        <4>1. PICK r \in conns : TRUE
          BY <3>3
        <4>2. stage[r] \in OnDatabase /\ r \in Requests /\ Open(r)
          BY <1>0, <1>13, <4>1 DEF Connections
        <4>3. waited <= Grace + spent[r] /\ spent[r] < Timeout(stage[r])
          BY <1>0, <1>4, <3>3, <4>1, <4>2 DEF Course
        <4>4. Timeout(stage[r]) \in {CountTimeout, InsertTimeout, EventTimeout}
          BY <4>2, Constants
        <4>5. waited' <= Grace + Timeout(stage[r]) + CloseTimeout
          BY <1>3, <1>6, <3>3, <4>2, <4>3, <4>4, Constants
        <4> QED
          BY <4>4, <4>5
      <3>4. CASE main = "closing" /\ destroying
        <4>1. PICK t \in {CountTimeout, InsertTimeout, EventTimeout} : waited <= Grace + t + since
          BY <1>0, <3>4 DEF Destruction
        <4>2. t \in Nat /\ since \in Nat /\ since < CloseTimeout
          BY <1>0, <1>s, <3>4, Constants DEF TypeOK
        <4>3. waited' <= Grace + t + CloseTimeout
          BY <1>6, <3>4, <4>1, <4>2, Constants
        <4> QED
          BY <4>3
      <3>5. main = "closing" => conns # {} \/ destroying
        BY <1>1 DEF MainDue
      <3> QED
        BY <1>0, <1>1, <3>1, <3>2, <3>3, <3>4, <3>5 DEF TypeOK
    <2> QED
      BY <1>1, <2>1, <2>2 DEF StopsInTime
  <1>18. Losses'
    BY <1>0, <1>1, <1>5 DEF Losses
  <1> QED
    BY <1>7, <1>8, <1>9, <1>14, <1>d, <1>15, <1>16, <1>17, <1>18 DEF IInv

-----------------------------------------------------------------------------
(* The process. *)

(* The invariant holds when the process starts to serve.                    *)
LEMMA InitIInv == Init => IInv
  <1> SUFFICES ASSUME Init PROVE IInv
    OBVIOUS
  <1>1. \A r \in Requests : stage[r] = "out" /\ tries[r] = 0 /\ spent[r] = 0
                          /\ head[r] = 0 /\ body[r] = 0 /\ used[r] = 0
    BY DEF Init, Zero
  <1>2. TypeOK
    <2>1. 0 \in 0..(Attempts - 1) /\ 0 \in 0..Cap
      BY Constants
    <2>2. Zero \in [Requests -> 0..(Attempts - 1)] /\ Zero \in [Requests -> 0..Cap]
      BY <2>1 DEF Zero
    <2> QED
      BY <2>1, <2>2 DEF Init, TypeOK
  <1>3. OnTime /\ Connections /\ Course
    BY <1>1, Constants DEF Init, OnTime, Connections, Course, Open, InFlight, Busy, OnDatabase, PoolOpen
  <1>4. RunsHaveTheirGrace /\ CleanExitIsClean /\ Losses
    BY <1>1 DEF Init, RunsHaveTheirGrace, CleanExitIsClean, Losses
  <1>5. StopsInTime /\ Destruction
    <2>1. waited <= Grace + CountTimeout + CloseTimeout
      BY Constants DEF Init
    <2> QED
      BY <2>1 DEF Init, StopsInTime, Destruction
  <1> QED
    BY <1>2, <1>3, <1>4, <1>5 DEF IInv

(* No step breaks the invariant.                                            *)
LEMMA NextIInv == IInv /\ [Next]_vars => IInv'
  <1> SUFFICES ASSUME IInv, [Next]_vars PROVE IInv'
    OBVIOUS
  <1>1. ASSUME NEW r \in Requests, Connection(r) PROVE IInv'
    BY <1>1, ConnectionStep
  <1>2. ASSUME NEW r \in Requests, Runs(r) PROVE IInv'
    BY <1>2, RunsStep
  <1>3. CASE Signal
    BY <1>3, MainStep DEF Signal, pool, IInv, TypeOK
  <1>4. CASE ListenerFails
    BY <1>4, MainStep DEF ListenerFails, ClosePool, Leave, IInv, TypeOK
  <1>5. CASE BeginShutdown
    BY <1>5, MainStep DEF BeginShutdown, Leave, pool, IInv, TypeOK
  <1>6. CASE Drained
    BY <1>6, MainStep DEF Drained, ClosePool, Leave, IInv, TypeOK
  <1>7. CASE GraceEnds
    BY <1>7, MainStep DEF GraceEnds, ClosePool, Leave, IInv, TypeOK
  <1>8. CASE Exit
    BY <1>8, ExitStep
  <1>9. CASE Tick
    BY <1>9, TickStep
  <1>11. CASE Destroyed
    <2>1. main = "closing"
      BY <1>11 DEF Destroyed, IInv, Destruction
    <2> QED
      BY <1>11, <2>1, MainStep DEF Destroyed, IInv, TypeOK
  <1>10. CASE UNCHANGED vars
    BY <1>10 DEF vars, IInv, TypeOK, OnTime, SpentBefore, Connections, Course, Destruction, Open, InFlight, PoolOpen,
                 RunsHaveTheirGrace, CleanExitIsClean, StopsInTime, Losses
  <1> QED
    BY <1>1, <1>2, <1>3, <1>4, <1>5, <1>6, <1>7, <1>8, <1>9, <1>10, <1>11 DEF Next, Main

(* The stopwatches, connections and exit of a process of cmd/server relate  *)
(* as the invariant says, with any number of requests.                      *)
THEOREM Invariance == Spec => []IInv
  BY InitIInv, NextIInv, PTL DEF Spec

(* Whatever arrives and however long it takes, a stop that begins with a    *)
(* signal leaves every connection the whole grace, and so its run the grace *)
(* less the header timeout at worst.                                        *)
THEOREM RunsGetGrace == Spec => []RunsHaveTheirGrace
  <1>1. IInv => RunsHaveTheirGrace
    BY DEF IInv
  <1> QED
    BY <1>1, Invariance, PTL

(* main returns nil after a signal only when no run was left at work.       *)
THEOREM CleanExit == Spec => []CleanExitIsClean
  <1>1. IInv => CleanExitIsClean
    BY DEF IInv
  <1> QED
    BY <1>1, Invariance, PTL

(* The process is gone within the grace, the deadline of one database call  *)
(* and the close of its connection, whatever the number of runs and of      *)
(* insert attempts.                                                         *)
THEOREM BoundedStop == Spec => []StopsInTime
  <1>1. IInv => StopsInTime
    BY DEF IInv
  <1> QED
    BY <1>1, Invariance, PTL

(* No run takes longer than the deadlines of its calls, so the write        *)
(* timeout, where it is no shorter, only ever loses the response of a form  *)
(* that was slow to arrive.                                                 *)
THEOREM ResponsesInTime == Spec => []LostOnlyAfterSlowBody
  <1>1. IInv => LostOnlyAfterSlowBody
    BY DEF IInv, OnTime, Losses, LostOnlyAfterSlowBody
  <1> QED
    BY <1>1, Invariance, PTL
=============================================================================
