----------------------------- MODULE ServerProcess -----------------------------
(***************************************************************************)
(* One process of cmd/server, from the moment it serves to its exit, and   *)
(* the quote submissions it is working on.  A signal closes the listener   *)
(* and gives the connections that are there a grace, those whose first     *)
(* headers are yet to come included; then the pool is closed, which waits  *)
(* for the connections in use and for those being destroyed, and the       *)
(* process exits under whatever is still at work.                          *)
(*                                                                         *)
(* Time advances in ticks.  What is due, a deadline or a step of main that *)
(* waits for nothing, is dealt with before the next tick.  What the calls  *)
(* do to the tables is the matter of QuoteHandler; here they only take     *)
(* time and hold connections.                                              *)
(*                                                                         *)
(* Definitions marked "Fault" show what a bug in the definition that       *)
(* follows would do; nothing uses them.                                    *)
(***************************************************************************)
EXTENDS Naturals

CONSTANTS
    Requests,
    Attempts,        \* insert attempts in saveQuote
    HeaderTimeout,   \* http.Server.ReadHeaderTimeout
    ReadTimeout,     \* http.Server.ReadTimeout, for headers and body
    WriteTimeout,    \* http.Server.WriteTimeout
    CountTimeout, InsertTimeout, SendTimeout, EventTimeout,
    Grace,           \* what Shutdown gives the connections
    CloseTimeout,    \* what the pool gives the destruction of a connection
    Cap              \* bound: stopwatches stop here

(* The time the calls of one run may take in all. *)
Budget == CountTimeout + Attempts * InsertTimeout + SendTimeout + EventTimeout

ASSUME ServerAssumption ==
    /\ Attempts \in Nat \ {0}
    /\ {HeaderTimeout, ReadTimeout, WriteTimeout, Grace, CloseTimeout, Cap} \subseteq Nat
    /\ {CountTimeout, InsertTimeout, SendTimeout, EventTimeout} \subseteq Nat
    /\ \A t \in {CountTimeout, InsertTimeout, EventTimeout} : Grace + t + CloseTimeout <= Cap
    /\ Budget <= Cap /\ SendTimeout <= Cap
    /\ HeaderTimeout < Grace /\ HeaderTimeout <= ReadTimeout /\ ReadTimeout <= Cap

VARIABLES
    main,      \* run(): "serving", "draining" in Shutdown, "closing" the pool, "exited"
    exit,      \* what ended it: "none", "drained", "grace", "listener"
    signalled, \* SIGTERM or SIGINT has arrived
    waited,    \* time since main stopped serving
    stage,     \* per request: where its run is or how it ended
    tries,     \* failed inserts of the run
    spent,     \* time under the deadline it is at
    head,      \* time the first headers of its connection took
    body,      \* time its body took to arrive
    used,      \* time since then
    conns,     \* runs holding a connection of the pool
    refused,   \* history: runs that found the pool closed
    destroying,\* the closed pool is destroying connections
    since      \* time since it began with the last of them

vars == <<main, exit, signalled, waited, stage, tries, spent, head, body, used,
          conns, refused, destroying, since>>
clocks == <<waited, head, body, used>>
pool == <<conns, refused, destroying, since>>

Busy == {"body", "count", "insert", "send", "event"}
OnDatabase == {"count", "insert", "event"}
InFlight(r) == stage[r] \in Busy

(* Connections Shutdown waits for. *)
Open(r) == stage[r] = "header" \/ InFlight(r)

TypeOK ==
    /\ main \in {"serving", "draining", "closing", "exited"}
    /\ exit \in {"none", "drained", "grace", "listener"}
    /\ signalled \in BOOLEAN
    /\ waited \in 0..Cap
    /\ stage \in [Requests -> Busy \cup {"out", "header", "closed", "answered", "lost", "cut"}]
    /\ tries \in [Requests -> 0..(Attempts - 1)]
    /\ spent \in [Requests -> 0..Cap]
    /\ head \in [Requests -> 0..Cap]
    /\ body \in [Requests -> 0..Cap]
    /\ used \in [Requests -> 0..Cap]
    /\ conns \subseteq Requests /\ refused \subseteq Requests
    /\ destroying \in BOOLEAN /\ since \in 0..Cap

Zero == [r \in Requests |-> 0]

Init ==
    /\ main = "serving" /\ exit = "none" /\ signalled = FALSE /\ waited = 0
    /\ stage = [r \in Requests |-> "out"]
    /\ tries = Zero /\ spent = Zero /\ head = Zero /\ body = Zero /\ used = Zero
    /\ conns = {} /\ refused = {} /\ destroying = FALSE /\ since = 0

-----------------------------------------------------------------------------
(* Helpers. *)

(* Fault: the insert runs under the detached context itself. *)
TimeoutWithoutInsert(s) ==
    CASE s = "header" -> HeaderTimeout
      [] s = "body"   -> ReadTimeout
      [] s = "count"  -> CountTimeout
      [] s = "insert" -> Cap + 1
      [] s = "send"   -> SendTimeout
      [] OTHER        -> EventTimeout

Timeout(s) ==
    CASE s = "header" -> HeaderTimeout
      [] s = "body"   -> ReadTimeout
      [] s = "count"  -> CountTimeout
      [] s = "insert" -> InsertTimeout
      [] s = "send"   -> SendTimeout
      [] OTHER        -> EventTimeout

PoolOpen == main \in {"serving", "draining"}

(* The run goes on to stage s; a stage on the database takes a connection, *)
(* and a connection that comes back to a closed pool is destroyed.         *)
Enter(r, s) ==
    /\ stage' = [stage EXCEPT ![r] = s]
    /\ spent' = [spent EXCEPT ![r] = 0]
    /\ IF s \in OnDatabase /\ PoolOpen
         THEN conns' = conns \cup {r} /\ UNCHANGED refused
         ELSE /\ conns' = conns \ {r}
              /\ refused' = IF s \in OnDatabase THEN refused \cup {r} ELSE refused
    /\ IF r \in conns /\ ~PoolOpen
         THEN destroying' = TRUE /\ since' = 0
         ELSE UNCHANGED <<destroying, since>>

(* The response is written; past the write timeout nobody receives it. *)
Finish(r) ==
    /\ Enter(r, IF body[r] + used[r] <= WriteTimeout THEN "answered" ELSE "lost")
    /\ UNCHANGED tries

(* Fault: one attempt more. *)
RetriesOnceMore(r) == tries[r] < Attempts

Retries(r) == tries[r] + 1 < Attempts

-----------------------------------------------------------------------------
(* A run.  What its calls return decides how it goes on. *)

(* Fault: the listener stays open while the server drains. *)
ArriveWhileDraining(r) ==
    /\ PoolOpen /\ stage[r] = "out"
    /\ Enter(r, "body")
    /\ UNCHANGED <<main, exit, signalled, tries, clocks>>

(* Headers on a kept-alive connection: Shutdown closes one that waits for  *)
(* them.                                                                   *)
Arrive(r) ==
    /\ main = "serving" /\ stage[r] = "out"
    /\ Enter(r, "body")
    /\ UNCHANGED <<main, exit, signalled, tries, clocks>>

(* A new connection is accepted. *)
Connect(r) ==
    /\ main = "serving" /\ stage[r] = "out"
    /\ Enter(r, "header")
    /\ UNCHANGED <<main, exit, signalled, tries, clocks>>

(* Its first headers are read, while the server drains too: Shutdown spares *)
(* a new connection for as long as they may take.  The read timeout has     *)
(* been running since the accept.                                           *)
HeadersArrive(r) ==
    /\ main # "exited" /\ stage[r] = "header"
    /\ stage' = [stage EXCEPT ![r] = "body"]
    /\ UNCHANGED <<main, exit, signalled, tries, spent, clocks, pool>>

(* The client goes away, or the header timeout closes the connection. *)
HeadersFail(r) ==
    /\ main # "exited" /\ stage[r] = "header"
    /\ Enter(r, "closed")
    /\ UNCHANGED <<main, exit, signalled, tries, clocks>>

(* The call of the stage does its work: the form is admitted, the count is *)
(* below the limit, the lead is stored, the mail is sent or the event      *)
(* recorded.                                                               *)
CallSucceeds(r) ==
    /\ main # "exited"
    /\ stage[r] \in OnDatabase => r \in conns
    /\ \/ stage[r] = "body" /\ Enter(r, "count") /\ UNCHANGED tries
       \/ stage[r] = "count" /\ Enter(r, "insert") /\ UNCHANGED tries
       \/ stage[r] = "insert" /\ Enter(r, "send") /\ UNCHANGED tries
       \/ stage[r] = "send" /\ Enter(r, "event") /\ UNCHANGED tries
       \/ stage[r] = "event" /\ Finish(r)
    /\ UNCHANGED <<main, exit, signalled, clocks>>

(* The form is turned away, or its address has reached the hourly limit.   *)
TurnedAway(r) ==
    /\ main # "exited"
    /\ \/ stage[r] = "body"
       \/ stage[r] = "count" /\ r \in conns
    /\ Finish(r)
    /\ UNCHANGED <<main, exit, signalled, clocks>>

(* The reference drawn is taken. *)
Collides(r) ==
    /\ main # "exited"
    /\ stage[r] = "insert" /\ r \in conns
    /\ IF Retries(r)
         THEN Enter(r, "insert") /\ tries' = [tries EXCEPT ![r] = @ + 1]
         ELSE Finish(r)
    /\ UNCHANGED <<main, exit, signalled, clocks>>

(* The call fails, at once when the pool is closed: the count lets the run *)
(* pass, a failed mail is recorded, and anything else ends the run.        *)
CallFails(r) ==
    /\ main # "exited"
    /\ \/ stage[r] = "count" /\ Enter(r, "insert") /\ UNCHANGED tries
       \/ stage[r] = "send" /\ Enter(r, "event") /\ UNCHANGED tries
       \/ stage[r] \in {"body", "insert", "event"} /\ Finish(r)
    /\ UNCHANGED <<main, exit, signalled, clocks>>

(* The deadline of the stage has come, or its call was refused by the pool. *)
Overdue(r) ==
    /\ Open(r)
    /\ \/ spent[r] >= Timeout(stage[r])
       \/ stage[r] \in OnDatabase /\ r \notin conns

-----------------------------------------------------------------------------
(* main. *)

Signal ==
    /\ main # "exited" /\ ~signalled
    /\ signalled' = TRUE
    /\ UNCHANGED <<main, exit, clocks, stage, tries, spent, pool>>

Leave(m, why) ==
    /\ main' = m
    /\ exit' = why

(* The select of run sees the signal: Shutdown closes the listener. *)
BeginShutdown ==
    /\ main = "serving" /\ signalled
    /\ Leave("draining", "none")
    /\ UNCHANGED <<signalled, clocks, stage, tries, spent, pool>>

(* run is over and closes the pool, which destroys the idle connections    *)
(* and may still be at others, ones whose call hit its deadline.           *)
ClosePool(why) ==
    /\ Leave("closing", why)
    /\ destroying' \in BOOLEAN /\ since' = 0
    /\ UNCHANGED <<signalled, clocks, stage, tries, spent, conns, refused>>

(* ListenAndServe fails, and run returns without Shutdown. *)
ListenerFails ==
    /\ main = "serving"
    /\ ClosePool("listener")

Drained ==
    /\ main = "draining"
    /\ \A r \in Requests : ~Open(r)
    /\ ClosePool("drained")

(* Fault: the error of Shutdown is dropped. *)
GraceEndsQuietly ==
    /\ main = "draining" /\ waited >= Grace
    /\ ClosePool("drained")

GraceEnds ==
    /\ main = "draining" /\ waited >= Grace
    /\ ClosePool("grace")

(* A destruction is over when the database has closed its side, or given   *)
(* up.                                                                     *)
Destroyed ==
    /\ destroying
    /\ destroying' = FALSE
    /\ UNCHANGED <<main, exit, signalled, clocks, stage, tries, spent, conns, refused, since>>

(* The last connection is returned and destroyed; the process ends, and    *)
(* with it every run and connection.                                       *)
Exit ==
    /\ main = "closing" /\ conns = {} /\ ~destroying
    /\ Leave("exited", exit)
    /\ stage' = [r \in Requests |-> IF InFlight(r) THEN "cut"
                                    ELSE IF Open(r) THEN "closed" ELSE stage[r]]
    /\ UNCHANGED <<signalled, clocks, tries, spent, pool>>

MainDue ==
    \/ main = "serving" /\ signalled
    \/ main = "draining" /\ (waited >= Grace \/ \A r \in Requests : ~Open(r))
    \/ main = "closing" /\ conns = {} /\ ~destroying

Later(n) == IF n < Cap THEN n + 1 ELSE n

(* Each stopwatch that runs. *)
Tick ==
    /\ main # "exited" /\ ~MainDue
    /\ \A r \in Requests : ~Overdue(r)
    /\ destroying => since < CloseTimeout
    /\ waited' = IF main = "serving" THEN waited ELSE Later(waited)
    /\ since' = IF destroying THEN Later(since) ELSE since
    /\ spent' = [r \in Requests |-> IF Open(r) THEN Later(spent[r]) ELSE spent[r]]
    /\ head' = [r \in Requests |-> IF stage[r] = "header" THEN Later(head[r]) ELSE head[r]]
    /\ body' = [r \in Requests |-> IF stage[r] = "body" THEN Later(body[r]) ELSE body[r]]
    /\ used' = [r \in Requests |->
                  IF InFlight(r) /\ stage[r] # "body" THEN Later(used[r]) ELSE used[r]]
    /\ UNCHANGED <<main, exit, signalled, stage, tries, conns, refused, destroying>>

-----------------------------------------------------------------------------
Connection(r) == Arrive(r) \/ Connect(r) \/ HeadersArrive(r) \/ HeadersFail(r)
Runs(r) == CallSucceeds(r) \/ TurnedAway(r) \/ Collides(r) \/ CallFails(r)
Main == BeginShutdown \/ Drained \/ GraceEnds \/ Exit

Next ==
    \/ \E r \in Requests : Connection(r) \/ Runs(r)
    \/ Signal \/ ListenerFails \/ Main \/ Destroyed
    \/ Tick

Spec == Init /\ [][Next]_vars

(* A call or a connection whose deadline has come ends, a destruction      *)
(* ends, main goes on with what it does not have to wait for, and time     *)
(* passes.                                                                 *)
Fairness ==
    /\ \A r \in Requests : WF_vars(Overdue(r) /\ (CallFails(r) \/ HeadersFail(r)))
    /\ WF_vars(Destroyed)
    /\ WF_vars(Main)
    /\ WF_vars(Tick)

FairSpec == Spec /\ Fairness

-----------------------------------------------------------------------------
(* Properties. *)

(* No run is cut off, or finds the pool closed, before its connection had  *)
(* the whole grace: the listener closes first, Shutdown waits, and the     *)
(* pool outlives it. A run whose headers came while the server drained has *)
(* the grace less the header timeout at worst. Only a listener that breaks *)
(* ends runs at once.                                                      *)
RunsHaveTheirGrace ==
    exit # "listener" => \A r \in Requests :
        stage[r] = "cut" \/ r \in refused =>
            /\ head[r] + body[r] + used[r] >= Grace
            /\ HeaderTimeout + body[r] + used[r] >= Grace

(* An exit status of zero means that no run was left unfinished, nor       *)
(* failed because the process was stopping.                                *)
CleanExitIsClean ==
    exit = "drained" =>
        refused = {} /\ \A r \in Requests : stage[r] # "cut" /\ ~Open(r)

(* Closing the pool waits for calls and connections, not for runs: the     *)
(* process is gone within the grace, the deadline of one database call and *)
(* what the connection of that call may take to be destroyed.              *)
StopsInTime ==
    /\ main = "draining" => waited <= Grace
    /\ \E t \in {CountTimeout, InsertTimeout, EventTimeout} : waited <= Grace + t + CloseTimeout

(* A run takes no longer than the deadlines of its calls, retries included. *)
(* While they add up to no more than the write timeout, as they do unless a  *)
(* mail is given more time than by default, a response is lost only when its *)
(* form was slow to arrive.                                                  *)
LostOnlyAfterSlowBody ==
    \A r \in Requests :
        /\ used[r] <= Budget
        /\ stage[r] = "lost" => body[r] + Budget > WriteTimeout

(* The process ends after a signal, whatever its runs and calls do.        *)
EndsAfterSignal == signalled ~> main = "exited"
=============================================================================
