-------------------------- MODULE QuoteSessionProofs --------------------------
(***************************************************************************)
(* A form ends up on record twice only after bad news, for any number of   *)
(* visitors, requests and references, whatever fails.  The argument joins  *)
(* the two sides: a page goes on to the next request only once it has      *)
(* shown something that leaves the form in place, and a run that has left  *)
(* a row never answers with a refusal the visitor could take for a safe    *)
(* reason to send again.                                                   *)
(***************************************************************************)
EXTENDS QuoteSession, QuoteHandlerProofs

(* What a run may still answer once it has left a row. *)
AfterRow == {0, 200, 500, 503}

RowReplies == \A q \in quotes \cup late : reply[q.owner].status \in AfterRow

(* Only requests that were sent have a run. *)
OnlySentRun == \A r \in Requests : r \notin AllSent => pc[r] = "idle"

(* A page that shows a refusal was sent one. *)
DeclinedTruly ==
    \A r \in Requests : shown[r] = "declined" => reply[r].status \notin AfterRow

(* The page moved on from every request but the last, and kept its form. *)
MovedOn ==
    \A v \in Visitors : \A i \in DOMAIN Sends[v] :
        i < count[v] => shown[Sends[v][i]] \in BadNews \cup {"declined"}

SInv == IInv /\ SessionTypeOK /\ RowReplies /\ OnlySentRun /\ DeclinedTruly /\ MovedOn

-----------------------------------------------------------------------------
(* What the handler's steps do to answers and rows. *)

(* What no step of a run may undo: an answer, once given, stands, and a run *)
(* that has not begun does not begin by itself.                            *)
Steady(x) ==
    /\ pc[x] = "done" => pc'[x] = "done" /\ reply'[x] = reply[x]
    /\ pc[x] = "idle" => pc'[x] = "idle"

(* A step of one run leaves what the others have answered.                  *)
LEMMA RunSteady ==
    ASSUME TypeOK, NEW r \in Requests, Proceeds(r) \/ Kill(r), NEW x \in Requests
    PROVE  Steady(x)
  <1> USE DEF Steady
  <1>1. ASSUME NEW status, NEW n, Answer(r, status, n), pc[r] \notin {"idle", "done"}
        PROVE  Steady(x)
    <2>1. \A y \in Requests : y # r => pc'[y] = pc[y] /\ reply'[y] = reply[y]
      BY <1>1 DEF TypeOK, Answer, Goto
    <2> QED
      BY <1>1, <2>1
  <1>2. CASE RefuseOverLimit(r) \/ Respond(r)
    BY <1>1, <1>2 DEF RefuseOverLimit, Respond
  <1>3. ASSUME NEW err, pc[r] = "save", RetryOrGiveUp(r, err)
        PROVE  Steady(x)
    BY <1>3, RetryEffect
  <1>4. CASE InsertCollides(r) \/ InsertFails(r) \/ InsertTimesOut(r)
    BY <1>3, <1>4 DEF InsertCollides, InsertFails, InsertTimesOut
  <1>5. CASE PassLimit(r) \/ FailOpen(r) \/ InsertCommits(r) \/ Notify(r) \/ Record(r)
    <2>1. UNCHANGED reply /\ \E l : Goto(r, l)
      <3>1. CASE Notify(r) \/ Record(r)
        BY <3>1 DEF Notify, SendSucceeds, SendFails, Record, RecordEvent, RecordFails, run
      <3>2. CASE PassLimit(r) \/ FailOpen(r) \/ InsertCommits(r)
        BY <3>2 DEF PassLimit, FailOpen, InsertCommits, run
      <3> QED
        BY <1>5, <3>1, <3>2
    <2>2. pc[r] \notin {"idle", "done"}
      BY <1>5 DEF PassLimit, FailOpen, InsertCommits, Notify, SendSucceeds, SendFails,
                  Record, RecordEvent, RecordFails
    <2> QED
      BY <2>1, <2>2 DEF Goto, TypeOK
  <1>6. CASE Kill(r)
    BY <1>6 DEF Kill, InFlight, Ended, Goto, TypeOK, run
  <1> QED
    BY <1>2, <1>4, <1>5, <1>6 DEF Proceeds, Save

(* A run that begins leaves every answer given before.                      *)
LEMMA ArrivalSteady ==
    ASSUME TypeOK, NEW r \in Requests, Refuse(r) \/ Admit(r), NEW x \in Requests
    PROVE  /\ x # r => Steady(x)
           /\ pc[x] = "done" => Steady(x)
  <1>1. CASE Refuse(r)
    <2>1. \A y \in Requests : y # r => pc'[y] = pc[y] /\ reply'[y] = reply[y]
      BY <1>1 DEF Refuse, TypeOK, Answer, Goto
    <2> QED
      BY <1>1, <2>1 DEF Refuse, Steady
  <1>2. CASE Admit(r)
    <2>1. pc[r] = "idle" /\ UNCHANGED reply /\ \E l : Goto(r, l)
      BY <1>2 DEF Admit, run
    <2> QED
      BY <2>1 DEF Goto, TypeOK, Steady
  <1> QED
    BY <1>1, <1>2

(* Neither do the database, the provider and the clock touch an answer.     *)
LEMMA RestSteady ==
    ASSUME \/ \E r \in Requests : LateDelivery(r)
           \/ \E q \in late : LateCommit(q) \/ LateDrop(q)
           \/ Tick \/ UNCHANGED vars,
           NEW x \in Requests
    PROVE  Steady(x)
  <1>1. UNCHANGED <<pc, reply>>
    BY DEF LateDelivery, LateCommit, LateDrop, Tick, vars, run
  <1> QED
    BY <1>1 DEF Steady

(* Whatever a step does, a run that has left a row has answered with        *)
(* success, "try again", a bare 500 or nothing yet.                         *)
LEMMA RowRepliesStep == IInv /\ RowReplies /\ [Next]_vars => RowReplies'
  <1> SUFFICES ASSUME IInv, RowReplies, [Next]_vars PROVE RowReplies'
    OBVIOUS
  <1> USE DEF RowReplies, AfterRow
  <1>t. /\ TypeOK
        /\ \A q \in quotes \cup late : q.owner \in Requests
        /\ \A r \in Requests : pc[r] # "done" => reply[r] = NoReply
    BY DEF IInv, TypeOK, Row, PhaseInv, Phase
  <1>1. ASSUME NEW r \in Requests, NEW status, NEW n, Answer(r, status, n),
               UNCHANGED <<quotes, late>>, status = 200 \/ NoTrace(r)
        PROVE  RowReplies'
    <2>0. /\ \/ reply'[r] = [status |-> status, ref |-> n]
             \/ reply'[r] = [status |-> 500, ref |-> NoRef]
          /\ \A y \in Requests : y # r => reply'[y] = reply[y]
      BY <1>1, <1>t, AnswerEffect
    <2>1. reply'[r].status \in {status, 500}
      BY <2>0
    <2>2. \A q \in quotes \cup late : q.owner = r => status = 200
      BY <1>1 DEF NoTrace
    <2> SUFFICES ASSUME NEW q \in quotes \cup late PROVE reply'[q.owner].status \in AfterRow
      BY <1>1
    <2>3. CASE q.owner = r
      BY <2>1, <2>2, <2>3
    <2>4. CASE q.owner # r
      BY <1>t, <2>0, <2>4
    <2> QED
      BY <2>3, <2>4
  <1>2. ASSUME NEW r \in Requests, Refuse(r) \/ RefuseOverLimit(r) \/ Respond(r)
        PROVE  RowReplies'
    <2>1. pc[r] \in {"idle", "rate"} => NoTrace(r)
      BY DEF IInv, PhaseInv, Phase
    <2> QED
      BY <1>1, <1>2, <2>1 DEF Refuse, RefuseOverLimit, Respond, store
  <1>3. ASSUME NEW r \in Requests, InsertCommits(r) \/ Kill(r)
        PROVE  RowReplies'
    <2>1. reply[r] = NoReply /\ UNCHANGED reply
      BY <1>3, <1>t DEF InsertCommits, Kill, InFlight, Ended, run
    <2>2. \A q \in quotes' \cup late' : q \in quotes \cup late \/ q.owner = r
      BY <1>3 DEF InsertCommits, Kill, NewRow
    <2> QED
      BY <2>1, <2>2 DEF NoReply
  <1>4. ASSUME NEW r \in Requests, InsertCollides(r) \/ InsertFails(r) \/ InsertTimesOut(r)
        PROVE  RowReplies'
    <2>1. pc[r] = "save" /\ \E err : RetryOrGiveUp(r, err)
      BY <1>4 DEF InsertCollides, InsertFails, InsertTimesOut
    <2>2. /\ \A x \in Requests : x # r => reply'[x] = reply[x]
          /\ reply'[r] = NoReply \/ reply'[r].status \in {500, 503}
      BY <1>t, <2>1, RetryEffect
    <2>3. \A q \in quotes' \cup late' : q \in quotes \cup late \/ q.owner = r
      BY <1>4 DEF InsertCollides, InsertFails, InsertTimesOut, NewRow, store
    <2> QED
      BY <1>t, <2>2, <2>3 DEF NoReply
  <1>5. ASSUME NEW r \in Requests, \/ Admit(r) \/ Leave(r) \/ LateDelivery(r) \/ PassLimit(r)
                                   \/ FailOpen(r) \/ Notify(r) \/ Record(r)
        PROVE  UNCHANGED <<reply, quotes, late>>
    BY <1>5 DEF Admit, Leave, LateDelivery, PassLimit, FailOpen, Notify, SendSucceeds, SendFails,
                Record, RecordEvent, RecordFails, run, store
  <1>6. ASSUME NEW q \in late, LateCommit(q) \/ LateDrop(q)
        PROVE  UNCHANGED reply /\ quotes' \cup late' \subseteq quotes \cup late
    BY <1>6 DEF LateCommit, LateDrop, run
  <1>7. CASE Tick \/ UNCHANGED vars
    BY <1>7 DEF Tick, vars, run, store
  <1> QED
    BY <1>2, <1>3, <1>4, <1>5, <1>6, <1>7 DEF Next, Proceeds, Save

-----------------------------------------------------------------------------
(* The pages. *)

(* The requests a visitor sends are requests, and no request is sent twice. *)
LEMMA SendsFacts ==
    /\ \A v \in Visitors : /\ Len(Sends[v]) \in Nat
                           /\ DOMAIN Sends[v] = 1..Len(Sends[v])
                           /\ \A i \in DOMAIN Sends[v] : Sends[v][i] \in Requests
    /\ \A v, w \in Visitors : \A i \in DOMAIN Sends[v], j \in DOMAIN Sends[w] :
          Sends[v][i] = Sends[w][j] => v = w /\ i = j
  <1>1. \A v \in Visitors : Sends[v] \in Seq(Requests)
    BY SessionAssumption DEF SessionAssumption
  <1> QED
    BY <1>1, SessionAssumption DEF SessionAssumption

(* A visitor who may send again has a form on the page and no request out. *)
LEMMA MaySendMovedOn ==
    ASSUME SessionTypeOK, NEW v \in Visitors, MaySend(v), NEW i \in 1..count[v]
    PROVE  shown[Sends[v][i]] \in BadNews \cup {"declined"}
  <1>1. i \in DOMAIN Sends[v] /\ Sends[v][i] \in Requests /\ Sends[v][i] \in Sent(v)
    BY SendsFacts DEF SessionTypeOK, Sent
  <1> QED
    BY <1>1 DEF MaySend, FormOnPage, Waiting, SessionTypeOK, Shows, BadNews

(* The invariant of the pages holds when they are opened.                   *)
THEOREM InitSInv == SessionInit => SInv
  <1> SUFFICES ASSUME SessionInit PROVE SInv
    OBVIOUS
  <1>1. IInv
    BY InitIInv DEF SessionInit
  <1>2. SessionTypeOK
    BY SendsFacts DEF SessionInit, SessionTypeOK, Shows
  <1>3. RowReplies /\ OnlySentRun /\ DeclinedTruly
    BY DEF SessionInit, Init, RowReplies, OnlySentRun, DeclinedTruly
  <1>4. MovedOn
    BY SendsFacts DEF SessionInit, MovedOn
  <1> QED
    BY <1>1, <1>2, <1>3, <1>4 DEF SInv

(* A step of the handlers, with the pages as they were. *)
LEMMA HandlerSide ==
    ASSUME SInv, [Next]_vars, UNCHANGED session,
           \A x \in Requests : x \notin AllSent \/ pc[x] = "done" => Steady(x)
    PROVE  SInv'
  <1>1. IInv' /\ RowReplies'
    BY NextIInv, RowRepliesStep DEF SInv
  <1>2. SessionTypeOK' /\ MovedOn'
    BY DEF SInv, session, SessionTypeOK, MovedOn
  <1>3. OnlySentRun'
    <2>1. AllSent' = AllSent
      BY DEF session, AllSent, Sent
    <2> QED
      BY <2>1 DEF SInv, OnlySentRun, Steady
  <1>4. DeclinedTruly'
    <2> SUFFICES ASSUME NEW r \in Requests, shown[r] = "declined"
                 PROVE  reply'[r].status \notin AfterRow
      BY DEF session, DeclinedTruly
    <2>1. reply[r].status \notin AfterRow
      BY DEF SInv, DeclinedTruly
    <2>2. pc[r] = "done"
      BY <2>1 DEF SInv, IInv, PhaseInv, Phase, NoReply, AfterRow
    <2> QED
      BY <2>1, <2>2 DEF Steady
  <1> QED
    BY <1>1, <1>2, <1>3, <1>4 DEF SInv

(* Every step of a browser or of the server keeps it.                       *)
THEOREM NextSInv == SInv /\ [SessionNext]_<<session, vars>> => SInv'
  <1> SUFFICES ASSUME SInv, [SessionNext]_<<session, vars>> PROVE SInv'
    OBVIOUS
  <1>1. ASSUME NEW v \in Visitors, Submit(v) PROVE SInv'
    <2>1. MaySend(v) /\ count[v] < Len(Sends[v])
          /\ count' = [count EXCEPT ![v] = @ + 1] /\ UNCHANGED shown /\ UNCHANGED vars
      BY <1>1 DEF Submit
    <2>2. IInv' /\ RowReplies'
      BY <2>1, NextIInv, RowRepliesStep DEF SInv
    <2>3. SessionTypeOK'
      BY <2>1, SendsFacts DEF SInv, SessionTypeOK
    <2>4. OnlySentRun'
      <3>1. AllSent \subseteq AllSent'
        <4>1. \A w \in Visitors : 1..count[w] \subseteq 1..count'[w]
          BY <2>1 DEF SInv, SessionTypeOK
        <4>2. \A w \in Visitors : Sent(w) \subseteq Sent(w)'
          BY <4>1 DEF Sent
        <4> QED
          BY <4>2 DEF AllSent
      <3> QED
        BY <2>1, <3>1 DEF SInv, OnlySentRun, vars
    <2>5. DeclinedTruly'
      BY <2>1 DEF SInv, DeclinedTruly, vars, run
    <2>6. MovedOn'
      <3> SUFFICES ASSUME NEW w \in Visitors, NEW i \in DOMAIN Sends[w], i < count'[w]
                   PROVE  shown[Sends[w][i]] \in BadNews \cup {"declined"}
        BY <2>1 DEF MovedOn
      <3>1. i \in Nat \ {0} /\ count[w] \in Nat
        BY SendsFacts DEF SInv, SessionTypeOK
      <3>2. CASE w = v
        <4>1. i \in 1..count[v]
          BY <2>1, <3>1, <3>2 DEF SInv, SessionTypeOK
        <4> QED
          BY <2>1, <3>2, <4>1, MaySendMovedOn DEF SInv
      <3>3. CASE w # v
        BY <2>1, <3>3 DEF SInv, SessionTypeOK, MovedOn
      <3> QED
        BY <3>2, <3>3
    <2> QED
      BY <2>2, <2>3, <2>4, <2>5, <2>6 DEF SInv
  <1>2. ASSUME NEW v \in Visitors, Swap(v) PROVE SInv'
    <2>1. PICK r \in Waiting(v) : /\ reply[r].status # 0
                                  /\ shown' = [shown EXCEPT ![r] = Rendering(reply[r])]
                                  /\ UNCHANGED count /\ UNCHANGED vars
      BY <1>2 DEF Swap
    <2>2. r \in Requests /\ shown[r] = "nothing"
      BY <2>1, SendsFacts DEF Waiting, Sent, SInv, SessionTypeOK
    <2>3. IInv' /\ RowReplies'
      BY <2>1, NextIInv, RowRepliesStep DEF SInv
    <2>4. SessionTypeOK'
      BY <2>1, <2>2 DEF SInv, SessionTypeOK, Rendering, Shows
    <2>5. OnlySentRun'
      BY <2>1 DEF SInv, OnlySentRun, AllSent, Sent, vars
    <2>6. DeclinedTruly'
      <3>1. Rendering(reply[r]) = "declined" => reply[r].status \notin AfterRow
        BY <2>1 DEF Rendering, AfterRow
      <3> QED
        BY <2>1, <2>2, <3>1 DEF SInv, SessionTypeOK, DeclinedTruly, vars, run
    <2>7. MovedOn'
      BY <2>1, <2>2 DEF SInv, SessionTypeOK, MovedOn, BadNews
    <2> QED
      BY <2>3, <2>4, <2>5, <2>6, <2>7 DEF SInv
  <1>3. ASSUME NEW v \in Visitors, GiveUp(v) PROVE SInv'
    <2>1. PICK r \in Waiting(v) :
             /\ shown' = [shown EXCEPT ![r] = "unreachable"]
             /\ gone' = gone \cup {r}
             /\ UNCHANGED <<count, sub, pc, run, store, inbox, now>>
      BY <1>3 DEF GiveUp
    <2>2. r \in Requests /\ shown[r] = "nothing"
      BY <2>1, SendsFacts DEF Waiting, Sent, SInv, SessionTypeOK
    <2>3. UNCHANGED <<count, sub, pc, tries, ref, result, reply, quotes, late, events, inbox, now>>
      BY <2>1 DEF run, store
    <2>4. TypeOK'
      BY <2>1, <2>2, <2>3 DEF SInv, IInv, TypeOK
    <2>5. IInv'
      BY <2>2, <2>3, <2>4, QuietStep DEF SInv, QuietMove, QuietReply, IInv, PhaseInv, Phase
    <2>6. RowReplies' /\ OnlySentRun'
      BY <2>3 DEF SInv, RowReplies, OnlySentRun, AllSent, Sent
    <2>7. SessionTypeOK' /\ DeclinedTruly' /\ MovedOn'
      BY <2>1, <2>2, <2>3 DEF SInv, SessionTypeOK, Shows, DeclinedTruly, MovedOn, BadNews
    <2> QED
      BY <2>5, <2>6, <2>7 DEF SInv
  <1>4. ASSUME NEW r \in Requests, Arrive(r) PROVE SInv'
    <2>1. \A x \in Requests : x \notin AllSent \/ pc[x] = "done" => Steady(x)
      BY <1>4, ArrivalSteady DEF Arrive, SInv, IInv
    <2> QED
      BY <1>4, <2>1, HandlerSide DEF Arrive, Next
  <1>5. CASE Work
    <2>1. \A x \in Requests : Steady(x)
      BY <1>5, RunSteady, RestSteady DEF Work, SInv, IInv
    <2>2. Next /\ UNCHANGED session
      BY <1>5 DEF Work, Next
    <2> QED
      BY <2>1, <2>2, HandlerSide
  <1>6. CASE UNCHANGED <<session, vars>>
    <2>1. UNCHANGED session /\ UNCHANGED vars
      BY <1>6
    <2>2. \A x \in Requests : Steady(x)
      BY <2>1, RestSteady
    <2> QED
      BY <2>1, <2>2, HandlerSide
  <1> QED
    BY <1>1, <1>2, <1>3, <1>4, <1>5, <1>6 DEF SessionNext

(* No visitor's form is on record twice unless the page had said that the  *)
(* first request may have failed.                                          *)
THEOREM DuplicatesHaveACause == SessionSpec => []DuplicatesOnlyAfterBadNews
  <1>1. SInv => DuplicatesOnlyAfterBadNews
    <2> SUFFICES ASSUME SInv, NEW v \in Visitors,
                        NEW i \in DOMAIN Sends[v], NEW j \in DOMAIN Sends[v], i < j,
                        NEW p \in quotes \cup late, p.owner = Sends[v][i],
                        NEW q \in quotes \cup late, q.owner = Sends[v][j]
                 PROVE  shown[Sends[v][i]] \in BadNews
      BY DEF DuplicatesOnlyAfterBadNews
    <2>1. Sends[v][j] \in AllSent
      BY SendsFacts DEF SInv, IInv, PhaseInv, Phase, NoTrace, OnlySentRun
    <2>2. PICK w \in Visitors : \E k \in 1..count[w] : Sends[w][k] = Sends[v][j]
      BY <2>1 DEF AllSent, Sent
    <2>3. PICK k \in 1..count[w] : Sends[w][k] = Sends[v][j]
      BY <2>2
    <2>4. j <= count[v]
      <3>1. k \in DOMAIN Sends[w]
        BY SendsFacts DEF SInv, SessionTypeOK
      <3> QED
        BY <2>3, <3>1, SendsFacts DEF SInv, SessionTypeOK
    <2>5. shown[Sends[v][i]] \in BadNews \cup {"declined"}
      BY <2>4, SendsFacts DEF SInv, SessionTypeOK, MovedOn
    <2>6. reply[Sends[v][i]].status \in AfterRow
      BY DEF SInv, RowReplies
    <2> QED
      BY <2>5, <2>6, SendsFacts DEF SInv, DeclinedTruly
  <1> QED
    BY <1>1, InitSInv, NextSInv, PTL DEF SessionSpec

-----------------------------------------------------------------------------
(* Which bad news. *)

(* A page that says "unavailable" was told so. *)
UnavailableShownTruly ==
    \A r \in Requests : shown[r] = "unavailable" => reply[r].status = 503

LEMMA UnavailableShownStep ==
    SInv /\ UnavailableShownTruly /\ [SessionNext]_<<session, vars>> => UnavailableShownTruly'
  <1> SUFFICES ASSUME SInv, UnavailableShownTruly, [SessionNext]_<<session, vars>>
               PROVE  UnavailableShownTruly'
    OBVIOUS
  <1>t. /\ TypeOK /\ shown \in [Requests -> Shows]
        /\ \A r \in Requests : pc[r] # "done" => reply[r] = NoReply
    BY DEF SInv, IInv, SessionTypeOK, PhaseInv, Phase
  <1>1. ASSUME UNCHANGED shown, \A x \in Requests : pc[x] = "done" => Steady(x)
        PROVE  UnavailableShownTruly'
    BY <1>t, <1>1 DEF UnavailableShownTruly, Steady, NoReply
  <1>2. ASSUME NEW v \in Visitors, Submit(v) PROVE UnavailableShownTruly'
    BY <1>2 DEF Submit, vars, run, UnavailableShownTruly
  <1>3. ASSUME NEW v \in Visitors, Swap(v) PROVE UnavailableShownTruly'
    <2>1. PICK r \in Waiting(v) : /\ shown' = [shown EXCEPT ![r] = Rendering(reply[r])]
                                  /\ UNCHANGED vars
      BY <1>3 DEF Swap
    <2>2. Rendering(reply[r]) = "unavailable" => reply[r].status = 503
      BY DEF Rendering
    <2> QED
      BY <1>t, <2>1, <2>2 DEF UnavailableShownTruly, vars, run
  <1>4. ASSUME NEW v \in Visitors, GiveUp(v) PROVE UnavailableShownTruly'
    BY <1>t, <1>4 DEF GiveUp, UnavailableShownTruly, run
  <1>5. ASSUME NEW r \in Requests, Arrive(r) PROVE UnavailableShownTruly'
    BY <1>t, <1>1, <1>5, ArrivalSteady DEF Arrive, session
  <1>6. CASE Work
    BY <1>t, <1>1, <1>6, RunSteady, RestSteady DEF Work, session
  <1>7. CASE UNCHANGED <<session, vars>>
    BY <1>7 DEF session, vars, run, UnavailableShownTruly
  <1> QED
    BY <1>2, <1>3, <1>4, <1>5, <1>6, <1>7 DEF SessionNext

(* A form is on record twice only when the page had not heard of the first  *)
(* request, because its timer rang or its connection was lost.              *)
DuplicatesOnlyAfterSilence ==
    \A v \in Visitors : \A i, j \in DOMAIN Sends[v] :
        (/\ i < j
         /\ {Sends[v][i], Sends[v][j]} \subseteq {q.owner : q \in quotes \cup late})
          => shown[Sends[v][i]] = "unreachable"

(* While no insert times out, a second lead of one form has one cause only: *)
(* a browser that gave up on a handler that did not.                        *)
THEOREM DuplicatesAreUnheard ==
    "timeout" \notin Faults => (SessionSpec => []DuplicatesOnlyAfterSilence)
  <1> SUFFICES ASSUME "timeout" \notin Faults PROVE SessionSpec => []DuplicatesOnlyAfterSilence
    OBVIOUS
  <1>1. SessionInit => UnavailableTruly /\ UnavailableShownTruly
    BY DEF SessionInit, Init, UnavailableTruly, UnavailableShownTruly
  <1>2. SInv /\ UnavailableTruly /\ [SessionNext]_<<session, vars>> => UnavailableTruly'
    <2> SUFFICES ASSUME SInv, UnavailableTruly, [SessionNext]_<<session, vars>>
                 PROVE  UnavailableTruly'
      OBVIOUS
    <2>1. [Next]_vars => UnavailableTruly'
      BY UnavailableStep DEF SInv
    <2>2. ASSUME NEW v \in Visitors, GiveUp(v) PROVE UnavailableTruly'
      BY <2>2 DEF GiveUp, run, store, UnavailableTruly
    <2>3. ASSUME NEW v \in Visitors, Submit(v) \/ Swap(v) PROVE UNCHANGED vars
      BY <2>3 DEF Submit, Swap
    <2>4. ASSUME NEW r \in Requests, Arrive(r) PROVE Next
      BY <2>4 DEF Arrive, Next
    <2>5. Work => Next
      BY DEF Work, Next
    <2>6. UNCHANGED <<session, vars>> => UNCHANGED vars
      OBVIOUS
    <2> QED
      BY <2>1, <2>2, <2>3, <2>4, <2>5, <2>6 DEF SessionNext
  <1>3. /\ SInv /\ DuplicatesOnlyAfterBadNews /\ UnavailableTruly /\ UnavailableShownTruly
        => DuplicatesOnlyAfterSilence
    <2> SUFFICES ASSUME SInv, DuplicatesOnlyAfterBadNews, UnavailableTruly, UnavailableShownTruly,
                        NEW v \in Visitors, NEW i \in DOMAIN Sends[v], NEW j \in DOMAIN Sends[v],
                        i < j,
                        {Sends[v][i], Sends[v][j]} \subseteq {q.owner : q \in quotes \cup late}
                 PROVE  shown[Sends[v][i]] = "unreachable"
      BY DEF DuplicatesOnlyAfterSilence
    <2>1. shown[Sends[v][i]] \in BadNews
      BY DEF DuplicatesOnlyAfterBadNews
    <2>2. reply[Sends[v][i]].status # 503
      BY DEF UnavailableTruly
    <2>3. Sends[v][i] \in Requests
      BY SendsFacts
    <2> QED
      BY <2>1, <2>2, <2>3 DEF BadNews, UnavailableShownTruly
  <1> QED
    BY <1>1, <1>2, <1>3, InitSInv, NextSInv, UnavailableShownStep, DuplicatesHaveACause, PTL
       DEF SessionSpec

(* Driven by the pages, with visitors who give up and forms that are sent   *)
(* again, the endpoint still keeps the promise of the ledger.               *)
THEOREM SessionImplementsLedger == SessionSpec => ImplementsLedger
  <1>1. SessionInit => Ledger!Init
    BY InitRefines DEF SessionInit
  <1>2. SInv /\ SInv' /\ [SessionNext]_<<session, vars>> => [Ledger!Next]_Ledger!vars
    <2> SUFFICES ASSUME SInv, SInv', [SessionNext]_<<session, vars>>
                 PROVE  [Ledger!Next]_Ledger!vars
      OBVIOUS
    <2>1. [Next]_vars => [Ledger!Next]_Ledger!vars
      BY NextRefines DEF SInv
    <2>2. ASSUME NEW v \in Visitors, Submit(v) \/ Swap(v) PROVE UNCHANGED vars
      BY <2>2 DEF Submit, Swap
    <2>3. ASSUME NEW v \in Visitors, GiveUp(v) PROVE UNCHANGED Ledger!vars
      <3>1. UNCHANGED <<quotes, reply, inbox, events>>
        BY <2>3 DEF GiveUp, run, store
      <3> QED
        BY <3>1, SameAnswers, LedgerStutter DEF Leads
    <2>4. ASSUME NEW r \in Requests, Arrive(r) PROVE Next
      BY <2>4 DEF Arrive, Next
    <2>5. Work => Next
      BY DEF Work, Next
    <2>6. UNCHANGED <<session, vars>> => UNCHANGED vars
      OBVIOUS
    <2> QED
      BY <2>1, <2>2, <2>3, <2>4, <2>5, <2>6 DEF SessionNext
  <1> QED
    BY <1>1, <1>2, InitSInv, NextSInv, PTL DEF SessionSpec, ImplementsLedger, Ledger!Spec
=============================================================================
