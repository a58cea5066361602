---------------------------- MODULE BrevoSendProofs ----------------------------
(***************************************************************************)
(* For every number of attempts, every backoff, every deadline and every   *)
(* header: a call delivers at most one mail, its refusals are final, and   *)
(* it is over when its context is.                                         *)
(***************************************************************************)
EXTENDS BrevoInvariant, FiniteSetTheorems, TLAPS

(* A wait is a machine integer, whatever the header says.                  *)
LEMMA WaitTyping ==
    ASSUME NEW h \in Headers \cup {NoAnswer.header}
    PROVE  Wait(h) \in Int
<1>1. h.secs \in Nat
  BY BrevoAssumption DEF Header, NoAnswer
<1>2. h.secs * Sec \in Int
  BY <1>1, BrevoAssumption
<1>3. ASSUME NEW n \in Int PROVE Wrap(n) \in Int
  <2> DEFINE m == n + Bound
             d == 2 * Bound
  <2>1. m \in Int /\ d \in Int /\ d > 0
    BY BrevoAssumption
  <2>2. m % d \in Int
    <3> HIDE DEF m, d
    <3> QED BY <2>1
  <2> QED BY <2>2, BrevoAssumption DEF Wrap
<1> QED BY <1>2, <1>3, BrevoAssumption DEF Wait, Duration

(* The invariant holds before the first post.                              *)
LEMMA InitIInv == Init => IInv
  BY BrevoAssumption DEF Init, IInv, TypeOK, InTurn, Current, Truthful, AttemptIds, NoAnswer

(* The client's steps keep the invariant.                                  *)
LEMMA ClientStep ==
    ASSUME IInv,
           Post \/ ReceiveAccepted \/ GiveUp \/ StartWait \/ LosePost \/ Wake \/ WaitCancelled
    PROVE  IInv'
<1> USE DEF IInv, TypeOK, AttemptIds
<1>1. CASE Post
  BY <1>1, BrevoAssumption DEF Post, InTurn, Current, Truthful, NoAnswer
<1>2. CASE ReceiveAccepted
  BY <1>2, BrevoAssumption DEF ReceiveAccepted, Return, InTurn, Current, Truthful
<1>3. CASE GiveUp
  BY <1>3, BrevoAssumption DEF GiveUp, Return, InTurn, Current, Truthful
<1>4. CASE StartWait
  <2>1. wakeAt' \in Int
    BY <1>4, WaitTyping DEF StartWait, NoAnswer
  <2>2. notBefore' \in Nat
    <3>1. resp.header.secs \in Nat
      BY BrevoAssumption DEF Header, NoAnswer
    <3>2. resp.header.secs * Sec \in Nat
      BY <3>1, BrevoAssumption
    <3> QED BY <1>4, <3>2 DEF StartWait
  <2>3. resp.status \in {429, 503} /\ attempt < MaxAttempts
    BY <1>4 DEF StartWait, WillRetry, Retryable
  <2> QED
    BY <1>4, <2>1, <2>2, <2>3, BrevoAssumption DEF StartWait, InTurn, Current, Truthful
<1>5. CASE LosePost
  BY <1>5, BrevoAssumption DEF LosePost, Return, InTurn, Current, Truthful
<1>6. CASE Wake
  BY <1>6, BrevoAssumption DEF Wake, InTurn, Current, Truthful
<1>7. CASE WaitCancelled
  BY <1>7, BrevoAssumption DEF WaitCancelled, Return, InTurn, Current, Truthful
<1> QED BY <1>1, <1>2, <1>3, <1>4, <1>5, <1>6, <1>7

(* So do the API's: it decides on pending attempts only.                   *)
LEMMA ServiceStep ==
    ASSUME IInv, NEW i \in AttemptIds, Accept(i) \/ Refuse(i)
    PROVE  IInv'
<1> USE DEF IInv, TypeOK, AttemptIds
<1>1. req[i] = "pending"
  BY DEF Accept, Refuse
<1>2. i = attempt
  BY <1>1, BrevoAssumption DEF InTurn
<1>3. pc \in {"posting", "done"}
  BY <1>1, <1>2 DEF Current
<1>4. CASE Accept(i)
  <2>1. \/ resp' = resp /\ pc = "done"
        \/ \E s \in {201, 500} : resp' = [status |-> s, header |-> NoAnswer.header]
    BY <1>2, <1>3, <1>4 DEF Accept, NoAnswer
  <2>2. TypeOK'
    BY <1>1, <1>4, <2>1 DEF Accept
  <2>3. InTurn'
    BY <1>2, <1>4, BrevoAssumption DEF Accept, InTurn
  <2>4. /\ resp'.status \notin {400, 429, 503} \/ pc' = "done"
        /\ outcome' = outcome /\ last' = last /\ pc' = pc
    BY <1>2, <1>3, <1>4, <2>1 DEF Accept
  <2>5. outcome' = "error" => last' \notin {429, 503}
    BY <1>1, <1>2, <2>4 DEF Truthful
  <2>6. req'[attempt'] = "accepted"
    BY <1>2, <1>4 DEF Accept
  <2>7. Current' /\ Truthful'
    BY <1>3, <2>4, <2>5, <2>6 DEF Current, Truthful
  <2> QED BY <2>2, <2>3, <2>7
<1>5. CASE Refuse(i)
  BY <1>1, <1>2, <1>3, <1>5, BrevoAssumption
  DEF Refuse, InTurn, Current, Truthful, NoAnswer
<1> QED BY <1>4, <1>5

(* The invariant is inductive.                                             *)
LEMMA NextIInv == IInv /\ [Next]_vars => IInv'
<1> SUFFICES ASSUME IInv, [Next]_vars PROVE IInv'
  OBVIOUS
<1>1. CASE Tick
  BY <1>1 DEF Tick, IInv, TypeOK, InTurn, Current, Truthful, AttemptIds
<1>2. CASE UNCHANGED vars
  BY <1>2 DEF vars, IInv, TypeOK, InTurn, Current, Truthful, AttemptIds
<1> QED BY <1>1, <1>2, ClientStep, ServiceStep DEF Next

(* Types and the order of the attempts hold in every reachable state.      *)
THEOREM Invariance == Spec => []IInv
  BY InitIInv, NextIInv, PTL DEF Spec

(* A call that failed on a refusal has delivered nothing and will not, for *)
(* any number of attempts.                                                 *)
THEOREM RefusalsAreFinal == Spec => []RefusalIsFinal
<1>1. IInv => RefusalIsFinal
  BY DEF IInv, TypeOK, InTurn, Truthful, RefusalIsFinal, AttemptIds
<1> QED BY <1>1, Invariance, PTL

(* No step of the client outlives the deadline of the context.             *)
THEOREM CallEndsByDeadline == Spec => []EndsByDeadline
<1>1. Init => EndsByDeadline
  BY BrevoAssumption DEF Init, EndsByDeadline
<1>2. IInv /\ EndsByDeadline /\ [Next]_vars => EndsByDeadline'
  <2> SUFFICES ASSUME IInv, EndsByDeadline, [Next]_vars PROVE EndsByDeadline'
    OBVIOUS
  <2> USE DEF EndsByDeadline, IInv, TypeOK
  <2>1. CASE Tick
    BY <2>1, BrevoAssumption DEF Tick, Due
  <2>2. CASE Post \/ ReceiveAccepted \/ GiveUp \/ StartWait \/ LosePost \/ Wake \/ WaitCancelled
    BY <2>2 DEF Post, ReceiveAccepted, GiveUp, StartWait, LosePost, Wake, WaitCancelled, Return
  <2>3. ASSUME NEW i \in AttemptIds, Accept(i) \/ Refuse(i) PROVE EndsByDeadline'
    BY <2>3 DEF Accept, Refuse
  <2>4. CASE UNCHANGED vars
    BY <2>4 DEF vars
  <2> QED BY <2>1, <2>2, <2>3, <2>4 DEF Next
<1> QED BY <1>1, <1>2, Invariance, PTL DEF Spec

-----------------------------------------------------------------------------
(* Time. *)

(* What does not exceed the range of a duration is not changed by it.      *)
LEMMA WrapInRange ==
    ASSUME NEW n \in Int, -Bound <= n, n < Bound
    PROVE  Wrap(n) = n
<1>1. n + Bound \in 0..(2 * Bound - 1) /\ 2 * Bound \in Nat \ {0}
  BY BrevoAssumption
<1>2. \A m \in Nat \ {0}, x \in Nat : x < m => x % m = x
  BY SMT
<1>3. (n + Bound) % (2 * Bound) = n + Bound
  BY <1>1, <1>2
<1> QED BY <1>3, BrevoAssumption DEF Wrap

(* Where the headers fit, a wait is what the header says.                  *)
LEMMA WaitAsAsked ==
    ASSUME HeadersFit, NEW h \in Headers \cup {NoAnswer.header}
    PROVE  /\ Wait(h) \in 0..(Bound - 1)
           /\ Wait(h) = IF h.form = "secs" THEN h.secs * Sec ELSE Backoff
<1>1. CASE h.form = "secs"
  <2>1. h.secs * Sec \in 0..(Bound - 1)
    <3>1. h \in Headers /\ h.secs \in Nat
      BY <1>1, BrevoAssumption DEF Header, NoAnswer
    <3>2. h.secs * Sec \in Nat /\ h.secs * Sec < Bound
      BY <1>1, <3>1, BrevoAssumption DEF HeadersFit
    <3> QED BY <3>2, BrevoAssumption
  <2>2. Wrap(h.secs * Sec) = h.secs * Sec
    <3> DEFINE n == h.secs * Sec
    <3>1. n \in Int /\ -Bound <= n /\ n < Bound
      BY <2>1, BrevoAssumption
    <3> HIDE DEF n
    <3>2. Wrap(n) = n
      BY <3>1, WrapInRange
    <3> QED BY <3>2 DEF n
  <2> QED BY <1>1, <2>1, <2>2 DEF Wait, Duration
<1>2. CASE h.form # "secs"
  BY <1>2, BrevoAssumption DEF Wait
<1> QED BY <1>1, <1>2

(* A wait that begins in time ends with room for a retry, or after the     *)
(* deadline.                                                               *)
LEMMA WaitHasRoom ==
    ASSUME HeadersFit, DeadlineFits, IInv, EndsByDeadline, StartWait
    PROVE  /\ now' <= wakeAt'
           /\ wakeAt' + Sec <= Timeout \/ wakeAt' > Timeout
<1> DEFINE w == Wait(resp.header)
<1>1. now \in Nat /\ now <= Timeout
  BY BrevoAssumption DEF StartWait, IInv, TypeOK, EndsByDeadline
<1>2. w \in 0..(Bound - 1)
  BY WaitAsAsked DEF IInv, TypeOK
<1>3. /\ now' = now /\ wakeAt' = now + w
      /\ Timeout - now >= Wrap(w + Sec)
  BY DEF StartWait, WillRetry, RoomFor, IInv, TypeOK
<1> HIDE DEF w
<1>4. CASE w + Sec < Bound
  <2>1. Wrap(w + Sec) = w + Sec
    BY <1>2, <1>4, WrapInRange, BrevoAssumption
  <2> QED BY <1>1, <1>2, <1>3, <2>1, BrevoAssumption
<1>5. CASE w + Sec >= Bound
  BY <1>1, <1>2, <1>3, <1>5, BrevoAssumption DEF DeadlineFits
<1> QED BY <1>2, <1>4, <1>5, BrevoAssumption

(* The wait for a number of seconds lasts them.                            *)
LEMMA WaitIsPatient ==
    ASSUME HeadersFit, \A h \in Headers : h.form # "date", IInv, StartWait
    PROVE  wakeAt' >= notBefore'
<1> DEFINE h == resp.header
<1>1. /\ h \in Headers \cup {NoAnswer.header} /\ h.secs \in Nat /\ h.form \in {"none", "secs"}
  BY BrevoAssumption DEF IInv, TypeOK, Header, NoAnswer
<1>2. /\ Wait(h) \in 0..(Bound - 1)
      /\ Wait(h) = IF h.form = "secs" THEN h.secs * Sec ELSE Backoff
  BY <1>1, WaitAsAsked
<1>3. /\ now \in Nat /\ wakeAt' = now + Wait(h)
      /\ notBefore' = IF h.form = "none" THEN now ELSE now + h.secs * Sec
  BY DEF StartWait, IInv, TypeOK
<1> HIDE DEF h
<1>4. CASE h.form = "none"
  BY <1>2, <1>3, <1>4, BrevoAssumption
<1>5. CASE h.form = "secs"
  BY <1>2, <1>3, <1>5
<1> QED BY <1>1, <1>4, <1>5

(* A retry is posted with at least a second left before the deadline, for  *)
(* any headers and deadline that durations can hold.                       *)
THEOREM RetriesHaveRoom == HeadersFit /\ DeadlineFits => (Spec => []RetryHasRoom)
<1> SUFFICES ASSUME HeadersFit, DeadlineFits PROVE Spec => []RetryHasRoom
  OBVIOUS
<1>1. Init => RoomInv
  BY BrevoAssumption DEF Init, RoomInv, RetryHasRoom
<1>2. IInv /\ EndsByDeadline /\ RoomInv /\ [Next]_vars => RoomInv'
  <2> SUFFICES ASSUME IInv, EndsByDeadline, RoomInv, [Next]_vars PROVE RoomInv'
    OBVIOUS
  <2> USE DEF RoomInv, RetryHasRoom
  <2>1. CASE Post \/ ReceiveAccepted \/ GiveUp \/ LosePost \/ WaitCancelled
    BY <2>1 DEF Post, ReceiveAccepted, GiveUp, LosePost, WaitCancelled, Return
  <2>2. CASE StartWait
    BY <2>2, WaitHasRoom DEF StartWait
  <2>3. CASE Wake
    <3>1. now \in Nat /\ wakeAt \in Int /\ now <= Timeout
      BY <2>3, BrevoAssumption DEF Wake, EndsByDeadline, IInv, TypeOK
    <3>2. now = wakeAt /\ wakeAt + Sec <= Timeout
      BY <2>3, <3>1, BrevoAssumption DEF Wake
    <3>3. pc' = "post" /\ now' = now
      BY <2>3 DEF Wake
    <3> QED BY <3>1, <3>2, <3>3, BrevoAssumption
  <2>4. CASE Tick
    BY <2>4 DEF Tick, Due, IInv, TypeOK
  <2>5. ASSUME NEW i \in AttemptIds, Accept(i) \/ Refuse(i) PROVE RoomInv'
    BY <2>5 DEF Accept, Refuse
  <2>6. CASE UNCHANGED vars
    BY <2>6 DEF vars
  <2> QED BY <2>1, <2>2, <2>3, <2>4, <2>5, <2>6 DEF Next
<1>3. RoomInv => RetryHasRoom
  BY DEF RoomInv
<1> QED BY <1>1, <1>2, <1>3, Invariance, CallEndsByDeadline, PTL DEF Spec

(* No retry is earlier than the number of seconds the API asked for, for   *)
(* any such numbers that durations can hold; a date is not honoured.       *)
THEOREM RetriesAreNotEarly ==
    HeadersFit /\ (\A h \in Headers : h.form # "date") => (Spec => []RetryNotEarly)
<1> SUFFICES ASSUME HeadersFit, \A h \in Headers : h.form # "date" PROVE Spec => []RetryNotEarly
  OBVIOUS
<1>1. Init => PatienceInv
  BY BrevoAssumption DEF Init, PatienceInv, RetryNotEarly
<1>2. IInv /\ PatienceInv /\ [Next]_vars => PatienceInv'
  <2> SUFFICES ASSUME IInv, PatienceInv, [Next]_vars PROVE PatienceInv'
    OBVIOUS
  <2> USE DEF PatienceInv, RetryNotEarly
  <2>1. CASE Post \/ ReceiveAccepted \/ GiveUp \/ LosePost \/ WaitCancelled
    BY <2>1 DEF Post, ReceiveAccepted, GiveUp, LosePost, WaitCancelled, Return
  <2>2. CASE StartWait
    BY <2>2, WaitIsPatient DEF StartWait
  <2>3. CASE Wake
    BY <2>3 DEF Wake, IInv, TypeOK
  <2>4. CASE Tick
    BY <2>4 DEF Tick, Due
  <2>5. ASSUME NEW i \in AttemptIds, Accept(i) \/ Refuse(i) PROVE PatienceInv'
    BY <2>5 DEF Accept, Refuse
  <2>6. CASE UNCHANGED vars
    BY <2>6 DEF vars
  <2> QED BY <2>1, <2>2, <2>3, <2>4, <2>5, <2>6 DEF Next
<1>3. PatienceInv => RetryNotEarly
  BY DEF PatienceInv
<1> QED BY <1>1, <1>2, <1>3, Invariance, PTL DEF Spec

-----------------------------------------------------------------------------
(* The contract. *)

(* What is accepted is accepted in the current attempt.                    *)
LEMMA MailsOf ==
    IInv => Cardinality(Accepted) = IF req[attempt] = "accepted" THEN 1 ELSE 0
<1> SUFFICES ASSUME IInv
             PROVE  Cardinality(Accepted) = IF req[attempt] = "accepted" THEN 1 ELSE 0
  OBVIOUS
<1>1. CASE req[attempt] = "accepted"
  <2>1. Accepted = {attempt}
    BY <1>1, BrevoAssumption DEF BrevoAssumption, IInv, TypeOK, InTurn, Accepted, AttemptIds
  <2>2. Cardinality({attempt}) = 1
    BY FS_Singleton
  <2> QED BY <1>1, <2>1, <2>2
<1>2. CASE req[attempt] # "accepted"
  <2>1. Accepted = {}
    BY <1>2, BrevoAssumption DEF BrevoAssumption, IInv, TypeOK, InTurn, Accepted, AttemptIds
  <2> QED BY <1>2, <2>1, FS_EmptySet
<1> QED BY <1>1, <1>2

(* A call begins with nothing delivered and nothing reported.              *)
LEMMA InitRefines == Init => Contract!Init
<1> SUFFICES ASSUME Init PROVE Contract!Init
  OBVIOUS
<1>1. Accepted = {}
  BY DEF Init, Accepted
<1> QED BY <1>1, FS_EmptySet DEF Init, Contract!Init

(* Every step of the call or the API is a step of the contract or none.    *)
LEMMA NextRefines ==
    ASSUME IInv, IInv', [Next]_vars
    PROVE  [Contract!Next]_(Contract!vars)
<1> DEFINE Mails == IF req[attempt] = "accepted" THEN 1 ELSE 0
           Report == IF outcome = "ok" THEN "sent"
                     ELSE IF outcome = "error" THEN "failed" ELSE "none"
<1>1. Cardinality(Accepted) = Mails
  BY MailsOf
<1>2. Cardinality(Accepted)' = Mails'
  <2>1. IInv' => (Cardinality(Accepted) = Mails)'
    BY MailsOf, PTL
  <2> QED BY <2>1
<1>3. \/ Mails' = Mails /\ Report' = Report
      \/ Mails = 0 /\ Mails' = 1 /\ Report' = Report
      \/ Report = "none" /\ Mails = 1 /\ Report' = "sent" /\ Mails' = Mails
      \/ Report = "none" /\ Report' = "failed" /\ Mails' = Mails
  <2> USE DEF IInv, TypeOK, Current, AttemptIds
  <2>1. CASE Tick
    BY <2>1 DEF Tick
  <2>2. CASE Post
    BY <2>2 DEF Post
  <2>3. CASE ReceiveAccepted
    BY <2>3 DEF ReceiveAccepted, Return
  <2>4. CASE GiveUp \/ LosePost \/ WaitCancelled
    BY <2>4 DEF GiveUp, LosePost, WaitCancelled, Return
  <2>5. CASE StartWait
    BY <2>5 DEF StartWait
  <2>6. CASE Wake
    <3>1. req[attempt] = "refused" /\ attempt + 1 \in AttemptIds
      BY <2>6, BrevoAssumption DEF Wake
    <3>2. req[attempt + 1] = "unsent"
      BY <3>1, BrevoAssumption DEF InTurn
    <3> QED BY <2>6, <3>1, <3>2 DEF Wake
  <2>7. ASSUME NEW i \in AttemptIds, Accept(i) \/ Refuse(i)
        PROVE  /\ Report' = Report
               /\ Mails' = Mails \/ (Mails = 0 /\ Mails' = 1)
    <3>1. /\ req[i] = "pending" /\ UNCHANGED <<attempt, outcome>>
          /\ \/ req' = [req EXCEPT ![i] = "accepted"]
             \/ req' = [req EXCEPT ![i] = "refused"]
      BY <2>7 DEF Accept, Refuse
    <3>2. CASE i = attempt
      BY <3>1, <3>2
    <3>3. CASE i # attempt
      BY <3>1, <3>3
    <3> QED BY <3>2, <3>3
  <2>8. CASE UNCHANGED vars
    BY <2>8 DEF vars
  <2> QED BY <2>1, <2>2, <2>3, <2>4, <2>5, <2>6, <2>7, <2>8 DEF Next
<1> HIDE DEF Mails, Report
<1>4. CASE Mails' = Mails /\ Report' = Report
  BY <1>1, <1>2, <1>4 DEF Contract!vars, Report
<1>5. CASE Mails = 0 /\ Mails' = 1 /\ Report' = Report
  BY <1>1, <1>2, <1>5 DEF Contract!Next, Contract!Deliver, Report
<1>6. CASE Report = "none" /\ Mails = 1 /\ Report' = "sent" /\ Mails' = Mails
  BY <1>1, <1>2, <1>6 DEF Contract!Next, Contract!ReportSent, Report
<1>7. CASE Report = "none" /\ Report' = "failed" /\ Mails' = Mails
  BY <1>1, <1>2, <1>7 DEF Contract!Next, Contract!ReportFailed, Report
<1> QED BY <1>3, <1>4, <1>5, <1>6, <1>7

(* One call delivers at most one mail in all its attempts and reports      *)
(* success only of a mail that was accepted: the contract notifySales      *)
(* relies on.                                                              *)
THEOREM Refinement == Spec => ImplementsContract
<1>1. IInv /\ IInv' /\ [Next]_vars => [Contract!Next]_(Contract!vars)
  BY NextRefines
<1> QED BY InitRefines, <1>1, Invariance, PTL DEF Spec, ImplementsContract, Contract!Spec
=============================================================================
