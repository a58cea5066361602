---------------------------- MODULE QuoteRateProofs ----------------------------
(***************************************************************************)
(* The overrun of the hourly limit is bounded, for any limit, any number   *)
(* of submissions and any faults.                                          *)
(***************************************************************************)
EXTENDS QuoteRate, QuoteHandlerProofs, FiniteSetTheorems

(* A step of the history keeps the specification of the handlers.           *)
LEMMA RateKeepsIInv == RateSpec => []IInv
  <1>1. RateInit => Init
    BY DEF RateInit
  <1>2. [RateNext]_rateVars => [Next]_vars
    BY DEF RateNext, rateVars
  <1> QED
    BY <1>1, <1>2, InitIInv, NextIInv, PTL DEF RateSpec

(* The sets that RateBound counts are finite.                               *)
LEMMA RateFinite ==
    ASSUME IsFiniteSet(quotes), NEW ip
    PROVE  /\ IsFiniteSet(Racing(ip)) /\ Cardinality(Racing(ip)) \in Nat
           /\ IsFiniteSet(Recent(ip)) /\ Cardinality(Recent(ip)) \in Nat
           /\ IsFiniteSet(Counted(ip)) /\ Cardinality(Counted(ip)) \in Nat
           /\ Cardinality(Counted(ip)) <= Cardinality(Recent(ip))
  <1>1. Racing(ip) \subseteq Requests
    BY DEF Racing
  <1>2. Recent(ip) \subseteq quotes /\ Counted(ip) \subseteq Recent(ip)
    BY DEF Recent, Counted
  <1>3. IsFiniteSet(Racing(ip)) /\ IsFiniteSet(Recent(ip))
    BY <1>1, <1>2, RateAssumption, FS_Subset DEF RateAssumption
  <1>4. IsFiniteSet(Counted(ip)) /\ Cardinality(Counted(ip)) <= Cardinality(Recent(ip))
    BY <1>2, <1>3, FS_Subset
  <1> QED
    BY <1>3, <1>4, FS_CardinalityType

(* No run has passed the rate limit before the first request.              *)
THEOREM InitRateInv == RateInit => RateInv
  <1> SUFFICES ASSUME RateInit PROVE RateInv
    OBVIOUS
  <1>1. RateTypeOK
    BY InitIInv DEF RateInit, RateTypeOK, IInv
  <1>2. IsFiniteSet(quotes)
    BY FS_EmptySet DEF RateInit, Init
  <1>3. \A ip \in Addrs : Racing(ip) = {} /\ Counted(ip) = {} /\ peak[ip] = 0
    BY DEF RateInit, Init, Racing, Counted, Recent
  <1>4. \A ip \in Addrs : Cardinality(Racing(ip)) = 0 /\ Cardinality(Counted(ip)) = 0
    BY <1>3, FS_EmptySet
  <1>5. RateBound
    <2>1. ASSUME NEW ip \in Addrs
          PROVE  /\ Cardinality(Counted(ip)) = 0 /\ Cardinality(Racing(ip)) = 0
                 /\ Larger(peak[ip], 1) = 1
      BY <1>3, <1>4 DEF Larger
    <2>2. Limit \in Nat
      BY HandlerAssumption DEF HandlerAssumption
    <2>3. ASSUME NEW ip \in Addrs, Limit > 0
          PROVE  Cardinality(Counted(ip)) + Cardinality(Racing(ip))
                   <= (Limit - 1) + Larger(peak[ip], 1)
      BY <2>1, <2>2, <2>3
    <2> QED
      BY <2>3 DEF RateBound
  <1>6. \A q \in late : q.owner \in slipped
    BY DEF RateInit, Init
  <1> QED
    BY <1>1, <1>2, <1>3, <1>4, <1>5, <1>6 DEF RateInv

(* The bound survives when both sets shrink, or when the recent leads are   *)
(* below the limit.                                                         *)
BoundAt(ip) ==
    Cardinality(Counted(ip)) + Cardinality(Racing(ip)) <= (Limit - 1) + Larger(peak[ip], 1)

(* Leads leaving the hour and runs that end without an insert never break  *)
(* the bound on an address.                                                *)
LEMMA BoundByShrinking ==
    ASSUME NEW ip \in Addrs, IsFiniteSet(quotes), IsFiniteSet(quotes'),
           peak[ip] \in Nat, peak'[ip] \in Nat, peak'[ip] >= peak[ip],
           Counted(ip)' \subseteq Counted(ip), Racing(ip)' \subseteq Racing(ip), BoundAt(ip)
    PROVE  BoundAt(ip)'
  <1>1. /\ Cardinality(Counted(ip)') <= Cardinality(Counted(ip))
        /\ Cardinality(Racing(ip)') <= Cardinality(Racing(ip))
    BY RateFinite, FS_Subset
  <1>2. /\ Cardinality(Counted(ip)') \in Nat /\ Cardinality(Racing(ip)') \in Nat
    BY RateFinite, FS_Subset, FS_CardinalityType
  <1>3. Cardinality(Counted(ip)) \in Nat /\ Cardinality(Racing(ip)) \in Nat
    BY RateFinite
  <1> QED
    BY <1>1, <1>2, <1>3, HandlerAssumption DEF HandlerAssumption, BoundAt, Larger

-----------------------------------------------------------------------------
(* What the steps of the handlers do to the counted sets. *)

(* Runs keep what they have slipped by, and the peak never falls.           *)
LEMMA HistoryGrows ==
    ASSUME RateTypeOK, TypeOK', RateNext
    PROVE  /\ slipped \subseteq slipped' /\ slipped' \subseteq Requests
           /\ peak' \in [Addrs -> Nat]
           /\ \A ip \in Addrs : peak'[ip] >= peak[ip] /\ peak'[ip] >= Cardinality(Racing(ip)')
  <1>1. slipped \subseteq slipped'
    BY DEF RateNext
  <1>2. slipped' \subseteq Requests
    <2>1. late' \subseteq Row
      BY DEF TypeOK
    <2> QED
      BY <2>1 DEF RateNext, RateTypeOK, Row
  <1>3. ASSUME NEW ip \in Addrs PROVE Cardinality(Racing(ip)') \in Nat
    <2>1. Racing(ip)' \subseteq Requests
      BY DEF Racing
    <2> QED
      BY <2>1, RateAssumption, FS_Subset, FS_CardinalityType DEF RateAssumption
  <1>4. \A ip \in Addrs : peak'[ip] = Larger(peak[ip], Cardinality(Racing(ip)'))
    BY DEF RateNext
  <1> QED
    BY <1>1, <1>2, <1>3, <1>4 DEF RateNext, RateTypeOK, Larger

(* A step that lets no run of ip through to its insert and adds no counted  *)
(* lead of ip keeps the bound.                                              *)
LEMMA QuietBound ==
    ASSUME RateInv, TypeOK', RateNext, IsFiniteSet(quotes'), NEW ip \in Addrs, BoundAt(ip),
           UNCHANGED sub, now' >= now,
           \A r \in Requests : pc'[r] = "save" =>
               pc[r] = "save" \/ r \in slipped' \/ ClientIP(sub[r]) # ip,
           \A q \in quotes' : q \in quotes \/ q.owner \in slipped' \/ q.ip # ip
    PROVE  BoundAt(ip)'
  <1>1. /\ slipped \subseteq slipped'
        /\ peak[ip] \in Nat /\ peak'[ip] \in Nat /\ peak'[ip] >= peak[ip]
    BY HistoryGrows DEF RateInv, RateTypeOK
  <1>2. Racing(ip)' \subseteq Racing(ip)
    BY <1>1 DEF Racing
  <1>3. Counted(ip)' \subseteq Counted(ip)
    <2>1. Window \in Nat /\ now \in Nat /\ now' \in Nat
      BY HandlerAssumption DEF HandlerAssumption, RateInv, RateTypeOK, TypeOK
    <2>2. \A q \in quotes : q.at \in Nat
      BY HandlerAssumption DEF HandlerAssumption, RateInv, RateTypeOK, TypeOK, Row
    <2> QED
      BY <1>1, <2>1, <2>2 DEF Counted, Recent
  <1> QED
    BY <1>1, <1>2, <1>3, BoundByShrinking DEF RateInv

(* A step after which fewer than Limit leads of ip are recent keeps it.     *)
LEMMA BelowLimitBound ==
    ASSUME RateInv, TypeOK', RateNext, IsFiniteSet(quotes'), NEW ip \in Addrs,
           Cardinality(Recent(ip)') < Limit
    PROVE  BoundAt(ip)'
  <1>1. peak'[ip] \in Nat /\ peak'[ip] >= Cardinality(Racing(ip)')
    BY HistoryGrows DEF RateInv
  <1>2. /\ Cardinality(Racing(ip)') \in Nat
        /\ Cardinality(Counted(ip)') \in Nat /\ Cardinality(Recent(ip)') \in Nat
        /\ Cardinality(Counted(ip)') <= Cardinality(Recent(ip)')
    <2>1. Racing(ip)' \subseteq Requests
      BY DEF Racing
    <2>2. Recent(ip)' \subseteq quotes' /\ Counted(ip)' \subseteq Recent(ip)'
      BY DEF Recent, Counted
    <2>3. IsFiniteSet(Racing(ip)') /\ IsFiniteSet(Recent(ip)')
      BY <2>1, <2>2, RateAssumption, FS_Subset DEF RateAssumption
    <2> QED
      BY <2>2, <2>3, FS_Subset, FS_CardinalityType
  <1>3. Limit \in Nat
    BY HandlerAssumption DEF HandlerAssumption
  <1> QED
    BY <1>1, <1>2, <1>3 DEF BoundAt, Larger

(* One more element adds at most one to the cardinality.                    *)
LEMMA CardinalityOfOneMore ==
    ASSUME NEW S, IsFiniteSet(S), NEW x
    PROVE  /\ IsFiniteSet(S \cup {x})
           /\ Cardinality(S \cup {x}) <= Cardinality(S) + 1
           /\ Cardinality(S \cup {x}) \in Nat
  <1>1. Cardinality(S) \in Nat
    BY FS_CardinalityType
  <1>2. CASE x \in S
    <2>1. S \cup {x} = S
      BY <1>2
    <2>2. Cardinality(S \cup {x}) = Cardinality(S)
      BY <2>1, Zenon
    <2>3. IsFiniteSet(S \cup {x})
      BY <2>1, Zenon
    <2> QED
      BY <1>1, <2>2, <2>3
  <1>3. CASE x \notin S
    BY <1>1, <1>3, FS_AddElement
  <1> QED
    BY <1>2, <1>3

(* An insert turns a racing run into a counted lead: the sum stays.         *)
LEMMA InsertBound ==
    ASSUME RateInv, TypeOK', RateNext, IsFiniteSet(quotes'), NEW ip \in Addrs, BoundAt(ip),
           NEW r \in Requests, InsertCommits(r), r \in Racing(ip)
    PROVE  BoundAt(ip)'
  <1>1. PICK n \in Refs : quotes' = quotes \cup {NewRow(r, n)}
    BY DEF InsertCommits
  <1>2. pc' = [pc EXCEPT ![r] = "send"] /\ UNCHANGED <<sub, now>>
    BY DEF InsertCommits, Goto
  <1>3. /\ slipped \subseteq slipped'
        /\ peak[ip] \in Nat /\ peak'[ip] \in Nat /\ peak'[ip] >= peak[ip]
    BY HistoryGrows DEF RateInv, RateTypeOK
  <1>4. Racing(ip)' \subseteq Racing(ip) \ {r}
    BY <1>2, <1>3 DEF Racing, RateInv, RateTypeOK, TypeOK
  <1>5. Counted(ip)' \subseteq Counted(ip) \cup {NewRow(r, n)}
    BY <1>1, <1>2, <1>3 DEF Counted, Recent
  <1>6. /\ IsFiniteSet(Racing(ip)) /\ Cardinality(Racing(ip)) \in Nat
        /\ IsFiniteSet(Counted(ip)) /\ Cardinality(Counted(ip)) \in Nat
    BY RateFinite DEF RateInv
  <1>7. /\ IsFiniteSet(Racing(ip) \ {r})
        /\ Cardinality(Racing(ip) \ {r}) = Cardinality(Racing(ip)) - 1
    BY <1>6, FS_RemoveElement
  <1>8. /\ IsFiniteSet(Counted(ip) \cup {NewRow(r, n)})
        /\ Cardinality(Counted(ip) \cup {NewRow(r, n)}) <= Cardinality(Counted(ip)) + 1
        /\ Cardinality(Counted(ip) \cup {NewRow(r, n)}) \in Nat
    BY <1>6, CardinalityOfOneMore
  <1>9. /\ Cardinality(Racing(ip)') <= Cardinality(Racing(ip)) - 1
        /\ Cardinality(Racing(ip)') \in Nat
    BY <1>4, <1>7, FS_Subset, FS_CardinalityType
  <1>10. /\ Cardinality(Counted(ip)') <= Cardinality(Counted(ip)) + 1
         /\ Cardinality(Counted(ip)') \in Nat
    <2>1. /\ IsFiniteSet(Counted(ip)')
          /\ Cardinality(Counted(ip)') <= Cardinality(Counted(ip) \cup {NewRow(r, n)})
      BY <1>5, <1>8, FS_Subset
    <2> QED
      BY <1>6, <1>8, <2>1, FS_CardinalityType
  <1>11. Limit \in Nat
    BY HandlerAssumption DEF HandlerAssumption
  <1>12. Larger(peak[ip], 1) <= Larger(peak'[ip], 1) /\ Larger(peak[ip], 1) \in Nat
         /\ Larger(peak'[ip], 1) \in Nat
    BY <1>3 DEF Larger
  <1>13. Cardinality(Counted(ip)) + Cardinality(Racing(ip)) <= (Limit - 1) + Larger(peak[ip], 1)
    BY DEF BoundAt
  <1>14. Cardinality(Counted(ip)') + Cardinality(Racing(ip)')
           <= (Limit - 1) + Larger(peak'[ip], 1)
    BY <1>6, <1>9, <1>10, <1>11, <1>12, <1>13
  <1> QED
    BY <1>14 DEF BoundAt

(* A run let through on its count finds fewer than Limit recent leads.      *)
LEMMA PassBound ==
    ASSUME RateInv, TypeOK', RateNext, IsFiniteSet(quotes'), NEW ip \in Addrs, BoundAt(ip),
           Limit > 0, NEW r \in Requests, PassLimit(r) \/ FailOpen(r)
    PROVE  BoundAt(ip)'
  <1>1. /\ pc[r] = "rate" /\ pc' = [pc EXCEPT ![r] = "save"]
        /\ UNCHANGED <<sub, quotes, now>>
    BY DEF PassLimit, FailOpen, Goto, store
  <1>2. CASE ClientIP(sub[r]) # ip \/ OverLimit(r)
    <2>1. OverLimit(r) => r \in slipped'
      BY <1>1 DEF RateNext, RateInv, RateTypeOK, TypeOK
    <2>2. \A x \in Requests : pc'[x] = "save" =>
              pc[x] = "save" \/ x \in slipped' \/ ClientIP(sub[x]) # ip
      BY <1>1, <1>2, <2>1 DEF RateInv, RateTypeOK, TypeOK
    <2>3. now' >= now
      BY <1>1 DEF TypeOK, RateInv, RateTypeOK
    <2> QED
      BY <1>1, <2>2, <2>3, QuietBound
  <1>3. CASE ClientIP(sub[r]) = ip /\ ~OverLimit(r)
    <2>1. ~(Cardinality(Recent(ip)) >= Limit)
      BY <1>3 DEF OverLimit
    <2>2. Cardinality(Recent(ip)) < Limit
      BY <2>1, RateFinite, HandlerAssumption DEF HandlerAssumption, RateInv
    <2>3. Recent(ip)' = Recent(ip)
      BY <1>1 DEF Recent
    <2>4. Cardinality(Recent(ip)') < Limit
      BY <2>2, <2>3, Zenon
    <2> QED
      BY <2>4, BelowLimitBound
  <1> QED
    BY <1>2, <1>3

(* The rows stay finite in number.                                          *)
LEMMA RowsFinite == IsFiniteSet(quotes) /\ [Next]_vars => IsFiniteSet(quotes')
  <1> SUFFICES ASSUME IsFiniteSet(quotes), [Next]_vars PROVE IsFiniteSet(quotes')
    OBVIOUS
  <1>1. quotes' = quotes \/ \E q : quotes' = quotes \cup {q}
    BY DEF Next, Refuse, Admit, Proceeds, RefuseOverLimit, PassLimit, FailOpen, Save,
           InsertCommits, InsertCollides, InsertFails, InsertTimesOut, Notify, SendSucceeds,
           SendFails, Record, RecordEvent, RecordFails, Respond, Leave,
           Kill, LateCommit, LateDrop, LateDelivery, Tick, vars, store
  <1> QED
    BY <1>1, CardinalityOfOneMore

(* Every step of the handlers keeps the bound on every address: a run that *)
(* passes the limit counted fewer than Limit leads, and an insert turns a  *)
(* run on its way into a lead.                                             *)
THEOREM NextRateInv == IInv /\ IInv' /\ RateInv /\ [RateNext]_rateVars => RateInv'
  <1> SUFFICES ASSUME IInv, IInv', RateInv, [RateNext]_rateVars PROVE RateInv'
    OBVIOUS
  <1>1. CASE UNCHANGED rateVars
    BY <1>1, Zenon DEF rateVars, vars, run, store, RateInv, RateTypeOK, IInv, RateBound, Counted, Recent,
                Racing
  <1>2. CASE RateNext
    <2>1. Next /\ TypeOK' /\ IsFiniteSet(quotes')
      BY <1>2, RowsFinite DEF RateNext, IInv, RateInv
    <2>2. RateTypeOK'
      BY <1>2, <2>1, HistoryGrows DEF RateInv, RateTypeOK
    <2>3. (\A ip \in Addrs : Cardinality(Racing(ip)) <= peak[ip])'
      <3>1. ASSUME NEW ip \in Addrs PROVE Cardinality(Racing(ip)') <= peak'[ip]
        <4>1. Racing(ip)' \subseteq Requests
          BY DEF Racing
        <4>2. Cardinality(Racing(ip)') \in Nat
          BY <4>1, RateAssumption, FS_Subset, FS_CardinalityType DEF RateAssumption
        <4>3. peak'[ip] \in Nat /\ peak'[ip] >= Cardinality(Racing(ip)')
          BY <1>2, <2>1, HistoryGrows DEF RateInv
        <4> QED
          BY <4>2, <4>3
      <3> QED
        BY <3>1
    <2>4. (\A q \in late : q.owner \in slipped)'
      BY <1>2 DEF RateNext
    <2>5. ASSUME NEW ip \in Addrs, Limit > 0 PROVE BoundAt(ip)'
      <3>1. BoundAt(ip)
        BY <2>5 DEF RateInv, RateBound, BoundAt
      <3>2. ASSUME NEW r \in Requests, PassLimit(r) \/ FailOpen(r) PROVE BoundAt(ip)'
        BY <1>2, <2>1, <2>5, <3>1, <3>2, PassBound
      <3>3. ASSUME NEW r \in Requests, InsertCommits(r), r \in Racing(ip) PROVE BoundAt(ip)'
        BY <1>2, <2>1, <2>5, <3>1, <3>3, InsertBound
      <3>q. ASSUME UNCHANGED sub, now' >= now,
                   \A x \in Requests : pc'[x] = "save" => pc[x] = "save",
                   \A q \in quotes' : q \in quotes \/ q.owner \in slipped' \/ q.ip # ip
            PROVE  BoundAt(ip)'
        BY <1>2, <2>1, <2>5, <3>1, <3>q, QuietBound
      <3>n. now \in Nat /\ now' \in Nat
        BY <2>1, HandlerAssumption DEF HandlerAssumption, RateInv, RateTypeOK, TypeOK
      <3>4. ASSUME NEW r \in Requests, InsertCommits(r), r \notin Racing(ip) PROVE BoundAt(ip)'
        <4>1. PICK n \in Refs : quotes' = quotes \cup {NewRow(r, n)}
          BY <3>4 DEF InsertCommits
        <4>2. pc[r] = "save" /\ pc' = [pc EXCEPT ![r] = "send"] /\ UNCHANGED <<sub, now>>
          BY <3>4 DEF InsertCommits, Goto
        <4>3. slipped \subseteq slipped'
          BY <1>2 DEF RateNext
        <4>4. r \in slipped' \/ ClientIP(sub[r]) # ip
          BY <3>4, <4>2, <4>3 DEF Racing
        <4>5. NewRow(r, n).owner \in slipped' \/ NewRow(r, n).ip # ip
          BY <4>4 DEF NewRow
        <4>6. \A x \in Requests : pc'[x] = "save" => pc[x] = "save"
          BY <4>2 DEF RateInv, RateTypeOK, TypeOK
        <4> QED
          BY <3>q, <3>n, <4>1, <4>2, <4>5, <4>6
      <3>5. ASSUME NEW q \in late, LateCommit(q) PROVE BoundAt(ip)'
        <4>1. /\ quotes' = quotes \cup {q} /\ UNCHANGED <<sub, pc, now>>
              /\ q.owner \in slipped'
          BY <1>2, <3>5 DEF LateCommit, RateInv, RateNext
        <4> QED
          BY <3>q, <3>n, <4>1
      <3>6. ASSUME NEW r \in Requests,
                   \/ Refuse(r) \/ Admit(r) \/ RefuseOverLimit(r) \/ InsertCollides(r)
                   \/ InsertFails(r) \/ InsertTimesOut(r) \/ Notify(r) \/ Record(r)
                   \/ Respond(r) \/ Leave(r) \/ Kill(r) \/ LateDelivery(r)
            PROVE  BoundAt(ip)'
        <4>1. UNCHANGED <<sub, quotes, now>>
          BY <3>6 DEF Refuse, Admit, RefuseOverLimit, InsertCollides, InsertFails,
                InsertTimesOut, Notify, SendSucceeds, SendFails, Record,
                RecordEvent, RecordFails, Respond, Leave, Kill, LateDelivery, store
        <4>2. \A x \in Requests : pc'[x] = "save" => pc[x] = "save"
          <5>1. CASE Refuse(r) \/ RefuseOverLimit(r) \/ Respond(r)
            BY <5>1 DEF Refuse, RefuseOverLimit, Respond, Answer, Goto, RateInv, RateTypeOK, TypeOK
          <5>2. CASE InsertCollides(r) \/ InsertFails(r) \/ InsertTimesOut(r)
            BY <5>2 DEF InsertCollides, InsertFails, InsertTimesOut, RetryOrGiveUp, Answer,
                        Goto, RateInv, RateTypeOK, TypeOK
          <5>3. CASE Admit(r)
            BY <2>5, <5>3 DEF Admit, Goto, RateInv, RateTypeOK, TypeOK
          <5>4. CASE Notify(r) \/ Record(r) \/ Leave(r) \/ Kill(r) \/ LateDelivery(r)
            BY <5>4 DEF Notify, SendSucceeds, SendFails, Record, RecordEvent,
                        RecordFails, Leave, Kill, LateDelivery, Goto, RateInv, RateTypeOK, TypeOK
          <5> QED
            BY <3>6, <5>1, <5>2, <5>3, <5>4
        <4> QED
          BY <3>q, <3>n, <4>1, <4>2
      <3>7. CASE Tick
        BY <3>q, <3>n, <3>7 DEF Tick, run, store
      <3>8. ASSUME NEW q \in late, LateDrop(q) PROVE BoundAt(ip)'
        BY <3>q, <3>n, <3>8 DEF LateDrop
      <3> QED
        BY <2>1, <3>2, <3>3, <3>4, <3>5, <3>6, <3>7, <3>8 DEF Next, Proceeds, Save
    <2>6. RateBound'
      BY <2>5 DEF RateBound, BoundAt
    <2> QED
      BY <2>1, <2>2, <2>3, <2>4, <2>6 DEF RateInv
  <1> QED
    BY <1>1, <1>2

(* An address overruns the hourly limit by less than the number of its runs *)
(* that were ever between the count and the insert at once.                 *)
THEOREM LimitOverrunBounded == RateSpec => []RateBound
  <1>1. RateInv => RateBound
    BY DEF RateInv
  <1> QED
    BY <1>1, InitRateInv, NextRateInv, RateKeepsIInv, PTL DEF RateSpec
-----------------------------------------------------------------------------
(* Where the hourly limit does hold. *)

(* The count answers, no insert times out and no process dies. *)
EveryStepJudged == Faults \cap {"count", "timeout", "kill"} = {}

(* No run has got past the rate limit without its judgement. *)
NoneSlipped == slipped = {} /\ late = {}

(* Without those faults a run reaches its insert only below the limit, and  *)
(* no insert outlives its run.                                              *)
LEMMA NoneSlippedKept ==
    ASSUME EveryStepJudged, TypeOK, NoneSlipped, [RateNext]_rateVars
    PROVE  NoneSlipped'
  <1>1. CASE UNCHANGED rateVars
    BY <1>1 DEF NoneSlipped, rateVars, vars, store
  <1>2. CASE RateNext
    <2>1. /\ "count" \notin Faults /\ "timeout" \notin Faults /\ "kill" \notin Faults
      BY DEF EveryStepJudged
    <2>2. late' = {}
      <3>1. ASSUME NEW r \in Requests,
                   Refuse(r) \/ Admit(r) \/ Proceeds(r) \/ Leave(r) \/ Kill(r)
            PROVE  late' = late
        BY <2>1, <3>1
           DEF Refuse, Admit, Proceeds, RefuseOverLimit, PassLimit, FailOpen, Save,
               InsertCommits, InsertCollides, InsertFails, InsertTimesOut, Notify,
               SendSucceeds, SendFails, Record, RecordEvent, RecordFails, Respond,
               Leave, Kill, store
      <3>2. ASSUME NEW q \in late PROVE FALSE
        BY <3>2 DEF NoneSlipped
      <3>3. ASSUME (\E r \in Requests : LateDelivery(r)) \/ Tick PROVE late' = late
        BY <3>3 DEF LateDelivery, Tick, store
      <3> QED
        BY <1>2, <3>1, <3>2, <3>3 DEF RateNext, Next, NoneSlipped
    <2>3. ASSUME NEW r \in Requests, pc[r] = "rate", pc'[r] = "save" PROVE ~OverLimit(r)
      <3>1. pc \in [Requests -> Ended \cup {"idle", "rate", "save", "send", "record", "respond"}]
        BY DEF TypeOK
      <3>2. pc' # pc
        BY <2>3
      <3>3. ASSUME NEW x \in Requests,
                   Refuse(x) \/ Admit(x) \/ RefuseOverLimit(x) \/ Save(x)
                     \/ Notify(x) \/ Record(x) \/ Respond(x) \/ Kill(x)
            PROVE  pc[x] # "rate" \/ pc'[x] # "save"
        <4>1. CASE Refuse(x) \/ RefuseOverLimit(x) \/ Respond(x)
          BY <3>1, <4>1 DEF Refuse, RefuseOverLimit, Respond, Answer, Goto
        <4>2. CASE Admit(x) \/ Save(x) \/ Notify(x) \/ Record(x)
          BY <4>2 DEF Admit, Save, InsertCommits, InsertCollides, InsertFails, InsertTimesOut,
                      Notify, SendSucceeds, SendFails, Record, RecordEvent, RecordFails
        <4>3. CASE Kill(x)
          BY <2>1, <4>3 DEF Kill
        <4> QED
          BY <3>3, <4>1, <4>2, <4>3
      <3>4. ASSUME NEW x \in Requests,
                   Refuse(x) \/ Admit(x) \/ RefuseOverLimit(x) \/ PassLimit(x) \/ FailOpen(x)
                     \/ Save(x) \/ Notify(x) \/ Record(x) \/ Respond(x) \/ Kill(x)
            PROVE  x = r \/ pc' = pc
        BY <2>3, <3>1, <3>4
           DEF Refuse, Admit, RefuseOverLimit, PassLimit, FailOpen, Save, InsertCommits,
               InsertCollides, InsertFails, InsertTimesOut, RetryOrGiveUp, Notify, SendSucceeds,
               SendFails, Record, RecordEvent, RecordFails, Respond, Kill, Answer, Goto
      <3>5. ASSUME NEW x \in Requests, PassLimit(x) \/ FailOpen(x) PROVE ~OverLimit(x)
        BY <2>1, <3>5 DEF PassLimit, FailOpen, CtxAlive
      <3>6. ASSUME NEW x \in Requests, Leave(x) \/ LateDelivery(x) PROVE pc' = pc
        BY <3>6 DEF Leave, LateDelivery
      <3>7. ASSUME NEW q \in late, LateCommit(q) \/ LateDrop(q) PROVE pc' = pc
        BY <3>7 DEF LateCommit, LateDrop
      <3>8. CASE Tick
        BY <3>2, <3>8 DEF Tick
      <3> QED
        BY <1>2, <2>3, <3>2, <3>3, <3>4, <3>5, <3>6, <3>7, <3>8 DEF RateNext, Next, Proceeds
    <2>4. slipped' = {}
      <3>1. {r \in Requests : pc[r] = "rate" /\ pc'[r] = "save" /\ OverLimit(r)} = {}
        BY <2>3
      <3>2. {q.owner : q \in late'} = {}
        BY <2>2
      <3>3. slipped' = slipped
                 \cup {r \in Requests : pc[r] = "rate" /\ pc'[r] = "save" /\ OverLimit(r)}
                 \cup {q.owner : q \in late'}
        BY <1>2, Zenon DEF RateNext
      <3> QED
        BY <3>1, <3>2, <3>3 DEF NoneSlipped
    <2> QED
      BY <2>2, <2>4 DEF NoneSlipped
  <1> QED
    BY <1>1, <1>2

(* The README's hourly limit holds of an address whose runs never overlap   *)
(* between the count and the insert, while the count answers, no insert     *)
(* times out and no process dies: the race is the whole of the overrun.     *)
THEOREM LimitHoldsUnraced ==
    EveryStepJudged =>
        (RateSpec => []((\A ip \in Addrs : peak[ip] <= 1) => HourlyLimitHolds))
  <1> SUFFICES ASSUME EveryStepJudged
      PROVE  RateSpec => []((\A ip \in Addrs : peak[ip] <= 1) => HourlyLimitHolds)
    OBVIOUS
  <1>1. RateInit => NoneSlipped
    BY DEF RateInit, Init, NoneSlipped
  <1>2. IInv /\ NoneSlipped /\ [RateNext]_rateVars => NoneSlipped'
    BY NoneSlippedKept DEF IInv
  <1>3. RateInv /\ NoneSlipped => ((\A ip \in Addrs : peak[ip] <= 1) => HourlyLimitHolds)
    <2> SUFFICES ASSUME RateInv, NoneSlipped, NEW ip \in Addrs, peak[ip] <= 1, Limit > 0
                 PROVE  Cardinality(Recent(ip)) <= Limit
      BY DEF HourlyLimitHolds
    <2>1. Counted(ip) = Recent(ip)
      BY DEF Counted, NoneSlipped
    <2>2. Cardinality(Counted(ip)) + Cardinality(Racing(ip)) <= (Limit - 1) + Larger(peak[ip], 1)
      BY DEF RateInv, RateBound
    <2>3. /\ Cardinality(Racing(ip)) \in Nat /\ Cardinality(Counted(ip)) \in Nat
          /\ peak[ip] \in Nat /\ Limit \in Nat
      BY RateFinite, HandlerAssumption DEF RateInv, RateTypeOK, HandlerAssumption
    <2>4. Larger(peak[ip], 1) = 1
      BY <2>3 DEF Larger
    <2>5. Cardinality(Counted(ip)) <= Limit
      BY <2>2, <2>3, <2>4
    <2> QED
      BY <2>1, <2>5, Zenon
  <1> QED
    BY <1>1, <1>2, <1>3, InitRateInv, NextRateInv, RateKeepsIInv, PTL DEF RateSpec
=============================================================================
