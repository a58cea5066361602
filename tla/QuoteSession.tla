----------------------------- MODULE QuoteSession -----------------------------
(***************************************************************************)
(* The quote form as a visitor's browser drives it.  htmx posts the form,  *)
(* disables its button while it waits, swaps in whatever HTML comes back,  *)
(* and gives up after twenty seconds or when the connection is lost; the   *)
(* form then stays on the page with a note that asks to try again.  The    *)
(* handler does not notice: it runs on, and a second request of the same   *)
(* form may overtake it.                                                   *)
(*                                                                         *)
(* A visitor stands for one of the two forms of one page; each form has a  *)
(* button of its own.                                                      *)
(***************************************************************************)
EXTENDS QuoteHandler, Sequences

CONSTANTS
    Visitors,
    Sends       \* bound: the requests each visitor may send, in their order

ASSUME SessionAssumption ==
    /\ Sends \in [Visitors -> Seq(Requests)]
    /\ \A r \in Requests : \E v \in Visitors : \E i \in DOMAIN Sends[v] : Sends[v][i] = r
    /\ \A v, w \in Visitors : \A i \in DOMAIN Sends[v], j \in DOMAIN Sends[w] :
          Sends[v][i] = Sends[w][j] => v = w /\ i = j

VARIABLES
    count,    \* how many requests each visitor has sent
    shown     \* what the page has shown of each request

session == <<count, shown>>

Sent(v) == {Sends[v][i] : i \in 1..count[v]}
AllSent == UNION {Sent(v) : v \in Visitors}

Shows == {"nothing", "success", "declined", "unavailable", "error", "unreachable"}

SessionTypeOK ==
    /\ count \in [Visitors -> Nat] /\ \A v \in Visitors : count[v] <= Len(Sends[v])
    /\ shown \in [Requests -> Shows]

SessionInit ==
    /\ Init
    /\ count = [v \in Visitors |-> 0]
    /\ shown = [r \in Requests |-> "nothing"]

Waiting(v) == {r \in Sent(v) : shown[r] = "nothing"}

(* The success message and the text of a bare 500 replace the form. *)
FormOnPage(v) == \A r \in Sent(v) : shown[r] \notin {"success", "error"}

(* Fault: the button stays enabled while the request is out. *)
MaySendTwice(v) == FormOnPage(v)

MaySend(v) == FormOnPage(v) /\ Waiting(v) = {}

(* What the page shows of an answer. *)
Rendering(a) ==
    IF a.status = 200 THEN "success"
    ELSE IF a.status = 500 THEN "error"
    ELSE IF a.status = 503 THEN "unavailable"
    ELSE "declined"

Submit(v) ==
    /\ MaySend(v)
    /\ count[v] < Len(Sends[v])
    /\ count' = [count EXCEPT ![v] = @ + 1]
    /\ UNCHANGED <<shown, vars>>

(* htmx swaps in the answer, whatever its status. *)
Swap(v) ==
    \E r \in Waiting(v) :
        /\ reply[r].status # 0
        /\ shown' = [shown EXCEPT ![r] = Rendering(reply[r])]
        /\ UNCHANGED <<count, vars>>

(* The timeout, or a connection lost on either way.  The request may not have *)
(* arrived yet, and may still.                                               *)
GiveUp(v) ==
    \E r \in Waiting(v) :
        /\ shown' = [shown EXCEPT ![r] = "unreachable"]
        /\ gone' = gone \cup {r}
        /\ UNCHANGED <<count, sub, pc, run, store, inbox, now>>

Arrive(r) == r \in AllSent /\ (Refuse(r) \/ Admit(r)) /\ UNCHANGED session

(* The handlers, the database, the provider and the clock: no page notices. *)
Work ==
    /\ \/ \E r \in Requests : Proceeds(r) \/ Kill(r) \/ LateDelivery(r)
       \/ \E q \in late : LateCommit(q) \/ LateDrop(q)
       \/ Tick
    /\ UNCHANGED session

SessionNext ==
    \/ \E v \in Visitors : Submit(v) \/ Swap(v) \/ GiveUp(v)
    \/ \E r \in Requests : Arrive(r)
    \/ Work

(* A request that was sent arrives, and a page shows what came back.  The   *)
(* browser's timer is not counted on.                                      *)
SessionFairness ==
    /\ Fairness
    /\ \A r \in Requests : WF_<<session, vars>>(Arrive(r))
    /\ \A v \in Visitors : WF_<<session, vars>>(Swap(v))

SessionSpec ==
    SessionInit /\ [][SessionNext]_<<session, vars>> /\ SessionFairness

-----------------------------------------------------------------------------
(* Properties. *)

(* What leaves the form on the page and the visitor in doubt. *)
BadNews == {"unavailable", "unreachable"}

(* A form is on record twice only when the page had told its visitor, before *)
(* the second request was sent, that the first may have failed.  A page that *)
(* showed nothing yet, a success, a bare 500 or a refusal leads to no second  *)
(* lead.                                                                     *)
DuplicatesOnlyAfterBadNews ==
    \A v \in Visitors : \A i, j \in DOMAIN Sends[v] :
        (/\ i < j
         /\ {Sends[v][i], Sends[v][j]} \subseteq {q.owner : q \in quotes \cup late})
          => shown[Sends[v][i]] \in BadNews

(* A page does not wait for ever: even without the browser's timeout, every  *)
(* request that was sent ends with something on the page.                    *)
PageSettles ==
    \A v \in Visitors : Waiting(v) # {} ~> Waiting(v) = {}
=============================================================================
