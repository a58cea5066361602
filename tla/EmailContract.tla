----------------------------- MODULE EmailContract -----------------------------
(***************************************************************************)
(* What notifySales relies on in an email provider: one call delivers at   *)
(* most one mail, and reports success only of a mail that was accepted.  A *)
(* call that reports failure may have delivered it, or may do so later.    *)
(***************************************************************************)
EXTENDS Naturals

VARIABLES
    mails,     \* mails the provider's service accepted for the call
    report     \* what the call returned: "none", "sent", "failed"

vars == <<mails, report>>

Init == mails = 0 /\ report = "none"

Deliver ==
    /\ mails = 0
    /\ mails' = 1
    /\ UNCHANGED report

ReportSent ==
    /\ report = "none" /\ mails = 1
    /\ report' = "sent"
    /\ UNCHANGED mails

ReportFailed ==
    /\ report = "none"
    /\ report' = "failed"
    /\ UNCHANGED mails

Next == Deliver \/ ReportSent \/ ReportFailed

Spec == Init /\ [][Next]_vars
=============================================================================
