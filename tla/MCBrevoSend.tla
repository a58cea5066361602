------------------------------ MODULE MCBrevoSend ------------------------------
(***************************************************************************)
(* Instances of BrevoSend for TLC.  A second is two ticks.                 *)
(***************************************************************************)
EXTENDS BrevoInvariant

NoHeader == [form |-> "none", secs |-> 0]
Seconds(n) == [form |-> "secs", secs |-> n]
Date(n) == [form |-> "date", secs |-> n]

(* Retry-After absent, a number of seconds on either side of the deadline, *)
(* or the largest that is a duration: a second more wraps, so the wait is  *)
(* begun and only the deadline ends it.                                    *)
PlainHeaders == {NoHeader} \cup {Seconds(n) : n \in 0..9 \cup {31}}

(* With a date as well. *)
DateHeaders == {NoHeader, Date(2)}
=============================================================================
