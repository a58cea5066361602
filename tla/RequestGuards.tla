---------------------------- MODULE RequestGuards ----------------------------
(***************************************************************************)
(* The checks a quote submission passes before the handler does any I/O:   *)
(* the origin check, the form parser, the honeypot and the validator, in   *)
(* the order QuoteHandler applies them, and the address a submission is    *)
(* rate limited by.                                                        *)
(*                                                                         *)
(* A submission is the part of an HTTP request the handler's decisions     *)
(* depend on.  A header the client did not send reads as Absent, as        *)
(* http.Header.Get returns "".  Whether the fields validate is the         *)
(* parameter `valid`; an origin is in OwnOrigins when its host is the host *)
(* the request was sent to.  Definitions marked "Fault" show what a bug in *)
(* the definition that follows would do; nothing uses them.                *)
(***************************************************************************)
EXTENDS Integers

CONSTANTS
    Addrs,            \* client addresses; hashIP is one-to-one on them
    OwnOrigins,       \* origins whose host equals r.Host
    AllowedOrigins,   \* cfg.AllowedOrigins, from ALLOWED_ORIGIN
    ForeignOrigins,   \* every other origin a browser may send
    TrustProxy        \* cfg.TrustProxyHeaders

Absent == ""

ASSUME GuardsAssumption ==
    /\ TrustProxy \in BOOLEAN
    /\ Absent \notin Addrs
    /\ {Absent, "null"} \cap (OwnOrigins \cup AllowedOrigins \cup ForeignOrigins) = {}
    /\ ForeignOrigins \cap (OwnOrigins \cup AllowedOrigins) = {}

Submission ==
    [origin    : {Absent, "null"} \cup OwnOrigins \cup AllowedOrigins \cup ForeignOrigins,
     fetchSite : {Absent, "same-origin", "none", "same-site", "cross-site"},
     realIP    : Addrs \cup {Absent},
     forwarded : Addrs \cup {Absent},   \* first entry of X-Forwarded-For
     remote    : Addrs,                 \* host part of RemoteAddr
     body      : {"ok", "malformed", "too_large"},
     website   : BOOLEAN,               \* the honeypot field is filled in
     valid     : BOOLEAN]               \* validateQuote returns no errors

(* A submission without Origin is judged by Sec-Fetch-Site alone. *)
SameOrigin(s) ==
    IF s.origin = Absent
      THEN s.fetchSite \in {Absent, "same-origin", "none"}
      ELSE s.origin # "null" /\ s.origin \in AllowedOrigins \cup OwnOrigins

(* Fault: proxy headers are believed wherever they come from. *)
ClientIPBelievingHeaders(s) ==
    IF s.realIP # Absent THEN s.realIP
    ELSE IF s.forwarded # Absent THEN s.forwarded
    ELSE s.remote

(* Proxy headers count only when the platform sets them; it never leaves   *)
(* the first entry of X-Forwarded-For blank.                               *)
ClientIP(s) ==
    IF TrustProxy /\ s.realIP # Absent THEN s.realIP
    ELSE IF TrustProxy /\ s.forwarded # Absent THEN s.forwarded
    ELSE s.remote

Proceed == 0

(* Fault: the form parser's error is dropped. *)
ScreeningWithoutParseError(s) ==
    IF ~SameOrigin(s) THEN 403
    ELSE IF s.website THEN 200
    ELSE IF ~s.valid THEN 422
    ELSE Proceed

(* The status a submission is turned away with, or Proceed. *)
Screening(s) ==
    IF ~SameOrigin(s) THEN 403
    ELSE IF s.body = "too_large" THEN 413
    ELSE IF s.body = "malformed" THEN 400
    ELSE IF s.website THEN 200
    ELSE IF ~s.valid THEN 422
    ELSE Proceed

(* What a stored lead's submission must have been, told without the order  *)
(* of the checks: a form that arrived whole, from a page of this site or   *)
(* from no page at all, filled in by a person.                             *)
Clean(s) ==
    /\ s.body = "ok" /\ s.valid /\ ~s.website
    /\ \/ s.origin \in OwnOrigins \cup AllowedOrigins
       \/ s.origin = Absent /\ s.fetchSite \notin {"cross-site", "same-site"}
=============================================================================
