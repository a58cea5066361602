------------------------------- MODULE MCSite -------------------------------
(***************************************************************************)
(* An instance of Site for TLC.  One deployment has three visitors, and    *)
(* two, of servers and of functions, have two visitors and a new release;  *)
(* in the others one instance starts, with an environment that differs     *)
(* from a working one in at most two variables, or with a .env of at most  *)
(* two lines, and nobody comes.                                            *)
(***************************************************************************)
EXTENDS SiteInvariant

Keys == Settings \cup ProviderSettings

(* The values the rules tell apart. *)
Values ==
    [key \in Keys |-> {Unset, Blank} \cup
       CASE key = "APP_ENV" -> {"production", "development", Junk}
         [] key = "VERCEL" -> {"1"}
         [] key = "DATABASE_URL" -> {"postgres", Junk}
         [] key = "DB_MAX_CONNS" -> {0, 3, ConnsLimit, Junk}
         [] key = "EMAIL_PROVIDER" -> {"log", "brevo", "ses", Junk}
         [] key = "EMAIL_SEND_TIMEOUT_SECONDS" -> {0, 3, SecondsLimit}
         [] key = "QUOTE_RATE_LIMIT_PER_HOUR" -> {0, 1}
         [] key = "IP_HASH_SALT" -> {15, 16}
         [] key = "TRUST_PROXY_HEADERS" -> {"true", Junk}
         [] key = "ALLOWED_ORIGIN" -> {<<Blank, "https://own">>, <<Blank>>, <<"https://own", Junk>>}
         [] key = "TRACKING_URL" -> {"https", Junk}
         [] key \in {"SALES_NOTIFICATION_EMAIL", "BREVO_FROM_EMAIL", "SES_FROM_EMAIL"} -> {"bare", "named", Junk}
         [] OTHER -> {"text"}]

Empty == [key \in Keys |-> Unset]

Common == [Empty EXCEPT !.APP_ENV = "production", !.DATABASE_URL = "postgres",
             !.SALES_NOTIFICATION_EMAIL = "bare", !.IP_HASH_SALT = 16,
             !.ALLOWED_ORIGIN = <<"https://own">>]

Brevo == [Common EXCEPT !.EMAIL_PROVIDER = "brevo", !.BREVO_API_KEY = "text", !.BREVO_FROM_EMAIL = "bare"]

Unsalted == [Brevo EXCEPT !.IP_HASH_SALT = Unset]

SES == [Common EXCEPT !.EMAIL_PROVIDER = "ses", !.SES_FROM_EMAIL = "named", !.SES_AWS_REGION = "text",
          !.SES_AWS_ACCESS_KEY_ID = "text", !.SES_AWS_SECRET_ACCESS_KEY = "text"]

TwoChanged(base, keys) ==
    UNION {{[base EXCEPT ![pair[1]] = x, ![pair[2]] = y] :
              x \in Values[pair[1]], y \in Values[pair[2]]} : pair \in keys \X keys}

(* The SES base differs from the Brevo base in the provider. *)
Environments ==
    TwoChanged(Empty, Settings) \cup TwoChanged(Brevo, Settings \cup {"BREVO_API_KEY", "BREVO_FROM_EMAIL"})
      \cup TwoChanged(SES, ProviderSettings \cup {"EMAIL_PROVIDER"})

Pair(key, value, quoted, note, asWritten) ==
    [kind |-> "pair", key |-> key, value |-> value, quoted |-> quoted, note |-> note,
     asWritten |-> asWritten]

Other(kind) == [Pair("APP_ENV", Blank, FALSE, FALSE, Blank) EXCEPT !.kind = kind]

(* A note behind an empty salt is long enough for a salt. *)
FileLines ==
    {Other("comment"), Other("broken"), Pair("IP_HASH_SALT", Blank, FALSE, TRUE, 20)}
      \cup {Pair("EMAIL_PROVIDER", value, quoted, note, Junk) :
               value \in {Blank, "ses"}, quoted \in BOOLEAN, note \in BOOLEAN}
      \cup {Pair("APP_ENV", "production", FALSE, note, Junk) : note \in BOOLEAN}
      \cup {Pair("APP_ENV", "development", FALSE, FALSE, Junk)}

Files == UNION {[1..n -> FileLines] : n \in 0..2}

Setup(kind, e, file) == [kind |-> kind, env |-> e, file |-> file]

Both(s) == [i \in Instances |-> s]

TwoVisitors == {"v1", "v2"}

Quiet(s) == [setup |-> Both(s), coming |-> {}, deploys |-> FALSE]

(* The one in twos has variables that are also in the file, set and blank. *)
TheDeployments ==
    {Quiet(Setup("server", e, <<>>)) : e \in Environments}
      \cup {Quiet(Setup("server", [b EXCEPT !.EMAIL_PROVIDER = p, !.APP_ENV = a], f)) :
              b \in {Empty, Brevo, Unsalted}, p \in {Unset, Blank}, a \in {Unset, Blank, "production"}, f \in Files}
      \cup {[setup |-> Both(Setup("server", Brevo, <<>>)), coming |-> Visitors, deploys |-> FALSE],
            [setup |-> Both(Setup("server", Brevo, <<>>)), coming |-> TwoVisitors, deploys |-> TRUE],
            [setup |-> [i \in Instances |->
                          Setup("function", IF i = Old THEN SES ELSE [SES EXCEPT !.IP_HASH_SALT = 15], <<>>)],
             coming |-> TwoVisitors, deploys |-> TRUE]}

(* The new release changes the style sheet and keeps the script. *)
TheContent == [i \in Instances |-> [css |-> i, js |-> Old]]

TheOrder == <<"css", "js">>
=============================================================================
