---------------------------- MODULE Configuration ----------------------------
(***************************************************************************)
(* The settings of the program: how a line of .env becomes a variable of   *)
(* the environment, and what config.LoadFrom makes of the variables.       *)
(*                                                                         *)
(* A variable holds Unset, Blank (set, to nothing but blanks), Junk (what  *)
(* no rule for it takes) or a value: an integer for the numbers, the       *)
(* length for the salt, a sequence for the list of origins, and otherwise  *)
(* a word for what the text is, with the case folded where LoadFrom folds  *)
(* it.  Definitions marked "Fault" show what a bug in the definition that  *)
(* follows would do; nothing uses them.                                    *)
(***************************************************************************)
EXTENDS Integers, Sequences

CONSTANTS
    Unset, Blank, Junk,
    ConnsLimit,      \* 2^31: DBMaxConns is an int32
    SecondsLimit     \* 2^63 nanoseconds: EmailSendTimeout is an int64

ASSUME SettingsAssumption ==
    /\ Unset # Blank /\ Junk \notin {Unset, Blank}
    /\ {Unset, Blank, Junk}
         \cap {"production", "development", "log", "brevo", "ses", "bare", "named"} = {}
    /\ ConnsLimit \in Nat \ {0} /\ SecondsLimit \in Nat \ {0}

Settings ==
    {"APP_ENV", "VERCEL", "DATABASE_URL", "DB_MAX_CONNS", "EMAIL_PROVIDER",
     "EMAIL_SEND_TIMEOUT_SECONDS", "SALES_NOTIFICATION_EMAIL", "IP_HASH_SALT",
     "TRUST_PROXY_HEADERS", "QUOTE_RATE_LIMIT_PER_HOUR", "ALLOWED_ORIGIN", "TRACKING_URL"}

Numbers == {"DB_MAX_CONNS", "EMAIL_SEND_TIMEOUT_SECONDS", "QUOTE_RATE_LIMIT_PER_HOUR"}

(* What a variable of these holds: Junk is what Atoi does not read. *)
NumberOrNone(x) == x \in {Unset, Blank, Junk} \cup Int

(* Trimmed, the variable is not the empty string. *)
Given(env, key) == env[key] \notin {Unset, Blank}

valueOr(env, key, default) == IF Given(env, key) THEN env[key] ELSE default

-----------------------------------------------------------------------------
(* LoadDotEnv: a line is blank or a comment, has no equals sign or names no *)
(* variable ("broken"), or is a pair.                                       *)

(* A note is cut off a value in front of it.  Quotes come off only at the    *)
(* end of the line, so a note behind a quoted value leaves them on; and the  *)
(* line is trimmed before " #" is looked for, so a note behind nothing is    *)
(* the value itself.  `asWritten` is what such a line then reads as.         *)
LineValue(line) ==
    IF line.note /\ (line.quoted \/ line.value = Blank) THEN line.asWritten ELSE line.value

(* Fault: a variable set to nothing counts as not set. *)
SetFromFileUnlessGiven(env, line) ==
    IF Given(env, line.key) THEN env ELSE [env EXCEPT ![line.key] = LineValue(line)]

SetFromFile(env, line) ==
    IF env[line.key] # Unset THEN env ELSE [env EXCEPT ![line.key] = LineValue(line)]

-----------------------------------------------------------------------------
(* LoadFrom. *)

(* Fault: the platform is not asked for. *)
EnvironmentWithoutVercel(env) == valueOr(env, "APP_ENV", "development")

Environment(env) ==
    IF Given(env, "APP_ENV") THEN env.APP_ENV
    ELSE IF env.VERCEL = "1" THEN "production" ELSE "development"

Production(env) == Environment(env) = "production"

(* Fault: zero is let through. *)
NaturalOrUnset(env, key) == Given(env, key) => env[key] # Junk /\ env[key] >= 0

(* intVar takes what Atoi reads and is positive. *)
PositiveOrUnset(env, key) == Given(env, key) => env[key] # Junk /\ env[key] > 0

(* The conversion to a signed type that reaches from -limit to limit - 1. *)
Wrap(n, limit) == ((n + limit) % (2 * limit)) - limit

Origins(env) == SelectSeq(valueOr(env, "ALLOWED_ORIGIN", <<>>), LAMBDA o : o \notin {Blank, Junk})

(* What mail.ParseAddress reads: a@b, and Name <a@b>. *)
ParseAddress(address) == address \in {"bare", "named"}

Required(env, key) == Production(env) => Given(env, key)

(* What LoadFrom asks of each variable. *)
Checks(env) ==
    [APP_ENV                    |-> Environment(env) \in {"development", "production"},
     DATABASE_URL               |-> Required(env, "DATABASE_URL"),
     DB_MAX_CONNS               |-> PositiveOrUnset(env, "DB_MAX_CONNS"),
     EMAIL_PROVIDER             |-> /\ Required(env, "EMAIL_PROVIDER")
                                    /\ Production(env) => env.EMAIL_PROVIDER # "log",
     EMAIL_SEND_TIMEOUT_SECONDS |-> PositiveOrUnset(env, "EMAIL_SEND_TIMEOUT_SECONDS"),
     SALES_NOTIFICATION_EMAIL   |-> /\ Required(env, "SALES_NOTIFICATION_EMAIL")
                                    /\ ParseAddress(valueOr(env, "SALES_NOTIFICATION_EMAIL", "bare")),
     IP_HASH_SALT               |-> /\ Required(env, "IP_HASH_SALT")
                                    /\ Production(env) => valueOr(env, "IP_HASH_SALT", 16) >= 16,
     TRUST_PROXY_HEADERS        |-> env.TRUST_PROXY_HEADERS # Junk,
     QUOTE_RATE_LIMIT_PER_HOUR  |-> PositiveOrUnset(env, "QUOTE_RATE_LIMIT_PER_HOUR"),
     ALLOWED_ORIGIN             |-> /\ \A n \in DOMAIN valueOr(env, "ALLOWED_ORIGIN", <<>>) :
                                          env.ALLOWED_ORIGIN[n] # Junk
                                    /\ Production(env) => Origins(env) # <<>>,
     TRACKING_URL               |-> valueOr(env, "TRACKING_URL", "https") = "https"]

(* The variables it reports. *)
Errors(env) == {key \in DOMAIN Checks(env) : ~Checks(env)[key]}

(* The Config of an environment without errors. *)
LoadFrom(env) ==
    [Env                    |-> Environment(env),
     DatabaseURL            |-> valueOr(env, "DATABASE_URL", Unset),
     DBMaxConns             |-> Wrap(valueOr(env, "DB_MAX_CONNS", 4), ConnsLimit),
     EmailProvider          |-> valueOr(env, "EMAIL_PROVIDER", "log"),
     EmailSendTimeout       |-> Wrap(valueOr(env, "EMAIL_SEND_TIMEOUT_SECONDS", 8), SecondsLimit),
     SalesNotificationEmail |-> valueOr(env, "SALES_NOTIFICATION_EMAIL", "bare"),
     IPHashSalt             |-> valueOr(env, "IP_HASH_SALT", 30),
     QuoteRateLimitPerHour  |-> valueOr(env, "QUOTE_RATE_LIMIT_PER_HOUR", 5),
     TrustProxyHeaders      |-> valueOr(env, "TRUST_PROXY_HEADERS",
                                        IF env.VERCEL = "1" THEN "true" ELSE "false") = "true",
     AllowedOrigins         |-> IF Origins(env) # <<>> THEN Origins(env)
                                ELSE <<"http://localhost", "http://127.0.0.1">>,
     TrackingURL            |-> valueOr(env, "TRACKING_URL", Unset)]
=============================================================================
