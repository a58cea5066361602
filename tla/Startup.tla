------------------------------- MODULE Startup -------------------------------
(***************************************************************************)
(* How an instance of the program starts, up to the handler it serves      *)
(* with: a server (cmd/server) reads .env, loads the configuration, builds *)
(* provider and store, and listens; a function (ServeServerless) does the  *)
(* same without .env under a sync.Once, when its first request comes, and  *)
(* keeps the outcome, the failure too, for as long as it lives.            *)
(***************************************************************************)
EXTENDS EmailProviders

CONSTANTS
    Instances,
    DriverConns      \* the pool's size when the driver chooses it

ASSUME DriverAssumption == DriverConns \in Nat \ {0}

VARIABLES
    setup,     \* per instance: its kind, the variables it is given, the lines of .env
    env,       \* its environment
    at,        \* the line of .env it reads next
    phase,     \* "off", "dotenv", "load", "build", "up" or "failed"
    cfg,       \* its Config
    store      \* what New opened: "none", "memory" or "postgres", and its connections

starting == <<setup, env, at, phase, cfg, store>>

(* What an instance may be given: a variable or a line for a number holds    *)
(* one, or none, and no line can unset a variable.                           *)
SetupOK(s) ==
    /\ Numbers \subseteq DOMAIN s.env
    /\ \A key \in Numbers : NumberOrNone(s.env[key])
    /\ Len(s.file) \in Nat
    /\ \A n \in 1..Len(s.file) :
         /\ LineValue(s.file[n]) # Unset
         /\ s.file[n].kind = "pair" /\ s.file[n].key \in Numbers => NumberOrNone(LineValue(s.file[n]))

Closed == [kind |-> "none", conns |-> 0]

StartInit ==
    /\ env = [i \in Instances |-> setup[i].env]
    /\ at = [i \in Instances |-> 1]
    /\ phase = [i \in Instances |-> "off"]
    /\ cfg = [i \in Instances |-> Unset]
    /\ store = [i \in Instances |-> Closed]

GoTo(i, p) == phase' = [phase EXCEPT ![i] = p]

-----------------------------------------------------------------------------
(* main begins with .env, a function with the configuration. *)
Launch(i) ==
    /\ phase[i] = "off"
    /\ GoTo(i, IF setup[i].kind = "server" THEN "dotenv" ELSE "load")
    /\ UNCHANGED <<setup, env, at, cfg, store>>

(* One line: passed over, wrong, or a variable to set. *)
ReadLine(i) ==
    /\ phase[i] = "dotenv" /\ at[i] <= Len(setup[i].file)
    /\ LET line == setup[i].file[at[i]] IN
       /\ GoTo(i, IF line.kind = "broken" THEN "failed" ELSE "dotenv")
       /\ env' = IF line.kind = "pair" THEN [env EXCEPT ![i] = SetFromFile(@, line)] ELSE env
    /\ at' = [at EXCEPT ![i] = @ + 1]
    /\ UNCHANGED <<setup, cfg, store>>

EndOfFile(i) ==
    /\ phase[i] = "dotenv" /\ at[i] > Len(setup[i].file)
    /\ GoTo(i, "load")
    /\ UNCHANGED <<setup, env, at, cfg, store>>

Load(i) ==
    /\ phase[i] = "load"
    /\ IF Errors(env[i]) = {}
         THEN GoTo(i, "build") /\ cfg' = [cfg EXCEPT ![i] = LoadFrom(env[i])]
         ELSE GoTo(i, "failed") /\ UNCHANGED cfg
    /\ UNCHANGED <<setup, env, at, store>>

(* ParseConfig takes the database URL, or there is none outside production. *)
Opens(c) == c.DatabaseURL # Junk /\ (c.DatabaseURL = Unset => c.Env # "production")

(* A size that is not positive is left to the driver. *)
OpenStore(c) ==
    IF c.DatabaseURL = Unset THEN [kind |-> "memory", conns |-> DriverConns]
    ELSE [kind |-> "postgres", conns |-> IF c.DBMaxConns > 0 THEN c.DBMaxConns ELSE DriverConns]

Build(i) ==
    /\ phase[i] = "build"
    /\ IF NewEmailProvider(cfg[i], env[i]) /\ Opens(cfg[i])
         THEN GoTo(i, "up") /\ store' = [store EXCEPT ![i] = OpenStore(cfg[i])]
         ELSE GoTo(i, "failed") /\ UNCHANGED store
    /\ UNCHANGED <<setup, env, at, cfg>>

(* The AWS configuration, shared files included, may not load. *)
BuildFails(i) ==
    /\ phase[i] = "build"
    /\ cfg[i].EmailProvider = "ses" /\ newSESFromEnv(env[i])
    /\ GoTo(i, "failed")
    /\ UNCHANGED <<setup, env, at, cfg, store>>

StartStep(i) == ReadLine(i) \/ EndOfFile(i) \/ Load(i) \/ Build(i) \/ BuildFails(i)

(* The process dies under a fatal error, and is as it was before its start. *)
Die(i) ==
    /\ GoTo(i, "off")
    /\ env' = [env EXCEPT ![i] = setup[i].env]
    /\ at' = [at EXCEPT ![i] = 1]
    /\ cfg' = [cfg EXCEPT ![i] = Unset]
    /\ store' = [store EXCEPT ![i] = Closed]
    /\ UNCHANGED setup

-----------------------------------------------------------------------------
(* Properties. *)

(* The environment wins over .env, set to nothing included, and in .env the  *)
(* first of two lines: a variable of a server is what it was given, or what  *)
(* the first line read for it reads as, whatever the later lines say and     *)
(* though that first line set it to nothing.                                 *)
FirstSettingWins ==
    \A i \in Instances : \A key \in DOMAIN env[i] :
        LET lines == {n \in 1..(at[i] - 1) : setup[i].file[n].kind = "pair"
                                             /\ setup[i].file[n].key = key}
        IN IF setup[i].env[key] # Unset \/ lines = {}
             THEN env[i][key] = setup[i].env[key]
             ELSE LET line == setup[i].file[CHOOSE n \in lines : \A m \in lines : n <= m]
                  IN env[i][key] = LineValue(line)

(* What serves as production is: where the environment says so, or says      *)
(* nothing on Vercel, an instance that is up stores in the database and      *)
(* mails through a real provider from an address that was read, knows its    *)
(* inbox and its own origin, and hashes with a long salt.                    *)
ProductionIsReal ==
    \A i \in Instances :
        (/\ phase[i] = "up"
         /\ \/ env[i].APP_ENV = "production"
            \/ env[i].VERCEL = "1" /\ ~Given(env[i], "APP_ENV")) =>
        /\ store[i].kind = "postgres"
        /\ cfg[i].EmailProvider \in {"brevo", "ses"}
        /\ FromEmail(cfg[i], env[i]) \in {"bare", "named"}
        /\ env[i].SALES_NOTIFICATION_EMAIL \in {"bare", "named"}
        /\ cfg[i].AllowedOrigins # <<>> /\ cfg[i].AllowedOrigins = Origins(env[i])
        /\ env[i].IP_HASH_SALT >= 16

(* An instance that is up has connections, admits quotes and gives a mail    *)
(* time, whatever numbers it was given; only a timeout longer than an int64  *)
(* has nanoseconds for may have become one that is over before it begins.    *)
LimitsPositive ==
    \A i \in Instances : phase[i] = "up" =>
        /\ store[i].conns > 0
        /\ cfg[i].QuoteRateLimitPerHour > 0
        /\ cfg[i].EmailSendTimeout > 0
             \/ valueOr(env[i], "EMAIL_SEND_TIMEOUT_SECONDS", 8) >= SecondsLimit
=============================================================================
