---------------------------- MODULE EmailProviders ----------------------------
(***************************************************************************)
(* The registry of email providers and what each one takes from the        *)
(* environment.                                                            *)
(***************************************************************************)
EXTENDS Configuration

ProviderSettings ==
    {"BREVO_API_KEY", "BREVO_FROM_EMAIL", "SES_FROM_EMAIL", "SES_AWS_REGION", "AWS_REGION",
     "SES_AWS_ACCESS_KEY_ID", "SES_AWS_SECRET_ACCESS_KEY"}

requireEnv(env, keys) == \A key \in keys : Given(env, key)

newBrevoFromEnv(env) ==
    /\ requireEnv(env, {"BREVO_API_KEY", "BREVO_FROM_EMAIL"})
    /\ ParseAddress(env.BREVO_FROM_EMAIL)

(* Region and keys: the SES_ variables first; the standard chain answers for *)
(* keys only where neither is set.                                           *)
newSESFromEnv(env) ==
    /\ Given(env, "SES_FROM_EMAIL") /\ ParseAddress(env.SES_FROM_EMAIL)
    /\ Given(env, "SES_AWS_REGION") \/ Given(env, "AWS_REGION")
    /\ Given(env, "SES_AWS_ACCESS_KEY_ID") = Given(env, "SES_AWS_SECRET_ACCESS_KEY")

(* Whether the provider of the configuration can be built: what each init    *)
(* registered, and the factory of each.                                      *)
NewEmailProvider(cfg, env) ==
    \/ cfg.EmailProvider = "log"
    \/ cfg.EmailProvider = "brevo" /\ newBrevoFromEnv(env)
    \/ cfg.EmailProvider = "ses" /\ newSESFromEnv(env)

(* The address the provider mails from, used as it was given. *)
FromEmail(cfg, env) ==
    CASE cfg.EmailProvider = "brevo" -> env.BREVO_FROM_EMAIL
      [] cfg.EmailProvider = "ses"   -> env.SES_FROM_EMAIL
      [] OTHER                       -> "bare"
=============================================================================
