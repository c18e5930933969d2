---------------------------- MODULE Diagnostics ----------------------------
(***************************************************************************)
(* The pure half of packages/core: validation of a developer's AuthConfig, *)
(* its normalised pool document, the same document made from what AWS      *)
(* describes (packages/aws/src/normalize.ts), and the sixteen rules.       *)
(*                                                                         *)
(* Names, wording and scopes other than openid are left out.  A URL is     *)
(* what validation can tell of it: whether it has a *, its scheme ("none"  *)
(* when new URL() throws), and whether its host is localhost.              *)
(***************************************************************************)
EXTENDS Naturals, FiniteSets

CONSTANT Absent     \* undefined

Optional(S) == S \cup {Absent}
OrElse(value, default) == IF value = Absent THEN default ELSE value

Url == [wildcard : BOOLEAN, scheme : {"https", "http", "other", "none"}, localhost : BOOLEAN]

Attributes == {"email", "phone_number", "username", "name", "sub"}
Methods    == {"email", "phone", "admin_only"}
CustomAttribute == [name : Nat, type : {"string", "number"}, mutable : BOOLEAN]

(* A config file may hold anything: the types are what its author wrote.   *)
Application ==
    [type : {"web", "spa", "mobile", "unknown"}, callbackUrls : SUBSET Url,
     logoutUrls : SUBSET Url, openid : Optional(BOOLEAN)]

AuthConfig ==
    [schemaVersion : Optional(Nat), signIn : Optional({"email", "username", "unknown"}),
     application : Optional(Application), idTokenMinutes : Optional(Nat),
     accessTokenMinutes : Optional(Nat), refreshTokenDays : Optional(Nat)]

NormalizedPoolConfig ==
    [email : BOOLEAN, username : BOOLEAN, phone : BOOLEAN, caseSensitive : BOOLEAN,
     verification : {"required", "optional", "disabled"},
     mfa : {"OFF", "OPTIONAL", "REQUIRED", "ON"},
     requiredAttributes : SUBSET Attributes, customAttributes : SUBSET CustomAttribute,
     recovery : SUBSET Methods, recoveryEnabled : BOOLEAN,
     generateSecret : BOOLEAN, callbackUrls : SUBSET Url, logoutUrls : SUBSET Url,
     codeFlow : BOOLEAN, implicitFlow : BOOLEAN, clientCredentials : BOOLEAN,
     userPassword : BOOLEAN,
     idTokenMinutes : Nat, accessTokenMinutes : Nat, refreshTokenDays : Nat,
     provisionedBy : {"cdk", "console", "terraform", "unknown"}, reproducible : BOOLEAN,
     deletionProtection : BOOLEAN,
     identity : {"cognito_sub", "email", "cognito_username", "custom"},
     storesProfileData : BOOLEAN]

-----------------------------------------------------------------------------
(* Validation.                                                             *)

isWildcardUrl(url) == url.wildcard

validateRedirectUrl(url) ==
    /\ ~isWildcardUrl(url)
    /\ \/ url.scheme = "https"
       \/ url.scheme = "http" /\ url.localhost

(* Mutant: plain HTTP is accepted from any host.                           *)
AnyHttpOk(urls) == \A url \in urls : ~url.wildcard /\ url.scheme \in {"https", "http"}
RedirectsOk(urls) == \A url \in urls : validateRedirectUrl(url)

(* Outside the range that Cognito accepts: a warning.                      *)
Outside(value, high) == value # Absent /\ value \notin 1 .. high

(* The severity and path of each issue.                                    *)
ApplicationErrors(app) ==
    {path \in {"type", "callbackUrls", "logoutUrls", "scopes"} :
        CASE path = "type" -> app.type \notin {"web", "spa", "mobile"}
          [] path = "callbackUrls" -> app.callbackUrls = {} \/ ~RedirectsOk(app.callbackUrls)
          [] path = "logoutUrls" -> app.logoutUrls = {} \/ ~RedirectsOk(app.logoutUrls)
          [] path = "scopes" -> app.openid = FALSE}

ConfigErrors(config) ==
    {path \in {"schemaVersion", "signIn", "application"} :
        CASE path = "schemaVersion" -> config.schemaVersion \notin {Absent, 1}
          [] path = "signIn" -> config.signIn \notin {"email", "username"}
          [] path = "application" -> config.application = Absent}
    \cup (IF config.application = Absent THEN {} ELSE ApplicationErrors(config.application))

ConfigWarnings(config) ==
    IF config.application = Absent
    THEN {}
    ELSE {path \in {"idTokenMinutes", "accessTokenMinutes", "refreshTokenDays"} :
             CASE path = "idTokenMinutes" -> Outside(config.idTokenMinutes, 60)
               [] path = "accessTokenMinutes" -> Outside(config.accessTokenMinutes, 1440)
               [] path = "refreshTokenDays" -> Outside(config.refreshTokenDays, 3650)}

hasConfigErrors(config) == ConfigErrors(config) # {}

-----------------------------------------------------------------------------
(* Normalisation.                                                          *)

tokenMinutes(minutes) == OrElse(minutes, 60)
tokenDays(days) == OrElse(days, 30)

(* Defined for a config without errors: normalizeConfig throws on others.  *)
normalizeConfig(config) ==
    LET app == config.application
        emailSignIn == config.signIn = "email"
    IN  [email |-> emailSignIn, username |-> ~emailSignIn, phone |-> FALSE,
         caseSensitive |-> FALSE,
         verification |-> IF emailSignIn THEN "required" ELSE "optional", mfa |-> "OFF",
         requiredAttributes |-> {"email"}, customAttributes |-> {},
         recovery |-> {"email"}, recoveryEnabled |-> TRUE,
         generateSecret |-> app.type = "web",
         callbackUrls |-> app.callbackUrls, logoutUrls |-> app.logoutUrls,
         codeFlow |-> TRUE, implicitFlow |-> FALSE, clientCredentials |-> FALSE,
         userPassword |-> FALSE,
         idTokenMinutes |-> tokenMinutes(config.idTokenMinutes),
         accessTokenMinutes |-> tokenMinutes(config.accessTokenMinutes),
         refreshTokenDays |-> tokenDays(config.refreshTokenDays),
         provisionedBy |-> "cdk", reproducible |-> TRUE, deletionProtection |-> TRUE,
         identity |-> "cognito_sub", storesProfileData |-> FALSE]

(* What AWS describes, after AwsCognitoControlPlane has renamed the fields *)
(* and put false and [] for what is missing.                               *)
UserPoolInfo ==
    [aliasAttributes : Optional(SUBSET Attributes), usernameAttributes : Optional(SUBSET Attributes),
     caseSensitive : Optional(BOOLEAN), schema : SUBSET Attributes,
     requiredAttributes : SUBSET Attributes, customAttributes : SUBSET CustomAttribute,
     autoVerified : SUBSET Attributes, mfa : Optional({"OFF", "OPTIONAL", "ON"}),
     recovery : SUBSET Methods, deletionProtection : BOOLEAN]

(* Whether a client has a secret is not described: GenerateSecret, which   *)
(* the adapter reads, is a field of the requests that create a client, and *)
(* AWS answers with the ClientSecret instead.                              *)
UserPoolClientInfo ==
    [generateSecret : {FALSE}, callbackUrls : SUBSET Url, logoutUrls : SUBSET Url,
     flows : SUBSET {"code", "implicit", "client_credentials"}, passwordAuth : BOOLEAN,
     idTokenValidity : Optional(Nat), accessTokenValidity : Optional(Nat),
     refreshTokenValidity : Optional(Nat)]

toNormalizedPool(pool, client) ==
    LET emailSignIn == "email" \in OrElse(pool.aliasAttributes, OrElse(pool.usernameAttributes, {}))
    IN  [email |-> emailSignIn, username |-> ~emailSignIn,
         phone |-> "phone_number" \in OrElse(pool.usernameAttributes, {}),
         caseSensitive |-> OrElse(pool.caseSensitive, TRUE),
         verification |-> CASE "email" \in pool.autoVerified -> "required"
                            [] "email" \notin pool.autoVerified /\ "email" \in pool.schema -> "optional"
                            [] OTHER -> "disabled",
         mfa |-> OrElse(pool.mfa, "OFF"),
         requiredAttributes |-> pool.requiredAttributes,
         customAttributes |-> pool.customAttributes,
         recovery |-> pool.recovery, recoveryEnabled |-> pool.recovery # {},
         generateSecret |-> client.generateSecret,
         callbackUrls |-> client.callbackUrls, logoutUrls |-> client.logoutUrls,
         codeFlow |-> "code" \in client.flows,
         implicitFlow |-> "implicit" \in client.flows,
         clientCredentials |-> "client_credentials" \in client.flows,
         userPassword |-> client.passwordAuth,
         idTokenMinutes |-> tokenMinutes(client.idTokenValidity),
         accessTokenMinutes |-> tokenMinutes(client.accessTokenValidity),
         refreshTokenDays |-> tokenDays(client.refreshTokenValidity),
         provisionedBy |-> "unknown", reproducible |-> FALSE,
         deletionProtection |-> pool.deletionProtection,
         identity |-> "cognito_sub", storesProfileData |-> pool.customAttributes # {}]

-----------------------------------------------------------------------------
(* The rules: the status of the finding each returns (callbackUrls returns *)
(* one critical finding per bad URL, all of one status).                   *)

GoodUnless(bad, status) == IF bad THEN status ELSE "good"

emailCaseSensitive(p) == GoodUnless(p.email /\ p.caseSensitive, "critical")
subIdentity(p) == GoodUnless(p.identity # "cognito_sub", "warning")
emailAsIdentity(p) == GoodUnless(p.identity = "email", "warning")

emailVerification(p) ==
    CASE ~p.email -> "good"
      [] p.email /\ p.verification = "disabled" -> "critical"
      [] p.email /\ p.verification = "optional" -> "warning"
      [] OTHER -> "good"

customAttributes(p) == GoodUnless(p.customAttributes # {}, "warning")

Essentials(p) ==
    (IF p.email THEN {"email"} ELSE {}) \cup (IF p.username THEN {"username"} ELSE {})

requiredAttributes(p) == GoodUnless(p.requiredAttributes \ Essentials(p) # {}, "warning")
implicitFlow(p) == GoodUnless(p.implicitFlow, "critical")
passwordFlow(p) == GoodUnless(p.userPassword \/ p.clientCredentials, "warning")

callbackUrls(p) ==
    GoodUnless(\E url \in p.callbackUrls \cup p.logoutUrls : ~validateRedirectUrl(url), "critical")

wildcardCallback(p) ==
    GoodUnless(\E url \in p.callbackUrls \cup p.logoutUrls : isWildcardUrl(url), "critical")

tokenDuration(p) == GoodUnless(p.idTokenMinutes > 60 \/ p.accessTokenMinutes > 60, "warning")

accountRecovery(p) == GoodUnless(~p.recoveryEnabled \/ p.recovery \subseteq {"admin_only"}, "warning")

clientVisibility(p) == GoodUnless(~p.generateSecret, "warning")

profileStorage(p) ==
    GoodUnless(p.storesProfileData
               \/ Cardinality(p.customAttributes) + Cardinality(p.requiredAttributes) > 6, "warning")

noIac(p) == GoodUnless(~p.reproducible \/ p.provisionedBy \in {"console", "unknown"}, "warning")

lockIn(p) ==
    GoodUnless(p.username \/ p.customAttributes # {} \/ p.identity = "cognito_username", "warning")

DIAGNOSTIC_RULES ==
    {"email-case-sensitive", "sub-identity", "email-as-identity", "email-verification",
     "custom-attributes", "required-attributes", "implicit-flow", "password-flow",
     "callback-urls", "wildcard-callback", "token-duration", "account-recovery",
     "client-visibility", "profile-storage", "no-iac", "lock-in"}

Status(rule, p) ==
    CASE rule = "email-case-sensitive" -> emailCaseSensitive(p)
      [] rule = "sub-identity" -> subIdentity(p)
      [] rule = "email-as-identity" -> emailAsIdentity(p)
      [] rule = "email-verification" -> emailVerification(p)
      [] rule = "custom-attributes" -> customAttributes(p)
      [] rule = "required-attributes" -> requiredAttributes(p)
      [] rule = "implicit-flow" -> implicitFlow(p)
      [] rule = "password-flow" -> passwordFlow(p)
      [] rule = "callback-urls" -> callbackUrls(p)
      [] rule = "wildcard-callback" -> wildcardCallback(p)
      [] rule = "token-duration" -> tokenDuration(p)
      [] rule = "account-recovery" -> accountRecovery(p)
      [] rule = "client-visibility" -> clientVisibility(p)
      [] rule = "profile-storage" -> profileStorage(p)
      [] rule = "no-iac" -> noIac(p)
      [] rule = "lock-in" -> lockIn(p)

diagnoseUserPool(p) == [rule \in DIAGNOSTIC_RULES |-> Status(rule, p)]

(* How many findings of a report have this status (bad URLs count once).   *)
Summary(report, status) == {rule \in DOMAIN report : report[rule] = status}
=============================================================================
