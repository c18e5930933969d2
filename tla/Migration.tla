------------------------------ MODULE Migration -----------------------------
(***************************************************************************)
(* A config file that is edited, deployed with the CDK construct of        *)
(* packages/infrastructure, and compared with other documents by the       *)
(* migrate command (packages/core/src/migrate.ts, cli commands/migrate.ts).*)
(*                                                                         *)
(* A document is a pool document of Diagnostics and the order of its       *)
(* callback URLs, which a set does not have.  The pool name and the scopes *)
(* are left out, and so is what a change or risk quotes.                   *)
(***************************************************************************)
EXTENDS Diagnostics

CONSTANTS
    Configs,        \* what the author may write into auth.config.ts
    Orders,         \* orders of a list of callback URLs
    Fixtures,       \* further documents given to migrate
    None

Document == [pool : NormalizedPoolConfig, order : Orders]

ASSUME MigrationAssumption ==
    /\ Configs \subseteq AuthConfig /\ None \notin AuthConfig
    /\ Fixtures \subseteq Document
    /\ Absent \notin BOOLEAN /\ \A names \in SUBSET Attributes : Absent # names
    /\ None \notin [user : UserPoolInfo, client : UserPoolClientInfo, order : Orders]

VARIABLES
    config,     \* auth.config.ts, and the order of its callback URLs
    pool,       \* the pool and client last deployed, None before the first
    last        \* history: the last migrate and its answer

vars == <<config, pool, last>>

Init ==
    /\ config \in [file : Configs, order : Orders]
    /\ pool = None
    /\ last = None

-----------------------------------------------------------------------------
(* analyzeMigration                                                        *)

High == {"caseSensitive", "email", "username", "phone", "requiredAttributes",
         "customAttributes", "identity"}
Medium == {"verification", "mfa", "recovery", "generateSecret", "callbackUrls", "logoutUrls",
           "codeFlow", "implicitFlow", "clientCredentials", "userPassword"}
Low == {"idTokenMinutes", "accessTokenMinutes", "refreshTokenDays", "deletionProtection"}

(* Mutant: the custom attributes are not among the fields.                 *)
FIELDSSansCustom == (High \cup Medium \cup Low) \ {"customAttributes"}
FIELDS == High \cup Medium \cup Low

(* Custom attributes are compared by name.                                 *)
CustomNames(p) == {a.name : a \in p.customAttributes}
get(p, field) == IF field = "customAttributes" THEN CustomNames(p) ELSE p[field]

Changes(from, to) == {field \in FIELDS : get(from.pool, field) # get(to.pool, field)}

(* Mutant: the sign-in mode is told by the phone.                          *)
PhoneChanged(from, to) == from.pool.phone # to.pool.phone
SignInChanged(from, to) ==
    \/ from.pool.email # to.pool.email
    \/ from.pool.username # to.pool.username

CriticalRisks(from, to) ==
    {path \in {"requiredAttributes", "customAttributes", "signIn", "caseSensitive"} :
        CASE path = "requiredAttributes" ->
                 from.pool.requiredAttributes \ to.pool.requiredAttributes # {}
          [] path = "customAttributes" ->
                 CustomNames(from.pool) \ CustomNames(to.pool) # {}
          [] path = "signIn" -> SignInChanged(from, to)
          [] path = "caseSensitive" -> from.pool.caseSensitive # to.pool.caseSensitive}

(* The callback URLs are compared in order here, unlike in Changes.        *)
Warnings(from, to) ==
    {path \in {"identity", "generateSecret", "callbackUrls"} :
        CASE path = "identity" -> from.pool.identity # to.pool.identity
          [] path = "generateSecret" -> from.pool.generateSecret # to.pool.generateSecret
          [] path = "callbackUrls" -> \/ from.pool.callbackUrls # to.pool.callbackUrls
                                      \/ from.order # to.order}

analyzeMigration(from, to) ==
    [changes |-> Changes(from, to), critical |-> CriticalRisks(from, to),
     warnings |-> Warnings(from, to)]

-----------------------------------------------------------------------------
(* CognitoKitAuth: what AWS describes of the pool and client that the      *)
(* construct's template makes.  Every standard attribute is in the schema, *)
(* and AWS requires sub besides what the template requires.                *)

NotVerified(p) == {}                    \* mutant: no attribute is verified
AutoVerified(p) == IF p.email THEN {"email"} ELSE {}

DeployedPool(p) ==
    [aliasAttributes |-> Absent,
     usernameAttributes |-> IF p.email THEN {"email"} ELSE Absent,
     caseSensitive |-> p.caseSensitive, schema |-> Attributes,
     requiredAttributes |-> {"email", "sub"}, customAttributes |-> {},
     autoVerified |-> AutoVerified(p), mfa |-> "OFF",
     recovery |-> {"email"}, deletionProtection |-> TRUE]

(* Mutant: the implicit grant is given like the code grant.                *)
GrantedAlike(p) == IF p.codeFlow THEN {"code", "implicit"} ELSE {}
Granted(p) ==
    {flow \in {"code", "implicit", "client_credentials"} :
        CASE flow = "code" -> p.codeFlow
          [] flow = "implicit" -> p.implicitFlow
          [] flow = "client_credentials" -> p.clientCredentials}

(* A client of a web app has a secret, and is described without one        *)
(* (UserPoolClientInfo).  CDK writes each validity in minutes.             *)
DeployedClient(p) ==
    [generateSecret |-> FALSE, callbackUrls |-> p.callbackUrls,
     logoutUrls |-> p.logoutUrls, flows |-> Granted(p), passwordAuth |-> FALSE,
     idTokenValidity |-> p.idTokenMinutes, accessTokenValidity |-> p.accessTokenMinutes,
     refreshTokenValidity |-> p.refreshTokenDays * 24 * 60]

CognitoKitAuth(c) ==
    LET p == normalizeConfig(c.file)
    IN  [user |-> DeployedPool(p), client |-> DeployedClient(p), order |-> c.order]

(* CDK refuses validities that Cognito would.                              *)
Synthesises(p) ==
    /\ p.idTokenMinutes \in 5 .. 1440 /\ p.accessTokenMinutes \in 5 .. 1440
    /\ p.refreshTokenDays \in 1 .. 3650

-----------------------------------------------------------------------------

ConfigDocument(c) == [pool |-> normalizeConfig(c.file), order |-> c.order]
PoolDocument(d) == [pool |-> toNormalizedPool(d.user, d.client), order |-> d.order]

Valid(c) == c.file.signIn # Absent /\ ~hasConfigErrors(c.file)

Edit(next) ==
    /\ config' = next
    /\ last' = None
    /\ UNCHANGED pool

(* The construct throws on an invalid config, of which it does not take    *)
(* the schemaVersion over.                                                 *)
Deployable(c) == Valid([c EXCEPT !.file.schemaVersion = Absent])

Deploy ==
    /\ Deployable(config)
    /\ Synthesises(normalizeConfig(config.file))
    /\ pool' = CognitoKitAuth(config)
    /\ last' = None
    /\ UNCHANGED config

RiskCount(risks) == Cardinality(risks)  \* mutant: the exit code is their number
ExitCode(risks) == IF risks # {} THEN 1 ELSE 0

Migrates(from, to) ==
    LET analysis == analyzeMigration(from, to)
    IN  /\ last' = [from |-> from, to |-> to, analysis |-> analysis,
                    code |-> ExitCode(analysis.critical)]
        /\ UNCHANGED <<config, pool>>

(* What --from and --to may name: documents, that of the deployed pool     *)
(* among them, and the config file if it is valid (loadPoolLike throws).   *)
PoolLike ==
    Fixtures \cup (IF pool = None THEN {} ELSE {PoolDocument(pool)})
             \cup (IF Valid(config) THEN {ConfigDocument(config)} ELSE {})

MigrateFails ==
    /\ ~Valid(config)
    /\ last' = [code |-> 1]
    /\ UNCHANGED <<config, pool>>

Next ==
    \/ \E next \in [file : Configs, order : Orders] : Edit(next)
    \/ Deploy
    \/ \E from, to \in PoolLike : Migrates(from, to)
    \/ MigrateFails

Spec == Init /\ [][Next]_vars

-----------------------------------------------------------------------------
(* Properties.                                                             *)

(* A deployed pool is one that AWS could describe, and migrate exits with  *)
(* 0 or 1 (construct.ts:78-135, commands/migrate.ts:20-22).                *)
TypeOK ==
    /\ config \in [file : Configs, order : Orders]
    /\ pool # None => pool \in [user : UserPoolInfo, client : UserPoolClientInfo, order : Orders]
    /\ last # None => last.code \in {0, 1}

(* The fields a risk is about.                                             *)
About(path) == IF path = "signIn" THEN {"email", "username"} ELSE {path}

(* The table of fields and the list of risks agree: what makes migrate     *)
(* exit 1 is shown as a change of high impact, under a field the risk is   *)
(* about (migrate.ts:33-94, 138-174; commands/migrate.ts:20).              *)
CriticalRisksAreChanges ==
    (last # None /\ "analysis" \in DOMAIN last)
    => \A path \in last.analysis.critical :
          last.analysis.changes \cap High \cap About(path) # {}

(* CloudFormation replaces a pool, and its users are lost to the app, when *)
(* an update changes these properties.                                     *)
Replaced(old, new) ==
    \/ old.aliasAttributes # new.aliasAttributes
    \/ old.usernameAttributes # new.usernameAttributes
    \/ old.caseSensitive # new.caseSensitive

(* A replacement is foretold: before a deployment that would replace the   *)
(* pool, the document of the pool and that of the config file, however     *)
(* often the file was edited since, differ in a critical risk, on which    *)
(* migrate exits 1 (migrate.ts:160-174, construct.ts:80-81).               *)
ReplacementIsForetold ==
    [][(pool # None /\ pool' # pool /\ Replaced(pool.user, pool'.user))
       => CriticalRisks(PoolDocument(pool), ConfigDocument(config))
             \cap {"signIn", "caseSensitive"} # {}]_vars

(* doctor --pool says of the pool that the construct made what doctor      *)
(* --config says of its file ("so that diagnosis works identically",       *)
(* normalize.ts:15-17), with exactly three exceptions: no-iac, as AWS does *)
(* not tell who made a pool, required-attributes, as AWS adds sub, and     *)
(* client-visibility of a web app, whose secret is not read back           *)
(* (control-plane.ts:93).                                                  *)
DeployedDiagnosesAlike ==
    (pool # None /\ pool = CognitoKitAuth(config))
    => LET asked == ConfigDocument(config).pool
           found == PoolDocument(pool).pool
       IN  \A rule \in DIAGNOSTIC_RULES :
              Status(rule, found) # Status(rule, asked)
              <=> \/ rule = "no-iac"
                  \/ rule = "required-attributes" /\ asked.email
                  \/ rule = "client-visibility" /\ asked.generateSecret

(* And migrate finds the pool to be what the file asks for, but for sub,   *)
(* for the secret of a web app, and for the refresh tokens, whose minutes  *)
(* toNormalizedPool takes for days (control-plane.ts:93, normalize.ts of   *)
(* packages/aws:107-111, construct.ts:132-134).                            *)
DriftIsKnown ==
    (pool # None /\ pool = CognitoKitAuth(config))
    => LET asked == ConfigDocument(config)
       IN  Changes(asked, PoolDocument(pool)) \ {"refreshTokenDays"}
           = {"requiredAttributes"}
                \cup (IF asked.pool.generateSecret THEN {"generateSecret"} ELSE {})
=============================================================================
