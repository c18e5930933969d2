---------------------------- MODULE DoctorProofs ----------------------------
(***************************************************************************)
(* Proofs about Diagnostics and Doctor, for every set of configs, pools    *)
(* and clients.                                                            *)
(***************************************************************************)
EXTENDS Doctor, TLAPS

-----------------------------------------------------------------------------
(* The rules.                                                              *)

(* A config that validation accepts has no critical finding: the validator *)
(* and the rules use one test for redirect URLs, and normalisation fixes   *)
(* everything else that is critical.                                       *)
LEMMA ValidIsNeverCritical ==
    ASSUME NEW config, ~hasConfigErrors(config)
    PROVE  Summary(diagnoseUserPool(normalizeConfig(config)), "critical") = {}
<1> DEFINE app == config.application
           p == normalizeConfig(config)
<1>1. app # Absent
  BY DEF hasConfigErrors, ConfigErrors
<1>2. "callbackUrls" \notin ApplicationErrors(app) /\ "logoutUrls" \notin ApplicationErrors(app)
  BY <1>1 DEF hasConfigErrors, ConfigErrors
<1>3. RedirectsOk(app.callbackUrls) /\ RedirectsOk(app.logoutUrls)
  BY <1>2 DEF ApplicationErrors
<1>4. /\ p.caseSensitive = FALSE
      /\ p.email => p.verification = "required"
      /\ p.implicitFlow = FALSE
      /\ p.callbackUrls = app.callbackUrls
      /\ p.logoutUrls = app.logoutUrls
  BY DEF normalizeConfig
<1> HIDE DEF p, app
<1>5. /\ emailCaseSensitive(p) # "critical"
      /\ emailVerification(p) # "critical"
      /\ implicitFlow(p) # "critical"
  BY <1>4 DEF emailCaseSensitive, emailVerification, implicitFlow, GoodUnless
<1>6. callbackUrls(p) # "critical" /\ wildcardCallback(p) # "critical"
  BY <1>3, <1>4 DEF callbackUrls, wildcardCallback, RedirectsOk, validateRedirectUrl, GoodUnless
<1>7. /\ subIdentity(p) # "critical"
      /\ emailAsIdentity(p) # "critical"
      /\ customAttributes(p) # "critical"
      /\ requiredAttributes(p) # "critical"
      /\ passwordFlow(p) # "critical"
      /\ tokenDuration(p) # "critical"
  BY DEF subIdentity, emailAsIdentity, customAttributes, requiredAttributes, passwordFlow,
     tokenDuration, GoodUnless
<1>8. /\ accountRecovery(p) # "critical"
      /\ clientVisibility(p) # "critical"
      /\ profileStorage(p) # "critical"
      /\ noIac(p) # "critical"
      /\ lockIn(p) # "critical"
  BY DEF accountRecovery, clientVisibility, profileStorage, noIac, lockIn, GoodUnless
<1>9. ASSUME NEW rule \in DIAGNOSTIC_RULES
      PROVE  Status(rule, p) # "critical"
  BY <1>5, <1>6, <1>7, <1>8 DEF DIAGNOSTIC_RULES, Status
<1>10. Summary(diagnoseUserPool(p), "critical") = {}
  BY <1>9 DEF Summary, diagnoseUserPool
<1> QED
  BY <1>10 DEF p

OfClient ==
    {"implicit-flow", "password-flow", "callback-urls", "wildcard-callback",
     "token-duration", "client-visibility"}

(* These rules read the client alone, whatever the pool is.                *)
LEMMA ClientRules ==
    ASSUME NEW p1, NEW p2, NEW client, NEW rule \in OfClient
    PROVE  Status(rule, toNormalizedPool(p1, client)) = Status(rule, toNormalizedPool(p2, client))
<1> DEFINE a == toNormalizedPool(p1, client)
           b == toNormalizedPool(p2, client)
<1>1. /\ a.implicitFlow = b.implicitFlow
      /\ a.clientCredentials = b.clientCredentials
      /\ a.userPassword = b.userPassword
      /\ a.callbackUrls = b.callbackUrls
      /\ a.logoutUrls = b.logoutUrls
      /\ a.idTokenMinutes = b.idTokenMinutes
      /\ a.accessTokenMinutes = b.accessTokenMinutes
      /\ a.generateSecret = b.generateSecret
  BY DEF toNormalizedPool
<1> HIDE DEF a, b
<1>2. implicitFlow(a) = implicitFlow(b)
  BY <1>1 DEF implicitFlow
<1>3. passwordFlow(a) = passwordFlow(b)
  BY <1>1 DEF passwordFlow
<1>4. callbackUrls(a) = callbackUrls(b) /\ wildcardCallback(a) = wildcardCallback(b)
  BY <1>1 DEF callbackUrls, wildcardCallback
<1>5. tokenDuration(a) = tokenDuration(b)
  BY <1>1 DEF tokenDuration
<1>6. clientVisibility(a) = clientVisibility(b)
  BY <1>1 DEF clientVisibility
<1>7. Status(rule, a) = Status(rule, b)
  BY <1>2, <1>3, <1>4, <1>5, <1>6 DEF OfClient, Status
<1> QED
  BY <1>7 DEF a, b

(* The others read the pool alone, whatever the client is.                 *)
LEMMA PoolRules ==
    ASSUME NEW pool, NEW c1, NEW c2, NEW rule \in DIAGNOSTIC_RULES \ OfClient
    PROVE  Status(rule, toNormalizedPool(pool, c1)) = Status(rule, toNormalizedPool(pool, c2))
<1> DEFINE a == toNormalizedPool(pool, c1)
           b == toNormalizedPool(pool, c2)
<1>1. /\ a.email = b.email
      /\ a.username = b.username
      /\ a.caseSensitive = b.caseSensitive
      /\ a.verification = b.verification
      /\ a.requiredAttributes = b.requiredAttributes
      /\ a.customAttributes = b.customAttributes
      /\ a.recovery = b.recovery
      /\ a.recoveryEnabled = b.recoveryEnabled
  BY DEF toNormalizedPool
<1>2. /\ a.provisionedBy = b.provisionedBy
      /\ a.reproducible = b.reproducible
      /\ a.identity = b.identity
      /\ a.storesProfileData = b.storesProfileData
  BY DEF toNormalizedPool
<1> HIDE DEF a, b
<1>3. /\ emailCaseSensitive(a) = emailCaseSensitive(b)
      /\ subIdentity(a) = subIdentity(b)
      /\ emailAsIdentity(a) = emailAsIdentity(b)
  BY <1>1, <1>2 DEF emailCaseSensitive, subIdentity, emailAsIdentity
<1>4. /\ emailVerification(a) = emailVerification(b)
      /\ customAttributes(a) = customAttributes(b)
  BY <1>1 DEF emailVerification, customAttributes
<1>5. requiredAttributes(a) = requiredAttributes(b)
  BY <1>1 DEF requiredAttributes, Essentials
<1>6. /\ accountRecovery(a) = accountRecovery(b)
      /\ profileStorage(a) = profileStorage(b)
  BY <1>1, <1>2 DEF accountRecovery, profileStorage
<1>7. noIac(a) = noIac(b) /\ lockIn(a) = lockIn(b)
  BY <1>1, <1>2 DEF noIac, lockIn
<1>8. Status(rule, a) = Status(rule, b)
  BY <1>3, <1>4, <1>5, <1>6, <1>7 DEF DIAGNOSTIC_RULES, OfClient, Status
<1> QED
  BY <1>8 DEF a, b

-----------------------------------------------------------------------------
(* test and doctor --config judge a config as validation does.             *)

(* What a command records of its answer.                                   *)
LEMMA Answered ==
    ASSUME NEW command, NEW failOn, NEW code, NEW report, Answer(command, failOn, code, report)
    PROVE  /\ last'.command = command
           /\ last'.failOn = failOn
           /\ last'.code = code
           /\ last'.report = report
           /\ last'.config = file
  BY DEF Answer

(* A command that refuses a file that is missing or in error is right.     *)
LEMMA RefusedRightly ==
    ASSUME NEW command, NEW failOn, Loads => hasConfigErrors(file),
           Answer(command, failOn, 1, None)
    PROVE  TestIsValidation'
<1>1. last'.code = 1 /\ last'.config = file
  BY Answered
<1>2. file = None \/ file.signIn = Absent \/ hasConfigErrors(file)
  BY DEF Loads
<1> QED
  BY <1>1, <1>2 DEF TestIsValidation

(* A command that diagnoses a valid file does not fail it.                 *)
LEMMA DiagnosedRightly ==
    ASSUME NEW command, NEW failOn, Loads, ~hasConfigErrors(file),
           Answer(command, failOn, ExitCode(failOn, ConfigReport), ConfigReport)
    PROVE  TestIsValidation'
<1>1. Summary(ConfigReport, "critical") = {}
  BY ValidIsNeverCritical DEF ConfigReport
<1>2. ExitCode("critical", ConfigReport) = 0
  BY <1>1 DEF ExitCode, Threshold
<1>3. /\ last'.config = file
      /\ last'.failOn = failOn
      /\ last'.code = ExitCode(failOn, ConfigReport)
  BY Answered
<1>4. last'.failOn = "critical" => last'.code = 0
  BY <1>2, <1>3
<1>5. last'.config # None /\ last'.config.signIn # Absent
  BY <1>3 DEF Loads
<1>6. ~hasConfigErrors(last'.config)
  BY <1>3
<1>7. 0 # 1
  OBVIOUS
<1> QED
  BY <1>4, <1>5, <1>6, <1>7 DEF TestIsValidation

(* A command that answers for the current file is right about it, and the  *)
(* others leave the answer alone or give one of another kind.              *)
LEMMA TestStep ==
    ASSUME TestIsValidation, [Next]_vars
    PROVE  TestIsValidation'
<1>1. CASE last' = last
  BY <1>1 DEF TestIsValidation
<1>2. CASE last' = None
  BY <1>2 DEF TestIsValidation
<1>3. CASE TestFails
  BY <1>3, RefusedRightly DEF TestFails
<1>4. CASE TestReports
  BY <1>4, DiagnosedRightly DEF TestReports
<1>5. CASE last'.command \notin {"test", "doctor --config"}
  BY <1>5 DEF TestIsValidation
<1>6. ASSUME NEW code, NEW report, Finish(code, report)
      PROVE  last'.command = "doctor --pool"
  BY <1>6 DEF Finish, Answer
<1>7. CASE AwsNext
  <2>1. CASE ImportFails \/ CallFails \/ NoClients
    BY <1>5, <1>6, <2>1 DEF ImportFails, CallFails, NoClients, GivesUp
  <2>2. CASE ClientDescribed
    <3>1. PICK client \in Described(job.client) :
             Finish(ExitCode(job.failOn, diagnoseUserPool(toNormalizedPool(job.pool, client))),
                    diagnoseUserPool(toNormalizedPool(job.pool, client)))
      BY <2>2 DEF ClientDescribed
    <3> QED
      BY <1>5, <1>6, <3>1
  <2>3. CASE Imported \/ PoolDescribed \/ \E id \in ClientIds : ClientsListed(id)
    BY <1>1, <2>3 DEF Imported, PoolDescribed, ClientsListed
  <2> QED
    BY <1>7, <2>1, <2>2, <2>3 DEF AwsNext
<1>8. CASE CloudNext
  <2>1. PICK next : Changed(next)
    BY <1>8 DEF CloudNext, PoolDeleted, PoolUpdated, ClientUpdated
  <2> QED
    BY <1>1, <1>2, <2>1 DEF Changed
<1>9. CASE InitNext
  <2>1. ASSUME NEW application, NEW callbacks, NEW logouts,
               InitThrows(application, callbacks, logouts)
        PROVE  TestIsValidation'
    <3>1. last'.command = "init"
      BY <2>1, Answered DEF InitThrows
    <3> QED
      BY <1>5, <3>1
  <2>2. ASSUME NEW signIn, NEW application, NEW callbacks, NEW logouts,
               InitWrites(signIn, application, callbacks, logouts)
        PROVE  TestIsValidation'
    BY <1>2, <2>2 DEF InitWrites
  <2> QED
    BY <1>9, <2>1, <2>2 DEF InitNext
<1>10. CASE DoctorNext
  <2>1. CASE DoctorUsage
    <3>1. last'.command = "doctor"
      BY <2>1, Answered DEF DoctorUsage
    <3> QED
      BY <1>5, <3>1
  <2>2. ASSUME NEW failOn \in {"warning", "critical"}, DoctorPool(failOn)
        PROVE  TestIsValidation'
    BY <1>2, <2>2 DEF DoctorPool
  <2>3. ASSUME NEW failOn \in {"warning", "critical"}, NEW document \in Documents,
               DoctorFile(document, failOn)
        PROVE  TestIsValidation'
    <3>1. last'.command = "doctor --file"
      BY <2>3, Answered DEF DoctorFile
    <3> QED
      BY <1>5, <3>1
  <2>4. ASSUME NEW failOn \in {"warning", "critical"}, DoctorFileFails(failOn)
        PROVE  TestIsValidation'
    <3>1. last'.command = "doctor --file"
      BY <2>4, Answered DEF DoctorFileFails
    <3> QED
      BY <1>5, <3>1
  <2>5. ASSUME NEW failOn \in {"warning", "critical"}, DoctorConfigFails(failOn)
        PROVE  TestIsValidation'
    BY <2>5, RefusedRightly DEF DoctorConfigFails
  <2>6. ASSUME NEW failOn \in {"warning", "critical"}, DoctorConfig(failOn)
        PROVE  TestIsValidation'
    BY <2>6, DiagnosedRightly DEF DoctorConfig
  <2> QED
    BY <1>10, <2>1, <2>2, <2>3, <2>4, <2>5, <2>6 DEF DoctorNext
<1>11. CASE UNCHANGED vars
  BY <1>1, <1>11 DEF vars
<1> QED
  BY <1>3, <1>4, <1>7, <1>8, <1>9, <1>10, <1>11 DEF Next

(* For every set of config files: the exit code of test and of             *)
(* doctor --config, at the default threshold, is the verdict of validation *)
(* (validate.ts:18, doctor.ts:77, test.ts:38).                             *)
THEOREM TestAgreesWithValidation == Spec => []TestIsValidation
<1>1. Init => TestIsValidation
  BY DEF Init, TestIsValidation
<1>2. TestIsValidation /\ [Next]_vars => TestIsValidation'
  BY TestStep
<1> QED
  BY <1>1, <1>2, PTL DEF Spec

-----------------------------------------------------------------------------
(* doctor --pool reports nothing that was never so.                        *)

(* The inductive form: the cloud of every instant of a run is remembered,  *)
(* and the pool that was described is the pool of one of them.             *)
DoctorInvariant ==
    /\ job.phase # "idle" => cloud \in seen
    /\ job.phase \in {"list clients", "describe client"} =>
          \E s \in seen : s.pool # None /\ s.pool = job.pool
    /\ job.phase = "describe client" => job.client \in ClientIds
    /\ EveryFindingWasTrue

(* A finding that was true of an instant stays so when more are seen.      *)
LEMMA MoreSeen ==
    ASSUME EveryFindingWasTrue, last' = last, seen \subseteq seen'
    PROVE  EveryFindingWasTrue'
  BY DEF EveryFindingWasTrue

(* The report of a pool seen at one instant and a client seen at another.  *)
LEMMA ReportOfTwoInstants ==
    ASSUME NEW s \in seen, s.pool # None,
           NEW t \in seen, NEW id \in ClientIds, t.clients[id] # None,
           NEW rule \in DIAGNOSTIC_RULES
    PROVE  LET status == Status(rule, toNormalizedPool(s.pool, t.clients[id]))
           IN  \/ \E u \in seen :
                     /\ u.pool # None
                     /\ \A client \in ClientInfos :
                           status = Status(rule, toNormalizedPool(u.pool, client))
               \/ \E u \in seen, i \in ClientIds :
                     /\ u.clients[i] # None
                     /\ \A pool \in Pools :
                           status = Status(rule, toNormalizedPool(pool, u.clients[i]))
<1>1. CASE rule \in OfClient
  <2>1. \A pool \in Pools : Status(rule, toNormalizedPool(s.pool, t.clients[id]))
                             = Status(rule, toNormalizedPool(pool, t.clients[id]))
    BY <1>1, ClientRules
  <2> QED
    BY <2>1
<1>2. CASE rule \notin OfClient
  <2>1. \A client \in ClientInfos : Status(rule, toNormalizedPool(s.pool, t.clients[id]))
                                     = Status(rule, toNormalizedPool(s.pool, client))
    BY <1>2, PoolRules
  <2> QED
    BY <2>1
<1> QED
  BY <1>1, <1>2

(* A report stays right while its command's instants are remembered.       *)
LEMMA FindingsStep ==
    ASSUME DoctorInvariant, [Next]_vars
    PROVE  DoctorInvariant'
<1>1. EveryFindingWasTrue
  BY DEF DoctorInvariant
<1>2. ASSUME last' = None \/ last'.command # "doctor --pool" \/ last'.report = None
      PROVE  EveryFindingWasTrue'
  BY <1>2 DEF EveryFindingWasTrue
<1>3. ASSUME job = Idle, UNCHANGED <<cloud, job, seen>>, EveryFindingWasTrue'
      PROVE  DoctorInvariant'
  BY <1>3 DEF DoctorInvariant, Idle
<1>4. CASE job = Idle /\ (InitNext \/ TestFails \/ TestReports \/ DoctorNext)
  <2>1. ASSUME NEW failOn \in {"warning", "critical"}, DoctorPool(failOn)
        PROVE  DoctorInvariant'
    <3>1. job'.phase = "import"
      BY <2>1 DEF DoctorPool
    <3>2. EveryFindingWasTrue' /\ cloud' \in seen'
      BY <1>2, <2>1 DEF DoctorPool
    <3> QED
      BY <3>1, <3>2 DEF DoctorInvariant
  <2>2. ASSUME NEW command, NEW failOn, NEW code, NEW report,
               command # "doctor --pool", Answer(command, failOn, code, report),
               UNCHANGED <<cloud, job, seen>>
        PROVE  DoctorInvariant'
    <3>1. last'.command = command
      BY <2>2, Answered
    <3> QED
      BY <1>2, <1>3, <1>4, <2>2, <3>1
  <2>3. CASE TestFails \/ TestReports
    BY <2>2, <2>3 DEF TestFails, TestReports
  <2>4. ASSUME NEW application, NEW callbacks, NEW logouts,
               InitThrows(application, callbacks, logouts)
        PROVE  DoctorInvariant'
    BY <2>2, <2>4 DEF InitThrows
  <2>5. ASSUME NEW signIn, NEW application, NEW callbacks, NEW logouts,
               InitWrites(signIn, application, callbacks, logouts)
        PROVE  DoctorInvariant'
    BY <1>2, <1>3, <1>4, <2>5 DEF InitWrites
  <2>6. CASE DoctorUsage
    BY <2>2, <2>6 DEF DoctorUsage
  <2>7. ASSUME NEW failOn \in {"warning", "critical"},
               DoctorConfigFails(failOn) \/ DoctorConfig(failOn) \/ DoctorFileFails(failOn)
        PROVE  DoctorInvariant'
    BY <2>2, <2>7 DEF DoctorConfigFails, DoctorConfig, DoctorFileFails
  <2>8. ASSUME NEW failOn \in {"warning", "critical"}, NEW document \in Documents,
               DoctorFile(document, failOn)
        PROVE  DoctorInvariant'
    BY <2>2, <2>8 DEF DoctorFile
  <2> QED
    BY <1>4, <2>1, <2>3, <2>4, <2>5, <2>6, <2>7, <2>8 DEF InitNext, DoctorNext
<1>5. ASSUME NEW code, NEW report, Finish(code, report), EveryFindingWasTrue'
      PROVE  DoctorInvariant'
  <2>1. job'.phase = "idle"
    BY <1>5 DEF Finish, Idle
  <2> QED
    BY <1>5, <2>1 DEF DoctorInvariant
<1>6. ASSUME UNCHANGED <<cloud, last, seen>>, job.phase # "idle",
             job'.phase \in {"list clients", "describe client"} =>
                \E s \in seen : s.pool # None /\ s.pool = job'.pool,
             job'.phase = "describe client" => job'.client \in ClientIds
      PROVE  DoctorInvariant'
  BY <1>1, <1>6, MoreSeen DEF DoctorInvariant
<1>7. CASE AwsNext
  <2>1. CASE ImportFails \/ NoClients
    <3>1. Finish(1, NoReport)
      BY <2>1 DEF ImportFails, NoClients, GivesUp
    <3>2. last'.report = NoReport /\ DOMAIN NoReport = {}
      BY <3>1, Answered DEF Finish, NoReport
    <3>3. EveryFindingWasTrue'
      BY <3>2 DEF EveryFindingWasTrue
    <3> QED
      BY <1>5, <3>1, <3>3
  <2>2. CASE CallFails
    <3>1. Finish(1, None)
      BY <2>2 DEF CallFails
    <3>2. last'.report = None
      BY <3>1, Answered DEF Finish
    <3> QED
      BY <1>2, <1>5, <3>1, <3>2
  <2>3. CASE Imported
    <3>1. job'.phase = "describe pool"
      BY <2>3 DEF Imported
    <3>2. job.phase # "idle"
      BY <2>3 DEF Imported
    <3> QED
      BY <1>6, <2>3, <3>1, <3>2 DEF Imported
  <2>4. CASE PoolDescribed
    <3>1. job'.phase = "list clients" /\ job'.pool = cloud.pool
      BY <2>4 DEF PoolDescribed
    <3>2. cloud \in seen /\ cloud.pool # None /\ job.phase # "idle"
      BY <2>4 DEF PoolDescribed, PoolExists, DoctorInvariant
    <3> QED
      BY <1>6, <2>4, <3>1, <3>2 DEF PoolDescribed
  <2>5. ASSUME NEW id \in ClientIds, ClientsListed(id)
        PROVE  DoctorInvariant'
    <3>1. job'.phase = "describe client" /\ job'.pool = job.pool /\ job'.client = id
      BY <2>5 DEF ClientsListed
    <3>2. job.phase = "list clients"
      BY <2>5 DEF ClientsListed
    <3>3. \E s \in seen : s.pool # None /\ s.pool = job.pool
      BY <3>2 DEF DoctorInvariant
    <3> QED
      BY <1>6, <2>5, <3>1, <3>2, <3>3 DEF ClientsListed
  <2>6. CASE ClientDescribed
    <3> DEFINE client == cloud.clients[job.client]
               report == diagnoseUserPool(toNormalizedPool(job.pool, client))
    <3>1. job.phase = "describe client"
      BY <2>6 DEF ClientDescribed
    <3>2. client # None /\ Finish(ExitCode(job.failOn, report), report)
      BY <2>6 DEF ClientDescribed, Described
    <3>3. PICK s \in seen : s.pool # None /\ s.pool = job.pool
      BY <3>1 DEF DoctorInvariant
    <3>4. cloud \in seen /\ job.client \in ClientIds
      BY <3>1 DEF DoctorInvariant
    <3>5. /\ last'.report = report
          /\ seen' = seen
      BY <3>2, Answered DEF Finish
    <3>6. /\ DOMAIN report = DIAGNOSTIC_RULES
          /\ \A rule \in DIAGNOSTIC_RULES :
                report[rule] = Status(rule, toNormalizedPool(s.pool, client))
      BY <3>3 DEF diagnoseUserPool
    <3>7. EveryFindingWasTrue'
      <4>1. ASSUME NEW rule \in DIAGNOSTIC_RULES
            PROVE  \/ \E u \in seen :
                         /\ u.pool # None
                         /\ \A c \in ClientInfos :
                               report[rule] = Status(rule, toNormalizedPool(u.pool, c))
                   \/ \E u \in seen, i \in ClientIds :
                         /\ u.clients[i] # None
                         /\ \A pool \in Pools :
                               report[rule] = Status(rule, toNormalizedPool(pool, u.clients[i]))
        BY <3>2, <3>3, <3>4, <3>6, ReportOfTwoInstants
      <4> HIDE DEF report
      <4> QED
        BY <3>5, <3>6, <4>1 DEF EveryFindingWasTrue
    <3> QED
      BY <1>5, <3>2, <3>7
  <2> QED
    BY <1>7, <2>1, <2>2, <2>3, <2>4, <2>5, <2>6 DEF AwsNext
<1>8. CASE CloudNext
  <2>1. PICK next : Changed(next)
    BY <1>8 DEF CloudNext, PoolDeleted, PoolUpdated, ClientUpdated
  <2>2. job' = job /\ cloud' = next
    BY <2>1 DEF Changed
  <2>3. CASE job.phase = "idle"
    <3>1. last' = None
      BY <2>1, <2>3 DEF Changed
    <3> QED
      BY <1>2, <2>2, <2>3, <3>1 DEF DoctorInvariant
  <2>4. CASE job.phase # "idle"
    <3>1. last' = last /\ seen' = seen \cup {next}
      BY <2>1, <2>4 DEF Changed
    <3>2. EveryFindingWasTrue'
      BY <1>1, <3>1, MoreSeen
    <3> QED
      BY <2>2, <2>4, <3>1, <3>2 DEF DoctorInvariant
  <2> QED
    BY <2>3, <2>4
<1>9. CASE UNCHANGED vars
  BY <1>9 DEF vars, DoctorInvariant, EveryFindingWasTrue
<1> QED
  BY <1>4, <1>7, <1>8, <1>9 DEF Next

(* For all pools, clients and changes to them: whatever doctor --pool      *)
(* reports was true of the pool or of one of its clients at an instant of  *)
(* the run (doctor.ts:96-104).                                             *)
THEOREM FindingsWereTrue == Spec => []EveryFindingWasTrue
<1>1. Init => DoctorInvariant
  BY DEF Init, Idle, DoctorInvariant, EveryFindingWasTrue
<1>2. DoctorInvariant /\ [Next]_vars => DoctorInvariant'
  BY FindingsStep
<1>3. DoctorInvariant => EveryFindingWasTrue
  BY DEF DoctorInvariant
<1> QED
  BY <1>1, <1>2, <1>3, PTL DEF Spec

-----------------------------------------------------------------------------
(* What every command answers.                                             *)

Statuses == {"good", "warning", "critical"}

(* Each rule returns a finding of one of three severities, of any document.*)
LEMMA StatusIsKnown ==
    ASSUME NEW p, NEW rule \in DIAGNOSTIC_RULES
    PROVE  Status(rule, p) \in Statuses
<1>1. /\ emailCaseSensitive(p) \in Statuses
      /\ subIdentity(p) \in Statuses
      /\ emailAsIdentity(p) \in Statuses
      /\ customAttributes(p) \in Statuses
      /\ requiredAttributes(p) \in Statuses
      /\ implicitFlow(p) \in Statuses
      /\ passwordFlow(p) \in Statuses
  BY DEF Statuses, emailCaseSensitive, subIdentity, emailAsIdentity, customAttributes,
     requiredAttributes, implicitFlow, passwordFlow, GoodUnless
<1>2. /\ callbackUrls(p) \in Statuses
      /\ wildcardCallback(p) \in Statuses
      /\ tokenDuration(p) \in Statuses
      /\ accountRecovery(p) \in Statuses
      /\ clientVisibility(p) \in Statuses
      /\ profileStorage(p) \in Statuses
      /\ noIac(p) \in Statuses
      /\ lockIn(p) \in Statuses
  BY DEF Statuses, callbackUrls, wildcardCallback, tokenDuration, accountRecovery,
     clientVisibility, profileStorage, noIac, lockIn, GoodUnless
<1>3. emailVerification(p) \in Statuses
  BY DEF Statuses, emailVerification
<1> QED
  BY <1>1, <1>2, <1>3 DEF DIAGNOSTIC_RULES, Status

(* A report is never mistaken for the answer of a command that threw.      *)
LEMMA ReportIsReport ==
    ASSUME NEW p
    PROVE  /\ diagnoseUserPool(p) \in [DIAGNOSTIC_RULES -> Statuses]
           /\ diagnoseUserPool(p) # None
           /\ DOMAIN diagnoseUserPool(p) = DIAGNOSTIC_RULES
<1>1. diagnoseUserPool(p) \in [DIAGNOSTIC_RULES -> Statuses]
  BY StatusIsKnown DEF diagnoseUserPool
<1>2. None \notin [DIAGNOSTIC_RULES -> Statuses]
  BY InputAssumption DEF Statuses
<1> QED
  BY <1>1, <1>2 DEF diagnoseUserPool

(* A command answers in one of two ways: it fails without a report, or its *)
(* exit code is the verdict on the document that it diagnosed.             *)
Fails ==
    \E command, failOn : \E report \in {None, NoReport} : Answer(command, failOn, 1, report)

Diagnoses ==
    \E command, failOn, p :
        Answer(command, failOn, ExitCode(failOn, diagnoseUserPool(p)), diagnoseUserPool(p))

LEMMA CommandsAnswer ==
    ASSUME [Next]_vars
    PROVE  last' = last \/ last' = None \/ Fails \/ Diagnoses
<1>1. ASSUME NEW report \in {None, NoReport}, Finish(1, report)
      PROVE  Fails
  BY <1>1 DEF Finish, Fails
<1>2. CASE AwsNext
  <2>1. CASE ImportFails \/ CallFails \/ NoClients
    BY <1>1, <2>1 DEF ImportFails, CallFails, NoClients, GivesUp
  <2>2. CASE ClientDescribed
    <3>1. PICK client \in Described(job.client) :
             Finish(ExitCode(job.failOn, diagnoseUserPool(toNormalizedPool(job.pool, client))),
                    diagnoseUserPool(toNormalizedPool(job.pool, client)))
      BY <2>2 DEF ClientDescribed
    <3> QED
      BY <3>1 DEF Finish, Diagnoses
  <2>3. CASE Imported \/ PoolDescribed \/ \E id \in ClientIds : ClientsListed(id)
    BY <2>3 DEF Imported, PoolDescribed, ClientsListed
  <2> QED
    BY <1>2, <2>1, <2>2, <2>3 DEF AwsNext
<1>3. CASE CloudNext
  <2>1. PICK next : Changed(next)
    BY <1>3 DEF CloudNext, PoolDeleted, PoolUpdated, ClientUpdated
  <2> QED
    BY <2>1 DEF Changed
<1>4. CASE InitNext
  BY <1>4 DEF InitNext, InitThrows, InitWrites, Fails
<1>5. CASE TestFails \/ DoctorUsage
  BY <1>5 DEF TestFails, DoctorUsage, Fails
<1>6. CASE TestReports
  BY <1>6 DEF TestReports, ConfigReport, Diagnoses
<1>7. ASSUME NEW failOn \in {"warning", "critical"},
             DoctorConfigFails(failOn) \/ DoctorFileFails(failOn)
      PROVE  Fails
  BY <1>7 DEF DoctorConfigFails, DoctorFileFails, Fails
<1>8. ASSUME NEW failOn \in {"warning", "critical"}, DoctorConfig(failOn)
      PROVE  Diagnoses
  BY <1>8 DEF DoctorConfig, ConfigReport, Diagnoses
<1>9. ASSUME NEW failOn \in {"warning", "critical"}, NEW document \in Documents,
             DoctorFile(document, failOn)
      PROVE  Diagnoses
  BY <1>9 DEF DoctorFile, Diagnoses
<1>10. ASSUME NEW failOn \in {"warning", "critical"}, DoctorPool(failOn)
       PROVE  last' = None
  BY <1>10 DEF DoctorPool
<1>11. CASE UNCHANGED vars
  BY <1>11 DEF vars
<1> QED
  BY <1>2, <1>3, <1>4, <1>5, <1>6, <1>7, <1>8, <1>9, <1>10, <1>11 DEF Next, DoctorNext

(* Whatever AWS refuses, deletes or changes meanwhile: exit code 0 only    *)
(* ever comes with the finding of each rule (doctor.ts:77, 84-104).        *)
THEOREM SuccessIsReported == Spec => []SilenceIsNotHealth
<1>1. Init => SilenceIsNotHealth
  BY DEF Init, SilenceIsNotHealth
<1>2. SilenceIsNotHealth /\ [Next]_vars => SilenceIsNotHealth'
  <2> SUFFICES ASSUME SilenceIsNotHealth, [Next]_vars
               PROVE  SilenceIsNotHealth'
    OBVIOUS
  <2>1. CASE last' = last \/ last' = None
    BY <2>1 DEF SilenceIsNotHealth
  <2>2. CASE Fails
    <3>1. last'.code = 1
      BY <2>2, Answered DEF Fails
    <3> QED
      BY <3>1 DEF SilenceIsNotHealth
  <2>3. CASE Diagnoses
    <3>1. PICK command, failOn, p :
             Answer(command, failOn, ExitCode(failOn, diagnoseUserPool(p)), diagnoseUserPool(p))
      BY <2>3 DEF Diagnoses
    <3>2. last'.report = diagnoseUserPool(p)
      BY <3>1, Answered
    <3> QED
      BY <3>2, ReportIsReport DEF SilenceIsNotHealth
  <2> QED
    BY <2>1, <2>2, <2>3, CommandsAnswer
<1> QED
  BY <1>1, <1>2, PTL DEF Spec

-----------------------------------------------------------------------------
(* Types.                                                                  *)

(* What the last command answered, as far as TypeOK says.                  *)
AnswerOK ==
    last # None => /\ last.code \in {0, 1}
                   /\ last.report # None =>
                         \A rule \in DOMAIN last.report : last.report[rule] \in Statuses

LEMMA AnswerStep ==
    ASSUME AnswerOK, [Next]_vars
    PROVE  AnswerOK'
<1>1. CASE last' = last \/ last' = None
  BY <1>1 DEF AnswerOK
<1>2. CASE Fails
  <2>1. last'.code = 1 /\ last'.report \in {None, NoReport}
    BY <1>2, Answered DEF Fails
  <2>2. DOMAIN NoReport = {}
    BY DEF NoReport
  <2> QED
    BY <2>1, <2>2 DEF AnswerOK
<1>3. CASE Diagnoses
  <2>1. PICK command, failOn, p :
           Answer(command, failOn, ExitCode(failOn, diagnoseUserPool(p)), diagnoseUserPool(p))
    BY <1>3 DEF Diagnoses
  <2>2. /\ last'.report = diagnoseUserPool(p)
        /\ last'.code = ExitCode(failOn, diagnoseUserPool(p))
    BY <2>1, Answered
  <2>3. last'.code \in {0, 1}
    BY <2>2 DEF ExitCode
  <2>4. \A rule \in DOMAIN last'.report : last'.report[rule] \in Statuses
    BY <2>2, ReportIsReport
  <2> QED
    BY <2>3, <2>4 DEF AnswerOK
<1> QED
  BY <1>1, <1>2, <1>3, CommandsAnswer

(* A file that init writes has the shape of any other, even when the       *)
(* sign-in and the type of the application are not ones it knows.          *)
LEMMA StarterType ==
    ASSUME NEW signIn \in {"email", "username", "unknown"},
           NEW application \in {"web", "spa", "mobile", "unknown"},
           NEW callbacks \in InitUrls, NEW logouts \in InitUrls
    PROVE  Starter(signIn, application, callbacks, logouts) \in AuthConfig
<1> DEFINE app == [type |-> application, openid |-> Absent,
                   callbackUrls |-> OrDefault(callbacks, application),
                   logoutUrls |-> OrDefault(logouts, application)]
<1>1. ASSUME NEW urls \in InitUrls
      PROVE  OrDefault(urls, application) \in SUBSET Url
  BY InputAssumption DEF OrDefault, DEFAULT_URLS
<1>2. app \in Application
  BY <1>1 DEF Application, Optional
<1> HIDE DEF app
<1>3. [schemaVersion |-> 1, signIn |-> signIn, application |-> app, idTokenMinutes |-> Absent,
       accessTokenMinutes |-> Absent, refreshTokenDays |-> Absent] \in AuthConfig
  BY <1>2 DEF AuthConfig, Optional
<1> QED
  BY <1>3 DEF Starter, app

(* Where doctor --pool stands, by what it remembers.                       *)
LEMMA JobFacts ==
    ASSUME job \in Job
    PROVE  /\ job.phase # "idle" => job.failOn \in {"warning", "critical"}
           /\ job.phase \in {"list clients", "describe client"} => job.pool \in UserPoolInfo
BY DEF Job

(* What a change of the cloud leaves.                                      *)
LEMMA ChangedType ==
    ASSUME TypeOK, NEW next \in Cloud, Changed(next)
    PROVE  file' = file /\ job' = job /\ cloud' \in Cloud /\ seen' \subseteq Cloud
BY DEF TypeOK, Changed

LEMMA TypeStep ==
    ASSUME TypeOK, [Next]_vars
    PROVE  TypeOK'
<1>1. AnswerOK'
  BY AnswerStep DEF TypeOK, AnswerOK, Statuses
<1>2. ASSUME file' \in AuthConfig \cup {None}, cloud' \in Cloud, job' \in Job, seen' \subseteq Cloud
      PROVE  TypeOK'
  BY <1>1, <1>2 DEF TypeOK, AnswerOK, Statuses
<1>3. file \in AuthConfig \cup {None} /\ cloud \in Cloud /\ job \in Job /\ seen \subseteq Cloud
  BY DEF TypeOK
<1>4. ASSUME NEW code, NEW report, Finish(code, report)
      PROVE  TypeOK'
  <2>1. Idle \in Job
    BY DEF Idle, Job
  <2> QED
    BY <1>2, <1>3, <1>4, <2>1 DEF Finish
<1>5. CASE UNCHANGED <<file, cloud, job, seen>>
  BY <1>2, <1>3, <1>5
<1>6. CASE InitNext
  <2>1. PICK application \in {"web", "spa", "mobile", "unknown"}, callbacks \in InitUrls,
             logouts \in InitUrls :
                \/ InitThrows(application, callbacks, logouts)
                \/ \E signIn \in {"email", "username", "unknown"} :
                      InitWrites(signIn, application, callbacks, logouts)
    BY <1>6 DEF InitNext
  <2>2. CASE InitThrows(application, callbacks, logouts)
    BY <1>5, <2>2 DEF InitThrows
  <2>3. ASSUME NEW signIn \in {"email", "username", "unknown"},
               InitWrites(signIn, application, callbacks, logouts)
        PROVE  TypeOK'
    BY <1>2, <1>3, <2>3, StarterType DEF InitWrites
  <2> QED
    BY <2>1, <2>2, <2>3
<1>7. CASE TestFails \/ TestReports \/ DoctorUsage
  BY <1>5, <1>7 DEF TestFails, TestReports, DoctorUsage
<1>8. ASSUME NEW failOn \in {"warning", "critical"},
             \/ DoctorConfigFails(failOn) \/ DoctorConfig(failOn) \/ DoctorFileFails(failOn)
             \/ \E document \in Documents : DoctorFile(document, failOn)
      PROVE  TypeOK'
  BY <1>5, <1>8 DEF DoctorConfigFails, DoctorConfig, DoctorFileFails, DoctorFile
<1>9. ASSUME NEW failOn \in {"warning", "critical"}, DoctorPool(failOn)
      PROVE  TypeOK'
  <2>1. job' \in Job
    BY <1>9 DEF DoctorPool, Job
  <2> QED
    BY <1>2, <1>3, <1>9, <2>1 DEF DoctorPool
<1>10. CASE AwsNext
  <2>1. CASE ImportFails \/ CallFails \/ NoClients
    BY <1>4, <2>1 DEF ImportFails, CallFails, NoClients, GivesUp
  <2>2. CASE ClientDescribed
    <3>1. PICK client \in Described(job.client) :
             Finish(ExitCode(job.failOn, diagnoseUserPool(toNormalizedPool(job.pool, client))),
                    diagnoseUserPool(toNormalizedPool(job.pool, client)))
      BY <2>2 DEF ClientDescribed
    <3> QED
      BY <1>4, <3>1
  <2>3. CASE Imported
    <3>1. job.failOn \in {"warning", "critical"}
      BY <1>3, <2>3, JobFacts DEF Imported
    <3>2. job' \in Job
      BY <2>3, <3>1 DEF Imported, Job
    <3> QED
      BY <1>2, <1>3, <2>3, <3>2 DEF Imported
  <2>4. CASE PoolDescribed
    <3>1. job.failOn \in {"warning", "critical"}
      BY <1>3, <2>4, JobFacts DEF PoolDescribed
    <3>2. cloud.pool \in UserPoolInfo
      BY <1>3, <2>4, InputAssumption DEF PoolDescribed, PoolExists, Cloud
    <3>3. job' \in Job
      BY <2>4, <3>1, <3>2 DEF PoolDescribed, Job
    <3> QED
      BY <1>2, <1>3, <2>4, <3>3 DEF PoolDescribed
  <2>5. ASSUME NEW id \in ClientIds, ClientsListed(id)
        PROVE  TypeOK'
    <3>1. job.failOn \in {"warning", "critical"} /\ job.pool \in UserPoolInfo
      BY <1>3, <2>5, JobFacts DEF ClientsListed
    <3>2. job' \in Job
      BY <2>5, <3>1 DEF ClientsListed, Job
    <3> QED
      BY <1>2, <1>3, <2>5, <3>2 DEF ClientsListed
  <2> QED
    BY <1>10, <2>1, <2>2, <2>3, <2>4, <2>5 DEF AwsNext
<1>11. CASE CloudNext
  <2>1. ASSUME NEW next \in Cloud, Changed(next)
        PROVE  TypeOK'
    BY <1>2, <1>3, <2>1, ChangedType
  <2>2. CASE PoolDeleted
    <3>1. [pool |-> None, clients |-> [id \in ClientIds |-> None]] \in Cloud
      BY DEF Cloud
    <3> QED
      BY <2>1, <2>2, <3>1 DEF PoolDeleted
  <2>3. ASSUME NEW pool \in Pools, PoolUpdated(pool)
        PROVE  TypeOK'
    <3>1. [cloud EXCEPT !.pool = pool] \in Cloud
      BY <1>3 DEF Cloud
    <3> QED
      BY <2>1, <2>3, <3>1 DEF PoolUpdated
  <2>4. ASSUME NEW id \in ClientIds, NEW client \in ClientInfos \cup {None},
               ClientUpdated(id, client)
        PROVE  TypeOK'
    <3>1. [cloud EXCEPT !.clients[id] = client] \in Cloud
      BY <1>3 DEF Cloud
    <3> QED
      BY <2>1, <2>4, <3>1 DEF ClientUpdated
  <2> QED
    BY <1>11, <2>2, <2>3, <2>4 DEF CloudNext
<1>12. CASE UNCHANGED vars
  BY <1>5, <1>12 DEF vars
<1> QED
  BY <1>6, <1>7, <1>8, <1>9, <1>10, <1>11, <1>12 DEF Next, DoctorNext

(* For all configs, pools and clients: a job holds what its next call      *)
(* needs, the file is one that the commands can read, and a report gives   *)
(* every rule a severity (rules.ts:28, doctor.ts:84-104).                  *)
THEOREM TypeCorrect == Spec => []TypeOK
<1>1. Init => TypeOK
  BY InputAssumption DEF Init, TypeOK, Idle, Job
<1>2. TypeOK /\ [Next]_vars => TypeOK'
  BY TypeStep
<1> QED
  BY <1>1, <1>2, PTL DEF Spec
=============================================================================
