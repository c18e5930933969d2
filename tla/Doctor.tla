------------------------------- MODULE Doctor -------------------------------
(***************************************************************************)
(* The commands of packages/cli that judge a configuration: init, test and *)
(* doctor.  Those that read a file run in one piece; doctor --pool asks    *)
(* AWS three times (the pool, its clients, the first client), and whoever  *)
(* administers the pool may change it between two answers.                 *)
(***************************************************************************)
EXTENDS Diagnostics

CONSTANTS
    Configs,        \* the contents auth.config.ts may have at first
    Documents,      \* normalized pool documents for doctor --file
    InitUrls,       \* the sets of URLs given to init, {} for none
    Localhost, AppScheme,   \* the URLs of init's templates
    Pools, ClientInfos,     \* what AWS may describe
    ClientIds,
    MaxSeen,        \* bound on the cloud's states during one command
    None

ASSUME InputAssumption ==
    /\ Configs \subseteq AuthConfig /\ None \notin AuthConfig
    /\ Documents \subseteq NormalizedPoolConfig
    /\ InitUrls \subseteq SUBSET Url /\ {Localhost, AppScheme} \subseteq Url
    /\ Pools \subseteq UserPoolInfo /\ None \notin UserPoolInfo
    /\ ClientInfos \subseteq UserPoolClientInfo /\ None \notin UserPoolClientInfo
    /\ None \notin ClientIds
    /\ None \notin [DIAGNOSTIC_RULES -> {"good", "warning", "critical"}]
    /\ MaxSeen \in Nat

VARIABLES
    file,       \* auth.config.ts, None when there is none
    cloud,      \* the user pool, None when deleted, and its clients
    job,        \* the doctor --pool under way
    last,       \* history: the last command and what it answered
    seen        \* history: the states of the cloud since that command began

vars == <<file, cloud, job, last, seen>>

Idle == [phase |-> "idle"]

Job ==
    [phase : {"idle"}]
    \cup [phase : {"import", "describe pool"}, failOn : {"warning", "critical"}]
    \cup [phase : {"list clients"}, failOn : {"warning", "critical"}, pool : UserPoolInfo]
    \cup [phase : {"describe client"}, failOn : {"warning", "critical"},
          pool : UserPoolInfo, client : ClientIds]

Cloud ==
    [pool : Pools \cup {None}, clients : [ClientIds -> ClientInfos \cup {None}]]

Init ==
    /\ file \in Configs \cup {None}
    /\ cloud \in Cloud
    /\ cloud.pool = None => \A id \in ClientIds : cloud.clients[id] = None
    /\ job = Idle
    /\ last = None
    /\ seen = {}

-----------------------------------------------------------------------------
(* The answer of a command.  The report is None when the command threw,    *)
(* and empty when it gave up without one.                                  *)

NoReport == [rule \in {} |-> "good"]

Answer(command, failOn, code, report) ==
    last' = [command |-> command, failOn |-> failOn, code |-> code,
             report |-> report, config |-> file]

Threshold(failOn, report) ==
    IF failOn = "warning" THEN Summary(report, "warning") ELSE Summary(report, "critical")

ExitCode(failOn, report) == IF Threshold(failOn, report) = {} THEN 0 ELSE 1

-----------------------------------------------------------------------------
(* init                                                                    *)

DEFAULT_URLS(application) == IF application = "mobile" THEN {AppScheme} ELSE {Localhost}

OrDefault(urls, application) == IF urls = {} THEN DEFAULT_URLS(application) ELSE urls

Starter(signIn, application, callbacks, logouts) ==
    [schemaVersion |-> 1, signIn |-> signIn,
     application |-> [type |-> application, openid |-> Absent,
                      callbackUrls |-> OrDefault(callbacks, application),
                      logoutUrls |-> OrDefault(logouts, application)],
     idTokenMinutes |-> Absent, accessTokenMinutes |-> Absent, refreshTokenDays |-> Absent]

(* The options are not validated: there are no default URLs for a type     *)
(* that is unknown, and the renderer throws.                               *)
InitThrows(application, callbacks, logouts) ==
    /\ application = "unknown"
    /\ callbacks = {} \/ logouts = {}
    /\ Answer("init", "critical", 1, None)
    /\ UNCHANGED <<file, cloud, job, seen>>

(* An existing file is overwritten.                                        *)
InitWrites(signIn, application, callbacks, logouts) ==
    /\ application = "unknown" => callbacks # {} /\ logouts # {}
    /\ file' = Starter(signIn, application, callbacks, logouts)
    /\ last' = None
    /\ UNCHANGED <<cloud, job, seen>>

-----------------------------------------------------------------------------
(* test and doctor --config: both load the file, which must have a signIn, *)
(* and both normalise it, which throws on errors.                          *)

Loads == file # None /\ file.signIn # Absent

ConfigReport == diagnoseUserPool(normalizeConfig(file))

TestFails ==
    /\ Loads => hasConfigErrors(file)
    /\ Answer("test", "critical", 1, None)
    /\ UNCHANGED <<file, cloud, job, seen>>

TestReports ==
    /\ Loads
    /\ ~hasConfigErrors(file)
    /\ Answer("test", "critical", ExitCode("critical", ConfigReport), ConfigReport)
    /\ UNCHANGED <<file, cloud, job, seen>>

DoctorConfigFails(failOn) ==
    /\ Loads => hasConfigErrors(file)
    /\ Answer("doctor --config", failOn, 1, None)
    /\ UNCHANGED <<file, cloud, job, seen>>

DoctorConfig(failOn) ==
    /\ Loads
    /\ ~hasConfigErrors(file)
    /\ Answer("doctor --config", failOn, ExitCode(failOn, ConfigReport), ConfigReport)
    /\ UNCHANGED <<file, cloud, job, seen>>

(* The document cannot be read, or is not of the normalized format.        *)
DoctorFileFails(failOn) ==
    /\ Answer("doctor --file", failOn, 1, None)
    /\ UNCHANGED <<file, cloud, job, seen>>

DoctorFile(document, failOn) ==
    LET report == diagnoseUserPool(document)
    IN  /\ Answer("doctor --file", failOn, ExitCode(failOn, report), report)
        /\ UNCHANGED <<file, cloud, job, seen>>

DoctorUsage ==
    /\ Answer("doctor", "critical", 1, NoReport)
    /\ UNCHANGED <<file, cloud, job, seen>>

-----------------------------------------------------------------------------
(* doctor --pool                                                           *)

DoctorPool(failOn) ==
    /\ job' = [phase |-> "import", failOn |-> failOn]
    /\ last' = None
    /\ seen' = {cloud}
    /\ UNCHANGED <<file, cloud>>

Finish(code, report) ==
    /\ Answer("doctor --pool", job.failOn, code, report)
    /\ job' = Idle
    /\ UNCHANGED <<file, cloud, seen>>

ImportFails ==
    /\ job.phase = "import"
    /\ Finish(1, NoReport)

Imported ==
    /\ job.phase = "import"
    /\ job' = [phase |-> "describe pool", failOn |-> job.failOn]
    /\ UNCHANGED <<file, cloud, last, seen>>

Calling == job.phase \in {"describe pool", "list clients", "describe client"}

(* Mutant: a rejected call is dropped.                                     *)
CallFailsUnheard ==
    /\ Calling
    /\ job' = [job EXCEPT !.phase = "dropped"]
    /\ UNCHANGED <<file, cloud, last, seen>>

(* The SDK cannot be created, AWS throttles or refuses, or what the call   *)
(* asks for is gone: the command throws, and run sets the exit code.       *)
CallFails ==
    /\ Calling
    /\ Finish(1, None)

(* Mutant: a missing pool is described as it was asked for.                *)
AnyPool == TRUE
PoolExists == cloud.pool # None

PoolDescribed ==
    /\ job.phase = "describe pool"
    /\ PoolExists
    /\ job' = [phase |-> "list clients", failOn |-> job.failOn, pool |-> cloud.pool]
    /\ UNCHANGED <<file, cloud, last, seen>>

Listed == {id \in ClientIds : cloud.clients[id] # None}

(* Any client may come first.                                              *)
ClientsListed(id) ==
    /\ job.phase = "list clients"
    /\ id \in Listed
    /\ job' = [phase |-> "describe client", failOn |-> job.failOn,
               pool |-> job.pool, client |-> id]
    /\ UNCHANGED <<file, cloud, last, seen>>

GivesUpSilently == Finish(0, NoReport)      \* mutant: without an exit code
GivesUp == Finish(1, NoReport)

NoClients ==
    /\ job.phase = "list clients"
    /\ cloud.pool # None
    /\ Listed = {}
    /\ GivesUp

(* Mutant: a client that is gone is described by defaults.                 *)
DescribedAnyhow(id) ==
    IF cloud.clients[id] # None
    THEN {cloud.clients[id]}
    ELSE {[generateSecret |-> FALSE, callbackUrls |-> {}, logoutUrls |-> {}, flows |-> {},
           passwordAuth |-> FALSE, idTokenValidity |-> Absent, accessTokenValidity |-> Absent,
           refreshTokenValidity |-> Absent]}

Described(id) == {cloud.clients[id]} \ {None}

ClientDescribed ==
    /\ job.phase = "describe client"
    /\ \E client \in Described(job.client) :
          LET report == diagnoseUserPool(toNormalizedPool(job.pool, client))
          IN  Finish(ExitCode(job.failOn, report), report)

-----------------------------------------------------------------------------
(* The administrator of the pool, and the next-state relation.             *)

Changed(next) ==
    /\ next # cloud
    /\ cloud' = next
    /\ IF job.phase = "idle"
       THEN last' = None /\ seen' = {}
       ELSE /\ Cardinality(seen) < MaxSeen
            /\ seen' = seen \cup {next}
            /\ UNCHANGED last
    /\ UNCHANGED <<file, job>>

PoolDeleted ==
    Changed([pool |-> None, clients |-> [id \in ClientIds |-> None]])

PoolUpdated(pool) ==
    /\ cloud.pool # None
    /\ Changed([cloud EXCEPT !.pool = pool])

ClientUpdated(id, client) ==
    /\ cloud.pool # None
    /\ Changed([cloud EXCEPT !.clients[id] = client])

CloudNext ==
    \/ PoolDeleted
    \/ \E pool \in Pools : PoolUpdated(pool)
    \/ \E id \in ClientIds, client \in ClientInfos \cup {None} : ClientUpdated(id, client)

InitNext ==
    \E application \in {"web", "spa", "mobile", "unknown"}, callbacks, logouts \in InitUrls :
        \/ InitThrows(application, callbacks, logouts)
        \/ \E signIn \in {"email", "username", "unknown"} :
              InitWrites(signIn, application, callbacks, logouts)

DoctorNext ==
    \/ DoctorUsage
    \/ \E failOn \in {"warning", "critical"} :
          \/ DoctorConfigFails(failOn)
          \/ DoctorConfig(failOn)
          \/ DoctorFileFails(failOn)
          \/ DoctorPool(failOn)
          \/ \E document \in Documents : DoctorFile(document, failOn)

AwsNext ==
    \/ ImportFails
    \/ Imported
    \/ CallFails
    \/ PoolDescribed
    \/ \E id \in ClientIds : ClientsListed(id)
    \/ NoClients
    \/ ClientDescribed

(* One command at a time.                                                  *)
Next ==
    \/ job = Idle /\ (InitNext \/ TestFails \/ TestReports \/ DoctorNext)
    \/ AwsNext
    \/ CloudNext

(* The import settles, and so does every call of the SDK.                  *)
Spec == Init /\ [][Next]_vars /\ WF_vars(AwsNext)

-----------------------------------------------------------------------------
(* Properties.                                                             *)

(* The state has the declared shape; a report gives each rule a status     *)
(* (rules.ts:28, doctor.ts:11-21).                                         *)
TypeOK ==
    /\ file \in AuthConfig \cup {None}
    /\ cloud \in Cloud
    /\ job \in Job
    /\ last # None => /\ last.code \in {0, 1}
                      /\ last.report # None =>
                            \A rule \in DOMAIN last.report :
                               last.report[rule] \in {"good", "warning", "critical"}
    /\ seen \subseteq Cloud

(* validate.ts and the rules agree: at the default threshold, test and     *)
(* doctor --config fail a config exactly if it does not load or validation *)
(* finds an error in it; what passes validation is never diagnosed as      *)
(* critical (validate.ts:18, diagnose.ts:368).                             *)
TestIsValidation ==
    (/\ last # None
     /\ last.command \in {"test", "doctor --config"}
     /\ last.failOn = "critical")
    => (last.code = 1 <=> \/ last.config = None
                          \/ last.config.signIn = Absent
                          \/ hasConfigErrors(last.config))

(* Success is never for want of a report: exit code 0 only after each rule *)
(* spoke, whatever failed on the way (doctor.ts:77, 84-104).               *)
SilenceIsNotHealth ==
    (last # None /\ last.code = 0)
    => (last.report # None /\ DOMAIN last.report = DIAGNOSTIC_RULES)

(* doctor --pool reads the pool and the client at two instants, and still  *)
(* none of its findings is an artefact: each was true of the pool at one   *)
(* instant of the run whatever its clients, or of a client at one instant  *)
(* whatever the pool (doctor.ts:96-104).                                   *)
EveryFindingWasTrue ==
    (last # None /\ last.command = "doctor --pool" /\ last.report # None)
    => \A rule \in DOMAIN last.report :
          \/ \E s \in seen :
                /\ s.pool # None
                /\ \A client \in ClientInfos :
                      last.report[rule] = Status(rule, toNormalizedPool(s.pool, client))
          \/ \E s \in seen, id \in ClientIds :
                /\ s.clients[id] # None
                /\ \A pool \in Pools :
                      last.report[rule] = Status(rule, toNormalizedPool(pool, s.clients[id]))

(* Every doctor --pool ends, with a report or without.                     *)
DoctorEnds == job.phase # "idle" ~> job.phase = "idle"
=============================================================================
