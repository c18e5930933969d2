# Formal models of cognito-kit

TLA+ models of [cognito-kit](../src/README.md), checked with TLC and, where it
says so, proved with TLAPS. The program is a toolkit around Amazon Cognito: a
configuration model with safe defaults, a diagnosis of pools, a local OpenID
Connect server for development, and libraries that verify its tokens.

## 1. The system

| Component | State it keeps | Operations | What is hard |
| --- | --- | --- | --- |
| Local authorization server, `packages/local-auth/src/server.ts` | the maps `authCodes` and `refreshTokens`; cookies and hidden form fields it leaves in browsers | GET /authorize, /logout, /userinfo; POST /login, /token | /token awaits two signatures: requests interleave; codes expire, are spent once, and are lost in a crash that cookies survive; /login believes any form, and the form that /authorize renders is not always the request |
| Its lifecycle, same file | `server`, `boundPort`, `issuer`, the key pair | `start`, `stop`, `isListening`, `keys` | all shared and used after awaits; listen and close fail |
| Users and PKCE, `users.ts`, `pkce.ts` | none | password check, challenge check | — |
| Config, validation, normalisation, `packages/core/src/{config,urls,validate,normalize}.ts` | none | pure functions | two validations of one URL must agree |
| Rules, `core/src/{rules,diagnose}.ts` | none | sixteen pure checks | rules read one document made of two AWS answers |
| CLI, `packages/cli/src` | the files it writes, an exit code | `init`, `test`, `doctor`, `dev`, `migrate` | `doctor --pool` asks AWS three times while the pool may change; every failure must reach the exit code |
| AWS adapter, `packages/aws/src` | a cached SDK promise | four reads, `toNormalizedPool` | caching of a failure, pages, optional fields |
| Migration analysis, `core/src/migrate.ts` | none | `analyzeMigration`, the `migrate` command | field-by-field agreement of changes and risks, each list written by hand |
| CDK construct, `packages/infrastructure/src` | the deployed pool | `CognitoKitAuth` | an edit of the file may replace the pool; what AWS describes of it must read as the file |
| Runtime, `packages/runtime/src` | remote key sets | verify, issuer discovery, session cookie | key sets that go stale, failed fetches that several requests share |
| Next.js example, `examples/nextjs` | PKCE and session cookies in the browser, a verifier | sign-in, callback, sign-out, the pages | several tabs share the cookies; redirects call for redirects, and the provider may refuse for ever |
| Node API example, `examples/node-api` | a verifier | `authenticate`, GET /api/me | concurrent requests share one verifier |
| Testing, docs script | none | helpers, text | — |

Interactions: `dev` starts the server and stops it from signal handlers. A
browser goes through the server's pages to a client's callback; the client
(the Next.js example) redeems the code at /token, and an API verifies tokens
with the runtime against the server's keys. `test`, `doctor`, `migrate` and the
CDK construct all go through `normalizeConfig`, `doctor --pool` through the AWS
adapter into the same rules, and `migrate` compares what either path yields.

What makes each part correct: a code is worth one token response, to the client
it was issued for, for the user who signed in; a refused request costs nothing;
a server that says it listens does; a config that validates is healthy by the
rules; a report tells nothing that was never so; an exit code of 0 means that a
diagnosis was made; a sign-out that is left alone ends the app's session, and the
provider's where the provider redirects back; a key is known, and forgotten, in
bounded time; a pool is not replaced without a warning.

## 2. Modules

| Module | Models | Correspondence |
| --- | --- | --- |
| `CodeGrant` | what an authorization-code grant promises | abstract: a code goes fresh → live → spent → granted, or void; no counterpart line in the code |
| `AuthServer` | the five endpoints that change state or read it | one action per outcome of a handler; /token is cut at its awaits into redemption, ID-token signature, access-token signature |
| `AuthServerProofs` | — | theorems about `AuthServer`: its type and its code grants |
| `AuthSessionProofs` | — | theorems about browsers and forms, refresh tokens, refusals |
| `AuthRefinementProofs` | — | the proof that `AuthServer` takes steps of `CodeGrant` only |
| `MCAuthServer` | — | the instances of `AuthServer` |
| `ServerLifecycle` | `start`, `stop`, `keys`, `isListening` and Node's HTTP servers | one action per stretch between awaits; `server`, `signingKeys`, `boundPort` are the closure's variables |
| `LifecycleProofs`, `MCServerLifecycle` | — | its theorems and its instances |
| `Diagnostics` | validation, `normalizeConfig`, `toNormalizedPool`, the sixteen rules | one operator per function or rule, under its name |
| `Doctor` | `init`, `test`, `doctor` | commands on files are one action each; `doctor --pool` is cut at its awaits; `cloud` is the pool, which its administrator changes at any time |
| `DoctorProofs` | — | theorems about `Diagnostics` and `Doctor` |
| `MCDoctor` | — | the instances of `Doctor` |
| `NextSession` | the routes of the Next.js example, with as much of the provider as they meet | one action per stretch between the moments a browser attaches cookies and obeys Set-Cookie; `pkce`, `session`, `local` are the cookies, `tab` what each tab waits for |
| `NextSessionProofs`, `MCNextSession` | — | its theorems and its instance |
| `RemoteVerifier` | `createRemoteTokenVerifier`, with the key-set cache of jose, in an application that answers several requests | `cache` is jose's key set, `fetch` the request that its callers share, `call` each `verify(token)` |
| `RemoteVerifierProofs`, `MCRemoteVerifier` | — | its theorems and its instance |
| `Migration` | `analyzeMigration`, `migrate`, the CDK construct | `FIELDS`, the risk list and the exit code under their names; `Edit`, `Deploy` and `Migrates` are what an author does |
| `MigrationProofs`, `MCMigration` | — | its theorems and its instance |

`AuthServer` instantiates `CodeGrant` as `Abstract`, with a refinement mapping
that reads a code's stage from the code map, the requests in flight and the
answers given. `Doctor` and `Migration` extend `Diagnostics`: the same
`normalizeConfig`, `toNormalizedPool` and rules serve both.

How the data is abstracted. A code or token text is the key of its map; a drawn
text is new. A PKCE challenge is named by the verifier it belongs to. A password
check is the choice between two actions. A browser posts the form its page
shows or one of the set `HandMade`, since /login takes any: oidc-flow.test.ts
posts such forms. The hidden fields of a shown form are the replacement text of
a `String.replace` (`server.ts:367`), which rewrites `$$`, `$&` and their like;
`Substituted` says what becomes of each text, and `HiddenFields` applies it. A
URL is what `urls.ts` can tell of it (a `*`, its scheme, localhost) or, for the
server, one of a set of which some are malformed. In a pool document, lists are sets and names are counts,
since no modelled rule looks at order or spelling; the one comparison that does,
of callback URLs in `analyzeMigration`, has a document's `order` for it. The
state and the PKCE verifier of a sign-in are drawn together and are one `flow`.
A token is the key that signed it and whether its claims pass; ages are counted
in ticks, up to the largest that makes a difference.

What is external. `NextSession` takes from the provider what `AuthServer` models
in detail: a session or a form, a code that is redeemed once with its verifier, a restart
that forgets codes, an answer of 500 for a good code. `provider` is what its
configuration says of the app: known, unknown, or known with another callback
URL, and whether a logout may redirect to it; a restart may change all of it. `RemoteVerifier` models jose by what `verify.ts`
obtains from it, with jose's defaults (a key set serves for ten minutes,
concurrent reloads share one fetch, a fetch has five seconds, an unknown kid
reloads unless the last reload was less than thirty seconds ago). `Migration`
models of CDK and AWS what the pool of the construct's template is described as;
that CloudFormation replaces a pool whose username attributes change, rather than
refuse, is an assumption on AWS, and the property holds either way. A client's
description has no `GenerateSecret`, the field that `control-plane.ts:93` reads,
so that every client is read as one without a secret (`UserPoolClientInfo`).

History variables (`asked`, `minted`, `drawn`, `responses` in `AuthServer`;
`last`, `seen` in `Doctor`; `quiet` in `NextSession`; `last` in `Migration`;
`age` in `RemoteVerifier`) record what happened for the properties. No action
of the program reads them, with two exceptions that stand for the world: drawn
texts are fresh, and a client presents to /userinfo a token of an earlier
response.

## 3. Runs

| Run | Question | Result |
| --- | --- | --- |
| `auth_grants` | Two users sign in to two clients, with forms that differ in client, scope, nonce and PKCE; two connections redeem the codes and refresh tokens while the clock runs past every lifetime and signatures fail: are the tokens those of the sign-in of their code (`GrantIsTheSignIn`), do refreshed tokens trace back to such an answer (`RefreshIsTheSignIn`), does a refusal leave both maps alone (`RefusalSpendsNothing`), and is `CodeInvariant`, which contains `SingleUse`, an invariant? | holds |
| `auth_refinement` | Two connections race for one code across expiry, failures and a restart: is it worth one answer (`SingleUse`), does the server implement `CodeGrant`, and is every accepted request answered? | holds |
| `auth_browsers` | Two browsers, two users, a stale cookie of a third, every refusal of /authorize, forms made by hand, texts that the login form rewrites, a redirect URI that is no URL: does a callback answer the browser's own request, as asked or as the form rewrote it (`CallbackAnswersRequest`), and does a session come with a code only (`SessionComesWithCode`)? | holds |
| `auth_failed_login` | Does the form after a wrong password still carry the request? | violated: it does not, and the right password then gets a 400 |
| `lifecycle` | One starter asks for any port, a free one or a taken one, with an issuer of its own or none, its keys may fail to load, and two stoppers stop: is a server that did not fail to bind reported as it is, is no listener orphaned, is the port that `start()` answered bound and the issuer what it should be (`AnnouncedPortIsBound`), are the keys kept, does every call settle? | holds |
| `lifecycle_taken` | The port is taken: is `isListening()` right? | violated: it is true for ever after, and `start()` cannot be retried |
| `lifecycle_overlap` | Does `start()` resolve with the port of a server that listens? | violated during a `stop()` |
| `doctor_offline` | About 1,000 configs, valid and not, through `init`, `test`, `doctor --config` and `--file`: do `test` and `doctor` fail exactly what validation rejects? | holds |
| `doctor_pool` | `doctor --pool` while the pool is changed: is each finding true of the pool or a client at some instant (`EveryFindingWasTrue`), is there no success without a report, does the command end? | holds |
| `next_session` | Two tabs, two users, failing fetches and answers of 500, expiring sessions, a provider that knows the app or not and restarts: does a sign-in that no other tab crosses keep its cookie (`QuietSignInKeepsItsCookie`), does such a sign-out end the app's session, and the provider's where it redirects back (`QuietSignOutIsComplete`), do the redirects of a tab left alone end unless the provider refuses for ever (`LoneTabSettles`)? | holds |
| `remote_verifier` | Two requests share a key set while the provider stops, starts, changes keys and the application restarts: is a retired key refused (`RetiredKeyIsForgotten`) and the current one accepted (`CurrentKeyIsKnown`) in bounded time, is every request answered (`RequestsAreAnswered`)? | holds |
| `migration` | A file is edited and deployed and compared with the pool and two documents: is every critical risk shown as a change (`CriticalRisksAreChanges`), is the pool diagnosed and compared as the file, with exactly the exceptions that `DeployedDiagnosesAlike` and `DriftIsKnown` name, is a replacement foretold (`ReplacementIsForetold`)? | holds |

Oddities that are in the definitions, without a run of their own (one
deterministic call shows each):

- `UserinfoAnswered` lets a `sub` among a user's extra claims replace the subject.
- `Starter` writes for a mobile app the `myapp://` URLs that `Test` rejects.
- The logout page says that the session was cleared, but without a redirect or
  a token hint there is no Set-Cookie (`server.ts:536`).
- `--fail-on warning` does not fail on a pool whose only findings are critical
  (`commands/doctor.ts:77`).
- A reordering of callback URLs is a risk without a change (`migrate.ts:192`), and
  custom attributes that change in type or mutability are neither (`Warnings`,
  `CustomNames`).
- AWS adds `sub` to the required attributes, so that migrating from a pool to its
  own file is critical; the refresh lifetime is in minutes and read as days; and a
  web app's secret is looked for in a field that AWS does not describe
  (`control-plane.ts:93`; the fake SDK of aws.test.ts:30 does), so that every web
  app is diagnosed as a public client. These three are the exceptions that
  `DriftIsKnown` and `DeployedDiagnosesAlike` name.
- The construct rebuilds its config without `schemaVersion` (`construct.ts:70`): it
  deploys a file of a version that every command rejects (`Deployable`).
- A `$`-pattern in a request's state, nonce or redirect URI comes back rewritten
  from the login form, and unchanged where a session spares the form
  (`HiddenFields`, `AuthorizeWithSession`).
- A form made by hand gets a code for any client and any redirect URI
  (`LoginAccepted`); a malformed one throws after its code is stored.
- With `options.issuer` the issuer in tokens need not name the bound port
  (`Announced`).
- The logout of an app whose URL the provider does not allow ends on the
  provider's page with the provider's session alive (`LogoutTells`).
- A provider that does not know the app (`server.ts:333`), or whose /token answers
  500 each time, sends even a lone tab round signin, authorize and callback for
  ever; `LoneTabSettles` excludes exactly these two, and fails without either
  exclusion.
- Two tabs that are both redirecting may delete each other's `ck_pkce` for ever,
  and an error page reloaded after a sign-out signs in again (`NextSession`, whose
  properties speak of a tab that is left alone).
- A provider that cannot be reached makes the node-api example answer 401
  (`Respond`).

Each property of a passing run has a mutant, an operator defined just before the
one it stands in for and marked "mutant": the check that put in its place makes
TLC find the property violated.

### Bounds

- `auth_*`: two codes and two connections suffice for a race on one code and for
  confusing one code with another; symmetry makes more of them redundant there.
  `auth_grants` gives all four lifetimes 0 ticks of a clock that stops at 1: each
  code and refresh token is good at its expiry and refused one tick later, and
  /userinfo takes none of its tokens; in `auth_refinement` the ID token (1 tick)
  expires and the access token (2) does not. The grants come from two
  forms posted directly, as tokens depend on what was posted alone; all ways to
  post one are in `auth_browsers`. `auth_refinement` has one code, as the stages of
  two never meet in a step other than a tick or a restart, and one restart, which
  separates "before" from "after". `auth_browsers` has two codes and no clients:
  the browser endpoints never read what /token writes other than a flag they do
  not look at; the other two have one browser, as codes are minted one at a time.
- `lifecycle` has one starter, as every caller in the repository has: two
  overlapping first starts would each make keys and a server, and orphan one of
  them (`NoOrphanListener` and `KeysAreKept` then fail in the model as they would
  in the code). Two stoppers are the two signal handlers.
- `lifecycle*`: three Node servers (`MaxServers`) allow two starts after a
  failed one; the bound is charged when a start is admitted, so that it never
  blocks a call under way. `lifecycle` has three ports, of which one is taken,
  and asks for 0 (any), 1 (taken) or 2 (free); an issuer of its own names 2.
- `doctor_offline`: all pairs of lists of up to two URLs of the six kinds, and
  every other field at, below and above its limits.
- `doctor_pool`: `MaxSeen = 4`, one change before each of the three answers; two
  clients, so that the listed one may go while another stays; three pools and
  two clients that differ in every rule read from them.
- `next_session`: two tabs make every interference there is on one cookie; two
  users tell whose session is left; three flows are one for each tab and one for
  the cookie, so that a new one is always there to draw; one restart. The
  provider starts, and restarts, with each of its configurations.
- `remote_verifier`: two requests share a fetch; of three keys two can be wrong;
  `MaxAge` 2, `Cooldown` 1 and `Timeout` 1 tick are three different limits on
  three sums. Ages stop at `MaxAge + Timeout + 1`, past every bound stated.
- `migration`: 29 files that differ in sign-in mode, secret, URLs and lifetimes
  (three of them invalid, of which the construct takes one; two that CDK or AWS
  would refuse), two orders of URLs, and
  two documents of hand-made pools that differ in every other field with a risk.

Deadlock is checked in every run.

### Fairness

`AuthServer` assumes weak fairness of the signing steps of each connection: a
promise of the crypto layer settles, and Node schedules what is ready.
`ServerLifecycle` assumes that what a call awaits happens; for `close()` that
the connections end, which Node's closing of idle ones and the answers of every
handler give. `Doctor` assumes that the import and each SDK call settle: an
assumption on AWS and its SDK, as `control-plane.ts:152` sets no timeout.
`NextSession` assumes that each tab follows its redirects and that each request
is answered or fails; what the provider answers in the end is no fairness but a
condition of `LoneTabSettles`. `RemoteVerifier` assumes that time passes, which
ends a fetch by jose's timer, that a fetch that is answered or over is delivered,
and that a handler goes on when what it awaits has settled. Nothing is assumed of users, of clients, of the pages of a browser at
rest, of whether a provider runs, or of the administrator of a pool.

## 4. Proofs

Every safety invariant and every action property that a passing run checks is
also a theorem. All hold for every value of the constants, under the named
assumptions in the modules: well-formed configuration, distinct null values,
natural numbers, and in `ServerLifecycle` finitely many callers. Each inductive
invariant was first checked by TLC on the instance of the run it belongs to.

`AuthServerProofs`
- `TypeCorrect`: `TypeOK`, with one lemma for browsers, clients, signing.
- `CodeInvariantHolds`, `CodesAreSingleUse`, `CodeGrantsAreFaithful`. `SingleUse`
  alone is not inductive: nothing in it keeps a code with an answer, or one in
  flight, from being redeemed again. `CodeInvariant` adds that such a code is
  spent or gone from the map, and that the map holds what was minted. The steps
  fall into five kinds, each a lemma: letting go (answers without tokens,
  restarts), minting, spending, granting, and leaving everything alone.

`AuthSessionProofs`
- `CallbacksAnswerRequests`, for any rewriting of texts and any forms made by hand.
  It is not inductive: /login believes its form, so what matters is what a page
  may carry. `BrowserInvariant` adds that a form is empty or holds what the browser
  asked for as `HiddenFields` rewrites it (`FormCarriesRequest`). Only /authorize
  fills a form, every other page empties it, and a form made by hand is itself
  what was asked for.
- `SessionsComeWithCodes`: an action property; each step that sets a browser's
  session mints a code for that user, so that a throw between the two
  (`server.ts:397-404`) leaves a code without a session and never the reverse.
- `RefreshesAreFaithful`. A refresh token is drawn inside the answer it belongs to
  and never changes, so that `RefreshInvariant` follows it from there: the map
  holds what was drawn, what was drawn traces to an answered code grant
  (`Traced`), and a refresh in flight or answered is of such a token, in time
  (`Refreshes`). Answers and draws only ever grow (`StillRefreshes`), which is why
  a restart between redemption and answer does no harm.
- `RefusalsSpendNothing`: an action property; a step that answers without tokens
  writes to neither map, and one that writes answers nothing but tokens.

`AuthRefinementProofs`
- `ServerImplementsCodeGrant`: under the refinement mapping, `Init` is `CodeGrant`'s
  and each step is one of its steps or a stutter. Minting, redemption and the last
  signature are `Mint`, `Spend` and `Grant`; a failed signature, a tick past a
  code's expiry and a restart each `Lose` a set of codes; every other step moves no
  stage. The cases of the mapping's `Stage` exclude each other only because of
  `CodeInvariant` (a code that was answered is neither in flight nor unspent), and
  `SourcesAreCodes` says that a code grant in flight is one of a code. This is the
  safety half of what the run `auth_refinement` checks: `Abstract!Safety` is
  `Abstract!Spec` without its fairness.

`LifecycleProofs`
- `TypeCorrect`, for any callers that overlap in any way. It is not immediate: a
  server or key pair is numbered when made, long after the guard that charged the
  bound, so that it needs `WithinBound`, which counts the calls between the two.
- `NoListenerIsOrphaned`, `ListeningIsTrueUnlessFailed`, `AnnouncedPortsAreBound`,
  `KeysAreMadeOnce`, under the hypothesis `OneStarter` that one caller calls
  `start()`, with any number of callers of `stop()`, ports and servers. The
  hypothesis is the code's own use: `dev.ts:36` is the only call there is. It is
  needed: with two starters TLC finds `KeysAreKept` violated. `AnnouncedPortsAreBound`
  is about what `start()` answered as well as about the issuer, and holds for any
  `Given`: an issuer of one's own stays what was given. The strengthening is
  `LifecycleInvariant`: whatever Node still holds open is what `server` names, each
  waiting call waits for that server in the state it left it in, and one waits
  for a server that is opening or closing. `KeysAreMadeOnce` comes of the last
  part: whoever loads keys saw none, and nobody else loads any.

`DoctorProofs`
- `ValidIsNeverCritical`: the rules are never critical of what validation
  accepts. From it, `TestAgreesWithValidation`.
- `FindingsWereTrue`: each rule reads the pool alone
  (`PoolRules`) or the client alone (`ClientRules`), so a document made from two
  instants has no finding that neither instant has. `DoctorInvariant` is the
  strengthening: the cloud of each instant is in `seen`, and the pool described is
  one of those.
- `SuccessIsReported`: by `CommandsAnswer`, which sorts every step of every command
  into those that fail without a report and those whose exit code is the verdict
  on a diagnosed document.
- `TypeCorrect`: the same, with `StatusIsKnown` (each rule of any document at all
  returns one of three severities) and `StarterType` (init writes a file of the
  shape the others read, even for options it does not know).

`NextSessionProofs`
- `TypeCorrect`.
- `QuietSignInsKeepTheirCookies`: each tab stays in the flow it drew or drops it
  (`FollowedFlow`, `UsedFlow`), and its own steps touch the cookie only where a flow
  begins or ends; a quiet tab is the only one that has moved since
  (`QuietBefore`). That a failed fetch leaves the cookie is needed: the reload
  presents the code again.
- `SignOutCompletes`: `SignOutGoes` is the strengthening: from the click on, a quiet
  tab at "signout" has ended the app's session, and one at "signed out", where the
  provider redirected back, both. It is kept because a step of another tab ends
  the history, and time and restarts only ever take a session away.

`RemoteVerifierProofs`
- `TypeCorrect`.
- `RetiredKeysAreForgotten`, `CurrentKeysAreKnown`, for every `MaxAge`, `Timeout` and
  `Cooldown`. The two bounds follow from `KeySets`: a key set that is not of the
  provider's key was answered before the key changed, so that both keys have
  been what they are for no longer than the fetch took (`StaleFor`) and, for the
  cached set, than it lay in the cache. A tick keeps that, as it makes all of
  them older; a new key has age 0; an arriving set turns the one into the other.

`MigrationProofs`, for every set of files, orders and documents
- `TypeCorrect`: what the construct makes of a file it takes (`Deployable`) and CDK
  synthesises is a pool that AWS could describe (`DeployedType`).
- `RisksAreShown`: each critical risk implies an inequality in a field of `High`.
- `DiagnosisSurvives`, `DriftIsBounded`: reading back what the construct made
  yields the file's document field by field, with the three exceptions (`sub`, the
  secret of a web app, the refresh lifetime); the rules then agree because each
  reads only those fields. Both are equivalences: what differs is exactly what
  is named, except for the refresh lifetime, which `DriftIsKnown` leaves out.
- `ReplacementsAreForetold`: from `Made`, that a pool was deployed from some file.
  Only the e-mail mode reaches the properties that CloudFormation cannot change,
  and the risk list compares exactly that.

Model-checked only: liveness under fairness, which is beyond the prover. These
are `EveryRequestAnswered`, the fairness half of `ImplementsCodeGrant`,
`CallsSettle`, `DoctorEnds`, `LoneTabSettles` and `RequestsAreAnswered`. The three
violations are TLC's as well.

## 5. Not modelled

- Of the server: discovery, JWKS and the index page (they change nothing); HTTP
  parsing and body limits; hashing and key files.
- Of the CLI: prompts, argument parsing and the layout of reports; custom rules.
- Of the AWS adapter: `listUserPools`, which no command calls, and the fake plane
  for tests.
- Of the runtime: the static verifier, issuer discovery, claim normalisation and
  the formatting of cookies: each is one stateless call.
- Of the construct: scopes, domain, password policy, and the stack around it.
- The testing helpers (a token signer without state) and the documentation
  generator (it rewrites text); the example apps' HTML.

The component list in `PROJECT.json` gives the status of each.

## 6. Plan

Written: `AuthServer` with `CodeGrant`, `ServerLifecycle`, `Diagnostics` with
`Doctor`, `NextSession`, `RemoteVerifier`, `Migration`. Left, in this order:

1. To compose `ServerLifecycle` with the token endpoint, for an issuer that changes
   between the signatures of one response.
2. To show that the AWS plane, with its cached SDK promise and its error kinds,
   and the fake plane of the tests implement one abstract plane.
3. To prove what the two compositions add.

The project keeps to a dozen runs; a violation that one deterministic call shows
gives way when a run is added.
