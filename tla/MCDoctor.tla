------------------------------ MODULE MCDoctor ------------------------------
(* Instances of Doctor for TLC.                                            *)
EXTENDS Doctor

CONSTANTS k1, k2

U(wildcard, scheme, localhost) == [wildcard |-> wildcard, scheme |-> scheme, localhost |-> localhost]

Production == U(FALSE, "https", FALSE)
Local      == U(FALSE, "http", TRUE)
PlainHttp  == U(FALSE, "http", FALSE)
Native     == U(FALSE, "other", FALSE)
NotAUrl    == U(FALSE, "none", FALSE)
Star       == U(TRUE, "https", FALSE)

(* One URL of each kind, in lists of up to two.                            *)
UrlLists == {{a, b} : a, b \in {Production, Local, PlainHttp, Native, NotAUrl, Star}} \cup {{}}

Valid ==
    [schemaVersion |-> 1, signIn |-> "email",
     application |-> [type |-> "web", callbackUrls |-> {Local}, logoutUrls |-> {Local}, openid |-> Absent],
     idTokenMinutes |-> Absent, accessTokenMinutes |-> Absent, refreshTokenDays |-> Absent]

(* Every pair of URL lists; every other field at and beside its limits.    *)
ManyConfigs ==
    {[Valid EXCEPT !.application.callbackUrls = cs, !.application.logoutUrls = ls] :
        cs, ls \in UrlLists}
    \cup {[Valid EXCEPT !.schemaVersion = v, !.signIn = s, !.application.type = t,
                        !.application.openid = o, !.idTokenMinutes = i] :
            v \in {Absent, 1, 2}, s \in {Absent, "email", "username", "unknown"},
            t \in {"web", "spa", "mobile", "unknown"}, o \in {Absent, TRUE, FALSE},
            i \in {Absent, 0, 60, 61}}
    \cup {[Valid EXCEPT !.application = Absent],
          [Valid EXCEPT !.accessTokenMinutes = 1441, !.refreshTokenDays = 0]}
NoConfigs == {}

(* Two clients and three pools whose weaknesses differ.                    *)
Sound ==
    [aliasAttributes |-> Absent, usernameAttributes |-> {"email"}, caseSensitive |-> FALSE,
     schema |-> {"email"}, requiredAttributes |-> {"email"}, customAttributes |-> {},
     autoVerified |-> {"email"}, mfa |-> Absent, recovery |-> {"email"},
     deletionProtection |-> TRUE]
Custom(n) == [name : 1 .. n, type : {"string"}, mutable : {TRUE}]
Careless ==
    [Sound EXCEPT !.caseSensitive = Absent, !.autoVerified = {}, !.customAttributes = Custom(7)]
Legacy ==
    [Sound EXCEPT !.aliasAttributes = {"phone_number"}, !.schema = {"name"},
                  !.requiredAttributes = {"name"}, !.recovery = {"admin_only"}]
SomePools == {Sound, Careless, Legacy}

Tight ==
    [generateSecret |-> FALSE, callbackUrls |-> {Production}, logoutUrls |-> {Production},
     flows |-> {"code"}, passwordAuth |-> FALSE, idTokenValidity |-> 60, accessTokenValidity |-> Absent,
     refreshTokenValidity |-> 30]
Leaky ==
    [Tight EXCEPT !.callbackUrls = {Star}, !.flows = {"code", "implicit"},
                  !.idTokenValidity = 61, !.passwordAuth = TRUE]
SomeClients == {Tight, Leaky}
NoPools == {}

(* A document whose only fault is critical, and two that AWS could give.   *)
SomeDocuments ==
    {[normalizeConfig(Valid) EXCEPT !.implicitFlow = TRUE],
     toNormalizedPool(Careless, Leaky), toNormalizedPool(Legacy, Tight)}
NoDocuments == {}

GivenUrls == {{}, {Local}, {PlainHttp, Production}}
NoInit == {}
=============================================================================
