---------------------------- MODULE MCMigration -----------------------------
(* Instances of Migration for TLC.                                         *)
EXTENDS Migration

U(wildcard, scheme, localhost) == [wildcard |-> wildcard, scheme |-> scheme, localhost |-> localhost]

Production == U(FALSE, "https", FALSE)
Local      == U(FALSE, "http", TRUE)
Star       == U(TRUE, "https", FALSE)

Base ==
    [schemaVersion |-> 1, signIn |-> "email",
     application |-> [type |-> "web", callbackUrls |-> {Local}, logoutUrls |-> {Local}, openid |-> Absent],
     idTokenMinutes |-> Absent, accessTokenMinutes |-> Absent, refreshTokenDays |-> Absent]

(* Both sign-in modes with public and confidential clients, one and two    *)
(* URLs, and lifetimes within, beyond and far beyond what validation warns *)
(* of; two files that are invalid, and one that only the construct takes.  *)
SomeConfigs ==
    {[Base EXCEPT !.signIn = s, !.application.type = t, !.application.callbackUrls = us,
                  !.idTokenMinutes = i] :
        s \in {"email", "username"}, t \in {"web", "spa"},
        us \in {{Local}, {Local, Production}}, i \in {Absent, 4, 61}}
    \cup {[Base EXCEPT !.refreshTokenDays = 3651], [Base EXCEPT !.accessTokenMinutes = 1440],
          [Base EXCEPT !.application.callbackUrls = {Star}], [Base EXCEPT !.signIn = Absent],
          [Base EXCEPT !.schemaVersion = 2, !.signIn = "username"]}

(* Documents of pools that were made by hand: one case-sensitive with      *)
(* custom attributes, and one like it that has lost an attribute, changed  *)
(* another in kind, and serves an application with an identity of its own. *)
Custom(n, t) == [name |-> n, type |-> t, mutable |-> TRUE]
Legacy ==
    [normalizeConfig(Base) EXCEPT !.caseSensitive = TRUE, !.phone = TRUE, !.mfa = "REQUIRED",
        !.requiredAttributes = {"email", "name"},
        !.customAttributes = {Custom(1, "string"), Custom(2, "string")}]
Altered ==
    [Legacy EXCEPT !.requiredAttributes = {"email", "phone_number"}, !.identity = "custom",
        !.customAttributes = {Custom(1, "number"), Custom(3, "string")}]
SomeFixtures == {[pool |-> p, order |-> 1] : p \in {Legacy, Altered}}
=============================================================================
