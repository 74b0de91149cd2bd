------------------------------- MODULE MCAuth -------------------------------
EXTENDS Auth

Map(items) == [kind |-> "map", items |-> items]
List(items) == [kind |-> "list", items |-> items]

\* a: a Keycloak token for the API alone, with groups that are not roles. b: a
\* token of the next key that does not expire, whose realm_access is no map and
\* whose roles are no strings. c: a token for others, without issuer and roles.
\* d: a token with no realm role, and a role beside its groups.
MCPayload == [
  a |-> [signer |-> "k1", issuer |-> "idp", audience |-> {"api"}, exp |-> 1,
         raw |-> Map([realm_access |-> Map([roles |-> List({"user"})]), groups |-> List({"admin"})])],
  b |-> [signer |-> "k2", issuer |-> "idp", audience |-> {"api", "web"}, exp |-> Never,
         raw |-> Map([realm_access |-> List({"user"}), roles |-> List({}),
                      groups |-> [kind |-> "string", items |-> {"admin"}]])],
  c |-> [signer |-> "k1", issuer |-> "absent", audience |-> {"web"}, exp |-> 1,
         raw |-> Map([roles |-> Absent])],
  d |-> [signer |-> "k1", issuer |-> "idp", audience |-> {"api", "web"}, exp |-> 1,
         raw |-> Map([realm_access |-> Map([roles |-> List({})]),
                      roles |-> [kind |-> "string", items |-> {"user"}], groups |-> List({"admin"})])]]

Base == [issuer |-> "idp", mode |-> "", audience |-> "api", clientID |-> "", clientSecret |-> "",
         leeway |-> 0, client |-> "default"]
MCConfigs == {
  Base,
  [Base EXCEPT !.mode = "introspection", !.audience = "web", !.clientID = "svc", !.clientSecret = "svc"],
  [Base EXCEPT !.mode = "introspection", !.clientID = "svc", !.clientSecret = "s3cret", !.client = "own"],
  [Base EXCEPT !.mode = "introspection", !.clientID = "svc"],
  [Base EXCEPT !.issuer = ""],
  [Base EXCEPT !.mode = "opaque"]}

MCRoute == {
  [auth |-> "required", guarded |-> TRUE, roles |-> {"admin"}],
  [auth |-> "optional", guarded |-> FALSE, roles |-> {}],
  [auth |-> "optional", guarded |-> TRUE, roles |-> {"user"}]}
=============================================================================
