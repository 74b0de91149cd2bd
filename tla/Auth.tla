-------------------------------- MODULE Auth --------------------------------
(***************************************************************************)
(* Package auth behind the middleware of package server: New with its      *)
(* configuration and discovery document, the two validators and the Gin    *)
(* middleware, against an identity provider that revokes tokens, replaces  *)
(* its keys, answers late or not at all.                                   *)
(***************************************************************************)
EXTENDS Integers, Sequences

CONSTANTS
  Caller,    \* requests that may be served at the same time
  Token, NoToken,
  Key,
  Payload,   \* of each token: signer, issuer, audience, exp and raw claims
  Configs,   \* the configurations that New is called with
  Route,     \* [auth, guarded, roles]: which middleware is in front of a handler
  DefaultLeeway,
  MaxSkew,   \* how far the service's clock may be from the provider's
  MaxTime    \* bound: the provider's clock stops there

Never == MaxTime + 1

\* setDefaults: a leeway of zero cannot be configured.
Leeway(cfg) == IF cfg.leeway <= 0 THEN DefaultLeeway ELSE cfg.leeway
Mode(cfg) == IF cfg.mode = "" THEN "jwks" ELSE cfg.mode

Config == [issuer : STRING, mode : STRING, audience : STRING, clientID : STRING,
           clientSecret : STRING, leeway : Int, client : {"default", "own"}]
Middleware == [auth : {"required", "optional", "none"}, guarded : BOOLEAN, roles : SUBSET STRING]

ASSUME AuthConstants ==
  /\ NoToken \notin Token
  /\ DefaultLeeway \in Nat /\ MaxSkew \in Nat /\ MaxTime \in Nat
  /\ Configs \subseteq Config /\ \A cfg \in Configs : MaxSkew <= Leeway(cfg)
  /\ Route \subseteq Middleware
  /\ \A t \in Token : Payload[t].signer \in Key /\ Payload[t].exp \in Int

VARIABLES
  auth,       \* the configuration of the Auth that New returned
  now, skew,  \* the provider's clock, and how far the service's is ahead
  revoked,    \* tokens revoked or logged out
  published,  \* keys in the provider's key set
  withdrawn,  \* keys that were in it
  cached,     \* the keys that the service has
  req         \* the requests

provider == <<now, skew, revoked, published, withdrawn>>
world == <<auth, provider, cached>>
vars == <<world, req>>

-----------------------------------------------------------------------------
None == [mode |-> "none"]
NoRoute == [auth |-> "none", guarded |-> FALSE, roles |-> {}]

\* pc: where the request is in the chain; reply: the provider's answer on its
\* way; claims: the context holds Claims; status: what is written, 0 if nothing
\* is; good: history, the token was acceptable when the request came.
Idle == [pc |-> "idle", token |-> NoToken, route |-> NoRoute, reply |-> "none",
         claims |-> FALSE, status |-> 0, good |-> FALSE]

Requests ==
  [pc : {"idle", "auth", "refetched", "asking", "roles", "handler", "unwind"},
   token : Token \cup {NoToken}, route : Route \cup {NoRoute},
   reply : {"none", "active", "inactive", "unauthorized", "error"},
   claims : BOOLEAN, status : {0, 200, 401, 403, 500}, good : BOOLEAN]

Init ==
  /\ auth = None /\ cached = {}
  /\ now = 0 /\ skew \in (0 - MaxSkew)..MaxSkew
  /\ revoked = {} /\ withdrawn = {} /\ \E k \in Key : published = {k}
  /\ req = [c \in Caller |-> Idle]

\* Config.validate.
Valid(cfg) ==
  /\ cfg.issuer # ""
  /\ Mode(cfg) \in {"jwks", "introspection"}
  /\ Mode(cfg) = "introspection" => cfg.clientID # "" /\ cfg.clientSecret # ""

\* discover: a document that can be fetched and decoded, of the issuer that is
\* configured, with a jwks_uri.
Discovered(cfg, doc) == doc.ok /\ doc.issuer = cfg.issuer /\ doc.jwks

Document(cfg) ==
  [ok : BOOLEAN, issuer : {cfg.issuer, "other"}, jwks : BOOLEAN, introspection : BOOLEAN]

\* New returns an Auth; an error ends the service, which is started again. The
\* first download of the keys may fail without an error.
New ==
  /\ auth = None
  /\ \E cfg \in Configs : \E doc \in Document(cfg) :
       /\ Valid(cfg) /\ Discovered(cfg, doc)
       /\ Mode(cfg) = "introspection" => doc.introspection
       /\ auth' = [cfg EXCEPT !.mode = Mode(cfg), !.leeway = Leeway(cfg)]
       /\ cached' \in IF Mode(cfg) = "jwks" THEN {published, {}} ELSE {{}}
  /\ UNCHANGED provider /\ UNCHANGED req

\* What the client of setDefaults bounds with RequestTimeout, and a client that
\* is configured need not.
Timed == auth.client = "default"

-----------------------------------------------------------------------------
(* The identity provider. *)

Active(t) == t \notin revoked /\ now < Payload[t].exp

\* Whether a request with token t that comes now may be let in.
Acceptable(t) ==
  /\ t # NoToken
  /\ Payload[t].issuer \in {auth.issuer, "absent"}
  /\ auth.audience # "" => auth.audience \in Payload[t].audience
  /\ auth.mode = "introspection" => Active(t)
  /\ auth.mode = "jwks" => now < Payload[t].exp + auth.leeway + MaxSkew

Revoke(t) ==
  /\ t \notin revoked
  /\ revoked' = revoked \cup {t}
  /\ UNCHANGED <<auth, now, skew, published, withdrawn, cached, req>>

Publish(k) ==
  /\ k \notin published \cup withdrawn
  /\ published' = published \cup {k}
  /\ UNCHANGED <<auth, now, skew, revoked, withdrawn, cached, req>>

Withdraw(k) ==
  /\ k \in published /\ published # {k}
  /\ published' = published \ {k} /\ withdrawn' = withdrawn \cup {k}
  /\ UNCHANGED <<auth, now, skew, revoked, cached, req>>

Tick ==
  /\ now < MaxTime
  /\ now' = now + 1
  /\ UNCHANGED <<auth, skew, revoked, published, withdrawn, cached, req>>

\* The download of the keys in the background.
Refresh ==
  /\ auth # None /\ auth.mode = "jwks"
  /\ cached' = published
  /\ UNCHANGED auth /\ UNCHANGED provider /\ UNCHANGED req

-----------------------------------------------------------------------------
(* The chain. *)

\* A request passes the request ID, recovery and logging.
Request(c, t, r) ==
  /\ auth # None /\ req[c].pc = "idle"
  /\ req' = [req EXCEPT ![c].pc = IF r.auth = "none" THEN "roles" ELSE "auth",
                        ![c].token = t, ![c].route = r, ![c].good = Acceptable(t)]
  /\ UNCHANGED world

\* c.Set(claimsContextKey, claims) and c.Next.
Accept(c) == req' = [req EXCEPT ![c].pc = "roles", ![c].claims = TRUE, ![c].reply = "none"]

\* c.Next without claims.
Pass(c) == req' = [req EXCEPT ![c].pc = "roles", ![c].reply = "none"]

\* AbortWithStatusJSON: the rest of the chain is skipped.
Abort(c, s) == req' = [req EXCEPT ![c].pc = "unwind", ![c].status = s, ![c].reply = "none"]

\* The end of RequiredAuth and OptionalAuth without claims.
Refuse(c) == IF req[c].route.auth = "required" THEN Abort(c, 401) ELSE Pass(c)

\* extractBearerToken finds none.
MissingToken(c) ==
  /\ req[c].pc = "auth" /\ req[c].token = NoToken
  /\ Refuse(c)
  /\ UNCHANGED world

\* WithIssuer and WithAudience; with introspection the issuer may be absent.
RightIssuer(t) == Payload[t].issuer
                  \in {auth.issuer} \cup (IF auth.mode = "introspection" THEN {"absent"} ELSE {})
AudienceContains(t) == auth.audience = "" \/ auth.audience \in Payload[t].audience

\* Mutant: no leeway for the skew of the clocks.
ExpiredNoLeeway(t) == now + skew >= Payload[t].exp
Expired(t) == now + skew >= Payload[t].exp + auth.leeway

\* ParseWithClaims against the keys that are there.
Verify(c) ==
  LET t == req[c].token IN
  /\ auth.mode = "jwks" /\ t # NoToken
  /\ req[c].pc \in {"auth", "refetched"}
  /\ IF Payload[t].signer \in cached /\ RightIssuer(t) /\ AudienceContains(t) /\ ~Expired(t)
     THEN Accept(c) ELSE Refuse(c)
  /\ UNCHANGED world

\* keyfunc does not know the key and its rate limit lets it ask again.
Refetch(c) ==
  LET t == req[c].token IN
  /\ auth.mode = "jwks" /\ t # NoToken
  /\ req[c].pc = "auth" /\ Payload[t].signer \notin cached
  /\ cached' \in {published, cached}
  /\ req' = [req EXCEPT ![c].pc = "refetched"]
  /\ UNCHANGED auth /\ UNCHANGED provider

\* The introspection request.
Introspect(c) ==
  /\ auth.mode = "introspection"
  /\ req[c].pc = "auth" /\ req[c].token # NoToken
  /\ req' = [req EXCEPT ![c].pc = "asking"]
  /\ UNCHANGED world

\* newIntrospectionValidator: the secret it keeps is the ClientID.
SentSecret == auth.clientID

\* The provider knows the client by the secret that was configured. Any other
\* status than 200, or a body that cannot be read, is an error.
ProviderAnswers(c) ==
  /\ req[c].pc = "asking" /\ req[c].reply = "none"
  /\ \E answer \in {IF SentSecret # auth.clientSecret THEN "unauthorized"
                    ELSE IF Active(req[c].token) THEN "active" ELSE "inactive", "error"} :
       req' = [req EXCEPT ![c].reply = answer]
  /\ UNCHANGED world

\* Mutant: the field active is not looked at.
AnyAnswer(answer) == answer \in {"active", "inactive"}
Says(answer) == answer = "active"

\* The answer arrives.
Conclude(c) ==
  LET t == req[c].token IN
  /\ req[c].pc = "asking" /\ req[c].reply # "none"
  /\ IF Says(req[c].reply) /\ RightIssuer(t) /\ AudienceContains(t) THEN Accept(c) ELSE Refuse(c)
  /\ UNCHANGED world

\* client.Do fails: the request's context has ended ...
GivesUp(c) ==
  /\ req[c].pc = "asking" /\ req[c].reply # "error"
  /\ req' = [req EXCEPT ![c].reply = "error"]
  /\ UNCHANGED world

\* ... or RequestTimeout is over. Mutant: a client without a timeout.
NoTimeout(c) == FALSE
RequestTimeout(c) == Timed
TimesOut(c) == GivesUp(c) /\ RequestTimeout(c)

-----------------------------------------------------------------------------
(* Roles and handlers. *)

Absent == [kind |-> "absent", items |-> {}]

\* A claim by its name: of a map that has it.
Claim(m, key) == IF m.kind = "map" /\ key \in DOMAIN m.items THEN m.items[key] ELSE Absent

\* A list or a single string; of a list the elements that are strings.
Strings(v) == IF v.kind \in {"list", "string"} THEN v.items ELSE {}
StringSlice(raw, key) == Strings(Claim(raw, key))
NestedStringSlice(raw, path) ==
  LET cur[i \in 0..Len(path)] == IF i = 0 THEN raw ELSE Claim(cur[i - 1], path[i])
  IN  IF path = <<>> THEN {} ELSE Strings(cur[Len(path)])

\* Mutant: the claims add up instead of the first that is not empty.
EverySource(raw) == NestedStringSlice(raw, <<"realm_access", "roles">>)
                    \cup StringSlice(raw, "roles") \cup StringSlice(raw, "groups")
DefaultRolesExtractor(raw) ==
  LET nested == NestedStringSlice(raw, <<"realm_access", "roles">>)
      roles == StringSlice(raw, "roles")
  IN  IF nested # {} THEN nested ELSE IF roles # {} THEN roles ELSE StringSlice(raw, "groups")

HasAnyRole(have, want) == want = {} \/ have \cap want # {}

RequireRoles(c) ==
  LET r == req[c].route IN
  /\ req[c].pc = "roles"
  /\ IF ~r.guarded THEN req' = [req EXCEPT ![c].pc = "handler"]
     ELSE IF ~req[c].claims THEN Abort(c, 401)
     ELSE IF ~HasAnyRole(DefaultRolesExtractor(Payload[req[c].token].raw), r.roles) THEN Abort(c, 403)
     ELSE req' = [req EXCEPT ![c].pc = "handler"]
  /\ UNCHANGED world

\* The handler writes its answer.
Write(c) ==
  /\ req[c].pc = "handler" /\ req[c].status = 0
  /\ req' = [req EXCEPT ![c].status = 200]
  /\ UNCHANGED world

\* The handler returns; gin sends 200 if nothing was written.
Return(c) ==
  /\ req[c].pc = "handler"
  /\ req' = [req EXCEPT ![c].pc = "unwind", ![c].status = 200]
  /\ UNCHANGED world

\* The handler panics and recoveryMiddleware aborts: a status that was written
\* stays.
Recovered(s) == IF s = 0 THEN 500 ELSE s
Panic(c) ==
  /\ req[c].pc = "handler"
  /\ Abort(c, Recovered(req[c].status))
  /\ UNCHANGED world

\* The middleware returns, and the answer is sent.
Answer(c) ==
  /\ req[c].pc = "unwind"
  /\ req' = [req EXCEPT ![c] = Idle]
  /\ UNCHANGED world

-----------------------------------------------------------------------------
Provider == \/ \E t \in Token : Revoke(t)
            \/ \E k \in Key : Publish(k) \/ Withdraw(k)
            \/ Tick

Authenticate(c) == \/ MissingToken(c) \/ Verify(c) \/ Refetch(c)
                   \/ Introspect(c) \/ Conclude(c) \/ TimesOut(c)

Serve(c) == \/ Authenticate(c) \/ RequireRoles(c) \/ Return(c) \/ Panic(c) \/ Answer(c)

Next ==
  \/ New \/ Provider \/ Refresh
  \/ \E c \in Caller :
       \/ \E t \in Token \cup {NoToken}, r \in Route : Request(c, t, r)
       \/ Serve(c) \/ ProviderAnswers(c) \/ GivesUp(c) \/ Write(c)

Spec == Init /\ [][Next]_vars

\* Goroutines run, handlers end, timers fire. The provider need not answer.
FairSpec == Spec /\ \A c \in Caller : WF_vars(Serve(c))

-----------------------------------------------------------------------------
\* Every request is where its token, its route and its status say.
TypeOK ==
  /\ auth = None \/ auth.mode \in {"jwks", "introspection"}
  /\ now \in 0..MaxTime /\ skew \in (0 - MaxSkew)..MaxSkew
  /\ revoked \subseteq Token
  /\ published \cup withdrawn \cup cached \subseteq Key
  /\ req \in [Caller -> Requests]
  /\ \A c \in Caller : /\ (req[c].status # 0) => req[c].pc \in {"handler", "unwind"}
                       /\ (req[c].pc = "unwind") => req[c].status # 0

\* What a handler behind RequiredAuth does, it does for a request whose token
\* was acceptable when it came: not revoked before (introspection), not expired
\* by more than leeway and skew and signed with a key of the provider (JWKS).
\* This spans the steps between arrival, the provider's answer and the handler.
ServedWasGood ==
  \A c \in Caller :
    req[c].pc = "handler" /\ req[c].route.auth = "required"
    => /\ req[c].good
       /\ auth.mode = "jwks" => Payload[req[c].token].signer \in published \cup withdrawn

\* The members that a claim has under a name, and the role names in some claims.
Under(claim, key) ==
  IF claim.kind = "map" /\ key \in DOMAIN claim.items THEN {claim.items[key]} ELSE {}
Named(claims) == UNION {v.items : v \in {v \in claims : v.kind \in {"list", "string"}}}

\* "Keycloak-style realm_access.roles", "a flat top-level roles" claim and "a flat
\* top-level groups claim" (roles.go:8-14), the last for tokens that have no role in
\* the others: what the provider gives is what the first with any role in it names.
Sources(raw) == <<UNION {Under(realm, "roles") : realm \in Under(raw, "realm_access")},
                  Under(raw, "roles"), Under(raw, "groups")>>

Given(raw, role) ==
  \E i \in 1..3 : /\ role \in Named(Sources(raw)[i])
                  /\ \A j \in 1..(i - 1) : Named(Sources(raw)[j]) = {}

\* A handler behind RequireRoles is reached by callers only to whom the provider
\* has given one of the roles, in the claims of a token that was acceptable when it
\* came, whatever shape the claims have and whatever is in front of RequireRoles.
RolesWereGiven ==
  \A c \in Caller :
    req[c].pc = "handler" /\ req[c].route.guarded /\ req[c].route.roles # {}
    => /\ req[c].good
       /\ \E role \in req[c].route.roles : Given(Payload[req[c].token].raw, role)

\* A request leaves the authentication of its route without claims.
Denied(c) == /\ req[c].pc \in {"auth", "refetched", "asking"}
             /\ req'[c].pc \in {"roles", "unwind"} /\ ~req'[c].claims

\* What can be wrong with a token that is there and valid for the provider now.
Fits(t) == RightIssuer(t) /\ AudienceContains(t) /\ now < Payload[t].exp

\* "ModeJWKS validates the token signature locally" and with leeway for the skew
\* of the clocks (config.go:14-16,57-59): a token of a key that the service has is
\* denied only if it does not fit or has expired.
\* With introspection, a token is denied only if it does not fit, is inactive, or
\* the provider did not give an answer or not to this client.
DeniedForCause ==
  [][\A c \in Caller : Denied(c) =>
       LET t == req[c].token IN
       \/ t = NoToken
       \/ ~Fits(t)
       \/ auth.mode = "jwks" /\ Payload[t].signer \notin cached
       \/ /\ auth.mode = "introspection"
          /\ \/ t \in revoked \/ req[c].reply = "error"
             \/ auth.clientID # auth.clientSecret]_vars

\* Every request is answered, with the client of setDefaults even if the
\* provider hangs.
Answered ==
  \A c \in Caller : (req[c].pc # "idle") ~> (req[c].pc = "idle" \/ ~Timed)
=============================================================================
