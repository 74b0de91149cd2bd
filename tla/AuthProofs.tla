----------------------------- MODULE AuthProofs -----------------------------
(***************************************************************************)
(* What the chain of package auth lets through, for any number of requests,*)
(* tokens, keys and routes, any configuration and any skew of the clocks   *)
(* that the leeway covers.                                                 *)
(***************************************************************************)
EXTENDS Auth, TLAPS

\* The provider's side, and the Auth that New returned.
World ==
  /\ auth = None \/ /\ auth.mode \in {"jwks", "introspection"}
                    /\ auth.leeway \in Int /\ MaxSkew <= auth.leeway
  /\ now \in 0..MaxTime /\ skew \in (0 - MaxSkew)..MaxSkew
  /\ revoked \subseteq Token
  /\ published \subseteq Key /\ withdrawn \subseteq Key
  /\ cached \subseteq published \cup withdrawn

\* What RequireRoles asks for.
HasRole(r) == r.claims /\ HasAnyRole(DefaultRolesExtractor(Payload[r.token].raw), r.route.roles)

\* Where a request can be in the chain.
Placed(r) ==
  /\ (r.status # 0) => r.pc \in {"handler", "unwind"}
  /\ (r.pc = "unwind") => r.status # 0
  /\ (r.pc # "idle") => auth # None
  /\ r.pc \in {"refetched", "asking"} \/ r.claims => r.token # NoToken
  /\ r.claims => r.pc \in {"roles", "handler", "unwind"}
  /\ (r.pc = "asking") => auth.mode = "introspection"
  /\ r.pc \in {"roles", "handler"} /\ r.route.auth = "required" => r.claims
  /\ r.pc = "handler" /\ r.route.guarded => HasRole(r)

\* Nothing makes a token acceptable again, so one that is acceptable now was so
\* when its request came.
Monotone(r) == r.pc # "idle" /\ Acceptable(r.token) => r.good

\* An answer "active" that is still on its way is not older than the request.
Honest(r) ==
  r.reply = "active" => /\ r.pc = "asking" /\ auth.mode = "introspection"
                        /\ RightIssuer(r.token) /\ AudienceContains(r.token) => r.good

\* Claims in a context stand for a token that was acceptable.
ClaimsAreGood(r) ==
  r.claims => /\ r.good
              /\ auth.mode = "jwks" => Payload[r.token].signer \in published \cup withdrawn

InOrder(r) == Placed(r) /\ Monotone(r) /\ Honest(r) /\ ClaimsAreGood(r)

IInv == World /\ req \in [Caller -> Requests] /\ \A c \in Caller : InOrder(req[c])

LEMMA InitIInv == Init => IInv
<1> SUFFICES ASSUME Init PROVE IInv
  OBVIOUS
<1>1. World
  BY AuthConstants DEF Init, World
<1>2. Idle \in Requests
  BY DEF Idle, Requests
<1>3. InOrder(Idle)
  BY DEF InOrder, Placed, Monotone, Honest, ClaimsAreGood, Idle
<1> QED
  BY <1>1, <1>2, <1>3 DEF IInv, Init

-----------------------------------------------------------------------------
(* What an update of one field of one request leaves as it was. *)

Only(f, g, c, a) ==
  /\ g \in [Caller -> Requests] /\ \A d \in Caller \ {c} : g[d] = f[d]
  /\ a = "pc" \/ g[c].pc = f[c].pc
  /\ a = "token" \/ g[c].token = f[c].token
  /\ a = "route" \/ g[c].route = f[c].route
  /\ a = "reply" \/ g[c].reply = f[c].reply
  /\ a = "claims" \/ g[c].claims = f[c].claims
  /\ a = "status" \/ g[c].status = f[c].status
  /\ a = "good" \/ g[c].good = f[c].good

-----------------------------------------------------------------------------
\* A step of one request that fetches keys, ...
LEMMA FetchStep ==
  ASSUME IInv, World', UNCHANGED <<auth, now, skew, revoked, published, withdrawn>>,
         NEW c \in Caller, req' \in [Caller -> Requests],
         \A d \in Caller \ {c} : req'[d] = req[d], InOrder(req'[c])
  PROVE  IInv'
<1>1. ASSUME NEW x \in Requests, InOrder(x) PROVE InOrder(x)'
  <2>1. Placed(x)'
    BY <1>1 DEF InOrder, Placed
  <2>2. Monotone(x)'
    BY <1>1 DEF InOrder, Monotone, Acceptable, Active
  <2>3. Honest(x)'
    BY <1>1 DEF InOrder, Honest, RightIssuer, AudienceContains
  <2>4. ClaimsAreGood(x)'
    BY <1>1 DEF InOrder, ClaimsAreGood
  <2> QED
    BY <2>1, <2>2, <2>3, <2>4 DEF InOrder
<1>2. PICK new : new = req'
  OBVIOUS
<1>3. ASSUME NEW d \in Caller PROVE InOrder(new[d])'
  BY <1>1, <1>2 DEF IInv
<1>4. \A d \in Caller : InOrder(req[d])'
  BY <1>2, <1>3
<1> QED
  BY <1>4 DEF IInv

\* ... and one that leaves the world alone.
LEMMA RequestStep ==
  ASSUME IInv, UNCHANGED world, NEW c \in Caller, req' \in [Caller -> Requests],
         \A d \in Caller \ {c} : req'[d] = req[d], InOrder(req'[c])
  PROVE  IInv'
<1>1. UNCHANGED <<auth, now, skew, revoked, published, withdrawn, cached>>
  BY DEF world, provider
<1>2. World'
  BY <1>1 DEF IInv, World
<1> QED
  BY <1>1, <1>2, FetchStep

\* A step of the provider or of the download of keys: tokens only become less
\* acceptable, and keys stay known.
LEMMA WorldStep ==
  ASSUME IInv, World', UNCHANGED <<auth, req>>,
         now <= now', revoked \subseteq revoked',
         published \cup withdrawn \subseteq published' \cup withdrawn'
  PROVE  IInv'
<1>1. ASSUME NEW x \in Requests, InOrder(x) PROVE InOrder(x)'
  <2>1. Placed(x)'
    BY <1>1 DEF InOrder, Placed
  <2>2. Monotone(x)'
    <3>1. SUFFICES ASSUME x.pc # "idle", Acceptable(x.token)' PROVE x.good
      BY DEF Monotone
    <3>2. x.token \in Token
      BY <3>1 DEF Requests, Acceptable
    <3>3. auth.leeway \in Int /\ now \in Int /\ now' \in Int /\ Payload[x.token].exp \in Int
      BY <1>1, <3>1, <3>2, AuthConstants DEF InOrder, Placed, IInv, World
    <3>4. Active(x.token)' => Active(x.token)
      BY <3>2, <3>3 DEF Active
    <3>5. \A e \in Int : now' < e => now < e
      BY <3>3
    <3>6. Payload[x.token].exp + auth.leeway + MaxSkew \in Int
      BY <3>3, AuthConstants
    <3>7. Acceptable(x.token)
      BY <3>1, <3>4, <3>5, <3>6 DEF Acceptable
    <3> QED
      BY <1>1, <3>1, <3>7 DEF InOrder, Monotone
  <2>3. Honest(x)'
    BY <1>1 DEF InOrder, Honest, RightIssuer, AudienceContains
  <2>4. ClaimsAreGood(x)'
    BY <1>1 DEF InOrder, ClaimsAreGood
  <2> QED
    BY <2>1, <2>2, <2>3, <2>4 DEF InOrder
<1> QED
  BY <1>1 DEF IInv

LEMMA ProviderKeeps == IInv /\ (Provider \/ Refresh) => IInv'
<1> SUFFICES ASSUME IInv PROVE Provider \/ Refresh => IInv'
  OBVIOUS
<1>1. ASSUME NEW t \in Token, Revoke(t) PROVE IInv'
  <2>1. World' /\ now \in Int
    BY <1>1 DEF Revoke, IInv, World
  <2> QED
    BY <1>1, <2>1, WorldStep DEF Revoke
<1>2. ASSUME NEW k \in Key, Publish(k) PROVE IInv'
  <2>1. World' /\ now \in Int
    BY <1>2 DEF Publish, IInv, World
  <2> QED
    BY <1>2, <2>1, WorldStep DEF Publish
<1>3. ASSUME NEW k \in Key, Withdraw(k) PROVE IInv'
  <2>1. World' /\ now \in Int
    BY <1>3 DEF Withdraw, IInv, World
  <2> QED
    BY <1>3, <2>1, WorldStep DEF Withdraw
<1>4. CASE Tick
  <2>1. World' /\ now \in Int /\ now' \in Int /\ now <= now'
    BY <1>4, AuthConstants DEF Tick, IInv, World
  <2> QED
    BY <1>4, <2>1, WorldStep DEF Tick
<1>5. CASE Refresh
  <2>1. UNCHANGED <<auth, now, skew, revoked, published, withdrawn, req>>
    BY <1>5 DEF Refresh, provider
  <2>2. World' /\ now \in Int
    BY <1>5, <2>1 DEF Refresh, IInv, World
  <2> QED
    BY <2>1, <2>2, WorldStep
<1> QED
  BY <1>1, <1>2, <1>3, <1>4, <1>5 DEF Provider

-----------------------------------------------------------------------------
\* New fixes the configuration; no request is served before it.
LEMMA NewKeeps == IInv /\ New => IInv'
<1> SUFFICES ASSUME IInv, New PROVE IInv'
  OBVIOUS
<1>1. PICK cfg \in Configs :
        /\ Mode(cfg) \in {"jwks", "introspection"}
        /\ auth' = [cfg EXCEPT !.mode = Mode(cfg), !.leeway = Leeway(cfg)]
        /\ cached' \in IF Mode(cfg) = "jwks" THEN {published, {}} ELSE {{}}
  BY DEF New, Valid
<1>2. auth = None /\ UNCHANGED <<now, skew, revoked, published, withdrawn, req>>
  BY DEF New, provider
<1>3. Leeway(cfg) \in Int /\ MaxSkew <= Leeway(cfg)
  BY AuthConstants DEF Leeway, Config
<1>4. auth'.mode \in {"jwks", "introspection"} /\ auth'.leeway \in Int /\ MaxSkew <= auth'.leeway
  <2>1. auth'.mode = Mode(cfg) /\ auth'.leeway = Leeway(cfg)
    BY <1>1 DEF Config
  <2> QED
    BY <1>1, <1>3, <2>1
<1>5. World'
  BY <1>1, <1>2, <1>4 DEF IInv, World
<1>6. ASSUME NEW c \in Caller PROVE InOrder(req[c])'
  <2>1. req[c] \in Requests /\ Placed(req[c]) /\ Honest(req[c]) /\ ClaimsAreGood(req[c])
    BY DEF IInv, InOrder
  <2>2. req[c].pc = "idle"
    BY <1>2, <2>1 DEF Placed
  <2>3. req[c].reply # "active"
    BY <1>2, <2>1, <2>2 DEF Honest
  <2>4. req[c].status = 0
    BY <2>1, <2>2 DEF Placed, Requests
  <2>5. ~req[c].claims
    BY <2>1, <2>2 DEF Placed
  <2> QED
    BY <1>2, <2>2, <2>3, <2>4, <2>5 DEF InOrder, Placed, Monotone, Honest, ClaimsAreGood
<1> QED
  BY <1>2, <1>5, <1>6 DEF IInv

-----------------------------------------------------------------------------
(* The three ways out of a middleware. *)

LEMMA AbortSets ==
  ASSUME req \in [Caller -> Requests], NEW c \in Caller, NEW s \in {200, 401, 403, 500}, Abort(c, s)
  PROVE  /\ req' \in [Caller -> Requests] /\ \A d \in Caller \ {c} : req'[d] = req[d]
         /\ req'[c].pc = "unwind" /\ req'[c].status = s /\ req'[c].reply = "none"
         /\ req'[c].token = req[c].token /\ req'[c].claims = req[c].claims
         /\ req'[c].good = req[c].good
<1>1. PICK f : f = [req EXCEPT ![c].pc = "unwind"]
  OBVIOUS
<1>2. PICK g : g = [f EXCEPT ![c].status = s]
  OBVIOUS
<1>3. req' = [g EXCEPT ![c].reply = "none"]
  BY <1>1, <1>2, Zenon DEF Abort
<1>4. Only(req, f, c, "pc") /\ f[c].pc = "unwind"
  BY <1>1 DEF Only, Requests
<1>5. f \in [Caller -> Requests]
  BY <1>4 DEF Only
<1>6. Only(f, g, c, "status") /\ g[c].status = s
  BY <1>2, <1>5 DEF Only, Requests
<1>7. g \in [Caller -> Requests]
  BY <1>6 DEF Only
<1>8. Only(g, req', c, "reply") /\ req'[c].reply = "none"
  BY <1>3, <1>7 DEF Only, Requests
<1> QED
  BY <1>4, <1>6, <1>8 DEF Only

LEMMA AcceptSets ==
  ASSUME req \in [Caller -> Requests], NEW c \in Caller, Accept(c)
  PROVE  /\ req' \in [Caller -> Requests] /\ \A d \in Caller \ {c} : req'[d] = req[d]
         /\ req'[c].pc = "roles" /\ req'[c].claims = TRUE /\ req'[c].reply = "none"
         /\ req'[c].token = req[c].token /\ req'[c].status = req[c].status
         /\ req'[c].good = req[c].good
<1>1. PICK f : f = [req EXCEPT ![c].pc = "roles"]
  OBVIOUS
<1>2. PICK g : g = [f EXCEPT ![c].claims = TRUE]
  OBVIOUS
<1>3. req' = [g EXCEPT ![c].reply = "none"]
  BY <1>1, <1>2, Zenon DEF Accept
<1>4. Only(req, f, c, "pc") /\ f[c].pc = "roles"
  BY <1>1 DEF Only, Requests
<1>5. f \in [Caller -> Requests]
  BY <1>4 DEF Only
<1>6. Only(f, g, c, "claims") /\ g[c].claims = TRUE
  <2>1. ASSUME NEW v \in BOOLEAN, g = [f EXCEPT ![c].claims = v]
        PROVE  Only(f, g, c, "claims") /\ g[c].claims = v
    BY <2>1, <1>5 DEF Only, Requests
  <2> QED
    BY <1>2, <2>1, Zenon
<1>7. g \in [Caller -> Requests]
  BY <1>6 DEF Only
<1>8. Only(g, req', c, "reply") /\ req'[c].reply = "none"
  BY <1>3, <1>7 DEF Only, Requests
<1> QED
  BY <1>4, <1>6, <1>8 DEF Only

LEMMA AbortKeeps ==
  ASSUME IInv, UNCHANGED world, NEW c \in Caller, NEW s \in {200, 401, 403, 500},
         req[c].pc # "idle", Abort(c, s)
  PROVE  IInv'
<1>1. req \in [Caller -> Requests] /\ InOrder(req[c])
  BY DEF IInv
<1>2. /\ req' \in [Caller -> Requests] /\ \A d \in Caller \ {c} : req'[d] = req[d]
      /\ req'[c].pc = "unwind" /\ req'[c].status = s /\ req'[c].reply = "none"
      /\ req'[c].token = req[c].token /\ req'[c].claims = req[c].claims
      /\ req'[c].good = req[c].good
  BY <1>1, AbortSets
<1>3. InOrder(req'[c])
  BY <1>1, <1>2 DEF InOrder, Placed, Monotone, Honest, ClaimsAreGood
<1> QED
  BY <1>2, <1>3, RequestStep

LEMMA AcceptKeeps ==
  ASSUME IInv, UNCHANGED world, NEW c \in Caller, Accept(c),
         req[c].pc \in {"auth", "refetched", "asking"}, req[c].token # NoToken, req[c].good,
         auth.mode = "jwks" => Payload[req[c].token].signer \in published \cup withdrawn
  PROVE  IInv'
<1>1. req \in [Caller -> Requests] /\ InOrder(req[c])
  BY DEF IInv
<1>2. /\ req' \in [Caller -> Requests] /\ \A d \in Caller \ {c} : req'[d] = req[d]
      /\ req'[c].pc = "roles" /\ req'[c].claims = TRUE /\ req'[c].reply = "none"
      /\ req'[c].token = req[c].token /\ req'[c].status = req[c].status
      /\ req'[c].good = req[c].good
  BY <1>1, AcceptSets
<1>3. Placed(req'[c])
  BY <1>1, <1>2 DEF InOrder, Placed
<1>4. Monotone(req'[c]) /\ Honest(req'[c]) /\ ClaimsAreGood(req'[c])
  BY <1>1, <1>2 DEF InOrder, Monotone, Honest, ClaimsAreGood
<1> QED
  BY <1>2, <1>3, <1>4, RequestStep DEF InOrder

LEMMA PassSets ==
  ASSUME req \in [Caller -> Requests], NEW c \in Caller, Pass(c)
  PROVE  /\ req' \in [Caller -> Requests] /\ \A d \in Caller \ {c} : req'[d] = req[d]
         /\ req'[c].pc = "roles" /\ req'[c].reply = "none" /\ req'[c].claims = req[c].claims
         /\ req'[c].token = req[c].token /\ req'[c].route = req[c].route
         /\ req'[c].status = req[c].status /\ req'[c].good = req[c].good
<1>1. PICK f : f = [req EXCEPT ![c].pc = "roles"]
  OBVIOUS
<1>2. req' = [f EXCEPT ![c].reply = "none"]
  BY <1>1, Zenon DEF Pass
<1>3. Only(req, f, c, "pc") /\ f[c].pc = "roles"
  BY <1>1 DEF Only, Requests
<1>4. f \in [Caller -> Requests]
  BY <1>3 DEF Only
<1>5. Only(f, req', c, "reply") /\ req'[c].reply = "none"
  BY <1>2, <1>4 DEF Only, Requests
<1> QED
  BY <1>3, <1>5 DEF Only

LEMMA RefuseKeeps ==
  ASSUME IInv, UNCHANGED world, NEW c \in Caller, Refuse(c),
         req[c].pc \in {"auth", "refetched", "asking"}
  PROVE  IInv'
<1>1. CASE req[c].route.auth = "required"
  BY <1>1, AbortKeeps DEF Refuse
<1>2. CASE req[c].route.auth # "required"
  <2>1. req \in [Caller -> Requests] /\ InOrder(req[c])
    BY DEF IInv
  <2>2. Pass(c)
    BY <1>2 DEF Refuse
  <2>3. /\ req' \in [Caller -> Requests] /\ \A d \in Caller \ {c} : req'[d] = req[d]
        /\ req'[c].pc = "roles" /\ req'[c].reply = "none" /\ req'[c].claims = req[c].claims
        /\ req'[c].token = req[c].token /\ req'[c].route = req[c].route
        /\ req'[c].status = req[c].status /\ req'[c].good = req[c].good
    BY <2>1, <2>2, PassSets
  <2>4. Placed(req'[c]) /\ Monotone(req'[c])
    BY <1>2, <2>1, <2>3 DEF InOrder, Placed, Monotone
  <2>5. Honest(req'[c]) /\ ClaimsAreGood(req'[c])
    BY <2>1, <2>3 DEF InOrder, Honest, ClaimsAreGood
  <2> QED
    BY <2>3, <2>4, <2>5, RequestStep DEF InOrder
<1> QED
  BY <1>1, <1>2

-----------------------------------------------------------------------------
(* The validators. *)

\* What the JWKS validator lets in is acceptable: the service's clock is at most
\* MaxSkew behind the provider's, so a token outlives its leeway by no more.
LEMMA VerifyKeeps == ASSUME IInv, NEW c \in Caller, Verify(c) PROVE IInv'
<1> DEFINE t == req[c].token
<1>1. /\ auth.mode = "jwks" /\ t # NoToken /\ req[c].pc \in {"auth", "refetched"}
      /\ UNCHANGED world
  BY DEF Verify
<1>2. CASE Payload[t].signer \in cached /\ RightIssuer(t) /\ AudienceContains(t) /\ ~Expired(t)
  <2>1. Accept(c)
    BY <1>2 DEF Verify
  <2>2. req[c] \in Requests /\ InOrder(req[c]) /\ t \in Token
    BY <1>1 DEF IInv, Requests
  <2>3. auth.leeway \in Int /\ now \in Int /\ skew \in (0 - MaxSkew)..MaxSkew /\ Payload[t].exp \in Int
    BY <1>1, <2>2, AuthConstants DEF InOrder, Placed, IInv, World
  <2>4. now < Payload[t].exp + auth.leeway + MaxSkew
    BY <1>2, <2>3, AuthConstants DEF Expired
  <2>5. Acceptable(t)
    BY <1>1, <1>2, <2>4 DEF Acceptable, RightIssuer, AudienceContains
  <2>6. req[c].good
    BY <1>1, <2>2, <2>5 DEF InOrder, Monotone
  <2>7. cached \subseteq published \cup withdrawn
    BY DEF IInv, World
  <2> QED
    BY <1>1, <1>2, <2>1, <2>6, <2>7, AcceptKeeps
<1>3. CASE ~(Payload[t].signer \in cached /\ RightIssuer(t) /\ AudienceContains(t) /\ ~Expired(t))
  BY <1>1, <1>3, RefuseKeeps DEF Verify
<1> QED
  BY <1>2, <1>3

LEMMA ConcludeKeeps == ASSUME IInv, NEW c \in Caller, Conclude(c) PROVE IInv'
<1> DEFINE t == req[c].token
<1>1. req[c].pc = "asking" /\ UNCHANGED world
  BY DEF Conclude
<1>2. CASE Says(req[c].reply) /\ RightIssuer(t) /\ AudienceContains(t)
  <2>1. Accept(c)
    BY <1>2 DEF Conclude
  <2>2. InOrder(req[c])
    BY DEF IInv
  <2>3. t # NoToken /\ req[c].good /\ auth.mode = "introspection"
    BY <1>1, <1>2, <2>2 DEF InOrder, Placed, Honest, Says
  <2> QED
    BY <1>1, <2>1, <2>3, AcceptKeeps
<1>3. CASE ~(Says(req[c].reply) /\ RightIssuer(t) /\ AudienceContains(t))
  BY <1>1, <1>3, RefuseKeeps DEF Conclude
<1> QED
  BY <1>2, <1>3

LEMMA MissingTokenKeeps == ASSUME IInv, NEW c \in Caller, MissingToken(c) PROVE IInv'
<1>1. req[c].pc = "auth" /\ UNCHANGED world /\ Refuse(c)
  BY DEF MissingToken
<1> QED
  BY <1>1, RefuseKeeps

LEMMA IntrospectKeeps == ASSUME IInv, NEW c \in Caller, Introspect(c) PROVE IInv'
<1>1. req \in [Caller -> Requests] /\ InOrder(req[c])
  BY DEF IInv
<1>2. /\ req[c].pc = "auth" /\ req[c].token # NoToken /\ UNCHANGED world
      /\ auth.mode = "introspection" /\ req' = [req EXCEPT ![c].pc = "asking"]
  BY DEF Introspect
<1>3. Only(req, req', c, "pc") /\ req'[c].pc = "asking"
  BY <1>1, <1>2 DEF Only, Requests
<1>4. Placed(req'[c]) /\ Monotone(req'[c]) /\ Honest(req'[c]) /\ ClaimsAreGood(req'[c])
  BY <1>1, <1>2, <1>3 DEF Only, InOrder, Placed, Monotone, Honest, ClaimsAreGood
<1> QED
  BY <1>2, <1>3, <1>4, RequestStep DEF Only, InOrder

\* The provider answers "active" for a token that is so now.
LEMMA ProviderAnswersKeeps == ASSUME IInv, NEW c \in Caller, ProviderAnswers(c) PROVE IInv'
<1>1. req \in [Caller -> Requests] /\ InOrder(req[c])
  BY DEF IInv
<1>2. req[c].pc = "asking" /\ UNCHANGED world
  BY DEF ProviderAnswers
<1>3. PICK answer \in {"unauthorized", "active", "inactive", "error"} :
        /\ req' = [req EXCEPT ![c].reply = answer]
        /\ (answer = "active") => Active(req[c].token)
  BY DEF ProviderAnswers
<1>4. Only(req, req', c, "reply") /\ req'[c].reply = answer
  BY <1>1, <1>3 DEF Only, Requests
<1>5. Placed(req'[c]) /\ Monotone(req'[c]) /\ ClaimsAreGood(req'[c])
  BY <1>1, <1>2, <1>4 DEF Only, InOrder, Placed, Monotone, ClaimsAreGood
<1>6. Honest(req'[c])
  <2>1. SUFFICES ASSUME answer = "active"
                 PROVE  /\ req[c].pc = "asking" /\ auth.mode = "introspection"
                        /\ RightIssuer(req[c].token) /\ AudienceContains(req[c].token) => req[c].good
    BY <1>4 DEF Only, Honest
  <2>2. auth.mode = "introspection" /\ req[c].token # NoToken
    BY <1>1, <1>2 DEF InOrder, Placed
  <2>3. RightIssuer(req[c].token) /\ AudienceContains(req[c].token) => Acceptable(req[c].token)
    BY <1>3, <2>1, <2>2 DEF Acceptable, RightIssuer, AudienceContains
  <2> QED
    BY <1>1, <1>2, <2>2, <2>3 DEF InOrder, Monotone
<1> QED
  BY <1>2, <1>4, <1>5, <1>6, RequestStep DEF Only, InOrder

LEMMA GivesUpKeeps == ASSUME IInv, NEW c \in Caller, GivesUp(c) PROVE IInv'
<1>1. req \in [Caller -> Requests] /\ InOrder(req[c])
  BY DEF IInv
<1>2. req[c].pc = "asking" /\ req' = [req EXCEPT ![c].reply = "error"] /\ UNCHANGED world
  BY DEF GivesUp
<1>3. Only(req, req', c, "reply") /\ req'[c].reply = "error"
  BY <1>1, <1>2 DEF Only, Requests
<1>4. Placed(req'[c]) /\ Monotone(req'[c]) /\ Honest(req'[c]) /\ ClaimsAreGood(req'[c])
  BY <1>1, <1>2, <1>3 DEF Only, InOrder, Placed, Monotone, Honest, ClaimsAreGood
<1> QED
  BY <1>2, <1>3, <1>4, RequestStep DEF Only, InOrder

-----------------------------------------------------------------------------
(* The handler. *)

LEMMA ToHandler ==
  ASSUME IInv, UNCHANGED world, NEW c \in Caller, req[c].pc = "roles",
         req[c].route.guarded => HasRole(req[c]),
         req' = [req EXCEPT ![c].pc = "handler"]
  PROVE  IInv'
<1>1. req \in [Caller -> Requests] /\ InOrder(req[c])
  BY DEF IInv
<1>2. Only(req, req', c, "pc") /\ req'[c].pc = "handler"
  BY <1>1 DEF Only, Requests
<1>3. req'[c].route.guarded => HasRole(req'[c])
  BY <1>2 DEF Only, HasRole
<1>4. Placed(req'[c])
  BY <1>1, <1>2, <1>3 DEF Only, InOrder, Placed
<1>5. Monotone(req'[c]) /\ Honest(req'[c]) /\ ClaimsAreGood(req'[c])
  BY <1>1, <1>2 DEF Only, InOrder, Monotone, Honest, ClaimsAreGood
<1> QED
  BY <1>2, <1>4, <1>5, RequestStep DEF Only, InOrder

LEMMA RequireRolesKeeps == ASSUME IInv, NEW c \in Caller, RequireRoles(c) PROVE IInv'
<1>1. req[c].pc = "roles" /\ UNCHANGED world
  BY DEF RequireRoles
<1>2. \/ Abort(c, 401) \/ Abort(c, 403)
      \/ /\ req' = [req EXCEPT ![c].pc = "handler"]
         /\ req[c].route.guarded => HasRole(req[c])
  BY DEF RequireRoles, HasRole
<1> QED
  BY <1>1, <1>2, AbortKeeps, ToHandler

LEMMA WriteKeeps == ASSUME IInv, NEW c \in Caller, Write(c) PROVE IInv'
<1>1. req \in [Caller -> Requests] /\ InOrder(req[c])
  BY DEF IInv
<1>2. req[c].pc = "handler" /\ req' = [req EXCEPT ![c].status = 200] /\ UNCHANGED world
  BY DEF Write
<1>3. Only(req, req', c, "status") /\ req'[c].status = 200
  BY <1>1, <1>2 DEF Only, Requests
<1>4. Placed(req'[c]) /\ Monotone(req'[c]) /\ Honest(req'[c]) /\ ClaimsAreGood(req'[c])
  BY <1>1, <1>2, <1>3 DEF Only, InOrder, Placed, HasRole, Monotone, Honest, ClaimsAreGood
<1> QED
  BY <1>2, <1>3, <1>4, RequestStep DEF Only, InOrder

LEMMA ReturnKeeps == ASSUME IInv, NEW c \in Caller, Return(c) PROVE IInv'
<1>1. req \in [Caller -> Requests] /\ InOrder(req[c])
  BY DEF IInv
<1>2. req[c].pc = "handler" /\ UNCHANGED world
  BY DEF Return
<1>3. PICK f : f = [req EXCEPT ![c].pc = "unwind"]
  BY <1>1
<1>4. req' = [f EXCEPT ![c].status = 200]
  BY <1>3, Zenon DEF Return
<1>5. Only(req, f, c, "pc") /\ f[c].pc = "unwind"
  BY <1>1, <1>3 DEF Only, Requests
<1>6. f \in [Caller -> Requests]
  BY <1>5 DEF Only
<1>7. Only(f, req', c, "status") /\ req'[c].status = 200
  BY <1>4, <1>6 DEF Only, Requests
<1>8. Placed(req'[c]) /\ Monotone(req'[c])
  BY <1>1, <1>2, <1>5, <1>7 DEF Only, InOrder, Placed, Monotone
<1>9. Honest(req'[c]) /\ ClaimsAreGood(req'[c])
  BY <1>1, <1>2, <1>5, <1>7 DEF Only, InOrder, Honest, ClaimsAreGood
<1> QED
  BY <1>2, <1>5, <1>7, <1>8, <1>9, RequestStep DEF Only, InOrder

LEMMA PanicKeeps == ASSUME IInv, NEW c \in Caller, Panic(c) PROVE IInv'
<1>1. req[c].status \in {0, 200, 401, 403, 500}
  BY DEF IInv, Requests
<1>2. Recovered(req[c].status) \in {200, 401, 403, 500}
  BY <1>1 DEF Recovered
<1>3. req[c].pc = "handler" /\ UNCHANGED world /\ Abort(c, Recovered(req[c].status))
  BY DEF Panic
<1> QED
  BY <1>2, <1>3, AbortKeeps

LEMMA AnswerKeeps == ASSUME IInv, NEW c \in Caller, Answer(c) PROVE IInv'
<1>1. Idle \in Requests
  BY DEF Idle, Requests
<1>2. InOrder(Idle)
  BY DEF InOrder, Placed, Monotone, Honest, ClaimsAreGood, Idle
<1>3. /\ UNCHANGED world /\ req' \in [Caller -> Requests]
      /\ \A d \in Caller \ {c} : req'[d] = req[d] /\ req'[c] = Idle
  BY <1>1 DEF Answer, IInv
<1>4. req'[c] = Idle
  BY DEF Answer, IInv
<1> QED
  BY <1>2, <1>3, <1>4, RequestStep

LEMMA RefetchKeeps == ASSUME IInv, NEW c \in Caller, Refetch(c) PROVE IInv'
<1>1. req \in [Caller -> Requests] /\ InOrder(req[c]) /\ World
  BY DEF IInv
<1>2. /\ req[c].pc = "auth" /\ req[c].token # NoToken /\ cached' \in {published, cached}
      /\ UNCHANGED <<auth, now, skew, revoked, published, withdrawn>>
      /\ req' = [req EXCEPT ![c].pc = "refetched"]
  BY DEF Refetch, provider
<1>3. Only(req, req', c, "pc") /\ req'[c].pc = "refetched"
  BY <1>1, <1>2 DEF Only, Requests
<1>4. World'
  BY <1>1, <1>2 DEF World
<1>5. Placed(req'[c]) /\ Monotone(req'[c])
  BY <1>1, <1>2, <1>3 DEF Only, InOrder, Placed, Monotone
<1>6. Honest(req'[c]) /\ ClaimsAreGood(req'[c])
  BY <1>1, <1>2, <1>3 DEF Only, InOrder, Honest, ClaimsAreGood
<1> QED
  BY <1>2, <1>3, <1>4, <1>5, <1>6, FetchStep DEF Only, InOrder

LEMMA RequestSets ==
  ASSUME IInv, NEW c \in Caller, NEW t \in Token \cup {NoToken},
         NEW r \in Route, Request(c, t, r)
  PROVE  /\ req' \in [Caller -> Requests] /\ \A d \in Caller \ {c} : req'[d] = req[d]
         /\ req'[c].pc \in {"auth", "roles"} /\ (req'[c].pc = "roles" => r.auth = "none")
         /\ req'[c].token = t /\ req'[c].route = r /\ req'[c].good = Acceptable(t)
         /\ req'[c].reply = req[c].reply /\ req'[c].claims = req[c].claims
         /\ req'[c].status = req[c].status
<1>1. PICK p \in {"auth", "roles"} : p = IF r.auth = "none" THEN "roles" ELSE "auth"
  OBVIOUS
<1>2. PICK a \in BOOLEAN : a = Acceptable(t)
  BY DEF Acceptable
<1>3. PICK f : f = [req EXCEPT ![c].pc = p]
  OBVIOUS
<1>4. Only(req, f, c, "pc") /\ f[c].pc = p
  BY <1>3 DEF Only, Requests, IInv
<1>5. f \in [Caller -> Requests]
  BY <1>4 DEF Only
<1>6. PICK g : g = [f EXCEPT ![c].token = t]
  OBVIOUS
<1>7. Only(f, g, c, "token") /\ g[c].token = t
  BY <1>5, <1>6 DEF Only, Requests
<1>8. g \in [Caller -> Requests]
  BY <1>7 DEF Only
<1>9. PICK h : h = [g EXCEPT ![c].route = r]
  OBVIOUS
<1>10. Only(g, h, c, "route") /\ h[c].route = r
  BY <1>8, <1>9 DEF Only, Requests
<1>11. h \in [Caller -> Requests]
  BY <1>10 DEF Only
<1>12. req' = [h EXCEPT ![c].good = a]
  BY <1>1, <1>2, <1>3, <1>6, <1>9, Zenon DEF Request
<1>13. Only(h, req', c, "good") /\ req'[c].good = a
  BY <1>11, <1>12 DEF Only, Requests
<1> QED
  BY <1>1, <1>2, <1>4, <1>7, <1>10, <1>13 DEF Only

LEMMA RequestKeeps ==
  ASSUME IInv, NEW c \in Caller, NEW t \in Token \cup {NoToken}, NEW r \in Route, Request(c, t, r)
  PROVE  IInv'
<1>1. req \in [Caller -> Requests] /\ InOrder(req[c])
  BY DEF IInv
<1>2. auth # None /\ req[c].pc = "idle" /\ UNCHANGED world
  BY DEF Request
<1>3. /\ req' \in [Caller -> Requests] /\ \A d \in Caller \ {c} : req'[d] = req[d]
      /\ req'[c].pc \in {"auth", "roles"} /\ (req'[c].pc = "roles" => r.auth = "none")
      /\ req'[c].token = t /\ req'[c].route = r /\ req'[c].good = Acceptable(t)
      /\ req'[c].reply = req[c].reply /\ req'[c].claims = req[c].claims
      /\ req'[c].status = req[c].status
  BY RequestSets
<1>4. Placed(req'[c]) /\ Honest(req'[c])
  BY <1>1, <1>2, <1>3 DEF InOrder, Placed, Honest
<1>5. Monotone(req'[c])
  BY <1>3 DEF Monotone
<1>6. ClaimsAreGood(req'[c])
  BY <1>1, <1>2, <1>3 DEF InOrder, Placed, ClaimsAreGood
<1> QED
  BY <1>2, <1>3, <1>4, <1>5, <1>6, RequestStep DEF InOrder

-----------------------------------------------------------------------------
LEMMA Invariance == IInv /\ [Next]_vars => IInv'
<1> SUFFICES ASSUME IInv, [Next]_vars PROVE IInv'
  OBVIOUS
<1>1. CASE New
  BY <1>1, NewKeeps
<1>2. CASE Provider \/ Refresh
  BY <1>2, ProviderKeeps
<1>3. ASSUME NEW c \in Caller, NEW t \in Token \cup {NoToken}, NEW r \in Route, Request(c, t, r)
      PROVE  IInv'
  BY <1>3, RequestKeeps
<1>4. ASSUME NEW c \in Caller, Authenticate(c) PROVE IInv'
  BY <1>4, MissingTokenKeeps, VerifyKeeps, RefetchKeeps, IntrospectKeeps, ConcludeKeeps, GivesUpKeeps
     DEF Authenticate, TimesOut
<1>5. ASSUME NEW c \in Caller, Serve(c) PROVE IInv'
  BY <1>4, <1>5, RequireRolesKeeps, ReturnKeeps, PanicKeeps, AnswerKeeps DEF Serve
<1>6. ASSUME NEW c \in Caller, ProviderAnswers(c) \/ GivesUp(c) \/ Write(c) PROVE IInv'
  BY <1>6, ProviderAnswersKeeps, GivesUpKeeps, WriteKeeps
<1>7. CASE UNCHANGED vars
  <2>1. UNCHANGED <<auth, now, skew, revoked, published, withdrawn, cached, req>>
    BY <1>7 DEF vars, world, provider
  <2>2. World'
    BY <2>1 DEF IInv, World
  <2> QED
    BY <2>1, <2>2, WorldStep DEF IInv, World
<1> QED
  BY <1>1, <1>2, <1>3, <1>5, <1>6, <1>7 DEF Next

LEMMA AlwaysIInv == Spec => []IInv
BY InitIInv, Invariance, PTL DEF Spec

\* Every request is where its token, its route and its status say
\* (server.go:120-159 and auth/middleware.go, as a whole).
THEOREM TypeCorrect == Spec => []TypeOK
<1>1. IInv => TypeOK
  <2>1. ASSUME IInv, NEW c \in Caller
        PROVE  /\ (req[c].status # 0) => req[c].pc \in {"handler", "unwind"}
               /\ (req[c].pc = "unwind") => req[c].status # 0
    BY <2>1 DEF IInv, InOrder, Placed
  <2> QED
    BY <2>1 DEF IInv, World, TypeOK
<1> QED
  BY <1>1, AlwaysIInv, PTL

\* A handler behind RequiredAuth serves requests only whose tokens were
\* acceptable when they came (auth/middleware.go:17-42).
THEOREM OnlyGoodServed == Spec => []ServedWasGood
<1>1. IInv => ServedWasGood
  <2>1. SUFFICES ASSUME IInv, NEW c \in Caller,
                        req[c].pc = "handler", req[c].route.auth = "required"
                 PROVE  /\ req[c].good
                        /\ auth.mode = "jwks" => Payload[req[c].token].signer \in published \cup withdrawn
    BY DEF ServedWasGood
  <2>2. req[c].claims
    BY <2>1 DEF IInv, InOrder, Placed
  <2> QED
    BY <2>1, <2>2 DEF IInv, InOrder, ClaimsAreGood
<1> QED
  BY <1>1, AlwaysIInv, PTL

-----------------------------------------------------------------------------
(* The roles in the claims, whatever shape they have. *)

\* A claim that is there is what the map holds under its name, and one that is
\* not names no role.
LEMMA ClaimUnder ==
  ASSUME NEW v, NEW key
  PROVE  Named(Under(v, key)) = Strings(Claim(v, key))
<1>1. CASE v.kind = "map" /\ key \in DOMAIN v.items
  BY <1>1 DEF Named, Under, Claim, Strings
<1>2. CASE ~(v.kind = "map" /\ key \in DOMAIN v.items)
  BY <1>2 DEF Named, Under, Claim, Strings, Absent
<1> QED
  BY <1>1, <1>2

\* The walk of NestedStringSlice along a path of two names.
LEMMA WalkOfTwo ==
  ASSUME NEW raw, NEW a, NEW b
  PROVE  NestedStringSlice(raw, <<a, b>>) = Strings(Claim(Claim(raw, a), b))
<1> DEFINE path == <<a, b>>
           step(f) == [i \in 0..2 |-> IF i = 0 THEN raw ELSE Claim(f[i - 1], path[i])]
           walk == [i \in 0..2 |-> IF i = 0 THEN raw
                                   ELSE IF i = 1 THEN Claim(raw, a) ELSE Claim(Claim(raw, a), b)]
           cur == CHOOSE f : f = step(f)
<1>1. Len(path) = 2 /\ path # <<>> /\ path[1] = a /\ path[2] = b
  OBVIOUS
<1>2. walk = step(walk)
  <2>1. ASSUME NEW i \in 0..2 PROVE walk[i] = step(walk)[i]
    <3>1. i = 0 \/ i = 1 \/ i = 2
      OBVIOUS
    <3> QED
      BY <1>1, <3>1
  <2> QED
    BY <2>1
<1>3. cur = step(cur)
  BY <1>2
<1>4. cur[2] = Claim(Claim(raw, a), b)
  <2> HIDE DEF cur
  <2>1. cur[0] = raw
    BY <1>3
  <2>2. cur[1] = Claim(cur[0], path[1])
    BY <1>3
  <2>3. cur[2] = Claim(cur[1], path[2])
    BY <1>3
  <2> QED
    BY <1>1, <2>1, <2>2, <2>3
<1> QED
  BY <1>1, <1>4 DEF NestedStringSlice

\* Where the default extractor finds a role, the provider gave it: the first claim with
\* any role in it, and a claim of another shape has none (claims.go:48-92, roles.go:8-30).
LEMMA ExtractorReads ==
  ASSUME NEW raw, NEW role \in DefaultRolesExtractor(raw)
  PROVE  Given(raw, role)
<1> DEFINE nested == NestedStringSlice(raw, <<"realm_access", "roles">>)
           roles == StringSlice(raw, "roles")
           groups == StringSlice(raw, "groups")
<1>1. Named(Sources(raw)[1]) = nested
  <2>1. Sources(raw)[1] = Under(Claim(raw, "realm_access"), "roles")
    <3>1. CASE Under(raw, "realm_access") = {}
      <4>1. Claim(raw, "realm_access") = Absent
        BY <3>1 DEF Under, Claim
      <4>2. Under(Absent, "roles") = {}
        BY DEF Under, Absent
      <4> QED
        BY <3>1, <4>1, <4>2 DEF Sources
    <3>2. CASE Under(raw, "realm_access") # {}
      <4>1. Under(raw, "realm_access") = {Claim(raw, "realm_access")}
        BY <3>2 DEF Under, Claim
      <4> QED
        BY <4>1 DEF Sources
    <3> QED
      BY <3>1, <3>2
  <2> QED
    BY <2>1, ClaimUnder, WalkOfTwo
<1>2. Named(Sources(raw)[2]) = roles /\ Named(Sources(raw)[3]) = groups
  BY ClaimUnder DEF Sources, StringSlice
<1>3. \/ role \in nested
      \/ nested = {} /\ role \in roles
      \/ nested = {} /\ roles = {} /\ role \in groups
  BY DEF DefaultRolesExtractor
<1>4. \E i \in 1..3 : /\ role \in Named(Sources(raw)[i])
                      /\ \A j \in 1..(i - 1) : Named(Sources(raw)[j]) = {}
  <2> HIDE DEF nested, roles, groups
  <2>1. CASE role \in nested
    BY <1>1, <2>1
  <2>2. CASE nested = {} /\ role \in roles
    BY <1>1, <1>2, <2>2
  <2>3. CASE nested = {} /\ roles = {} /\ role \in groups
    BY <1>1, <1>2, <2>3
  <2> QED
    BY <1>3, <2>1, <2>2, <2>3
<1> QED
  BY <1>4 DEF Given

\* Whoever reaches a handler behind RequireRoles has one of its roles, given to him in
\* the claims of a token that was acceptable when it came, for any tokens, whatever
\* shape their claims have, and whatever is revoked, replaced or answered meanwhile
\* (auth/middleware.go:44-65, auth/roles.go:8-55, auth/claims.go:48-92).
THEOREM OnlyRolesGiven == Spec => []RolesWereGiven
<1>1. IInv => RolesWereGiven
  <2>1. SUFFICES ASSUME IInv, NEW c \in Caller,
                        req[c].pc = "handler", req[c].route.guarded, req[c].route.roles # {}
                 PROVE  /\ req[c].good
                        /\ \E role \in req[c].route.roles : Given(Payload[req[c].token].raw, role)
    BY DEF RolesWereGiven
  <2>2. HasRole(req[c]) /\ InOrder(req[c])
    BY <2>1 DEF IInv, InOrder, Placed
  <2>3. req[c].good
    BY <2>2 DEF HasRole, InOrder, ClaimsAreGood
  <2>4. PICK role \in req[c].route.roles : role \in DefaultRolesExtractor(Payload[req[c].token].raw)
    BY <2>1, <2>2 DEF HasRole, HasAnyRole
  <2>5. Given(Payload[req[c].token].raw, role)
    BY <2>4, ExtractorReads
  <2> QED
    BY <2>3, <2>5
<1> QED
  BY <1>1, AlwaysIInv, PTL

-----------------------------------------------------------------------------
(* Why a request is denied. *)

\* An answer other than "active" that is on its way has a reason that lasts.
Explained(r) ==
  /\ (r.reply # "none") => r.pc = "asking"
  /\ (r.reply = "inactive") => ~Active(r.token)
  /\ (r.reply = "unauthorized") => auth.clientID # auth.clientSecret

AllExplained == \A c \in Caller : Explained(req[c])

\* A step of one request, which takes its answer away or has none.
LEMMA ReplyStep ==
  ASSUME AllExplained, UNCHANGED <<auth, now, revoked>>, NEW c \in Caller,
         \A d \in Caller \ {c} : req'[d] = req[d],
         \/ req'[c].reply = "none"
         \/ req[c].pc # "asking" /\ req'[c].reply = req[c].reply
         \/ Explained(req'[c])
  PROVE  AllExplained'
<1>1. Explained(req'[c])
  BY DEF AllExplained, Explained
<1>2. ASSUME NEW d \in Caller PROVE Explained(req[d])'
  <2>1. Explained(req'[d])
    BY <1>1 DEF AllExplained
  <2> QED
    BY <2>1 DEF Explained, Active
<1> QED
  BY <1>2 DEF AllExplained

\* A step of the provider or the service: what is inactive stays so, and while a
\* request is served the configuration is what New has made it.
LEMMA ExplainedWorld ==
  ASSUME IInv, AllExplained, req' = req, auth' = auth \/ auth = None,
         now' \in Int, now <= now', revoked \subseteq revoked'
  PROVE  AllExplained'
<1> SUFFICES ASSUME NEW c \in Caller PROVE Explained(req[c])'
  BY DEF AllExplained
<1>1. Explained(req[c]) /\ Placed(req[c]) /\ req[c] \in Requests /\ now \in Int
  BY DEF AllExplained, IInv, InOrder, World
<1>2. CASE req[c].reply = "none"
  BY <1>2 DEF Explained
<1>3. CASE req[c].reply # "none"
  <2>1. req[c].pc = "asking" /\ auth # None /\ req[c].token \in Token
    BY <1>1, <1>3 DEF Explained, Placed, Requests
  <2>2. Payload[req[c].token].exp \in Int
    BY <2>1, AuthConstants
  <2>3. ~Active(req[c].token) => ~Active(req[c].token)'
    BY <1>1, <2>2 DEF Active
  <2> QED
    BY <1>1, <2>1, <2>3 DEF Explained
<1> QED
  BY <1>2, <1>3

LEMMA RefuseReply ==
  ASSUME req \in [Caller -> Requests], NEW c \in Caller, Refuse(c) \/ Accept(c)
  PROVE  req'[c].reply = "none" /\ \A d \in Caller \ {c} : req'[d] = req[d]
<1>1. CASE Abort(c, 401)
  BY <1>1, AbortSets
<1>2. CASE Pass(c)
  BY <1>2, PassSets
<1>3. CASE Accept(c)
  BY <1>3, AcceptSets
<1> QED
  BY <1>1, <1>2, <1>3 DEF Refuse

LEMMA ExplainedRequest ==
  ASSUME IInv, AllExplained, NEW c \in Caller,
         \/ \E t \in Token \cup {NoToken}, r \in Route : Request(c, t, r)
         \/ Serve(c) \/ ProviderAnswers(c) \/ GivesUp(c) \/ Write(c)
  PROVE  AllExplained'
<1>r. req \in [Caller -> Requests] /\ Explained(req[c])
  BY DEF IInv, AllExplained
<1>1. ASSUME NEW t \in Token \cup {NoToken}, NEW r \in Route, Request(c, t, r)
      PROVE  AllExplained'
  <2>1. req[c].pc = "idle" /\ UNCHANGED <<auth, now, revoked>>
    BY <1>1 DEF Request, world, provider
  <2>2. req'[c].reply = req[c].reply /\ \A d \in Caller \ {c} : req'[d] = req[d]
    BY <1>1, RequestSets
  <2> QED
    BY <2>1, <2>2, ReplyStep
<1>2. CASE MissingToken(c) \/ Verify(c) \/ Conclude(c)
  <2>1. UNCHANGED <<auth, now, revoked>> /\ (Refuse(c) \/ Accept(c))
    BY <1>2 DEF MissingToken, Verify, Conclude, world, provider
  <2> QED
    BY <1>r, <2>1, RefuseReply, ReplyStep
<1>3. CASE Refetch(c) \/ Introspect(c)
  <2>1. /\ UNCHANGED <<auth, now, revoked>> /\ req[c].pc = "auth"
        /\ \E p \in {"refetched", "asking"} : req' = [req EXCEPT ![c].pc = p]
    BY <1>3 DEF Refetch, Introspect, world, provider
  <2>2. req'[c].reply = req[c].reply /\ \A d \in Caller \ {c} : req'[d] = req[d]
    BY <1>r, <2>1 DEF Requests
  <2> QED
    BY <2>1, <2>2, ReplyStep
<1>4. CASE ProviderAnswers(c)
  <2>1. req[c].pc = "asking" /\ UNCHANGED <<auth, now, revoked>>
    BY <1>4 DEF ProviderAnswers, world, provider
  <2>2. PICK answer \in {"unauthorized", "active", "inactive", "error"} :
          /\ req' = [req EXCEPT ![c].reply = answer]
          /\ (answer = "inactive") => ~Active(req[c].token)
          /\ (answer = "unauthorized") => auth.clientID # auth.clientSecret
    BY <1>4 DEF ProviderAnswers, SentSecret
  <2>3. Only(req, req', c, "reply") /\ req'[c].reply = answer
    BY <1>r, <2>2 DEF Only, Requests
  <2>4. Explained(req'[c])
    BY <2>1, <2>2, <2>3 DEF Only, Explained
  <2> QED
    BY <2>1, <2>3, <2>4, ReplyStep DEF Only
<1>5. CASE GivesUp(c)
  <2>1. /\ req[c].pc = "asking" /\ UNCHANGED <<auth, now, revoked>>
        /\ req' = [req EXCEPT ![c].reply = "error"]
    BY <1>5 DEF GivesUp, world, provider
  <2>2. Only(req, req', c, "reply") /\ req'[c].reply = "error"
    BY <1>r, <2>1 DEF Only, Requests
  <2>3. Explained(req'[c])
    BY <2>1, <2>2 DEF Only, Explained
  <2> QED
    BY <2>1, <2>2, <2>3, ReplyStep DEF Only
<1>6. CASE RequireRoles(c) \/ Panic(c)
  <2>1. UNCHANGED <<auth, now, revoked>> /\ req[c].pc # "asking"
    BY <1>6 DEF RequireRoles, Panic, world, provider
  <2>2. \/ \E s \in {200, 401, 403, 500} : Abort(c, s)
        \/ req' = [req EXCEPT ![c].pc = "handler"]
    <3>1. Recovered(req[c].status) \in {200, 401, 403, 500}
      BY <1>r DEF Requests, Recovered
    <3> QED
      BY <1>6, <3>1 DEF RequireRoles, Panic
  <2>3. req'[c].reply \in {req[c].reply, "none"} /\ \A d \in Caller \ {c} : req'[d] = req[d]
    <3>1. CASE req' = [req EXCEPT ![c].pc = "handler"]
      BY <1>r, <3>1 DEF Requests
    <3> QED
      BY <1>r, <2>2, <3>1, AbortSets
  <2> QED
    BY <2>1, <2>3, ReplyStep
<1>7. CASE Return(c) \/ Write(c)
  <2>1. UNCHANGED <<auth, now, revoked>> /\ req[c].pc = "handler"
    BY <1>7 DEF Return, Write, world, provider
  <2>2. req'[c].reply = req[c].reply /\ \A d \in Caller \ {c} : req'[d] = req[d]
    BY <1>7, <1>r DEF Return, Write, Requests
  <2> QED
    BY <2>1, <2>2, ReplyStep
<1>8. CASE Answer(c)
  <2>1. UNCHANGED <<auth, now, revoked>> /\ \A d \in Caller \ {c} : req'[d] = req[d]
    BY <1>8, <1>r DEF Answer, world, provider
  <2>2. req'[c].reply = "none"
    BY <1>8, <1>r DEF Answer, Idle
  <2> QED
    BY <2>1, <2>2, ReplyStep
<1> QED
  BY <1>1, <1>2, <1>3, <1>4, <1>5, <1>6, <1>7, <1>8 DEF Serve, Authenticate, TimesOut

LEMMA NextExplained == IInv /\ AllExplained /\ [Next]_vars => AllExplained'
<1> SUFFICES ASSUME IInv, AllExplained, [Next]_vars PROVE AllExplained'
  OBVIOUS
<1>1. CASE New \/ Provider \/ Refresh \/ UNCHANGED vars
  <2>1. now \in Int
    BY DEF IInv, World
  <2>2. /\ req' = req /\ (auth' = auth \/ auth = None)
        /\ now' \in Int /\ now <= now' /\ revoked \subseteq revoked'
    <3>1. CASE \/ \E t \in Token : Revoke(t)
               \/ \E k \in Key : Publish(k) \/ Withdraw(k)
      BY <2>1, <3>1 DEF Revoke, Publish, Withdraw
    <3>2. CASE Tick
      BY <2>1, <3>2 DEF Tick
    <3>3. CASE New \/ Refresh
      <4>1. UNCHANGED provider /\ req' = req /\ (auth = None \/ auth' = auth)
        BY <3>3, Zenon DEF New, Refresh
      <4> QED
        BY <2>1, <4>1 DEF provider
    <3>4. CASE UNCHANGED vars
      BY <2>1, <3>4 DEF vars, world, provider
    <3> QED
      BY <1>1, <3>1, <3>2, <3>3, <3>4 DEF Provider
  <2> QED
    BY <2>2, ExplainedWorld
<1> QED
  BY <1>1, ExplainedRequest DEF Next

\* The steps that end the authentication of a request.
LEMMA DeniedBy ==
  ASSUME IInv, [Next]_vars, NEW c \in Caller, Denied(c)
  PROVE  Refuse(c) /\ (MissingToken(c) \/ Verify(c) \/ Conclude(c))
<1>r. req \in [Caller -> Requests] /\ req[c].pc \in {"auth", "refetched", "asking"}
  BY DEF IInv, Denied
<1>n. req'[c].pc \in {"roles", "unwind"} /\ req'[c].claims # TRUE
  BY DEF Denied
<1>1. ~(New \/ Provider \/ Refresh \/ UNCHANGED vars)
  <2>1. req' # req
    BY <1>r, <1>n
  <2> QED
    BY <2>1 DEF New, Provider, Revoke, Publish, Withdraw, Tick, Refresh, vars
<1>2. PICK d \in Caller :
        \/ \E t \in Token \cup {NoToken}, r \in Route : Request(d, t, r)
        \/ Serve(d) \/ ProviderAnswers(d) \/ GivesUp(d) \/ Write(d)
  BY <1>1 DEF Next
<1>3. d = c
  <2>1. \A e \in Caller \ {d} : req'[e] = req[e]
    <3>1. CASE \E t \in Token \cup {NoToken}, r \in Route : Request(d, t, r)
      BY <3>1, RequestSets
    <3>2. CASE MissingToken(d) \/ Verify(d) \/ Conclude(d)
      BY <1>r, <3>2, RefuseReply DEF MissingToken, Verify, Conclude
    <3>3. CASE RequireRoles(d) \/ Panic(d)
      <4>1. Recovered(req[d].status) \in {200, 401, 403, 500}
        BY <1>r DEF Requests, Recovered
      <4> QED
        BY <1>r, <3>3, <4>1, AbortSets DEF RequireRoles, Panic
    <3>4. CASE \/ Refetch(d) \/ Introspect(d) \/ GivesUp(d) \/ ProviderAnswers(d)
               \/ Return(d) \/ Write(d) \/ Answer(d)
      BY <1>r, <3>4 DEF Refetch, Introspect, GivesUp, ProviderAnswers, Return, Write, Answer
    <3> QED
      BY <1>2, <3>1, <3>2, <3>3, <3>4 DEF Serve, Authenticate, TimesOut
  <2> QED
    BY <1>r, <1>n, <2>1
<1>4. Authenticate(c) \/ ProviderAnswers(c) \/ GivesUp(c)
  BY <1>2, <1>3, <1>r DEF Request, Serve, RequireRoles, Return, Panic, Answer, Write
<1>5. ~(Refetch(c) \/ Introspect(c) \/ ProviderAnswers(c) \/ GivesUp(c))
  BY <1>r, <1>n DEF Refetch, Introspect, ProviderAnswers, GivesUp, Requests
<1>6. MissingToken(c) \/ Verify(c) \/ Conclude(c)
  BY <1>4, <1>5 DEF Authenticate, TimesOut
<1>7. ~Accept(c)
  BY <1>r, <1>n, AcceptSets
<1> QED
  BY <1>6, <1>7 DEF MissingToken, Verify, Conclude

\* A token that fits and is known is denied only by a provider that has revoked it, gives
\* no answer, or does not know the client: no race of the clocks, the keys or the answers
\* denies it (jwks_validator.go:40-67, introspection_validator.go:66-137).
THEOREM NobodyDeniedWithoutCause == Spec => DeniedForCause
<1> DEFINE Cause(c) ==
      LET t == req[c].token IN
      \/ t = NoToken
      \/ ~Fits(t)
      \/ auth.mode = "jwks" /\ Payload[t].signer \notin cached
      \/ /\ auth.mode = "introspection"
         /\ \/ t \in revoked \/ req[c].reply = "error"
            \/ auth.clientID # auth.clientSecret
<1>1. Init => AllExplained
  <2>1. Explained(Idle)
    BY DEF Idle, Explained
  <2> QED
    BY <2>1 DEF Init, AllExplained
<1>2. IInv /\ AllExplained /\ [Next]_vars => [\A c \in Caller : Denied(c) => Cause(c)]_vars
  <2> SUFFICES ASSUME IInv, AllExplained, [Next]_vars, NEW c \in Caller, Denied(c),
                      req[c].token # NoToken
               PROVE  Cause(c)
    OBVIOUS
  <2> DEFINE t == req[c].token
  <2>1. req[c] \in Requests /\ InOrder(req[c]) /\ Explained(req[c]) /\ World
    BY DEF IInv, AllExplained
  <2>2. Refuse(c) /\ (Verify(c) \/ Conclude(c))
    BY DeniedBy DEF MissingToken
  <2>3. t \in Token /\ Payload[t].exp \in Int
    BY <2>1, AuthConstants DEF Requests
  <2>4. CASE Verify(c)
    <3>1. auth.mode = "jwks" /\ ~Accept(c)
      BY <2>1, <2>4, AcceptSets DEF Verify, IInv, Denied
    <3>2. ~(Payload[t].signer \in cached /\ RightIssuer(t) /\ AudienceContains(t) /\ ~Expired(t))
      BY <2>4, <3>1 DEF Verify
    <3>3. auth # None /\ auth.leeway \in Int /\ MaxSkew <= auth.leeway
      BY <2>1 DEF InOrder, Placed, World, Denied
    <3>4. now \in Int /\ skew \in Int /\ skew <= MaxSkew /\ MaxSkew \in Int
      BY <2>1, AuthConstants DEF World
    <3>5. Expired(t) => ~(now < Payload[t].exp)
      BY <2>3, <3>3, <3>4 DEF Expired
    <3> QED
      BY <3>1, <3>2, <3>5 DEF Fits
  <2>5. CASE Conclude(c)
    <3>1. req[c].pc = "asking" /\ req[c].reply # "none" /\ ~Accept(c)
      BY <2>1, <2>5, AcceptSets DEF Conclude, IInv, Denied
    <3>2. ~(Says(req[c].reply) /\ RightIssuer(t) /\ AudienceContains(t))
      BY <2>5, <3>1 DEF Conclude
    <3>3. auth.mode = "introspection"
      BY <2>1, <3>1 DEF InOrder, Placed
    <3>4. CASE req[c].reply = "inactive"
      BY <2>1, <3>3, <3>4 DEF Explained, Active, Fits
    <3>5. CASE req[c].reply = "unauthorized"
      BY <2>1, <3>3, <3>5 DEF Explained
    <3>6. CASE req[c].reply \in {"active", "error"}
      BY <3>2, <3>3, <3>6 DEF Says, Fits
    <3> QED
      BY <2>1, <3>1, <3>4, <3>5, <3>6 DEF Requests
  <2> QED
    BY <2>2, <2>4, <2>5
<1> QED
  BY <1>1, <1>2, AlwaysIInv, NextExplained, PTL DEF Spec, DeniedForCause
=============================================================================
