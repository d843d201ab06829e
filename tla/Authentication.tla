--------------------------- MODULE Authentication ---------------------------
(***************************************************************************)
(* Who may call what: identity at lease issuance, sender-constrained       *)
(* tokens on every request, and the cache of verified keys between them.   *)
(*                                                                         *)
(* A connection reaches the gate by one of three doors: the client socket, *)
(* the admin socket (both carry the peer's uid) and the admin TLS listener *)
(* (which carries a client certificate).  A lease is issued to a           *)
(* connection and binds a key; a request presents a token (a lease or an   *)
(* operator's api_key) and a proof signed for one route, one token and one *)
(* moment.  The gate looks the bound key up in an LRU cache or extracts it *)
(* from the proof's header, verifies, and only then claims the proof's jti *)
(* in the replay cache.  The three are separate steps of a request, and    *)
(* requests interleave; a restart forgets the issuer's key, the key cache  *)
(* and an in-memory replay cache, while operators' keys live on.           *)
(*                                                                         *)
(* ReplayCache models the jti map itself; LeaseSession what a lease pays.  *)
(***************************************************************************)
EXTENDS Naturals, Sequences, FiniteSets, SequencesExt

CONSTANTS
    Conns,          \* connections: [via, uid, cert]
    Mapped,         \* uid -> [principal, scopes], the configured uids
    AllowUnmapped,  \* identity.peercred.allow_unmapped
    CaSigned,       \* certificates the admin CA signed
    AllowedCerts,   \* the fingerprint allowlist; {} when none is configured
    ClientKeys,     \* key pairs agents and operators hold
    Operators,      \* the operators, each with the key its credential names
    ScopeWishes,    \* scope sets a client may ask for
    Urls,           \* spellings of a URL's authority, as clients write it
    Headers,        \* what a proof's header may hold: a key, or "bad"
    Served,         \* the handlers in play, of execute, receipt, approve, audit, poll
    Callers,        \* requests in flight
    KeyCapacity,    \* DPoPKeyCache's capacity
    MaxAge, Skew,   \* IAT_MAX_AGE_SECS, IAT_CLOCK_SKEW_SECS
    LeaseTtl, ReplayTtl,
    ClaimWithin,    \* how long a request may take from its headers to the replay cache
    ReplayStores,   \* where the replay cache may live: "memory", or "up" for redis
    MaxLeases, MaxProofs, MaxTime, MaxLives

ASSUME AuthAssumption ==
    /\ {KeyCapacity, MaxLives} \subseteq Nat \ {0}
    /\ {MaxLeases, MaxProofs, MaxTime, MaxAge, Skew, LeaseTtl, ReplayTtl, ClaimWithin}
          \subseteq Nat
    /\ ReplayTtl > MaxAge + Skew + ClaimWithin
    /\ Operators \in Seq(ClientKeys)
    /\ Served \subseteq {"execute", "receipt", "approve", "audit", "poll"}
    /\ ReplayStores \subseteq {"memory", "up"}

VARIABLES
    authTime,
    issuerKey,      \* which signing key the issuer holds
    open,           \* connections the listeners accepted
    leases,         \* every lease issued, in order
    proofs,         \* every proof signed, in order
    keyCache,       \* DPoPKeyCache: [jkt, key], most recently used first
    jtis,           \* the replay cache: [proof, until]
    replayStore,    \* "memory", or redis "up" or "down"
    call,           \* caller -> the request it is making
    admitted        \* every admission, in order

authVars == <<authTime, issuerKey, open, leases, proofs, keyCache, jtis,
              replayStore, call, admitted>>

-----------------------------------------------------------------------------
(* Routes and the handlers behind them *)

\* A route names its handler and, for a poll, the lease whose approval it is.
Routes == {[what |-> w, of |-> 0] : w \in Served \ {"poll"}}
          \cup {[what |-> w, of |-> l] : w \in Served \cap {"poll"}, l \in 1..MaxLeases}

\* client_only_routes and admin_only_routes: the admin router also carries
\* the client's routes; the receipt route changes hands.
ClientRoutes == {"execute", "poll"}
AdminRoutes == {"approve", "audit"}

\* Whose credentials the handler behind a route asks for.
HandlerAuth(via, what) ==
    CASE what = "receipt" -> IF via = "client" THEN "agent" ELSE "operator"
      [] what \in ClientRoutes -> "agent"
      [] what \in AdminRoutes -> IF via = "client" THEN "unrouted" ELSE "operator"

\* How each handler turns an authentication error into a status.
PipelineStatus(err) == IF err = "replay_unavailable" THEN 503 ELSE 401
ReceiptStatus(err) == IF err = "replay_unavailable" THEN 503 ELSE 401
PollStatus(err) == 401
RequireOperatorStatus(err) == 401

StatusFor(via, what, err) ==
    CASE what \in {"execute", "approve"} -> PipelineStatus(err)
      [] what = "receipt" /\ via = "client" -> ReceiptStatus(err)
      [] what = "poll" -> PollStatus(err)
      [] OTHER -> RequireOperatorStatus(err)

-----------------------------------------------------------------------------
(* Listeners and identity *)

\* acceptor.accept and the fingerprint allowlist of serve_admin_tls.
TlsAccepts(cert) ==
    /\ cert \in CaSigned
    /\ AllowedCerts # {} => cert \in AllowedCerts

Accept(c) ==
    /\ c \notin open
    /\ c.via = "tls" => TlsAccepts(c.cert)
    /\ open' = open \cup {c}
    /\ UNCHANGED <<authTime, issuerKey, leases, proofs, keyCache, jtis, replayStore,
                   call, admitted>>

\* inject_connection_context and its TLS counterpart: only a socket's peer
\* has credentials.
PeerCred(c) == IF c.via = "tls" THEN "none" ELSE c.uid

NoIdentity == [principal |-> "none", max |-> {}]

\* PeerCredProvider::authenticate.  The other provider, NoneProvider, takes every
\* caller for dev:anonymous without bounds; it is for development, refused by
\* config validation outside it (validate.rs:133), and not modelled.
Identify(c) ==
    LET uid == PeerCred(c) IN
    CASE uid = "none" -> NoIdentity
      [] uid # "none" /\ uid \in DOMAIN Mapped ->
            [principal |-> Mapped[uid].principal, max |-> Mapped[uid].scopes]
      [] uid # "none" /\ uid \notin DOMAIN Mapped /\ AllowUnmapped ->
            [principal |-> uid, max |-> {}]
      [] OTHER -> NoIdentity

\* The effective scopes of a lease, {} when issuance is refused.
IntersectScopes(wish, max) == IF max = {} THEN wish ELSE wish \cap max

\* issue_lease up to the token: identity, scopes, then a lease signed with the
\* issuer's key that binds the client's.
GrantLease(c, key, wish) ==
    LET who == Identify(c) IN
    /\ c \in open
    /\ Len(leases) < MaxLeases
    /\ who # NoIdentity
    /\ IntersectScopes(wish, who.max) # {}
    /\ leases' = Append(leases, [jkt |-> key, by |-> issuerKey, conn |-> c,
                                 principal |-> who.principal,
                                 scopes |-> IntersectScopes(wish, who.max),
                                 exp |-> authTime + LeaseTtl])
    /\ UNCHANGED <<authTime, issuerKey, open, proofs, keyCache, jtis, replayStore,
                   call, admitted>>

-----------------------------------------------------------------------------
(* Proofs *)

\* What an Authorization header may carry.
LeaseToken(n) == [kind |-> "lease", n |-> n]
ApiKey(n) == [kind |-> "api_key", n |-> n]
NoToken == [kind |-> "none", n |-> 0]
Tokens == {LeaseToken(n) : n \in 1..Len(leases)} \cup {ApiKey(n) : n \in 1..Len(Operators)}

Method(what) == IF what \in {"execute", "approve"} THEN "POST" ELSE "GET"

\* strip_default_port.
StripDefaultPort(u) ==
    IF <<u.scheme, u.port>> \in {<<"http", 80>>, <<"https", 443>>} THEN 0 ELSE u.port

\* normalize_htu: query and fragment go, the case and a default port of the
\* authority do not matter, the path stays as it is written.
NormalizeHtu(u, path) ==
    [scheme |-> u.scheme, host |-> u.host, port |-> StripDefaultPort(u), path |-> path]

\* public_base_url, as the server spells it.
BaseUrl == [scheme |-> "https", host |-> "gate", port |-> 0, query |-> FALSE]

\* sign_dpop_proof with a client's own library: iat may lie Skew ahead.
SignProof(key, header, route, url, token, iat) ==
    /\ Len(proofs) < MaxProofs
    /\ iat \in {authTime, authTime + Skew}
    /\ proofs' = Append(proofs, [by |-> key, header |-> header, route |-> route,
                                 url |-> url, ath |-> token, iat |-> iat])
    /\ UNCHANGED <<authTime, issuerKey, open, leases, keyCache, jtis, replayStore,
                   call, admitted>>

\* What verify_lease makes of a token.
VerifyLease(token) ==
    IF token.kind # "lease" \/ leases[token.n].by # issuerKey THEN "invalid_lease"
    ELSE IF leases[token.n].exp < authTime THEN "lease_expired" ELSE "ok"

\* find_operator_by_token, then the credential's dpop_jkt.
FindOperator(token) == IF token.kind = "api_key" THEN "ok" ELSE "invalid_operator_token"

BoundKey(token) ==
    IF token.kind = "api_key" THEN Operators[token.n] ELSE leases[token.n].jkt

\* extract_dpop_token / verify_operator_auth: what is missing from the headers.
HeaderError(token, p) ==
    CASE token = NoToken -> "missing_auth_header"
      [] token # NoToken /\ p = 0 -> "missing_dpop_header"
      [] OTHER -> "ok"

\* A variant with a fault: the header's key is taken without comparing its
\* thumbprint.
ExtractBoundKeyUnbound(p, jkt) == IF proofs[p].header = "bad" THEN "bad_header" ELSE "ok"

\* extract_bound_key: the header's key, if it is the bound one.
ExtractBoundKey(p, jkt) ==
    CASE proofs[p].header = "bad" -> "bad_header"
      [] proofs[p].header # "bad" /\ proofs[p].header # jkt -> "bad_key"
      [] OTHER -> "ok"

\* verify_sig.
VerifySig(key, p) == proofs[p].by = key

\* validate_iat_window.
ValidateIat(iat) == iat + MaxAge >= authTime /\ iat <= authTime + Skew

\* The claims, in the order verify_dpop_proof checks them.
ClaimsError(p, route, token) ==
    LET claims == proofs[p] IN
    IF Method(claims.route.what) # Method(route.what) THEN "bad_htm"
    ELSE IF NormalizeHtu(claims.url, claims.route) # NormalizeHtu(BaseUrl, route) THEN "bad_htu"
    ELSE IF ~ValidateIat(claims.iat) THEN "bad_iat"
    ELSE IF claims.ath # token THEN "bad_ath" ELSE "ok"

-----------------------------------------------------------------------------
(* The key cache *)

CachedAt(jkt) == {i \in 1..Len(keyCache) : keyCache[i].jkt = jkt}
Cached(jkt) == CachedAt(jkt) # {}

KeySlot(jkt) == CHOOSE i \in CachedAt(jkt) : TRUE

\* DPoPKeyCache::get promotes what it finds.
Promote(jkt) == <<keyCache[KeySlot(jkt)]>> \o RemoveAt(keyCache, KeySlot(jkt))

\* DPoPKeyCache::insert: update or add in front, evicting the last at capacity.
Insert(jkt, key) ==
    <<[jkt |-> jkt, key |-> key]>> \o
      (IF Cached(jkt) THEN RemoveAt(keyCache, KeySlot(jkt))
       ELSE IF Len(keyCache) < KeyCapacity THEN keyCache
       ELSE SubSeq(keyCache, 1, KeyCapacity - 1))

-----------------------------------------------------------------------------
(* A request *)

NoCall == [at |-> "idle"]

Respond(r, status, code) == call' = [call EXCEPT ![r] = [at |-> "done", status |-> status, code |-> code]]

Fail(r, c, route, err) == Respond(r, StatusFor(c.via, route.what, err), err)

\* The key a request goes on with: the cached one, or the header's.
KeyOf(p, jkt) == IF Cached(jkt) THEN keyCache[KeySlot(jkt)].key ELSE proofs[p].header

\* Everything before the first suspension that only reads: headers, token, and
\* the cache's answer (or the key extracted from the header).
Receive(r, c, route, token, p) ==
    LET kind == HandlerAuth(c.via, route.what)
        missing == HeaderError(token, p)
        held == IF kind = "agent" THEN VerifyLease(token) ELSE FindOperator(token)
        jkt == BoundKey(token)
        extracted == IF Cached(jkt) THEN "ok" ELSE ExtractBoundKey(p, jkt)
        err == CASE missing # "ok" -> missing
                 [] missing = "ok" /\ held # "ok" -> held
                 [] OTHER -> extracted
    IN
    /\ call[r].at = "idle"
    /\ c \in open
    /\ kind # "unrouted"
    /\ p \in 0..Len(proofs)
    /\ IF err # "ok"
       THEN Fail(r, c, route, err)
       ELSE call' = [call EXCEPT ![r] =
                [at |-> "keyed", conn |-> c, route |-> route, token |-> token,
                 proof |-> p, hit |-> Cached(jkt), key |-> KeyOf(p, jkt), since |-> authTime]]
    /\ keyCache' = IF missing = "ok" /\ held = "ok" /\ Cached(jkt) THEN Promote(jkt) ELSE keyCache
    /\ UNCHANGED <<authTime, issuerKey, open, leases, proofs, jtis, replayStore, admitted>>

\* Signature, then the insertion of a key that missed, then the claims.
VerifyProof(r) ==
    LET q == call[r]
        claims == ClaimsError(q.proof, q.route, q.token)
    IN
    /\ q.at = "keyed"
    /\ IF ~VerifySig(q.key, q.proof)
       THEN /\ Fail(r, q.conn, q.route, "bad_sig")
            /\ UNCHANGED keyCache
       ELSE /\ keyCache' = IF q.hit THEN keyCache ELSE Insert(BoundKey(q.token), q.key)
            /\ IF claims # "ok"
               THEN Fail(r, q.conn, q.route, claims)
               ELSE call' = [call EXCEPT ![r].at = "proven"]
    /\ UNCHANGED <<authTime, issuerKey, open, leases, proofs, jtis, replayStore, admitted>>

SeenJti(p) == \E e \in jtis : e.proof = p /\ authTime < e.until

\* poll_approval_status after authentication: another session's approval, or
\* one that does not exist, is not found.
PollAnswer(q) == IF q.route.what = "poll" /\ q.route.of # q.token.n THEN 404 ELSE 200

\* check_and_store_jti, and the handler behind it.
ClaimJti(r) ==
    LET q == call[r] IN
    /\ q.at = "proven"
    /\ IF replayStore = "down"
       THEN /\ Fail(r, q.conn, q.route, "replay_unavailable")
            /\ UNCHANGED <<jtis, admitted>>
       ELSE IF SeenJti(q.proof)
       THEN /\ Fail(r, q.conn, q.route, "replay_detected")
            /\ UNCHANGED <<jtis, admitted>>
       ELSE /\ jtis' = {e \in jtis : e.proof # q.proof}
                       \cup {[proof |-> q.proof, until |-> authTime + ReplayTtl]}
            /\ admitted' = Append(admitted,
                    [kind |-> HandlerAuth(q.conn.via, q.route.what), proof |-> q.proof,
                     token |-> q.token, route |-> q.route, since |-> q.since,
                     by |-> issuerKey, via |-> q.conn.via])
            /\ Respond(r, PollAnswer(q), "ok")
    /\ UNCHANGED <<authTime, issuerKey, open, leases, proofs, keyCache, replayStore>>

NextCall(r) ==
    /\ call[r].at = "done"
    /\ call' = [call EXCEPT ![r] = NoCall]
    /\ UNCHANGED <<authTime, issuerKey, open, leases, proofs, keyCache, jtis,
                   replayStore, admitted>>

-----------------------------------------------------------------------------
(* The world *)

\* Time passes, but a request spends no more than ClaimWithin between its
\* headers and the replay cache: verification does not suspend, and the client
\* of the shared store gives up by itself.
AuthTick ==
    /\ authTime < MaxTime
    /\ \A r \in Callers :
          call[r].at \in {"keyed", "proven"} => authTime < call[r].since + ClaimWithin
    /\ authTime' = authTime + 1
    /\ UNCHANGED <<issuerKey, open, leases, proofs, keyCache, jtis, replayStore,
                   call, admitted>>

\* The shared replay store goes away, or comes back.
ReplayOutage ==
    /\ replayStore # "memory"
    /\ replayStore' = IF replayStore = "up" THEN "down" ELSE "up"
    /\ UNCHANGED <<authTime, issuerKey, open, leases, proofs, keyCache, jtis,
                   call, admitted>>

\* A restart: Issuer::new draws a new key, the caches start empty.
AuthRestart ==
    /\ issuerKey < MaxLives
    /\ issuerKey' = issuerKey + 1
    /\ open' = {}
    /\ keyCache' = <<>>
    /\ jtis' = IF replayStore = "memory" THEN {} ELSE jtis
    /\ call' = [r \in Callers |-> NoCall]
    /\ UNCHANGED <<authTime, leases, proofs, replayStore, admitted>>

AuthInit ==
    /\ authTime = 0 /\ issuerKey = 1 /\ open = {} /\ leases = <<>> /\ proofs = <<>>
    /\ keyCache = <<>> /\ jtis = {} /\ replayStore \in ReplayStores
    /\ call = [r \in Callers |-> NoCall]
    /\ admitted = <<>>

AuthNext ==
    \/ \E c \in Conns : Accept(c)
    \/ \E c \in Conns, key \in ClientKeys, wish \in ScopeWishes : GrantLease(c, key, wish)
    \/ \E key \in ClientKeys, header \in Headers, route \in Routes, url \in Urls,
          token \in Tokens, iat \in 0..(MaxTime + Skew) :
          SignProof(key, header, route, url, token, iat)
    \/ \E r \in Callers, c \in Conns, route \in Routes, token \in Tokens \cup {NoToken},
          p \in 0..MaxProofs : Receive(r, c, route, token, p)
    \/ \E r \in Callers : VerifyProof(r) \/ ClaimJti(r) \/ NextCall(r)
    \/ AuthTick \/ ReplayOutage \/ AuthRestart

AuthSpec == AuthInit /\ [][AuthNext]_authVars

-----------------------------------------------------------------------------
(* Properties *)

\* The shapes of the state.
AuthTypeOK ==
    /\ authTime \in 0..MaxTime /\ issuerKey \in 1..MaxLives
    /\ open \subseteq Conns /\ replayStore \in {"memory", "up", "down"}
    /\ Len(leases) <= MaxLeases /\ Len(proofs) <= MaxProofs
    /\ \A r \in Callers : call[r].at \in {"idle", "keyed", "proven", "done"}

\* Whatever the cache held and whoever else was calling, a request that was
\* admitted carried a proof the holder of the token's key signed, for this
\* route and this token, and an agent's token was a live lease of this gate.
AdmittedIsSigned ==
    \A i \in 1..Len(admitted) :
        LET a == admitted[i]
            p == proofs[a.proof]
        IN  /\ p.by = BoundKey(a.token) /\ p.ath = a.token /\ p.route = a.route
            /\ a.kind = "agent" => /\ a.token.kind = "lease"
                                   /\ leases[a.token.n].by = a.by
                                   /\ a.since <= leases[a.token.n].exp
            /\ a.kind = "operator" => a.token.kind = "api_key" /\ a.via # "client"

\* The cache stays within its capacity, has one entry per thumbprint and never
\* holds another key under a thumbprint.
CacheIsSound ==
    /\ Len(keyCache) <= KeyCapacity
    /\ \A i, j \in 1..Len(keyCache) : keyCache[i].jkt = keyCache[j].jkt => i = j
    /\ \A i \in 1..Len(keyCache) : keyCache[i].key = keyCache[i].jkt

\* An agent's proof is admitted once, restarts included: the lease it is bound
\* to dies with the issuer's key.  An operator's is admitted once per life.
ProofOnce ==
    \A i, j \in 1..Len(admitted) :
        /\ admitted[i].proof = admitted[j].proof
        /\ admitted[i].kind = "agent" \/ admitted[i].by = admitted[j].by
        => i = j

\* No lease comes from beyond the sockets, and a mapped uid with configured
\* scopes holds no scope beyond them.
LeasesAreLocal ==
    \A n \in 1..Len(leases) :
        LET l == leases[n] IN
        /\ l.conn.via # "tls"
        /\ l.conn.uid \in DOMAIN Mapped => l.principal = Mapped[l.conn.uid].principal
        /\ l.conn.uid \in DOMAIN Mapped /\ Mapped[l.conn.uid].scopes # {}
              => l.scopes \subseteq Mapped[l.conn.uid].scopes

\* The authentication layer admits what it should, and nothing else.
AuthSafe == AuthTypeOK /\ AdmittedIsSigned /\ CacheIsSound /\ ProofOnce /\ LeasesAreLocal

\* An operator's proof is admitted once, restarts included (operator.rs:16-19).
OperatorProofOnce ==
    \A i, j \in 1..Len(admitted) : admitted[i].proof = admitted[j].proof => i = j

\* An outage of the replay cache is answered as transient (auth.rs:44).
OutageIsTransient ==
    \A r \in Callers : call[r].at = "done" =>
        (call[r].code = "replay_unavailable" => call[r].status = 503)

\* Each uid gets only its configured scopes (peercred.rs:34).
ScopesWithinConfigured ==
    \A n \in 1..Len(leases) :
        leases[n].conn.uid \in DOMAIN Mapped
            => leases[n].scopes \subseteq Mapped[leases[n].conn.uid].scopes
=============================================================================
