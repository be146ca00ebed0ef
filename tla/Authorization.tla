---------------------------- MODULE Authorization ----------------------------
(***************************************************************************)
(* What stands before the update API: a request is parsed, its token is    *)
(* verified with the issuer's keys and its claims are compared with the    *)
(* body (updateapi.authorizeUpdateRequest, oidc.Verifier.Verify).  The     *)
(* keys come from a cache that requests share (oidc.RemoteJWKSProvider).   *)
(* The cache's mutex is released while the keys are fetched, so fetches    *)
(* overlap and their responses are stored in any order.                    *)
(***************************************************************************)
EXTENDS Integers, FiniteSets

CONSTANTS
    Handlers,       \* goroutines that serve a request each
    Kids,           \* key identifiers; an issuer uses each for one key and never again
    Initial,        \* the keys the issuer serves at first
    Tokens,         \* the requests that come in, with their tokens
    TTL,            \* lifetime of the cache
    Window,         \* how far iat may be from the clock
    MaxTime,        \* bound: last moment of the clock
    MaxRequests,    \* bound: requests in a behaviour
    MaxFaults,      \* bound: fetches that fail
    None

\* What is wrong with a request, by the place that finds it; "time" is found by the clock.
Flaws == {"none", "body", "bearer", "form", "missing", "policy", "mismatch"}
RefusalOf == [flaw \in Flaws \ {"none"} |->
    CASE flaw = "body" -> "REQUEST_SCHEMA_INVALID"
      [] flaw = "bearer" -> "AUTH_REQUIRED"
      [] flaw = "form" -> "AUTH_INVALID_TOKEN"
      [] flaw = "missing" -> "AUTH_INVALID_TOKEN"
      [] flaw = "policy" -> "WORKFLOW_NOT_ALLOWED"
      [] OTHER -> "AUTH_CLAIMS_MISMATCH"]
Answers == {"authorized"} \cup {RefusalOf[flaw] : flaw \in Flaws \ {"none"}}

Times == 0..MaxTime

ASSUME BoundsAssumption ==
    MaxTime \in Nat /\ MaxRequests \in Nat /\ MaxFaults \in Nat /\ TTL \in Nat /\ Window \in Nat
ASSUME KeysAssumption == Initial \subseteq Kids
ASSUME TokensAssumption ==
    \A t \in Tokens :
        /\ t.kid \in Kids /\ t.flaw \in Flaws
        /\ t.iat \in Int /\ t.exp \in Int
ASSUME NoneAssumption ==
    /\ None \notin Tokens /\ (\A set \in SUBSET Kids : None # set) /\ None \notin Answers /\ None \notin Int

VARIABLES
    clock,
    issued, retired,    \* key -> when the issuer began and ceased to serve it, or None
    cached, cachedAt,   \* the cached key set and its time, or None and 0
    pc,                 \* handler -> what it does next
    token,              \* handler -> its request, or None
    force,              \* handler -> whether it asks for a refresh
    looked,             \* handler -> when it last looked into the cache
    keys,               \* handler -> the key set it has, or falls back to, or None
    response,           \* handler -> the key set the issuer has sent it, or None
    answer,             \* handler -> what became of the request, or None
    failed,             \* history: handler -> whether a fetch of its own failed
    received, faults

issuer == <<issued, retired>>
cache == <<cached, cachedAt>>
request == <<pc, token, force, looked, keys, response, answer, failed>>
bounds == <<received, faults>>
vars == <<clock, issuer, cache, request, bounds>>

Served == {k \in Kids : issued[k] # None /\ retired[k] = None}

KeySets == SUBSET Kids

TypeOK ==
    /\ clock \in Times
    /\ issued \in [Kids -> Times \cup {None}]
    /\ retired \in [Kids -> Times \cup {None}]
    /\ cached \in {None} \cup KeySets
    /\ cachedAt \in Times
    /\ pc \in [Handlers -> {"idle", "lookup", "fetch", "store"}]
    /\ token \in [Handlers -> Tokens \cup {None}]
    /\ force \in [Handlers -> BOOLEAN]
    /\ looked \in [Handlers -> Times]
    /\ keys \in [Handlers -> {None} \cup KeySets]
    /\ response \in [Handlers -> {None} \cup KeySets]
    /\ answer \in [Handlers -> Answers \cup {None}]
    /\ failed \in [Handlers -> BOOLEAN]
    /\ received \in Nat /\ faults \in Nat
    /\ \A h \in Handlers :
        /\ pc[h] # "idle" \/ answer[h] # None => token[h] # None
        /\ pc[h] = "store" <=> response[h] # None
        /\ pc[h] # "idle" => answer[h] = None

Init ==
    /\ clock = 0
    /\ issued = [k \in Kids |-> IF k \in Initial THEN 0 ELSE None]
    /\ retired = [k \in Kids |-> None]
    /\ cached = None
    /\ cachedAt = 0
    /\ pc = [h \in Handlers |-> "idle"]
    /\ token = [h \in Handlers |-> None]
    /\ force = [h \in Handlers |-> FALSE]
    /\ looked = [h \in Handlers |-> 0]
    /\ keys = [h \in Handlers |-> None]
    /\ response = [h \in Handlers |-> None]
    /\ answer = [h \in Handlers |-> None]
    /\ failed = [h \in Handlers |-> FALSE]
    /\ received = 0 /\ faults = 0

-----------------------------------------------------------------------------
(* The world: time passes, and the issuer rotates its keys. *)

Tick ==
    /\ clock < MaxTime
    /\ clock' = clock + 1
    /\ UNCHANGED <<issuer, cache, request, bounds>>

Issue(k) ==
    /\ issued[k] = None
    /\ issued' = [issued EXCEPT ![k] = clock]
    /\ UNCHANGED <<clock, retired, cache, request, bounds>>

Retire(k) ==
    /\ k \in Served
    /\ retired' = [retired EXCEPT ![k] = clock]
    /\ UNCHANGED <<clock, issued, cache, request, bounds>>

-----------------------------------------------------------------------------
(* One request. *)

Goto(h, step) == pc' = [pc EXCEPT ![h] = step]

Conclude(h, value) ==
    /\ answer' = [answer EXCEPT ![h] = value]
    /\ Goto(h, "idle")

TimeClaimsValid(t) ==
    t.exp > clock /\ t.iat >= clock - Window /\ t.iat <= clock + Window

\* Body, header, the token's form, issuer and audience, and its times are checked
\* before any key is looked up.
Receive(h, t) ==
    /\ pc[h] = "idle"
    /\ received < MaxRequests
    /\ received' = received + 1
    /\ token' = [token EXCEPT ![h] = t]
    /\ keys' = [keys EXCEPT ![h] = None]
    /\ failed' = [failed EXCEPT ![h] = FALSE]
    /\ IF t.flaw \in {"body", "bearer", "form"}
       THEN Conclude(h, RefusalOf[t.flaw])
       ELSE IF ~TimeClaimsValid(t)
            THEN Conclude(h, "AUTH_INVALID_TOKEN")
            ELSE Goto(h, "lookup") /\ answer' = [answer EXCEPT ![h] = None]
    /\ looked' = [looked EXCEPT ![h] = 0]
    /\ UNCHANGED <<clock, issuer, cache, force, response, faults>>

\* Mutant of SignatureValid: every signature is taken for good.
SignatureUnchecked(t, set) == t.kid \in set

\* The key is in the set and made the signature.
SignatureValid(t, set) == t.kid \in set /\ t.signer = t.kid

\* Key and signature, then the claims: complete, allowed by policy, those of the body.
Verdict(t, set) ==
    IF ~SignatureValid(t, set) THEN "AUTH_INVALID_TOKEN"
    ELSE IF t.flaw = "none" THEN "authorized"
    ELSE RefusalOf[t.flaw]

\* Mutant of Judge: a key that is not in the set is not asked for again.
JudgeWithoutRefresh(h, set) ==
    /\ keys' = [keys EXCEPT ![h] = set]
    /\ Conclude(h, Verdict(token[h], set))
    /\ force' = [force EXCEPT ![h] = FALSE]

\* What a request does with a key set.  A key that is not in it may be newer than the
\* set: the keys are fetched anew, once.
Judge(h, set) ==
    /\ keys' = [keys EXCEPT ![h] = set]
    /\ IF token[h].kid \notin set /\ ~force[h]
       THEN force' = [force EXCEPT ![h] = TRUE] /\ Goto(h, "lookup") /\ UNCHANGED answer
       ELSE Conclude(h, Verdict(token[h], set)) /\ force' = [force EXCEPT ![h] = FALSE]

CacheValid == clock - cachedAt < TTL

\* keySet's first critical section.  The cached set is used at once, or else is what
\* the handler may fall back to.
Lookup(h) ==
    /\ pc[h] = "lookup"
    /\ looked' = [looked EXCEPT ![h] = clock]
    /\ IF ~force[h] /\ cached # None /\ CacheValid
       THEN Judge(h, cached)
       ELSE /\ keys' = [keys EXCEPT ![h] = cached]
            /\ Goto(h, "fetch")
            /\ UNCHANGED <<force, answer>>
    /\ UNCHANGED <<clock, issuer, cache, token, response, failed, bounds>>

\* The issuer answers the request for its keys.
Respond(h) ==
    /\ pc[h] = "fetch"
    /\ response' = [response EXCEPT ![h] = Served]
    /\ Goto(h, "store")
    /\ UNCHANGED <<clock, issuer, cache, token, force, looked, keys, answer, failed, bounds>>

\* Mutant of FetchFails: the set that is fallen back to is cached as a fresh one.
FetchFailsRenewing(h) ==
    /\ pc[h] = "fetch"
    /\ faults < MaxFaults
    /\ faults' = faults + 1
    /\ failed' = [failed EXCEPT ![h] = TRUE]
    /\ cachedAt' = looked[h]
    /\ IF keys[h] # None
       THEN Judge(h, keys[h])
       ELSE Conclude(h, "AUTH_INVALID_TOKEN") /\ UNCHANGED <<keys, force>>
    /\ UNCHANGED <<clock, issuer, cached, token, looked, response, received>>

\* No answer in time, another status or no JSON: the set found at the lookup is used
\* however old it is, and the request is refused if there was none.
FetchFails(h) ==
    /\ pc[h] = "fetch"
    /\ faults < MaxFaults
    /\ faults' = faults + 1
    /\ failed' = [failed EXCEPT ![h] = TRUE]
    /\ IF keys[h] # None
       THEN Judge(h, keys[h])
       ELSE Conclude(h, "AUTH_INVALID_TOKEN") /\ UNCHANGED <<keys, force>>
    /\ UNCHANGED <<clock, issuer, cache, token, looked, response, received>>

\* Mutant of Store: the time of the response is stored, not that of the lookup.
StoreStampedLate(h) ==
    /\ pc[h] = "store"
    /\ cached' = response[h]
    /\ cachedAt' = clock
    /\ response' = [response EXCEPT ![h] = None]
    /\ Judge(h, response[h])
    /\ UNCHANGED <<clock, issuer, token, looked, failed, bounds>>

\* Mutant of Store: a response is left behind for the handler's next request.
StoreKeepsResponse(h) ==
    /\ pc[h] = "store"
    /\ cached' = response[h]
    /\ cachedAt' = looked[h]
    /\ Judge(h, response[h])
    /\ UNCHANGED <<clock, issuer, token, looked, response, failed, bounds>>

\* keySet's second critical section: the response replaces whatever is cached, a
\* newer response included.
Store(h) ==
    /\ pc[h] = "store"
    /\ cached' = response[h]
    /\ cachedAt' = looked[h]
    /\ response' = [response EXCEPT ![h] = None]
    /\ Judge(h, response[h])
    /\ UNCHANGED <<clock, issuer, token, looked, failed, bounds>>

-----------------------------------------------------------------------------

HandlerStep(h) == Lookup(h) \/ Respond(h) \/ Store(h)

Next ==
    \/ Tick
    \/ \E k \in Kids : Issue(k) \/ Retire(k)
    \/ \E h \in Handlers :
        \/ \E t \in Tokens : Receive(h, t)
        \/ HandlerStep(h) \/ FetchFails(h)

Spec == Init /\ [][Next]_vars

-----------------------------------------------------------------------------

\* The cache holds what the issuer served at one moment, and that moment is not
\* before the cache's time, however fetches overlap and fail.
ServedSince(set, time) ==
    \A k \in Kids :
        IF k \in set
        THEN issued[k] # None /\ (retired[k] = None \/ retired[k] >= time)
        ELSE ~(issued[k] # None /\ issued[k] < time /\ retired[k] = None)

CacheHonest == cached # None => ServedSince(cached, cachedAt)

\* Unless a fetch of the request itself failed, a key stops being accepted within the
\* cache's lifetime after the issuer has retired it (security-oidc.md:15).
RetiredKeysExpire ==
    \A h \in Handlers :
        LET k == token[h].kid IN
        answer[h] = "authorized" /\ ~failed[h] =>
            retired[k] = None \/ looked[h] <= retired[k] \/ looked[h] - retired[k] < TTL

\* A token is not refused for its key if the issuer has served that key since before
\* the last lookup, whatever the cache holds, unless a fetch of the request failed.
CurrentKeyFound ==
    \A h \in Handlers :
        LET k == token[h].kid IN
        answer[h] = "AUTH_INVALID_TOKEN" /\ keys[h] # None /\ k \notin keys[h] /\ ~failed[h] =>
            issued[k] = None \/ issued[k] >= looked[h] \/ retired[k] # None

\* Claims are looked at only behind the signature: a request is authorized, or refused
\* for what its claims say, only if its token is signed with the key it names and the
\* issuer has served that key.
OnlySigned ==
    \A h \in Handlers :
        LET t == token[h] IN
        answer[h] \in {"authorized", "WORKFLOW_NOT_ALLOWED", "AUTH_CLAIMS_MISMATCH"} =>
            t.signer = t.kid /\ issued[t.kid] # None
=============================================================================
