------------------------- MODULE AuthorizationProofs -------------------------
(***************************************************************************)
(* Theorems about Authorization, for every number of requests, keys and    *)
(* every lifetime of the cache.                                            *)
(***************************************************************************)
EXTENDS Authorization, TLAPS

\* A verdict is one of the answers, and is favourable or about the claims only with a
\* key of the set that made the signature.
LEMMA Verdicts ==
    ASSUME NEW t \in Tokens, NEW set
    PROVE  /\ Verdict(t, set) \in Answers
           /\ Verdict(t, set) \in {"authorized", "WORKFLOW_NOT_ALLOWED", "AUTH_CLAIMS_MISMATCH"}
                => t.kid \in set /\ t.signer = t.kid
BY TokensAssumption DEF Verdict, SignatureValid, Answers, RefusalOf, Flaws

\* What Receive answers without a key says nothing about claims.
LEMMA EarlyRefusals ==
    ASSUME NEW flaw \in {"body", "bearer", "form"}
    PROVE  /\ RefusalOf[flaw] \in Answers
           /\ RefusalOf[flaw] \notin {"authorized", "WORKFLOW_NOT_ALLOWED", "AUTH_CLAIMS_MISMATCH"}
BY DEF RefusalOf, Flaws, Answers

LEMMA InvalidTokenIsAnswer == "AUTH_INVALID_TOKEN" \in Answers
<1>1. RefusalOf["form"] = "AUTH_INVALID_TOKEN" /\ "form" \in Flaws \ {"none"}
    BY DEF RefusalOf, Flaws
<1> QED BY <1>1 DEF Answers

LEMMA AnswersInUse == {"authorized", "WORKFLOW_NOT_ALLOWED", "AUTH_CLAIMS_MISMATCH"} \subseteq Answers
<1>1. RefusalOf["policy"] = "WORKFLOW_NOT_ALLOWED" /\ "policy" \in Flaws \ {"none"}
    BY DEF RefusalOf, Flaws
<1>2. RefusalOf["mismatch"] = "AUTH_CLAIMS_MISMATCH" /\ "mismatch" \in Flaws \ {"none"}
    BY DEF RefusalOf, Flaws
<1> QED BY <1>1, <1>2 DEF Answers

-----------------------------------------------------------------------------

LEMMA InitTypeOK == Init => TypeOK
BY BoundsAssumption, KeysAssumption DEF Init, TypeOK, Times, KeySets

LEMMA JudgeTypeOK ==
    ASSUME TypeOK, NEW h \in Handlers, NEW set \in KeySets, Judge(h, set),
           pc[h] # "idle"
    PROVE  /\ keys' \in [Handlers -> {None} \cup KeySets]
           /\ force' \in [Handlers -> BOOLEAN]
           /\ pc' \in [Handlers -> {"idle", "lookup", "fetch", "store"}]
           /\ answer' \in [Handlers -> Answers \cup {None}]
           /\ \A i \in Handlers : i # h => pc'[i] = pc[i] /\ answer'[i] = answer[i]
           /\ pc'[h] \in {"idle", "lookup"}
           /\ pc'[h] # "idle" => answer'[h] = None
<1>1. token[h] \in Tokens BY DEF TypeOK
<1>2. Verdict(token[h], set) \in Answers BY <1>1, Verdicts
<1> QED BY <1>2, ZenonT(60) DEF TypeOK, Judge, Conclude, Goto

LEMMA NextTypeOK == TypeOK /\ [Next]_vars => TypeOK'
<1> SUFFICES ASSUME TypeOK, [Next]_vars PROVE TypeOK' OBVIOUS
<1>1. CASE Tick
    BY <1>1, BoundsAssumption DEF Tick, TypeOK, Times, issuer, cache, request, bounds
<1>2. ASSUME NEW k \in Kids, Issue(k) PROVE TypeOK'
    BY <1>2 DEF Issue, TypeOK, cache, request, bounds
<1>3. ASSUME NEW k \in Kids, Retire(k) PROVE TypeOK'
    BY <1>3 DEF Retire, TypeOK, cache, request, bounds
<1>4. ASSUME NEW h \in Handlers, NEW t \in Tokens, Receive(h, t) PROVE TypeOK'
    <2>1. pc[h] = "idle" /\ response[h] = None
        BY <1>4 DEF Receive, TypeOK
    <2>2. CASE t.flaw \in {"body", "bearer", "form"}
        BY <1>4, <2>1, <2>2, EarlyRefusals, NoneAssumption, BoundsAssumption
        DEF Receive, Conclude, Goto, TypeOK, issuer, cache, Times
    <2>3. CASE t.flaw \notin {"body", "bearer", "form"}
        BY <1>4, <2>1, <2>3, InvalidTokenIsAnswer, NoneAssumption, BoundsAssumption
        DEF Receive, Conclude, Goto, TypeOK, issuer, cache, Times
    <2> QED BY <2>2, <2>3
<1>5. ASSUME NEW h \in Handlers, Lookup(h) PROVE TypeOK'
    <2>1. CASE ~force[h] /\ cached # None /\ CacheValid
        <3>1. cached \in KeySets BY <2>1 DEF TypeOK
        <3>2. Judge(h, cached) BY <1>5, <2>1 DEF Lookup
        <3> QED BY <1>5, <3>1, <3>2, JudgeTypeOK
            DEF Lookup, TypeOK, issuer, cache, bounds
    <2>2. CASE ~(~force[h] /\ cached # None /\ CacheValid)
        BY <1>5, <2>2 DEF Lookup, Goto, TypeOK, issuer, cache, bounds
    <2> QED BY <2>1, <2>2
<1>6. ASSUME NEW h \in Handlers, Respond(h) PROVE TypeOK'
    BY <1>6, NoneAssumption DEF Respond, Served, KeySets, Goto, TypeOK, issuer, cache, bounds
<1>7. ASSUME NEW h \in Handlers, Store(h) PROVE TypeOK'
    <2>1. response[h] \in KeySets BY <1>7 DEF Store, TypeOK
    <2> QED BY <1>7, <2>1, JudgeTypeOK DEF Store, TypeOK, issuer, bounds
<1>8. ASSUME NEW h \in Handlers, FetchFails(h) PROVE TypeOK'
    <2>1. CASE keys[h] # None
        <3>1. keys[h] \in KeySets BY <2>1 DEF TypeOK
        <3>2. Judge(h, keys[h]) BY <1>8, <2>1 DEF FetchFails
        <3> QED BY <1>8, <3>1, <3>2, JudgeTypeOK
            DEF FetchFails, TypeOK, issuer, cache
    <2>2. CASE keys[h] = None
        BY <1>8, <2>2, InvalidTokenIsAnswer DEF FetchFails, Conclude, Goto, TypeOK, issuer, cache
    <2> QED BY <2>1, <2>2
<1>9. CASE UNCHANGED vars
    BY <1>9 DEF vars, TypeOK, issuer, cache, request, bounds
<1> QED BY <1>1, <1>2, <1>3, <1>4, <1>5, <1>6, <1>7, <1>8, <1>9 DEF Next, HandlerStep

\* The variables always have the values their comments say.
THEOREM AuthorizationTypeCorrect == Spec => []TypeOK
<1> QED BY InitTypeOK, NextTypeOK, PTL DEF Spec

-----------------------------------------------------------------------------
(* The inductive invariant: what every key set in use says of the issuer. *)

\* Nothing has a time in the future, and a key is retired only after its issue.
TimesOrdered ==
    /\ cachedAt <= clock
    /\ \A k \in Kids :
        /\ issued[k] # None => issued[k] <= clock
        /\ retired[k] # None => issued[k] # None /\ retired[k] <= clock
    /\ \A h \in Handlers : looked[h] <= clock

\* A response on its way was served after the lookup that led to it.
ResponsesHonest ==
    \A h \in Handlers : response[h] # None => ServedSince(response[h], looked[h])

\* A handler never has a key that the issuer did not serve.
KeysWereServed ==
    \A h \in Handlers : keys[h] # None => \A k \in keys[h] : issued[k] # None

IInv ==
    /\ TypeOK /\ TimesOrdered /\ CacheHonest /\ ResponsesHonest /\ KeysWereServed
    /\ RetiredKeysExpire /\ CurrentKeyFound /\ OnlySigned

\* The properties of one handler's answer.
AnswerRight(h) ==
    LET t == token[h] k == token[h].kid IN
    /\ answer[h] = "authorized" /\ ~failed[h] =>
           retired[k] = None \/ looked[h] <= retired[k] \/ looked[h] - retired[k] < TTL
    /\ answer[h] = "AUTH_INVALID_TOKEN" /\ keys[h] # None /\ k \notin keys[h] /\ ~failed[h] =>
           issued[k] = None \/ issued[k] >= looked[h] \/ retired[k] # None
    /\ answer[h] \in {"authorized", "WORKFLOW_NOT_ALLOWED", "AUTH_CLAIMS_MISMATCH"} =>
           t.signer = t.kid /\ issued[t.kid] # None

LEMMA AnswersRight ==
    (\A h \in Handlers : AnswerRight(h)) <=> RetiredKeysExpire /\ CurrentKeyFound /\ OnlySigned
BY DEF AnswerRight, RetiredKeysExpire, CurrentKeyFound, OnlySigned

LEMMA AnswersRightNext ==
    (\A h \in Handlers : AnswerRight(h)') => (RetiredKeysExpire /\ CurrentKeyFound /\ OnlySigned)'
BY DEF AnswerRight, RetiredKeysExpire, CurrentKeyFound, OnlySigned

LEMMA InitIInv == Init => IInv
<1> SUFFICES ASSUME Init PROVE IInv OBVIOUS
<1>1. TypeOK BY InitTypeOK
<1>2. \A h \in Handlers : answer[h] = None /\ response[h] = None /\ keys[h] = None
    BY DEF Init
<1>3. TimesOrdered BY <1>1, BoundsAssumption, NoneAssumption DEF Init, TimesOrdered
<1>4. CacheHonest BY DEF Init, CacheHonest
<1>5. RetiredKeysExpire /\ CurrentKeyFound /\ OnlySigned
    BY <1>2, NoneAssumption, InvalidTokenIsAnswer, AnswersInUse
    DEF RetiredKeysExpire, CurrentKeyFound, OnlySigned
<1> QED BY <1>1, <1>2, <1>3, <1>4, <1>5 DEF IInv, ResponsesHonest, KeysWereServed

\* Time and the issuer go on: what was true of a served set stays true of it.
LEMMA ServedSinceStays ==
    ASSUME TypeOK, TimesOrdered, Tick \/ (\E k \in Kids : Issue(k) \/ Retire(k)),
           NEW set, NEW time \in Times, time <= clock, ServedSince(set, time)
    PROVE  ServedSince(set, time)'
<1>1. CASE Tick
    BY <1>1 DEF Tick, issuer, ServedSince
<1>2. ASSUME NEW k \in Kids, Issue(k) PROVE ServedSince(set, time)'
    BY <1>2, NoneAssumption DEF Issue, ServedSince, TypeOK, Times, TimesOrdered
<1>3. ASSUME NEW k \in Kids, Retire(k) PROVE ServedSince(set, time)'
    BY <1>3, NoneAssumption DEF Retire, Served, ServedSince, TypeOK, Times, TimesOrdered
<1> QED BY <1>1, <1>2, <1>3

LEMMA WorldKeepsIInv ==
    ASSUME IInv, Tick \/ (\E k \in Kids : Issue(k) \/ Retire(k))
    PROVE  IInv'
<1>1. TypeOK'
    BY NextTypeOK DEF IInv, Next
<1>2. UNCHANGED <<cache, request, bounds>>
    BY DEF Tick, Issue, Retire
<1> USE <1>1, <1>2 DEF cache, request, bounds
<1>3. clock' >= clock /\ clock' \in Times /\ clock \in Times
    BY BoundsAssumption DEF IInv, TypeOK, Tick, Issue, Retire, Times
<1>4. \A k \in Kids :
        /\ issued[k] # None => issued'[k] = issued[k]
        /\ issued[k] = None => issued'[k] = None \/ issued'[k] = clock
        /\ retired[k] # None => retired'[k] = retired[k]
        /\ retired[k] = None => retired'[k] = None \/ (retired'[k] = clock /\ issued[k] # None)
    BY DEF IInv, TypeOK, Tick, Issue, Retire, Served, issuer
<1>5. TimesOrdered'
    BY <1>3, <1>4, NoneAssumption DEF IInv, TypeOK, TimesOrdered, Times
<1>6. CacheHonest'
    BY ServedSinceStays DEF IInv, CacheHonest, TypeOK, TimesOrdered, ServedSince
<1>7. ResponsesHonest'
    <2> SUFFICES ASSUME NEW h \in Handlers, response[h] # None
                 PROVE  ServedSince(response[h], looked[h])'
        BY DEF ResponsesHonest
    <2>1. ServedSince(response[h], looked[h]) /\ looked[h] \in Times /\ looked[h] <= clock
        BY DEF IInv, ResponsesHonest, TypeOK, TimesOrdered
    <2> QED BY <2>1, <1>3, <1>4, NoneAssumption DEF ServedSince, Times
<1>8. KeysWereServed'
    BY <1>4 DEF IInv, KeysWereServed, TypeOK, KeySets
<1>9. ASSUME NEW h \in Handlers PROVE AnswerRight(h)'
    <2>1. AnswerRight(h) BY AnswersRight DEF IInv
    <2>2. CASE answer[h] = None
        BY <2>2, NoneAssumption, AnswersInUse, InvalidTokenIsAnswer DEF AnswerRight
    <2>3. CASE answer[h] # None
        <3>1. token[h].kid \in Kids
            BY <2>3, TokensAssumption DEF IInv, TypeOK
        <3>2. looked[h] \in Times /\ looked[h] <= clock
            BY DEF IInv, TypeOK, TimesOrdered
        <3> QED BY <2>1, <3>1, <3>2, <1>3, <1>4, NoneAssumption DEF AnswerRight, Times
    <2> QED BY <2>2, <2>3
<1> QED BY <1>5, <1>6, <1>7, <1>8, <1>9, AnswersRightNext DEF IInv

-----------------------------------------------------------------------------

\* The set a handler judges is honest at the time of its lookup, or it is the cached set,
\* which is young enough and used only if it has the key, or a fetch has failed.
LEMMA JudgeRight ==
    ASSUME IInv, NEW h \in Handlers, NEW set \in KeySets, Judge(h, set),
           pc[h] # "idle", UNCHANGED <<token, issuer>>,
           \A k \in set : issued[k] # None,
           looked'[h] \in Times,
           \/ ServedSince(set, looked'[h])
           \/ ServedSince(set, cachedAt) /\ looked'[h] - cachedAt < TTL /\ ~force[h]
           \/ failed'[h]
    PROVE  AnswerRight(h)'
<1>1. token[h] \in Tokens /\ token[h].kid \in Kids
    BY TokensAssumption DEF IInv, TypeOK
<1>2. CASE token[h].kid \notin set /\ ~force[h]
    <2>1. answer'[h] = None BY <1>2 DEF Judge, IInv, TypeOK
    <2> QED BY <2>1, NoneAssumption, AnswersInUse, InvalidTokenIsAnswer DEF AnswerRight
<1>3. CASE ~(token[h].kid \notin set /\ ~force[h])
    <2>1. answer'[h] = Verdict(token[h], set) /\ keys'[h] = set
        BY <1>3 DEF Judge, Conclude, IInv, TypeOK
    <2>2. retired[token[h].kid] = None \/ retired[token[h].kid] \in Times
        BY <1>1 DEF IInv, TypeOK
    <2>3. issued[token[h].kid] = None \/ issued[token[h].kid] \in Times
        BY <1>1 DEF IInv, TypeOK
    <2>4. cachedAt \in Times BY DEF IInv, TypeOK
    <2>5. answer'[h] \in {"authorized", "WORKFLOW_NOT_ALLOWED", "AUTH_CLAIMS_MISMATCH"}
            => token[h].kid \in set /\ token[h].signer = token[h].kid
        BY <1>1, <2>1, Verdicts
    <2> QED BY <1>1, <1>3, <2>1, <2>2, <2>3, <2>4, <2>5, NoneAssumption, BoundsAssumption
        DEF AnswerRight, ServedSince, Times, issuer
<1> QED BY <1>2, <1>3

\* A step of one handler leaves what it judged to it, and the answers of the others.
LEMMA OthersRight ==
    ASSUME IInv, NEW h \in Handlers, NEW i \in Handlers, i # h, UNCHANGED issuer,
           token'[i] = token[i], answer'[i] = answer[i], failed'[i] = failed[i],
           looked'[i] = looked[i], keys'[i] = keys[i]
    PROVE  AnswerRight(i)'
BY AnswersRight DEF IInv, AnswerRight, issuer

LEMMA JudgeOthers ==
    ASSUME TypeOK, NEW h \in Handlers, NEW i \in Handlers, i # h, NEW set, Judge(h, set)
    PROVE  answer'[i] = answer[i] /\ keys'[i] = keys[i]
BY DEF TypeOK, Judge, Conclude

LEMMA HandlerKeepsIInv ==
    ASSUME IInv, NEW h \in Handlers, HandlerStep(h) \/ FetchFails(h) \/ \E t \in Tokens : Receive(h, t)
    PROVE  IInv'
<1>1. TypeOK /\ TypeOK'
    BY NextTypeOK DEF IInv, Next
<1>2. UNCHANGED <<clock, issuer>>
    BY DEF HandlerStep, Lookup, Respond, Store, FetchFails, Receive
<1>3. CASE Lookup(h)
    <2>1. TimesOrdered' /\ CacheHonest' /\ ResponsesHonest'
        BY <1>1, <1>2, <1>3 DEF Lookup, IInv, TypeOK, TimesOrdered, CacheHonest, ResponsesHonest,
           ServedSince, issuer, cache, Times
    <2>2. CASE ~force[h] /\ cached # None /\ CacheValid
        <3>1. Judge(h, cached) /\ cached \in KeySets BY <1>1, <1>3, <2>2 DEF Lookup, TypeOK
        <3>2. \A k \in cached : issued[k] # None
            BY <2>2, <3>1 DEF IInv, CacheHonest, ServedSince, KeySets
        <3>3. looked'[h] = clock /\ clock \in Times BY <1>1, <1>3 DEF Lookup, TypeOK
        <3>4. AnswerRight(h)'
            BY <1>3, <2>2, <3>1, <3>2, <3>3, JudgeRight
            DEF Lookup, CacheValid, IInv, CacheHonest
        <3>5. ASSUME NEW i \in Handlers, i # h PROVE AnswerRight(i)'
            <4>1. token'[i] = token[i] /\ failed'[i] = failed[i] /\ looked'[i] = looked[i]
                BY <1>1, <1>3, <3>5 DEF Lookup, TypeOK
            <4>2. answer'[i] = answer[i] /\ keys'[i] = keys[i]
                BY <1>1, <3>1, <3>5, JudgeOthers
            <4> QED BY <1>2, <3>5, <4>1, <4>2, OthersRight
        <3>6. KeysWereServed'
            BY <1>1, <1>2, <3>1, <3>2 DEF Judge, IInv, KeysWereServed, TypeOK, issuer
        <3> QED BY <1>1, <2>1, <3>4, <3>5, <3>6, AnswersRightNext DEF IInv
    <2>3. CASE ~(~force[h] /\ cached # None /\ CacheValid)
        <3>1. AnswerRight(h)'
            <4>1. answer'[h] = None BY <1>1, <1>3, <2>3 DEF Lookup, TypeOK
            <4> QED BY <4>1, NoneAssumption, AnswersInUse, InvalidTokenIsAnswer DEF AnswerRight
        <3>2. ASSUME NEW i \in Handlers, i # h PROVE AnswerRight(i)'
            BY <1>1, <1>3, <2>3, <3>2, OthersRight DEF Lookup, TypeOK
        <3>3. KeysWereServed'
            BY <1>1, <1>2, <1>3, <2>3 DEF Lookup, IInv, KeysWereServed, TypeOK, issuer,
               CacheHonest, ServedSince, KeySets
        <3> QED BY <1>1, <2>1, <3>1, <3>2, <3>3, AnswersRightNext DEF IInv
    <2> QED BY <2>2, <2>3
<1>4. CASE Respond(h)
    <2>1. ServedSince(Served, looked[h])
        BY <1>1, NoneAssumption DEF Served, ServedSince, TypeOK
    <2>2. response' = [response EXCEPT ![h] = Served] /\ UNCHANGED <<looked, keys, cache>>
        BY <1>4 DEF Respond
    <2>3. ResponsesHonest'
        BY <1>1, <1>2, <2>1, <2>2 DEF IInv, ResponsesHonest, ServedSince, TypeOK, issuer
    <2>4. TimesOrdered' /\ CacheHonest' /\ KeysWereServed'
        BY <1>2, <2>2 DEF IInv, TimesOrdered, CacheHonest, KeysWereServed, ServedSince, issuer, cache
    <2>5. RetiredKeysExpire' /\ CurrentKeyFound' /\ OnlySigned'
        BY <1>2, <1>4 DEF Respond, IInv, RetiredKeysExpire, CurrentKeyFound, OnlySigned, issuer
    <2> QED BY <1>1, <2>3, <2>4, <2>5 DEF IInv
<1>5. CASE Store(h)
    <2>1. response[h] \in KeySets /\ ServedSince(response[h], looked[h]) /\ Judge(h, response[h])
        BY <1>1, <1>5 DEF Store, IInv, ResponsesHonest, TypeOK
    <2>2. \A k \in response[h] : issued[k] # None
        BY <2>1 DEF ServedSince, KeySets
    <2>3. UNCHANGED <<looked, token, failed>> BY <1>5 DEF Store
    <2>4. AnswerRight(h)'
        BY <1>1, <1>2, <1>5, <2>1, <2>2, <2>3, JudgeRight DEF Store, TypeOK
    <2>5. ASSUME NEW i \in Handlers, i # h PROVE AnswerRight(i)'
        <3>1. answer'[i] = answer[i] /\ keys'[i] = keys[i]
            BY <1>1, <2>1, <2>5, JudgeOthers
        <3> QED BY <1>2, <2>3, <2>5, <3>1, OthersRight
    <2>6. KeysWereServed'
        BY <1>1, <1>2, <2>1, <2>2 DEF Judge, IInv, KeysWereServed, TypeOK, issuer
    <2>7. TimesOrdered'
        BY <1>1, <1>2, <1>5 DEF Store, IInv, TypeOK, TimesOrdered, issuer
    <2>8. CacheHonest'
        BY <1>2, <1>5, <2>1 DEF Store, CacheHonest, ServedSince, issuer
    <2>9. ResponsesHonest'
        BY <1>1, <1>2, <1>5 DEF Store, IInv, ResponsesHonest, ServedSince, TypeOK, issuer
    <2> QED BY <1>1, <2>4, <2>5, <2>6, <2>7, <2>8, <2>9, AnswersRightNext DEF IInv
<1>6. CASE FetchFails(h)
    <2>1. TimesOrdered' /\ CacheHonest' /\ ResponsesHonest'
        BY <1>1, <1>2, <1>6 DEF FetchFails, IInv, TypeOK, TimesOrdered, CacheHonest, ResponsesHonest,
           ServedSince, issuer, cache
    <2>2. failed'[h] = TRUE /\ looked'[h] \in Times /\ UNCHANGED <<token, looked>>
        BY <1>1, <1>6 DEF FetchFails, TypeOK
    <2>3. CASE keys[h] # None
        <3>1. keys[h] \in KeySets /\ Judge(h, keys[h])
            BY <1>1, <1>6, <2>3 DEF FetchFails, TypeOK
        <3>2. AnswerRight(h)'
            BY <1>2, <1>6, <2>2, <2>3, <3>1, JudgeRight DEF IInv, KeysWereServed, FetchFails
        <3>3. ASSUME NEW i \in Handlers, i # h PROVE AnswerRight(i)'
            <4>1. answer'[i] = answer[i] /\ keys'[i] = keys[i]
                BY <1>1, <3>1, <3>3, JudgeOthers
            <4>2. failed'[i] = failed[i]
                BY <1>1, <1>6, <3>3 DEF FetchFails, TypeOK
            <4> QED BY <1>2, <2>2, <3>3, <4>1, <4>2, OthersRight
        <3>4. KeysWereServed'
            BY <1>1, <1>2, <2>3, <3>1 DEF Judge, IInv, KeysWereServed, TypeOK, issuer
        <3> QED BY <1>1, <2>1, <3>2, <3>3, <3>4, AnswersRightNext DEF IInv
    <2>4. CASE keys[h] = None
        <3>1. UNCHANGED keys /\ answer' = [answer EXCEPT ![h] = "AUTH_INVALID_TOKEN"]
            BY <1>6, <2>4 DEF FetchFails, Conclude
        <3>2. AnswerRight(h)' BY <1>1, <2>4, <3>1 DEF AnswerRight, TypeOK
        <3>3. ASSUME NEW i \in Handlers, i # h PROVE AnswerRight(i)'
            <4>1. failed'[i] = failed[i] /\ answer'[i] = answer[i] /\ keys'[i] = keys[i]
                BY <1>1, <1>6, <3>1, <3>3 DEF FetchFails, TypeOK
            <4> QED BY <1>2, <2>2, <3>3, <4>1, OthersRight
        <3>4. KeysWereServed' BY <1>2, <3>1 DEF IInv, KeysWereServed, issuer
        <3> QED BY <1>1, <2>1, <3>2, <3>3, <3>4, AnswersRightNext DEF IInv
    <2> QED BY <2>3, <2>4
<1>7. ASSUME NEW t \in Tokens, Receive(h, t) PROVE IInv'
    <2>1. keys'[h] = None /\ answer'[h] \notin {"authorized", "WORKFLOW_NOT_ALLOWED", "AUTH_CLAIMS_MISMATCH"}
        BY <1>1, <1>7, EarlyRefusals, NoneAssumption, AnswersInUse DEF Receive, Conclude, TypeOK
    <2>2. AnswerRight(h)' BY <2>1 DEF AnswerRight
    <2>3. ASSUME NEW i \in Handlers, i # h PROVE AnswerRight(i)'
        <3>1. token'[i] = token[i] /\ failed'[i] = failed[i] /\ looked'[i] = looked[i] /\ keys'[i] = keys[i]
            BY <1>1, <1>7, <2>3 DEF Receive, TypeOK
        <3>2. answer'[i] = answer[i]
            BY <1>1, <1>7, <2>3 DEF Receive, Conclude, TypeOK
        <3> QED BY <1>2, <2>3, <3>1, <3>2, OthersRight
    <2>4. TimesOrdered' /\ CacheHonest'
        BY <1>1, <1>2, <1>7, BoundsAssumption DEF Receive, IInv, TypeOK, TimesOrdered, CacheHonest,
           ServedSince, issuer, cache, Times
    <2>5. ResponsesHonest'
        BY <1>1, <1>2, <1>7 DEF Receive, IInv, TypeOK, ResponsesHonest, ServedSince, issuer
    <2>6. KeysWereServed'
        BY <1>1, <1>2, <1>7 DEF Receive, IInv, KeysWereServed, TypeOK, issuer
    <2> QED BY <1>1, <2>2, <2>3, <2>4, <2>5, <2>6, AnswersRightNext DEF IInv
<1> QED BY <1>3, <1>4, <1>5, <1>6, <1>7 DEF HandlerStep

LEMMA NextIInv == IInv /\ [Next]_vars => IInv'
<1> SUFFICES ASSUME IInv, [Next]_vars PROVE IInv' OBVIOUS
<1>1. CASE Next
    BY <1>1, WorldKeepsIInv, HandlerKeepsIInv DEF Next
<1>2. CASE UNCHANGED vars
    <2>1. TypeOK' BY NextTypeOK DEF IInv
    <2> QED BY <1>2, <2>1 DEF vars, IInv, TimesOrdered, CacheHonest, ResponsesHonest,
        KeysWereServed, RetiredKeysExpire, CurrentKeyFound, OnlySigned, ServedSince,
        issuer, cache, request, bounds
<1> QED BY <1>1, <1>2

\* Overlapping and failing fetches never make the cache lie about its age: what it holds
\* was served by the issuer at one moment, not before the time it is stored with.
THEOREM CacheIsHonest == Spec => []CacheHonest
<1>1. IInv => CacheHonest BY DEF IInv
<1> QED BY InitIInv, NextIInv, <1>1, PTL DEF Spec

\* A retired key is accepted for less than the lifetime of the cache, but for requests
\* whose own fetch failed.
THEOREM RetiredKeysDoExpire == Spec => []RetiredKeysExpire
<1>1. IInv => RetiredKeysExpire BY DEF IInv
<1> QED BY InitIInv, NextIInv, <1>1, PTL DEF Spec

\* A key that the issuer serves is found, whatever older response has overwritten the cache.
THEOREM CurrentKeysAreFound == Spec => []CurrentKeyFound
<1>1. IInv => CurrentKeyFound BY DEF IInv
<1> QED BY InitIInv, NextIInv, <1>1, PTL DEF Spec

\* Nothing is authorized, or refused for its claims, without a valid signature.
THEOREM ClaimsAreSigned == Spec => []OnlySigned
<1>1. IInv => OnlySigned BY DEF IInv
<1> QED BY InitIInv, NextIInv, <1>1, PTL DEF Spec
=============================================================================
