CONSTANTS
    base = base
    away = away
    d1 = d1
    d2 = d2
    d3 = d3
    k1 = k1
    k2 = k2
    c1 = c1
    c2 = c2
    Nobody = Nobody
    Signers = {d1, d2}
    Checks = {c1, c2}
    MaxIds = 4
    AnswerPlans <- SomeAnswerPlans
    MaxTokens = 9
    BotPlans <- SomeBotPlans
    Queries = {q1, q2, q3}
    SessionPlans <- SomeSessionPlans
    Identities = {k1, k2}
    DidOf <- OwnDids
    Files = {"default", "bob"}
    Repos = {r1, r2}
    Shells = {s1, s2}
    SignPlans <- SomeSignPlans
    First = k1
    MaxTime = 4
    MaxDocs = 2
    DocPlans <- SomeDocPlans
    Jobs = {ja}
    VtcKeys = {k1, k2}
    MaxAge = 1
    Skew = 0
    Retention = 2
    Lifetime = 3
    Pause = 2
    Slow = 1
    Commits = {1, 2, 3}
    OnBranch = {base}
    Elsewhere = {away}
    Dids = {d1, d2, d3}
    Publishes <- Lists
    MaxSigners = 2
    Ranges <- SomeRanges
    Parts = {"range", "answers", "tokens", "session", "signing", "documents"}
SPECIFICATION AllSpec
INVARIANTS TypesOK PassesIffVouched OnTheRegistrysWord BotKeepsItsToken SigningIsAsChosen DocumentsActOnce
PROPERTIES NoStepTooFar TrustEnds
CHECK_DEADLOCK FALSE
