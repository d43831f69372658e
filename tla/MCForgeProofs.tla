---------------------------- MODULE MCForgeProofs ----------------------------
(* The jobs on the forge, for every set of people, repositories, releases    *)
(* and orders, every role map, every bound and every plan of what happens:   *)
(* what MCForge's run checks of its invariants and of what a step may        *)
(* change; and what a role map comes to on a forge (RoleMaps).               *)
(*                                                                           *)
(* A behaviour is of one part, so that each part has an inductive invariant  *)
(* of its own.                                                               *)
(*                                                                           *)
(* ReportInv  a repository with some map's roles is on record as having      *)
(*            them; every copy of a report says of its run what that run's   *)
(*            configuration is; this run's report is with the VTC, in the    *)
(*            outbox or on its way there, with all the configuration made    *)
(*            stale;                                                         *)
(* PullInv    a job about to comment has not, one about to close has, unless *)
(*            the comment was deleted, and one that is not late was issued   *)
(*            after the last reopening;                                      *)
(* RolesInv   nobody is both a member and invited, what a job read of the    *)
(*            forge stands unless somebody moved since, whoever it has come  *)
(*            to has what was asked or is noted as failed, and whoever it    *)
(*            took out is out;                                               *)
(* RepoInv    what each stage has behind it: merging that respects the rule, *)
(*            the workflow's file, a rule to put back; whoever was given a   *)
(*            role is on record or the job is about them; and what was read  *)
(*            stands but for what the job did, if nobody else did anything;  *)
(* OrgInv     a job pins what the bridge rendered; whatever must stay        *)
(*            required is managed, in the store and in memory; and what a    *)
(*            job saw of the ruleset stands while nobody else changed it.    *)
EXTENDS MCForge, FiniteSetTheorems, TLAPS

-----------------------------------------------------------------------------
(* What the parts' constants are.                                           *)

LEMMA BoundsAre ==
    /\ Bounds.org.jobs \in Nat /\ Bounds.org.faults \in Nat /\ Bounds.org.edits \in Nat
    /\ Bounds.roles.jobs \in Nat /\ Bounds.roles.faults \in Nat /\ Bounds.roles.edits \in Nat
    /\ Bounds.pull.jobs \in Nat /\ Bounds.pull.faults \in Nat /\ Bounds.pull.edits \in Nat
  BY BoundsAssumption DEF Limits

LEMMA PullFacts ==
    /\ "none" \notin Orders /\ MaxTime \in Nat \ {0}
    /\ Bounds.pull.faults \in Nat /\ Bounds.pull.edits \in Nat
  BY PullAssumption, BoundsAre

LEMMA RolesFacts ==
    Bounds.roles.jobs \in Nat /\ Bounds.roles.faults \in Nat /\ Bounds.roles.edits \in Nat
  BY BoundsAre

(* No release is numbered as somebody else's workflow or as none.           *)
LEMMA OrgFacts ==
    /\ OrgRepos # {} /\ 1 \in 1..Releases
    /\ Org!NoPin \notin 1..Releases /\ Org!Other \notin 1..Releases
    /\ Bounds.org.jobs \in Nat /\ Bounds.org.faults \in Nat /\ Bounds.org.edits \in Nat
<1>1. Releases \in Nat /\ Releases > 0
  BY OrgAssumption
<1>2. Cardinality(1..Releases) = Releases
  BY <1>1, FS_Interval
<1>3. Org!NoPin = Releases + 1
  <2>1. Org!Cardinality(1..Releases) = Cardinality(1..Releases)
    BY DEF Org!Cardinality, Cardinality
  <2> QED BY <1>2, <2>1 DEF Org!NoPin
<1>4. Org!NoPin \notin 1..Releases /\ Org!Other \notin 1..Releases /\ 1 \in 1..Releases
  BY <1>1, <1>3 DEF Org!Other
<1>5. OrgRepos # {}
  BY OrgAssumption
<1>6. Bounds.org.jobs \in Nat /\ Bounds.org.faults \in Nat /\ Bounds.org.edits \in Nat
  BY BoundsAre
<1> QED BY <1>4, <1>5, <1>6

-----------------------------------------------------------------------------
(* Rounding.                                                                 *)

LEMMA Highest ==
  ASSUME NEW S \in SUBSET ForgeRoles, S # {}
  PROVE  \E l \in S : \A k \in S : k <= l
<1>1. CASE 5 \in S
  BY <1>1 DEF ForgeRoles
<1>2. CASE 5 \notin S /\ 4 \in S
  BY <1>2 DEF ForgeRoles
<1>3. CASE 5 \notin S /\ 4 \notin S /\ 3 \in S
  BY <1>3 DEF ForgeRoles
<1>4. CASE 5 \notin S /\ 4 \notin S /\ 3 \notin S /\ 2 \in S
  BY <1>4 DEF ForgeRoles
<1>5. CASE 5 \notin S /\ 4 \notin S /\ 3 \notin S /\ 2 \notin S
  <2>1. \A k \in S : k = 0 \/ k = 1
    BY <1>5 DEF ForgeRoles
  <2>2. CASE 1 \in S
    BY <2>1, <2>2
  <2>3. CASE 1 \notin S
    BY <2>1, <2>3
  <2> QED
    BY <2>2, <2>3
<1> QED
  BY <1>1, <1>2, <1>3, <1>4, <1>5

LEMMA Rounded ==
  ASSUME NEW ladder \in SUBSET ForgeRoles, NEW asked \in ForgeRoles
  PROVE  /\ Collapse(asked, ladder) \in ladder \cup {0}
         /\ Collapse(asked, ladder) \in ForgeRoles
         /\ Collapse(asked, ladder) <= asked
         /\ \A k \in ladder : k <= asked => k <= Collapse(asked, ladder)
<1> DEFINE S == {l \in ladder \cup {0} : l <= asked}
<1>1. S \in SUBSET ForgeRoles /\ 0 \in S
  <2>1. 0 \in ForgeRoles /\ 0 <= asked
    BY DEF ForgeRoles
  <2> QED
    BY <2>1
<1>2. PICK l \in S : \A k \in S : k <= l
  BY <1>1, Highest
<1>3. /\ l \in ladder \cup {0}
      /\ l <= asked /\ \A k \in ladder : k <= asked => k <= l
  BY <1>2
<1> HIDE DEF S
<1>4. /\ Collapse(asked, ladder) \in ladder \cup {0}
      /\ Collapse(asked, ladder) <= asked
      /\ \A k \in ladder : k <= asked => k <= Collapse(asked, ladder)
  BY <1>3 DEF Collapse
<1>5. ladder \cup {0} \subseteq ForgeRoles
  BY DEF ForgeRoles
<1> QED
  BY <1>4, <1>5

(* A higher role rounds to one no lower.                                     *)
LEMMA RoundedInOrder ==
  ASSUME NEW ladder \in SUBSET ForgeRoles, NEW low \in ForgeRoles, NEW high \in ForgeRoles,
         low <= high
  PROVE  Collapse(low, ladder) <= Collapse(high, ladder)
<1>1. /\ Collapse(low, ladder) \in ladder \cup {0} /\ Collapse(low, ladder) <= low
      /\ Collapse(low, ladder) \in ForgeRoles
  BY Rounded
<1>2. /\ Collapse(high, ladder) \in ForgeRoles
      /\ \A k \in ladder : k <= high => k <= Collapse(high, ladder)
  BY Rounded
<1> QED
  BY <1>1, <1>2 DEF ForgeRoles

LEMMA RoundedToZero ==
  ASSUME NEW ladder \in SUBSET ForgeRoles
  PROVE  Collapse(0, ladder) = 0
BY Rounded DEF ForgeRoles

-----------------------------------------------------------------------------
(* The rights that decide.                                                   *)

LEMMA TierIs ==
  ASSUME NEW granted \in SUBSET Rights
  PROVE  ForgeTier(granted) =
           IF "own" \in granted THEN {"own"}
           ELSE IF "maintain" \in granted THEN {"maintain"} ELSE granted \cap {"commit"}
<1>1. /\ "own" \in Projectable(granted) <=> "own" \in granted
      /\ "maintain" \in Projectable(granted) <=> "own" \in granted \/ "maintain" \in granted
      /\ "commit" \in Projectable(granted)
           <=> "own" \in granted \/ "maintain" \in granted \/ "commit" \in granted
  BY DEF Projectable, Held, Closure, Tiers, Rights
<1> QED
  BY <1>1 DEF ForgeTier, Tier

LEMMA TierOfOne ==
  ASSUME NEW t \in Tiers
  PROVE  ForgeTier({t}) = {t}
BY TierIs DEF Tiers, Rights

LEMMA TierInTiers ==
  ASSUME NEW granted \in SUBSET Rights
  PROVE  ForgeTier(granted) = {} \/ \E t \in Tiers : ForgeTier(granted) = {t}
BY TierIs DEF Tiers

LEMMA RequestedIs ==
  ASSUME NEW m \in Maps, NEW granted \in SUBSET Rights
  PROVE  /\ ForgeTier(granted) = {} => Requested(m, granted) = 0
         /\ \A t \in Tiers : ForgeTier(granted) = {t} => Requested(m, granted) = m[t]
         /\ Requested(m, granted) \in ForgeRoles
<1>1. ForgeTier(granted) = {} => Requested(m, granted) = 0
  BY DEF Requested
<1>2. ASSUME NEW t \in Tiers, ForgeTier(granted) = {t}
      PROVE  Requested(m, granted) = m[t]
  BY <1>2 DEF Requested
<1>3. \A t \in Tiers : m[t] \in ForgeRoles
  BY DEF Maps
<1> QED
  BY <1>1, <1>2, <1>3, TierInTiers DEF ForgeRoles

(* The map as the forge applies it is a role map like any other: there is    *)
(* always one to report (effective_for).                                     *)
THEOREM EffectiveIsAMap ==
  ASSUME NEW ladder \in SUBSET ForgeRoles, NEW m \in Maps
  PROVE  Effective(ladder, m) \in Maps
<1> DEFINE E == Effective(ladder, m)
<1>1. \A t \in Tiers : E[t] = Collapse(m[t], ladder) /\ m[t] \in ForgeRoles
  <2>1. SUFFICES ASSUME NEW t \in Tiers PROVE E[t] = Collapse(m[t], ladder) /\ m[t] \in ForgeRoles
    OBVIOUS
  <2>2. {t} \in SUBSET Rights
    BY DEF Rights
  <2> QED
    BY <2>2, TierOfOne, RequestedIs DEF Effective, MapRole, Maps
<1>2. E \in [Tiers -> ForgeRoles]
  BY <1>1, Rounded DEF Effective, MapRole
<1>3. E["own"] = Collapse(m["own"], ladder) /\ m["own"] \in ForgeRoles
  BY <1>1 DEF Tiers
<1>4. E["maintain"] = Collapse(m["maintain"], ladder) /\ m["maintain"] \in ForgeRoles
  BY <1>1 DEF Tiers
<1>5. E["commit"] = Collapse(m["commit"], ladder) /\ m["commit"] \in ForgeRoles
  BY <1>1 DEF Tiers
<1>6. Ordered(m)
  BY DEF Maps
<1>7. E["commit"] <= E["maintain"] /\ E["maintain"] <= E["own"]
  BY <1>3, <1>4, <1>5, <1>6, RoundedInOrder DEF Ordered
<1>8. E["maintain"] <= m["maintain"] /\ E["commit"] <= m["commit"]
  BY <1>4, <1>5, Rounded
<1>9. E["maintain"] \in ForgeRoles /\ E["commit"] \in ForgeRoles
  BY <1>2 DEF Tiers
<1> HIDE DEF E
<1>10. E["maintain"] < Admin /\ E["commit"] <= Write
  BY <1>4, <1>5, <1>6, <1>8, <1>9 DEF Ordered, Admin, Write, ForgeRoles
<1>11. E \in Maps
  BY <1>2, <1>7, <1>10 DEF Maps, Ordered
<1> QED
  BY <1>11 DEF E

(* The role that any set of rights gets is the one the rounded map has for   *)
(* them (map_role and effective_for): rounding by tier loses nothing.        *)
THEOREM RoundingIsExact ==
  ASSUME NEW ladder \in SUBSET ForgeRoles, NEW m \in Maps, NEW granted \in SUBSET Rights
  PROVE  Requested(Effective(ladder, m), granted) = MapRole(ladder, m, granted)
<1>1. Effective(ladder, m) \in Maps
  BY EffectiveIsAMap
<1>2. CASE ForgeTier(granted) = {}
  BY <1>1, <1>2, RequestedIs, RoundedToZero DEF MapRole
<1>3. ASSUME NEW t \in Tiers, ForgeTier(granted) = {t}
      PROVE  Requested(Effective(ladder, m), granted) = MapRole(ladder, m, granted)
  <2>1. Requested(Effective(ladder, m), granted) = MapRole(ladder, m, {t})
    BY <1>1, <1>3, RequestedIs DEF Effective
  <2>2. {t} \in SUBSET Rights
    BY DEF Rights
  <2>3. Requested(m, {t}) = m[t] /\ Requested(m, granted) = m[t]
    BY <1>3, <2>2, TierOfOne, RequestedIs
  <2> QED
    BY <2>1, <2>3 DEF MapRole
<1> QED
  BY <1>2, <1>3, TierInTiers

(* Nobody gets more than the map asks for, more rights never get less, and   *)
(* rights on the namespace alone get nothing (rights.rs:389, rights.rs:82).  *)
THEOREM RolesAreSafe ==
  ASSUME NEW ladder \in SUBSET ForgeRoles, NEW m \in Maps,
         NEW fewer \in SUBSET Rights, NEW more \in SUBSET Rights, fewer \subseteq more
  PROVE  /\ MapRole(ladder, m, more) <= Requested(m, more)
         /\ MapRole(ladder, m, fewer) <= MapRole(ladder, m, more)
         /\ more \cap Tiers = {} => MapRole(ladder, m, more) = 0
<1>1. Requested(m, more) \in ForgeRoles /\ Requested(m, fewer) \in ForgeRoles
  BY RequestedIs
<1>2. Requested(m, fewer) <= Requested(m, more)
  <2>1. /\ m["own"] \in ForgeRoles /\ m["maintain"] \in ForgeRoles /\ m["commit"] \in ForgeRoles
        /\ m["commit"] <= m["maintain"] /\ m["maintain"] <= m["own"]
    BY DEF Maps, Ordered, Tiers
  <2>2. \A g \in {fewer, more} :
          Requested(m, g) = IF "own" \in g THEN m["own"]
                            ELSE IF "maintain" \in g THEN m["maintain"]
                            ELSE IF "commit" \in g THEN m["commit"] ELSE 0
    BY TierIs, RequestedIs DEF Tiers
  <2> QED
    BY <2>1, <2>2 DEF ForgeRoles
<1>3. more \cap Tiers = {} => Requested(m, more) = 0
  BY TierIs, RequestedIs DEF Tiers
<1> QED
  BY <1>1, <1>2, <1>3, Rounded, RoundedInOrder, RoundedToZero DEF MapRole

(* The canonical grants come to the same rights and the same role            *)
(* (EffectiveRights::granted).                                               *)
THEOREM CanonicalIsTheSame ==
  ASSUME NEW granted \in SUBSET Rights
  PROVE  /\ Held(Canonical(granted)) = Held(granted)
         /\ Projectable(Canonical(granted)) = Projectable(granted)
<1>1. ForgeTier(granted) =
        IF "own" \in granted THEN {"own"}
        ELSE IF "maintain" \in granted THEN {"maintain"} ELSE granted \cap {"commit"}
  BY TierIs
<1>2. "admin" \in Held(granted) <=> "admin" \in granted
  BY DEF Held, Closure, Tiers, Rights
<1>3. "create" \in Held(granted) <=> "admin" \in granted \/ "create" \in granted
  BY DEF Held, Closure, Tiers, Rights
<1>4. Canonical(granted) =
        (IF "admin" \in granted THEN {"admin"} ELSE granted \cap {"create"})
          \cup (IF "own" \in granted THEN {"own"}
                ELSE IF "maintain" \in granted THEN {"maintain"} ELSE granted \cap {"commit"})
  BY <1>1, <1>2, <1>3 DEF Canonical
<1> QED
  BY <1>4 DEF Held, Projectable, Closure, Tiers, Rights

-----------------------------------------------------------------------------
(* The report of the role map: RoleReports.                                  *)

(* The role maps that RoleReports speaks of are those above.                 *)
LEMMA MapsSame ==
  /\ Reports!Maps = Maps /\ Reports!OwnMaps = OwnMaps /\ Reports!Moves = Moves
  /\ Reports!ForgeRoles = ForgeRoles /\ Reports!Rights = Rights
  /\ \A ladder, m : Reports!Effective(ladder, m) = Effective(ladder, m)
  /\ \A m, granted : Reports!Requested(m, granted) = Requested(m, granted)
  /\ \A ladder, m, granted : Reports!MapRole(ladder, m, granted) = MapRole(ladder, m, granted)
BY DEF Reports!Maps, Maps, Reports!OwnMaps, OwnMaps, Reports!Moves, Moves,
   Reports!ForgeRoles, ForgeRoles, Reports!Rights, Rights, Reports!Tiers, Tiers,
   Reports!Ordered, Ordered, Reports!Admin, Admin, Reports!Write, Write,
   Reports!Effective, Effective, Reports!MapRole, MapRole, Reports!Collapse, Collapse,
   Reports!Requested, Requested, Reports!ForgeTier, ForgeTier, Reports!Tier, Tier,
   Reports!Projectable, Projectable, Reports!Held, Held, Reports!Closure, Closure

LEMMA ReportsAssumed ==
  /\ Configs \subseteq [base : Reports!Maps, of : Reports!OwnMaps]
  /\ Ladders \subseteq SUBSET Reports!ForgeRoles
  /\ Plans \subseteq [Reports!Moves -> Nat]
BY MapsAssumption, PlansAssumption, MapsSame

LEMMA ReportsEffective ==
  ASSUME NEW ladder \in SUBSET Reports!ForgeRoles, NEW m \in Reports!Maps
  PROVE  Reports!Effective(ladder, m) \in Reports!Maps
BY EffectiveIsAMap, MapsSame

LEMMA ReportsRounding ==
  ASSUME NEW ladder \in SUBSET Reports!ForgeRoles, NEW m \in Reports!Maps,
         NEW granted \in SUBSET Reports!Rights
  PROVE  Reports!Requested(Reports!Effective(ladder, m), granted)
           = Reports!MapRole(ladder, m, granted)
BY RoundingIsExact, MapsSame

-----------------------------------------------------------------------------
(* Types.                                                                    *)

LEMMA DefaultIsAMap == Reports!Default \in Reports!Maps
BY DEF Reports!Default, Reports!Maps, Reports!Ordered, Reports!Tiers,
   Reports!ForgeRoles, Reports!Admin, Reports!Write

LEMMA EffType ==
  ASSUME Reports!TypeOK, NEW m \in Reports!Maps
  PROVE  Reports!Eff(m) \in Reports!Maps
BY ReportsEffective DEF Reports!TypeOK, Reports!Eff

LEMMA OwnMapsAre ==
  ASSUME NEW f, f \in Reports!OwnMaps
  PROVE  /\ DOMAIN f \subseteq Repos /\ f = [r \in DOMAIN f |-> f[r]]
         /\ \A r \in DOMAIN f : f[r] \in Reports!Maps
BY DEF Reports!OwnMaps

LEMMA MakesOwnMaps ==
  ASSUME NEW S \in SUBSET Repos, NEW f, f \in [S -> Reports!Maps]
  PROVE  f \in Reports!OwnMaps
BY DEF Reports!OwnMaps

LEMMA MapInType ==
  ASSUME NEW config \in Configs, NEW r
  PROVE  Reports!MapIn(config, r) \in Reports!Maps /\ config.base \in Reports!Maps
           /\ config.of \in Reports!OwnMaps
BY ReportsAssumed, OwnMapsAre DEF Reports!MapIn

(* What a report of the configuration in force says.                         *)
ReportBase == Reports!Eff(bridge.config.base)
ReportOwn == [r \in {x \in DOMAIN bridge.config.of : Reports!Eff(bridge.config.of[x]) # ReportBase}
                |-> Reports!Eff(bridge.config.of[r])]

LEMMA ReportIs ==
  /\ Reports!Report.run = bridge.run /\ Reports!Report.base = ReportBase
  /\ Reports!Report.repos = ReportOwn
  /\ Reports!Report.stale = Reports!Stale
BY DEF Reports!Report, Reports!ReportOf, ReportBase, ReportOwn

LEMMA ReportType ==
  ASSUME Reports!TypeOK
  PROVE  Reports!Report \in Reports!Reports /\ ReportBase \in Reports!Maps
           /\ ReportOwn \in Reports!OwnMaps
<1>1. bridge.config \in Configs /\ bridge.run \in Nat
  BY DEF Reports!TypeOK
<1>2. ReportBase \in Reports!Maps
  BY <1>1, MapInType, EffType DEF ReportBase
<1>3. ReportOwn \in Reports!OwnMaps
  <2>1. DOMAIN bridge.config.of \subseteq Repos
    BY <1>1, MapInType, OwnMapsAre
  <2>2. \A r \in DOMAIN bridge.config.of : Reports!Eff(bridge.config.of[r]) \in Reports!Maps
    BY <1>1, MapInType, OwnMapsAre, EffType
  <2> DEFINE S == {x \in DOMAIN bridge.config.of : Reports!Eff(bridge.config.of[x]) # ReportBase}
  <2>3. ReportOwn \in [S -> Reports!Maps]
    BY <2>2 DEF ReportOwn
  <2> QED
    BY <2>1, <2>3, MakesOwnMaps
<1>4. Reports!Stale \subseteq Repos
  BY DEF Reports!Stale, Reports!StaleUnder
<1>5. Reports!Report = [run |-> bridge.run, base |-> ReportBase, repos |-> ReportOwn,
                        stale |-> Reports!Stale]
  BY DEF Reports!Report, Reports!ReportOf, ReportBase, ReportOwn
<1> QED
  BY <1>1, <1>2, <1>3, <1>4, <1>5 DEF Reports!Reports

LEMMA NoReportType == Reports!NoReport \in Reports!Reports
<1>1. [r \in {} |-> Reports!Default] \in Reports!OwnMaps
  <2>1. {} \in SUBSET Repos
    OBVIOUS
  <2>2. [r \in {} |-> Reports!Default] \in [{} -> Reports!Maps]
    BY DefaultIsAMap
  <2> QED
    BY <2>1, <2>2 DEF Reports!OwnMaps
<1> QED
  BY <1>1, DefaultIsAMap DEF Reports!NoReport, Reports!Reports

(* The record of one task.                                                   *)
Doing == [at : {"off", "linkup", "idle", "built", "signed"}, report : Reports!Reports, id : Nat]

LEMMA DoingTypes ==
  /\ Reports!Off \in Doing /\ Reports!Idle \in Doing
  /\ [Reports!Idle EXCEPT !.at = "linkup"] \in Doing
  /\ Reports!TypeOK => [Reports!Idle EXCEPT !.at = "built", !.report = Reports!Report] \in Doing
BY NoReportType, ReportType DEF Reports!Off, Reports!Idle, Doing

(* The record of one repository.                                             *)
RepoRoles == [known : BOOLEAN, map : SUBSET Reports!Maps, given : SUBSET Reports!Maps,
              half : SUBSET Reports!Maps]

LEMMA ReportTypesFirst == Reports!Init => Reports!TypeOK
<1> SUFFICES ASSUME Reports!Init PROVE Reports!TypeOK
  OBVIOUS
<1>1. /\ plan \in [moves : [Reports!Moves -> Nat], ladder : SUBSET Reports!ForgeRoles]
      /\ count \in [Reports!Moves -> Nat]
  BY ReportsAssumed, ReportsAssumed DEF Reports!Init
<1>2. PICK c \in Configs :
        /\ bridge = [run |-> 1, config |-> c, down |-> FALSE, recovered |-> FALSE]
        /\ repo \in [Repos -> {Reports!Apart} \cup
                        {Reports!Given(Reports!Eff(Reports!MapIn(c, r))) : r \in Repos}]
  BY DEF Reports!Init
<1>3. \A r \in Repos : Reports!Eff(Reports!MapIn(c, r)) \in Reports!Maps
  BY <1>1, MapInType, ReportsEffective DEF Reports!Eff
<1>4. repo \in [Repos -> [known : BOOLEAN, map : SUBSET Reports!Maps, given : SUBSET Reports!Maps,
                          half : SUBSET Reports!Maps]]
  <2>1. Reports!Apart \in RepoRoles
    BY DEF Reports!Apart, RepoRoles
  <2>2. \A m \in Reports!Maps : Reports!Given(m) \in RepoRoles
    BY DEF Reports!Given, RepoRoles
  <2>3. {Reports!Apart} \cup {Reports!Given(Reports!Eff(Reports!MapIn(c, r))) : r \in Repos}
          \subseteq RepoRoles
    BY <1>3, <2>1, <2>2
  <2> QED
    BY <1>2, <2>3 DEF RepoRoles
<1>5. Reports!Stale \subseteq Repos
  BY DEF Reports!Stale, Reports!StaleUnder
<1> QED
  BY <1>1, <1>2, <1>4, <1>5, NoReportType, DoingTypes DEF Reports!Init, Reports!TypeOK,
     Reports!NoEntry, Doing

LEMMA ReportMoved ==
  ASSUME Reports!TypeOK, NEW m \in Reports!Moves, Reports!Happens(m)
  PROVE  count' \in [Reports!Moves -> Nat] /\ plan' = plan
BY DEF Reports!TypeOK, Reports!Happens

LEMMA ReportTypesNext ==
  ASSUME Reports!TypeOK, (Reports!Next \/ UNCHANGED Reports!vars)
  PROVE  Reports!TypeOK'
<1> USE DEF Reports!Moves
<1>1. CASE Reports!Connect
  BY <1>1, DoingTypes DEF Reports!Connect, Reports!LinkUp, Reports!NoMove,
     Reports!TypeOK, Doing, Reports!Tasks
<1>2. CASE Reports!Begin
  BY <1>2, DoingTypes DEF Reports!Begin, Reports!NoMove, Reports!TypeOK, Doing,
     Reports!Tasks
<1>3. CASE Reports!Recover
  BY <1>3, DoingTypes DEF Reports!Recover, Reports!LinkUp, Reports!NoMove,
     Reports!TypeOK, Doing, Reports!Tasks
<1>4. CASE Reports!Resend
  BY <1>4, DoingTypes, ReportType, ReportMoved DEF Reports!Resend, Reports!NoMove,
     Reports!TypeOK, Doing, Reports!Tasks
<1>5. ASSUME NEW t \in Reports!Tasks, Reports!ReportMap(t) PROVE Reports!TypeOK'
  BY <1>5, DoingTypes, ReportType DEF Reports!ReportMap, Reports!Put, Reports!NoMove,
     Reports!TypeOK, Doing
<1>6. ASSUME NEW t \in Reports!Tasks, Reports!Hold(t) PROVE Reports!TypeOK'
  BY <1>6, DoingTypes, ReportMoved DEF Reports!Hold, Reports!TypeOK, Doing
<1>7. ASSUME NEW t \in Reports!Tasks, Reports!Sign(t) PROVE Reports!TypeOK'
  <2>1. task[t] \in Doing /\ post.signed \in Nat
    BY DEF Reports!TypeOK, Doing
  <2>2. task' = [task EXCEPT ![t] = [task[t] EXCEPT !.at = "signed", !.id = post.signed + 1]]
    BY <1>7 DEF Reports!Sign, Reports!TypeOK
  <2>3. [task[t] EXCEPT !.at = "signed", !.id = post.signed + 1] \in Doing
    <3>1. post.signed + 1 \in Nat
      BY <2>1
    <3>2. ASSUME NEW n \in Nat PROVE [task[t] EXCEPT !.at = "signed", !.id = n] \in Doing
      BY <2>1 DEF Doing
    <3> QED
      BY <3>1, <3>2
  <2>4. task' \in [Reports!Tasks -> Doing]
    BY <2>2, <2>3 DEF Reports!TypeOK, Doing
  <2>5. entry' \in [there : BOOLEAN, ids : SUBSET Nat, report : Reports!Reports]
    BY <1>7, <2>1 DEF Reports!Sign, Reports!TypeOK
  <2>6. post' \in [signed : Nat, docs : SUBSET [id : Nat, report : Reports!Reports],
                   acks : SUBSET Nat]
    <3>1. post.signed + 1 \in Nat
      BY <2>1
    <3>2. ASSUME NEW n \in Nat
          PROVE  [post EXCEPT !.signed = n]
                   \in [signed : Nat, docs : SUBSET [id : Nat, report : Reports!Reports],
                        acks : SUBSET Nat]
      BY DEF Reports!TypeOK
    <3>3. post' = [post EXCEPT !.signed = post.signed + 1]
      BY <1>7 DEF Reports!Sign
    <3> QED
      BY <3>1, <3>2, <3>3
  <2> QED
    BY <1>7, <2>4, <2>5, <2>6 DEF Reports!Sign, Reports!NoMove, Reports!TypeOK, Doing
<1>8. ASSUME NEW t \in Reports!Tasks, Reports!Send(t) PROVE Reports!TypeOK'
  <2>1. task' \in [Reports!Tasks -> Doing]
    BY <1>8, DoingTypes DEF Reports!Send, Reports!TypeOK, Doing
  <2>2. bridge' \in [run : Nat, config : Configs, down : BOOLEAN, recovered : BOOLEAN]
    <3>1. Reports!Works \/ Reports!Fails
      BY <1>8 DEF Reports!Send
    <3>2. ASSUME Reports!Works
          PROVE  bridge' = [bridge EXCEPT !.down = FALSE, !.recovered = bridge'.recovered]
                                     /\ bridge'.recovered \in BOOLEAN
      BY <3>2 DEF Reports!Works, Reports!TypeOK
    <3> QED
      BY <3>1, <3>2 DEF Reports!Fails, Reports!TypeOK
  <2>3. post' \in [signed : Nat, docs : SUBSET [id : Nat, report : Reports!Reports],
                   acks : SUBSET Nat]
    BY <1>8 DEF Reports!Send, Reports!TypeOK
  <2>4. plan' = plan /\ count' \in [Reports!Moves -> Nat]
    BY <1>8, ReportMoved DEF Reports!Send, Reports!NoMove, Reports!TypeOK
  <2> QED
    BY <1>8, <2>1, <2>2, <2>3, <2>4 DEF Reports!Send, Reports!TypeOK, Doing
<1>9. ASSUME NEW d \in post.docs, Reports!Take(d) PROVE Reports!TypeOK'
  <2>1. d \in [id : Nat, report : Reports!Reports]
    BY DEF Reports!TypeOK
  <2>2. plan' = plan /\ count' \in [Reports!Moves -> Nat]
    BY <1>9, ReportMoved DEF Reports!Take, Reports!NoMove, Reports!TypeOK
  <2>3. view' \in [id : Nat, report : Reports!Reports]
    BY <1>9, <2>1 DEF Reports!Take, Reports!TypeOK
  <2>4. d.id \in Nat
    BY <2>1
  <2>5. post' \in [signed : Nat, docs : SUBSET [id : Nat, report : Reports!Reports],
                   acks : SUBSET Nat]
    <3>1. \E D \in SUBSET post.docs, A \in SUBSET Nat :
            post' = [post EXCEPT !.docs = D, !.acks = A]
      <4>1. post.acks \cup {d.id} \in SUBSET Nat /\ post.acks \in SUBSET Nat
        BY <2>4 DEF Reports!TypeOK
      <4>2. post.docs \ {d} \in SUBSET post.docs /\ post.docs \in SUBSET post.docs
        OBVIOUS
      <4>3. \/ post' = [post EXCEPT !.docs = post.docs \ {d}, !.acks = post.acks \cup {d.id}]
            \/ post' = [post EXCEPT !.docs = post.docs \ {d}, !.acks = post.acks]
            \/ post' = [post EXCEPT !.docs = post.docs, !.acks = post.acks \cup {d.id}]
        BY <1>9 DEF Reports!Take, Reports!TypeOK
      <4> QED
        BY <4>1, <4>2, <4>3
    <3> QED
      BY <3>1 DEF Reports!TypeOK
  <2> QED
    BY <1>9, <2>2, <2>3, <2>5 DEF Reports!Take, Reports!TypeOK
<1>10. ASSUME NEW i \in post.acks, Reports!Acknowledge(i) PROVE Reports!TypeOK'
  BY <1>10, NoReportType DEF Reports!Acknowledge, Reports!NoEntry, Reports!NoMove,
     Reports!TypeOK
<1>11. CASE Reports!SessionEnds
  BY <1>11, DoingTypes, ReportMoved DEF Reports!SessionEnds, Reports!TypeOK, Doing
<1>12. ASSUME NEW r \in Repos, Reports!Project(r) PROVE Reports!TypeOK'
  <2>1. Reports!Eff(Reports!MapOf(r)) \in Reports!Maps
    BY MapInType, EffType DEF Reports!MapOf, Reports!TypeOK
  <2>2. repo \in [Repos -> RepoRoles]
    BY DEF Reports!TypeOK, RepoRoles
  <2>3. Reports!Some(r) \in RepoRoles /\ [Reports!Some(r) EXCEPT !.known = TRUE] \in RepoRoles
    BY <2>1, <2>2 DEF Reports!Some, RepoRoles
  <2>4. Reports!Given(Reports!Eff(Reports!MapOf(r))) \in RepoRoles
    BY <2>1 DEF Reports!Given, RepoRoles
  <2>5. \E x \in RepoRoles : repo' = [repo EXCEPT ![r] = x]
    BY <1>12, <2>3, <2>4 DEF Reports!Project, Reports!Whole, Reports!Partly,
       Reports!Broken
  <2>6. repo' \in [Repos -> RepoRoles]
    BY <2>2, <2>5
  <2> QED
    BY <1>12, <2>6, ReportMoved DEF Reports!Project, Reports!TypeOK, RepoRoles
<1>13. ASSUME NEW c \in Configs, Reports!Restart(c) PROVE Reports!TypeOK'
  BY <1>13, DoingTypes, ReportMoved DEF Reports!Restart, Reports!StaleUnder,
     Reports!TypeOK, Doing
<1>14. CASE UNCHANGED Reports!vars
  BY <1>14 DEF Reports!vars, Reports!TypeOK
<1> QED
  BY <1>1, <1>2, <1>3, <1>4, <1>5, <1>6, <1>7, <1>8, <1>9, <1>10, <1>11, <1>12, <1>13,
     <1>14 DEF Reports!Next, Reports!Work

-----------------------------------------------------------------------------
(* Roles left of another map.                                                *)

(* What was given and is not of the recorded map was given by a job that was *)
(* cut short.                                                                *)
Accounted(r) ==
  /\ repo[r].map = {} \/ \E m \in Reports!Maps : repo[r].map = {m}
  /\ repo[r].given \subseteq repo[r].map \cup repo[r].half

LEMMA AccountedFirst == Reports!Init => \A r \in Repos : Accounted(r)
<1> SUFFICES ASSUME Reports!Init, NEW r \in Repos PROVE Accounted(r)
  OBVIOUS
<1>1. Reports!TypeOK
  BY ReportTypesFirst
<1>2. PICK c \in Configs :
        repo \in [Repos -> {Reports!Apart} \cup
                     {Reports!Given(Reports!Eff(Reports!MapIn(c, x))) : x \in Repos}]
  BY DEF Reports!Init
<1>3. \/ repo[r] = Reports!Apart
      \/ \E x \in Repos : repo[r] = Reports!Given(Reports!Eff(Reports!MapIn(c, x)))
  BY <1>2
<1>4. \A x \in Repos : Reports!Eff(Reports!MapIn(c, x)) \in Reports!Maps
  BY <1>1, MapInType, EffType
<1>5. CASE repo[r] = Reports!Apart
  BY <1>5 DEF Reports!Apart, Accounted
<1>6. ASSUME NEW x \in Repos, repo[r] = Reports!Given(Reports!Eff(Reports!MapIn(c, x)))
      PROVE  Accounted(r)
  <2>1. repo[r].map = {Reports!Eff(Reports!MapIn(c, x))}
          /\ repo[r].given = {Reports!Eff(Reports!MapIn(c, x))}
    BY <1>6 DEF Reports!Given
  <2> QED
    BY <1>4, <2>1 DEF Accounted
<1> QED
  BY <1>3, <1>5, <1>6

LEMMA AccountedNext ==
  ASSUME Reports!TypeOK, (Reports!Next \/ UNCHANGED Reports!vars), NEW r \in Repos, Accounted(r)
  PROVE  Accounted(r)'
<1>1. ASSUME NEW x \in Repos, Reports!Project(x) PROVE Accounted(r)'
  <2>1. Reports!Eff(Reports!MapOf(x)) \in Reports!Maps
    BY MapInType, EffType DEF Reports!MapOf, Reports!TypeOK
  <2>2. CASE x # r
    <3>1. repo'[r] = repo[r]
      BY <1>1, <2>2 DEF Reports!Project, Reports!Whole, Reports!Partly, Reports!Broken,
         Reports!TypeOK
    <3> QED
      BY <3>1 DEF Accounted
  <2>3. CASE x = r
    <3>1. repo'[r] \in {Reports!Given(Reports!Eff(Reports!MapOf(r))), Reports!Some(r),
                        [Reports!Some(r) EXCEPT !.known = TRUE]}
      BY <1>1, <2>3 DEF Reports!Project, Reports!Whole, Reports!Partly, Reports!Broken,
         Reports!TypeOK
    <3>2. CASE repo'[r] = Reports!Given(Reports!Eff(Reports!MapOf(r)))
      BY <2>1, <2>3, <3>2 DEF Reports!Given, Accounted
    <3>3. CASE repo'[r] # Reports!Given(Reports!Eff(Reports!MapOf(r)))
      <4>1. repo[r] \in [known : BOOLEAN, map : SUBSET Reports!Maps, given : SUBSET Reports!Maps,
                         half : SUBSET Reports!Maps]
        BY DEF Reports!TypeOK
      <4>2. /\ repo'[r].map = repo[r].map
            /\ repo'[r].given = repo[r].given \cup {Reports!Eff(Reports!MapOf(r))}
            /\ repo'[r].half = repo[r].half \cup {Reports!Eff(Reports!MapOf(r))}
        BY <3>1, <3>3, <4>1 DEF Reports!Some
      <4> QED
        BY <4>2 DEF Accounted
    <3> QED
      BY <3>2, <3>3
  <2> QED
    BY <2>2, <2>3
<1>2. CASE UNCHANGED repo
  BY <1>2 DEF Accounted
<1> QED
  BY <1>1, <1>2 DEF Reports!Next, Reports!Work, Reports!vars, Reports!Connect,
     Reports!Begin, Reports!Recover, Reports!LinkUp, Reports!Resend, Reports!ReportMap,
     Reports!Hold, Reports!Sign, Reports!Send, Reports!Take, Reports!Acknowledge,
     Reports!SessionEnds, Reports!Restart

(* A repository that is not stale has no role left of another map, but one   *)
(* given by a job that was cut short (apply_roles, rolemap event).           *)
LEMMA LeftIsKnown ==
  ASSUME Reports!TypeOK, \A r \in Repos : Accounted(r)
  PROVE  Reports!LeftIsListed
<1> SUFFICES ASSUME NEW r \in Repos \ Reports!Stale, repo[r].known
             PROVE  repo[r].given \subseteq {Reports!Eff(Reports!MapOf(r))} \cup repo[r].half
  BY DEF Reports!LeftIsListed
<1>1. Reports!Eff(Reports!MapOf(r)) \in Reports!Recorded(r)
  BY DEF Reports!Stale, Reports!StaleUnder, Reports!MapOf
<1>2. Accounted(r)
  OBVIOUS
<1> QED
  BY <1>1, <1>2 DEF Reports!Recorded, Accounted

-----------------------------------------------------------------------------
(* What the VTC is told.                                                     *)

(* Every report there is anywhere, and what each comes from.                 *)
Said ==
  {view.report} \cup {d.report : d \in post.docs} \cup {task[t].report : t \in Reports!Tasks}

LEMMA SaidType ==
  ASSUME Reports!TypeOK, NEW x \in Said
  PROVE  x \in Reports!Reports
BY DEF Said, Reports!TypeOK

LEMMA SaidNext ==
  ASSUME Reports!TypeOK, (Reports!Next \/ UNCHANGED Reports!vars)
  PROVE  Said' \subseteq Said \cup {Reports!Report, Reports!NoReport}
<1> USE DEF Said
<1>1. CASE UNCHANGED <<view, post, task>>
  BY <1>1
<1>2. CASE /\ UNCHANGED <<view, post>>
           /\ \A t \in Reports!Tasks : task'[t].report \in Said \cup {Reports!Report, Reports!NoReport}
  BY <1>2
<1>3. ASSUME NEW t \in Reports!Tasks, Reports!Sign(t) PROVE Said' \subseteq Said
  <2>1. \A s \in Reports!Tasks : task'[s].report = task[s].report
    BY <1>3 DEF Reports!Sign, Reports!TypeOK
  <2>2. post'.docs = post.docs /\ view' = view
    BY <1>3 DEF Reports!Sign, Reports!TypeOK
  <2> QED
    BY <2>1, <2>2
<1>4. ASSUME NEW t \in Reports!Tasks, Reports!Send(t)
      PROVE  Said' \subseteq Said \cup {Reports!NoReport}
  <2>1. \A s \in Reports!Tasks : task'[s].report \in {task[s].report, Reports!NoReport}
    BY <1>4 DEF Reports!Send, Reports!TypeOK, Reports!Idle, Reports!Off
  <2>2. post'.docs \subseteq post.docs \cup {[id |-> task[t].id, report |-> task[t].report]}
    BY <1>4 DEF Reports!Send, Reports!TypeOK
  <2>3. view' = view
    BY <1>4 DEF Reports!Send
  <2>4. \A d \in post'.docs : d.report \in Said
    BY <2>2
  <2> QED
    BY <2>1, <2>3, <2>4
<1>5. ASSUME NEW d \in post.docs, Reports!Take(d) PROVE Said' \subseteq Said
  <2>1. post'.docs \subseteq post.docs /\ view' \in {d, view} /\ task' = task
    <3>1. post \in [signed : Nat, docs : SUBSET [id : Nat, report : Reports!Reports],
                    acks : SUBSET Nat]
      BY DEF Reports!TypeOK
    <3>2. post'.docs \in {post.docs, post.docs \ {d}}
      BY <1>5, <3>1 DEF Reports!Take
    <3>3. post'.docs \subseteq post.docs
      BY <3>2
    <3> QED
      BY <1>5, <3>3 DEF Reports!Take
  <2> QED
    BY <2>1
<1>6. ASSUME NEW i \in post.acks, Reports!Acknowledge(i) PROVE Said' \subseteq Said
  <2>1. post'.docs = post.docs /\ view' = view /\ task' = task
    BY <1>6 DEF Reports!Acknowledge, Reports!TypeOK
  <2> QED
    BY <2>1
<1>7. /\ Reports!Off.report = Reports!NoReport /\ Reports!Idle.report = Reports!NoReport
      /\ [Reports!Idle EXCEPT !.at = "linkup"].report = Reports!NoReport
  BY DEF Reports!Idle, Reports!Off
<1>8. [Reports!Idle EXCEPT !.at = "built", !.report = Reports!Report].report = Reports!Report
  BY DEF Reports!Idle, Reports!Off
<1>9. ASSUME NEW t \in Reports!Tasks,
              NEW x \in {task[t], Reports!Off, Reports!Idle,
                         [Reports!Idle EXCEPT !.at = "linkup"],
                          [Reports!Idle EXCEPT !.at = "built", !.report = Reports!Report]},
              task' = [task EXCEPT ![t] = x], UNCHANGED <<view, post>>
       PROVE  Said' \subseteq Said \cup {Reports!Report, Reports!NoReport}
  <2>1. x.report \in Said \cup {Reports!Report, Reports!NoReport}
    BY <1>7, <1>8
  <2>2. \A s \in Reports!Tasks : task'[s] \in {task[s], x}
    BY <1>9 DEF Reports!TypeOK
  <2> HIDE DEF Said
  <2>3. \A s \in Reports!Tasks : task'[s].report \in Said \cup {Reports!Report, Reports!NoReport}
    BY <2>1, <2>2 DEF Said
  <2> QED
    BY <1>2, <1>9, <2>3
<1>10. CASE Reports!Connect \/ Reports!Begin \/ Reports!Recover \/ Reports!Resend
             \/ Reports!SessionEnds
  <2> HIDE DEF Said
  <2>1. "session" \in Reports!Tasks /\ "background" \in Reports!Tasks
    BY DEF Reports!Tasks
  <2> QED
    BY <1>9, <1>10, <2>1 DEF Reports!Connect, Reports!Begin, Reports!Recover,
       Reports!LinkUp, Reports!Resend, Reports!SessionEnds
<1>11. ASSUME NEW t \in Reports!Tasks, Reports!ReportMap(t) \/ Reports!Hold(t)
       PROVE  Said' \subseteq Said \cup {Reports!Report, Reports!NoReport}
  <2> HIDE DEF Said
  <2> QED
    BY <1>9, <1>11 DEF Reports!ReportMap, Reports!Hold
<1>12. ASSUME NEW r \in Repos, Reports!Project(r) PROVE Said' \subseteq Said
  BY <1>1, <1>12 DEF Reports!Project
<1>13. ASSUME NEW c \in Configs, Reports!Restart(c)
       PROVE  Said' \subseteq Said \cup {Reports!NoReport}
  BY <1>2, <1>13 DEF Reports!Restart, Reports!Off
<1> QED
  BY <1>1, <1>3, <1>4, <1>5, <1>6, <1>10, <1>11, <1>12, <1>13 DEF Reports!Next,
     Reports!Work, Reports!vars

(* Only a restart changes the run and its configuration.                     *)
LEMMA SameRun ==
  ASSUME Reports!TypeOK, (Reports!Next \/ UNCHANGED Reports!vars)
  PROVE  \/ \E c \in Configs : Reports!Restart(c)
         \/ /\ bridge'.run = bridge.run /\ bridge'.config = bridge.config /\ plan' = plan
            /\ told'.stale = told.stale
<1> USE DEF Reports!TypeOK, Reports!Happens, Reports!NoMove
<1>1. CASE Reports!Connect \/ Reports!Begin \/ Reports!Recover \/ Reports!Resend
             \/ Reports!SessionEnds
  BY <1>1 DEF Reports!Connect, Reports!Begin, Reports!Recover, Reports!LinkUp,
     Reports!Resend, Reports!SessionEnds
<1>2. ASSUME NEW t \in Reports!Tasks, Reports!ReportMap(t) \/ Reports!Hold(t) \/ Reports!Sign(t)
      PROVE  bridge' = bridge /\ plan' = plan /\ told' = told
  BY <1>2 DEF Reports!ReportMap, Reports!Hold, Reports!Sign
<1>3. ASSUME NEW t \in Reports!Tasks, Reports!Send(t)
      PROVE  bridge'.run = bridge.run /\ bridge'.config = bridge.config /\ plan' = plan
               /\ told' = told
  BY <1>3 DEF Reports!Send, Reports!Works, Reports!Fails
<1>4. ASSUME NEW d \in post.docs, Reports!Take(d)
      PROVE  bridge' = bridge /\ plan' = plan /\ told' = told
  BY <1>4 DEF Reports!Take
<1>5. ASSUME NEW i \in post.acks, Reports!Acknowledge(i)
      PROVE  bridge' = bridge /\ plan' = plan /\ told' = told
  BY <1>5 DEF Reports!Acknowledge
<1>6. ASSUME NEW r \in Repos, Reports!Project(r)
      PROVE  bridge' = bridge /\ plan' = plan /\ told' = told
  BY <1>6 DEF Reports!Project
<1>7. CASE UNCHANGED Reports!vars
  BY <1>7 DEF Reports!vars
<1> QED
  BY <1>1, <1>2, <1>3, <1>4, <1>5, <1>6, <1>7 DEF Reports!Next, Reports!Work

(* A report of this run is of this run's maps.                               *)
Told(x) ==
  x.run <= bridge.run /\ (x.run = bridge.run => x.base = ReportBase /\ x.repos = ReportOwn)
Truthful == 1 <= bridge.run /\ \A x \in Said : Told(x)

LEMMA TruthfulFirst == Reports!Init => Truthful
<1> SUFFICES ASSUME Reports!Init PROVE Truthful
  OBVIOUS
<1>1. \A x \in Said : x = Reports!NoReport
  BY DEF Reports!Init, Said, Reports!Off
<1>2. bridge.run = 1
  BY DEF Reports!Init
<1> QED
  BY <1>1, <1>2 DEF Truthful, Told, Reports!NoReport

LEMMA TruthfulNext ==
  ASSUME Reports!TypeOK, (Reports!Next \/ UNCHANGED Reports!vars), Truthful
  PROVE  Truthful'
<1>1. bridge.run \in Nat /\ 1 <= bridge.run
  BY DEF Reports!TypeOK, Truthful
<1>2. Told(Reports!Report) /\ Told(Reports!NoReport)
  BY <1>1, ReportIs DEF Told, Reports!NoReport
<1>3. \A x \in Said' : Told(x) /\ x.run \in Nat
  BY <1>2, SaidNext, SaidType, ReportType, NoReportType DEF Truthful, Reports!Reports
<1>4. ASSUME NEW c \in Configs, Reports!Restart(c) PROVE Truthful'
  <2>1. bridge'.run = bridge.run + 1
    BY <1>4 DEF Reports!Restart
  <2> QED
    BY <1>1, <1>3, <2>1 DEF Truthful, Told
<1>5. CASE bridge'.run = bridge.run /\ bridge'.config = bridge.config /\ plan' = plan
  <2>1. ReportBase' = ReportBase /\ ReportOwn' = ReportOwn
    BY <1>5 DEF ReportBase, ReportOwn, Reports!Eff
  <2> QED
    BY <1>1, <1>3, <1>5, <2>1 DEF Truthful, Told
<1>6. (\E c \in Configs : Reports!Restart(c))
      \/ (bridge'.run = bridge.run /\ bridge'.config = bridge.config /\ plan' = plan)
  BY SameRun
<1> QED
  BY <1>4, <1>5, <1>6

(* The role the VTC derives from the report for any set of rights is the     *)
(* one the bridge gives for them (rolemap.rs:12), whatever the maps, the     *)
(* forge's roles and the number of restarts.                                 *)
LEMMA RolesAreKnown ==
  ASSUME Reports!TypeOK, Truthful
  PROVE  Reports!TheVtcKnowsTheRoles
<1> SUFFICES ASSUME view.report.run = bridge.run,
                    NEW r \in Repos, NEW granted \in SUBSET Reports!Rights
             PROVE  Reports!Requested(Reports!Thought(r), granted)
                      = Reports!MapRole(plan.ladder, Reports!MapOf(r), granted)
  BY DEF Reports!TheVtcKnowsTheRoles
<1>1. view.report.base = ReportBase /\ view.report.repos = ReportOwn
  BY DEF Truthful, Told, Said
<1>2. Reports!MapOf(r) \in Reports!Maps /\ plan.ladder \in SUBSET Reports!ForgeRoles
  BY MapInType DEF Reports!TypeOK, Reports!MapOf
<1>3. Reports!Thought(r) = Reports!Eff(Reports!MapOf(r))
  BY <1>1 DEF Reports!Thought, ReportOwn, ReportBase, Reports!MapOf, Reports!MapIn
<1> QED
  BY <1>2, <1>3, ReportsRounding DEF Reports!Eff

-----------------------------------------------------------------------------
(* What an acknowledgement vouches for.                                      *)

(* A report that tells of every repository the configuration made stale, and *)
(* which still is.                                                           *)
Cur(x) == x.run = bridge.run /\ Reports!Stale \cap told.stale \subseteq x.stale

StaleIsKnown == \A r \in told.stale : r \in Repos /\ repo[r].known

(* A document is dated when it is signed.                                    *)
ReportDated ==
  /\ \A i \in entry.ids \cup post.acks : i <= post.signed
  /\ \A d \in post.docs : d.id <= post.signed
  /\ \A t \in Reports!Tasks : task[t].at = "signed" => task[t].id <= post.signed
  /\ view.id <= post.signed

BeingSent == \A t \in Reports!Tasks : task[t].at \in {"built", "signed"} => Cur(task[t].report)

(* The run has put a report in the outbox.                                   *)
PutDone == task["background"].at # "off" \/ task["session"].at \in {"built", "signed", "idle"}

(* From some date on, whatever the VTC has or may take is current.           *)
CurrentFrom(i) ==
  /\ i <= view.id => Cur(view.report)
  /\ \A d \in post.docs : i <= d.id => Cur(d.report)

(* The entry notes such dates only; an answer to one tells that the VTC is   *)
(* as far; and the entry is gone only then.                                  *)
ReportNoted == \A i \in entry.ids : CurrentFrom(i) /\ (i \in post.acks => i <= view.id)
ReportDone == entry.there \/ CurrentFrom(view.id)

ReportKnown ==
  /\ Reports!TypeOK /\ StaleIsKnown /\ ReportDated /\ BeingSent
  /\ PutDone => ReportNoted /\ ReportDone

LEMMA ReportKnownFirst == Reports!Init => ReportKnown
<1> SUFFICES ASSUME Reports!Init PROVE ReportKnown
  OBVIOUS
<1>1. Reports!TypeOK
  BY ReportTypesFirst
<1>2. StaleIsKnown
  BY DEF Reports!Init, StaleIsKnown, Reports!Stale, Reports!StaleUnder
<1>3. \A t \in Reports!Tasks : task[t].at = "off"
  BY DEF Reports!Init, Reports!Off
<1>4. ReportDated
  BY <1>3 DEF Reports!Init, ReportDated, Reports!NoEntry
<1>5. BeingSent /\ ~PutDone
  BY <1>3 DEF BeingSent, PutDone, Reports!Tasks
<1> QED
  BY <1>1, <1>2, <1>4, <1>5 DEF ReportKnown

(* Within a run no repository that the configuration made stale becomes      *)
(* stale again.                                                              *)
LEMMA StaleShrinks ==
  ASSUME Reports!TypeOK, (Reports!Next \/ UNCHANGED Reports!vars), StaleIsKnown,
         told'.stale = told.stale,
         bridge'.config = bridge.config, plan' = plan
  PROVE  Reports!Stale' \cap told.stale \subseteq Reports!Stale /\ StaleIsKnown'
<1>1. CASE UNCHANGED repo
  BY <1>1 DEF Reports!Stale, Reports!StaleUnder, Reports!Recorded, Reports!Eff,
     StaleIsKnown
<1>2. ASSUME NEW r \in Repos, Reports!Project(r)
      PROVE  Reports!Stale' \cap told.stale \subseteq Reports!Stale /\ StaleIsKnown'
  <2>1. \A x \in Repos \ {r} : repo'[x] = repo[x]
    BY <1>2 DEF Reports!Project, Reports!Whole, Reports!Partly, Reports!Broken,
       Reports!TypeOK
  <2>2. repo[r] \in RepoRoles /\ r \in DOMAIN repo
    BY DEF Reports!TypeOK, RepoRoles
  <2>3. /\ repo[r].known => repo'[r].known
        /\ repo'[r].map \in {repo[r].map, {Reports!Eff(Reports!MapOf(r))}}
    <3>1. repo'[r] \in {Reports!Given(Reports!Eff(Reports!MapOf(r))), Reports!Some(r),
                        [Reports!Some(r) EXCEPT !.known = TRUE]}
      BY <1>2, <2>2 DEF Reports!Project, Reports!Whole, Reports!Partly, Reports!Broken
    <3>2. CASE repo'[r] = Reports!Given(Reports!Eff(Reports!MapOf(r)))
      BY <3>2 DEF Reports!Given
    <3>3. CASE repo'[r] = Reports!Some(r)
      BY <2>2, <3>3 DEF Reports!Some, RepoRoles
    <3>4. CASE repo'[r] = [Reports!Some(r) EXCEPT !.known = TRUE]
      BY <2>2, <3>4 DEF Reports!Some, RepoRoles
    <3> QED
      BY <3>1, <3>2, <3>3, <3>4
  <2>4. StaleIsKnown'
    BY <2>1, <2>3 DEF StaleIsKnown
  <2>5. ASSUME NEW x \in told.stale, x \in Reports!Stale' PROVE x \in Reports!Stale
    <3>1. x \in Repos /\ repo[x].known
      BY DEF StaleIsKnown
    <3>2. Reports!Eff(Reports!MapOf(x)) \notin Reports!Recorded(x)'
      BY <2>5 DEF Reports!Stale, Reports!StaleUnder, Reports!MapOf, Reports!Eff
    <3>3. repo'[x].map = repo[x].map
      BY <2>1, <2>3, <3>1, <3>2 DEF Reports!Recorded
    <3>4. Reports!Eff(Reports!MapOf(x)) \notin Reports!Recorded(x)
      BY <3>2, <3>3 DEF Reports!Recorded, Reports!Eff
    <3> QED
      BY <3>1, <3>4 DEF Reports!Stale, Reports!StaleUnder, Reports!MapOf
  <2> QED
    BY <2>4, <2>5
<1> QED
  BY <1>1, <1>2 DEF Reports!Next, Reports!Work, Reports!vars, Reports!Connect,
     Reports!Begin, Reports!Recover, Reports!LinkUp, Reports!Resend, Reports!ReportMap,
     Reports!Hold, Reports!Sign, Reports!Send, Reports!Take, Reports!Acknowledge,
     Reports!SessionEnds, Reports!Restart

LEMMA ReportKeeps ==
  ASSUME ReportKnown, PutDone, Reports!TypeOK', \A x : Cur(x) => Cur(x)',
         view' = view \/ (view' \in post.docs /\ view.id < view'.id),
         \A d \in post'.docs : d \in post.docs \/ Cur(d.report),
         \A i \in entry'.ids : i \in entry.ids \/ (post.signed < i /\ i \notin post'.acks),
         \A i \in post'.acks : i \in post.acks \/ i <= view'.id,
         entry'.there \/ ~entry.there \/ entry.ids \cap post.acks # {}
  PROVE  ReportNoted' /\ ReportDone'
<1>1. /\ entry.ids \subseteq Nat /\ entry'.ids \subseteq Nat /\ post.signed \in Nat
      /\ view.id \in Nat /\ view'.id \in Nat
      /\ \A d \in post.docs : d.id \in Nat
      /\ \A d \in post'.docs : d.id \in Nat
  BY DEF ReportKnown, Reports!TypeOK
<1>2. view.id <= view'.id
  BY <1>1
<1>3. ASSUME NEW i \in Nat, CurrentFrom(i)
      PROVE  CurrentFrom(i)'
  <2>1. i <= view'.id => Cur(view'.report)
    BY <1>1, <1>3 DEF CurrentFrom
  <2>2. \A d \in post'.docs : i <= d.id => Cur(d.report)
    BY <1>3 DEF CurrentFrom
  <2> QED
    BY <2>1, <2>2 DEF CurrentFrom, Cur
<1>4. ReportNoted'
  <2> SUFFICES ASSUME NEW i \in entry'.ids
               PROVE  CurrentFrom(i)' /\ (i \in post'.acks => i <= view'.id)
    BY DEF ReportNoted
  <2>1. CASE i \in entry.ids
    <3>1. CurrentFrom(i) /\ (i \in post.acks => i <= view.id)
      BY <2>1 DEF ReportKnown, ReportNoted
    <3> QED
      BY <1>1, <1>2, <1>3, <2>1, <3>1
  <2>2. CASE i \notin entry.ids
    <3>1. post.signed < i /\ i \notin post'.acks
      BY <2>2
    <3>2. ~(i <= view.id) /\ \A d \in post.docs : ~(i <= d.id)
      BY <1>1, <3>1 DEF ReportKnown, ReportDated
    <3>3. CurrentFrom(i)
      BY <3>2 DEF CurrentFrom
    <3> QED
      BY <1>1, <1>3, <3>1, <3>3
  <2> QED
    BY <2>1, <2>2
<1>5. ReportDone'
  <2>1. ASSUME NEW i \in Nat, CurrentFrom(i), i <= view.id
        PROVE  CurrentFrom(view.id)
    BY <1>1, <2>1 DEF CurrentFrom
  <2>2. CASE entry'.there
    BY <2>2 DEF ReportDone
  <2>3. CASE ~entry'.there
    <3>1. CurrentFrom(view.id)
      <4>1. CASE ~entry.there
        BY <4>1 DEF ReportKnown, ReportDone
      <4>2. CASE entry.there
        <5>1. PICK i \in entry.ids : i \in post.acks
          BY <2>3, <4>2
        <5>2. CurrentFrom(i) /\ i <= view.id
          BY <5>1 DEF ReportKnown, ReportNoted
        <5> QED
          BY <1>1, <2>1, <5>2
      <4> QED
        BY <4>1, <4>2
    <3>2. CurrentFrom(view.id)'
      <4>1. /\ view.id <= view'.id => Cur(view'.report)
            /\ \A d \in post'.docs : view.id <= d.id => Cur(d.report)
        BY <1>1, <3>1 DEF CurrentFrom
      <4> QED
        BY <1>1, <1>2, <4>1 DEF CurrentFrom, Cur
    <3> QED
      BY <3>2 DEF ReportDone
  <2> QED
    BY <2>2, <2>3
<1> QED
  BY <1>4, <1>5

LEMMA ReportKnownNext ==
  ASSUME ReportKnown, (Reports!Next \/ UNCHANGED Reports!vars)
  PROVE  ReportKnown'
<1>1. Reports!TypeOK /\ Reports!TypeOK'
  BY ReportTypesNext DEF ReportKnown
<1>2. ASSUME NEW c \in Configs, Reports!Restart(c) PROVE ReportKnown'
  <2>1. \A t \in Reports!Tasks : task'[t].at = "off"
    BY <1>2 DEF Reports!Restart, Reports!Off
  <2>2. BeingSent' /\ ~PutDone'
    BY <2>1 DEF BeingSent, PutDone, Reports!Tasks
  <2>3. ReportDated'
    BY <1>2, <2>1 DEF ReportKnown, ReportDated, Reports!Restart
  <2>4. StaleIsKnown'
    BY <1>1, <1>2 DEF Reports!Restart, StaleIsKnown, Reports!StaleUnder, Reports!TypeOK
  <2> QED
    BY <1>1, <2>2, <2>3, <2>4 DEF ReportKnown
<1>3. CASE bridge'.run = bridge.run /\ bridge'.config = bridge.config /\ plan' = plan
           /\ told'.stale = told.stale
  <2>1. Reports!Stale' \cap told.stale \subseteq Reports!Stale /\ StaleIsKnown'
    BY <1>1, <1>3, StaleShrinks DEF ReportKnown
  <2>2. \A x : Cur(x) => Cur(x)'
    BY <1>3, <2>1 DEF Cur
  <2>3. Cur(Reports!Report)
    BY ReportIs DEF Cur
  <2> DEFINE Rest == ReportDated' /\ BeingSent' /\ (PutDone' => ReportNoted' /\ ReportDone')
  <2> SUFFICES Rest
    BY <1>1, <2>1 DEF ReportKnown
  <2>4. CASE UNCHANGED <<entry, post, view>> /\ (PutDone' => PutDone)
             /\ \A t \in Reports!Tasks : task'[t].at \in {"built", "signed"} => task'[t] = task[t]
    <3>1. ReportDated'
      BY <2>4 DEF ReportKnown, ReportDated
    <3>2. BeingSent'
      BY <2>2, <2>4 DEF ReportKnown, BeingSent, Cur
    <3>3. PutDone' => ReportNoted' /\ ReportDone'
      BY <1>1, <2>2, <2>4, ReportKeeps DEF ReportKnown
    <3> QED
      BY <3>1, <3>2, <3>3
  <2>5. CASE Reports!Connect \/ Reports!Begin \/ Reports!Recover \/ Reports!SessionEnds
               \/ UNCHANGED <<entry, post, view, task>>
    <3>1. Reports!Off.at = "off" /\ Reports!Idle.at = "idle"
            /\ [Reports!Idle EXCEPT !.at = "linkup"].at = "linkup"
      BY DEF Reports!Off, Reports!Idle
    <3>2. \A x \in {Reports!Off, Reports!Idle, [Reports!Idle EXCEPT !.at = "linkup"]} :
              x.at \notin {"built", "signed"}
      BY <3>1
    <3>3. task \in [Reports!Tasks -> Doing] /\ "session" \in Reports!Tasks
            /\ "background" \in Reports!Tasks
      BY <1>1 DEF Reports!TypeOK, Doing, Reports!Tasks
    <3>4. UNCHANGED <<entry, post, view>>
      BY <2>5 DEF Reports!Connect, Reports!Begin, Reports!Recover, Reports!LinkUp,
         Reports!SessionEnds
    <3>5. \A t \in Reports!Tasks : task'[t] = task[t] \/ task'[t].at \notin {"built", "signed"}
      BY <2>5, <3>2, <3>3 DEF Reports!Connect, Reports!Begin, Reports!Recover,
         Reports!LinkUp, Reports!SessionEnds
    <3>6. PutDone' => PutDone
      BY <2>5, <3>1, <3>3 DEF PutDone, Reports!Connect, Reports!Begin, Reports!Recover,
         Reports!LinkUp, Reports!SessionEnds
    <3> QED
      BY <2>4, <3>4, <3>5, <3>6
  <2>6. ASSUME NEW t \in Reports!Tasks, Reports!Hold(t) PROVE Rest
    <3>1. task' = [task EXCEPT ![t] = Reports!Idle] /\ task[t].at = "built"
            /\ Reports!Idle.at = "idle"
      BY <2>6 DEF Reports!Hold, Reports!Idle, Reports!Off
    <3>2. UNCHANGED <<entry, post, view>>
      BY <2>6 DEF Reports!Hold
    <3>3. \A s \in Reports!Tasks : task'[s] = IF s = t THEN Reports!Idle ELSE task[s]
      BY <1>1, <3>1 DEF Reports!TypeOK
    <3>4. PutDone' => PutDone
      BY <3>1, <3>3 DEF PutDone, Reports!Tasks
    <3> QED
      BY <2>4, <3>1, <3>2, <3>3, <3>4
  <2>7. ASSUME NEW t \in Reports!Tasks, Reports!ReportMap(t) PROVE Rest
    <3> DEFINE built == [Reports!Idle EXCEPT !.at = "built", !.report = Reports!Report]
    <3>1. built.at = "built" /\ built.report = Reports!Report
      BY DEF Reports!Idle, Reports!Off
    <3>2. \A s \in Reports!Tasks : task'[s] = IF s = t THEN built ELSE task[s]
      BY <1>1, <2>7 DEF Reports!ReportMap, Reports!TypeOK
    <3> HIDE DEF built
    <3>3. entry'.there /\ entry'.ids = {} /\ UNCHANGED <<post, view>>
      BY <2>7 DEF Reports!ReportMap, Reports!Put
    <3>4. ReportDated'
      BY <3>1, <3>2, <3>3 DEF ReportKnown, ReportDated
    <3>5. BeingSent'
      BY <2>2, <2>3, <3>1, <3>2 DEF ReportKnown, BeingSent, Cur
    <3> QED
      BY <3>3, <3>4, <3>5 DEF ReportNoted, ReportDone
  <2>8. CASE Reports!Resend
    <3> DEFINE built == [Reports!Idle EXCEPT !.at = "built", !.report = Reports!Report]
    <3>1. built.at = "built" /\ built.report = Reports!Report
      BY DEF Reports!Idle, Reports!Off
    <3>2. \A s \in Reports!Tasks : task'[s] = IF s = "background" THEN built ELSE task[s]
      BY <1>1, <2>8 DEF Reports!Resend, Reports!TypeOK
    <3> HIDE DEF built
    <3>3. entry'.there /\ entry'.ids = entry.ids /\ UNCHANGED <<post, view>>
      BY <1>1, <2>8 DEF Reports!Resend, Reports!TypeOK
    <3>4. PutDone
      BY <2>8 DEF Reports!Resend, PutDone
    <3>5. ReportDated'
      BY <3>1, <3>2, <3>3 DEF ReportKnown, ReportDated
    <3>6. BeingSent'
      BY <2>2, <2>3, <3>1, <3>2 DEF ReportKnown, BeingSent, Cur
    <3>7. ReportNoted' /\ ReportDone'
      BY <1>1, <2>2, <3>3, <3>4, ReportKeeps
    <3> QED
      BY <3>5, <3>6, <3>7
  <2>9. ASSUME NEW t \in Reports!Tasks, Reports!Sign(t) PROVE Rest
    <3>1. post.signed \in Nat /\ post'.signed = post.signed + 1
      BY <1>1, <2>9 DEF Reports!Sign, Reports!TypeOK
    <3>2. post'.docs = post.docs /\ post'.acks = post.acks /\ view' = view
      BY <1>1, <2>9 DEF Reports!Sign, Reports!TypeOK
    <3>3. task[t].at = "built" /\ \A s \in Reports!Tasks : s # t => task'[s] = task[s]
      BY <1>1, <2>9 DEF Reports!Sign, Reports!TypeOK
    <3>4. task'[t] = [task[t] EXCEPT !.at = "signed", !.id = post.signed + 1]
      BY <1>1, <2>9 DEF Reports!Sign, Reports!TypeOK
    <3>5. task[t] \in Doing
      BY <1>1 DEF Reports!TypeOK, Doing
    <3>6. task'[t].at = "signed" /\ task'[t].id = post.signed + 1
            /\ task'[t].report = task[t].report
      BY <3>4, <3>5 DEF Doing
    <3>7. /\ entry'.there = entry.there
          /\ \A i \in entry'.ids : i \in entry.ids \/ i = post.signed + 1
      BY <1>1, <2>9 DEF Reports!Sign, Reports!TypeOK
    <3>8. /\ \A i \in entry.ids \cup post.acks : i \in Nat /\ i <= post.signed
          /\ \A d \in post.docs : d.id \in Nat /\ d.id <= post.signed
          /\ view.id \in Nat /\ view.id <= post.signed
          /\ \A s \in Reports!Tasks : task[s].id \in Nat /\ (task[s].at = "signed" => task[s].id <= post.signed)
      BY <1>1 DEF ReportKnown, ReportDated, Reports!TypeOK
    <3>9. ReportDated'
      BY <3>1, <3>2, <3>3, <3>6, <3>7, <3>8 DEF ReportDated
    <3>10. BeingSent'
      BY <2>2, <3>3, <3>6 DEF ReportKnown, BeingSent, Cur
    <3>11. PutDone' => PutDone
      BY <3>3, <3>6 DEF PutDone, Reports!Tasks
    <3>12. post.signed < post.signed + 1 /\ post.signed + 1 \notin post'.acks
      BY <3>1, <3>2, <3>8
    <3>13. PutDone => ReportNoted' /\ ReportDone'
      BY <1>1, <2>2, <3>2, <3>7, <3>12, ReportKeeps
    <3> QED
      BY <3>9, <3>10, <3>11, <3>13
  <2>10. ASSUME NEW t \in Reports!Tasks, Reports!Send(t) PROVE Rest
    <3>1. \A s \in Reports!Tasks : task'[s] = IF s = t THEN Reports!Idle ELSE task[s]
      BY <1>1, <2>10 DEF Reports!Send, Reports!TypeOK
    <3>2. Reports!Idle.at = "idle" /\ task[t].at = "signed" /\ entry' = entry /\ view' = view
      BY <2>10 DEF Reports!Send, Reports!Idle, Reports!Off
    <3>3. \/ post' = post
          \/ post' = [post EXCEPT !.docs = @ \cup {[id |-> task[t].id, report |-> task[t].report]}]
      BY <2>10 DEF Reports!Send
    <3>4. /\ post'.signed = post.signed /\ post'.acks = post.acks
          /\ \A d \in post'.docs :
               d \in post.docs \/ (d.id = task[t].id /\ d.report = task[t].report)
      BY <1>1, <3>3 DEF Reports!TypeOK
    <3>5. Cur(task[t].report) /\ task[t].id <= post.signed
      BY <3>2 DEF ReportKnown, BeingSent, ReportDated
    <3>6. ReportDated'
      BY <3>1, <3>2, <3>4, <3>5 DEF ReportKnown, ReportDated
    <3>7. BeingSent'
      BY <2>2, <3>1, <3>2 DEF ReportKnown, BeingSent, Cur
    <3>8. PutDone' => PutDone
      BY <3>1, <3>2 DEF PutDone, Reports!Tasks
    <3>9. PutDone => ReportNoted' /\ ReportDone'
      BY <1>1, <2>2, <3>2, <3>4, <3>5, ReportKeeps DEF Cur
    <3> QED
      BY <3>6, <3>7, <3>8, <3>9
  <2>11. ASSUME NEW d \in post.docs, Reports!Take(d) PROVE Rest
    <3>1. entry' = entry /\ task' = task /\ view' = (IF d.id > view.id THEN d ELSE view)
      BY <2>11 DEF Reports!Take
    <3>2. post \in [signed : Nat, docs : SUBSET [id : Nat, report : Reports!Reports],
                    acks : SUBSET Nat]
      BY <1>1 DEF Reports!TypeOK
    <3>3. /\ post'.signed = post.signed /\ post'.docs \in {post.docs, post.docs \ {d}}
          /\ post'.acks \in {post.acks, post.acks \cup {d.id}}
      BY <2>11, <3>2 DEF Reports!Take
    <3>4. /\ \A x \in post'.docs : x \in post.docs
          /\ \A i \in post'.acks : i \in post.acks \/ i = d.id
      BY <3>3
    <3>5. d.id \in Nat /\ view.id \in Nat
      BY <1>1 DEF Reports!TypeOK
    <3>6. (view' = view /\ d.id <= view.id) \/ (view' = d /\ view.id < d.id)
      BY <3>1, <3>5
    <3>7. d.id <= view'.id
      BY <3>5, <3>6
    <3>8. ReportDated'
      BY <3>1, <3>3, <3>4, <3>6 DEF ReportKnown, ReportDated
    <3>9. BeingSent'
      BY <2>2, <3>1 DEF ReportKnown, BeingSent, Cur
    <3>10. PutDone' = PutDone
      BY <3>1 DEF PutDone
    <3>11. view' = view \/ (view' \in post.docs /\ view.id < view'.id)
      BY <3>6
    <3>12. PutDone => ReportNoted' /\ ReportDone'
      BY <1>1, <2>2, <3>1, <3>4, <3>7, <3>11, ReportKeeps
    <3> QED
      BY <3>8, <3>9, <3>10, <3>12
  <2>12. ASSUME NEW i \in post.acks, Reports!Acknowledge(i) PROVE Rest
    <3>1. view' = view /\ task' = task
      BY <2>12 DEF Reports!Acknowledge
    <3>2. /\ post'.signed = post.signed /\ post'.docs = post.docs
          /\ \A j \in post'.acks : j \in post.acks
      BY <1>1, <2>12 DEF Reports!Acknowledge, Reports!TypeOK
    <3>3. \/ entry' = entry
          \/ i \in entry.ids /\ entry'.ids = {}
      BY <2>12 DEF Reports!Acknowledge, Reports!Answers, Reports!NoEntry
    <3>4. ReportDated'
      BY <3>1, <3>2, <3>3 DEF ReportKnown, ReportDated
    <3>5. BeingSent'
      BY <2>2, <3>1 DEF ReportKnown, BeingSent, Cur
    <3>6. PutDone' = PutDone
      BY <3>1 DEF PutDone
    <3>7. /\ \A j \in entry'.ids : j \in entry.ids
          /\ entry'.there \/ ~entry.there \/ entry.ids \cap post.acks # {}
      BY <3>3
    <3>8. PutDone => ReportNoted' /\ ReportDone'
      BY <1>1, <2>2, <3>1, <3>2, <3>7, ReportKeeps
    <3> QED
      BY <3>4, <3>5, <3>6, <3>8
  <2>13. ASSUME NEW r \in Repos, Reports!Project(r) PROVE Rest
    BY <2>5, <2>13 DEF Reports!Project
  <2>14. ASSUME NEW c \in Configs, Reports!Restart(c) PROVE Rest
    BY <1>2, <2>14 DEF ReportKnown
  <2>15. CASE UNCHANGED Reports!vars
    BY <2>5, <2>15 DEF Reports!vars
  <2> HIDE DEF Rest
  <2> QED
    BY <2>5, <2>6, <2>7, <2>8, <2>9, <2>10, <2>11, <2>12, <2>13, <2>14, <2>15 DEF Reports!Next,
       Reports!Work
<1> QED
  BY <1>1, <1>2, <1>3, SameRun

(* While nothing stands in the outbox the VTC has this run's report, with    *)
(* every repository the configuration made stale and that still is: no       *)
(* answer to an earlier report, and no crash, loses it (bridge.rs:1148).     *)
LEMMA AckedIsTaken ==
  ASSUME ReportKnown
  PROVE  Reports!AckedIsKnown
<1> SUFFICES ASSUME task["session"].at = "idle", ~entry.there
             PROVE  view.report.run = bridge.run
                      /\ Reports!Stale \cap told.stale \subseteq view.report.stale
  BY DEF Reports!AckedIsKnown
<1>1. CurrentFrom(view.id)
  BY DEF ReportKnown, PutDone, ReportDone
<1>2. view.id <= view.id
  BY DEF ReportKnown, Reports!TypeOK
<1> QED
  BY <1>1, <1>2 DEF CurrentFrom, Cur

ReportInv == ReportKnown /\ Truthful /\ \A r \in Repos : Accounted(r)

LEMMA ReportInit ==
  ASSUME Reports!Init
  PROVE  ReportInv
BY ReportKnownFirst, TruthfulFirst, AccountedFirst DEF ReportInv

LEMMA ReportNext ==
  ASSUME ReportInv, (Reports!Next \/ UNCHANGED Reports!vars)
  PROVE  ReportInv'
<1>1. Reports!TypeOK
  BY DEF ReportInv, ReportKnown
<1> QED
  BY <1>1, ReportKnownNext, TruthfulNext, AccountedNext DEF ReportInv

LEMMA ReportSafe ==
  ASSUME ReportInv
  PROVE  Reports!TypeOK /\ Reports!TheVtcKnowsTheRoles /\ Reports!AckedIsKnown
           /\ Reports!LeftIsListed
<1>1. Reports!TypeOK
  BY DEF ReportInv, ReportKnown
<1> QED
  BY <1>1, RolesAreKnown, AckedIsTaken, LeftIsKnown DEF ReportInv

-----------------------------------------------------------------------------
(* Closing a pull request: PullClosing.                                     *)

(* What the job under way knows of the pull request.                        *)
PullSeen ==
  /\ job.at # "idle" => job.of \in Orders
  /\ job.at = "comment" => job.of \notin pull.comments
  /\ job.at = "close" => job.of \in pull.comments \cup told.deleted
  /\ job.at \in {"look", "comment", "close"} /\ ~job.late =>
       pull.reopened = Pull!Never \/ pull.reopened <= issued[job.of]
(* A comment that was posted is there until somebody deletes it.            *)
PostedStay == \A j \in Orders : told.posted[j] # 0 => j \in pull.comments \cup told.deleted
(* The types, variable by variable.                                         *)
Pulls == [state : {"open", "closed", "merged"}, reopened : {Pull!Never} \cup 0..MaxTime,
          comments : SUBSET Orders]
PullJobs == [of : Orders \cup {Pull!None}, at : {"idle", "read", "look", "comment", "close"},
             late : BOOLEAN]
PullTold == [posted : [Orders -> Nat], deleted : SUBSET Orders, late : BOOLEAN,
             closedBy : Orders \cup {Pull!None}]
PullCounts == [faults : 0..Bounds.pull.faults, edits : 0..Bounds.pull.edits]
PullInv ==
  /\ Pull!TypeOK /\ PullSeen /\ PostedStay
  /\ Pull!OneComment /\ Pull!ReopenStands /\ Pull!ClosedWithReason

LEMMA PullTypes ==
    /\ Pull!TypeOK <=> /\ now \in 0..MaxTime /\ pull \in Pulls /\ issued \in [Orders -> 0..MaxTime]
                       /\ job \in PullJobs /\ count \in PullCounts /\ told \in PullTold
                       /\ outcome \in [Orders -> {"none", "failed", "partial", "left", "closed"}]
    /\ Pull!TypeOK' <=> /\ now' \in 0..MaxTime /\ pull' \in Pulls /\ issued' \in [Orders -> 0..MaxTime]
                        /\ job' \in PullJobs /\ count' \in PullCounts /\ told' \in PullTold
                        /\ outcome' \in [Orders -> {"none", "failed", "partial", "left",
                                                    "closed"}]
  BY DEF Pull!TypeOK, Pulls, PullJobs, PullCounts, PullTold

LEMMA PullInit == ASSUME Pull!Init PROVE PullInv
<1>1. Pull!TypeOK
  BY PullFacts DEF Pull!Init, Pull!TypeOK, Pull!Idle, Pull!Never, Pull!None
<1>2. PullSeen /\ PostedStay /\ Pull!OneComment /\ Pull!ReopenStands /\ Pull!ClosedWithReason
  BY DEF Pull!Init, PullSeen, PostedStay, Pull!OneComment, Pull!ReopenStands,
     Pull!ClosedWithReason, Pull!Idle, Pull!Never, Pull!None
<1> QED BY <1>1, <1>2 DEF PullInv

LEMMA PullCounted ==
    ASSUME count \in PullCounts, Pull!Fault \/ Pull!Fine \/ Pull!Edit
    PROVE  count' \in PullCounts
  BY PullFacts DEF PullCounts, Pull!Fault, Pull!Fine, Pull!Edit

LEMMA PullNext == ASSUME PullInv, Pull!Next PROVE PullInv'
<1> USE PullFacts DEF Pull!None, Pull!Never, Pull!Idle
<1>0. /\ now \in 0..MaxTime /\ pull \in Pulls /\ issued \in [Orders -> 0..MaxTime]
      /\ job \in PullJobs /\ count \in PullCounts /\ told \in PullTold
      /\ outcome \in [Orders -> {"none", "failed", "partial", "left", "closed"}]
      /\ PullSeen /\ PostedStay /\ Pull!OneComment /\ Pull!ReopenStands /\ Pull!ClosedWithReason
  BY PullTypes DEF PullInv
<1> DEFINE Kept == /\ PullSeen' /\ PostedStay' /\ Pull!OneComment' /\ Pull!ReopenStands'
                   /\ Pull!ClosedWithReason'
           Typed == /\ now' \in 0..MaxTime /\ pull' \in Pulls /\ issued' = issued
                    /\ job' \in PullJobs /\ told' \in PullTold
                    /\ outcome' \in [Orders -> {"none", "failed", "partial", "left", "closed"}]
<1>1. ASSUME Pull!ReadPull PROVE Kept /\ Typed
  <2>1. job' = Pull!Idle \/ (job' = [job EXCEPT !.at = "look"] /\ ~Pull!LeaveAlone)
    BY <1>1 DEF Pull!ReadPull, Pull!Report, Pull!To
  <2>2. UNCHANGED <<now, pull, issued, told>> /\ job.at = "read"
    BY <1>1 DEF Pull!ReadPull
  <2>3. job' \in PullJobs /\ (job'.at = "idle" \/ (job'.at = "look" /\ job'.of = job.of))
    <3>1. CASE job' = Pull!Idle
      BY <3>1 DEF PullJobs
    <3>2. CASE job' = [job EXCEPT !.at = "look"]
      BY <1>0, <3>2 DEF PullJobs
    <3> QED BY <2>1, <3>1, <3>2
  <2>4. outcome' \in [Orders -> {"none", "failed", "partial", "left", "closed"}]
    BY <1>0, <1>1 DEF Pull!ReadPull, Pull!Report, Pull!To
  <2>5. PullSeen'
    BY <1>0, <2>1, <2>2, <2>3 DEF PullSeen, Pull!LeaveAlone, PullJobs, Pulls
  <2> QED BY <1>0, <2>2, <2>3, <2>4, <2>5 DEF PostedStay, Pull!OneComment,
             Pull!ReopenStands, Pull!ClosedWithReason
<1>2. ASSUME Pull!LookForComment PROVE Kept /\ Typed
  <2>1. \/ job' = Pull!Idle
        \/ job' = [job EXCEPT !.at = IF job.of \in pull.comments THEN "close" ELSE "comment"]
    BY <1>2 DEF Pull!LookForComment, Pull!Report, Pull!To, Pull!HasOwnComment
  <2>2. UNCHANGED <<now, pull, issued, told>> /\ job.at = "look"
    BY <1>2 DEF Pull!LookForComment
  <2>3. job' \in PullJobs /\ (job'.at = "idle" \/
           (job'.late = job.late /\ job'.of = job.of
               /\ job'.at = IF job.of \in pull.comments THEN "close" ELSE "comment"))
    <3>1. CASE job' = Pull!Idle
      BY <3>1 DEF PullJobs
    <3>2. CASE job' = [job EXCEPT !.at = IF job.of \in pull.comments THEN "close" ELSE "comment"]
      BY <1>0, <3>2 DEF PullJobs
    <3> QED BY <2>1, <3>1, <3>2
  <2>4. outcome' \in [Orders -> {"none", "failed", "partial", "left", "closed"}]
    BY <1>0, <1>2 DEF Pull!LookForComment, Pull!Report, Pull!To
  <2>5. PullSeen'
    BY <1>0, <2>1, <2>2, <2>3 DEF PullSeen
  <2> QED BY <1>0, <2>2, <2>3, <2>4, <2>5 DEF PostedStay, Pull!OneComment,
             Pull!ReopenStands, Pull!ClosedWithReason
<1>3. ASSUME Pull!Comment PROVE Kept /\ Typed
  <2>1. \/ job' = Pull!Idle
        \/ (job' = [job EXCEPT !.at = "close"] /\ pull'.comments = pull.comments \cup {job.of})
    BY <1>0, <1>3 DEF Pull!Comment, Pull!NotCommented, Pull!Report, Pull!To, Pulls
  <2>2. UNCHANGED <<now, issued>> /\ job.at = "comment" /\ job.of \in Orders
          /\ job.of \notin pull.comments
    BY <1>0, <1>3 DEF Pull!Comment, PullSeen
  <2>3. job' \in PullJobs /\ (job'.at = "idle" \/
           (job'.late = job.late /\ job'.of = job.of /\ job'.at = "close"))
    <3>1. CASE job' = Pull!Idle
      BY <3>1 DEF PullJobs
    <3>2. CASE job' = [job EXCEPT !.at = "close"]
      BY <1>0, <3>2 DEF PullJobs
    <3> QED BY <2>1, <3>1, <3>2
  <2>4. outcome' \in [Orders -> {"none", "failed", "partial", "left", "closed"}]
    BY <1>0, <1>3 DEF Pull!Comment, Pull!NotCommented, Pull!Report, Pull!To
  <2>5. \/ pull' = pull /\ told' = told
        \/ /\ pull' \in Pulls /\ pull'.comments = pull.comments \cup {job.of}
            /\ pull'.reopened = pull.reopened
           /\ told'.posted = [told.posted EXCEPT ![job.of] = @ + 1]
           /\ told' \in PullTold /\ told'.deleted = told.deleted /\ told'.late = told.late
           /\ told'.closedBy = told.closedBy
    <3>1. \/ pull' = pull /\ told' = told
          \/ /\ pull' = [pull EXCEPT !.comments = @ \cup {job.of}]
             /\ told' = [told EXCEPT !.posted[job.of] = @ + 1]
      BY <1>3 DEF Pull!Comment
    <3>2. CASE pull' = pull /\ told' = told
      BY <3>2
    <3>3. CASE /\ pull' = [pull EXCEPT !.comments = @ \cup {job.of}]
               /\ told' = [told EXCEPT !.posted[job.of] = @ + 1]
      <4>1. pull' \in Pulls /\ pull'.comments = pull.comments \cup {job.of}
              /\ pull'.reopened = pull.reopened
        BY <1>0, <3>3, <2>2 DEF Pulls
      <4>2. /\ told'.posted = [told.posted EXCEPT ![job.of] = @ + 1]
            /\ told' \in PullTold /\ told'.deleted = told.deleted /\ told'.late = told.late
            /\ told'.closedBy = told.closedBy
        BY <1>0, <3>3, <2>2 DEF PullTold
      <4> QED BY <4>1, <4>2
    <3> QED BY <3>1, <3>2, <3>3
  <2>6. PullSeen'
    BY <1>0, <2>1, <2>2, <2>3, <2>5 DEF PullSeen
  <2>7. PostedStay' /\ Pull!OneComment'
    BY <1>0, <2>2, <2>5 DEF PostedStay, Pull!OneComment, PullTold
  <2>8. Pull!ReopenStands' /\ Pull!ClosedWithReason'
    BY <1>0, <2>2, <2>5 DEF Pull!ReopenStands, Pull!ClosedWithReason
  <2> QED BY <1>0, <2>2, <2>3, <2>4, <2>5, <2>6, <2>7, <2>8
<1>4. ASSUME Pull!Close PROVE Kept /\ Typed
  <2>1. job' = Pull!Idle /\ UNCHANGED <<now, issued>> /\ job.at = "close" /\ job.of \in Orders
    BY <1>0, <1>4 DEF Pull!Close, Pull!Report, PullSeen
  <2>2. outcome' \in [Orders -> {"none", "failed", "partial", "left", "closed"}]
    BY <1>0, <1>4 DEF Pull!Close, Pull!Report
  <2>3. /\ pull' \in Pulls /\ pull'.comments = pull.comments /\ pull'.reopened = pull.reopened
        /\ told' \in PullTold /\ told'.posted = told.posted /\ told'.deleted = told.deleted
        /\ \/ told'.late = told.late /\ told'.closedBy = told.closedBy
           \/ told'.late = job.late /\ told'.closedBy = job.of
    BY <1>0, <1>4, <2>1 DEF Pull!Close, Pulls, PullTold, PullJobs
  <2>4. job' \in PullJobs /\ job'.at = "idle"
    BY <2>1 DEF PullJobs, Pull!Idle
  <2> QED BY <1>0, <2>1, <2>2, <2>3, <2>4 DEF PullSeen, PostedStay, Pull!OneComment,
             Pull!ReopenStands, Pull!ClosedWithReason
<1>5. ASSUME Pull!Crash PROVE Kept /\ Typed
  <2>1. job' \in PullJobs /\ job'.at = "read" /\ job'.of = job.of /\ job.at # "idle"
    BY <1>0, <1>5 DEF Pull!Crash, PullJobs
  <2>2. UNCHANGED <<now, pull, issued, outcome, told>>
    BY <1>5 DEF Pull!Crash
  <2> QED BY <1>0, <2>1, <2>2 DEF PullSeen, PostedStay, Pull!OneComment,
             Pull!ReopenStands, Pull!ClosedWithReason
<1>6. ASSUME Pull!PersonCloses PROVE Kept /\ Typed
  <2>1. UNCHANGED <<now, issued, job, outcome>>
    BY <1>6 DEF Pull!PersonCloses
  <2>2. /\ pull' \in Pulls /\ pull'.comments = pull.comments /\ pull'.reopened = pull.reopened
        /\ told' \in PullTold /\ told'.posted = told.posted /\ told'.deleted = told.deleted
        /\ told'.closedBy = Pull!None
    BY <1>0, <1>6 DEF Pull!PersonCloses, Pulls, PullTold
  <2> QED BY <1>0, <2>1, <2>2 DEF PullSeen, PostedStay, Pull!OneComment,
             Pull!ReopenStands, Pull!ClosedWithReason
<1>7. ASSUME Pull!PersonReopens PROVE Kept /\ Typed
  <2>1. UNCHANGED <<now, issued, outcome>>
    BY <1>7 DEF Pull!PersonReopens
  <2>2. /\ pull' \in Pulls /\ pull'.comments = pull.comments
        /\ told' \in PullTold /\ told'.posted = told.posted /\ told'.deleted = told.deleted
        /\ told'.closedBy = Pull!None
    BY <1>0, <1>7 DEF Pull!PersonReopens, Pulls, PullTold
  <2>3. /\ job' \in PullJobs /\ job'.at = job.at /\ job'.of = job.of
        /\ job.at \in {"look", "comment", "close"} => job'.late
    <3> DEFINE b == job.at \in {"look", "comment", "close"}
    <3>1. job' = [job EXCEPT !.late = b] /\ b \in BOOLEAN
      BY <1>7 DEF Pull!PersonReopens
    <3>2. b => b = TRUE
      OBVIOUS
    <3> HIDE DEF b
    <3>3. job' \in PullJobs /\ job'.at = job.at /\ job'.of = job.of /\ job'.late = b
      BY <1>0, <3>1 DEF PullJobs
    <3> QED BY <3>2, <3>3 DEF b
  <2> QED BY <1>0, <2>1, <2>2, <2>3 DEF PullSeen, PostedStay, Pull!OneComment,
             Pull!ReopenStands, Pull!ClosedWithReason
<1>8. ASSUME Pull!Tick PROVE Kept /\ Typed
  BY <1>0, <1>8 DEF Pull!Tick, PullSeen, PostedStay, Pull!OneComment, Pull!ReopenStands,
     Pull!ClosedWithReason
<1>9. ASSUME NEW j \in Orders, Pull!Start(j) PROVE Kept /\ Typed
  <2>1. job' \in PullJobs /\ job'.at = "read" /\ job'.of = j
    BY <1>9 DEF Pull!Start, PullJobs
  <2> QED BY <1>0, <1>9, <2>1 DEF Pull!Start, PullSeen, PostedStay, Pull!OneComment,
             Pull!ReopenStands, Pull!ClosedWithReason
<1>10. ASSUME NEW j \in Orders, Pull!PersonDeletes(j) PROVE Kept /\ Typed
  <2>1. UNCHANGED <<now, issued, job, outcome>>
    BY <1>10 DEF Pull!PersonDeletes
  <2>2. /\ pull' \in Pulls /\ pull'.comments = pull.comments \ {j}
        /\ pull'.reopened = pull.reopened
        /\ told' \in PullTold /\ told'.posted = told.posted
        /\ told'.deleted = told.deleted \cup {j}
        /\ told'.closedBy = told.closedBy /\ told'.late = told.late
    BY <1>0, <1>10 DEF Pull!PersonDeletes, Pulls, PullTold
  <2> QED BY <1>0, <2>1, <2>2 DEF PullSeen, PostedStay, Pull!OneComment,
             Pull!ReopenStands, Pull!ClosedWithReason
<1>11. Kept /\ Typed
  BY <1>1, <1>2, <1>3, <1>4, <1>5, <1>6, <1>7, <1>8, <1>9, <1>10 DEF Pull!Next,
     Pull!RunJob
<1>12. count' \in PullCounts
  <2>1. Pull!Fault \/ Pull!Fine \/ Pull!Edit
    BY DEF Pull!Next, Pull!RunJob, Pull!ReadPull, Pull!LookForComment, Pull!Comment,
       Pull!Close, Pull!Crash, Pull!PersonCloses, Pull!PersonReopens, Pull!Tick,
       Pull!Start, Pull!PersonDeletes, Pull!Fine
  <2> QED BY <1>0, <2>1, PullCounted
<1> QED BY <1>0, <1>11, <1>12, PullTypes DEF PullInv

-----------------------------------------------------------------------------
(* Roles on GitHub: GitHubRoles.                                            *)

(* The types, variable by variable.                                         *)
RolesHeld == [People -> Roles!Roles]
RolesJobs ==
  [at : {"idle", "members", "invitations", "change", "access", "record"},
   want : [People -> Roles!Roles \cup {Roles!Unlisted}], remove : SUBSET People,
    asked : SUBSET People,
   member : [People -> Roles!Roles], invited : [People -> Roles!Roles],
   todo : SUBSET People, failed : SUBSET People, check : SUBSET People]
RolesLast == [want : [People -> Roles!Roles \cup {Roles!Unlisted}], remove : SUBSET People,
              ok : BOOLEAN]
RolesCounts == [jobs : 0..Bounds.roles.jobs, faults : 0..Bounds.roles.faults,
                edits : 0..Bounds.roles.edits]
RolesTold == [moved : SUBSET People, missed : SUBSET People]
RolesTyped ==
  /\ role \in RolesHeld /\ invite \in RolesHeld /\ rec \in RolesHeld
  /\ job \in RolesJobs /\ last \in RolesLast /\ told \in RolesTold

(* Nobody is a member and invited.                                          *)
OneStanding == \A p \in People : role[p] = "none" \/ invite[p] = "none"
Named(j) == Roles!Listed(j) \cup j.remove
After == {"change", "access", "record"}
(* What the job works on.                                                   *)
InWork ==
  /\ job.at \in After \cup {"invitations"} => Named(job) \subseteq job.asked
  /\ job.at \in After => job.todo \subseteq job.asked
  /\ job.at \in {"access", "record"} => job.todo = {}
  /\ job.at = "record" => job.check = {}
(* Where people the job has not come to stand, by what it read of them.     *)
Reading ==
  job.at = "invitations" =>
    \A p \in People \ told.moved : job.member[p] # "none" => role[p] = job.member[p]
StandsAsRead ==
  job.at \in After => \A p \in job.todo \ (told.moved \cup told.missed) :
    /\ job.member[p] # "none" => role[p] # "none"
    /\ job.member[p] = "none" /\ job.invited[p] = "none" =>
         role[p] = "none" /\ invite[p] = "none"
(* Where those stand whom it has come to, or who slipped through the reads. *)
DoneAsAsked ==
  job.at \in After => \A p \in Named(job) \ (told.moved \cup told.missed) :
    p \in job.todo \/ p \in job.failed \/ Roles!Have(role, invite, p) = Roles!Wanted(job, p)
MissedStay ==
  job.at \in After => \A p \in told.missed \ told.moved :
    /\ role[p] # "none" /\ job.member[p] = "none" /\ job.invited[p] = "none"
    /\ p \in job.todo => Roles!Wanted(job, p) # "none"
(* Whoever is removed is out, with no invitation to come back by.           *)
OutForGood(p) == role[p] = "none" /\ invite[p] = "none" /\ p \notin Teammates
RemovedKnown ==
  job.at \in After => \A p \in job.remove \ told.moved :
    p \in job.check \/ p \in job.failed \/ OutForGood(p)
RemovedStayOut ==
  job.at = "idle" /\ last.ok => \A p \in last.remove \ told.moved : OutForGood(p)
RolesKept ==
  /\ RolesTyped /\ OneStanding /\ InWork /\ Reading /\ StandsAsRead /\ DoneAsAsked
  /\ MissedStay /\ RemovedKnown /\ RemovedStayOut /\ Roles!SuccessGivesRoles
RolesInv == RolesKept /\ count \in RolesCounts

LEMMA RolesTypes ==
    /\ Roles!TypeOK <=> RolesTyped /\ count \in RolesCounts
    /\ Roles!TypeOK' <=> RolesTyped' /\ count' \in RolesCounts
  BY DEF Roles!TypeOK, RolesTyped, RolesHeld, RolesJobs, RolesLast, RolesCounts,
     RolesTold

LEMMA RolesIdle ==
    /\ Roles!Nobody \in [People -> Roles!Roles]
    /\ Roles!Idle \in RolesJobs /\ Roles!Idle.at = "idle" /\ Roles!Idle.remove = {}
    /\ Roles!Idle.want \in [People -> Roles!Roles \cup {Roles!Unlisted}]
<1>1. Roles!Nobody \in [People -> Roles!Roles]
  BY DEF Roles!Nobody, Roles!Roles
<1>2. [p \in People |-> Roles!Unlisted] \in [People -> Roles!Roles \cup {Roles!Unlisted}]
  OBVIOUS
<1> QED BY <1>1, <1>2 DEF Roles!Idle, RolesJobs

(* Whom a job names, and what it wants of them, is by two of its fields.    *)
LEMMA RolesSame ==
    ASSUME NEW j, NEW k, j.want = k.want, j.remove = k.remove
    PROVE  /\ Roles!Listed(j) = Roles!Listed(k) /\ Named(j) = Named(k)
           /\ \A p : Roles!Wanted(j, p) = Roles!Wanted(k, p)
  BY DEF Roles!Listed, Named, Roles!Wanted

LEMMA RolesWanted ==
    ASSUME RolesTyped, NEW p \in People
    PROVE  /\ Roles!Wanted(job, p) \in Roles!Roles
           /\ p \in job.remove => Roles!Wanted(job, p) = "none"
  BY DEF Roles!Wanted, Roles!Listed, RolesTyped, RolesJobs, Roles!Roles, Roles!Unlisted

LEMMA RolesInit == ASSUME Roles!Init PROVE RolesInv
<1>1. RolesTyped
  BY RolesIdle DEF Roles!Init, RolesTyped, RolesHeld, RolesLast, RolesTold
<1>2. count \in RolesCounts
  BY RolesFacts DEF Roles!Init, RolesCounts
<1>3. job.at = "idle" /\ last.ok = FALSE /\ \A p \in People : role[p] = "none"
  BY RolesIdle DEF Roles!Init, Roles!Nobody
<1> QED BY <1>1, <1>2, <1>3 DEF RolesInv, RolesKept, OneStanding, InWork, Reading,
           StandsAsRead, DoneAsAsked, MissedStay, RemovedKnown, RemovedStayOut,
           Roles!SuccessGivesRoles, After

LEMMA RolesCounted ==
    ASSUME count \in RolesCounts, Roles!Next
    PROVE  count' \in RolesCounts
<1>1. CASE UNCHANGED count
  BY <1>1
<1>2. CASE Roles!Fault
  BY <1>2, RolesFacts DEF Roles!Fault, RolesCounts
<1>3. CASE count.jobs < Bounds.roles.jobs /\ count' = [count EXCEPT !.jobs = @ + 1]
  BY <1>3, RolesFacts DEF RolesCounts
<1>4. CASE count.edits < Bounds.roles.edits /\ count' = [count EXCEPT !.edits = @ + 1]
  BY <1>4, RolesFacts DEF RolesCounts
<1>5. ASSUME NEW p \in People, Roles!ChangeRole(p) PROVE Roles!Fault \/ UNCHANGED count
  BY <1>5 DEF Roles!ChangeRole, Roles!Fine
<1>6. ASSUME NEW p \in People, Roles!RemainingAccess(p) PROVE Roles!Fault \/ UNCHANGED count
  BY <1>6 DEF Roles!RemainingAccess, Roles!Fine
<1>7. Roles!Fault \/ UNCHANGED count
        \/ (count.jobs < Bounds.roles.jobs /\ count' = [count EXCEPT !.jobs = @ + 1])
        \/ (count.edits < Bounds.roles.edits /\ count' = [count EXCEPT !.edits = @ + 1])
  BY <1>5, <1>6 DEF Roles!Next, Roles!RunJob, Roles!Start, Roles!ReadMembers,
     Roles!ReadInvitations, Roles!Changed, Roles!RecordRoles, Roles!Crash, Roles!Edit,
     Roles!Accept, Roles!Decline, Roles!AdminSets
<1> QED BY <1>1, <1>2, <1>3, <1>4, <1>7

(* A job that failed leaves nothing to say but of where people stand.       *)
LEMMA RolesFailed ==
    ASSUME RolesKept, Roles!End(FALSE), role' \in RolesHeld, invite' \in RolesHeld, OneStanding',
           UNCHANGED rec, told' \in RolesTold
    PROVE  RolesKept'
<1>1. /\ job' \in RolesJobs /\ job'.at = "idle"
      /\ last' \in RolesLast /\ last'.ok = FALSE
  BY RolesIdle DEF Roles!End, RolesKept, RolesTyped, RolesJobs, RolesLast
<1>2. RolesTyped'
  BY <1>1 DEF RolesKept, RolesTyped
<1> QED BY <1>1, <1>2 DEF RolesKept, InWork, Reading, StandsAsRead, DoneAsAsked,
           MissedStay, RemovedKnown, RemovedStayOut, Roles!SuccessGivesRoles, After

LEMMA RolesStart ==
    ASSUME RolesKept, NEW want \in [People -> Roles!Roles \cup {Roles!Unlisted}],
           NEW remove \in SUBSET People,
           Roles!Start(want, remove)
    PROVE  RolesKept'
<1>1. job' \in RolesJobs /\ job'.at = "members"
  BY RolesIdle DEF Roles!Start, RolesJobs
<1>2. told' \in RolesTold /\ UNCHANGED <<role, invite, rec, last>>
  BY DEF Roles!Start, RolesTold, Roles!forge
<1>3. RolesTyped'
  BY <1>1, <1>2 DEF RolesKept, RolesTyped
<1> QED BY <1>1, <1>2, <1>3 DEF RolesKept, OneStanding, InWork, Reading, StandsAsRead,
           DoneAsAsked, MissedStay, RemovedKnown, RemovedStayOut,
           Roles!SuccessGivesRoles, After

LEMMA RolesReadMembers == ASSUME RolesKept, Roles!ReadMembers PROVE RolesKept'
<1>1. UNCHANGED <<role, invite, rec, told>>
  BY DEF Roles!ReadMembers, Roles!forge
<1>2. CASE Roles!End(FALSE)
  BY <1>1, <1>2, RolesFailed DEF RolesKept, RolesTyped, OneStanding
<1>3. CASE /\ job' = [job EXCEPT !.at = "invitations", !.member = role,
                        !.asked = Roles!Listed(job) \cup job.remove \cup {p \in People : rec[p] # "none"}]
           /\ UNCHANGED <<last, count>>
  <2>1. Roles!Listed(job) \cup job.remove \cup {p \in People : rec[p] # "none"} \in SUBSET People
    BY DEF Roles!Listed, RolesKept, RolesTyped, RolesJobs
  <2>2. PICK asked \in SUBSET People :
          asked = Roles!Listed(job) \cup job.remove \cup {p \in People : rec[p] # "none"}
    BY <2>1
  <2>3. job' = [job EXCEPT !.at = "invitations", !.member = role, !.asked = asked]
    BY <1>3, <2>2
  <2>4. /\ job' \in RolesJobs /\ job'.at = "invitations" /\ job'.member = role
        /\ job'.want = job.want /\ job'.remove = job.remove /\ job'.asked = asked
    BY <2>3 DEF RolesKept, RolesTyped, RolesJobs, RolesHeld
  <2>5. RolesTyped'
    BY <1>1, <1>3, <2>4 DEF RolesKept, RolesTyped
  <2>6. Named(job') \subseteq job'.asked
    BY <2>2, <2>4, RolesSame DEF Named
  <2> QED BY <1>1, <1>3, <2>4, <2>5, <2>6 DEF RolesKept, OneStanding, InWork, Reading,
             StandsAsRead, DoneAsAsked, MissedStay, RemovedKnown, RemovedStayOut,
             Roles!SuccessGivesRoles, After
<1> QED BY <1>2, <1>3 DEF Roles!ReadMembers

LEMMA RolesReadInvitations == ASSUME RolesKept, Roles!ReadInvitations PROVE RolesKept'
<1> DEFINE missed == {p \in People : role[p] # "none" /\ job.member[p] = "none"
                                       /\ invite[p] = "none"}
<1>1. UNCHANGED <<role, invite, rec>> /\ job.at = "invitations"
  BY DEF Roles!ReadInvitations, Roles!forge
<1>2. told' \in RolesTold /\ told'.moved = told.moved /\ told'.missed = missed
  <2>1. missed \in SUBSET People /\ told' = [told EXCEPT !.missed = missed]
    BY DEF Roles!ReadInvitations
  <2> HIDE DEF missed
  <2> QED BY <2>1 DEF RolesKept, RolesTyped, RolesTold
<1>3. CASE Roles!End(FALSE)
  BY <1>1, <1>2, <1>3, RolesFailed DEF RolesKept, RolesTyped, OneStanding
<1>4. CASE /\ job' = [job EXCEPT !.at = "change", !.invited = invite,
                        !.todo = {p \in job.asked : Roles!AtOdds(p)}, !.check = job.remove]
           /\ UNCHANGED <<last, count>>
  <2>1. PICK todo \in SUBSET People : todo = {p \in job.asked : Roles!AtOdds(p)}
    BY DEF RolesKept, RolesTyped, RolesJobs
  <2>2. job' = [job EXCEPT !.at = "change", !.invited = invite, !.todo = todo,
                !.check = job.remove]
    BY <1>4, <2>1
  <2>3. /\ job' \in RolesJobs /\ job'.at = "change" /\ job'.member = job.member
        /\ job'.invited = invite /\ job'.todo = todo /\ job'.check = job.remove
        /\ job'.want = job.want /\ job'.remove = job.remove /\ job'.asked = job.asked
    BY <2>2 DEF RolesKept, RolesTyped, RolesJobs, RolesHeld
  <2>4. RolesTyped'
    BY <1>1, <1>2, <1>4, <2>3 DEF RolesKept, RolesTyped
  <2>5. Named(job') = Named(job) /\ \A p : Roles!Wanted(job', p) = Roles!Wanted(job, p)
    BY <2>3, RolesSame
  <2>6. InWork' /\ Reading' /\ RemovedKnown' /\ RemovedStayOut' /\ Roles!SuccessGivesRoles'
    BY <1>1, <2>1, <2>3, <2>5 DEF RolesKept, InWork, Reading, RemovedKnown,
       RemovedStayOut, Roles!SuccessGivesRoles, After
  <2>7. ASSUME NEW p \in People \ (told.moved \cup missed)
        PROVE  Roles!Have(role, invite, p) = Roles!Have(job.member, invite, p)
    BY <1>1, <2>7 DEF Roles!Have, RolesKept, Reading, OneStanding
  <2>8. StandsAsRead'
    BY <1>1, <1>2, <2>1, <2>3 DEF RolesKept, StandsAsRead, Reading, RolesTyped,
       RolesHeld, RolesJobs
  <2>9. DoneAsAsked'
    <3> SUFFICES ASSUME NEW p \in Named(job), p \notin told.moved \cup missed, p \notin todo
                 PROVE  Roles!Have(role, invite, p) = Roles!Wanted(job, p)
      BY <1>1, <1>2, <2>3, <2>5 DEF DoneAsAsked
    <3>1. p \in job.asked /\ p \in People
      BY <1>1 DEF RolesKept, InWork, After, RolesTyped, RolesJobs
    <3>2. ~Roles!AtOdds(p)
      BY <2>1, <3>1
    <3> QED BY <2>7, <3>1, <3>2 DEF Roles!AtOdds
  <2>10. MissedStay'
    <3> SUFFICES ASSUME NEW p \in missed
                 PROVE  /\ role[p] # "none" /\ job.member[p] = "none" /\ invite[p] = "none"
                        /\ p \in todo => Roles!Wanted(job, p) # "none"
      BY <1>1, <1>2, <2>3, <2>5 DEF MissedStay
    <3> QED BY <2>1 DEF Roles!AtOdds, Roles!Have
  <2>11. OneStanding'
    BY <1>1 DEF RolesKept, OneStanding
  <2> QED BY <2>4, <2>6, <2>8, <2>9, <2>10, <2>11 DEF RolesKept
<1> QED BY <1>3, <1>4 DEF Roles!ReadInvitations

(* One person's change: it touches nobody else, and gives what is wanted.   *)
LEMMA RolesChangeRole ==
    ASSUME RolesKept, NEW p \in People, Roles!ChangeRole(p)
    PROVE  RolesKept'
<1> DEFINE want == Roles!Wanted(job, p)
           pending == job.member[p] = "none" /\ job.invited[p] # "none"
           done == job' = [job EXCEPT !.todo = @ \ {p}] /\ UNCHANGED last
           no == job' = [job EXCEPT !.todo = @ \ {p}, !.failed = @ \cup {p},
                                    !.check = @ \ {p}] /\ UNCHANGED last
           set == \/ /\ pending /\ invite[p] # "none"
                     /\ role' = role /\ invite' = [invite EXCEPT ![p] = want]
                  \/ /\ ~pending /\ want = "none"
                     /\ role' = [role EXCEPT ![p] = "none"] /\ invite' = invite
                  \/ /\ ~pending /\ want # "none" /\ (role[p] # "none" \/ p \in Teammates)
                     /\ role' = [role EXCEPT ![p] = want]
                     /\ invite' = [invite EXCEPT ![p] = "none"]
                  \/ /\ ~pending /\ want # "none" /\ role[p] = "none"
                     /\ role' = role /\ invite' = [invite EXCEPT ![p] = want]
<1>1. job.at = "change" /\ p \in job.todo /\ UNCHANGED <<rec, told>>
  BY DEF Roles!ChangeRole
<1>2. \/ set /\ (done \/ no)
      \/ UNCHANGED Roles!forge /\ (no \/ Roles!End(FALSE))
  BY DEF Roles!ChangeRole
<1>3. want \in Roles!Roles /\ (p \in job.remove => want = "none")
  BY RolesWanted DEF RolesKept
<1>4. role \in [People -> Roles!Roles] /\ invite \in [People -> Roles!Roles]
        /\ "none" \in Roles!Roles
  BY DEF RolesKept, RolesTyped, RolesHeld, Roles!Roles
<1> HIDE DEF want
<1>5. ASSUME set
      PROVE  /\ role' \in RolesHeld /\ invite' \in RolesHeld
             /\ \A q \in People : q # p => role'[q] = role[q] /\ invite'[q] = invite[q]
             /\ role'[p] = "none" \/ invite'[p] = "none"
             /\ p \notin told.moved \cup told.missed => Roles!Have(role', invite', p) = want
             /\ p \in told.missed \ told.moved => role'[p] # "none"
             /\ OutForGood(p) /\ p \in job.remove => OutForGood(p)'
  <2>1. role[p] = "none" \/ invite[p] = "none"
    BY DEF RolesKept, OneStanding
  <2>2. p \notin told.moved \cup told.missed =>
          /\ job.member[p] # "none" => role[p] # "none"
          /\ job.member[p] = "none" /\ job.invited[p] = "none" =>
               role[p] = "none" /\ invite[p] = "none"
    BY <1>1 DEF RolesKept, StandsAsRead, After
  <2>3. p \in told.missed \ told.moved =>
          /\ role[p] # "none" /\ job.member[p] = "none" /\ job.invited[p] = "none"
          /\ want # "none"
    BY <1>1 DEF RolesKept, MissedStay, After, want
  <2>4. CASE /\ pending /\ invite[p] # "none"
             /\ role' = role /\ invite' = [invite EXCEPT ![p] = want]
    BY <1>3, <1>4, <2>1, <2>2, <2>3, <2>4 DEF RolesHeld, Roles!Have, OutForGood
  <2>5. CASE /\ ~pending /\ want = "none"
             /\ role' = [role EXCEPT ![p] = "none"] /\ invite' = invite
    BY <1>3, <1>4, <2>1, <2>2, <2>3, <2>5 DEF RolesHeld, Roles!Have, OutForGood
  <2>6. CASE /\ ~pending /\ want # "none" /\ (role[p] # "none" \/ p \in Teammates)
             /\ role' = [role EXCEPT ![p] = want]
             /\ invite' = [invite EXCEPT ![p] = "none"]
    BY <1>3, <1>4, <2>1, <2>2, <2>3, <2>6 DEF RolesHeld, Roles!Have, OutForGood
  <2>7. CASE /\ ~pending /\ want # "none" /\ role[p] = "none"
             /\ role' = role /\ invite' = [invite EXCEPT ![p] = want]
    BY <1>3, <1>4, <2>1, <2>2, <2>3, <2>7 DEF RolesHeld, Roles!Have, OutForGood
  <2> QED BY <1>5, <2>4, <2>5, <2>6, <2>7
<1> HIDE DEF set, pending
<1>6. CASE UNCHANGED Roles!forge /\ Roles!End(FALSE)
  BY <1>1, <1>6, RolesFailed DEF RolesKept, RolesTyped, OneStanding, Roles!forge
<1>7. ASSUME done \/ no
      PROVE  /\ job' \in RolesJobs /\ job'.at = "change" /\ job'.want = job.want
             /\ job'.remove = job.remove /\ job'.asked = job.asked /\ job'.member = job.member
             /\ job'.invited = job.invited /\ job'.todo = job.todo \ {p} /\ last' = last
  <2>1. job \in RolesJobs /\ p \in People
    BY DEF RolesKept, RolesTyped
  <2>2. CASE done
    BY <1>1, <2>1, <2>2 DEF RolesJobs
  <2>3. CASE no
    BY <1>1, <2>1, <2>3 DEF RolesJobs
  <2> QED BY <1>7, <2>2, <2>3
<1>8. CASE set /\ done
  <2>1. Named(job') = Named(job) /\ \A q : Roles!Wanted(job', q) = Roles!Wanted(job, q)
    BY <1>7, <1>8, RolesSame
  <2>2. job'.failed = job.failed /\ job'.check = job.check
    BY <1>8 DEF RolesKept, RolesTyped, RolesJobs
  <2> HIDE DEF done, no
  <2>3. RolesTyped'
    BY <1>1, <1>5, <1>7, <1>8 DEF RolesKept, RolesTyped
  <2>4. InWork' /\ Reading' /\ RemovedStayOut' /\ Roles!SuccessGivesRoles'
    BY <1>1, <1>7, <1>8, <2>1 DEF RolesKept, InWork, Reading, RemovedStayOut,
       Roles!SuccessGivesRoles, After
  <2>5. OneStanding' /\ StandsAsRead'
    BY <1>1, <1>5, <1>7, <1>8 DEF RolesKept, OneStanding, StandsAsRead, RolesTyped,
       RolesJobs, After
  <2>6. DoneAsAsked'
    <3> SUFFICES ASSUME NEW q \in Named(job), q \notin told.moved \cup told.missed,
                        q \notin job.todo \ {p}, q \notin job.failed
                 PROVE  Roles!Have(role', invite', q) = Roles!Wanted(job, q)
      BY <1>1, <1>7, <1>8, <2>1, <2>2 DEF DoneAsAsked
    <3>1. CASE q = p
      BY <1>5, <1>8, <3>1 DEF want
    <3>2. CASE q # p
      <4>1. Roles!Have(role, invite, q) = Roles!Wanted(job, q) /\ q \in People
        BY <1>1, <3>2 DEF RolesKept, DoneAsAsked, After, Named, Roles!Listed,
           RolesTyped, RolesJobs
      <4> QED BY <1>5, <1>8, <3>2, <4>1 DEF Roles!Have
    <3> QED BY <3>1, <3>2
  <2>7. MissedStay'
    <3> SUFFICES ASSUME NEW q \in told.missed \ told.moved
                 PROVE  /\ role'[q] # "none" /\ job.member[q] = "none" /\ job.invited[q] = "none"
                        /\ q \in job.todo => Roles!Wanted(job, q) # "none"
      BY <1>1, <1>7, <1>8, <2>1 DEF MissedStay
    <3>1. /\ role[q] # "none" /\ job.member[q] = "none" /\ job.invited[q] = "none"
          /\ q \in job.todo => Roles!Wanted(job, q) # "none"
      BY <1>1 DEF RolesKept, MissedStay, After
    <3>2. q \in People
      BY DEF RolesKept, RolesTyped, RolesTold
    <3> QED BY <1>5, <1>8, <3>1, <3>2
  <2>8. RemovedKnown'
    <3> SUFFICES ASSUME NEW q \in job.remove \ told.moved, q \notin job.check, q \notin job.failed
                 PROVE  OutForGood(q)'
      BY <1>1, <1>7, <1>8, <2>2 DEF RemovedKnown
    <3>1. OutForGood(q) /\ q \in People
      BY <1>1 DEF RolesKept, RemovedKnown, After, RolesTyped, RolesJobs
    <3> QED BY <1>5, <1>8, <3>1 DEF OutForGood
  <2> QED BY <2>3, <2>4, <2>5, <2>6, <2>7, <2>8 DEF RolesKept
<1>9. CASE (set \/ UNCHANGED Roles!forge) /\ no
  <2>1. Named(job') = Named(job) /\ \A q : Roles!Wanted(job', q) = Roles!Wanted(job, q)
    BY <1>7, <1>9, RolesSame
  <2>2. job'.failed = job.failed \cup {p} /\ job'.check = job.check \ {p}
    BY <1>9 DEF RolesKept, RolesTyped, RolesJobs
  <2> HIDE DEF done, no
  <2>3. /\ role' \in RolesHeld /\ invite' \in RolesHeld
        /\ \A q \in People : q # p => role'[q] = role[q] /\ invite'[q] = invite[q]
        /\ role'[p] = "none" \/ invite'[p] = "none"
        /\ p \in told.missed \ told.moved => role'[p] # "none"
    <3>1. CASE set
      BY <1>5, <3>1
    <3>2. CASE UNCHANGED Roles!forge
      BY <1>1, <3>2 DEF Roles!forge, RolesKept, RolesTyped, OneStanding, MissedStay,
         After
    <3> QED BY <1>9, <3>1, <3>2
  <2>4. RolesTyped'
    BY <1>1, <1>7, <1>9, <2>3 DEF RolesKept, RolesTyped
  <2>5. InWork' /\ Reading' /\ RemovedStayOut' /\ Roles!SuccessGivesRoles'
    BY <1>1, <1>7, <1>9, <2>1 DEF RolesKept, InWork, Reading, RemovedStayOut,
       Roles!SuccessGivesRoles, After
  <2>6. OneStanding' /\ StandsAsRead'
    BY <1>1, <1>7, <1>9, <2>3 DEF RolesKept, OneStanding, StandsAsRead, RolesTyped,
       RolesJobs, After
  <2>7. DoneAsAsked'
    <3> SUFFICES ASSUME NEW q \in Named(job), q \notin told.moved \cup told.missed,
                        q \notin job.todo, q \notin job.failed, q # p
                 PROVE  Roles!Have(role', invite', q) = Roles!Wanted(job, q)
      BY <1>1, <1>7, <1>9, <2>1, <2>2 DEF DoneAsAsked
    <3>1. Roles!Have(role, invite, q) = Roles!Wanted(job, q) /\ q \in People
      BY <1>1 DEF RolesKept, DoneAsAsked, After, Named, Roles!Listed, RolesTyped,
         RolesJobs
    <3> QED BY <2>3, <3>1 DEF Roles!Have
  <2>8. MissedStay'
    <3> SUFFICES ASSUME NEW q \in told.missed \ told.moved
                 PROVE  /\ role'[q] # "none" /\ job.member[q] = "none" /\ job.invited[q] = "none"
                        /\ q \in job.todo => Roles!Wanted(job, q) # "none"
      BY <1>1, <1>7, <1>9, <2>1 DEF MissedStay
    <3>1. /\ role[q] # "none" /\ job.member[q] = "none" /\ job.invited[q] = "none"
          /\ q \in job.todo => Roles!Wanted(job, q) # "none"
      BY <1>1 DEF RolesKept, MissedStay, After
    <3>2. q \in People
      BY DEF RolesKept, RolesTyped, RolesTold
    <3> QED BY <2>3, <3>1, <3>2
  <2>9. RemovedKnown'
    <3> SUFFICES ASSUME NEW q \in job.remove \ told.moved, q \notin job.check,
                        q \notin job.failed,
                        q # p
                 PROVE  OutForGood(q)'
      BY <1>1, <1>7, <1>9, <2>2 DEF RemovedKnown
    <3>1. OutForGood(q) /\ q \in People
      BY <1>1 DEF RolesKept, RemovedKnown, After, RolesTyped, RolesJobs
    <3> QED BY <2>3, <3>1 DEF OutForGood
  <2> QED BY <2>4, <2>5, <2>6, <2>7, <2>8, <2>9 DEF RolesKept
<1> QED BY <1>2, <1>6, <1>8, <1>9

LEMMA RolesChanged == ASSUME RolesKept, Roles!Changed PROVE RolesKept'
<1>1. /\ UNCHANGED <<role, invite, rec, last, told>> /\ job.at = "change" /\ job.todo = {}
      /\ job' = [job EXCEPT !.at = IF job.check = {} THEN "record" ELSE "access"]
  BY DEF Roles!Changed, Roles!forge
<1>2. /\ job' \in RolesJobs /\ job'.at = (IF job.check = {} THEN "record" ELSE "access")
      /\ job'.want = job.want /\ job'.remove = job.remove /\ job'.asked = job.asked
      /\ job'.member = job.member /\ job'.invited = job.invited /\ job'.todo = job.todo
      /\ job'.failed = job.failed /\ job'.check = job.check
  BY <1>1 DEF RolesKept, RolesTyped, RolesJobs
<1>3. Named(job') = Named(job) /\ \A q : Roles!Wanted(job', q) = Roles!Wanted(job, q)
  BY <1>2, RolesSame
<1>4. RolesTyped'
  BY <1>1, <1>2 DEF RolesKept, RolesTyped
<1>5. InWork' /\ Reading' /\ OneStanding' /\ StandsAsRead' /\ RemovedStayOut'
        /\ Roles!SuccessGivesRoles'
  BY <1>1, <1>2, <1>3 DEF RolesKept, InWork, Reading, OneStanding, StandsAsRead,
     RemovedStayOut, Roles!SuccessGivesRoles, After
<1>6. DoneAsAsked' /\ MissedStay' /\ RemovedKnown'
  BY <1>1, <1>2, <1>3 DEF RolesKept, DoneAsAsked, MissedStay, RemovedKnown, OutForGood,
     After
<1> QED BY <1>4, <1>5, <1>6 DEF RolesKept

LEMMA RolesRemaining ==
    ASSUME RolesKept, NEW p \in People, Roles!RemainingAccess(p)
    PROVE  RolesKept'
<1> DEFINE rest == job.check \ {p}
<1>1. /\ UNCHANGED <<role, invite, rec, last, told>> /\ job.at = "access" /\ p \in job.check
      /\ job.todo = {}
  BY DEF Roles!RemainingAccess, Roles!forge, RolesKept, InWork
<1>2. PICK failed \in {job.failed, job.failed \cup {p}} :
        /\ job' = [job EXCEPT !.check = rest, !.failed = failed,
                              !.at = IF rest = {} THEN "record" ELSE "access"]
        /\ Roles!HasAccess(p) => failed = job.failed \cup {p}
  BY DEF Roles!RemainingAccess
<1>3. rest \in SUBSET People /\ failed \in SUBSET People /\ job \in RolesJobs
  BY <1>2 DEF RolesKept, RolesTyped, RolesJobs
<1>4. /\ job' \in RolesJobs /\ job'.at = (IF rest = {} THEN "record" ELSE "access")
      /\ job'.want = job.want /\ job'.remove = job.remove /\ job'.asked = job.asked
      /\ job'.member = job.member /\ job'.invited = job.invited /\ job'.todo = job.todo
      /\ job'.failed = failed /\ job'.check = rest
  <2> HIDE DEF rest
  <2> QED BY <1>2, <1>3 DEF RolesJobs
<1>5. Named(job') = Named(job) /\ \A q : Roles!Wanted(job', q) = Roles!Wanted(job, q)
  BY <1>4, RolesSame
<1>6. RolesTyped'
  BY <1>1, <1>4 DEF RolesKept, RolesTyped
<1>7. InWork' /\ Reading' /\ OneStanding' /\ StandsAsRead' /\ RemovedStayOut'
        /\ Roles!SuccessGivesRoles'
  BY <1>1, <1>4, <1>5 DEF RolesKept, InWork, Reading, OneStanding, StandsAsRead,
     RemovedStayOut, Roles!SuccessGivesRoles, After
<1>8. DoneAsAsked' /\ MissedStay'
  <2>1. job.failed \subseteq failed
    OBVIOUS
  <2>2. DoneAsAsked'
    BY <1>1, <1>4, <1>5, <2>1 DEF RolesKept, DoneAsAsked, After
  <2>3. MissedStay'
    BY <1>1, <1>4, <1>5 DEF RolesKept, MissedStay, After
  <2> QED BY <2>2, <2>3
<1>9. RemovedKnown'
  <2> SUFFICES ASSUME NEW q \in job.remove \ told.moved, q \notin rest, q \notin failed
               PROVE  OutForGood(q)
    BY <1>1, <1>4 DEF RemovedKnown, OutForGood
  <2>1. q \in People /\ q \notin job.failed
    BY <1>2 DEF RolesKept, RolesTyped, RolesJobs
  <2>2. CASE q # p
    BY <1>1, <2>1, <2>2 DEF RolesKept, RemovedKnown, After
  <2>3. CASE q = p
    <3>1. role[q] = "none" /\ q \notin Teammates
      BY <1>2, <2>3 DEF Roles!HasAccess
    <3>2. q \notin told.missed
      BY <1>1, <3>1 DEF RolesKept, MissedStay, After
    <3>3. Roles!Have(role, invite, q) = Roles!Wanted(job, q)
      BY <1>1, <2>1, <3>2 DEF RolesKept, DoneAsAsked, After, Named
    <3>4. Roles!Wanted(job, q) = "none"
      BY <2>1, RolesWanted DEF RolesKept
    <3> QED BY <3>1, <3>3, <3>4 DEF Roles!Have, OutForGood
  <2> QED BY <2>2, <2>3
<1> QED BY <1>6, <1>7, <1>8, <1>9 DEF RolesKept

LEMMA RolesRecord == ASSUME RolesKept, Roles!RecordRoles PROVE RolesKept'
<1>1. /\ UNCHANGED <<role, invite, told>> /\ job.at = "record" /\ Roles!End(job.failed = {})
      /\ job.todo = {} /\ job.check = {}
  BY DEF Roles!RecordRoles, Roles!forge, RolesKept, InWork
<1>2. rec' \in RolesHeld
  <2>1. \A p \in Roles!Listed(job) : job.want[p] \in Roles!Roles
    BY DEF Roles!Listed, RolesKept, RolesTyped, RolesJobs
  <2>2. rec' = [p \in People |-> IF p \in Roles!Listed(job) THEN job.want[p] ELSE "none"]
    BY DEF Roles!RecordRoles
  <2>3. "none" \in Roles!Roles
    BY DEF Roles!Roles
  <2> QED BY <2>1, <2>2, <2>3 DEF RolesHeld
<1>3. /\ job' \in RolesJobs /\ job'.at = "idle"
      /\ last' \in RolesLast /\ last'.ok = (job.failed = {})
      /\ last'.want = job.want /\ last'.remove = job.remove
  BY <1>1, RolesIdle DEF Roles!End, RolesKept, RolesTyped, RolesJobs, RolesLast
<1>4. RolesTyped'
  BY <1>1, <1>2, <1>3 DEF RolesKept, RolesTyped
<1>5. Named(last') = Named(job) /\ \A q : Roles!Wanted(last', q) = Roles!Wanted(job, q)
  BY <1>3, RolesSame
<1>6. Roles!SuccessGivesRoles'
  <2> SUFFICES ASSUME job.failed = {}, NEW p \in Named(job), p \notin told.moved \cup told.missed
               PROVE  Roles!Have(role, invite, p) = Roles!Wanted(job, p)
    BY <1>1, <1>3, <1>5 DEF Roles!SuccessGivesRoles, Named
  <2> QED BY <1>1 DEF RolesKept, DoneAsAsked, After
<1>7. RemovedStayOut'
  <2> SUFFICES ASSUME job.failed = {}, NEW p \in job.remove \ told.moved
               PROVE  OutForGood(p)
    BY <1>1, <1>3 DEF RemovedStayOut, OutForGood
  <2> QED BY <1>1 DEF RolesKept, RemovedKnown, After
<1> QED BY <1>1, <1>3, <1>4, <1>6, <1>7 DEF RolesKept, InWork, Reading, OneStanding,
           StandsAsRead, DoneAsAsked, MissedStay, RemovedKnown, After

LEMMA RolesCrash == ASSUME RolesKept, Roles!Crash PROVE RolesKept'
<1>1. /\ UNCHANGED <<role, invite, rec, last, told>>
      /\ job' = [Roles!Idle EXCEPT !.at = "members", !.want = job.want, !.remove = job.remove]
  BY DEF Roles!Crash, Roles!forge
<1>2. job' \in RolesJobs /\ job'.at = "members"
  <2>1. job.want \in [People -> Roles!Roles \cup {Roles!Unlisted}] /\ job.remove \in SUBSET People
    BY DEF RolesKept, RolesTyped, RolesJobs
  <2> QED BY <1>1, <2>1, RolesIdle DEF RolesJobs
<1>3. RolesTyped'
  BY <1>1, <1>2 DEF RolesKept, RolesTyped
<1> QED BY <1>1, <1>2, <1>3 DEF RolesKept, InWork, Reading, OneStanding, StandsAsRead,
           DoneAsAsked, MissedStay, RemovedKnown, RemovedStayOut,
           Roles!SuccessGivesRoles, After

(* An invitation accepted gives the role it was of.                         *)
LEMMA RolesAccept ==
    ASSUME RolesKept, NEW p \in People, Roles!Accept(p)
    PROVE  RolesKept'
<1>1. /\ UNCHANGED <<rec, job, last, told>> /\ invite[p] # "none"
      /\ role' = [role EXCEPT ![p] = invite[p]]
      /\ invite' = [invite EXCEPT ![p] = "none"]
  BY DEF Roles!Accept, Roles!Edit
<1>2. role \in [People -> Roles!Roles] /\ invite \in [People -> Roles!Roles]
        /\ "none" \in Roles!Roles
  BY DEF RolesKept, RolesTyped, RolesHeld, Roles!Roles
<1>3. role[p] = "none"
  BY <1>1 DEF RolesKept, OneStanding
<1>4. /\ role' \in RolesHeld /\ invite' \in RolesHeld
      /\ \A q \in People : q # p => role'[q] = role[q] /\ invite'[q] = invite[q]
      /\ role'[p] = invite[p] /\ invite'[p] = "none"
  BY <1>1, <1>2 DEF RolesHeld
<1>5. RolesTyped'
  BY <1>1, <1>4 DEF RolesKept, RolesTyped
<1>6. \A q \in People : Roles!Have(role', invite', q) = Roles!Have(role, invite, q)
  BY <1>1, <1>3, <1>4 DEF Roles!Have
<1>7. \A q \in People : OutForGood(q) => OutForGood(q)'
  BY <1>1, <1>4 DEF OutForGood
<1>8. InWork' /\ OneStanding'
  BY <1>1, <1>4 DEF RolesKept, InWork, OneStanding
<1>9. Reading'
  BY <1>1, <1>3, <1>4 DEF RolesKept, Reading
<1>10. StandsAsRead'
  BY <1>1, <1>3, <1>4 DEF RolesKept, StandsAsRead, RolesTyped, RolesJobs
<1>11. DoneAsAsked'
  BY <1>1, <1>6 DEF RolesKept, DoneAsAsked, Named, Roles!Listed, RolesTyped, RolesJobs
<1>12. MissedStay'
  BY <1>1, <1>3, <1>4 DEF RolesKept, MissedStay, RolesTyped, RolesTold
<1>13. RemovedKnown'
  BY <1>1, <1>7 DEF RolesKept, RemovedKnown, RolesTyped, RolesJobs
<1>14. RemovedStayOut'
  BY <1>1, <1>7 DEF RolesKept, RemovedStayOut, RolesTyped, RolesLast
<1>15. Roles!SuccessGivesRoles'
  BY <1>1, <1>6 DEF RolesKept, Roles!SuccessGivesRoles, Roles!Listed, RolesTyped,
     RolesLast
<1> QED BY <1>5, <1>8, <1>9, <1>10, <1>11, <1>12, <1>13, <1>14, <1>15 DEF RolesKept

(* Whoever moved of themselves, or was moved, is no longer spoken of.       *)
LEMMA RolesMoved ==
    ASSUME RolesKept, NEW p \in People, UNCHANGED <<rec, job, last>>, Roles!Moved(p),
           role' \in RolesHeld, invite' \in RolesHeld, invite'[p] = "none",
           \A q \in People : q # p => role'[q] = role[q] /\ invite'[q] = invite[q]
    PROVE  RolesKept'
<1>1. told' \in RolesTold /\ told'.moved = told.moved \cup {p} /\ told'.missed = told.missed
  BY DEF Roles!Moved, RolesKept, RolesTyped, RolesTold
<1>2. RolesTyped'
  BY <1>1 DEF RolesKept, RolesTyped
<1>3. \A q \in People : q # p => Roles!Have(role', invite', q) = Roles!Have(role, invite, q)
  BY DEF Roles!Have
<1>4. \A q \in People : q # p => (OutForGood(q) => OutForGood(q)')
  BY DEF OutForGood
<1>5. InWork' /\ OneStanding' /\ Reading'
  BY <1>1 DEF RolesKept, InWork, OneStanding, Reading
<1>6. StandsAsRead'
  BY <1>1 DEF RolesKept, StandsAsRead, RolesTyped, RolesJobs
<1>7. DoneAsAsked'
  BY <1>1, <1>3 DEF RolesKept, DoneAsAsked, Named, Roles!Listed, RolesTyped, RolesJobs
<1>8. MissedStay'
  BY <1>1 DEF RolesKept, MissedStay, RolesTyped, RolesTold
<1>9. RemovedKnown'
  BY <1>1, <1>4 DEF RolesKept, RemovedKnown, RolesTyped, RolesJobs
<1>10. RemovedStayOut'
  BY <1>1, <1>4 DEF RolesKept, RemovedStayOut, RolesTyped, RolesLast
<1>11. Roles!SuccessGivesRoles'
  BY <1>1, <1>3 DEF RolesKept, Roles!SuccessGivesRoles, Roles!Listed, RolesTyped,
     RolesLast
<1> QED BY <1>2, <1>5, <1>6, <1>7, <1>8, <1>9, <1>10, <1>11 DEF RolesKept

LEMMA RolesDecline ==
    ASSUME RolesKept, NEW p \in People, Roles!Decline(p)
    PROVE  RolesKept'
<1>1. /\ UNCHANGED <<rec, job, last, role>> /\ Roles!Moved(p)
      /\ invite' = [invite EXCEPT ![p] = "none"]
  BY DEF Roles!Decline, Roles!Edit
<1>2. /\ role' \in RolesHeld /\ invite' \in RolesHeld /\ invite'[p] = "none"
      /\ \A q \in People : q # p => role'[q] = role[q] /\ invite'[q] = invite[q]
  BY <1>1 DEF RolesKept, RolesTyped, RolesHeld, Roles!Roles
<1> QED BY <1>1, <1>2, RolesMoved

LEMMA RolesAdminSets ==
    ASSUME RolesKept, NEW p \in People, NEW r \in {"none", "admin"}, Roles!AdminSets(p, r)
    PROVE  RolesKept'
<1>1. /\ UNCHANGED <<rec, job, last>> /\ Roles!Moved(p) /\ role' = [role EXCEPT ![p] = r]
      /\ invite' = [invite EXCEPT ![p] = "none"]
  BY DEF Roles!AdminSets, Roles!Edit
<1>2. /\ role' \in RolesHeld /\ invite' \in RolesHeld /\ invite'[p] = "none"
      /\ \A q \in People : q # p => role'[q] = role[q] /\ invite'[q] = invite[q]
  BY <1>1 DEF RolesKept, RolesTyped, RolesHeld, Roles!Roles
<1> QED BY <1>1, <1>2, RolesMoved

LEMMA RolesNext == ASSUME RolesInv, Roles!Next PROVE RolesInv'
<1>1. RolesKept'
  BY RolesReadMembers, RolesReadInvitations, RolesChanged, RolesRecord, RolesChangeRole,
     RolesRemaining, RolesCrash, RolesStart, RolesAccept, RolesDecline, RolesAdminSets
     DEF RolesInv, Roles!Next, Roles!RunJob
<1>2. count' \in RolesCounts
  BY RolesCounted DEF RolesInv
<1> QED BY <1>1, <1>2 DEF RolesInv

LEMMA RolesSafe ==
    ASSUME RolesInv
    PROVE  Roles!TypeOK /\ Roles!SuccessGivesRoles /\ Roles!RemovedAreOut
  BY RolesTypes DEF RolesInv, RolesKept, RemovedStayOut, OutForGood, Roles!RemovedAreOut

(* A change touches only those the job asks about.                          *)
LEMMA RolesOthers == ASSUME RolesInv, Roles!Next PROVE Roles!KeepsOthers
<1> SUFFICES ASSUME NEW p \in People, job.at = "change", Roles!RunJob, p \notin job.asked
             PROVE  role'[p] = role[p] /\ invite'[p] = invite[p]
  BY DEF Roles!KeepsOthers
<1>1. p \notin job.todo /\ role \in [People -> Roles!Roles] /\ invite \in [People -> Roles!Roles]
  BY DEF RolesInv, RolesKept, InWork, After, RolesTyped, RolesHeld
<1>2. ASSUME NEW q \in People, Roles!ChangeRole(q)
      PROVE  role'[p] = role[p] /\ invite'[p] = invite[p]
  <2>1. q # p
    BY <1>1, <1>2 DEF Roles!ChangeRole
  <2>2. /\ \E r \in Roles!Roles : role' \in {role, [role EXCEPT ![q] = r]}
        /\ \E r \in Roles!Roles : invite' \in {invite, [invite EXCEPT ![q] = r]}
    <3>1. Roles!Wanted(job, q) \in Roles!Roles /\ "none" \in Roles!Roles
      BY RolesWanted DEF RolesInv, RolesKept, Roles!Roles
    <3>2. role' \in {role, [role EXCEPT ![q] = Roles!Wanted(job, q)], [role EXCEPT ![q] = "none"]}
      BY <1>2 DEF Roles!ChangeRole, Roles!forge
    <3>3. invite' \in {invite, [invite EXCEPT ![q] = Roles!Wanted(job, q)],
                       [invite EXCEPT ![q] = "none"]}
      BY <1>2 DEF Roles!ChangeRole, Roles!forge
    <3> QED BY <3>1, <3>2, <3>3
  <2> QED BY <1>1, <2>1, <2>2
<1>3. ASSUME NEW q \in People, Roles!RemainingAccess(q) PROVE FALSE
  BY <1>3 DEF Roles!RemainingAccess
<1> QED BY <1>2, <1>3 DEF Roles!RunJob, Roles!ReadMembers, Roles!ReadInvitations,
           Roles!Changed, Roles!RecordRoles, Roles!forge

-----------------------------------------------------------------------------
(* A repository on Forgejo: ForgejoRepo.                                    *)

(* The types, variable by variable.                                         *)
RepoRecs == [made : {"no", "bridge", "stranger"}, merges : BOOLEAN,
             file : {"absent", "stale", "current"}, perm : [People -> Repo!Perms], rule : Repo!Rules]
RepoHeld == [known : BOOLEAN, checked : BOOLEAN, roles : [People -> Repo!Roles]]
RepoJobs ==
  [kind : Repo!Kinds \cup {"none"}, only : {"all", "files"},
   want : [People -> Repo!Roles \cup {Repo!Unlisted}], remove : SUBSET People,
   at : Repo!Stages \cup {"idle"}, prior : Repo!Rules, tries : 0..2, bad : BOOLEAN,
   seen : [perm : [People -> Repo!Perms], rule : Repo!Rules],
   asked : SUBSET People, todo : SUBSET People,
   failed : SUBSET People, add : SUBSET People, drop : SUBSET People]
RepoLast == [kind : Repo!Kinds \cup {"none"}, only : {"all", "files"},
             want : [People -> Repo!Roles \cup {Repo!Unlisted}], remove : SUBSET People, ok : BOOLEAN]
RepoPlan == [people : SUBSET People, jobs : Nat, faults : Nat, edits : Nat]
RepoCounts == [jobs : 0..plan.jobs, faults : 0..plan.faults, edits : 0..plan.edits]
RepoTold == [clean : BOOLEAN, cut : BOOLEAN, ajar : BOOLEAN,
             given : SUBSET People, slipped : SUBSET People, stray : SUBSET People]
RepoTyped ==
  /\ repo \in RepoRecs /\ rec \in RepoHeld /\ job \in RepoJobs /\ last \in RepoLast
  /\ plan \in RepoPlan /\ told \in RepoTold

Guarded == Repo!Closed(repo.rule) /\ repo.file = "current" /\ repo.merges
InRoles == {"read", "change", "record"}
OfFiles == {"manage", "merges", "files", "open", "write", "restore", "protect"}
(* Which kind of job is at which stage.                                     *)
StageKnown ==
  /\ job.at = "create" => job.kind = "create"
  /\ job.at \in OfFiles => job.kind \in {"create", "bootstrap"}
  /\ job.at \in InRoles => job.kind \in {"create", "roles"}
(* What each stage has behind it.                                           *)
GuardKnown ==
  /\ job.only = "all" /\ job.at \in {"files", "open", "write", "restore", "protect"} =>
       repo.merges
  /\ job.at = "protect" \/ (job.at = "restore" /\ ~job.bad) => repo.file = "current"
  /\ job.at \in InRoles /\ job.kind = "create" /\ job.only = "all" /\ told.clean => Guarded
RepoGuards == StageKnown /\ GuardKnown /\ Repo!DoneMeansGuarded
(* A job that opens the branch has a rule to put back.                      *)
OpenKnown ==
  /\ ~repo.rule.there => repo.rule.push # "bot"
  /\ job.at = "open" => job.prior.there
  /\ job.at = "write" /\ ~job.prior.there => ~repo.rule.there
RepoOpens == OpenKnown /\ Repo!LeftAjarIsKnown
(* The create that made the repository is about to record it.               *)
OwnKnown ==
  repo.made = "bridge" /\ ~(job.at = "manage" /\ job.kind = "create") =>
    rec.known \/ told.cut
(* Whom the projection works on.                                            *)
AskedKnown ==
  /\ job.at \in {"change", "record"} =>
       /\ Repo!Listed(job) \cup job.remove \subseteq job.asked
       /\ job.todo \subseteq job.asked /\ job.add \subseteq job.asked
       /\ job.at = "record" => job.todo = {}
  /\ job.at \notin {"change", "record"} => job.add = {}
(* Whoever was given a role is recorded, or the job under way is about them. *)
GivenKnown ==
  /\ \A p \in told.given : repo.perm[p] # "none"
  /\ job.at \notin {"change", "record"} =>
       \A p \in told.given : rec.roles[p] # "none" \/ p \in told.slipped
  /\ job.at \in {"change", "record"} => \A p \in told.given \ told.slipped :
       /\ p \in job.asked
       /\ p \in job.todo \/ p \in job.failed \/ Repo!Wanted(job, p) # "none"
       /\ p \in job.todo => Repo!Have(p) # "none"
(* What was read still stands but for what the job did, if nobody else did. *)
Came(p) ==
  /\ repo.perm[p] = Repo!PermOf(Repo!Wanted(job, p))
  /\ Repo!NeedListed(p) /\ ~Repo!HaveListed(p) => p \in job.add
  /\ ~Repo!NeedListed(p) /\ Repo!HaveListed(p) => p \in job.drop
SeenKnown ==
  job.at = "change" /\ told.clean =>
    /\ repo.rule = job.seen.rule
    /\ told.stray = {p \in job.seen.rule.list : Repo!Have(p) = "none"}
    /\ \A p \in job.todo : repo.perm[p] = Repo!Have(p)
    /\ \A p \in job.add : Repo!NeedListed(p)
    /\ \A p \in job.asked \ (job.todo \cup job.failed) : Came(p)
Exact(p, due) ==
  /\ repo.perm[p] = Repo!PermOf(due)
  /\ repo.rule.there /\ due # "none" /\ p \notin told.stray =>
       (p \in repo.rule.list <=> Repo!OnList(due))
ExactKnown ==
  job.at = "record" /\ told.clean =>
    \A p \in job.asked \ job.failed : Exact(p, Repo!Wanted(job, p))
RepoGives == AskedKnown /\ GivenKnown /\ SeenKnown /\ ExactKnown /\ Repo!SuccessIsExact
RepoKept == RepoTyped /\ RepoGuards /\ RepoOpens /\ OwnKnown /\ RepoGives
RepoInv == RepoKept /\ count \in RepoCounts

LEMMA RepoTypes ==
    /\ Repo!TypeOK <=> RepoTyped /\ count \in RepoCounts
    /\ Repo!TypeOK' <=> RepoTyped' /\ (count \in RepoCounts)'
  BY DEF Repo!TypeOK, RepoTyped, RepoRecs, RepoHeld, RepoJobs, RepoLast, RepoPlan,
     RepoCounts, RepoTold

LEMMA RepoIdle ==
    /\ Repo!NoRoles \in [People -> Repo!Roles] /\ Repo!NoRoles \in [People -> Repo!Perms]
    /\ Repo!NoRule \in Repo!Rules
    /\ Repo!NoRule.there = FALSE /\ Repo!NoRule.push = "anyone" /\ Repo!NoRule.list = {}
    /\ Repo!Idle \in RepoJobs /\ Repo!Idle.at = "idle" /\ Repo!Idle.remove = {}
    /\ Repo!Idle.add = {}
    /\ Repo!Idle.want \in [People -> Repo!Roles \cup {Repo!Unlisted}]
<1>1. Repo!NoRoles \in [People -> Repo!Roles] /\ Repo!NoRoles \in [People -> Repo!Perms]
  BY DEF Repo!NoRoles, Repo!Roles, Repo!Perms
<1>2. Repo!NoRule \in Repo!Rules /\ Repo!NoRule.there = FALSE
        /\ Repo!NoRule.push = "anyone" /\ Repo!NoRule.list = {}
  BY DEF Repo!NoRule, Repo!Rules
<1>3. [p \in People |-> Repo!Unlisted] \in [People -> Repo!Roles \cup {Repo!Unlisted}]
  OBVIOUS
<1>4. [perm |-> Repo!NoRoles, rule |-> Repo!NoRule] \in [perm : [People -> Repo!Perms],
                                                         rule : Repo!Rules]
  BY <1>1, <1>2
<1> QED BY <1>1, <1>2, <1>3, <1>4 DEF Repo!Idle, RepoJobs

LEMMA RepoSame ==
    ASSUME NEW j, NEW k, j.want = k.want, j.remove = k.remove
    PROVE  Repo!Listed(j) = Repo!Listed(k) /\ \A p : Repo!Wanted(j, p) = Repo!Wanted(k, p)
  BY DEF Repo!Listed, Repo!Wanted

LEMMA RepoWanted ==
    ASSUME RepoTyped, NEW p \in People
    PROVE  /\ Repo!Wanted(job, p) \in Repo!Roles
           /\ Repo!PermOf(Repo!Wanted(job, p)) \in Repo!Perms
           /\ Repo!PermOf(Repo!Wanted(job, p)) = "none" <=> Repo!Wanted(job, p) = "none"
<1>1. Repo!Wanted(job, p) \in Repo!Roles
  BY DEF Repo!Wanted, Repo!Listed, RepoTyped, RepoJobs, Repo!Roles, Repo!Unlisted
<1> QED BY <1>1 DEF Repo!PermOf, Repo!Roles, Repo!Perms

(* What the shapes of a step are.                                           *)
RepoAt(s) ==
  /\ job' \in RepoJobs /\ job'.at = s /\ job'.kind = job.kind /\ job'.only = job.only
  /\ job'.prior = job.prior /\ job'.bad = job.bad /\ job'.add = job.add /\ last' = last
RepoEnds(ok) ==
  /\ job' \in RepoJobs /\ job'.at = "idle" /\ job'.add = {} /\ last' \in RepoLast
  /\ last'.kind = job.kind /\ last'.only = job.only /\ last'.want = job.want
  /\ last'.remove = job.remove /\ last'.ok = ok

LEMMA RepoTo ==
    ASSUME job \in RepoJobs, NEW s \in Repo!Stages, Repo!To(s), UNCHANGED last
    PROVE  RepoAt(s)
  BY DEF Repo!To, RepoJobs, RepoAt

LEMMA RepoEnd ==
    ASSUME job \in RepoJobs, NEW ok \in BOOLEAN, Repo!End(ok)
    PROVE  RepoEnds(ok)
<1>1. job' \in RepoJobs /\ job'.at = "idle" /\ job'.add = {}
  BY RepoIdle DEF Repo!End
<1>2. last' = [kind |-> job.kind, only |-> job.only, want |-> job.want,
              remove |-> job.remove, ok |-> ok]
  BY DEF Repo!End
<1> QED BY <1>1, <1>2 DEF RepoEnds, RepoJobs, RepoLast

(* What the last of the files' steps leads to.                              *)
LEMMA RepoBootstrapped ==
    ASSUME job \in RepoJobs, rec \in RepoHeld, Repo!Bootstrapped
    PROVE  /\ rec' \in RepoHeld /\ rec'.known = rec.known /\ rec'.roles = rec.roles
           /\ \/ job.kind = "create" /\ RepoAt("read")
              \/ job.kind # "create" /\ RepoEnds(TRUE)
<1>1. rec' \in RepoHeld /\ rec'.known = rec.known /\ rec'.roles = rec.roles
  BY DEF Repo!Bootstrapped, RepoHeld
<1>2. CASE job.kind = "create"
  BY <1>1, <1>2, RepoTo DEF Repo!Bootstrapped, Repo!Stages
<1>3. CASE job.kind # "create"
  BY <1>1, <1>3, RepoEnd DEF Repo!Bootstrapped
<1> QED BY <1>2, <1>3

LEMMA RepoAfterFiles ==
    ASSUME job \in RepoJobs, rec \in RepoHeld, Repo!AfterFiles
    PROVE  /\ rec' \in RepoHeld /\ rec'.known = rec.known /\ rec'.roles = rec.roles
           /\ \/ job.only = "all" /\ RepoAt("protect")
              \/ job.only # "all" /\ job.kind = "create" /\ RepoAt("read")
              \/ job.only # "all" /\ job.kind # "create" /\ RepoEnds(TRUE)
<1>1. CASE job.only = "all"
  BY <1>1, RepoTo DEF Repo!AfterFiles, Repo!Stages
<1>2. CASE job.only # "all"
  BY <1>2, RepoBootstrapped DEF Repo!AfterFiles
<1> QED BY <1>1, <1>2

(* The files' steps leave roles, and what is said of them, as they are.     *)
LEMMA RepoRolesQuiet ==
    ASSUME RepoKept, RepoTyped', job.at \notin {"change", "record"},
           job'.at \notin {"change", "record"}, rec'.roles = rec.roles, repo'.perm = repo.perm,
           told'.given = told.given, told'.slipped = told.slipped, job'.add \subseteq job.add,
           job'.at = "idle" /\ last'.ok => last'.kind \notin {"create", "roles"}
    PROVE  RepoGives'
  BY DEF RepoKept, RepoGives, AskedKnown, GivenKnown, SeenKnown, ExactKnown,
     Repo!SuccessIsExact

(* And the steps on roles leave the files, and the rule but for its list.   *)
LEMMA RepoFilesQuiet ==
    ASSUME RepoKept, RepoTyped', job.at \in InRoles, job'.at \in InRoles \cup {"idle"},
           repo'.made = repo.made, repo'.merges = repo.merges, repo'.file = repo.file,
           repo'.rule.there = repo.rule.there, repo'.rule.push = repo.rule.push,
           repo'.rule.paths = repo.rule.paths,
           rec.known => rec'.known,
           told'.clean = told.clean, told'.cut = told.cut, told'.ajar = told.ajar,
           job'.at # "idle" => job'.kind = job.kind /\ job'.only = job.only,
           job'.at = "idle" => last'.kind = job.kind /\ last'.only = job.only
    PROVE  RepoGuards' /\ RepoOpens' /\ OwnKnown'
<1>1. StageKnown'
  BY DEF RepoKept, RepoGuards, StageKnown, InRoles, OfFiles
<1>2. GuardKnown'
  BY DEF RepoKept, RepoGuards, GuardKnown, InRoles, Guarded, Repo!Closed
<1>3. Repo!DoneMeansGuarded'
  BY DEF RepoKept, RepoGuards, GuardKnown, StageKnown, InRoles, OfFiles, Guarded,
     Repo!Closed, Repo!DoneMeansGuarded
<1>4. RepoOpens'
  BY DEF RepoKept, RepoOpens, OpenKnown, Repo!LeftAjarIsKnown, InRoles
<1>5. OwnKnown'
  BY DEF RepoKept, OwnKnown, InRoles
<1> QED BY <1>1, <1>2, <1>3, <1>4, <1>5 DEF RepoGuards

LEMMA RepoInit == ASSUME Repo!Init PROVE RepoInv
<1>1. /\ job \in RepoJobs /\ job.at = "idle" /\ job.add = {} /\ last.ok = FALSE
      /\ told.given = {} /\ told.ajar = FALSE /\ repo.made = "no" /\ repo.rule = Repo!NoRule
      /\ told.slipped = {}
  BY RepoIdle DEF Repo!Init
<1>2. repo \in RepoRecs /\ rec \in RepoHeld
  BY RepoIdle DEF Repo!Init, RepoRecs, RepoHeld
<1>3. last \in RepoLast
  BY RepoIdle DEF Repo!Init, RepoLast
<1>4. told \in RepoTold /\ plan \in RepoPlan
  BY RepoAssumption DEF Repo!Init, RepoTold, RepoPlan
<1>5. count \in RepoCounts
  BY <1>4 DEF Repo!Init, RepoCounts, RepoPlan
<1>6. RepoGuards
  BY <1>1 DEF RepoGuards, StageKnown, GuardKnown, Repo!DoneMeansGuarded, InRoles,
     OfFiles
<1>7. RepoOpens /\ OwnKnown
  BY <1>1, RepoIdle DEF RepoOpens, OpenKnown, Repo!LeftAjarIsKnown, OwnKnown
<1>8. RepoGives
  BY <1>1 DEF RepoGives, AskedKnown, GivenKnown, SeenKnown, ExactKnown,
     Repo!SuccessIsExact
<1> QED BY <1>1, <1>2, <1>3, <1>4, <1>5, <1>6, <1>7, <1>8 DEF RepoInv, RepoKept,
           RepoTyped

LEMMA RepoCreate == ASSUME RepoKept, Repo!CreateRepo, UNCHANGED plan PROVE RepoKept'
<1>0. repo \in RepoRecs /\ rec \in RepoHeld /\ job \in RepoJobs /\ told \in RepoTold
  BY DEF RepoKept, RepoTyped
<1>1. job.at = "create" /\ job.kind = "create" /\ rec' = rec
  BY DEF Repo!CreateRepo, RepoKept, RepoGuards, StageKnown
<1>2. repo' = repo \/ (~Repo!Taken /\ repo' = [repo EXCEPT !.made = "bridge"])
  BY DEF Repo!CreateRepo, Repo!Call
<1>3. /\ repo' \in RepoRecs /\ repo'.merges = repo.merges /\ repo'.file = repo.file
      /\ repo'.perm = repo.perm /\ repo'.rule = repo.rule
  BY <1>0, <1>2 DEF RepoRecs
<1>4. (RepoAt("manage") /\ UNCHANGED last) \/ RepoEnds(FALSE)
  BY <1>0, RepoTo, RepoEnd DEF Repo!CreateRepo, Repo!Call, Repo!Stages
<1>5. PICK cut \in BOOLEAN :
        /\ told' = [told EXCEPT !.cut = cut]
        /\ told.cut => cut
        /\ Repo!Taken \/ cut \/ ~(repo'.made = "bridge" /\ job'.at = "idle")
  <2>1. CASE Repo!Taken
    <3>1. told' = told /\ told.cut \in BOOLEAN
      BY <1>0, <2>1 DEF Repo!CreateRepo, RepoTold
    <3>2. told' = [told EXCEPT !.cut = told.cut]
      BY <1>0, <3>1 DEF RepoTold
    <3> QED BY <2>1, <3>1, <3>2
  <2>2. CASE ~Repo!Taken
    <3>1. told' = [told EXCEPT !.cut = told.cut \/ (repo'.made = "bridge" /\ job'.at = "idle")]
      BY <2>2 DEF Repo!CreateRepo
    <3>2. told.cut \in BOOLEAN
      BY <1>0 DEF RepoTold
    <3> QED BY <3>1, <3>2
  <2> QED BY <2>1, <2>2
<1>6. /\ told' \in RepoTold /\ told'.cut = cut /\ told'.clean = told.clean
      /\ told'.ajar = told.ajar /\ told'.given = told.given /\ told'.slipped = told.slipped
  BY <1>0, <1>5 DEF RepoTold
<1>7. RepoTyped'
  BY <1>1, <1>3, <1>4, <1>6 DEF RepoKept, RepoTyped, RepoAt, RepoEnds
<1>8. RepoGuards'
  BY <1>1, <1>4 DEF RepoKept, RepoGuards, StageKnown, GuardKnown, Repo!DoneMeansGuarded,
     InRoles, OfFiles, RepoAt, RepoEnds
<1>9. RepoOpens'
  BY <1>1, <1>3, <1>4, <1>6 DEF RepoKept, RepoOpens, OpenKnown, Repo!LeftAjarIsKnown,
     RepoAt, RepoEnds
<1>10. OwnKnown'
  <2>1. CASE RepoAt("manage")
    BY <1>1, <2>1 DEF OwnKnown, RepoAt
  <2>2. CASE RepoEnds(FALSE) /\ Repo!Taken
    BY <1>1, <1>2, <1>5, <1>6, <2>2 DEF RepoKept, OwnKnown, Repo!Taken
  <2>3. CASE RepoEnds(FALSE) /\ ~Repo!Taken
    BY <1>5, <1>6, <2>3 DEF OwnKnown, RepoEnds
  <2> QED BY <1>4, <2>1, <2>2, <2>3
<1>11. RepoGives'
  BY <1>1, <1>3, <1>4, <1>6, <1>7, RepoRolesQuiet DEF RepoAt, RepoEnds
<1> QED BY <1>7, <1>8, <1>9, <1>10, <1>11 DEF RepoKept

LEMMA RepoManage == ASSUME RepoKept, Repo!Manage, UNCHANGED plan PROVE RepoKept'
<1>0. rec \in RepoHeld /\ job \in RepoJobs
  BY DEF RepoKept, RepoTyped
<1>1. /\ job.at = "manage" /\ UNCHANGED <<repo, last, told>> /\ rec' = [rec EXCEPT !.known = TRUE]
      /\ Repo!To("merges") \/ (Repo!To("files") /\ job.only # "all")
  BY DEF Repo!Manage, Repo!Managed
<1>2. RepoAt("merges") \/ (RepoAt("files") /\ job.only # "all")
  BY <1>0, <1>1, RepoTo DEF Repo!Stages
<1>3. rec' \in RepoHeld /\ rec'.known = TRUE /\ rec'.roles = rec.roles
  BY <1>0, <1>1 DEF RepoHeld
<1>4. RepoTyped'
  BY <1>1, <1>2, <1>3 DEF RepoKept, RepoTyped, RepoAt
<1>5. RepoGuards'
  BY <1>1, <1>2 DEF RepoKept, RepoGuards, StageKnown, GuardKnown, Repo!DoneMeansGuarded,
     InRoles, OfFiles, RepoAt
<1>6. RepoOpens'
  BY <1>1, <1>2 DEF RepoKept, RepoOpens, OpenKnown, Repo!LeftAjarIsKnown, RepoAt
<1>7. OwnKnown'
  BY <1>3 DEF OwnKnown
<1>8. RepoGives'
  BY <1>1, <1>2, <1>3, <1>4, RepoRolesQuiet DEF RepoAt
<1> QED BY <1>4, <1>5, <1>6, <1>7, <1>8 DEF RepoKept

LEMMA RepoConfigure ==
    ASSUME RepoKept, Repo!ConfigureRepo, UNCHANGED plan
    PROVE  RepoKept'
<1>0. repo \in RepoRecs /\ job \in RepoJobs
  BY DEF RepoKept, RepoTyped
<1>1. job.at = "merges" /\ UNCHANGED <<rec, told>>
  BY DEF Repo!ConfigureRepo
<1>2. repo' = repo \/ repo' = [repo EXCEPT !.merges = TRUE]
  BY DEF Repo!ConfigureRepo, Repo!Call
<1>3. /\ repo' \in RepoRecs /\ (repo.merges => repo'.merges) /\ repo'.file = repo.file
      /\ repo'.perm = repo.perm /\ repo'.rule = repo.rule /\ repo'.made = repo.made
  BY <1>0, <1>2 DEF RepoRecs
<1>4. (RepoAt("files") /\ repo'.merges) \/ RepoEnds(FALSE)
  <2>1. CASE Repo!To("files") /\ UNCHANGED last
             /\ (repo.merges \/ repo' = [repo EXCEPT !.merges = TRUE])
    BY <1>0, <1>3, <2>1, RepoTo DEF Repo!Stages, RepoRecs
  <2>2. CASE Repo!End(FALSE)
    BY <1>0, <2>2, RepoEnd
  <2> QED BY <2>1, <2>2 DEF Repo!ConfigureRepo, Repo!Call
<1>5. RepoTyped'
  BY <1>1, <1>3, <1>4 DEF RepoKept, RepoTyped, RepoAt, RepoEnds
<1>6. RepoGuards'
  BY <1>1, <1>4 DEF RepoKept, RepoGuards, StageKnown, GuardKnown, Repo!DoneMeansGuarded,
     InRoles, OfFiles, RepoAt, RepoEnds
<1>7. RepoOpens'
  BY <1>1, <1>3, <1>4 DEF RepoKept, RepoOpens, OpenKnown, Repo!LeftAjarIsKnown, RepoAt,
     RepoEnds
<1>8. OwnKnown'
  BY <1>1, <1>3, <1>4 DEF RepoKept, OwnKnown, RepoAt, RepoEnds
<1>9. RepoGives'
  BY <1>1, <1>3, <1>4, <1>5, RepoRolesQuiet DEF RepoAt, RepoEnds
<1> QED BY <1>5, <1>6, <1>7, <1>8, <1>9 DEF RepoKept

(* What the files' steps come to once the files are as they should be.      *)
RepoFiled ==
  \/ job.only = "all" /\ RepoAt("protect")
  \/ job.only # "all" /\ job.kind = "create" /\ RepoAt("read")
  \/ job.only # "all" /\ job.kind # "create" /\ RepoEnds(TRUE)

LEMMA RepoFilesDone ==
    ASSUME RepoKept, RepoTyped', RepoFiled, job.at \in {"files", "write", "restore"},
           repo'.file = "current", repo'.merges = repo.merges, repo'.made = repo.made,
           repo'.perm = repo.perm, repo'.rule.there = repo.rule.there,
           repo'.rule.push = "bot" => told'.ajar, ~repo'.rule.there => repo'.rule.push # "bot",
           rec'.known = rec.known, rec'.roles = rec.roles,
           told'.given = told.given, told'.slipped = told.slipped, told'.cut = told.cut
    PROVE  RepoKept'
<1>1. RepoGuards'
  <2>1. CASE job.only = "all" /\ RepoAt("protect")
    BY <2>1 DEF RepoKept, RepoGuards, StageKnown, GuardKnown, Repo!DoneMeansGuarded,
       InRoles, OfFiles, RepoAt
  <2>2. CASE job.only # "all" /\ job.kind = "create" /\ RepoAt("read")
    BY <2>2 DEF RepoGuards, StageKnown, GuardKnown, Repo!DoneMeansGuarded, InRoles,
       OfFiles, RepoAt
  <2>3. CASE job.only # "all" /\ job.kind # "create" /\ RepoEnds(TRUE)
    BY <2>3 DEF RepoGuards, StageKnown, GuardKnown, Repo!DoneMeansGuarded, InRoles,
       OfFiles, RepoEnds
  <2> QED BY <2>1, <2>2, <2>3 DEF RepoFiled
<1>2. job'.at \in {"protect", "read", "idle"}
  BY DEF RepoFiled, RepoAt, RepoEnds
<1>3. RepoOpens'
  BY <1>2 DEF RepoOpens, OpenKnown, Repo!LeftAjarIsKnown
<1>4. OwnKnown'
  BY DEF RepoKept, OwnKnown
<1>5. job.kind # "roles"
  BY DEF RepoKept, RepoGuards, StageKnown, OfFiles
<1>6. RepoGives'
  BY <1>2, <1>5, RepoRolesQuiet DEF RepoFiled, RepoAt, RepoEnds
<1> QED BY <1>1, <1>3, <1>4, <1>6 DEF RepoKept

LEMMA RepoRefresh == ASSUME RepoKept, Repo!RefreshFiles, UNCHANGED plan PROVE RepoKept'
<1>0. /\ repo \in RepoRecs /\ job \in RepoJobs /\ rec \in RepoHeld
      /\ job.at = "files" /\ UNCHANGED <<repo, told>>
  BY DEF RepoKept, RepoTyped, Repo!RefreshFiles
<1>1. ASSUME repo.file = "current", Repo!AfterFiles PROVE RepoKept'
  <2>1. RepoFiled /\ rec' \in RepoHeld /\ rec'.known = rec.known /\ rec'.roles = rec.roles
    BY <1>0, <1>1, RepoAfterFiles DEF RepoFiled
  <2>2. RepoTyped'
    BY <1>0, <2>1 DEF RepoKept, RepoTyped, RepoFiled, RepoAt, RepoEnds
  <2>3. /\ repo.rule.push = "bot" => told.ajar
        /\ ~repo.rule.there => repo.rule.push # "bot"
    BY <1>0 DEF RepoKept, RepoOpens, OpenKnown, Repo!LeftAjarIsKnown
  <2> QED BY <1>0, <1>1, <2>1, <2>2, <2>3, RepoFilesDone
<1>2. ASSUME job' = [job EXCEPT !.at = IF repo.rule.there THEN "open" ELSE "write",
                                !.prior = repo.rule],
             UNCHANGED <<rec, last>>
      PROVE  RepoKept'
  <2>1. /\ job' \in RepoJobs /\ job'.at = (IF repo.rule.there THEN "open" ELSE "write")
        /\ job'.prior = repo.rule /\ job'.kind = job.kind /\ job'.only = job.only
        /\ job'.add = job.add
    BY <1>0, <1>2 DEF RepoJobs, RepoRecs, Repo!Stages
  <2>2. RepoTyped'
    BY <1>0, <1>2, <2>1 DEF RepoKept, RepoTyped
  <2>3. RepoGuards'
    BY <1>0, <1>2, <2>1 DEF RepoKept, RepoGuards, StageKnown, GuardKnown,
       Repo!DoneMeansGuarded, InRoles, OfFiles
  <2>4. RepoOpens'
    BY <1>0, <1>2, <2>1 DEF RepoKept, RepoOpens, OpenKnown, Repo!LeftAjarIsKnown
  <2>5. OwnKnown'
    BY <1>0, <1>2 DEF RepoKept, OwnKnown
  <2>6. RepoGives'
    BY <1>0, <1>2, <2>1, <2>2, RepoRolesQuiet
  <2> QED BY <2>2, <2>3, <2>4, <2>5, <2>6 DEF RepoKept
<1> QED BY <1>1, <1>2 DEF Repo!RefreshFiles

LEMMA RepoOpen == ASSUME RepoKept, Repo!OpenForBot, UNCHANGED plan PROVE RepoKept'
<1>0. /\ repo \in RepoRecs /\ job \in RepoJobs
      /\ job.at = "open" /\ UNCHANGED <<rec, told>>
  BY DEF RepoKept, RepoTyped, Repo!OpenForBot
<1>1. \/ repo' = repo
      \/ (repo.rule.there /\ repo' = [repo EXCEPT !.rule.push = "bot", !.rule.paths = FALSE])
  BY DEF Repo!OpenForBot, Repo!Call
<1>2. /\ repo' \in RepoRecs /\ repo'.file = repo.file /\ repo'.merges = repo.merges
      /\ repo'.perm = repo.perm /\ repo'.made = repo.made
      /\ ~repo'.rule.there => repo'.rule = repo.rule
  <2>1. CASE repo' = repo
    BY <1>0, <2>1
  <2>2. CASE repo.rule.there /\ repo' = [repo EXCEPT !.rule.push = "bot", !.rule.paths = FALSE]
    BY <1>0, <2>2 DEF RepoRecs, Repo!Rules
  <2> QED BY <1>1, <2>1, <2>2
<1>3. /\ job' \in RepoJobs /\ job'.kind = job.kind /\ job'.only = job.only
      /\ job'.prior = job.prior /\ job'.add = job.add /\ last' = last
      /\ job'.at = "write" \/ (job'.at = "restore" /\ job'.bad)
  <2>1. CASE Repo!To("write") /\ UNCHANGED last
    BY <1>0, <2>1, RepoTo DEF RepoAt, Repo!Stages
  <2>2. CASE Repo!NotOpened
    BY <1>0, <2>2 DEF Repo!NotOpened, RepoJobs, Repo!Stages
  <2> QED BY <2>1, <2>2 DEF Repo!OpenForBot, Repo!Call
<1>4. RepoTyped'
  BY <1>0, <1>2, <1>3 DEF RepoKept, RepoTyped
<1>5. RepoGuards'
  BY <1>0, <1>2, <1>3 DEF RepoKept, RepoGuards, StageKnown, GuardKnown,
     Repo!DoneMeansGuarded, InRoles, OfFiles
<1>6. RepoOpens'
  BY <1>0, <1>2, <1>3 DEF RepoKept, RepoOpens, OpenKnown, Repo!LeftAjarIsKnown
<1>7. OwnKnown'
  BY <1>0, <1>2, <1>3 DEF RepoKept, OwnKnown
<1>8. RepoGives'
  BY <1>0, <1>2, <1>3, <1>4, RepoRolesQuiet
<1> QED BY <1>4, <1>5, <1>6, <1>7, <1>8 DEF RepoKept

LEMMA RepoWrite == ASSUME RepoKept, Repo!WriteFile, UNCHANGED plan PROVE RepoKept'
<1>0. /\ repo \in RepoRecs /\ job \in RepoJobs /\ rec \in RepoHeld
      /\ job.at = "write" /\ UNCHANGED told
  BY DEF RepoKept, RepoTyped, Repo!WriteFile
<1>1. repo' = repo \/ repo' = [repo EXCEPT !.file = "current"]
  BY DEF Repo!WriteFile, Repo!Call
<1>2. /\ repo' \in RepoRecs /\ repo'.merges = repo.merges /\ repo'.rule = repo.rule
      /\ repo'.perm = repo.perm /\ repo'.made = repo.made
      /\ repo.file = "current" => repo'.file = "current"
  BY <1>0, <1>1 DEF RepoRecs
<1>3. \/ /\ job.prior.there /\ UNCHANGED <<rec, last>>
         /\ \E bad \in BOOLEAN :
              /\ job' = [job EXCEPT !.at = "restore", !.bad = bad]
              /\ ~bad => repo' = [repo EXCEPT !.file = "current"]
      \/ ~job.prior.there /\ repo' = [repo EXCEPT !.file = "current"] /\ Repo!AfterFiles
      \/ ~job.prior.there /\ Repo!End(FALSE) /\ UNCHANGED rec
  BY DEF Repo!WriteFile, Repo!Call
<1>4. ~job.prior.there => repo.rule.push # "bot"
  BY <1>0 DEF RepoKept, RepoOpens, OpenKnown
<1>5. ASSUME job.prior.there, UNCHANGED <<rec, last>>,
             NEW bad \in BOOLEAN, job' = [job EXCEPT !.at = "restore", !.bad = bad],
             ~bad => repo' = [repo EXCEPT !.file = "current"]
      PROVE  RepoKept'
  <2>1. /\ job' \in RepoJobs /\ job'.at = "restore" /\ job'.bad = bad /\ job'.add = job.add
        /\ job'.kind = job.kind /\ job'.only = job.only
    BY <1>0, <1>5 DEF RepoJobs, Repo!Stages
  <2>2. ~bad => repo'.file = "current"
    BY <1>0, <1>5 DEF RepoRecs
  <2>3. RepoTyped'
    BY <1>0, <1>2, <1>5, <2>1 DEF RepoKept, RepoTyped
  <2>4. RepoGuards'
    BY <1>0, <1>2, <2>1, <2>2 DEF RepoKept, RepoGuards, StageKnown, GuardKnown,
       Repo!DoneMeansGuarded, InRoles, OfFiles
  <2>5. RepoOpens'
    BY <1>0, <1>2, <2>1 DEF RepoKept, RepoOpens, OpenKnown, Repo!LeftAjarIsKnown
  <2>6. OwnKnown'
    BY <1>0, <1>2, <1>5, <2>1 DEF RepoKept, OwnKnown
  <2>7. RepoGives'
    BY <1>0, <1>2, <1>5, <2>1, <2>3, RepoRolesQuiet
  <2> QED BY <2>3, <2>4, <2>5, <2>6, <2>7 DEF RepoKept
<1>6. ASSUME ~job.prior.there, repo' = [repo EXCEPT !.file = "current"], Repo!AfterFiles
      PROVE  RepoKept'
  <2>1. RepoFiled /\ rec' \in RepoHeld /\ rec'.known = rec.known /\ rec'.roles = rec.roles
    BY <1>0, <1>6, RepoAfterFiles DEF RepoFiled
  <2>2. RepoTyped'
    BY <1>0, <1>2, <2>1 DEF RepoKept, RepoTyped, RepoFiled, RepoAt, RepoEnds
  <2>3. repo'.file = "current" /\ repo'.rule.push # "bot"
    BY <1>0, <1>2, <1>4, <1>6 DEF RepoRecs
  <2> QED BY <1>0, <1>2, <2>1, <2>2, <2>3, RepoFilesDone
<1>7. ASSUME ~job.prior.there, Repo!End(FALSE), UNCHANGED rec PROVE RepoKept'
  <2>1. RepoEnds(FALSE)
    BY <1>0, <1>7, RepoEnd
  <2>2. RepoTyped'
    BY <1>0, <1>2, <1>7, <2>1 DEF RepoKept, RepoTyped, RepoEnds
  <2>3. RepoGuards'
    BY <2>1 DEF RepoGuards, StageKnown, GuardKnown, Repo!DoneMeansGuarded, InRoles,
       OfFiles, RepoEnds
  <2>4. RepoOpens'
    BY <1>0, <1>2, <1>4, <1>7, <2>1 DEF RepoOpens, OpenKnown, Repo!LeftAjarIsKnown,
       RepoEnds
  <2>5. OwnKnown'
    BY <1>0, <1>2, <1>7 DEF RepoKept, OwnKnown
  <2>6. RepoGives'
    BY <1>0, <1>2, <1>7, <2>1, <2>2, RepoRolesQuiet DEF RepoEnds
  <2> QED BY <2>2, <2>3, <2>4, <2>5, <2>6 DEF RepoKept
<1> QED BY <1>3, <1>5, <1>6, <1>7

LEMMA RepoRestore == ASSUME RepoKept, Repo!RestoreRule, UNCHANGED plan PROVE RepoKept'
<1>0. /\ repo \in RepoRecs /\ job \in RepoJobs /\ rec \in RepoHeld /\ told \in RepoTold
      /\ job.at = "restore"
  BY DEF RepoKept, RepoTyped, Repo!RestoreRule
<1> DEFINE Restored == repo.rule.there
                         /\ repo' = [repo EXCEPT !.rule.push = job.prior.push,
                                                 !.rule.paths = job.prior.paths]
<1>1. \/ Restored
      \/ repo' = repo
  BY DEF Repo!RestoreRule, Repo!Call
<1>2. /\ repo' \in RepoRecs /\ repo'.merges = repo.merges /\ repo'.file = repo.file
      /\ repo'.perm = repo.perm /\ repo'.made = repo.made
      /\ ~repo'.rule.there => repo'.rule.push # "bot"
      /\ Restored => repo'.rule.push = job.prior.push
  <2>1. CASE repo' = repo
    <3>1. ~repo'.rule.there => repo'.rule.push # "bot"
      BY <2>1 DEF RepoKept, RepoOpens, OpenKnown
    <3>2. Restored => repo'.rule.push = job.prior.push
      BY <1>0, <2>1 DEF RepoRecs, Repo!Rules
    <3> QED BY <1>0, <2>1, <3>1, <3>2
  <2>2. CASE Restored
    BY <1>0, <2>2 DEF RepoRecs, RepoJobs, Repo!Rules
  <2> QED BY <1>1, <2>1, <2>2
<1>3. PICK ajar \in BOOLEAN :
        /\ told' = [told EXCEPT !.ajar = ajar]
        /\ repo'.rule.push = "bot" /\ (told.ajar \/ job'.at = "idle" \/ job.prior.push = "bot")
             => ajar
  <2>1. told' = [told EXCEPT !.ajar = repo'.rule.push = "bot"
                    /\ (told.ajar \/ job'.at = "idle" \/ job.prior.push = "bot")]
    BY DEF Repo!RestoreRule
  <2> QED BY <2>1
<1>4. /\ told' \in RepoTold /\ told'.ajar = ajar /\ told'.given = told.given
      /\ told'.slipped = told.slipped /\ told'.cut = told.cut /\ told'.clean = told.clean
  BY <1>0, <1>3 DEF RepoTold
<1>5. \/ Restored /\ ~job.bad /\ Repo!AfterFiles
      \/ Repo!End(FALSE) /\ UNCHANGED rec
      \/ job' = [job EXCEPT !.tries = 1] /\ UNCHANGED <<rec, last>>
  BY DEF Repo!RestoreRule, Repo!Call, Repo!NotRestored
<1>6. ASSUME Restored, ~job.bad, Repo!AfterFiles PROVE RepoKept'
  <2>1. RepoFiled /\ rec' \in RepoHeld /\ rec'.known = rec.known /\ rec'.roles = rec.roles
    BY <1>0, <1>6, RepoAfterFiles DEF RepoFiled
  <2>2. RepoTyped'
    BY <1>0, <1>2, <1>4, <2>1 DEF RepoKept, RepoTyped, RepoFiled, RepoAt, RepoEnds
  <2>3. repo'.rule.push = "bot" => told'.ajar
    BY <1>2, <1>3, <1>4, <1>6
  <2>4. repo'.rule.there = repo.rule.there
    BY <1>0, <1>6 DEF RepoRecs, Repo!Rules
  <2>5. repo'.file = "current"
    BY <1>0, <1>2, <1>6 DEF RepoKept, RepoGuards, GuardKnown
  <2> QED BY <1>0, <1>2, <1>4, <2>1, <2>2, <2>3, <2>4, <2>5, RepoFilesDone
<1>7. ASSUME Repo!End(FALSE), UNCHANGED rec PROVE RepoKept'
  <2>1. RepoEnds(FALSE)
    BY <1>0, <1>7, RepoEnd
  <2>2. RepoTyped'
    BY <1>2, <1>4, <1>7, <2>1 DEF RepoKept, RepoTyped, RepoEnds
  <2>3. RepoGuards'
    BY <2>1 DEF RepoGuards, StageKnown, GuardKnown, Repo!DoneMeansGuarded, InRoles,
       OfFiles, RepoEnds
  <2>4. RepoOpens'
    BY <1>2, <1>3, <1>4, <2>1 DEF RepoOpens, OpenKnown, Repo!LeftAjarIsKnown, RepoEnds
  <2>5. OwnKnown'
    BY <1>0, <1>2, <1>4, <1>7 DEF RepoKept, OwnKnown
  <2>6. RepoGives'
    BY <1>0, <1>2, <1>4, <1>7, <2>1, <2>2, RepoRolesQuiet DEF RepoEnds
  <2> QED BY <2>2, <2>3, <2>4, <2>5, <2>6 DEF RepoKept
<1>8. ASSUME job' = [job EXCEPT !.tries = 1], UNCHANGED <<rec, last>> PROVE RepoKept'
  <2>1. /\ job' \in RepoJobs /\ job'.at = "restore" /\ job'.bad = job.bad /\ job'.add = job.add
        /\ job'.kind = job.kind /\ job'.only = job.only
    BY <1>0, <1>8 DEF RepoJobs, Repo!Stages
  <2>2. RepoTyped'
    BY <1>2, <1>4, <1>8, <2>1 DEF RepoKept, RepoTyped
  <2>3. RepoGuards'
    BY <1>0, <1>2, <2>1 DEF RepoKept, RepoGuards, StageKnown, GuardKnown,
       Repo!DoneMeansGuarded, InRoles, OfFiles
  <2>4. RepoOpens'
    BY <1>2, <2>1 DEF RepoOpens, OpenKnown, Repo!LeftAjarIsKnown
  <2>5. OwnKnown'
    BY <1>0, <1>2, <1>4, <1>8, <2>1 DEF RepoKept, OwnKnown
  <2>6. RepoGives'
    BY <1>0, <1>2, <1>4, <1>8, <2>1, <2>2, RepoRolesQuiet
  <2> QED BY <2>2, <2>3, <2>4, <2>5, <2>6 DEF RepoKept
<1> QED BY <1>5, <1>6, <1>7, <1>8

LEMMA RepoProtect == ASSUME RepoKept, Repo!Protect, UNCHANGED plan PROVE RepoKept'
<1>0. /\ repo \in RepoRecs /\ job \in RepoJobs /\ rec \in RepoHeld /\ told \in RepoTold
      /\ job.at = "protect" /\ job.kind \in {"create", "bootstrap"} /\ repo.file = "current"
      /\ job.only = "all" => repo.merges
      /\ ~repo.rule.there => repo.rule.push # "bot"
      /\ repo.rule.push = "bot" => told.ajar
  BY DEF RepoKept, RepoTyped, Repo!Protect, RepoGuards, StageKnown, GuardKnown, OfFiles,
     RepoOpens, OpenKnown, Repo!LeftAjarIsKnown
<1>1. Repo!ProtectionRequest \in Repo!Rules /\ Repo!Closed(Repo!ProtectionRequest)
  BY <1>0 DEF Repo!ProtectionRequest, RepoRecs, Repo!Rules, Repo!Closed
<1>2. repo' = repo \/ repo' = [repo EXCEPT !.rule = Repo!ProtectionRequest]
  BY DEF Repo!Protect, Repo!Call
<1>3. /\ repo' \in RepoRecs /\ repo'.merges = repo.merges /\ repo'.file = repo.file
      /\ repo'.perm = repo.perm /\ repo'.made = repo.made
      /\ ~repo'.rule.there => repo'.rule.push # "bot"
      /\ repo'.rule = repo.rule \/ Repo!Closed(repo'.rule)
  BY <1>0, <1>1, <1>2 DEF RepoRecs, Repo!Closed
<1>4. PICK ajar \in BOOLEAN :
        /\ told' = [told EXCEPT !.ajar = ajar]
        /\ told.ajar /\ repo'.rule.push = "bot" => ajar
  <2>1. told' = [told EXCEPT !.ajar = told.ajar /\ repo'.rule.push = "bot"]
    BY DEF Repo!Protect
  <2>2. told.ajar \in BOOLEAN
    BY <1>0 DEF RepoTold
  <2> QED BY <2>1, <2>2
<1>5. /\ told' \in RepoTold /\ told'.ajar = ajar /\ told'.given = told.given
      /\ told'.slipped = told.slipped /\ told'.cut = told.cut /\ told'.clean = told.clean
  BY <1>0, <1>4 DEF RepoTold
<1>6. repo'.rule.push = "bot" => told'.ajar
  BY <1>0, <1>3, <1>4, <1>5 DEF Repo!Closed
<1>7. \/ Repo!Closed(repo'.rule) /\ Repo!Bootstrapped
      \/ Repo!End(FALSE) /\ UNCHANGED rec
  <2>1. CASE Repo!Closed(repo.rule)
    BY <2>1 DEF Repo!Protect
  <2>2. CASE ~Repo!Closed(repo.rule)
    <3>1. (repo' = [repo EXCEPT !.rule = Repo!ProtectionRequest] /\ Repo!Bootstrapped)
            \/ (Repo!End(FALSE) /\ UNCHANGED rec)
      BY <2>2 DEF Repo!Protect, Repo!Call
    <3>2. repo' = [repo EXCEPT !.rule = Repo!ProtectionRequest] => repo'.rule = Repo!ProtectionRequest
      BY <1>0 DEF RepoRecs
    <3> QED BY <1>1, <3>1, <3>2
  <2> QED BY <2>1, <2>2
<1>8. /\ rec' \in RepoHeld /\ rec'.known = rec.known /\ rec'.roles = rec.roles
      /\ \/ Repo!Closed(repo'.rule) /\ job.kind = "create" /\ RepoAt("read")
         \/ Repo!Closed(repo'.rule) /\ job.kind # "create" /\ RepoEnds(TRUE)
         \/ RepoEnds(FALSE)
  <2>1. CASE Repo!Closed(repo'.rule) /\ Repo!Bootstrapped
    BY <1>0, <2>1, RepoBootstrapped
  <2>2. CASE Repo!End(FALSE) /\ UNCHANGED rec
    BY <1>0, <2>2, RepoEnd
  <2> QED BY <1>7, <2>1, <2>2
<1>9. RepoTyped'
  BY <1>3, <1>5, <1>8 DEF RepoKept, RepoTyped, RepoAt, RepoEnds
<1>10. RepoGuards'
  <2>1. CASE Repo!Closed(repo'.rule) /\ job.kind = "create" /\ RepoAt("read")
    BY <1>0, <1>3, <2>1 DEF RepoGuards, StageKnown, GuardKnown, Repo!DoneMeansGuarded,
       InRoles, OfFiles, Guarded, RepoAt
  <2>2. CASE Repo!Closed(repo'.rule) /\ job.kind # "create" /\ RepoEnds(TRUE)
    BY <1>0, <1>3, <2>2 DEF RepoGuards, StageKnown, GuardKnown, Repo!DoneMeansGuarded,
       InRoles, OfFiles, Guarded, RepoEnds
  <2>3. CASE RepoEnds(FALSE)
    BY <2>3 DEF RepoGuards, StageKnown, GuardKnown, Repo!DoneMeansGuarded, InRoles,
       OfFiles, RepoEnds
  <2> QED BY <1>8, <2>1, <2>2, <2>3
<1>11. RepoOpens'
  BY <1>3, <1>6, <1>8 DEF RepoOpens, OpenKnown, Repo!LeftAjarIsKnown, RepoAt, RepoEnds
<1>12. OwnKnown'
  BY <1>0, <1>3, <1>5, <1>8 DEF RepoKept, OwnKnown
<1>13. RepoGives'
  BY <1>0, <1>3, <1>5, <1>8, <1>9, RepoRolesQuiet DEF RepoAt, RepoEnds
<1> QED BY <1>9, <1>10, <1>11, <1>12, <1>13 DEF RepoKept

LEMMA RepoRead == ASSUME RepoKept, Repo!ReadRoles, UNCHANGED plan PROVE RepoKept'
<1>0. /\ repo \in RepoRecs /\ job \in RepoJobs /\ rec \in RepoHeld /\ told \in RepoTold
      /\ job.at = "read" /\ job.add = {} /\ UNCHANGED <<repo, rec, last>>
  BY DEF RepoKept, RepoTyped, Repo!ReadRoles, RepoGives, AskedKnown
<1>1. Repo!Asked(job) \in SUBSET People
        /\ Repo!Listed(job) \cup job.remove \subseteq Repo!Asked(job)
  BY <1>0 DEF Repo!Asked, Repo!Listed, RepoJobs
<1>2. [perm |-> repo.perm, rule |-> repo.rule] \in [perm : [People -> Repo!Perms],
                                                    rule : Repo!Rules]
  BY <1>0 DEF RepoRecs
<1>3. /\ job' \in RepoJobs /\ job'.at = "change" /\ job'.asked = Repo!Asked(job)
      /\ job'.todo = Repo!Asked(job) /\ job'.seen.perm = repo.perm /\ job'.seen.rule = repo.rule
      /\ job'.kind = job.kind /\ job'.only = job.only /\ job'.want = job.want
      /\ job'.remove = job.remove /\ job'.add = {}
  BY <1>0, <1>1, <1>2 DEF Repo!ReadRoles, RepoJobs, Repo!Stages
<1>4. Repo!Strays(repo) \in SUBSET People
  BY <1>0 DEF Repo!Strays, RepoRecs, Repo!Rules
<1>5. /\ told' \in RepoTold /\ told'.ajar = told.ajar /\ told'.given = told.given
      /\ told'.slipped = told.slipped /\ told'.cut = told.cut /\ told'.clean = told.clean
      /\ told'.stray = Repo!Strays(repo)
  BY <1>0, <1>4 DEF Repo!ReadRoles, RepoTold
<1>6. RepoTyped'
  BY <1>0, <1>3, <1>5 DEF RepoKept, RepoTyped
<1>7. RepoGuards' /\ RepoOpens' /\ OwnKnown'
  BY <1>0, <1>3, <1>5, <1>6, RepoFilesQuiet DEF InRoles
<1>8. Repo!Listed(job') = Repo!Listed(job)
  BY <1>3, RepoSame
<1>9. AskedKnown'
  BY <1>1, <1>3, <1>8 DEF AskedKnown
<1>10. GivenKnown'
  BY <1>0, <1>3, <1>5 DEF RepoKept, RepoGives, GivenKnown, Repo!Have, Repo!Asked,
     RepoTold
<1>11. SeenKnown'
  BY <1>0, <1>3, <1>5 DEF SeenKnown, Repo!Have, Repo!Strays
<1>12. ExactKnown' /\ Repo!SuccessIsExact'
  BY <1>3 DEF ExactKnown, Repo!SuccessIsExact
<1> QED BY <1>6, <1>7, <1>9, <1>10, <1>11, <1>12 DEF RepoKept, RepoGives

(* What writing the list comes to, for whom it was read and changed.        *)
LEMMA RepoNextList ==
    ASSUME SeenKnown, job.at = "change", told.clean, job.seen.rule.there,
           NEW p \in job.asked, p \notin job.todo \cup job.failed, p \notin told.stray
    PROVE  /\ p \in Repo!NextList <=> Repo!OnList(Repo!Wanted(job, p))
           /\ p \notin job.add \cup job.drop =>
                (p \in job.seen.rule.list <=> Repo!OnList(Repo!Wanted(job, p)))
<1>1. /\ Came(p) /\ (p \in job.add => Repo!NeedListed(p))
      /\ p \in job.seen.rule.list => Repo!Have(p) # "none"
  BY DEF SeenKnown
<1>2. Repo!NeedListed(p) <=> Repo!OnList(Repo!Wanted(job, p))
  BY DEF Repo!NeedListed
<1>3. p \in Repo!NextList <=>
        \/ p \in job.seen.rule.list /\ (Repo!Have(p) = "none" \/ Repo!NeedListed(p))
        \/ p \in job.add
  BY DEF Repo!NextList
<1> QED BY <1>1, <1>2, <1>3 DEF Came, Repo!HaveListed

LEMMA RepoAllow == ASSUME RepoKept, Repo!WriteAllowList, UNCHANGED plan PROVE RepoKept'
<1>0. /\ repo \in RepoRecs /\ job \in RepoJobs /\ rec \in RepoHeld /\ told \in RepoTold
      /\ job.at = "change" /\ job.todo = {} /\ UNCHANGED rec
      /\ AskedKnown /\ GivenKnown /\ SeenKnown
  BY DEF RepoKept, RepoTyped, Repo!WriteAllowList, RepoGives
<1>1. Repo!NextList \in SUBSET People
  BY <1>0 DEF Repo!NextList, RepoJobs, Repo!Rules
<1>2. repo' = repo \/ repo' = [repo EXCEPT !.rule.list = Repo!NextList]
  BY DEF Repo!WriteAllowList, Repo!Call
<1>3. /\ repo' \in RepoRecs /\ repo'.merges = repo.merges /\ repo'.file = repo.file
      /\ repo'.perm = repo.perm /\ repo'.made = repo.made
      /\ repo'.rule.there = repo.rule.there /\ repo'.rule.push = repo.rule.push
      /\ repo'.rule.paths = repo.rule.paths
      /\ repo'.rule.list = repo.rule.list \/ repo'.rule.list = Repo!NextList
  <2>1. CASE repo' = repo
    BY <1>0, <2>1
  <2>2. CASE repo' = [repo EXCEPT !.rule.list = Repo!NextList]
    BY <1>0, <1>1, <2>2 DEF RepoRecs, Repo!Rules
  <2> QED BY <1>2, <2>1, <2>2
<1>4. \/ RepoEnds(FALSE)
      \/ /\ job' \in RepoJobs /\ job'.at = "record" /\ UNCHANGED last
         /\ job'.kind = job.kind /\ job'.only = job.only /\ job'.want = job.want
         /\ job'.remove = job.remove /\ job'.asked = job.asked /\ job'.todo = {}
         /\ job'.seen = job.seen /\ job'.add = job.add
         /\ \/ /\ job'.failed = job.failed
               /\ \/ ~job.seen.rule.there /\ repo' = repo
                  \/ Repo!NextList = job.seen.rule.list /\ repo' = repo
                  \/ repo'.rule.list = Repo!NextList
            \/ job'.failed = job.failed \cup job.add \cup job.drop
  <2>1. ASSUME NEW bad \in SUBSET People,
               job' = [job EXCEPT !.at = "record", !.failed = bad]
        PROVE  /\ job' \in RepoJobs /\ job'.at = "record"
               /\ job'.kind = job.kind /\ job'.only = job.only /\ job'.want = job.want
               /\ job'.remove = job.remove /\ job'.asked = job.asked /\ job'.todo = {}
               /\ job'.seen = job.seen /\ job'.add = job.add /\ job'.failed = bad
    BY <1>0, <2>1 DEF RepoJobs, Repo!Stages
  <2>2. job.failed \in SUBSET People /\ job.failed \cup job.add \cup job.drop \in SUBSET People
    BY <1>0 DEF RepoJobs
  <2>3. repo' = [repo EXCEPT !.rule.list = Repo!NextList] => repo'.rule.list = Repo!NextList
    BY <1>0 DEF RepoRecs, Repo!Rules
  <2>4. CASE /\ ~job.seen.rule.there \/ Repo!NextList = job.seen.rule.list
             /\ job' = [job EXCEPT !.at = "record", !.failed = job.failed]
             /\ UNCHANGED <<repo, last>>
    BY <2>1, <2>2, <2>4
  <2>5. CASE /\ repo' = [repo EXCEPT !.rule.list = Repo!NextList]
             /\ job' = [job EXCEPT !.at = "record", !.failed = job.failed]
             /\ UNCHANGED last
    BY <2>1, <2>2, <2>3, <2>5
  <2>6. CASE /\ job' = [job EXCEPT !.at = "record",
                        !.failed = job.failed \cup job.add \cup job.drop]
             /\ UNCHANGED last
    BY <2>1, <2>2, <2>6
  <2>7. CASE Repo!End(FALSE)
    BY <1>0, <2>7, RepoEnd
  <2> QED BY <2>4, <2>5, <2>6, <2>7 DEF Repo!WriteAllowList, Repo!Call
<1>5. /\ told' \in RepoTold /\ told'.ajar = told.ajar /\ told'.given = told.given
      /\ told'.cut = told.cut /\ told'.clean = told.clean /\ told'.stray = told.stray
      /\ told'.slipped = IF job'.at = "idle" THEN told.slipped \cup job.asked ELSE told.slipped
  <2>1. job.asked \in SUBSET People
    BY <1>0 DEF RepoJobs
  <2> QED BY <1>0, <2>1 DEF Repo!WriteAllowList, RepoTold
<1>6. RepoTyped'
  BY <1>0, <1>3, <1>4, <1>5 DEF RepoKept, RepoTyped, RepoEnds
<1>7. RepoGuards' /\ RepoOpens' /\ OwnKnown'
  BY <1>0, <1>3, <1>4, <1>5, <1>6, RepoFilesQuiet DEF InRoles, RepoEnds
<1>8. CASE RepoEnds(FALSE)
  <2>1. AskedKnown' /\ SeenKnown' /\ ExactKnown' /\ Repo!SuccessIsExact'
    BY <1>8 DEF RepoEnds, AskedKnown, SeenKnown, ExactKnown, Repo!SuccessIsExact
  <2>2. GivenKnown'
    BY <1>0, <1>3, <1>5, <1>8 DEF RepoEnds, GivenKnown
  <2> QED BY <1>6, <1>7, <2>1, <2>2 DEF RepoKept, RepoGives
<1>9. CASE job'.at = "record"
  <2>1. /\ job'.want = job.want /\ job'.remove = job.remove /\ job'.asked = job.asked
        /\ job'.todo = {} /\ job'.seen = job.seen /\ job'.add = job.add
        /\ job.failed \subseteq job'.failed /\ last' = last
    BY <1>4, <1>9 DEF RepoEnds
  <2>2. Repo!Listed(job') = Repo!Listed(job) /\ \A p : Repo!Wanted(job', p) = Repo!Wanted(job, p)
    BY <2>1, RepoSame
  <2>3. AskedKnown'
    BY <1>0, <1>9, <2>1, <2>2 DEF AskedKnown
  <2>4. GivenKnown'
    <3>1. \A p \in told.given : repo'.perm[p] # "none"
      BY <1>0, <1>3 DEF GivenKnown
    <3>2. \A p \in told.given \ told.slipped :
            p \in job.asked /\ (p \in job'.failed \/ Repo!Wanted(job', p) # "none")
      BY <1>0, <2>1, <2>2 DEF GivenKnown
    <3> QED BY <1>5, <1>9, <2>1, <3>1, <3>2 DEF GivenKnown
  <2>5. SeenKnown' /\ Repo!SuccessIsExact'
    BY <1>9 DEF SeenKnown, Repo!SuccessIsExact
  <2>6. ASSUME told.clean, NEW p \in job.asked \ job'.failed
        PROVE  Exact(p, Repo!Wanted(job, p))'
    <3>1. /\ p \in job.asked /\ p \notin job.todo \cup job.failed /\ Came(p)
          /\ repo.rule = job.seen.rule
      BY <1>0, <2>1, <2>6 DEF SeenKnown
    <3>2. repo'.perm[p] = Repo!PermOf(Repo!Wanted(job, p))
      BY <1>3, <3>1 DEF Came
    <3>3. ASSUME repo'.rule.there, p \notin told.stray
          PROVE  p \in repo'.rule.list <=> Repo!OnList(Repo!Wanted(job, p))
      <4>1. job.seen.rule.there
        BY <1>3, <3>1, <3>3
      <4>2. /\ p \in Repo!NextList <=> Repo!OnList(Repo!Wanted(job, p))
            /\ p \notin job.add \cup job.drop =>
                 (p \in job.seen.rule.list <=> Repo!OnList(Repo!Wanted(job, p)))
        BY <1>0, <2>6, <3>1, <3>3, <4>1, RepoNextList
      <4> QED BY <1>3, <1>4, <1>9, <2>6, <3>1, <4>1, <4>2 DEF RepoEnds
    <3>4. Repo!Wanted(job, p)' = Repo!Wanted(job, p)
      BY <2>2
    <3> QED BY <1>5, <3>2, <3>3, <3>4 DEF Exact
  <2>7. ExactKnown'
    BY <1>5, <2>1, <2>6 DEF ExactKnown
  <2> QED BY <1>6, <1>7, <2>3, <2>4, <2>5, <2>7 DEF RepoKept, RepoGives
<1> QED BY <1>4, <1>8, <1>9

(* What one person's change comes to, unless it ends the job.               *)
RepoChanged(p) ==
  /\ job' \in RepoJobs /\ job'.at = "change" /\ UNCHANGED last
  /\ job'.kind = job.kind /\ job'.only = job.only /\ job'.want = job.want
  /\ job'.remove = job.remove /\ job'.asked = job.asked /\ job'.seen = job.seen
  /\ job'.todo = job.todo \ {p}
  /\ job.failed \subseteq job'.failed
  /\ job.add \subseteq job'.add /\ job'.add \subseteq job.add \cup {p}
  /\ job.drop \subseteq job'.drop
  /\ p \in job'.add \ job.add => Repo!NeedListed(p)
  /\ \/ p \in job'.failed
     \/ /\ repo'.perm[p] = Repo!PermOf(Repo!Wanted(job, p))
           \/ (repo' = repo /\ Repo!Have(p) = Repo!PermOf(Repo!Wanted(job, p)))
        /\ Repo!NeedListed(p) /\ ~Repo!HaveListed(p) => p \in job'.add
        /\ ~Repo!NeedListed(p) /\ Repo!HaveListed(p) => p \in job'.drop

LEMMA RepoChangeShape ==
    ASSUME RepoTyped, NEW p \in People, Repo!ChangeRole(p)
    PROVE  RepoEnds(FALSE) \/ RepoChanged(p)
<1> DEFINE on == Repo!NeedListed(p) /\ ~Repo!HaveListed(p)
           off == ~Repo!NeedListed(p) /\ Repo!HaveListed(p)
           perm == Repo!PermOf(Repo!Wanted(job, p))
<1>0. job \in RepoJobs /\ repo \in RepoRecs /\ job.at = "change"
  BY DEF RepoTyped, Repo!ChangeRole
<1>1. \/ Repo!End(FALSE)
      \/ /\ job' = [job EXCEPT !.todo = @ \ {p}, !.failed = @ \cup {p}]
         /\ UNCHANGED last
      \/ /\ job' = [job EXCEPT !.todo = @ \ {p},
                      !.failed = IF Repo!Unexpressible(p) THEN @ \cup {p} ELSE @,
                      !.add = IF on THEN @ \cup {p} ELSE @,
                      !.drop = IF off THEN @ \cup {p} ELSE @]
         /\ UNCHANGED last
         /\ (repo' = repo /\ Repo!Have(p) = perm) \/ repo' = [repo EXCEPT !.perm[p] = perm]
  BY DEF Repo!ChangeRole, Repo!Call
<1>2. CASE Repo!End(FALSE)
  BY <1>0, <1>2, RepoEnd
<1>3. CASE /\ job' = [job EXCEPT !.todo = @ \ {p}, !.failed = @ \cup {p}]
           /\ UNCHANGED last
  BY <1>0, <1>3 DEF RepoJobs, RepoChanged
<1>4. CASE /\ job' = [job EXCEPT !.todo = @ \ {p},
                      !.failed = IF Repo!Unexpressible(p) THEN @ \cup {p} ELSE @,
                      !.add = IF on THEN @ \cup {p} ELSE @,
                      !.drop = IF off THEN @ \cup {p} ELSE @]
           /\ UNCHANGED last
           /\ (repo' = repo /\ Repo!Have(p) = perm) \/ repo' = [repo EXCEPT !.perm[p] = perm]
  <2>1. PICK failed \in SUBSET People, add \in SUBSET People, drop \in SUBSET People :
          /\ job' = [job EXCEPT !.todo = job.todo \ {p}, !.failed = failed,
                                !.add = add, !.drop = drop]
          /\ job.failed \subseteq failed
          /\ job.add \subseteq add /\ add \subseteq job.add \cup {p}
          /\ job.drop \subseteq drop
          /\ p \in add \ job.add => on
          /\ on => p \in add
          /\ off => p \in drop
    <3> DEFINE F == IF Repo!Unexpressible(p) THEN job.failed \cup {p} ELSE job.failed
               A == IF on THEN job.add \cup {p} ELSE job.add
               D == IF off THEN job.drop \cup {p} ELSE job.drop
    <3>1. job' = [job EXCEPT !.todo = job.todo \ {p}, !.failed = F, !.add = A, !.drop = D]
      BY <1>4
    <3> HIDE DEF on, off
    <3>2. job.failed \in SUBSET People /\ job.add \in SUBSET People /\ job.drop \in SUBSET People
      BY <1>0 DEF RepoJobs
    <3>3. /\ F \in SUBSET People /\ A \in SUBSET People /\ D \in SUBSET People
          /\ job.failed \subseteq F
          /\ job.add \subseteq A /\ A \subseteq job.add \cup {p}
          /\ job.drop \subseteq D
          /\ p \in A \ job.add => on
          /\ on => p \in A
          /\ off => p \in D
      BY <3>2
    <3> HIDE DEF F, A, D
    <3> QED BY <3>1, <3>3
  <2>2. /\ job' \in RepoJobs /\ job'.at = "change"
        /\ job'.kind = job.kind /\ job'.only = job.only /\ job'.want = job.want
        /\ job'.remove = job.remove /\ job'.asked = job.asked /\ job'.seen = job.seen
        /\ job'.todo = job.todo \ {p} /\ job'.failed = failed /\ job'.add = add
        /\ job'.drop = drop
    BY <1>0, <2>1 DEF RepoJobs
  <2>3. repo' = [repo EXCEPT !.perm[p] = perm] => repo'.perm[p] = perm
    BY <1>0 DEF RepoRecs
  <2> QED BY <1>4, <2>1, <2>2, <2>3 DEF RepoChanged
<1> QED BY <1>1, <1>2, <1>3, <1>4

LEMMA RepoChange ==
    ASSUME RepoKept, NEW p \in People, Repo!ChangeRole(p), UNCHANGED plan
    PROVE  RepoKept'
<1>0. /\ repo \in RepoRecs /\ job \in RepoJobs /\ rec \in RepoHeld /\ told \in RepoTold
      /\ job.at = "change" /\ p \in job.todo /\ UNCHANGED rec
      /\ AskedKnown /\ GivenKnown /\ SeenKnown
  BY DEF RepoKept, RepoTyped, Repo!ChangeRole, RepoGives
<1>1. /\ Repo!PermOf(Repo!Wanted(job, p)) \in Repo!Perms
      /\ Repo!PermOf(Repo!Wanted(job, p)) = "none" <=> Repo!Wanted(job, p) = "none"
  BY RepoWanted DEF RepoKept
<1>2. repo' = repo \/ repo' = [repo EXCEPT !.perm[p] = Repo!PermOf(Repo!Wanted(job, p))]
  BY DEF Repo!ChangeRole, Repo!Call
<1>3. /\ repo' \in RepoRecs /\ repo'.merges = repo.merges /\ repo'.file = repo.file
      /\ repo'.rule = repo.rule /\ repo'.made = repo.made
      /\ \A q \in People : q # p => repo'.perm[q] = repo.perm[q]
      /\ repo'.perm[p] = repo.perm[p] \/ repo'.perm[p] = Repo!PermOf(Repo!Wanted(job, p))
  <2>1. CASE repo' = repo
    BY <1>0, <2>1
  <2>2. CASE repo' = [repo EXCEPT !.perm[p] = Repo!PermOf(Repo!Wanted(job, p))]
    BY <1>0, <1>1, <2>2 DEF RepoRecs
  <2> QED BY <1>2, <2>1, <2>2
<1>4. RepoEnds(FALSE) \/ RepoChanged(p)
  BY RepoChangeShape DEF RepoKept
<1>5. /\ told' \in RepoTold /\ told'.ajar = told.ajar
      /\ told'.cut = told.cut /\ told'.clean = told.clean /\ told'.stray = told.stray
      /\ told'.slipped = IF job'.at = "idle" THEN told.slipped \cup job.asked ELSE told.slipped
      /\ told'.given = IF repo'.perm[p] = repo.perm[p] THEN told.given
                       ELSE IF Repo!PermOf(Repo!Wanted(job, p)) = "none" THEN told.given \ {p}
                       ELSE told.given \cup {p}
  <2>1. job.asked \in SUBSET People
    BY <1>0 DEF RepoJobs
  <2> QED BY <1>0, <2>1 DEF Repo!ChangeRole, RepoTold
<1>6. RepoTyped'
  BY <1>0, <1>3, <1>4, <1>5 DEF RepoKept, RepoTyped, RepoEnds, RepoChanged
<1>7. RepoGuards' /\ RepoOpens' /\ OwnKnown'
  BY <1>0, <1>3, <1>4, <1>5, <1>6, RepoFilesQuiet DEF InRoles, RepoEnds, RepoChanged
<1>8. \A q \in told'.given : repo'.perm[q] # "none" /\ (q \in told.given \/ q = p)
  BY <1>0, <1>1, <1>3, <1>5 DEF GivenKnown, RepoTold
<1>9. CASE RepoEnds(FALSE)
  <2>1. AskedKnown' /\ SeenKnown' /\ ExactKnown' /\ Repo!SuccessIsExact'
    BY <1>9 DEF RepoEnds, AskedKnown, SeenKnown, ExactKnown, Repo!SuccessIsExact
  <2>2. p \in job.asked
    BY <1>0 DEF AskedKnown
  <2>3. GivenKnown'
    BY <1>0, <1>5, <1>8, <1>9, <2>2 DEF RepoEnds, GivenKnown
  <2> QED BY <1>6, <1>7, <2>1, <2>3 DEF RepoKept, RepoGives
<1>10. CASE RepoChanged(p)
  <2>1. Repo!Listed(job') = Repo!Listed(job) /\ \A q : Repo!Wanted(job', q) = Repo!Wanted(job, q)
    BY <1>10, RepoSame DEF RepoChanged
  <2>2. /\ \A q : Repo!Have(q)' = Repo!Have(q)
        /\ \A q : Repo!NeedListed(q)' <=> Repo!NeedListed(q)
        /\ \A q : Repo!HaveListed(q)' <=> Repo!HaveListed(q)
    BY <1>10, <2>1 DEF RepoChanged, Repo!Have, Repo!NeedListed, Repo!HaveListed
  <2>3. AskedKnown'
    BY <1>0, <1>10, <2>1 DEF AskedKnown, RepoChanged
  <2>4. GivenKnown'
    <3>1. ASSUME NEW q \in told'.given \ told.slipped
          PROVE  /\ q \in job.asked
                 /\ q \in job'.todo \/ q \in job'.failed \/ Repo!Wanted(job, q) # "none"
                 /\ q \in job'.todo => Repo!Have(q) # "none"
      <4>1. CASE q # p
        BY <1>0, <1>8, <1>10, <3>1, <4>1 DEF GivenKnown, RepoChanged
      <4>2. CASE q = p
        <5>1. ASSUME q \notin job'.failed PROVE Repo!Wanted(job, q) # "none"
          <6>1. CASE repo'.perm[p] = Repo!PermOf(Repo!Wanted(job, p))
            BY <1>1, <1>8, <3>1, <4>2, <6>1
          <6>2. CASE repo' = repo /\ Repo!Have(p) = Repo!PermOf(Repo!Wanted(job, p))
            BY <1>0, <1>1, <1>5, <3>1, <4>2, <6>2 DEF GivenKnown
          <6> QED BY <1>10, <4>2, <5>1, <6>1, <6>2 DEF RepoChanged
        <5> QED BY <1>0, <1>10, <4>2, <5>1 DEF AskedKnown, RepoChanged
      <4> QED BY <4>1, <4>2
    <3> QED BY <1>5, <1>8, <1>10, <2>1, <2>2, <3>1 DEF GivenKnown, RepoChanged
  <2>5. SeenKnown'
    <3>1. ASSUME told.clean
          PROVE  /\ repo'.rule = job'.seen.rule
                 /\ told'.stray = {q \in job'.seen.rule.list : Repo!Have(q) = "none"}
                 /\ \A q \in job'.todo : repo'.perm[q] = Repo!Have(q)
                 /\ \A q \in job'.add : Repo!NeedListed(q)
      <4>1. \A q \in job.todo : q \in People
        BY <1>0 DEF RepoJobs
      <4> QED BY <1>0, <1>3, <1>5, <1>10, <3>1, <4>1 DEF SeenKnown, RepoChanged
    <3>2. ASSUME told.clean, NEW q \in job.asked \ (job'.todo \cup job'.failed)
          PROVE  Came(q)'
      <4>1. repo'.perm[q] = Repo!PermOf(Repo!Wanted(job, q))
        <5>1. q \in People
          BY <1>0, <3>2 DEF RepoJobs
        <5>2. CASE q # p
          BY <1>0, <1>3, <1>10, <3>2, <5>1, <5>2 DEF SeenKnown, RepoChanged, Came
        <5>3. CASE q = p
          BY <1>0, <1>10, <3>2, <5>3 DEF SeenKnown, RepoChanged
        <5> QED BY <5>2, <5>3
      <4>2. /\ Repo!NeedListed(q) /\ ~Repo!HaveListed(q) => q \in job'.add
            /\ ~Repo!NeedListed(q) /\ Repo!HaveListed(q) => q \in job'.drop
        BY <1>0, <1>10, <3>2 DEF SeenKnown, RepoChanged, Came
      <4>3. /\ Repo!Wanted(job, q)' = Repo!Wanted(job, q) /\ (Repo!NeedListed(q)' <=> Repo!NeedListed(q))
            /\ Repo!HaveListed(q)' <=> Repo!HaveListed(q)
        BY <2>1, <2>2
      <4> QED BY <4>1, <4>2, <4>3 DEF Came
    <3>3. job'.asked = job.asked /\ told'.clean = told.clean
      BY <1>5, <1>10 DEF RepoChanged
    <3> QED BY <2>2, <3>1, <3>2, <3>3 DEF SeenKnown
  <2>6. ExactKnown' /\ Repo!SuccessIsExact'
    BY <1>10 DEF RepoChanged, ExactKnown, Repo!SuccessIsExact
  <2> QED BY <1>6, <1>7, <2>3, <2>4, <2>5, <2>6 DEF RepoKept, RepoGives
<1> QED BY <1>4, <1>9, <1>10

LEMMA RepoRecord == ASSUME RepoKept, Repo!RecordRoles, UNCHANGED plan PROVE RepoKept'
<1>0. /\ repo \in RepoRecs /\ job \in RepoJobs /\ rec \in RepoHeld /\ told \in RepoTold
      /\ job.at = "record" /\ UNCHANGED repo
      /\ AskedKnown /\ GivenKnown /\ ExactKnown /\ job.todo = {}
  BY DEF RepoKept, RepoTyped, Repo!RecordRoles, RepoGives, AskedKnown
<1>1. Repo!Recorded \in [People -> Repo!Roles]
  BY <1>0 DEF Repo!Recorded, Repo!Listed, RepoJobs, Repo!Roles
<1>2. rec' \in RepoHeld /\ rec'.known = TRUE /\ rec'.roles = Repo!Recorded
  BY <1>0, <1>1 DEF Repo!RecordRoles, RepoHeld
<1>3. RepoEnds(job.failed = {} /\ Repo!StillIn = {})
  BY <1>0, RepoEnd DEF Repo!RecordRoles
<1>4. /\ told' \in RepoTold /\ told'.ajar = told.ajar /\ told'.given = told.given
      /\ told'.cut = told.cut /\ told'.clean = told.clean /\ told'.stray = told.stray
      /\ told'.slipped = told.slipped \cup job.failed
  <2>1. job.failed \in SUBSET People
    BY <1>0 DEF RepoJobs
  <2> QED BY <1>0, <2>1 DEF Repo!RecordRoles, RepoTold
<1>5. RepoTyped'
  BY <1>0, <1>2, <1>3, <1>4 DEF RepoKept, RepoTyped, RepoEnds
<1>6. RepoGuards' /\ RepoOpens' /\ OwnKnown'
  BY <1>0, <1>2, <1>3, <1>4, <1>5, RepoFilesQuiet DEF InRoles, RepoEnds
<1>7. AskedKnown' /\ SeenKnown' /\ ExactKnown'
  BY <1>3 DEF RepoEnds, AskedKnown, SeenKnown, ExactKnown
<1>8. GivenKnown'
  <2>1. \A p \in told.given \ told'.slipped : Repo!Recorded[p] # "none"
    BY <1>0, <1>4 DEF GivenKnown, Repo!Recorded, Repo!Wanted, Repo!Listed, RepoTold
  <2> QED BY <1>0, <1>2, <1>3, <1>4, <2>1 DEF GivenKnown, RepoEnds
<1>9. Repo!SuccessIsExact'
  <2>1. Repo!Listed(last') = Repo!Listed(job) /\ \A q : Repo!Wanted(last', q) = Repo!Wanted(job, q)
    BY <1>3, RepoSame DEF RepoEnds
  <2>2. ASSUME told.clean, job.failed = {}, NEW p \in Repo!Listed(job) \cup job.remove
        PROVE  Exact(p, Repo!Wanted(job, p))
    BY <1>0, <2>2 DEF AskedKnown, ExactKnown
  <2>3. last'.ok = (job.failed = {} /\ Repo!StillIn = {}) /\ last'.remove = job.remove
    BY <1>3 DEF RepoEnds
  <2> QED BY <1>0, <1>4, <2>1, <2>2, <2>3 DEF Repo!SuccessIsExact, Exact
<1> QED BY <1>5, <1>6, <1>7, <1>8, <1>9 DEF RepoKept, RepoGives

(* A job that starts, or starts again.                                      *)
RepoStarts(kind, only) ==
  /\ job' \in RepoJobs /\ job'.kind = kind /\ job'.only = only /\ job'.add = {}
  /\ \/ kind = "create" /\ job'.at = "create"
     \/ kind = "bootstrap" /\ job'.at = "manage"
     \/ kind = "roles" /\ job'.at = "read"

LEMMA RepoBegins ==
    ASSUME NEW kind \in Repo!Kinds, NEW only \in {"all", "files"},
           NEW want \in [People -> Repo!Roles \cup {Repo!Unlisted}], NEW remove \in SUBSET People,
           job' = [Repo!Idle EXCEPT !.kind = kind, !.only = only, !.want = want,
                                    !.remove = remove, !.at = Repo!First(kind)]
    PROVE  RepoStarts(kind, only)
<1>1. \/ kind = "create" /\ Repo!First(kind) = "create"
      \/ kind = "bootstrap" /\ Repo!First(kind) = "manage"
      \/ kind = "roles" /\ Repo!First(kind) = "read"
  BY DEF Repo!First, Repo!Kinds
<1> HIDE DEF Repo!First
<1>2. Repo!First(kind) \in Repo!Stages
  BY <1>1 DEF Repo!Stages
<1>3. PICK begin \in RepoJobs : begin = Repo!Idle
  BY RepoIdle
<1>4. job' = [begin EXCEPT !.kind = kind, !.only = only, !.want = want,
                           !.remove = remove, !.at = Repo!First(kind)]
  BY <1>3
<1>5. begin.add = {}
  BY <1>3, RepoIdle
<1> QED BY <1>1, <1>2, <1>4, <1>5 DEF RepoStarts, RepoJobs, Repo!Kinds

LEMMA RepoCrash == ASSUME RepoKept, Repo!Crash, UNCHANGED plan PROVE RepoKept'
<1>0. /\ repo \in RepoRecs /\ job \in RepoJobs /\ rec \in RepoHeld /\ told \in RepoTold
      /\ job.at # "idle" /\ UNCHANGED <<repo, rec, last>>
  BY DEF RepoKept, RepoTyped, Repo!Crash
<1>1. job.kind \in Repo!Kinds
  BY <1>0 DEF RepoKept, RepoGuards, StageKnown, OfFiles, InRoles, Repo!Kinds, RepoJobs,
     Repo!Stages
<1>2. RepoStarts(job.kind, job.only)
  <2>1. /\ job.only \in {"all", "files"}
        /\ job.want \in [People -> Repo!Roles \cup {Repo!Unlisted}]
        /\ job.remove \in SUBSET People
    BY <1>0 DEF RepoJobs
  <2> QED BY <1>1, <2>1, RepoBegins DEF Repo!Crash
<1>3. /\ told' \in RepoTold /\ told'.given = told.given /\ told'.clean = told.clean
      /\ told'.cut = (told.cut \/ (job.kind = "create" /\ job.at = "manage" /\ ~rec.known))
      /\ told'.ajar = (told.ajar \/ repo.rule.push = "bot")
      /\ told'.slipped = IF job.at \in {"change", "record"} THEN told.slipped \cup job.asked
                         ELSE told.slipped
  <2> DEFINE C == told.cut \/ (job.kind = "create" /\ job.at = "manage" /\ ~rec.known)
             J == told.ajar \/ repo.rule.push = "bot"
             L == IF job.at \in {"change", "record"} THEN told.slipped \cup job.asked
                  ELSE told.slipped
  <2>1. told' = [told EXCEPT !.cut = C, !.ajar = J, !.slipped = L]
    BY DEF Repo!Crash
  <2>2. C \in BOOLEAN /\ J \in BOOLEAN /\ L \in SUBSET People
    BY <1>0 DEF RepoJobs, RepoTold
  <2> HIDE DEF C, J, L
  <2>3. /\ told' \in RepoTold /\ told'.given = told.given /\ told'.clean = told.clean
        /\ told'.cut = C /\ told'.ajar = J /\ told'.slipped = L
    BY <1>0, <2>1, <2>2 DEF RepoTold
  <2> QED BY <2>3 DEF C, J, L
<1>4. RepoTyped'
  BY <1>0, <1>2, <1>3 DEF RepoKept, RepoTyped, RepoStarts
<1>5. RepoGuards'
  BY <1>2 DEF RepoGuards, StageKnown, GuardKnown, Repo!DoneMeansGuarded, InRoles,
     OfFiles, RepoStarts
<1>6. RepoOpens'
  BY <1>0, <1>2, <1>3 DEF RepoKept, RepoOpens, OpenKnown, Repo!LeftAjarIsKnown,
     RepoStarts
<1>7. OwnKnown'
  BY <1>0, <1>3 DEF RepoKept, OwnKnown
<1>8. GivenKnown'
  BY <1>0, <1>2, <1>3 DEF RepoKept, RepoGives, GivenKnown, RepoStarts
<1>9. AskedKnown' /\ SeenKnown' /\ ExactKnown' /\ Repo!SuccessIsExact'
  BY <1>2 DEF RepoStarts, AskedKnown, SeenKnown, ExactKnown, Repo!SuccessIsExact
<1> QED BY <1>4, <1>5, <1>6, <1>7, <1>8, <1>9 DEF RepoKept, RepoGives

LEMMA RepoStart ==
    ASSUME RepoKept, NEW kind \in Repo!Kinds, NEW only \in {"all", "files"},
           NEW want \in [People -> Repo!Roles \cup {Repo!Unlisted}], NEW remove \in SUBSET People,
           Repo!Start(kind, only, want, remove), UNCHANGED plan
    PROVE  RepoKept'
<1>0. /\ told \in RepoTold /\ job.at = "idle" /\ UNCHANGED <<repo, rec, last>>
  BY DEF RepoKept, RepoTyped, Repo!Start
<1>1. RepoStarts(kind, only)
  BY RepoBegins DEF Repo!Start
<1>2. /\ told' \in RepoTold /\ told'.given = told.given /\ told'.cut = told.cut
      /\ told'.ajar = told.ajar /\ told'.slipped = told.slipped
  BY <1>0 DEF Repo!Start, RepoTold
<1>3. RepoTyped'
  BY <1>0, <1>1, <1>2 DEF RepoKept, RepoTyped, RepoStarts
<1>4. RepoGuards'
  BY <1>1 DEF RepoGuards, StageKnown, GuardKnown, Repo!DoneMeansGuarded, InRoles,
     OfFiles, RepoStarts
<1>5. RepoOpens'
  BY <1>0, <1>1, <1>2 DEF RepoKept, RepoOpens, OpenKnown, Repo!LeftAjarIsKnown,
     RepoStarts
<1>6. OwnKnown'
  BY <1>0, <1>2 DEF RepoKept, OwnKnown
<1>7. GivenKnown'
  BY <1>0, <1>1, <1>2 DEF RepoKept, RepoGives, GivenKnown, RepoStarts
<1>8. AskedKnown' /\ SeenKnown' /\ ExactKnown' /\ Repo!SuccessIsExact'
  BY <1>1 DEF RepoStarts, AskedKnown, SeenKnown, ExactKnown, Repo!SuccessIsExact
<1> QED BY <1>3, <1>4, <1>5, <1>6, <1>7, <1>8 DEF RepoKept, RepoGives

(* What the admins and a newer release change, while no job's promise       *)
(* speaks of a clean run.                                                   *)
LEMMA RepoMeddled ==
    ASSUME RepoKept, RepoTyped', UNCHANGED <<rec, job, last>>, ~told'.clean,
           repo'.merges = repo.merges,
           repo'.file = repo.file \/ job.at = "idle",
           repo'.made = repo.made \/ repo'.made = "stranger",
           told'.cut = told.cut, told'.slipped = told.slipped,
           told'.given \subseteq told.given,
           \A p \in told'.given : repo'.perm[p] = repo.perm[p],
           ~repo'.rule.there => repo'.rule.push # "bot",
           repo'.rule.there => repo.rule.there,
           repo'.rule.push = "bot" => repo.rule.push = "bot" /\ told'.ajar = told.ajar
    PROVE  RepoKept'
<1>1. RepoGuards'
  BY DEF RepoKept, RepoGuards, StageKnown, GuardKnown, Repo!DoneMeansGuarded, InRoles,
     OfFiles
<1>2. RepoOpens'
  BY DEF RepoKept, RepoOpens, OpenKnown, Repo!LeftAjarIsKnown
<1>3. OwnKnown'
  BY DEF RepoKept, OwnKnown
<1>4. GivenKnown'
  <2>1. \A p : Repo!Wanted(job, p)' = Repo!Wanted(job, p) /\ Repo!Have(p)' = Repo!Have(p)
    BY RepoSame DEF Repo!Have
  <2> QED BY <2>1 DEF RepoKept, RepoGives, GivenKnown
<1>5. AskedKnown'
  <2>1. Repo!Listed(job)' = Repo!Listed(job)
    BY RepoSame
  <2> QED BY <2>1 DEF RepoKept, RepoGives, AskedKnown
<1>6. SeenKnown' /\ ExactKnown' /\ Repo!SuccessIsExact'
  BY DEF SeenKnown, ExactKnown, Repo!SuccessIsExact
<1> QED BY <1>1, <1>2, <1>3, <1>4, <1>5, <1>6 DEF RepoKept, RepoGives

LEMMA RepoOutsider == ASSUME RepoKept, Repo!Outsider, UNCHANGED plan PROVE RepoKept'
<1>0. /\ repo \in RepoRecs /\ job \in RepoJobs /\ told \in RepoTold /\ plan \in RepoPlan
      /\ UNCHANGED <<rec, job, last>>
      /\ ~repo.rule.there => repo.rule.push # "bot"
  BY DEF RepoKept, RepoTyped, Repo!Outsider, RepoOpens, OpenKnown
<1>1. ASSUME repo.made = "no", repo' = [repo EXCEPT !.made = "stranger"], UNCHANGED told
      PROVE  RepoKept'
  <2>1. /\ repo' \in RepoRecs /\ repo'.merges = repo.merges /\ repo'.file = repo.file
        /\ repo'.perm = repo.perm /\ repo'.rule = repo.rule /\ repo'.made = "stranger"
    BY <1>0, <1>1 DEF RepoRecs
  <2>2. RepoTyped'
    BY <1>0, <1>1, <2>1 DEF RepoKept, RepoTyped
  <2>3. RepoGuards'
    BY <1>0, <1>1, <2>1 DEF RepoKept, RepoGuards, StageKnown, GuardKnown,
       Repo!DoneMeansGuarded, InRoles, OfFiles, Guarded
  <2>4. RepoOpens'
    BY <1>0, <1>1, <2>1 DEF RepoKept, RepoOpens, OpenKnown, Repo!LeftAjarIsKnown
  <2>5. OwnKnown'
    BY <2>1 DEF OwnKnown
  <2>6. RepoGives'
    <3>1. /\ \A p : Repo!Wanted(job, p)' = Repo!Wanted(job, p) /\ Repo!Have(p)' = Repo!Have(p)
          /\ \A p : Repo!NeedListed(p)' = Repo!NeedListed(p) /\ Repo!HaveListed(p)' = Repo!HaveListed(p)
          /\ \A p : Repo!Wanted(last, p)' = Repo!Wanted(last, p)
          /\ Repo!Listed(job)' = Repo!Listed(job) /\ Repo!Listed(last)' = Repo!Listed(last)
      BY <1>0, RepoSame DEF Repo!Have, Repo!NeedListed, Repo!HaveListed
    <3>2. \A p : Came(p)' = Came(p)
      BY <1>0, <2>1, <3>1 DEF Came
    <3>3. \A p : Exact(p, Repo!Wanted(job, p))' = Exact(p, Repo!Wanted(job, p))
      BY <1>1, <2>1, <3>1 DEF Exact
    <3>4. AskedKnown' /\ GivenKnown' /\ SeenKnown' /\ ExactKnown'
      BY <1>0, <1>1, <2>1, <3>1, <3>2, <3>3 DEF RepoKept, RepoGives, AskedKnown,
         GivenKnown, SeenKnown, ExactKnown
    <3>5. Repo!SuccessIsExact'
      BY <1>0, <1>1, <2>1, <3>1 DEF RepoKept, RepoGives, Repo!SuccessIsExact
    <3> QED BY <3>4, <3>5 DEF RepoGives
  <2> QED BY <2>2, <2>3, <2>4, <2>5, <2>6 DEF RepoKept
<1>2. ASSUME NEW p \in plan.people, NEW r \in {"none", "read", "admin"},
             repo' = [repo EXCEPT !.perm[p] = r],
             told' = [told EXCEPT !.clean = FALSE, !.given = @ \ {p}]
      PROVE  RepoKept'
  <2>1. p \in People /\ r \in Repo!Perms
    BY <1>0 DEF RepoPlan, Repo!Perms
  <2>2. /\ repo' \in RepoRecs /\ repo'.merges = repo.merges /\ repo'.file = repo.file
        /\ repo'.made = repo.made /\ repo'.rule = repo.rule
        /\ \A q \in People : q # p => repo'.perm[q] = repo.perm[q]
    BY <1>0, <1>2, <2>1 DEF RepoRecs
  <2>3. /\ told' \in RepoTold /\ told'.clean = FALSE /\ told'.given = told.given \ {p}
        /\ told'.cut = told.cut /\ told'.ajar = told.ajar /\ told'.slipped = told.slipped
    BY <1>0, <1>2 DEF RepoTold
  <2>4. RepoTyped'
    BY <1>0, <2>2, <2>3 DEF RepoKept, RepoTyped
  <2>5. \A q \in told'.given : repo'.perm[q] = repo.perm[q]
    BY <1>0, <2>2, <2>3 DEF RepoTold
  <2> QED BY <1>0, <2>2, <2>3, <2>4, <2>5, RepoMeddled
<1>3. ASSUME repo.rule.there,
             \/ repo' = [repo EXCEPT !.rule = Repo!NoRule]
             \/ repo' = [repo EXCEPT !.rule.push = "anyone"]
             \/ \E p \in plan.people : repo' = [repo EXCEPT !.rule.list = @ \cup {p}],
             told' = [told EXCEPT !.clean = FALSE, !.ajar = @ /\ repo'.rule.push = "bot"]
      PROVE  RepoKept'
  <2>1. /\ repo' \in RepoRecs /\ repo'.merges = repo.merges /\ repo'.file = repo.file
        /\ repo'.made = repo.made /\ repo'.perm = repo.perm
        /\ ~repo'.rule.there => repo'.rule.push # "bot"
        /\ repo'.rule.push = "bot" => repo.rule.push = "bot"
    <3>1. CASE repo' = [repo EXCEPT !.rule = Repo!NoRule]
      BY <1>0, <3>1, RepoIdle DEF RepoRecs
    <3>2. CASE repo' = [repo EXCEPT !.rule.push = "anyone"]
      BY <1>0, <3>2 DEF RepoRecs, Repo!Rules
    <3>3. CASE \E p \in plan.people : repo' = [repo EXCEPT !.rule.list = @ \cup {p}]
      <4>1. PICK p \in People : repo' = [repo EXCEPT !.rule.list = @ \cup {p}]
        BY <1>0, <3>3 DEF RepoPlan
      <4> QED BY <1>0, <1>3, <4>1 DEF RepoRecs, Repo!Rules
    <3> QED BY <1>3, <3>1, <3>2, <3>3
  <2>2. PICK ajar \in BOOLEAN :
          /\ told' = [told EXCEPT !.clean = FALSE, !.ajar = ajar]
          /\ repo'.rule.push = "bot" => ajar = told.ajar
    <3>1. told' = [told EXCEPT !.clean = FALSE, !.ajar = told.ajar /\ repo'.rule.push = "bot"]
      BY <1>3
    <3>2. told.ajar \in BOOLEAN
      BY <1>0 DEF RepoTold
    <3> QED BY <3>1, <3>2
  <2>3. /\ told' \in RepoTold /\ told'.clean = FALSE /\ told'.given = told.given
        /\ told'.cut = told.cut /\ told'.ajar = ajar /\ told'.slipped = told.slipped
    BY <1>0, <2>2 DEF RepoTold
  <2>4. RepoTyped'
    BY <1>0, <2>1, <2>3 DEF RepoKept, RepoTyped
  <2> QED BY <1>0, <1>3, <2>1, <2>2, <2>3, <2>4, RepoMeddled
<1> QED BY <1>1, <1>2, <1>3 DEF Repo!Outsider

LEMMA RepoRelease == ASSUME RepoKept, Repo!NewRelease, UNCHANGED plan PROVE RepoKept'
<1>0. /\ repo \in RepoRecs /\ told \in RepoTold /\ job.at = "idle" /\ UNCHANGED <<rec, job, last>>
      /\ ~repo.rule.there => repo.rule.push # "bot"
  BY DEF RepoKept, RepoTyped, Repo!NewRelease, RepoOpens, OpenKnown
<1>1. /\ repo' \in RepoRecs /\ repo'.merges = repo.merges
      /\ repo'.perm = repo.perm /\ repo'.rule = repo.rule /\ repo'.made = repo.made
  BY <1>0 DEF Repo!NewRelease, RepoRecs
<1>2. /\ told' \in RepoTold /\ told'.clean = FALSE /\ told'.given = told.given
      /\ told'.cut = told.cut /\ told'.ajar = told.ajar /\ told'.slipped = told.slipped
  BY <1>0 DEF Repo!NewRelease, RepoTold
<1>3. RepoTyped'
  BY <1>0, <1>1, <1>2 DEF RepoKept, RepoTyped
<1> QED BY <1>0, <1>1, <1>2, <1>3, RepoMeddled

LEMMA RepoActed ==
    ASSUME RepoKept, Repo!RunJob
    PROVE  RepoKept'
<1>1. UNCHANGED plan
  BY DEF Repo!RunJob
<1>2. CASE Repo!CreateRepo
  BY <1>1, <1>2, RepoCreate
<1>3. CASE Repo!Manage
  BY <1>1, <1>3, RepoManage
<1>4. CASE Repo!ConfigureRepo
  BY <1>1, <1>4, RepoConfigure
<1>5. CASE Repo!RefreshFiles
  BY <1>1, <1>5, RepoRefresh
<1>6. CASE Repo!OpenForBot
  BY <1>1, <1>6, RepoOpen
<1>7. CASE Repo!WriteFile
  BY <1>1, <1>7, RepoWrite
<1>8. CASE Repo!RestoreRule
  BY <1>1, <1>8, RepoRestore
<1>9. CASE Repo!Protect
  BY <1>1, <1>9, RepoProtect
<1>10. CASE Repo!ReadRoles
  BY <1>1, <1>10, RepoRead
<1>11. ASSUME NEW p \in People, Repo!ChangeRole(p) PROVE RepoKept'
  BY <1>1, <1>11, RepoChange
<1>12. CASE Repo!WriteAllowList
  BY <1>1, <1>12, RepoAllow
<1>13. CASE Repo!RecordRoles
  BY <1>1, <1>13, RepoRecord
<1> QED
  BY <1>2, <1>3, <1>4, <1>5, <1>6, <1>7, <1>8, <1>9, <1>10, <1>11, <1>12, <1>13 DEF Repo!RunJob

(* Nothing goes beyond what is planned.                                     *)
LEMMA RepoCounted ==
    ASSUME RepoTyped, count \in RepoCounts, Repo!Next
    PROVE  (count \in RepoCounts)'
<1>1. plan \in RepoPlan /\ plan' = plan
  BY DEF RepoTyped, Repo!Next
<1>2. \/ count' = count
      \/ count.jobs < plan.jobs /\ count' = [count EXCEPT !.jobs = @ + 1]
      \/ count.faults < plan.faults /\ count' = [count EXCEPT !.faults = @ + 1]
      \/ count.edits < plan.edits /\ count' = [count EXCEPT !.edits = @ + 1]
  <2>1. CASE Repo!Admit
    BY <2>1 DEF Repo!Admit, Repo!Start
  <2>2. CASE Repo!RunJob
    <3>1. CASE Repo!CreateRepo \/ Repo!ConfigureRepo \/ Repo!Protect
      BY <3>1 DEF Repo!CreateRepo, Repo!ConfigureRepo, Repo!Protect, Repo!Call,
         Repo!Fault, Repo!Fine
    <3>2. CASE Repo!Manage \/ Repo!RefreshFiles \/ Repo!ReadRoles \/ Repo!RecordRoles
      BY <3>2 DEF Repo!Manage, Repo!RefreshFiles, Repo!ReadRoles, Repo!RecordRoles
    <3>3. CASE Repo!OpenForBot \/ Repo!WriteFile \/ Repo!RestoreRule
      BY <3>3 DEF Repo!OpenForBot, Repo!WriteFile, Repo!RestoreRule, Repo!Call,
         Repo!Fault, Repo!Fine
    <3>4. ASSUME NEW p \in People, Repo!ChangeRole(p)
          PROVE  count' = count \/ Repo!Fault
      BY <3>4 DEF Repo!ChangeRole, Repo!Call, Repo!Fine
    <3>5. CASE Repo!WriteAllowList
      BY <3>5 DEF Repo!WriteAllowList, Repo!Call, Repo!Fault, Repo!Fine
    <3> QED BY <2>2, <3>1, <3>2, <3>3, <3>4, <3>5 DEF Repo!RunJob, Repo!Fault
  <2>3. CASE Repo!Crash
    BY <2>3 DEF Repo!Crash, Repo!Fault
  <2>4. CASE Repo!Outsider
    BY <2>4 DEF Repo!Outsider
  <2>5. CASE Repo!NewRelease
    BY <2>5 DEF Repo!NewRelease
  <2> QED BY <2>1, <2>2, <2>3, <2>4, <2>5 DEF Repo!Next
<1> QED BY <1>1, <1>2 DEF RepoCounts, RepoPlan

LEMMA RepoNext == ASSUME RepoInv, Repo!Next PROVE RepoInv'
<1>1. RepoKept /\ UNCHANGED plan
  BY DEF RepoInv, Repo!Next
<1>2. RepoKept'
  <2>1. CASE Repo!Admit
    <3>1. Repo!Idle.want \in [People -> Repo!Roles \cup {Repo!Unlisted}]
      BY RepoIdle
    <3>2. PICK kind \in Repo!Kinds, only \in {"all", "files"},
               want \in [People -> Repo!Roles \cup {Repo!Unlisted}], remove \in SUBSET People :
            Repo!Start(kind, only, want, remove)
      BY <2>1, <3>1 DEF Repo!Admit, Repo!Kinds
    <3> QED BY <1>1, <3>2, RepoStart
  <2>2. CASE Repo!RunJob
    BY <1>1, <2>2, RepoActed
  <2>3. CASE Repo!Crash
    BY <1>1, <2>3, RepoCrash
  <2>4. CASE Repo!Outsider
    BY <1>1, <2>4, RepoOutsider
  <2>5. CASE Repo!NewRelease
    BY <1>1, <2>5, RepoRelease
  <2> QED BY <2>1, <2>2, <2>3, <2>4, <2>5 DEF Repo!Next
<1>3. (count \in RepoCounts)'
  BY RepoCounted DEF RepoInv, RepoKept
<1> QED BY <1>2, <1>3 DEF RepoInv

LEMMA RepoSafe ==
    ASSUME RepoInv
    PROVE  /\ Repo!TypeOK /\ Repo!DoneMeansGuarded /\ Repo!LeftAjarIsKnown /\ Repo!OwnIsRecognised
           /\ Repo!SuccessIsExact /\ Repo!GivenIsRecorded
<1>1. Repo!TypeOK
  BY RepoTypes DEF RepoInv, RepoKept
<1>2. Repo!DoneMeansGuarded /\ Repo!LeftAjarIsKnown /\ Repo!SuccessIsExact
  BY DEF RepoInv, RepoKept, RepoGuards, RepoOpens, RepoGives
<1>3. Repo!OwnIsRecognised
  BY DEF RepoInv, RepoKept, OwnKnown, Repo!OwnIsRecognised
<1>4. Repo!GivenIsRecorded
  BY DEF RepoInv, RepoKept, RepoGives, GivenKnown, Repo!GivenIsRecorded
<1> QED BY <1>1, <1>2, <1>3, <1>4

(* Nobody the job is not about is touched.                                  *)
LEMMA RepoOthers ==
    ASSUME RepoInv, Repo!Next
    PROVE  Repo!KeepsOthers
<1>0. /\ RepoTyped /\ SeenKnown /\ AskedKnown
      /\ repo \in RepoRecs /\ job \in RepoJobs /\ told \in RepoTold
  BY DEF RepoInv, RepoKept, RepoGives, RepoTyped
<1> SUFFICES ASSUME NEW p \in People, job.at = "change", p \notin job.asked, told'.clean
             PROVE  /\ repo'.perm[p] = repo.perm[p]
                    /\ p \in repo'.rule.list <=> p \in repo.rule.list
  BY DEF Repo!KeepsOthers
<1>1. ASSUME NEW q \in People, Repo!ChangeRole(q)
      PROVE  repo'.perm[p] = repo.perm[p] /\ repo'.rule = repo.rule
  <2>1. q # p
    BY <1>0, <1>1 DEF AskedKnown, Repo!ChangeRole
  <2>2. repo' = repo \/ repo' = [repo EXCEPT !.perm[q] = Repo!PermOf(Repo!Wanted(job, q))]
    BY <1>1 DEF Repo!ChangeRole, Repo!Call
  <2> QED BY <1>0, <2>1, <2>2 DEF RepoRecs
<1>2. CASE Repo!WriteAllowList
  <2>1. told.clean
    BY <1>0, <1>2 DEF Repo!WriteAllowList, RepoTold
  <2>2. repo.rule = job.seen.rule /\ p \notin job.add
    BY <1>0, <2>1 DEF SeenKnown, AskedKnown
  <2>3. p \in Repo!NextList <=> p \in repo.rule.list
    BY <2>2 DEF Repo!NextList
  <2>4. Repo!NextList \in SUBSET People
    BY <1>0 DEF Repo!NextList, RepoJobs, Repo!Rules
  <2>5. repo' = repo \/ repo' = [repo EXCEPT !.rule.list = Repo!NextList]
    BY <1>2 DEF Repo!WriteAllowList, Repo!Call
  <2>6. repo' = repo \/ (repo'.perm = repo.perm /\ repo'.rule.list = Repo!NextList)
    BY <1>0, <2>4, <2>5 DEF RepoRecs, Repo!Rules
  <2> QED BY <2>3, <2>6
<1>3. CASE Repo!Outsider
  <2>1. repo' = [repo EXCEPT !.made = "stranger"]
    BY <1>0, <1>3 DEF Repo!Outsider, RepoTold
  <2> QED BY <1>0, <2>1 DEF RepoRecs
<1>4. CASE Repo!Crash
  BY <1>4 DEF Repo!Crash
<1>5. ~Repo!NewRelease /\ ~Repo!Admit
  BY DEF Repo!NewRelease, Repo!Admit, Repo!Start
<1>6. Repo!RunJob => Repo!WriteAllowList \/ \E q \in People : Repo!ChangeRole(q)
  BY DEF Repo!RunJob, Repo!CreateRepo, Repo!Manage, Repo!ConfigureRepo,
     Repo!RefreshFiles, Repo!OpenForBot, Repo!WriteFile, Repo!RestoreRule, Repo!Protect,
     Repo!ReadRoles, Repo!RecordRoles
<1> QED BY <1>1, <1>2, <1>3, <1>4, <1>5, <1>6 DEF Repo!Next

-----------------------------------------------------------------------------
(* An organisation on GitHub: GitHubOrg.                                    *)

(* The types, variable by variable.                                         *)
Orgs == [supports : BOOLEAN, rules : Org!Rulesets,
         central : [there : BOOLEAN, head : Org!Commits, guarded : BOOLEAN]]
OrgRepo == [rule : {"none", "bare", "check"}, file : BOOLEAN, archived : BOOLEAN]
OrgHeld == [managed : SUBSET OrgRepos, pin : Org!Commits \cup {Org!NoPin}, required : BOOLEAN]
OrgJobs == [at : Org!Steps \cup {"idle"}, kind : {"none", "bootstrap", "archive"},
            repo : OrgRepos, attempt : 0..1, managed : SUBSET OrgRepos,
            seen : Org!Rulesets, sha : Org!Commits \cup {Org!NoPin}, alone : BOOLEAN]
OrgCounts == [jobs : 0..Bounds.org.jobs, faults : 0..Bounds.org.faults,
              edits : 0..Bounds.org.edits]
OrgTold == [guarded : SUBSET OrgRepos, tried : SUBSET OrgRepos]

(* What must stay required.                                                 *)
Guarding == told.guarded \ told.tried
(* A ruleset that is not there names nobody.                                *)
RulesMade == ~org.rules.there => org.rules.ids = {}
(* When the job knows the commit it pins, and that the bridge rendered it.  *)
ShaKnown ==
  /\ job.sha \in 1..Releases \cup {Org!NoPin}
  /\ job.at \in {"central", "rules", "verify", "clean"} => job.sha \in 1..Releases
  /\ job.at \in {"manage", "plan", "look", "commit", "file", "archive", "retire", "idle"} =>
       job.sha = Org!NoPin
(* Whatever must stay required is in the managed set, wherever it is held.  *)
OfBootstrap == {"plan", "look", "commit", "central", "rules", "verify", "file", "rule", "clean"}
ManagedKnown ==
  /\ Guarding \subseteq store.managed \cap adapter.managed
  /\ job.at \in OfBootstrap => job.repo \in store.managed \cap adapter.managed
  /\ job.at \in {"commit", "central", "rules"} => Guarding \subseteq job.managed
(* What a job has seen still stands while nobody else changed it.           *)
AloneKnown ==
  /\ ~job.alone => job.repo \notin told.guarded
  /\ job.alone /\ job.at \in {"commit", "central", "rules"} => job.seen = org.rules
  /\ job.alone /\ job.at = "rule" =>
       IF job.sha = Org!NoPin THEN repo[job.repo].file ELSE Org!Covered(job.repo)
  /\ job.alone /\ job.at = "clean" => Org!Covered(job.repo)
OrgInv ==
  Org!TypeOK /\ RulesMade /\ ShaKnown /\ ManagedKnown /\ AloneKnown /\ Org!StaysRequired

LEMMA OrgTypes ==
    /\ Org!TypeOK <=> /\ org \in Orgs /\ repo \in [OrgRepos -> OrgRepo] /\ store \in OrgHeld
                      /\ adapter \in OrgHeld /\ version \in 1..Releases /\ job \in OrgJobs
                      /\ count \in OrgCounts /\ told \in OrgTold
    /\ Org!TypeOK' <=> /\ org' \in Orgs /\ repo' \in [OrgRepos -> OrgRepo] /\ store' \in OrgHeld
                       /\ adapter' \in OrgHeld /\ version' \in 1..Releases /\ job' \in OrgJobs
                       /\ count' \in OrgCounts /\ told' \in OrgTold
  BY DEF Org!TypeOK, Orgs, OrgRepo, OrgHeld, OrgJobs, OrgCounts, OrgTold

LEMMA OrgIdle ==
    /\ Org!Idle \in OrgJobs
    /\ Org!Idle.at = "idle" /\ Org!Idle.sha = Org!NoPin /\ Org!Idle.alone = TRUE
    /\ Org!NoRules \in Org!Rulesets /\ Org!NoRules.there = FALSE /\ Org!NoRules.ids = {}
<1>1. (CHOOSE r \in OrgRepos : TRUE) \in OrgRepos
  BY OrgFacts
<1>2. Org!NoRules \in Org!Rulesets /\ Org!NoRules.there = FALSE /\ Org!NoRules.ids = {}
  BY DEF Org!NoRules, Org!Rulesets
<1> QED BY <1>1, <1>2 DEF Org!Idle, OrgJobs, Org!Commits

LEMMA OrgFresh ==
    \A kind \in {"none", "bootstrap", "archive"}, r \in OrgRepos :
      /\ Org!Fresh(kind, r) \in OrgJobs
      /\ Org!Fresh(kind, r).at = IF kind = "archive" THEN "archive" ELSE "manage"
      /\ Org!Fresh(kind, r).sha = Org!NoPin /\ Org!Fresh(kind, r).alone = TRUE
      /\ Org!Fresh(kind, r).repo = r
<1> SUFFICES ASSUME NEW kind \in {"none", "bootstrap", "archive"}, NEW r \in OrgRepos
             PROVE  /\ Org!Fresh(kind, r) \in OrgJobs
                    /\ Org!Fresh(kind, r).at = IF kind = "archive" THEN "archive" ELSE "manage"
                    /\ Org!Fresh(kind, r).sha = Org!NoPin /\ Org!Fresh(kind, r).alone = TRUE
                    /\ Org!Fresh(kind, r).repo = r
  OBVIOUS
<1>1. Org!Idle \in OrgJobs /\ Org!Idle.sha = Org!NoPin /\ Org!Idle.alone = TRUE
  BY OrgIdle
<1> QED BY <1>1 DEF Org!Fresh, OrgJobs, Org!Steps

LEMMA OrgTo ==
    ASSUME job \in OrgJobs, NEW s \in Org!Steps, Org!To(s)
    PROVE  /\ job' \in OrgJobs /\ job'.at = s
           /\ job'.repo = job.repo /\ job'.managed = job.managed /\ job'.seen = job.seen
           /\ job'.sha = job.sha /\ job'.alone = job.alone
  BY DEF Org!To, OrgJobs

(* What is written of one repository.                                       *)
LEMMA OrgSetRepo ==
    \A f \in [OrgRepos -> OrgRepo], r \in OrgRepos : \A g :
      /\ g = [f EXCEPT ![r].file = TRUE] =>
           /\ g \in [OrgRepos -> OrgRepo] /\ g[r].file
           /\ \A q \in OrgRepos : g[q].rule = f[q].rule /\ (f[q].file => g[q].file)
      /\ g = [f EXCEPT ![r].archived = TRUE] =>
           /\ g \in [OrgRepos -> OrgRepo]
           /\ \A q \in OrgRepos : g[q].rule = f[q].rule /\ g[q].file = f[q].file
      /\ \A x \in {"none", "bare", "check"} : g = [f EXCEPT ![r].rule = x] =>
           /\ g \in [OrgRepos -> OrgRepo] /\ g[r].rule = x
           /\ \A q \in OrgRepos : g[q].file = f[q].file /\ (q # r => g[q].rule = f[q].rule)
<1> SUFFICES ASSUME NEW f \in [OrgRepos -> OrgRepo], NEW r \in OrgRepos, NEW g
             PROVE
      /\ g = [f EXCEPT ![r].file = TRUE] =>
           /\ g \in [OrgRepos -> OrgRepo] /\ g[r].file
           /\ \A q \in OrgRepos : g[q].rule = f[q].rule /\ (f[q].file => g[q].file)
      /\ g = [f EXCEPT ![r].archived = TRUE] =>
           /\ g \in [OrgRepos -> OrgRepo]
           /\ \A q \in OrgRepos : g[q].rule = f[q].rule /\ g[q].file = f[q].file
      /\ \A x \in {"none", "bare", "check"} : g = [f EXCEPT ![r].rule = x] =>
           /\ g \in [OrgRepos -> OrgRepo] /\ g[r].rule = x
           /\ \A q \in OrgRepos : g[q].file = f[q].file /\ (q # r => g[q].rule = f[q].rule)
  OBVIOUS
<1>1. f[r] \in OrgRepo
  OBVIOUS
<1>2. \A q \in OrgRepo :
        LET n == [q EXCEPT !.file = TRUE] IN n \in OrgRepo /\ n.file = TRUE /\ n.rule = q.rule
  <2> SUFFICES ASSUME NEW q \in OrgRepo, NEW n, n = [q EXCEPT !.file = TRUE]
               PROVE  n \in OrgRepo /\ n.file = TRUE /\ n.rule = q.rule
    OBVIOUS
  <2> QED BY DEF OrgRepo
<1>3. \A q \in OrgRepo :
        LET n == [q EXCEPT !.archived = TRUE] IN n \in OrgRepo /\ n.file = q.file /\ n.rule = q.rule
  <2> SUFFICES ASSUME NEW q \in OrgRepo, NEW n, n = [q EXCEPT !.archived = TRUE]
               PROVE  n \in OrgRepo /\ n.file = q.file /\ n.rule = q.rule
    OBVIOUS
  <2> QED BY DEF OrgRepo
<1>4. \A q \in OrgRepo, x \in {"none", "bare", "check"} :
        LET n == [q EXCEPT !.rule = x] IN n \in OrgRepo /\ n.file = q.file /\ n.rule = x
  <2> SUFFICES ASSUME NEW q \in OrgRepo, NEW x \in {"none", "bare", "check"},
                      NEW n, n = [q EXCEPT !.rule = x]
               PROVE  n \in OrgRepo /\ n.file = q.file /\ n.rule = x
    OBVIOUS
  <2> QED BY DEF OrgRepo
<1>5. ASSUME NEW n \in OrgRepo, g = [f EXCEPT ![r] = n]
      PROVE  g \in [OrgRepos -> OrgRepo] /\ g[r] = n /\ \A q \in OrgRepos : q # r => g[q] = f[q]
  BY <1>5
<1>6. ASSUME g = [f EXCEPT ![r].file = TRUE]
      PROVE  /\ g \in [OrgRepos -> OrgRepo] /\ g[r].file
             /\ \A q \in OrgRepos : g[q].rule = f[q].rule /\ (f[q].file => g[q].file)
  <2>1. PICK n : n = [f[r] EXCEPT !.file = TRUE]
    OBVIOUS
  <2>2. n \in OrgRepo /\ n.file = TRUE /\ n.rule = f[r].rule
    BY <1>1, <1>2, <2>1
  <2>3. g = [f EXCEPT ![r] = n]
    BY <1>6, <2>1
  <2> QED BY <1>5, <2>2, <2>3
<1>7. ASSUME g = [f EXCEPT ![r].archived = TRUE]
      PROVE  /\ g \in [OrgRepos -> OrgRepo]
             /\ \A q \in OrgRepos : g[q].rule = f[q].rule /\ g[q].file = f[q].file
  <2>1. PICK n : n = [f[r] EXCEPT !.archived = TRUE]
    OBVIOUS
  <2>2. n \in OrgRepo /\ n.file = f[r].file /\ n.rule = f[r].rule
    BY <1>1, <1>3, <2>1
  <2>3. g = [f EXCEPT ![r] = n]
    BY <1>7, <2>1
  <2> QED BY <1>5, <2>2, <2>3
<1>8. ASSUME NEW x \in {"none", "bare", "check"}, g = [f EXCEPT ![r].rule = x]
      PROVE  /\ g \in [OrgRepos -> OrgRepo] /\ g[r].rule = x
             /\ \A q \in OrgRepos : g[q].file = f[q].file /\ (q # r => g[q].rule = f[q].rule)
  <2>1. PICK n : n = [f[r] EXCEPT !.rule = x]
    OBVIOUS
  <2>2. n \in OrgRepo /\ n.file = f[r].file /\ n.rule = x
    BY <1>1, <1>4, <2>1
  <2>3. g = [f EXCEPT ![r] = n]
    BY <1>8, <2>1
  <2> QED BY <1>5, <2>2, <2>3
<1> QED BY <1>6, <1>7, <1>8

LEMMA OrgFinish ==
    ASSUME job \in OrgJobs, told \in OrgTold, store \in OrgHeld, adapter' \in OrgHeld,
           NEW ok, Org!Finish(ok)
    PROVE  /\ job' \in OrgJobs /\ job'.at = "idle" /\ job'.sha = Org!NoPin /\ job'.alone = TRUE
           /\ store' \in OrgHeld /\ store'.managed = adapter'.managed
           /\ told' \in OrgTold /\ told'.tried = told.tried
           /\ told'.guarded = IF ok /\ job.alone THEN told.guarded \cup {job.repo}
                              ELSE told.guarded
<1>1. job' = Org!Idle /\ job' \in OrgJobs /\ job'.at = "idle" /\ job'.sha = Org!NoPin
        /\ job'.alone = TRUE
  BY OrgIdle DEF Org!Finish
<1>2. store' \in OrgHeld /\ store'.managed = adapter'.managed
  <2>1. adapter'.managed \in SUBSET OrgRepos /\ adapter'.pin \in Org!Commits \cup {Org!NoPin}
    BY DEF OrgHeld
  <2>2. store' = [store EXCEPT !.managed = adapter'.managed,
                               !.pin = IF adapter'.pin = Org!NoPin THEN @ ELSE adapter'.pin]
    BY DEF Org!Finish, Org!Persist
  <2> QED BY <2>1, <2>2 DEF OrgHeld
<1>3. CASE ok /\ job.alone
  <2>1. told' = [told EXCEPT !.guarded = @ \cup {job.repo}]
    BY <1>3 DEF Org!Finish
  <2>2. job.repo \in OrgRepos
    BY DEF OrgJobs
  <2> QED BY <1>1, <1>2, <1>3, <2>1, <2>2 DEF OrgTold
<1>4. CASE ~(ok /\ job.alone)
  <2>1. told' = told
    BY <1>4 DEF Org!Finish
  <2> QED BY <1>1, <1>2, <1>4, <2>1
<1> QED BY <1>3, <1>4

LEMMA OrgInit == ASSUME Org!Init PROVE OrgInv
<1>1. job = Org!Idle /\ org.rules = Org!NoRules /\ told.guarded = {} /\ told.tried = {}
  BY DEF Org!Init
<1>2. Org!TypeOK
  <2>1. org \in Orgs
    BY OrgIdle DEF Org!Init, Orgs, Org!Commits
  <2>2. store \in OrgHeld /\ adapter \in OrgHeld
    BY DEF Org!Init, OrgHeld
  <2>3. repo \in [OrgRepos -> OrgRepo]
    BY DEF Org!Init, OrgRepo
  <2>4. version \in 1..Releases /\ told \in OrgTold
    BY OrgFacts DEF Org!Init, OrgTold
  <2>5. count \in OrgCounts
    BY OrgFacts DEF Org!Init, OrgCounts
  <2> QED BY <1>1, <2>1, <2>2, <2>3, <2>4, <2>5, OrgIdle, OrgTypes
<1> QED BY <1>1, <1>2, OrgIdle DEF OrgInv, RulesMade, ShaKnown, ManagedKnown,
           AloneKnown, Org!StaysRequired, Guarding, OfBootstrap

LEMMA OrgCounted ==
    ASSUME count \in OrgCounts, Org!Next
    PROVE  count' \in OrgCounts
<1>1. CASE UNCHANGED count
  BY <1>1
<1>2. CASE Org!Fault
  BY <1>2, OrgFacts DEF Org!Fault, OrgCounts
<1>3. CASE count.jobs < Bounds.org.jobs /\ count' = [count EXCEPT !.jobs = @ + 1]
  BY <1>3, OrgFacts DEF OrgCounts
<1>4. CASE count.edits < Bounds.org.edits /\ count' = [count EXCEPT !.edits = @ + 1]
  BY <1>4, OrgFacts DEF OrgCounts
<1>5. Org!Fault \/ UNCHANGED count
        \/ (count.jobs < Bounds.org.jobs /\ count' = [count EXCEPT !.jobs = @ + 1])
        \/ (count.edits < Bounds.org.edits /\ count' = [count EXCEPT !.edits = @ + 1])
  BY DEF Org!Next, Org!RunJob, Org!Admit, Org!Start, Org!Restart, Org!Outsider,
     Org!Manage, Org!Plan, Org!Look, Org!Commit, Org!ProtectCentral, Org!WriteRules,
     Org!VerifyRules, Org!WorkflowFile, Org!RepoRuleset, Org!CleanUp, Org!Archive,
     Org!Retire, Org!Call, Org!Fine
<1> QED BY <1>1, <1>2, <1>3, <1>4, <1>5

(* Every action keeps the invariant, from what it does to each field.       *)
OrgTyped ==
  /\ org \in Orgs /\ repo \in [OrgRepos -> OrgRepo] /\ store \in OrgHeld
  /\ adapter \in OrgHeld /\ version \in 1..Releases /\ job \in OrgJobs
  /\ told \in OrgTold
OrgKept == OrgTyped /\ RulesMade /\ ShaKnown /\ ManagedKnown /\ AloneKnown /\ Org!StaysRequired
OrgSame(s) ==
  /\ job'.at = s /\ job'.repo = job.repo /\ job'.managed = job.managed
  /\ job'.seen = job.seen /\ job'.sha = job.sha /\ job'.alone = job.alone

LEMMA OrgStart ==
    ASSUME OrgKept, NEW r \in OrgRepos, NEW kind \in {"bootstrap", "archive"}, Org!Start(r, kind)
    PROVE  OrgKept'
<1>1. job' = Org!Fresh(kind, r) /\ UNCHANGED <<org, repo, store, adapter, version, told>>
  BY DEF Org!Start
<1>2. job' \in OrgJobs /\ job'.at \in {"archive", "manage"} /\ job'.sha = Org!NoPin
        /\ job'.alone = TRUE
  <2>1. kind \in {"none", "bootstrap", "archive"}
    OBVIOUS
  <2>2. /\ Org!Fresh(kind, r) \in OrgJobs
        /\ Org!Fresh(kind, r).at = IF kind = "archive" THEN "archive" ELSE "manage"
        /\ Org!Fresh(kind, r).sha = Org!NoPin /\ Org!Fresh(kind, r).alone = TRUE
    BY <2>1, OrgFresh
  <2> QED BY <1>1, <2>2
<1>3. OrgTyped'
  BY <1>1, <1>2 DEF OrgKept, OrgTyped
<1>4. ShaKnown' /\ AloneKnown'
  BY <1>2 DEF ShaKnown, AloneKnown
<1>5. ManagedKnown'
  BY <1>1, <1>2 DEF OrgKept, ManagedKnown, Guarding, OfBootstrap
<1>6. RulesMade' /\ Org!StaysRequired'
  BY <1>1 DEF OrgKept, RulesMade, Org!StaysRequired, Org!Required, Org!Covered
<1> QED BY <1>3, <1>4, <1>5, <1>6 DEF OrgKept

LEMMA OrgManage == ASSUME OrgKept, Org!Manage PROVE OrgKept'
<1>1. /\ Org!To("plan") /\ UNCHANGED <<org, repo, version, told>> /\ job.at = "manage"
      /\ store' = [store EXCEPT !.managed = @ \cup {job.repo}]
      /\ adapter' = [adapter EXCEPT !.managed = store.managed \cup {job.repo}]
  BY DEF Org!Manage
<1>2. OrgSame("plan") /\ job' \in OrgJobs
  BY <1>1, OrgTo DEF OrgKept, OrgTyped, Org!Steps, OrgSame
<1>3. /\ store' \in OrgHeld /\ adapter' \in OrgHeld
      /\ store'.managed = store.managed \cup {job.repo}
      /\ adapter'.managed = store.managed \cup {job.repo}
  BY <1>1 DEF OrgKept, OrgTyped, OrgHeld, OrgJobs
<1>4. OrgTyped'
  BY <1>1, <1>2, <1>3 DEF OrgKept, OrgTyped
<1>5. ManagedKnown'
  BY <1>1, <1>2, <1>3 DEF OrgKept, ManagedKnown, Guarding, OrgSame
<1> QED BY <1>1, <1>2, <1>4, <1>5 DEF OrgKept, RulesMade, ShaKnown, AloneKnown,
      Org!StaysRequired, Org!Required, Org!Covered, OrgSame

LEMMA OrgPlan == ASSUME OrgKept, Org!Plan PROVE OrgKept'
<1>1. /\ Org!To("look") \/ Org!To("file")
      /\ UNCHANGED <<org, repo, store, adapter, version, told>> /\ job.at = "plan"
  BY DEF Org!Plan
<1>2. (OrgSame("look") \/ OrgSame("file")) /\ job' \in OrgJobs
  BY <1>1, OrgTo DEF OrgKept, OrgTyped, Org!Steps, OrgSame
<1>3. OrgTyped'
  BY <1>1, <1>2 DEF OrgKept, OrgTyped
<1> QED BY <1>1, <1>2, <1>3 DEF OrgKept, RulesMade, ShaKnown, AloneKnown, ManagedKnown,
           OfBootstrap, Guarding, Org!StaysRequired, Org!Required, Org!Covered, OrgSame

(* A job that gives up keeps it, whatever it had done to `.vgi'.            *)
LEMMA OrgAbandon ==
    ASSUME OrgKept, Org!Abandon, UNCHANGED <<repo, version>>, org' \in Orgs, org'.rules = org.rules
    PROVE  OrgKept'
<1>1. adapter' = adapter /\ Org!Finish(FALSE)
  BY DEF Org!Abandon
<1>2. /\ job' \in OrgJobs /\ job'.at = "idle" /\ job'.sha = Org!NoPin /\ job'.alone = TRUE
      /\ store' \in OrgHeld /\ store'.managed = adapter.managed
      /\ told' \in OrgTold /\ told'.tried = told.tried /\ told'.guarded = told.guarded
  BY <1>1, OrgFinish DEF OrgKept, OrgTyped
<1>3. OrgTyped'
  BY <1>1, <1>2 DEF OrgKept, OrgTyped
<1> QED BY <1>1, <1>2, <1>3 DEF OrgKept, RulesMade, ShaKnown, AloneKnown, ManagedKnown,
           OfBootstrap, Guarding, Org!StaysRequired, Org!Required, Org!Covered

LEMMA OrgLook == ASSUME OrgKept, Org!Look PROVE OrgKept'
<1>1. org' = org \/ org' = Org!CentralMade
  BY DEF Org!Look, Org!Call
<1>2. org' \in Orgs /\ org'.rules = org.rules
  BY <1>1 DEF OrgKept, OrgTyped, Orgs, Org!CentralMade
<1>3. UNCHANGED <<repo, version>> /\ job.at = "look"
  BY DEF Org!Look
<1>4. CASE Org!Abandon
  BY <1>2, <1>3, <1>4, OrgAbandon
<1>5. CASE /\ job' = [job EXCEPT !.at = "commit", !.managed = adapter.managed, !.seen = org.rules]
           /\ UNCHANGED <<store, adapter, told>>
  <2>1. org.rules \in Org!Rulesets /\ adapter.managed \in SUBSET OrgRepos
    BY DEF OrgKept, OrgTyped, Orgs, OrgHeld
  <2>2. /\ job' \in OrgJobs /\ job'.at = "commit" /\ job'.repo = job.repo
        /\ job'.managed = adapter.managed /\ job'.seen = org.rules
        /\ job'.sha = job.sha /\ job'.alone = job.alone
    BY <1>5, <2>1 DEF OrgKept, OrgTyped, OrgJobs, Org!Steps
  <2>3. OrgTyped'
    BY <1>2, <1>3, <1>5, <2>2 DEF OrgKept, OrgTyped
  <2> QED BY <1>2, <1>3, <1>5, <2>2, <2>3 DEF OrgKept, RulesMade, ShaKnown, AloneKnown,
             ManagedKnown, OfBootstrap, Guarding, Org!StaysRequired, Org!Required,
             Org!Covered
<1> QED BY <1>4, <1>5 DEF Org!Look, Org!Call

LEMMA OrgCommit == ASSUME OrgKept, Org!Commit PROVE OrgKept'
<1>1. org' = org \/ org' = [org EXCEPT !.central.head = version]
  BY DEF Org!Commit, Org!Call
<1>2. org' \in Orgs /\ org'.rules = org.rules
  BY <1>1 DEF OrgKept, OrgTyped, Orgs, Org!Commits
<1>3. UNCHANGED <<repo, version>> /\ job.at = "commit"
  BY DEF Org!Commit
<1>4. CASE Org!Abandon
  BY <1>2, <1>3, <1>4, OrgAbandon
<1>5. CASE /\ job' = [job EXCEPT !.at = "central", !.sha = version]
           /\ UNCHANGED <<store, adapter, told>>
  <2>1. /\ job' \in OrgJobs /\ job'.at = "central" /\ job'.repo = job.repo
        /\ job'.managed = job.managed /\ job'.seen = job.seen
        /\ job'.sha = version /\ job'.alone = job.alone /\ version \in 1..Releases
    BY <1>5 DEF OrgKept, OrgTyped, OrgJobs, Org!Steps, Org!Commits
  <2>2. OrgTyped'
    BY <1>2, <1>3, <1>5, <2>1 DEF OrgKept, OrgTyped
  <2> QED BY <1>2, <1>3, <1>5, <2>1, <2>2 DEF OrgKept, RulesMade, ShaKnown, AloneKnown,
             ManagedKnown, OfBootstrap, Guarding, Org!StaysRequired, Org!Required,
             Org!Covered
<1> QED BY <1>4, <1>5 DEF Org!Commit, Org!Call

LEMMA OrgProtect == ASSUME OrgKept, Org!ProtectCentral PROVE OrgKept'
<1>1. org' = org \/ org' = [org EXCEPT !.central.guarded = TRUE]
  BY DEF Org!ProtectCentral, Org!Call
<1>2. org' \in Orgs /\ org'.rules = org.rules
  BY <1>1 DEF OrgKept, OrgTyped, Orgs
<1>3. UNCHANGED <<repo, version>> /\ job.at = "central"
  BY DEF Org!ProtectCentral
<1>4. CASE Org!Abandon
  BY <1>2, <1>3, <1>4, OrgAbandon
<1>5. CASE Org!To("rules") /\ UNCHANGED <<store, adapter, told>>
  <2>1. OrgSame("rules") /\ job' \in OrgJobs
    BY <1>5, OrgTo DEF OrgKept, OrgTyped, Org!Steps, OrgSame
  <2>2. OrgTyped'
    BY <1>2, <1>3, <1>5, <2>1 DEF OrgKept, OrgTyped
  <2> QED BY <1>2, <1>3, <1>5, <2>1, <2>2 DEF OrgKept, RulesMade, ShaKnown, AloneKnown,
             ManagedKnown, OfBootstrap, Guarding, Org!StaysRequired, Org!Required,
             Org!Covered, OrgSame
<1> QED BY <1>4, <1>5 DEF Org!ProtectCentral, Org!Call

LEMMA OrgWriteRules == ASSUME OrgKept, Org!WriteRules PROVE OrgKept'
<1>1. UNCHANGED <<repo, version>> /\ job.at = "rules" /\ job.sha \in 1..Releases
        /\ job.repo \in OrgRepos
  BY DEF Org!WriteRules, OrgKept, ShaKnown, OrgTyped, OrgJobs
<1>2. CASE job.seen = Org!RulesetBody
  <2>1. Org!To("rule") /\ UNCHANGED <<org, store, adapter, told>>
    BY <1>2 DEF Org!WriteRules
  <2>2. OrgSame("rule") /\ job' \in OrgJobs
    BY <2>1, OrgTo DEF OrgKept, OrgTyped, Org!Steps, OrgSame
  <2>3. OrgTyped'
    BY <1>1, <2>1, <2>2 DEF OrgKept, OrgTyped
  <2>4. job.seen.there /\ job.repo \in job.seen.ids /\ job.seen.sha = job.sha
    BY <1>2 DEF Org!RulesetBody
  <2>5. job.alone => Org!Covered(job.repo)
    BY <1>1, <2>4, OrgFacts DEF OrgKept, AloneKnown, Org!Covered
  <2>6. AloneKnown'
    BY <1>1, <2>1, <2>2, <2>5, OrgFacts DEF OrgKept, AloneKnown, OrgSame, Org!Covered
  <2> QED BY <1>1, <2>1, <2>2, <2>3, <2>6 DEF OrgKept, RulesMade, ShaKnown,
             ManagedKnown, OfBootstrap, Guarding, Org!StaysRequired, Org!Required,
             Org!Covered, OrgSame
<1>3. CASE UNCHANGED org /\ Org!Abandon
  BY <1>1, <1>3, OrgAbandon DEF OrgKept, OrgTyped
<1>4. CASE org' = [org EXCEPT !.rules = Org!RulesetBody]
             /\ \/ Org!To("verify") /\ UNCHANGED <<store, adapter, told>>
                \/ Org!Abandon
  <2>1. Org!RulesetBody \in Org!Rulesets /\ Org!RulesetBody.there /\ Org!RulesetBody.sha = job.sha
        /\ Org!RulesetBody.ids = job.managed \cup {job.repo}
    BY <1>1 DEF Org!RulesetBody, Org!Rulesets, OrgKept, OrgTyped, OrgJobs, Org!Commits
  <2>2. /\ org' \in Orgs /\ org'.rules.there /\ org'.rules.sha = job.sha
        /\ org'.rules.ids = job.managed \cup {job.repo}
    BY <1>4, <2>1 DEF OrgKept, OrgTyped, Orgs
  <2>3. Guarding \subseteq job.managed
    BY <1>1 DEF OrgKept, ManagedKnown
  <2>4. \A r \in Guarding : Org!Required(r)'
    BY <1>1, <2>2, <2>3, OrgFacts DEF Org!Required, Org!Covered
  <2>5. CASE Org!To("verify") /\ UNCHANGED <<store, adapter, told>>
    <3>1. OrgSame("verify") /\ job' \in OrgJobs
      BY <2>5, OrgTo DEF OrgKept, OrgTyped, Org!Steps, OrgSame
    <3>2. OrgTyped'
      BY <1>1, <2>2, <2>5, <3>1 DEF OrgKept, OrgTyped
    <3>3. Org!StaysRequired'
      BY <2>4, <2>5 DEF Org!StaysRequired, Guarding
    <3> QED BY <1>1, <2>2, <2>5, <3>1, <3>2, <3>3 DEF OrgKept, RulesMade, ShaKnown,
               ManagedKnown, AloneKnown, OfBootstrap, Guarding, OrgSame
  <2>6. CASE Org!Abandon
    <3>1. /\ job' \in OrgJobs /\ job'.at = "idle" /\ job'.sha = Org!NoPin /\ job'.alone = TRUE
          /\ store' \in OrgHeld /\ store'.managed = adapter.managed /\ adapter' = adapter
          /\ told' \in OrgTold /\ told'.tried = told.tried /\ told'.guarded = told.guarded
      BY <2>6, OrgFinish DEF OrgKept, OrgTyped, Org!Abandon
    <3>2. OrgTyped'
      BY <1>1, <2>2, <3>1 DEF OrgKept, OrgTyped
    <3>3. Org!StaysRequired'
      BY <2>4, <3>1 DEF Org!StaysRequired, Guarding
    <3> QED BY <1>1, <2>2, <3>1, <3>2, <3>3 DEF OrgKept, RulesMade, ShaKnown,
               ManagedKnown, AloneKnown, OfBootstrap, Guarding
  <2> QED BY <1>4, <2>5, <2>6
<1>5. CASE adapter' = [adapter EXCEPT !.required = FALSE] /\ Org!Replan /\ UNCHANGED org
  <2>1. adapter' \in OrgHeld /\ adapter'.managed = adapter.managed
    BY <1>5 DEF OrgKept, OrgTyped, OrgHeld
  <2>2. CASE /\ job' = [Org!Again EXCEPT !.at = "plan", !.attempt = 1, !.alone = job.alone]
             /\ UNCHANGED <<store, told>>
    <3>1. Org!Again \in OrgJobs /\ Org!Again.sha = Org!NoPin /\ Org!Again.repo = job.repo
      <4>1. job.kind \in {"none", "bootstrap", "archive"} /\ job.repo \in OrgRepos
        BY DEF OrgKept, OrgTyped, OrgJobs
      <4> QED BY <4>1, OrgFresh DEF Org!Again
    <3>2. /\ job' \in OrgJobs /\ job'.at = "plan" /\ job'.alone = job.alone
          /\ job'.sha = Org!NoPin /\ job'.repo = job.repo
      <4>1. job.alone \in BOOLEAN
        BY DEF OrgKept, OrgTyped, OrgJobs
      <4>2. /\ job' \in OrgJobs /\ job'.at = "plan" /\ job'.alone = job.alone
            /\ job'.sha = Org!Again.sha /\ job'.repo = Org!Again.repo
        <5>1. PICK a \in OrgJobs : a = Org!Again
          BY <3>1
        <5>2. PICK b \in BOOLEAN : b = job.alone
          BY <4>1
        <5>3. job' = [a EXCEPT !.at = "plan", !.attempt = 1, !.alone = b]
          BY <2>2, <5>1, <5>2
        <5>4. /\ job' \in OrgJobs /\ job'.at = "plan" /\ job'.alone = b
              /\ job'.sha = a.sha /\ job'.repo = a.repo
          <6>1. 1 \in 0..1 /\ "plan" \in Org!Steps \cup {"idle"}
            BY DEF Org!Steps
          <6>2. PICK n : n = [a EXCEPT !.at = "plan"]
            OBVIOUS
          <6>3. n \in OrgJobs /\ n.at = "plan" /\ n.sha = a.sha /\ n.repo = a.repo
            BY <6>1, <6>2 DEF OrgJobs
          <6>4. PICK m : m = [n EXCEPT !.attempt = 1]
            OBVIOUS
          <6>5. m \in OrgJobs /\ m.at = "plan" /\ m.sha = a.sha /\ m.repo = a.repo
            BY <6>1, <6>3, <6>4 DEF OrgJobs
          <6>6. job' = [m EXCEPT !.alone = b]
            BY <5>3, <6>2, <6>4
          <6> QED BY <6>5, <6>6 DEF OrgJobs
        <5> QED BY <5>1, <5>2, <5>4
      <4> QED BY <3>1, <4>2
    <3>3. OrgTyped'
      BY <1>1, <1>5, <2>1, <2>2, <3>2 DEF OrgKept, OrgTyped
    <3> QED BY <1>1, <1>5, <2>1, <2>2, <3>2, <3>3 DEF OrgKept, RulesMade, ShaKnown,
               ManagedKnown, AloneKnown, OfBootstrap, Guarding, Org!StaysRequired,
               Org!Required, Org!Covered
  <2>3. CASE Org!Finish(FALSE)
    <3>1. /\ job' \in OrgJobs /\ job'.at = "idle" /\ job'.sha = Org!NoPin /\ job'.alone = TRUE
          /\ store' \in OrgHeld /\ store'.managed = adapter'.managed
          /\ told' \in OrgTold /\ told'.tried = told.tried /\ told'.guarded = told.guarded
      BY <2>1, <2>3, OrgFinish DEF OrgKept, OrgTyped
    <3>2. OrgTyped'
      BY <1>1, <1>5, <2>1, <3>1 DEF OrgKept, OrgTyped
    <3> QED BY <1>1, <1>5, <2>1, <3>1, <3>2 DEF OrgKept, RulesMade, ShaKnown,
               ManagedKnown, AloneKnown, OfBootstrap, Guarding, Org!StaysRequired,
               Org!Required, Org!Covered
  <2> QED BY <1>5, <2>2, <2>3 DEF Org!Replan
<1> QED BY <1>2, <1>3, <1>4, <1>5 DEF Org!WriteRules, Org!Call

LEMMA OrgVerify == ASSUME OrgKept, Org!VerifyRules PROVE OrgKept'
<1>1. UNCHANGED <<org, repo, version>> /\ job.at = "verify" /\ job.sha \in 1..Releases
  BY DEF Org!VerifyRules, OrgKept, ShaKnown
<1>2. CASE Org!Abandon
  BY <1>1, <1>2, OrgAbandon DEF OrgKept, OrgTyped
<1>3. CASE /\ job.repo \in org.rules.ids /\ org.rules.sha = job.sha
           /\ Org!To("rule") /\ UNCHANGED <<store, adapter, told>>
  <2>1. OrgSame("rule") /\ job' \in OrgJobs
    BY <1>3, OrgTo DEF OrgKept, OrgTyped, Org!Steps, OrgSame
  <2>2. OrgTyped'
    BY <1>1, <1>3, <2>1 DEF OrgKept, OrgTyped
  <2>3. Org!Covered(job.repo)
    BY <1>1, <1>3, OrgFacts DEF Org!Covered, OrgKept, RulesMade, OrgTyped, Orgs,
       Org!Rulesets
  <2>4. AloneKnown'
    BY <1>1, <1>3, <2>1, <2>3, OrgFacts DEF OrgKept, AloneKnown, OrgSame, Org!Covered
  <2> QED BY <1>1, <1>3, <2>1, <2>2, <2>4 DEF OrgKept, RulesMade, ShaKnown,
             ManagedKnown, OfBootstrap, Guarding, Org!StaysRequired, Org!Required,
             Org!Covered, OrgSame
<1> QED BY <1>2, <1>3 DEF Org!VerifyRules
LEMMA OrgWorkflowFile == ASSUME OrgKept, Org!WorkflowFile PROVE OrgKept'
<1>1. UNCHANGED <<org, version>> /\ job.at = "file" /\ job.sha = Org!NoPin
        /\ job.repo \in OrgRepos
  BY DEF Org!WorkflowFile, OrgKept, ShaKnown, OrgTyped, OrgJobs
<1>2. repo' = repo \/ repo' = [repo EXCEPT ![job.repo].file = TRUE]
  BY DEF Org!WorkflowFile, Org!Call
<1>3. /\ repo' \in [OrgRepos -> OrgRepo]
      /\ \A r \in OrgRepos : repo'[r].rule = repo[r].rule /\ (repo[r].file => repo'[r].file)
  <2>1. CASE repo' = repo
    BY <2>1 DEF OrgKept, OrgTyped
  <2>2. CASE repo' = [repo EXCEPT ![job.repo].file = TRUE]
    BY <1>1, <2>2, OrgSetRepo DEF OrgKept, OrgTyped
  <2> QED BY <1>2, <2>1, <2>2
<1>4. Org!StaysRequired \/ told'.guarded = told.guarded
  BY DEF OrgKept
<1>5. \A r \in Guarding : Org!Required(r)'
  BY <1>1, <1>3 DEF OrgKept, Org!StaysRequired, Guarding, Org!Required, Org!Covered,
     OrgTyped, OrgTold
<1>6. CASE Org!Abandon
  <2>1. /\ job' \in OrgJobs /\ job'.at = "idle" /\ job'.sha = Org!NoPin /\ job'.alone = TRUE
        /\ store' \in OrgHeld /\ store'.managed = adapter.managed /\ adapter' = adapter
        /\ told' \in OrgTold /\ told'.tried = told.tried /\ told'.guarded = told.guarded
    BY <1>6, OrgFinish DEF OrgKept, OrgTyped, Org!Abandon
  <2>2. OrgTyped'
    BY <1>1, <1>3, <2>1 DEF OrgKept, OrgTyped
  <2>3. Org!StaysRequired'
    BY <1>5, <2>1 DEF Org!StaysRequired, Guarding
  <2> QED BY <1>1, <2>1, <2>2, <2>3 DEF OrgKept, RulesMade, ShaKnown, ManagedKnown,
          AloneKnown, OfBootstrap, Guarding
<1>7. CASE /\ Org!To("rule") /\ UNCHANGED <<store, adapter, told>>
           /\ repo[job.repo].file \/ repo' = [repo EXCEPT ![job.repo].file = TRUE]
  <2>1. OrgSame("rule") /\ job' \in OrgJobs
    BY <1>7, OrgTo DEF OrgKept, OrgTyped, Org!Steps, OrgSame
  <2>2. OrgTyped'
    BY <1>1, <1>3, <1>7, <2>1 DEF OrgKept, OrgTyped
  <2>3. Org!StaysRequired'
    BY <1>5, <1>7 DEF Org!StaysRequired, Guarding
  <2>4. repo'[job.repo].file
    BY <1>1, <1>3, <1>7, OrgSetRepo DEF OrgKept, OrgTyped
  <2>5. AloneKnown'
    BY <1>1, <1>7, <2>1, <2>4 DEF OrgKept, AloneKnown, OrgSame
  <2> QED BY <1>1, <1>7, <2>1, <2>2, <2>3, <2>5 DEF OrgKept, RulesMade, ShaKnown,
             ManagedKnown, OfBootstrap, Guarding, OrgSame
<1> QED BY <1>6, <1>7 DEF Org!WorkflowFile, Org!Call

LEMMA OrgRule == ASSUME OrgKept, Org!RepoRuleset PROVE OrgKept'
<1> DEFINE required == job.sha # Org!NoPin
           rule == Org!GuardRule(required)
<1>1. UNCHANGED <<org, version>> /\ job.at = "rule" /\ job.repo \in OrgRepos
  BY DEF Org!RepoRuleset, OrgKept, OrgTyped, OrgJobs
<1>2. repo' = repo \/ repo' = [repo EXCEPT ![job.repo].rule = rule]
  BY DEF Org!RepoRuleset
<1>3. /\ rule = IF required THEN "bare" ELSE "check"
      /\ repo' \in [OrgRepos -> OrgRepo]
      /\ \A r \in OrgRepos : /\ repo'[r].file = repo[r].file
                             /\ r # job.repo => repo'[r].rule = repo[r].rule
      /\ repo' = repo \/ repo'[job.repo].rule = rule
  <2>1. rule = (IF required THEN "bare" ELSE "check") /\ rule \in {"none", "bare", "check"}
    BY DEF Org!GuardRule
  <2> HIDE DEF rule
  <2>2. CASE repo' = repo /\ repo' # [repo EXCEPT ![job.repo].rule = rule]
    BY <2>1, <2>2 DEF OrgKept, OrgTyped
  <2>3. CASE repo' = [repo EXCEPT ![job.repo].rule = rule]
    BY <1>1, <2>1, <2>3, OrgSetRepo DEF OrgKept, OrgTyped
  <2> QED BY <1>2, <2>2, <2>3
<1> HIDE DEF rule
<1>4. adapter' \in OrgHeld /\ adapter'.managed = adapter.managed
  <2>1. CASE required
    <3>1. adapter' = [adapter EXCEPT !.managed = @ \cup {job.repo}, !.pin = job.sha]
      BY <2>1 DEF Org!RepoRuleset
    <3>2. job.repo \in adapter.managed /\ job.sha \in Org!Commits \cup {Org!NoPin}
      BY <1>1 DEF OrgKept, OrgTyped, OrgJobs, ManagedKnown, OfBootstrap
    <3> QED BY <1>1, <3>1, <3>2 DEF OrgKept, OrgTyped, OrgHeld
  <2>2. CASE ~required
    BY <2>2 DEF Org!RepoRuleset, OrgKept, OrgTyped
  <2> QED BY <2>1, <2>2
<1>5. job.repo \in told.guarded => job.alone
  BY DEF OrgKept, AloneKnown
<1>6. \A r \in OrgRepos : r = job.repo /\ job.alone => Org!Required(r)' \/ repo' = repo
  <2> SUFFICES ASSUME job.alone, repo' # repo, NEW r \in OrgRepos, r = job.repo
               PROVE  Org!Required(r)'
    OBVIOUS
  <2>1. CASE required
    <3>1. Org!Covered(r)
      BY <1>1, <2>1 DEF OrgKept, AloneKnown
    <3> QED BY <1>1, <3>1 DEF Org!Required, Org!Covered
  <2>2. CASE ~required
    <3>1. repo[r].file
      BY <1>1, <2>2 DEF OrgKept, AloneKnown
    <3>2. repo'[r].rule = "check"
      BY <1>3, <2>2
    <3>3. repo'[r].file = repo[r].file
      BY <1>3
    <3> QED BY <3>1, <3>2, <3>3 DEF Org!Required
  <2> QED BY <2>1, <2>2
<1>7. \A r \in Guarding : Org!Required(r)'
  <2> SUFFICES ASSUME NEW r \in Guarding PROVE Org!Required(r)'
    OBVIOUS
  <2>1. Org!Required(r) /\ r \in OrgRepos /\ r \in told.guarded
    BY DEF OrgKept, Org!StaysRequired, Guarding, OrgTyped, OrgTold
  <2>2. CASE r = job.repo /\ repo' # repo
    BY <1>5, <1>6, <2>1, <2>2
  <2>3. CASE r # job.repo \/ repo' = repo
    <3>1. repo'[r].file = repo[r].file
      BY <1>3, <2>1
    <3>2. repo'[r].rule = repo[r].rule
      BY <1>3, <2>1, <2>3
    <3> QED BY <1>1, <2>1, <3>1, <3>2 DEF Org!Required, Org!Covered
  <2> QED BY <2>2, <2>3
<1>8. ASSUME NEW ok \in BOOLEAN, Org!Finish(ok),
             \A r \in OrgRepos : ok /\ job.alone /\ r = job.repo => Org!Required(r)'
      PROVE  OrgKept'
  <2>1. /\ job' \in OrgJobs /\ job'.at = "idle" /\ job'.sha = Org!NoPin /\ job'.alone = TRUE
        /\ store' \in OrgHeld /\ store'.managed = adapter'.managed
        /\ told' \in OrgTold /\ told'.tried = told.tried
        /\ told'.guarded = IF ok /\ job.alone THEN told.guarded \cup {job.repo}
                            ELSE told.guarded
    BY <1>4, <1>8, OrgFinish DEF OrgKept, OrgTyped
  <2>2. OrgTyped'
    BY <1>1, <1>3, <1>4, <2>1 DEF OrgKept, OrgTyped
  <2>3. Org!StaysRequired'
    <3> SUFFICES ASSUME NEW r \in OrgRepos, r \in told'.guarded, r \notin told'.tried
                 PROVE  Org!Required(r)'
      BY <2>2 DEF Org!StaysRequired, OrgTyped, OrgTold
    <3>1. CASE r \in told.guarded
      BY <1>7, <2>1, <3>1 DEF Guarding
    <3>2. CASE r \notin told.guarded
      BY <1>8, <2>1, <3>2
    <3> QED BY <3>1, <3>2
  <2>4. ManagedKnown'
    BY <1>1, <1>4, <2>1 DEF OrgKept, ManagedKnown, OfBootstrap, Guarding
  <2> QED BY <1>1, <2>1, <2>2, <2>3, <2>4 DEF OrgKept, RulesMade, ShaKnown, AloneKnown
<1>9. CASE Org!Finish(FALSE)
  BY <1>8, <1>9
<1>10. CASE ~required /\ Org!Finish(TRUE) /\ repo' = [repo EXCEPT ![job.repo].rule = rule]
  <2>1. repo'[job.repo].rule = "check"
    <3>1. rule = "check" /\ rule \in {"none", "bare", "check"}
      BY <1>3, <1>10
    <3> QED BY <1>1, <1>10, <3>1, OrgSetRepo DEF OrgKept, OrgTyped
  <2>2. \A r \in OrgRepos : job.alone /\ r = job.repo => Org!Required(r)'
    BY <1>1, <1>3, <1>10, <2>1 DEF OrgKept, AloneKnown, Org!Required
  <2> QED BY <1>8, <1>10, <2>2
<1>11. CASE required /\ Org!To("clean") /\ UNCHANGED <<store, told>>
  <2>1. OrgSame("clean") /\ job' \in OrgJobs
    BY <1>11, OrgTo DEF OrgKept, OrgTyped, Org!Steps, OrgSame
  <2>2. OrgTyped'
    BY <1>1, <1>3, <1>4, <1>11, <2>1 DEF OrgKept, OrgTyped
  <2>3. Org!StaysRequired'
    BY <1>7, <1>11 DEF Org!StaysRequired, Guarding
  <2>4. job.alone => Org!Covered(job.repo)
    BY <1>1, <1>11 DEF OrgKept, AloneKnown
  <2>5. AloneKnown'
    BY <1>1, <1>11, <2>1, <2>4 DEF OrgKept, AloneKnown, OrgSame, Org!Covered
  <2>6. ShaKnown'
    BY <1>11, <2>1 DEF OrgKept, ShaKnown, OrgSame
  <2> QED BY <1>1, <1>4, <1>11, <2>1, <2>2, <2>3, <2>5, <2>6 DEF OrgKept, RulesMade,
             ManagedKnown, OfBootstrap, Guarding, OrgSame
<1> QED BY <1>9, <1>10, <1>11 DEF Org!RepoRuleset, rule

LEMMA OrgCleanUp == ASSUME OrgKept, Org!CleanUp PROVE OrgKept'
<1>1. /\ UNCHANGED <<org, repo, version, adapter>> /\ job.at = "clean"
      /\ Org!Finish(~repo[job.repo].file) /\ job.repo \in OrgRepos
  BY DEF Org!CleanUp, OrgKept, OrgTyped, OrgJobs
<1>2. /\ job' \in OrgJobs /\ job'.at = "idle" /\ job'.sha = Org!NoPin /\ job'.alone = TRUE
      /\ store' \in OrgHeld /\ store'.managed = adapter'.managed
      /\ told' \in OrgTold /\ told'.tried = told.tried
      /\ told'.guarded = IF ~repo[job.repo].file /\ job.alone THEN told.guarded \cup {job.repo}
                          ELSE told.guarded
  BY <1>1, OrgFinish DEF OrgKept, OrgTyped
<1>3. OrgTyped'
  BY <1>1, <1>2 DEF OrgKept, OrgTyped
<1>4. job.alone => Org!Covered(job.repo)
  BY <1>1 DEF OrgKept, AloneKnown
<1>5. Org!StaysRequired'
  BY <1>1, <1>2, <1>4 DEF OrgKept, Org!StaysRequired, Org!Required, Org!Covered
<1>6. ManagedKnown'
  BY <1>1, <1>2 DEF OrgKept, ManagedKnown, OfBootstrap, Guarding
<1> QED BY <1>1, <1>2, <1>3, <1>5, <1>6 DEF OrgKept, RulesMade, ShaKnown, AloneKnown

LEMMA OrgArchive == ASSUME OrgKept, Org!Archive PROVE OrgKept'
<1>1. UNCHANGED <<org, store, version>> /\ job.at = "archive" /\ job.repo \in OrgRepos
      /\ job.sha = Org!NoPin
  BY DEF Org!Archive, OrgKept, OrgTyped, OrgJobs, ShaKnown
<1>2. adapter' \in OrgHeld /\ adapter'.managed = adapter.managed \ {job.repo}
  BY DEF Org!Archive, OrgKept, OrgTyped, OrgHeld
<1>3. repo' = repo \/ repo' = [repo EXCEPT ![job.repo].archived = TRUE]
  BY DEF Org!Archive, Org!Call
<1>4. /\ repo' \in [OrgRepos -> OrgRepo]
      /\ \A r \in OrgRepos : repo'[r].rule = repo[r].rule /\ repo'[r].file = repo[r].file
  BY <1>1, <1>3, OrgSetRepo DEF OrgKept, OrgTyped
<1>5. /\ told' \in OrgTold /\ told'.tried = told.tried \cup {job.repo}
      /\ told'.guarded \subseteq told.guarded
  <2>1. told.guarded \subseteq OrgRepos /\ told.tried \subseteq OrgRepos
    BY DEF OrgKept, OrgTyped, OrgTold
  <2>2. PICK g \in {told.guarded, told.guarded \ {job.repo}} :
          told' = [told EXCEPT !.tried = @ \cup {job.repo}, !.guarded = g]
    BY DEF Org!Archive
  <2> QED BY <1>1, <2>1, <2>2 DEF OrgKept, OrgTyped, OrgTold
<1>6. (OrgSame("retire") /\ job' \in OrgJobs)
        \/ (job' \in OrgJobs /\ job'.at = "idle" /\ job'.sha = Org!NoPin /\ job'.alone = TRUE)
  <2>1. CASE Org!To("retire")
    BY <2>1, OrgTo DEF OrgKept, OrgTyped, Org!Steps, OrgSame
  <2>2. CASE job' = Org!Idle
    BY <2>2, OrgIdle
  <2> QED BY <2>1, <2>2 DEF Org!Archive, Org!Call
<1>7. OrgTyped'
  BY <1>1, <1>2, <1>4, <1>5, <1>6 DEF OrgKept, OrgTyped
<1>8. Org!StaysRequired'
  BY <1>1, <1>4, <1>5 DEF OrgKept, Org!StaysRequired, Org!Required, Org!Covered,
     OrgTyped, OrgTold
<1>9. ManagedKnown'
  BY <1>1, <1>2, <1>5, <1>6 DEF OrgKept, ManagedKnown, OfBootstrap, Guarding, OrgSame
<1>10. AloneKnown' /\ ShaKnown'
  BY <1>1, <1>5, <1>6 DEF OrgKept, AloneKnown, ShaKnown, OrgSame
<1> QED BY <1>1, <1>7, <1>8, <1>9, <1>10 DEF OrgKept, RulesMade

LEMMA OrgRetire == ASSUME OrgKept, Org!Retire PROVE OrgKept'
<1>1. /\ UNCHANGED <<org, repo, adapter, version, told>> /\ job.at = "retire"
      /\ Org!Persist(adapter) /\ job' = Org!Idle
  BY DEF Org!Retire
<1>2. job' \in OrgJobs /\ job'.at = "idle" /\ job'.sha = Org!NoPin /\ job'.alone = TRUE
  BY <1>1, OrgIdle
<1>3. store' \in OrgHeld /\ store'.managed = adapter.managed
  BY <1>1 DEF OrgKept, OrgTyped, OrgHeld, Org!Persist
<1>4. OrgTyped'
  BY <1>1, <1>2, <1>3 DEF OrgKept, OrgTyped
<1> QED BY <1>1, <1>2, <1>3, <1>4 DEF OrgKept, RulesMade, ShaKnown, AloneKnown,
           ManagedKnown, OfBootstrap, Guarding, Org!StaysRequired, Org!Required,
           Org!Covered

LEMMA OrgRestart == ASSUME OrgKept, Org!Restart PROVE OrgKept'
<1>1. /\ UNCHANGED <<org, repo, store, told>> /\ adapter' = store /\ version' \in 1..Releases
      /\ job' = IF job.at = "idle" THEN Org!Idle ELSE Org!Again
  BY DEF Org!Restart
<1>2. job' \in OrgJobs /\ job'.at \in {"idle", "manage", "archive"} /\ job'.sha = Org!NoPin
      /\ job'.alone = TRUE
  <2>1. job.kind \in {"none", "bootstrap", "archive"} /\ job.repo \in OrgRepos
    BY DEF OrgKept, OrgTyped, OrgJobs
  <2>2. /\ Org!Again \in OrgJobs /\ Org!Again.at \in {"manage", "archive"}
        /\ Org!Again.sha = Org!NoPin /\ Org!Again.alone = TRUE
    BY <2>1, OrgFresh DEF Org!Again
  <2> QED BY <1>1, <2>2, OrgIdle
<1>3. OrgTyped'
  BY <1>1, <1>2 DEF OrgKept, OrgTyped
<1> QED BY <1>1, <1>2, <1>3 DEF OrgKept, RulesMade, ShaKnown, AloneKnown, ManagedKnown,
      OfBootstrap, Guarding, Org!StaysRequired, Org!Required, Org!Covered

LEMMA OrgOutsider == ASSUME OrgKept, Org!Outsider PROVE OrgKept'
<1>1. UNCHANGED <<store, adapter, version>>
  BY DEF Org!Outsider
<1>2. ASSUME NEW c \in Org!Commits, org' = [org EXCEPT !.central.head = c],
             UNCHANGED <<repo, told, job>>
      PROVE  OrgKept'
  <2>1. org' \in Orgs /\ org'.rules = org.rules
    BY <1>2 DEF OrgKept, OrgTyped, Orgs
  <2>2. OrgTyped'
    BY <1>1, <1>2, <2>1 DEF OrgKept, OrgTyped
  <2> QED BY <1>1, <1>2, <2>1, <2>2 DEF OrgKept, RulesMade, ShaKnown, AloneKnown,
             ManagedKnown, OfBootstrap, Guarding, Org!StaysRequired, Org!Required,
             Org!Covered
<1>3. ASSUME NEW rules \in Org!Rulesets, rules.there \/ rules.ids = {},
             org'.rules = rules, org' \in Orgs,
             told' = [told EXCEPT !.guarded = {}], job' = [job EXCEPT !.alone = FALSE],
             UNCHANGED repo
      PROVE  OrgKept'
  <2>1. told' \in OrgTold /\ told'.guarded = {}
    BY <1>3 DEF OrgKept, OrgTyped, OrgTold
  <2>3. job' \in OrgJobs /\ job'.at = job.at
          /\ job'.repo = job.repo /\ job'.sha = job.sha /\ job'.alone = FALSE
    BY <1>3 DEF OrgKept, OrgTyped, OrgJobs
  <2>4. OrgTyped'
    BY <1>1, <1>3, <2>1, <2>3 DEF OrgKept, OrgTyped
  <2> QED BY <1>1, <1>3, <2>1, <2>3, <2>4 DEF OrgKept, RulesMade, ShaKnown, AloneKnown,
             ManagedKnown, OfBootstrap, Guarding, Org!StaysRequired
<1>4. ASSUME NEW r \in OrgRepos,
             \/ repo' = [repo EXCEPT ![r].rule = "none"] \/ repo' = [repo EXCEPT ![r].file = ~@],
             told' = [told EXCEPT !.guarded = @ \ {r}],
             job' = [job EXCEPT !.alone = job.alone /\ r # job.repo], UNCHANGED org
      PROVE  OrgKept'
  <2>1. told' \in OrgTold /\ told'.guarded = told.guarded \ {r} /\ told'.tried = told.tried
    BY <1>4 DEF OrgKept, OrgTyped, OrgTold
  <2> DEFINE still == job.alone /\ r # job.repo
  <2>2. job' = [job EXCEPT !.alone = still] /\ still \in BOOLEAN /\ (still <=> still = TRUE)
    BY <1>4
  <2>3. still => job.alone /\ r # job.repo
    OBVIOUS
  <2>4. ~still => r = job.repo \/ ~job.alone
    OBVIOUS
  <2> HIDE DEF still
  <2>5. /\ job' \in OrgJobs /\ job'.at = job.at /\ job'.repo = job.repo
        /\ job'.managed = job.managed /\ job'.seen = job.seen
        /\ job'.sha = job.sha /\ job'.alone = still
    BY <2>2 DEF OrgKept, OrgTyped, OrgJobs
  <2>6. repo' \in [OrgRepos -> OrgRepo] /\ \A s \in OrgRepos : s # r => repo'[s] = repo[s]
    BY <1>4 DEF OrgKept, OrgTyped, OrgRepo
  <2>7. OrgTyped'
    BY <1>1, <1>4, <2>1, <2>5, <2>6 DEF OrgKept, OrgTyped
  <2>8. Org!StaysRequired'
    BY <1>4, <2>1, <2>6 DEF OrgKept, Org!StaysRequired, Org!Required, Org!Covered,
       OrgTyped, OrgTold
  <2>9. ManagedKnown'
    BY <1>1, <2>1, <2>5 DEF OrgKept, ManagedKnown, OfBootstrap, Guarding
  <2>10. job.repo \in OrgRepos
    BY DEF OrgKept, OrgTyped, OrgJobs
  <2>11. AloneKnown'
    BY <1>4, <2>1, <2>2, <2>3, <2>4, <2>5, <2>6, <2>10 DEF OrgKept, AloneKnown,
       Org!Covered
  <2> QED BY <1>4, <2>5, <2>7, <2>8, <2>9, <2>11 DEF OrgKept, RulesMade, ShaKnown
<1>5. CASE \E c \in Org!Commits : org' = [org EXCEPT !.central.head = c] /\ UNCHANGED <<repo, told, job>>
  BY <1>2, <1>5
<1>6. CASE /\ \/ /\ org.rules.there
                 /\ \E ids \in SUBSET OrgRepos, c \in Org!Commits :
                      org' = [org EXCEPT !.rules.ids = ids, !.rules.sha = c]
              \/ org' = [org EXCEPT !.supports = ~@, !.rules = Org!NoRules]
           /\ told' = [told EXCEPT !.guarded = {}]
           /\ job' = [job EXCEPT !.alone = FALSE]
           /\ UNCHANGED repo
  <2>1. org' \in Orgs /\ org'.rules \in Org!Rulesets /\ (org'.rules.there \/ org'.rules.ids = {})
    <3>1. CASE org' = [org EXCEPT !.supports = ~@, !.rules = Org!NoRules]
      BY <3>1, OrgIdle DEF OrgKept, OrgTyped, Orgs
    <3>2. ASSUME org.rules.there, NEW ids \in SUBSET OrgRepos, NEW c \in Org!Commits,
                 org' = [org EXCEPT !.rules.ids = ids, !.rules.sha = c]
          PROVE  org' \in Orgs /\ org'.rules \in Org!Rulesets /\ org'.rules.there
      BY <3>2 DEF OrgKept, OrgTyped, Orgs, Org!Rulesets
    <3> QED BY <1>6, <3>1, <3>2
  <2> QED BY <1>3, <1>6, <2>1
<1>7. CASE \E r \in OrgRepos :
             /\ \/ repo' = [repo EXCEPT ![r].rule = "none"] \/ repo' = [repo EXCEPT ![r].file = ~@]
             /\ told' = [told EXCEPT !.guarded = @ \ {r}]
             /\ job' = [job EXCEPT !.alone = job.alone /\ r # job.repo]
             /\ UNCHANGED org
  BY <1>4, <1>7
<1> QED BY <1>5, <1>6, <1>7 DEF Org!Outsider

LEMMA OrgNext == ASSUME OrgInv, Org!Next PROVE OrgInv'
<1>1. OrgKept /\ count \in OrgCounts
  BY OrgTypes DEF OrgInv, OrgKept, OrgTyped
<1>2. OrgKept'
  BY <1>1, OrgStart, OrgManage, OrgPlan, OrgLook, OrgCommit, OrgProtect, OrgWriteRules,
     OrgVerify, OrgWorkflowFile, OrgRule, OrgCleanUp, OrgArchive, OrgRetire, OrgRestart,
     OrgOutsider DEF Org!Next, Org!RunJob, Org!Admit
<1>3. count' \in OrgCounts
  BY <1>1, OrgCounted
<1> QED BY <1>2, <1>3, OrgTypes DEF OrgInv, OrgKept, OrgTyped

-----------------------------------------------------------------------------
(* The parts together.                                                       *)
AllInv ==
  /\ part = "repo" => RepoInv
  /\ part = "org" => OrgInv
  /\ part = "roles" => RolesInv
  /\ part = "pull" => PullInv
  /\ part = "reports" => ReportInv

LEMMA AllInit == Init => AllInv
BY RepoInit, OrgInit, RolesInit, PullInit, ReportInit DEF Init, AllInv

(* Nothing happens.                                                          *)
LEMMA PullIdle ==
    ASSUME PullInv, UNCHANGED <<now, pull, issued, job, outcome, count, told>>
    PROVE  PullInv'
  BY DEF PostedStay, Pull!ClosedWithReason, Pull!Never, Pull!None, Pull!OneComment,
     Pull!ReopenStands, Pull!TypeOK, PullInv, PullSeen

LEMMA OrgIsIdle ==
    ASSUME OrgInv, UNCHANGED <<org, repo, store, adapter, version, job, count, told>>
    PROVE  OrgInv'
  BY DEF AloneKnown, Guarding, ManagedKnown, OfBootstrap, Org!Commits, Org!Covered,
     Org!NoPin, Org!Other, Org!Required, Org!Rulesets, Org!StaysRequired, Org!Steps,
     Org!TypeOK, OrgInv, RulesMade, ShaKnown

LEMMA RolesAreIdle ==
    ASSUME RolesInv, UNCHANGED <<role, invite, rec, job, last, count, told>>
    PROVE  RolesInv'
<1>1. RolesTyped'
  BY DEF Roles!Roles, Roles!Unlisted, RolesHeld, RolesInv, RolesJobs, RolesKept,
     RolesLast, RolesTold, RolesTyped
<1>2. (count \in RolesCounts)'
  BY DEF RolesCounts, RolesInv, RolesKept
<1>3. (OneStanding /\ InWork /\ Reading /\ StandsAsRead)'
  BY DEF After, InWork, Named, OneStanding, Reading, Roles!Listed, Roles!Unlisted,
     RolesInv, RolesKept, StandsAsRead
<1>4. (DoneAsAsked /\ MissedStay /\ RemovedKnown /\ RemovedStayOut)'
  BY DEF After, DoneAsAsked, MissedStay, Named, OutForGood, RemovedKnown,
     RemovedStayOut, Roles!Have, Roles!Listed, Roles!Unlisted, Roles!Wanted, RolesInv,
     RolesKept
<1>5. Roles!SuccessGivesRoles'
  BY DEF Roles!Have, Roles!Listed, Roles!SuccessGivesRoles, Roles!Unlisted,
     Roles!Wanted, RolesInv, RolesKept
<1> QED BY <1>1, <1>2, <1>3, <1>4, <1>5 DEF RolesInv, RolesKept

LEMMA RepoIsIdle ==
    ASSUME RepoInv, UNCHANGED <<repo, rec, job, last, plan, count, told>>
    PROVE  RepoInv'
<1>1. RepoTyped'
  BY DEF Repo!Kinds, Repo!Perms, Repo!Roles, Repo!Rules, Repo!Stages, Repo!Unlisted,
     RepoHeld, RepoInv, RepoJobs, RepoKept, RepoLast, RepoPlan, RepoRecs, RepoTold,
     RepoTyped
<1>2. (count \in RepoCounts)'
  BY DEF RepoCounts, RepoInv, RepoKept
<1>3. RepoGuards'
  BY DEF GuardKnown, Guarded, InRoles, OfFiles, Repo!Closed, Repo!DoneMeansGuarded,
     RepoGuards, RepoInv, RepoKept, StageKnown
<1>4. RepoOpens'
  BY DEF OpenKnown, Repo!LeftAjarIsKnown, RepoInv, RepoKept, RepoOpens
<1>5. OwnKnown'
  BY DEF OwnKnown, RepoInv, RepoKept
<1>6. RepoGives'
  BY DEF AskedKnown, Came, Exact, ExactKnown, GivenKnown, Repo!Have, Repo!HaveListed,
     Repo!Listed, Repo!NeedListed, Repo!OnList, Repo!PermOf, Repo!SuccessIsExact,
     Repo!Unlisted, Repo!Wanted, RepoGives, RepoInv, RepoKept, SeenKnown
<1> QED BY <1>1, <1>2, <1>3, <1>4, <1>5, <1>6 DEF RepoInv, RepoKept

LEMMA AllIdle == ASSUME AllInv, UNCHANGED all PROVE AllInv'
<1>0. /\ part' = part
      /\ UNCHANGED <<repo, rec, job, last, plan, count, told, org, store, adapter, version,
                     role, invite, now, pull, issued, outcome, bridge, entry, task, post, view>>
  BY DEF all, organisation, inviting, closing, reporting
<1>1. part = "repo" => RepoInv'
  BY <1>0, RepoIsIdle DEF AllInv
<1>2. part = "org" => OrgInv'
  BY <1>0, OrgIsIdle DEF AllInv
<1>3. part = "roles" => RolesInv'
  BY <1>0, RolesAreIdle DEF AllInv
<1>4. part = "pull" => PullInv'
  BY <1>0, PullIdle DEF AllInv
<1>5. part = "reports" => ReportInv'
  BY <1>0, ReportNext DEF AllInv, Reports!vars
<1> QED BY <1>0, <1>1, <1>2, <1>3, <1>4, <1>5 DEF AllInv

LEMMA AllNext == ASSUME AllInv, Next PROVE AllInv'
<1>1. CASE OfRepo /\ Repo!Next
  BY <1>1, RepoNext DEF AllInv, OfRepo
<1>2. CASE OfOrg /\ Org!Next
  BY <1>2, OrgNext DEF AllInv, OfOrg
<1>3. CASE OfRoles /\ Roles!Next
  BY <1>3, RolesNext DEF AllInv, OfRoles
<1>4. CASE OfPull /\ Pull!Next
  BY <1>4, PullNext DEF AllInv, OfPull
<1>5. CASE OfReports /\ Reports!Next
  BY <1>5, ReportNext DEF AllInv, OfReports
<1> QED BY <1>1, <1>2, <1>3, <1>4, <1>5 DEF Next

(* Of whichever part a behaviour is, that part's invariant holds throughout. *)
THEOREM AllAlways == Spec => []AllInv
<1>1. AllInv /\ [Next]_all => AllInv'
  BY AllNext, AllIdle
<1> QED BY AllInit, <1>1, PTL DEF Spec

(* Whatever part a behaviour is of, its state keeps its types: the steps of  *)
(* each job, the records it saves and what the forge may hold.               *)
THEOREM ForgeTyped == Spec => []TypeOK
<1>1. AllInv => TypeOK
  BY RepoSafe, RolesSafe, ReportSafe DEF AllInv, OrgInv, PullInv, TypeOK
<1> QED BY <1>1, AllAlways, PTL

(* What a job answers of a guard is so (protect and refresh_on_branch on     *)
(* Forgejo, require_namespace_workflow on GitHub): on every way out, over    *)
(* other hands, failing calls and crashes, a branch reported done is         *)
(* protected, one left open is known to be, a repository the bridge made is  *)
(* known again, and one that was bootstrapped stays behind its check while   *)
(* workflows are upgraded; for any people, repositories, releases and plan.  *)
THEOREM GuardsSaidHold == Spec => []GuardsHold
<1>1. AllInv => GuardsHold
  BY RepoSafe DEF AllInv, OrgInv, GuardsHold
<1> QED BY <1>1, AllAlways, PTL

(* apply_roles, of both adapters: when it says all is given, everyone has    *)
(* what was asked and whoever was taken out is out; and whoever was given a  *)
(* role is on record (jobs.rs), though other calls of the job failed.        *)
THEOREM RolesGivenExact == Spec => []RolesAreExact
<1>1. AllInv => RolesAreExact
  BY RepoSafe, RolesSafe DEF AllInv, RolesAreExact
<1> QED BY <1>1, AllAlways, PTL

(* close_pull_request: sent again, or twice at once, with its answers lost,  *)
(* it posts its comment once, leaves alone whatever a person opened again,   *)
(* and closes nothing it has not said why of.                                *)
THEOREM ClosedWithCare == Spec => []ClosingIsCareful
<1>1. AllInv => ClosingIsCareful
  BY DEF AllInv, PullInv, ClosingIsCareful
<1> QED BY <1>1, AllAlways, PTL

(* report_role_map and report_role_maps: whatever is lost, held up or        *)
(* replaced, and whenever the bridge restarts, what the VTC has heard of the *)
(* roles is what an apply_roles sent now would give, an acknowledged report  *)
(* left nothing out, and a repository with another map's roles is listed.    *)
THEOREM ReportsAreSo == Spec => []RolesAreReported
<1>1. AllInv => RolesAreReported
  BY ReportSafe DEF AllInv, RolesAreReported
<1> QED BY <1>1, AllAlways, PTL

(* apply_roles changes the role of nobody it was not asked about, whatever   *)
(* is listed on the forge beside them and whichever of its calls fail.       *)
THEOREM OthersUntouched == Spec => OthersAreKept
<1> DEFINE Kept == /\ part = "repo" => Repo!KeepsOthers
                   /\ part = "roles" => Roles!KeepsOthers
<1>1. ASSUME AllInv, Next PROVE Kept
  <2>1. CASE OfRepo /\ Repo!Next
    BY <1>1, <2>1, RepoOthers DEF AllInv, OfRepo
  <2>2. CASE OfRoles /\ Roles!Next
    BY <1>1, <2>2, RolesOthers DEF AllInv, OfRoles
  <2> QED BY <1>1, <2>1, <2>2 DEF Next, OfOrg, OfPull, OfReports
<1>2. AllInv /\ [Next]_all => [Kept]_all
  BY <1>1
<1> QED BY <1>2, AllAlways, PTL DEF Spec, OthersAreKept
=============================================================================
