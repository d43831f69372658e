------------------------------ MODULE RoleMaps ------------------------------
(* The rights a person holds on a repository, and the role they become on   *)
(* its forge: the role map's for the highest of them, rounded down onto the *)
(* roles the forge has.                                                     *)
EXTENDS Integers

(* None, read, triage, write, maintain and admin.                           *)
ForgeRoles == 0..5
Write == 3
Admin == 5

Tiers == {"own", "maintain", "commit"}
Rights == {"admin", "create"} \cup Tiers

(* A right, and what it implies.                                            *)
Closure(right) ==
  CASE right = "admin" -> Rights
    [] right = "own" -> Tiers
    [] right = "maintain" -> {"maintain", "commit"}
    [] OTHER -> {right}

Held(granted) == UNION {Closure(r) : r \in granted}

(* What a namespace right implies becomes no role.                          *)
Projectable(granted) == Held(granted \cap Tiers)

(* The highest of some rights on the repository, in a set: there may be none. *)
Tier(rights) ==
  IF "own" \in rights THEN {"own"}
  ELSE IF "maintain" \in rights THEN {"maintain"} ELSE rights \cap {"commit"}

ForgeTier(granted) == Tier(Projectable(granted))

(* The fewest grants that come to the same.                                 *)
Canonical(granted) ==
  (IF "admin" \in Held(granted) THEN {"admin"} ELSE Held(granted) \cap {"create"})
    \cup ForgeTier(granted)

(* The role maps there may be: an owner alone may get admin, and a committer *)
(* at most write.                                                           *)
Ordered(m) ==
  /\ m["maintain"] < Admin /\ m["commit"] <= Write
  /\ m["commit"] <= m["maintain"] /\ m["maintain"] <= m["own"]
Maps == {m \in [Tiers -> ForgeRoles] : Ordered(m)}

Default == [t \in Tiers |-> IF t = "own" THEN Admin ELSE IF t = "maintain" THEN 4 ELSE 0]

Requested(m, granted) ==
  IF ForgeTier(granted) = {} THEN 0 ELSE m[CHOOSE t \in ForgeTier(granted) : TRUE]

(* The highest role of the forge's that is no more than this one.           *)
Collapse(role, ladder) ==
  CHOOSE l \in ladder \cup {0} : l <= role /\ \A k \in ladder : k <= role => k <= l

MapRole(ladder, m, granted) == Collapse(Requested(m, granted), ladder)

(* The map as the forge applies it.                                         *)
Effective(ladder, m) == [t \in Tiers |-> MapRole(ladder, m, {t})]

-----------------------------------------------------------------------------
(* What the bridge is started with.                                         *)
CONSTANTS
  Repos,
  Configs,     \* configurations: the map, and repositories' own
  Ladders,     \* the sets of roles forges have
  Plans        \* how often each move happens

OwnMaps == UNION {[S -> Maps] : S \in SUBSET Repos}
Moves == {"project", "restart", "end", "fails", "held", "lost", "again", "early"}

ASSUME MapsAssumption ==
  /\ Configs \subseteq [base : Maps, of : OwnMaps]
  /\ Ladders \subseteq SUBSET ForgeRoles
ASSUME PlansAssumption == Plans \subseteq [Moves -> Nat]
=============================================================================
