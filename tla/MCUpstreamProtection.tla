------------------------ MODULE MCUpstreamProtection ------------------------
(* Instances of UpstreamProtection for TLC. *)
EXTENDS UpstreamProtection, TLC

CONSTANTS r1, r2, r3, a1, a2, m1, ws, p1, route1, route2, route3, none

TwoRequests == {r1, r2}
ThreeRequests == {r1, r2, r3}
SharedProfile == [a \in Accounts |-> p1]
NoProfiles == [a \in Accounts |-> NoProfile]
NoOverride == [a \in Accounts |-> 0]

(* One account has a profile, the other has none. *)
OneProfile == [a \in Accounts |-> IF a = a1 THEN NoProfile ELSE p1]

(* Strict limits: two requests per account and model, no profile limit.     *)
(* Softly the account's limit binds first.                                 *)
Strict ==
  [enabled |-> TRUE, hard |-> TRUE, maxAccount |-> 3, softAccount |-> 1,
   maxModel |-> 2, softModel |-> 2, perModel |-> [m \in Models |-> 0],
   perProfileModel |-> [k \in Profiles \X Models |-> 0],
   cooldown |-> 1, maxCooldown |-> 2, affinityMax |-> 1, queueCapacity |-> 1]
Disabled == [Strict EXCEPT !.enabled = FALSE]
ProfileLimited == [Strict EXCEPT !.perProfileModel = [k \in Profiles \X Models |-> 1]]
SoftProfile == [ProfileLimited EXCEPT !.hard = FALSE]

ShortStrict == [Strict EXCEPT !.maxCooldown = 1]
ShortSoftProfile == [SoftProfile EXCEPT !.maxCooldown = 1]
ShortDisabled == [Disabled EXCEPT !.maxCooldown = 1]
TwoBindings == [ProfileLimited EXCEPT !.affinityMax = 2, !.maxCooldown = 1]

OnlyStrict == [c \in Configs |-> Strict]
OnlyTwoBindings == [c \in Configs |-> TwoBindings]
StrictOrProfile == [strict |-> Strict, profile |-> ProfileLimited]
AnyOther == [c \in Configs |-> Configs \ {c}]

(* Two of three modes alternate: <<x, y>> is x where y is what replaces it.  *)
Modes == [strict |-> ShortStrict, soft |-> ShortSoftProfile, off |-> ShortDisabled]
Alternating == {c \in (DOMAIN Modes) \X (DOMAIN Modes) : c[1] # c[2]}
EveryMode == [c \in Alternating |-> Modes[c[1]]]
TheOther == [c \in Alternating |-> {<<c[2], c[1]>>}]

AffinitySymmetry == Permutations(Requests) \cup Permutations(Routes)
RequestSymmetry == Permutations(Requests)
=============================================================================
