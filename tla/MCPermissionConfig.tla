------------------------- MODULE MCPermissionConfig -------------------------
(* The model-checking instance of PermissionConfig: a known and an unknown *)
(* endpoint, the second that of the administrators, behind an optional and *)
(* the required middleware; an open and a restricted configuration.        *)
EXTENDS PermissionConfig, TLC

CONSTANTS a1, a2, known, other

TwoAdmins    == {a1, a2}
TwoEndpoints == {known, other}
OneOptional  == {known}
Perms        == Permutations(TwoAdmins)
Of(kind, tier) == [kind |-> kind, tier |-> tier]
Open         == [enabled |-> TRUE, read |-> Of("Allow", 0), write |-> Of("PermissionAndTier", 1)]
Strict       == [enabled |-> TRUE, read |-> Of("Permission", 0), write |-> Of("Tier", 2)]
TwoConfigs   == {Open, Strict}
KnownOpen    == (known :> Open) @@ (other :> None)
AskPermission == [action \in {"read", "write"} |-> Of("Permission", 0)]
Stop         == {"emergency_shutdown"}
Maintenance  == {{"global_write_enabled", "maintenance_mode"}}
SomeUsers    == [tier : {0, 1, 3}, permitted : BOOLEAN]
=============================================================================
