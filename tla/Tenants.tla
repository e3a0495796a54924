------------------------------- MODULE Tenants -------------------------------
(***************************************************************************)
(* The tree of tenants, and the four places that walk it from a tenant up  *)
(* to the platform: TenantAccessService (common/tenant.service.ts),        *)
(* FeatureGuard (common/feature.guard.ts), TenantsService.feature          *)
(* (modules/tenants/tenants.service.ts) and the resolution of a brand      *)
(* (modules/branding/branding.service.ts). One feature key and one field   *)
(* of the brand stand for all.                                             *)
(***************************************************************************)
EXTENDS Naturals, Sequences, SequencesExt

CONSTANTS
  Tenants,                  \* tenants that may exist
  Platform,                 \* the one the seed makes
  Unset                    \* no parent, no value

ASSUME TenantsAssumption == Platform \in Tenants /\ Unset \notin Tenants

VARIABLES
  parent,                   \* parentTenantId of the tenants that exist
  type,                     \* their type
  flag,                     \* TenantFeature for the key: "on", "off" or no row
  enabling,                 \* calls of feature between their checks and the upsert
  brand                     \* TenantBranding: the field, and inheritFromParent

tenantVars == <<parent, type, flag, enabling, brand>>

TenantTypes == {"PLATFORM", "RESELLER", "CUSTOMER"}
Flags == {"on", "off", "none"}
Layer == [value : Tenants \cup {Unset}, inherits : BOOLEAN]
NewLayer == [value |-> Unset, inherits |-> TRUE]

TenantsInit ==
  /\ parent = [t \in {Platform} |-> Unset]
  /\ type = [t \in {Platform} |-> "PLATFORM"]
  /\ flag = [t \in Tenants |-> "none"]
  /\ enabling = {}
  /\ brand = [t \in Tenants |-> NewLayer]

Existing == DOMAIN parent

----------------------------------------------------------------------------
(* The walks *)

\* From the platform down to t, as the loops collect it with unshift.
Ancestry(t) ==
  LET up[x \in Existing] == IF parent[x] = Unset THEN <<x>> ELSE Append(up[parent[x]], x)
  IN  up[t]

Above(t) == LET c == Ancestry(t) IN {c[i] : i \in 1..Len(c) - 1}

\* assertTenant of a user of u with the role OWNER or ADMIN: the target, or any
\* tenant on the way up from it, has the user's tenant as its parent.
Reaches(u, t) ==
  \/ u = t
  \/ \E x \in Above(t) \cup {t} : parent[x] # Unset /\ parent[x] = u

\* FeatureGuard, without the subscription.
GuardAllows(t) ==
  LET c == Ancestry(t) IN ~\E i \in DOMAIN c : flag[c[i]] = "off"

\* A variant in which the last row wins.
LastFlag(found, row) == IF row = "none" THEN found ELSE row

\* resolveTenantBranding: once off, a later row is skipped.
NextFlag(found, row) ==
  IF row = "none" \/ found = "off" THEN found ELSE row

ShownFeature(t) ==
  LET c == Ancestry(t) IN FoldLeft(LAMBDA found, x : NextFlag(found, flag[x]), "none", c)

\* A layer that does not inherit starts afresh; a value that is set replaces.
OverLayer(found, layer) ==
  LET base == IF layer.inherits THEN found ELSE Unset
  IN  IF layer.value = Unset THEN base ELSE layer.value

ShownBrand(t) ==
  LET c == Ancestry(t) IN FoldLeft(LAMBDA found, x : OverLayer(found, brand[x]), Unset, c)

----------------------------------------------------------------------------
(* The requests of a user of tenant u *)

Hierarchy(parentType, childType) ==
  /\ childType # "PLATFORM"
  /\ parentType # "CUSTOMER"
  /\ parentType = "RESELLER" => childType = "CUSTOMER"

CreateTenant(u, p, t, kind) ==
  /\ {u, p} \subseteq Existing /\ t \notin Existing
  /\ Reaches(u, p)
  /\ Hierarchy(type[p], kind)
  /\ parent' = [x \in Existing \cup {t} |-> IF x = t THEN p ELSE parent[x]]
  /\ type' = [x \in Existing \cup {t} |-> IF x = t THEN kind ELSE type[x]]
  /\ UNCHANGED <<flag, enabling, brand>>

\* Only the platform governs its own flags.
MayGovern(u, t) ==
  /\ {u, t} \subseteq Existing
  /\ Reaches(u, t)
  /\ u = t => type[t] = "PLATFORM"

DisableFeature(u, t) ==
  /\ MayGovern(u, t)
  /\ flag' = [flag EXCEPT ![t] = "off"]
  /\ UNCHANGED <<parent, type, enabling, brand>>

\* The checks of an enable; an ancestor may disable before the upsert.
CheckEnable(u, t) ==
  /\ MayGovern(u, t)
  /\ \A a \in Above(t) : flag[a] # "off"
  /\ enabling' = enabling \cup {t}
  /\ UNCHANGED <<parent, type, flag, brand>>

EnableFeature(t) ==
  /\ t \in enabling
  /\ flag' = [flag EXCEPT ![t] = "on"]
  /\ enabling' = enabling \ {t}
  /\ UNCHANGED <<parent, type, brand>>

UpdateBrand(t) ==
  /\ t \in Existing
  /\ \E layer \in [value : {t, Unset}, inherits : BOOLEAN] :
       brand' = [brand EXCEPT ![t] = layer]
  /\ UNCHANGED <<parent, type, flag, enabling>>

GrowTree ==
  \E u, p, t \in Tenants, kind \in TenantTypes : CreateTenant(u, p, t, kind)

GovernFeature ==
  \/ \E u, t \in Tenants : DisableFeature(u, t) \/ CheckEnable(u, t)
  \/ \E t \in Tenants : EnableFeature(t)

Restyle == \E t \in Tenants : UpdateBrand(t)

TenantsNext == GrowTree \/ GovernFeature \/ Restyle

TenantsSpec == TenantsInit /\ [][TenantsNext]_tenantVars

----------------------------------------------------------------------------
(* Properties *)

TenantsTypeOK ==
  /\ Platform \in Existing /\ Existing \subseteq Tenants
  /\ DOMAIN type = Existing
  /\ \A t \in Existing :
       /\ parent[t] \in Existing \cup {Unset}
       /\ type[t] \in TenantTypes
       /\ type[t] = "PLATFORM" <=> t = Platform
  /\ flag \in [Tenants -> Flags]
  /\ enabling \subseteq Existing
  /\ brand \in [Tenants -> Layer]

\* What the application shows as switched off is exactly what the guard refuses.
ShownIsGuarded ==
  \A t \in Existing : ShownFeature(t) = "off" <=> ~GuardAllows(t)

\* A tenant shows the value of the nearest layer that sets the field, and none
\* from above a layer that does not inherit.
BrandOfNearest ==
  \A t \in Existing :
    LET c == Ancestry(t)
        setAt == {i \in DOMAIN c : brand[c[i]].value # Unset}
        cut == {i \in DOMAIN c : ~brand[c[i]].inherits}
        seen == {i \in setAt : \A j \in cut : i >= j}
    IN  ShownBrand(t) = IF seen = {} THEN Unset
                        ELSE brand[c[CHOOSE i \in seen : \A j \in seen : j <= i]].value

\* What a tenant inherits is the same wherever it is worked out: "a disabled
\* feature at any ancestor cannot be re-enabled by a descendant"
\* (branding.service.ts:89), also when an enable passed its checks before an
\* ancestor disabled the feature, and the layers of a brand come from as far up
\* as they are inherited (branding.service.ts:73).
InheritanceAgrees == ShownIsGuarded /\ BrandOfNearest
=============================================================================
