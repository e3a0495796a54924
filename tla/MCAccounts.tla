----------------------------- MODULE MCAccounts -----------------------------
(***************************************************************************)
(* How an account is made, entered and paid for, for TLC: sign-ups, resets *)
(* of the password, throttled logins, the session of a tab and of the      *)
(* phone, the pages of who is not logged in, the limits on their requests, *)
(* the subscription and what a tenant inherits. The topics share no state  *)
(* here; a behaviour exercises the one its initial state names, and the    *)
(* others keep still.                                                      *)
(***************************************************************************)
EXTENDS Sessions, LoginThrottling, Signup, WebSession, PublicForms, RateLimits,
  MobileSession, Billing, Tenants

CONSTANTS A, B              \* the sets of interchangeable values

VARIABLE topic

apiVars == <<vars, throttleVars, signupVars, limitVars>>
planVars == <<billingVars, tenantVars>>
clientVars == <<webVars, formVars, mobileVars>>
accountVars == <<topic, apiVars, planVars, clientVars>>

Init ==
  /\ topic \in {"resets", "logins", "signups", "limits", "web", "forms", "mobile",
                "billing", "features", "brands"}
  /\ SessionsInit /\ ThrottlingInit /\ SignupInit /\ LimitsInit
  /\ BillingInit /\ TenantsInit
  /\ WebInit /\ FormsInit /\ MobileInit
  \* One of the initial states of the topics that keep still.
  /\ redisUp
  /\ topic # "web" => logins = 0 /\ tab = FreshTab("login")
  /\ topic # "forms" => enabled

InTheApi ==
  \/ /\ topic = "resets" /\ SessionsNext
     /\ UNCHANGED <<throttleVars, signupVars, limitVars>>
  \/ /\ topic = "logins" /\ ThrottlingNext
     /\ UNCHANGED <<vars, signupVars, limitVars>>
  \/ /\ topic = "signups" /\ SignupNext
     /\ UNCHANGED <<vars, throttleVars, limitVars>>
  \/ /\ topic = "limits" /\ LimitsNext
     /\ UNCHANGED <<vars, throttleVars, signupVars>>

OfThePlan ==
  \/ topic = "billing" /\ BillingNext /\ UNCHANGED tenantVars
  \/ topic = "features" /\ (GrowTree \/ GovernFeature) /\ UNCHANGED billingVars
  \/ topic = "brands" /\ (GrowTree \/ Restyle) /\ UNCHANGED billingVars

InTheClient ==
  \/ topic = "web" /\ WebNext /\ UNCHANGED <<formVars, mobileVars>>
  \/ topic = "forms" /\ FormsNext /\ UNCHANGED <<webVars, mobileVars>>
  \/ topic = "mobile" /\ MobileNext /\ UNCHANGED <<webVars, formVars>>

Next ==
  /\ UNCHANGED topic
  /\ \/ InTheApi /\ UNCHANGED <<planVars, clientVars>>
     \/ OfThePlan /\ UNCHANGED <<apiVars, clientVars>>
     \/ InTheClient /\ UNCHANGED <<apiVars, planVars>>

Spec == Init /\ [][Next]_accountVars

\* Requests, registrations, logins, tabs and callers take each other's place; so
\* do invites and addresses, and plans.
ValueSymmetry == Permutations(A) \cup Permutations(B)
=============================================================================
