------------------------------- MODULE Signup -------------------------------
(***************************************************************************)
(* Sign-up by invitation: SignupService of                                 *)
(* apps/api/src/modules/signup/signup.service.ts over the tables           *)
(* SignupInvite, Tenant and User. A registration checks its invite, hashes *)
(* the password and then runs one READ COMMITTED transaction, a statement  *)
(* per action. What the transaction writes is seen by the others when it   *)
(* commits; until then a statement that needs the same row waits.          *)
(***************************************************************************)
EXTENDS Naturals, FiniteSets

CONSTANTS
  Registrations,            \* calls of register
  Invites,                  \* the single-use links
  Emails,                   \* addresses, in lower case
  Documents,                \* valid CPF and CNPJ numbers
  Slugs,                    \* names of workspaces that are not reserved
  Anyone                    \* an invite without an e-mail

ASSUME SignupAssumption == Anyone \notin Emails

VARIABLES
  invite,                   \* the rows of SignupInvite
  workspaces,               \* the RESELLER tenants with their owners
  members,                  \* e-mails of users that tenants.createUser made
  reg                       \* the registrations: the form and the next statement

signupVars == <<invite, workspaces, members, reg>>

SignupPCs == {"idle", "checked", "locked", "looked", "claimed", "inserted", "done", "refused"}

Form == [invite : Invites, email : Emails, document : Documents, slug : Slugs]
NoForm == [invite |-> Anyone, email |-> Anyone, document |-> Anyone, slug |-> Anyone]

Workspace == [by : Registrations, form : Form]

InviteRow == [email : Emails \cup {Anyone}, issued : BOOLEAN, used : BOOLEAN,
              revoked : BOOLEAN, expired : BOOLEAN]

SignupInit ==
  /\ invite = [i \in Invites |-> [email |-> Anyone, issued |-> FALSE, used |-> FALSE,
                                  revoked |-> FALSE, expired |-> FALSE]]
  /\ workspaces = {}
  /\ members = {}
  /\ reg = [r \in Registrations |-> [pc |-> "idle", form |-> NoForm]]

----------------------------------------------------------------------------
(* Rows *)

Pending(i) ==
  invite[i].issued /\ ~invite[i].used /\ ~invite[i].revoked /\ ~invite[i].expired

\* A variant of Pending that forgets one of the ways an invite ends.
PendingIfRevoked(i) == invite[i].issued /\ ~invite[i].used /\ ~invite[i].expired

\* What the claim tests again on the row it updates.
Claimable(i) == Pending(i)

Users == members \cup {w.form.email : w \in workspaces}

InSignup == {"checked", "locked", "looked", "claimed", "inserted"}
RegAt(r, pcs) == reg[r].pc \in pcs
RegGoto(r, pc) == reg' = [reg EXCEPT ![r].pc = pc]
RegEnds(r, pc) == reg' = [reg EXCEPT ![r] = [pc |-> pc, form |-> NoForm]]

\* The other registrations that hold a row or a lock until they end.
OpenWith(r, pcs, field) ==
  {q \in Registrations \ {r} : RegAt(q, pcs) /\ reg[q].form[field] = reg[r].form[field]}

LockFree(r) == TRUE

\* pg_advisory_xact_lock on the e-mail.
EmailFree(r) == OpenWith(r, {"locked", "looked", "claimed", "inserted"}, "email") = {}

ClaimFree(r) == OpenWith(r, {"claimed", "inserted"}, "invite") = {}

InsertFree(r) ==
  OpenWith(r, {"inserted"}, "document") \cup OpenWith(r, {"inserted"}, "slug") = {}

Taken(f) ==
  \E w \in workspaces : w.form.document = f.document \/ w.form.slug = f.slug

----------------------------------------------------------------------------
(* The platform's side *)

CreateInvite(i) ==
  /\ ~invite[i].issued
  /\ \E e \in Emails \cup {Anyone} :
       invite' = [invite EXCEPT ![i].issued = TRUE, ![i].email = e]
  /\ UNCHANGED <<workspaces, members, reg>>

\* One conditional update, which waits for a transaction that claimed the row.
RevokeInvite(i) ==
  /\ invite[i].issued /\ ~invite[i].used /\ ~invite[i].revoked
  /\ \A r \in Registrations : RegAt(r, {"claimed", "inserted"}) => reg[r].form.invite # i
  /\ invite' = [invite EXCEPT ![i].revoked = TRUE]
  /\ UNCHANGED <<workspaces, members, reg>>

\* Of an invite that was used or revoked, nobody asks the date.
ExpireInvite(i) ==
  /\ Pending(i)
  /\ invite' = [invite EXCEPT ![i].expired = TRUE]
  /\ UNCHANGED <<workspaces, members, reg>>

\* An administrator adds a user to some workspace; no lock on the e-mail.
CreateUser(e) ==
  /\ e \notin members
  /\ members' = members \cup {e}
  /\ UNCHANGED <<invite, workspaces, reg>>

----------------------------------------------------------------------------
(* register *)

\* pendingInvite and the e-mail the invite was issued for, outside the transaction.
CheckInvite(r) ==
  /\ RegAt(r, {"idle"})
  /\ \E f \in Form :
       LET ok == Pending(f.invite) /\ invite[f.invite].email \in {Anyone, f.email}
       IN  IF ok
           THEN reg' = [reg EXCEPT ![r] = [pc |-> "checked", form |-> f]]
           ELSE RegEnds(r, "refused")
  /\ UNCHANGED <<invite, workspaces, members>>

LockEmail(r) ==
  /\ RegAt(r, {"checked"})
  /\ EmailFree(r)
  /\ RegGoto(r, "locked")
  /\ UNCHANGED <<invite, workspaces, members>>

\* The three lookups: by e-mail, by document and by slug.
LookUp(r) ==
  /\ RegAt(r, {"locked"})
  /\ IF reg[r].form.email \in Users \/ Taken(reg[r].form)
     THEN RegEnds(r, "refused")
     ELSE RegGoto(r, "looked")
  /\ UNCHANGED <<invite, workspaces, members>>

\* The first request to flip usedAt wins; the others wait for it and see no row.
ClaimInvite(r) ==
  /\ RegAt(r, {"looked"})
  /\ ClaimFree(r)
  /\ IF Claimable(reg[r].form.invite) THEN RegGoto(r, "claimed") ELSE RegEnds(r, "refused")
  /\ UNCHANGED <<invite, workspaces, members>>

\* The tenant, whose document and slug are unique, then its owner and pipeline.
InsertTenant(r) ==
  /\ RegAt(r, {"claimed"})
  /\ InsertFree(r)
  /\ IF Taken(reg[r].form) THEN RegEnds(r, "refused") ELSE RegGoto(r, "inserted")
  /\ UNCHANGED <<invite, workspaces, members>>

CommitSignup(r) ==
  /\ RegAt(r, {"inserted"})
  /\ invite' = [invite EXCEPT ![reg[r].form.invite].used = TRUE]
  /\ workspaces' = workspaces \cup {[by |-> r, form |-> reg[r].form]}
  /\ RegEnds(r, "done")
  /\ UNCHANGED members

\* The transaction runs out of time, or the process or its connection dies:
\* everything it wrote is rolled back, the claim too.
AbortSignup(r) ==
  /\ RegAt(r, InSignup)
  /\ RegEnds(r, "refused")
  /\ UNCHANGED <<invite, workspaces, members>>

SignupStep(r) ==
  \/ LockEmail(r) \/ LookUp(r) \/ ClaimInvite(r) \/ InsertTenant(r) \/ CommitSignup(r)

SignupNext ==
  \/ \E i \in Invites : CreateInvite(i) \/ RevokeInvite(i) \/ ExpireInvite(i)
  \/ \E e \in Emails : CreateUser(e)
  \/ \E r \in Registrations : CheckInvite(r) \/ SignupStep(r) \/ AbortSignup(r)

SignupSpec == SignupInit /\ [][SignupNext]_signupVars

----------------------------------------------------------------------------
(* Properties *)

SignupTypeOK ==
  /\ invite \in [Invites -> InviteRow]
  /\ workspaces \subseteq Workspace
  /\ members \subseteq Emails
  /\ reg \in [Registrations -> [pc : SignupPCs, form : Form \cup {NoForm}]]

\* "Uso único" (docs/signup.md:26): whatever registrations run at the same
\* time, a used invite made exactly one workspace, an unused one none, and a
\* revoked one never makes any.
InviteMakesOne ==
  \A i \in Invites :
    LET made == {w \in workspaces : w.form.invite = i}
    IN  /\ \A v, w \in made : v = w
        /\ invite[i].used <=> made # {}
        /\ ~(invite[i].used /\ invite[i].revoked)

\* "Um cadastro por e-mail e por CPF/CNPJ" (docs/signup.md:28), although the
\* lookups are made before the insert and no index covers the e-mail alone.
OneSignupPerIdentity ==
  \A v, w \in workspaces :
    \/ v.form.email = w.form.email
    \/ v.form.document = w.form.document
    \/ v.form.slug = w.form.slug
    => v = w
=============================================================================
