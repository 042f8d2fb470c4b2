-------------------------------- MODULE Accounts --------------------------------
(***************************************************************************)
(* How users come to be, and the workspace (tenant) each is in:            *)
(*   src/auth/auth.service.ts                 register                     *)
(*   src/auth/oauth.service.ts                the first login by OAuth     *)
(*   src/auth/email-verification.service.ts   codes by mail                *)
(*   src/users/users.service.ts               what administrators do       *)
(*                                                                         *)
(* The first user to register founds the workspace that later users join.  *)
(* Whether a user is the first is read before the workspace and the user   *)
(* are created, and these are two writes: requests interleave between them *)
(* and may fail between them.                                              *)
(***************************************************************************)
EXTENDS Naturals

CONSTANTS
  Emails,              \* addresses; the rows of users are unique in them
  AdminEmail,          \* the address that is made an administrator at every start
  AccountRequests,     \* requests that may run at once
  NoAccount,           \* undefined
  MaxAccountRequests,  \* bound on requests
  MaxAccountFailures   \* bound on requests that fail half way

ASSUME AccountAssumption ==
  /\ AdminEmail \in Emails
  /\ NoAccount \notin Emails \cup Nat
  /\ MaxAccountRequests \in Nat /\ MaxAccountFailures \in Nat

VARIABLES
  account,          \* the row of each user
  tenants,          \* the tenants, numbered in the order of their creation
  linked,           \* the addresses whose OAuth identity is linked to a user
  mailed,           \* the code in the last mail to each address
  accountRequest,   \* the requests in progress
  workspaceFlaws,   \* history: what may have led to a second workspace
  mailFlaws,        \* history: addresses whose mails were lost or sent by two requests at once
  accountRequests,  \* requests so far; each takes its verification code from here
  accountFailures   \* failures so far

accountVars ==
  <<account, tenants, linked, mailed, accountRequest, workspaceFlaws, mailFlaws,
    accountRequests, accountFailures>>

UserRoles == {"SUPERADMIN", "ADMIN", "VIEWER", "none"}
TenantIds == 0 .. MaxAccountRequests       \* 0 is no tenant
CodeIds == 0 .. MaxAccountRequests         \* 0 is no code

Account == [tenant : TenantIds, role : UserRoles, verified : BOOLEAN, code : CodeIds,
            deleted : BOOLEAN]

ASSUME NoAccountIsNoRow == NoAccount \notin Account

IdleRequest == [step |-> "idle"]

Existing == {e \in Emails : account[e] # NoAccount}

\* PermissionsGuard: user:manage is a permission of the global role.
Managed == \E e \in Existing : account[e].role \in {"SUPERADMIN", "ADMIN"}

WritingCode(e) ==
  {r \in AccountRequests : /\ accountRequest[r] # IdleRequest
                           /\ accountRequest[r].email = e
                           /\ accountRequest[r].step \in {"code", "mail"}}

Continues(r, changed) == accountRequest' = [accountRequest EXCEPT ![r] = changed]
Ends(r) == Continues(r, IdleRequest)

AccountComes(r, op, e, step) ==
  /\ accountRequest[r] = IdleRequest
  /\ accountRequests < MaxAccountRequests /\ accountRequests' = accountRequests + 1
  /\ Continues(r, [op |-> op, email |-> e, step |-> step, first |-> FALSE, tenant |-> 0,
                   code |-> IF op \in {"register", "resend"} THEN accountRequests + 1 ELSE 0])
  /\ UNCHANGED <<account, tenants, linked, mailed, workspaceFlaws, mailFlaws, accountFailures>>

\* What a single write of a request leaves alone besides the rows of users.
OnlyAccounts ==
  UNCHANGED <<tenants, linked, mailed, workspaceFlaws, mailFlaws, accountFailures>>

-----------------------------------------------------------------------------
\* register, until the password is hashed.
Register(r, e) == account[e] = NoAccount /\ AccountComes(r, "register", e, "count")

\* Mutant: the second user counts as the first.
CountsUsers_AtMostOne(r) ==
  /\ accountRequest[r].step = "count"
  /\ Continues(r, [accountRequest[r] EXCEPT !.step = "tenant",
                     !.first = \A e, f \in Existing : e = f])
  /\ UNCHANGED <<account, tenants, linked, mailed, workspaceFlaws, mailFlaws, accountRequests,
                 accountFailures>>

\* Two that count none at once are both the first; whoever counts while a first is registered
\* is recorded, as the first or not.
CountsUsers(r) ==
  /\ accountRequest[r].step = "count"
  /\ Continues(r, [accountRequest[r] EXCEPT !.step = "tenant", !.first = Existing = {}])
  /\ workspaceFlaws' = workspaceFlaws \cup
       IF \E q \in AccountRequests \ {r} :
            accountRequest[q] # IdleRequest /\ accountRequest[q].first
       THEN {"two firsts"} ELSE {}
  /\ UNCHANGED <<account, tenants, linked, mailed, mailFlaws, accountRequests, accountFailures>>

\* The tenant is created by the first user and by a new OAuth user, else the oldest is found.
\* createUser takes whichever comes first.
FindsTenant(r) ==
  LET q == accountRequest[r]
      creates == q.first \/ q.op = "oauth"
  IN /\ q.step = "tenant"
     /\ tenants' = IF creates THEN tenants + 1 ELSE tenants
     /\ IF creates THEN Continues(r, [q EXCEPT !.step = "user", !.tenant = tenants + 1])
        ELSE IF q.op = "create"
        THEN \E t \in IF tenants = 0 THEN {0} ELSE 1 .. tenants :
               Continues(r, [q EXCEPT !.step = "user", !.tenant = t])
        ELSE IF tenants = 0 THEN Ends(r)
        ELSE Continues(r, [q EXCEPT !.step = "user", !.tenant = 1])
     /\ workspaceFlaws' = workspaceFlaws \cup IF q.op = "oauth" THEN {"oauth"} ELSE {}
     /\ UNCHANGED <<account, linked, mailed, mailFlaws, accountRequests, accountFailures>>

\* user.create: the address is unique.  A tenant created for the user stays.
CreatesUser(r) ==
  LET q == accountRequest[r]
      e == q.email
  IN /\ q.step = "user"
     /\ IF account[e] # NoAccount
        THEN Ends(r) /\ UNCHANGED account
        ELSE /\ \E role \in CASE q.op = "create" -> UserRoles
                              [] q.op = "register" /\ q.first -> {"SUPERADMIN"}
                              [] OTHER -> {"VIEWER"} :
                  account' = [account EXCEPT ![e] =
                    [tenant |-> q.tenant, role |-> role, verified |-> q.op = "oauth",
                     code |-> q.code, deleted |-> FALSE]]
             /\ CASE q.op = "register" -> Continues(r, [q EXCEPT !.step = "mail"])
                  [] q.op = "oauth" -> Continues(r, [q EXCEPT !.step = "link"])
                  [] q.op = "create" -> Ends(r)
     /\ UNCHANGED <<tenants, linked, mailed, workspaceFlaws, mailFlaws, accountRequests,
                    accountFailures>>

\* The mail with the code, which may be lost: the mailer swallows its errors.
SendsMail(r) ==
  LET q == accountRequest[r]
  IN /\ q.step = "mail"
     /\ Ends(r)
     /\ \/ mailed' = [mailed EXCEPT ![q.email] = q.code] /\ UNCHANGED mailFlaws
        \/ mailFlaws' = mailFlaws \cup {q.email} /\ UNCHANGED mailed
     /\ UNCHANGED <<account, tenants, linked, workspaceFlaws, accountRequests, accountFailures>>

\* handleOAuthLogin of an identity that is not linked yet.
OAuthLogin(r, e) ==
  e \notin linked /\ AccountComes(r, "oauth", e, IF account[e] = NoAccount THEN "tenant" ELSE "link")

LinksIdentity(r) ==
  LET q == accountRequest[r]
  IN /\ q.step = "link"
     /\ linked' = linked \cup {q.email}
     /\ Ends(r)
     /\ UNCHANGED <<account, tenants, mailed, workspaceFlaws, mailFlaws, accountRequests,
                    accountFailures>>

-----------------------------------------------------------------------------
\* verifyEmail finds the user by the code of a mail, and then writes by id.
VerifyEmail(r, e) ==
  /\ account[e] # NoAccount
  /\ account[e].code # 0 /\ account[e].code = mailed[e]
  /\ AccountComes(r, "verify", e, "verify")

Verifies(r) ==
  LET q == accountRequest[r]
  IN /\ q.step = "verify"
     /\ account' = [account EXCEPT ![q.email].verified = TRUE, ![q.email].code = 0]
     /\ Ends(r)
     /\ OnlyAccounts /\ UNCHANGED accountRequests

\* resendVerification, for a user who is not verified.
ResendVerification(r, e) ==
  /\ account[e] # NoAccount /\ ~account[e].verified
  /\ AccountComes(r, "resend", e, "code")

\* Mutant: the mail carries a code and the row keeps the old one.
StoresCode_KeepsOld(r) ==
  /\ accountRequest[r].step = "code"
  /\ Continues(r, [accountRequest[r] EXCEPT !.step = "mail"])
  /\ UNCHANGED <<account, tenants, linked, mailed, workspaceFlaws, mailFlaws, accountRequests,
                 accountFailures>>

StoresCode(r) ==
  LET q == accountRequest[r]
  IN /\ q.step = "code"
     /\ account' = [account EXCEPT ![q.email].code = q.code]
     /\ Continues(r, [q EXCEPT !.step = "mail"])
     /\ mailFlaws' = mailFlaws \cup IF WritingCode(q.email) # {r} THEN {q.email} ELSE {}
     /\ UNCHANGED <<tenants, linked, mailed, workspaceFlaws, accountRequests, accountFailures>>

\* createUser of users.service.
CreateUser(r, e) ==
  Managed /\ account[e] = NoAccount /\ AccountComes(r, "create", e, "tenant")

\* updateUser (the role) and deleteUser: single writes to a row that exists.
UpdateUser(e, role) ==
  /\ Managed /\ account[e] # NoAccount /\ ~account[e].deleted
  /\ accountRequests < MaxAccountRequests /\ accountRequests' = accountRequests + 1
  /\ account[e].role # role
  /\ account' = [account EXCEPT ![e].role = role]
  /\ OnlyAccounts /\ UNCHANGED accountRequest

DeleteUser(e) ==
  /\ Managed /\ account[e] # NoAccount
  /\ accountRequests < MaxAccountRequests /\ accountRequests' = accountRequests + 1
  /\ account' = [account EXCEPT ![e].deleted = TRUE]
  /\ OnlyAccounts /\ UNCHANGED accountRequest

\* A call of the request throws, or the process dies.
AccountRequestFails(r) ==
  /\ accountRequest[r] # IdleRequest
  /\ accountFailures < MaxAccountFailures /\ accountFailures' = accountFailures + 1
  /\ workspaceFlaws' = workspaceFlaws \cup
       IF accountRequest[r].first /\ accountRequest[r].step = "user" THEN {"failed"} ELSE {}
  /\ mailFlaws' = mailFlaws \cup
       IF accountRequest[r].step = "mail" THEN {accountRequest[r].email} ELSE {}
  /\ Ends(r)
  /\ UNCHANGED <<account, tenants, linked, mailed, accountRequests>>

\* bootstrapAdmin, at a start of the application.
BootstrapAdmin ==
  /\ account[AdminEmail] # NoAccount /\ account[AdminEmail].role # "ADMIN"
  /\ \A r \in AccountRequests : accountRequest[r] = IdleRequest
  /\ account' = [account EXCEPT ![AdminEmail].role = "ADMIN"]
  /\ OnlyAccounts /\ UNCHANGED <<accountRequest, accountRequests>>

AccountInit ==
  /\ account = [e \in Emails |-> NoAccount]
  /\ tenants = 0
  /\ linked = {}
  /\ mailed = [e \in Emails |-> 0]
  /\ accountRequest = [r \in AccountRequests |-> IdleRequest]
  /\ workspaceFlaws = {} /\ mailFlaws = {}
  /\ accountRequests = 0 /\ accountFailures = 0

AccountNext ==
  \/ \E r \in AccountRequests :
       \/ \E e \in Emails :
            \/ Register(r, e) \/ OAuthLogin(r, e) \/ CreateUser(r, e)
            \/ VerifyEmail(r, e) \/ ResendVerification(r, e)
       \/ CountsUsers(r) \/ FindsTenant(r) \/ CreatesUser(r) \/ SendsMail(r)
       \/ LinksIdentity(r) \/ Verifies(r) \/ StoresCode(r)
       \/ AccountRequestFails(r)
  \/ \E e \in Emails : DeleteUser(e) \/ \E role \in UserRoles : UpdateUser(e, role)
  \/ BootstrapAdmin

AccountSpec == AccountInit /\ [][AccountNext]_accountVars

-----------------------------------------------------------------------------
(***************************************************************************)
(* Properties                                                              *)
(***************************************************************************)

\* The types of the state; what is linked has its user.
AccountTypeOK ==
  /\ account \in [Emails -> Account \cup {NoAccount}]
  /\ tenants \in TenantIds
  /\ linked \subseteq Existing
  /\ mailed \in [Emails -> CodeIds]
  /\ workspaceFlaws \subseteq {"two firsts", "oauth", "failed"}
  /\ mailFlaws \subseteq Emails

\* Everyone is in the workspace the first user founded, unless users were counted while the
\* first was registered, the first failed between tenant and user, or a user came by OAuth
\* (auth.service.ts:70, "First user creates the org tenant; all subsequent users join that
\* tenant.").
OneWorkspace ==
  workspaceFlaws = {} => \A e \in Existing : account[e].tenant = 1

\* The code in the last mail to a user who is not verified is the one in the row, once no
\* request is on its way with another, unless a mail was lost or two requests sent one at once.
MailedCodeVerifies ==
  \A e \in Existing \ mailFlaws :
    account[e].code # 0 /\ WritingCode(e) = {} => mailed[e] = account[e].code

\* Registration leaves users in one workspace, with a mail by which they can verify.
AccountsAgree == OneWorkspace /\ MailedCodeVerifies
=============================================================================
