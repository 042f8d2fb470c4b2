--------------------------------- MODULE SignIn ---------------------------------
(***************************************************************************)
(* The logins and sessions of one verified user:                           *)
(*   src/auth/auth.service.ts         login, refresh, logout               *)
(*   src/auth/token.service.ts        generateTokens                       *)
(*   src/auth/sessions.service.ts     what the user revokes                *)
(*   src/auth/two-factor.service.ts   the second factor                    *)
(*   src/auth/password.service.ts     a forgotten password                 *)
(*                                                                         *)
(* Each request reads the rows it decides on and writes them later by id.  *)
(* Whether a password or a code is the right one is left open.             *)
(***************************************************************************)
EXTENDS Naturals, FiniteSets

CONSTANTS
  Sessions,          \* rows of sessions; none is used twice
  SignInRequests,    \* requests that may run at once
  NoSession,         \* undefined
  MaxLoginAttempts,  \* MAX_LOGIN_ATTEMPTS
  MaxSignIns         \* bound on requests

ASSUME SignInAssumption ==
  /\ NoSession \notin Sessions
  /\ MaxLoginAttempts \in Nat \ {0} /\ MaxSignIns \in Nat

VARIABLES
  session,        \* the rows of sessions: revoked or not, and the session each was exchanged for
  loginAttempts,  \* the count in the user's row
  lockedOut,      \* lockedUntil is in the future
  secret,         \* twoFactorSecret is set
  secondFactor,   \* twoFactorEnabled
  resetToken,     \* the row of passwordReset exists
  signIn,         \* the requests in progress
  failed,         \* history: wrong passwords since the last right one, reset or unlocking
  raced,          \* history: what was read by two requests at once
  signIns         \* requests so far

signInVars ==
  <<session, loginAttempts, lockedOut, secret, secondFactor, resetToken, signIn, failed, raced,
    signIns>>

SessionRow == [revoked : BOOLEAN, parent : Sessions \cup {NoSession}]

ASSUME NoSessionIsNoRow == NoSession \notin SessionRow

NotIn == [op |-> "none"]

Issued == {s \in Sessions : session[s] # NoSession}

InProgress(ops) == {r \in SignInRequests : signIn[r].op \in ops}

RowsOfUser == <<loginAttempts, lockedOut, secret, secondFactor, resetToken>>

SignInBegins(r, request) ==
  /\ signIn[r] = NotIn
  /\ signIns < MaxSignIns /\ signIns' = signIns + 1
  /\ signIn' = [signIn EXCEPT ![r] = request]
  /\ UNCHANGED <<session, RowsOfUser, failed>>

SignInEnds(r) == signIn' = [signIn EXCEPT ![r] = NotIn]

Races(what, ops) == raced' = raced \cup IF InProgress(ops) # {} THEN {what} ELSE {}

-----------------------------------------------------------------------------
\* login reads the row, and then compares the password.
Login(r) ==
  /\ ~lockedOut
  /\ SignInBegins(r, [op |-> "login", attempts |-> loginAttempts, factor |-> secondFactor,
                      step |-> "compare"])
  /\ Races("attempts", {"login", "reset"})

\* Mutant: a wrong password does not count when it locks the account.
WrongPassword_CountsFromZero(r) ==
  /\ signIn[r].op = "login" /\ signIn[r].step = "compare"
  /\ loginAttempts' = IF signIn[r].attempts + 1 >= MaxLoginAttempts THEN 0
                      ELSE signIn[r].attempts + 1
  /\ lockedOut' = (signIn[r].attempts + 1 >= MaxLoginAttempts)
  /\ failed' = failed + 1
  /\ SignInEnds(r)
  /\ UNCHANGED <<session, secret, secondFactor, resetToken, raced, signIns>>

WrongPassword(r) ==
  /\ signIn[r].op = "login" /\ signIn[r].step = "compare"
  /\ loginAttempts' = signIn[r].attempts + 1
  /\ lockedOut' = (signIn[r].attempts + 1 >= MaxLoginAttempts)
  /\ failed' = failed + 1
  /\ SignInEnds(r)
  /\ UNCHANGED <<session, secret, secondFactor, resetToken, raced, signIns>>

\* The attempts are reset; with a second factor the login ends with a temporary token.
RightPassword(r) ==
  /\ signIn[r].op = "login" /\ signIn[r].step = "compare"
  /\ loginAttempts' = 0 /\ lockedOut' = FALSE
  /\ failed' = 0
  /\ IF signIn[r].factor THEN SignInEnds(r)
     ELSE signIn' = [signIn EXCEPT ![r] = [op |-> "issue", parent |-> NoSession]]
  /\ UNCHANGED <<session, secret, secondFactor, resetToken, raced, signIns>>

\* lockedUntil is over.
LockPasses ==
  /\ lockedOut /\ lockedOut' = FALSE
  /\ UNCHANGED <<session, loginAttempts, secret, secondFactor, resetToken, signIn, failed, raced,
                 signIns>>

\* generateTokens.
IssuesTokens(r) ==
  /\ signIn[r].op = "issue"
  /\ \E s \in Sessions \ Issued :
       session' = [session EXCEPT ![s] = [revoked |-> FALSE, parent |-> signIn[r].parent]]
  /\ SignInEnds(r)
  /\ UNCHANGED <<RowsOfUser, failed, raced, signIns>>

\* loginWithTwoFactor, with the right code for the secret in the row.
LoginWithTwoFactor(r) ==
  /\ secret
  /\ SignInBegins(r, [op |-> "issue", parent |-> NoSession])
  /\ UNCHANGED raced

-----------------------------------------------------------------------------
\* refresh reads the session of the token.
Refresh(r, s) ==
  /\ s \in Issued
  /\ SignInBegins(r, [op |-> IF session[s].revoked THEN "reuse" ELSE "exchange", session |-> s])
  /\ raced' = raced \cup
       IF \E q \in InProgress({"exchange"}) : signIn[q].session = s THEN {s} ELSE {}

\* Mutant: the exchanged session stays valid.
ExchangesToken_Keeps(r) ==
  /\ signIn[r].op = "exchange"
  /\ signIn' = [signIn EXCEPT ![r] = [op |-> "issue", parent |-> signIn[r].session]]
  /\ UNCHANGED <<session, RowsOfUser, failed, raced, signIns>>

\* The session is revoked by id, whatever its row says now, and a new one is issued.
ExchangesToken(r) ==
  /\ signIn[r].op = "exchange"
  /\ session' = [session EXCEPT ![signIn[r].session].revoked = TRUE]
  /\ signIn' = [signIn EXCEPT ![r] = [op |-> "issue", parent |-> signIn[r].session]]
  /\ UNCHANGED <<RowsOfUser, failed, raced, signIns>>

Revoke(ss) ==
  session' = [s \in Sessions |->
    IF s \in ss \cap Issued THEN [session[s] EXCEPT !.revoked = TRUE] ELSE session[s]]

\* A revoked token was used: every session of the user is revoked.
RevokesAllOnReuse(r) ==
  /\ signIn[r].op = "reuse"
  /\ Revoke(Sessions)
  /\ SignInEnds(r)
  /\ UNCHANGED <<RowsOfUser, failed, raced, signIns>>

\* logout, revokeSession and revokeAllSessions, which spares the current session.
Revokes(ss) ==
  /\ ss # {} /\ ss \subseteq Issued
  /\ signIns < MaxSignIns /\ signIns' = signIns + 1
  /\ Revoke(ss)
  /\ UNCHANGED <<RowsOfUser, signIn, failed, raced>>

Logout(s) == Revokes({s})
RevokeAllSessions(current) == Revokes(Issued \ {current})

-----------------------------------------------------------------------------
GenerateTwoFactorSecret ==
  /\ signIns < MaxSignIns /\ signIns' = signIns + 1
  /\ secret' = TRUE
  /\ UNCHANGED <<session, loginAttempts, lockedOut, secondFactor, resetToken, signIn, failed,
                 raced>>

\* enableTwoFactor and disableTwoFactor check the code against the row they read.
EnableTwoFactor(r) ==
  /\ secret
  /\ SignInBegins(r, [op |-> "enable"])
  /\ Races("factor", {"disable"})

DisableTwoFactor(r) ==
  /\ secondFactor /\ secret
  /\ SignInBegins(r, [op |-> "disable"])
  /\ Races("factor", {"enable"})

WritesFactor(r) ==
  /\ signIn[r].op \in {"enable", "disable"}
  /\ secondFactor' = (signIn[r].op = "enable")
  /\ secret' = IF signIn[r].op = "disable" THEN FALSE ELSE secret
  /\ SignInEnds(r)
  /\ UNCHANGED <<session, loginAttempts, lockedOut, resetToken, failed, raced, signIns>>

\* forgotPassword: a token is stored and mailed.
ForgotPassword ==
  /\ ~resetToken /\ resetToken' = TRUE
  /\ signIns < MaxSignIns /\ signIns' = signIns + 1
  /\ UNCHANGED <<session, loginAttempts, lockedOut, secret, secondFactor, signIn, failed, raced>>

\* resetPassword finds the token; the user is written, and then the token is deleted, which
\* throws when another request has deleted it.
ResetPassword(r) ==
  /\ resetToken
  /\ SignInBegins(r, [op |-> "reset"])
  /\ Races("attempts", {"login"})

WritesPassword(r) ==
  /\ signIn[r].op = "reset"
  /\ loginAttempts' = 0 /\ lockedOut' = FALSE
  /\ failed' = 0
  /\ signIn' = [signIn EXCEPT ![r] = [op |-> "forget"]]
  /\ UNCHANGED <<session, secret, secondFactor, resetToken, raced, signIns>>

DeletesResetToken(r) ==
  /\ signIn[r].op = "forget"
  /\ resetToken' = FALSE
  /\ SignInEnds(r)
  /\ UNCHANGED <<session, loginAttempts, lockedOut, secret, secondFactor, failed, raced, signIns>>

\* A query throws, or the process dies: the rows are as the request left them.
SignInFails(r) ==
  /\ signIn[r] # NotIn
  /\ SignInEnds(r)
  /\ UNCHANGED <<session, RowsOfUser, failed, raced, signIns>>

SignInInit ==
  /\ session = [s \in Sessions |-> NoSession]
  /\ loginAttempts = 0 /\ lockedOut = FALSE
  /\ secret = FALSE /\ secondFactor = FALSE
  /\ resetToken = FALSE
  /\ signIn = [r \in SignInRequests |-> NotIn]
  /\ failed = 0 /\ raced = {}
  /\ signIns = 0

SignInNext ==
  \/ \E r \in SignInRequests :
       \/ Login(r) \/ WrongPassword(r) \/ RightPassword(r) \/ IssuesTokens(r)
       \/ LoginWithTwoFactor(r)
       \/ \E s \in Sessions : Refresh(r, s)
       \/ ExchangesToken(r) \/ RevokesAllOnReuse(r)
       \/ EnableTwoFactor(r) \/ DisableTwoFactor(r) \/ WritesFactor(r)
       \/ ResetPassword(r) \/ WritesPassword(r) \/ DeletesResetToken(r)
       \/ SignInFails(r)
  \/ \E s \in Sessions : Logout(s) \/ RevokeAllSessions(s)
  \/ GenerateTwoFactorSecret \/ ForgotPassword \/ LockPasses

SignInSpec == SignInInit /\ [][SignInNext]_signInVars

-----------------------------------------------------------------------------
(***************************************************************************)
(* Properties                                                              *)
(***************************************************************************)

\* The types of the state.
SignInTypeOK ==
  /\ session \in [Sessions -> SessionRow \cup {NoSession}]
  /\ loginAttempts \in 0 .. MaxSignIns
  /\ lockedOut \in BOOLEAN /\ secret \in BOOLEAN /\ secondFactor \in BOOLEAN
  /\ resetToken \in BOOLEAN
  /\ failed \in 0 .. MaxSignIns
  /\ \A r \in InProgress({"exchange", "reuse"}) : signIn[r].session \in Issued

Successors(s) == {t \in Issued : session[t].parent = s}

\* A session that was exchanged is revoked and has one successor, unless two requests read its
\* token before either had revoked it.
TokensAreExchangedOnce ==
  \A s \in Sessions :
    /\ Successors(s) # {} => session[s] # NoSession /\ session[s].revoked
    /\ s \notin raced => Cardinality(Successors(s)) <= 1

\* The count of attempts is that of the wrong passwords in a row, unless a login read it while
\* another request that writes it was in progress.
FailuresAreCounted == "attempts" \notin raced => loginAttempts = failed

\* Whoever needs a second factor to log in has a secret to log in with, unless it was being
\* enabled and disabled at once.
SecondFactorHasSecret == "factor" \notin raced => (secondFactor => secret)

\* What the requests leave behind agrees.
SignInAgrees == TokensAreExchangedOnce /\ FailuresAreCounted /\ SecondFactorHasSecret
=============================================================================
