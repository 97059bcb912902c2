------------------------------- MODULE Login -------------------------------
(***************************************************************************)
(* Credential login, password change and password reset                    *)
(* (internal/server/http_server.go, internal/superadmin/manager.go).       *)
(*                                                                         *)
(* One guard, of one user name at one address, is shared by concurrent     *)
(* login requests; it is read in one critical section and written in a     *)
(* later one.  The super administrator's password is a file.  A reset      *)
(* challenge lives in memory and is mailed to the user.                    *)
(***************************************************************************)
EXTENDS Integers, FiniteSets

CONSTANTS
  Attempts,           \* login requests in flight at once
  Captchas,           \* bound: captcha challenges
  CaptchaThreshold,   \* loginCaptchaThreshold
  LockThreshold,      \* loginLockThreshold
  Changers,           \* requests to change the super administrator's password
  Passwords, Default, \* long enough passwords, and the one of a fresh file
  Completers,         \* requests to complete the reset challenge
  MaxWriteFaults      \* bound: failed writes of the state file

ASSUME LoginAssumption ==
  /\ CaptchaThreshold \in Nat \ {0} /\ LockThreshold \in Nat \ {0}
  /\ Default \in Passwords /\ MaxWriteFaults \in Nat

VARIABLES
  guard,      \* loginGuards: failures counted and the lock: "none", "on" or "past"
  captchas,   \* loginCaptcha: "none", "live" or "old" (expired), and as history
              \* the attempts the challenge has let through
  attempt,    \* per login request: where it is and its snapshot of the guard
  super,      \* superadmin.Manager.state: password and mustReset
  file,       \* what the state file holds, when it is whole
  whole,      \* the state file can be read: it is not truncated or cut short
  changer,    \* per change request: where it is, current and next password
  acked,      \* history: password of the last change answered with success
  tried,      \* history: passwords of changes answered with an error since
  swaps,      \* history: pairs <<named as current, replaced>>
  faults,
  reset,      \* the reset challenge: "none", "issued", "verified" or "gone"
  completer,  \* per request to complete it: where it is
  resets      \* history: passwords set by the challenge

loginVars  == <<guard, captchas, attempt>>
secretVars == <<super, file, whole, changer, acked, tried, swaps, faults>>
resetVars  == <<reset, completer, resets>>

NoGuard == [failed |-> 0, lock |-> "none"]

LoginInit ==
  /\ guard = NoGuard
  /\ captchas = [c \in Captchas |-> [state |-> "none", passes |-> 0]]
  /\ attempt = [a \in Attempts |-> [pc |-> "idle", seen |-> NoGuard]]

\* NewManager: loadOrInit finds no file and writes the default password.
SecretInit ==
  /\ super = [password |-> Default, mustReset |-> TRUE]
  /\ file = super /\ whole = TRUE
  /\ changer = [p \in Changers |-> [pc |-> "idle", current |-> Default, next |-> Default]]
  /\ acked = Default /\ tried = {}
  /\ swaps = {}
  /\ faults = 0

ResetInit ==
  /\ reset = "none"
  /\ completer = [p \in Completers |-> "idle"]
  /\ resets = 0

-----------------------------------------------------------------------------
(* Captchas and the guard.                                                 *)

pruneExpiredCaptcha(cs) ==
  [c \in Captchas |-> IF cs[c].state = "old" THEN [cs[c] EXCEPT !.state = "none"] ELSE cs[c]]

\* Identifiers are used again once their challenge is gone; with all of them in
\* use the bound is reached and none is issued.
issueCaptcha(cs) ==
  LET pruned == pruneExpiredCaptcha(cs)
      fresh  == {c \in Captchas : pruned[c].state = "none"}
  IN  IF fresh = {} THEN pruned
      ELSE [pruned EXCEPT ![CHOOSE c \in fresh : TRUE] = [state |-> "live", passes |-> 0]]

handleLoginCaptcha ==
  /\ captchas' = issueCaptcha(captchas)
  /\ UNCHANGED <<guard, attempt>>

\* A lock in the past is taken away together with its failures.
Normal(g) == IF g.lock = "past" THEN NoGuard ELSE g

loginGuardSnapshot(a) ==
  /\ attempt[a].pc = "idle"
  /\ guard' = Normal(guard)
  /\ attempt' = [attempt EXCEPT ![a] = [pc |-> "snapped", seen |-> guard']]
  /\ UNCHANGED captchas

Goto(a, pc) == attempt' = [attempt EXCEPT ![a] = [pc |-> pc, seen |-> NoGuard]]

AnswerLocked(a) ==
  /\ attempt[a].pc = "snapped" /\ attempt[a].seen.lock = "on"
  /\ Goto(a, "idle")
  /\ UNCHANGED <<guard, captchas>>

NoCaptchaNeeded(a) ==
  /\ attempt[a].pc = "snapped" /\ attempt[a].seen.lock # "on"
  /\ attempt[a].seen.failed < CaptchaThreshold
  /\ Goto(a, "allowed")
  /\ UNCHANGED <<guard, captchas>>

\* The right answer is taken but the challenge stays.
verifyCaptcha_Keeps(c) ==
  /\ captchas[c].state = "live"
  /\ captchas' = [captchas EXCEPT ![c].passes = @ + 1]

\* The right answer to a live challenge of this user, which is used up.
verifyCaptcha(c) ==
  /\ captchas[c].state = "live"
  /\ captchas' = [captchas EXCEPT ![c] = [state |-> "none", passes |-> @.passes + 1]]

CaptchaRight(a) ==
  /\ attempt[a].pc = "snapped" /\ attempt[a].seen.lock # "on"
  /\ attempt[a].seen.failed >= CaptchaThreshold
  /\ \E c \in Captchas : verifyCaptcha(c)
  /\ Goto(a, "allowed")
  /\ UNCHANGED guard

\* No answer, a wrong one or one to a challenge of the past, which is
\* deleted: the answer is a new challenge.
CaptchaWrong(a) ==
  /\ attempt[a].pc = "snapped" /\ attempt[a].seen.lock # "on"
  /\ attempt[a].seen.failed >= CaptchaThreshold
  /\ captchas' = issueCaptcha(captchas)
  /\ Goto(a, "idle")
  /\ UNCHANGED guard

\* The lock comes one failure late.
recordLoginFailure_Late(g) ==
  LET n == Normal(g).failed + 1
  IN  [failed |-> n, lock |-> IF n > LockThreshold THEN "on" ELSE Normal(g).lock]

recordLoginFailure(g) ==
  LET n == Normal(g).failed + 1
  IN  [failed |-> n, lock |-> IF n >= LockThreshold THEN "on" ELSE Normal(g).lock]

\* replyInvalid.
LoginFails(a) ==
  /\ attempt[a].pc = "allowed"
  /\ guard' = recordLoginFailure(guard)
  /\ captchas' = IF guard'.failed >= CaptchaThreshold THEN issueCaptcha(captchas) ELSE captchas
  /\ Goto(a, "idle")

\* clearLoginGuard, whatever the guard has become since the snapshot.
LoginSucceeds(a) ==
  /\ attempt[a].pc = "allowed"
  /\ guard' = NoGuard
  /\ Goto(a, "idle")
  /\ UNCHANGED captchas

\* An error that is not ErrInvalidCredentials: the guard is left alone.
LoginBreaks(a) ==
  /\ attempt[a].pc = "allowed"
  /\ Goto(a, "idle")
  /\ UNCHANGED <<guard, captchas>>

\* Time passes loginLockDuration or loginCaptchaTTL.
LockPasses ==
  LET Passed(g) == IF g.lock = "on" THEN [g EXCEPT !.lock = "past"] ELSE g
  IN  /\ guard.lock = "on"
      /\ guard' = Passed(guard)
      /\ attempt' = [a \in Attempts |-> [attempt[a] EXCEPT !.seen = Passed(@)]]
      /\ UNCHANGED captchas

CaptchasExpire ==
  /\ \E c \in Captchas : captchas[c].state = "live"
  /\ captchas' = [c \in Captchas |->
       IF captchas[c].state = "live" THEN [captchas[c] EXCEPT !.state = "old"] ELSE captchas[c]]
  /\ UNCHANGED <<guard, attempt>>

LoginNext ==
  \/ handleLoginCaptcha \/ LockPasses \/ CaptchasExpire
  \/ \E a \in Attempts :
       \/ loginGuardSnapshot(a) \/ AnswerLocked(a) \/ NoCaptchaNeeded(a)
       \/ CaptchaRight(a) \/ CaptchaWrong(a)
       \/ LoginFails(a) \/ LoginSucceeds(a) \/ LoginBreaks(a)

-----------------------------------------------------------------------------
(* The super administrator's password.                                     *)

\* os.WriteFile fails before it opens the file, or after it has truncated it and
\* before all is written, or as it closes the file.
WriteFails(s) ==
  /\ faults < MaxWriteFaults /\ faults' = faults + 1
  /\ \/ UNCHANGED <<file, whole>>
     \/ whole' = FALSE /\ UNCHANGED file
     \/ file' = s /\ whole' = TRUE

\* persistLocked: the file is written, or the write fails and the request is
\* answered with an error although the state in memory has changed.
persistLocked(s, ok) ==
  /\ super' = s
  /\ IF ok THEN /\ file' = s /\ whole' = TRUE /\ acked' = s.password /\ tried' = {}
                /\ UNCHANGED faults
     ELSE WriteFails(s) /\ tried' = tried \cup {s.password} /\ UNCHANGED acked

\* handlePasswordChange: Manager.Authenticate first, ...
ChangeAuthenticate(p) ==
  /\ changer[p].pc = "idle"
  /\ \E current \in Passwords, next \in Passwords \ {Default} :
       /\ current = super.password
       /\ changer' = [changer EXCEPT ![p] = [pc |-> "update", current |-> current, next |-> next]]
  /\ UNCHANGED <<super, file, whole, acked, tried, swaps, faults>>

\* UpdatePassword trusts the comparison made by Authenticate.
Compared_Before(p) == changer[p].next # super.password

\* ... then UpdatePassword, which compares both passwords again under the lock.
Compared(p) ==
  /\ changer[p].current = super.password
  /\ changer[p].next # super.password

UpdatePassword(p, ok) ==
  /\ changer[p].pc = "update"
  /\ Compared(p)
  /\ persistLocked([password |-> changer[p].next, mustReset |-> FALSE], ok)
  /\ swaps' = swaps \cup {<<changer[p].current, super.password>>}
  /\ changer' = [changer EXCEPT ![p].pc = "idle"]

UpdateRefused(p) ==
  /\ changer[p].pc = "update" /\ ~Compared(p)
  /\ changer' = [changer EXCEPT ![p].pc = "idle"]
  /\ UNCHANGED <<super, file, whole, acked, tried, swaps, faults>>

ForceReset(ok) ==
  /\ persistLocked([password |-> Default, mustReset |-> TRUE], ok)
  /\ UNCHANGED <<changer, swaps>>

\* loadOrInit on the next start; requests in flight are gone.  With a file that
\* does not parse NewManager returns an error and the server does not start.
SuperRestart ==
  /\ whole
  /\ super' = file
  /\ changer' = [p \in Changers |-> [changer[p] EXCEPT !.pc = "idle"]]
  /\ UNCHANGED <<file, whole, acked, tried, swaps, faults>>

SecretNext ==
  \/ \E ok \in BOOLEAN : ForceReset(ok) \/ \E p \in Changers : UpdatePassword(p, ok)
  \/ \E p \in Changers : ChangeAuthenticate(p) \/ UpdateRefused(p)
  \/ SuperRestart

-----------------------------------------------------------------------------
(* The reset challenge.                                                    *)

\* issuePasswordReset, and clearPasswordResetChallenge when the mail fails.
handlePasswordResetStart ==
  /\ reset = "none"
  /\ reset' \in {"issued", "gone"}
  /\ UNCHANGED <<completer, resets>>

handlePasswordResetVerify ==
  /\ reset \in {"issued", "verified"}
  /\ reset' = "verified"
  /\ UNCHANGED <<completer, resets>>

\* The challenge is only read here and deleted with the update.
CompleteTake_Reads(p) ==
  /\ completer[p] = "idle" /\ reset = "verified"
  /\ completer' = [completer EXCEPT ![p] = "update"]
  /\ UNCHANGED <<reset, resets>>

\* handlePasswordResetComplete deletes the challenge under the lock ...
CompleteTake(p) ==
  /\ completer[p] = "idle" /\ reset = "verified"
  /\ reset' = "gone"
  /\ completer' = [completer EXCEPT ![p] = "update"]
  /\ UNCHANGED resets

\* ... and calls UpdatePassword after it; that may fail, and the user has to
\* start again.
CompleteUpdate(p) ==
  /\ completer[p] = "update"
  /\ resets' \in {resets, resets + 1}
  /\ completer' = [completer EXCEPT ![p] = "idle"]
  /\ reset' = "gone"

\* passwordResetTTL.
ResetExpires ==
  /\ reset \in {"issued", "verified"}
  /\ reset' = "gone"
  /\ UNCHANGED <<completer, resets>>

ResetNext ==
  \/ handlePasswordResetStart \/ handlePasswordResetVerify \/ ResetExpires
  \/ \E p \in Completers : CompleteTake(p) \/ CompleteUpdate(p)

-----------------------------------------------------------------------------
(* Logins, password changes and the reset share no state: they interleave. *)

CredentialsInit == LoginInit /\ SecretInit /\ ResetInit

CredentialsNext ==
  \/ LoginNext  /\ UNCHANGED <<secretVars, resetVars>>
  \/ SecretNext /\ UNCHANGED <<loginVars, resetVars>>
  \/ ResetNext  /\ UNCHANGED <<loginVars, secretVars>>

credentialVars == <<loginVars, secretVars, resetVars>>

CredentialsSpec == CredentialsInit /\ [][CredentialsNext]_credentialVars

-----------------------------------------------------------------------------
(* Properties.                                                             *)

\* However login requests interleave, the failures counted against one user
\* and address never exceed the lock threshold by more than the requests that
\* had passed the check before the lock was set: the snapshot is stale by then.
FailuresBounded == guard.failed <= LockThreshold + Cardinality(Attempts) - 1

\* An answered captcha lets one login request through: verifyCaptcha deletes it
\* in the critical section in which it compares.
CaptchaOnce == \A c \in Captchas : captchas[c].passes <= 1

\* The super administrator's password only changes from the one the caller
\* named, also when two changes overlap.  And what is in force, and what the file
\* holds unless a failed write has left it unreadable, is the password of the last
\* change that was answered with success or of one answered with an error since: no
\* restart brings an older one back (superadmin/manager.go persistLocked, loadOrInit).
PasswordOfRecord ==
  /\ \A s \in swaps : s[1] = s[2]
  /\ super.password \in {acked} \cup tried
  /\ whole => file.password \in {acked} \cup tried

\* A verified reset challenge sets one password, however many requests to
\* complete it overlap.
ResetOnce == resets <= 1

\* What the login path promises of its counters and secrets, whatever requests
\* overlap (recordLoginFailure, verifyCaptcha, ChangeSuperAdminPassword,
\* handleCompletePasswordReset).
CredentialsSound == FailuresBounded /\ CaptchaOnce /\ PasswordOfRecord /\ ResetOnce

=============================================================================
