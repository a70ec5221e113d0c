------------------------------ MODULE TwoFactor -----------------------------
(****************************************************************************)
(* The second factor of one account: AuthService.setupTwoFactor,            *)
(* verifyAndEnableTwoFactor, disableTwoFactor and recoverTwoFactor.  The    *)
(* secret and its recovery codes are one column, the switch another; every  *)
(* handler reads the user, decides, and writes in a later statement.        *)
(****************************************************************************)
EXTENDS Naturals, FiniteSets, Handlers

CONSTANTS
  MaxSecrets, \* bound: secrets generated
  Codes       \* the recovery codes of a secret

Secrets == 1..MaxSecrets
Stored == [totp : Secrets, recoveryCodes : SUBSET Codes]

ASSUME TwoFactorOK == MaxSecrets \in Nat /\ None \notin Stored

VARIABLES
  twoFactor,  \* the user's columns: enabled, and the secret with the codes left
  generated,  \* secrets handed out so far
  verified,   \* history: secrets that a code was verified for
  recoveries, \* history: how often each recovery code was good for a session
  entangled,  \* history: secrets that recoveries overlapped over
  unsettled   \* history: setups, verifications and disables have overlapped

twoFactorHistory == <<verified, recoveries, entangled, unsettled>>
twoFactorVars == <<twoFactor, generated, twoFactorHistory>>

ExtractTotpSecret(stored) == stored.totp

TwoFactorJob == [op : {"setup", "enable", "disable", "recover"}, pc : {"write"},
                 secret : Stored \cup {None}, code : Codes \cup {None}]

TwoFactorTypeOK ==
  /\ twoFactor \in [enabled : BOOLEAN, secret : Stored \cup {None}]
  /\ generated \in 0..MaxSecrets
  /\ verified \subseteq Secrets /\ entangled \subseteq Secrets
  /\ recoveries \in [Secrets \X Codes -> 0..2]
  /\ unsettled \in BOOLEAN
  /\ req \in [Requests -> {IdleJob} \cup TwoFactorJob]

TwoFactorInit ==
  /\ twoFactor = [enabled |-> FALSE, secret |-> None]
  /\ generated = 0 /\ verified = {} /\ entangled = {} /\ unsettled = FALSE
  /\ recoveries = [c \in Secrets \X Codes |-> 0]
  /\ req = [r \in Requests |-> IdleJob]

-----------------------------------------------------------------------------
Begin2FA(r, op, secret, code) ==
  Start(r, [op |-> op, pc |-> "write", secret |-> secret, code |-> code])

AlsoAtWork(r, ops) == {q \in Requests \ {r} : req[q].op \in ops}
Settling == {"setup", "enable", "disable"}

Settle(r) ==
  /\ unsettled' = (unsettled \/ AlsoAtWork(r, Settling) # {})
  /\ Finish(r)

Setup(r) ==
  /\ ~twoFactor.enabled /\ generated < MaxSecrets
  /\ generated' = generated + 1
  /\ Begin2FA(r, "setup", [totp |-> generated + 1, recoveryCodes |-> Codes], None)
  /\ UNCHANGED <<twoFactor, twoFactorHistory>>

SetupWrite(r) ==
  /\ Doing(r, "setup", "write")
  /\ twoFactor' = [twoFactor EXCEPT !.secret = req[r].secret]
  /\ Settle(r)
  /\ UNCHANGED <<generated, verified, recoveries, entangled>>

(* The code is verified against the secret just read. *)
Enable(r) ==
  /\ twoFactor.secret # None /\ ~twoFactor.enabled
  /\ verified' = verified \cup {ExtractTotpSecret(twoFactor.secret)}
  /\ Begin2FA(r, "enable", None, None)
  /\ UNCHANGED <<twoFactor, generated, recoveries, entangled, unsettled>>

(* Only the switch is written, beside whatever secret is there now. *)
EnableWrite(r) ==
  /\ Doing(r, "enable", "write")
  /\ twoFactor' = [twoFactor EXCEPT !.enabled = TRUE]
  /\ Settle(r)
  /\ UNCHANGED <<generated, verified, recoveries, entangled>>

(* A switch without a secret fails every code: nothing parses. *)
Disable(r) ==
  /\ twoFactor.enabled /\ twoFactor.secret # None
  /\ Begin2FA(r, "disable", None, None)
  /\ UNCHANGED twoFactorVars

DisableWrite(r) ==
  /\ Doing(r, "disable", "write")
  /\ twoFactor' = [enabled |-> FALSE, secret |-> None]
  /\ Settle(r)
  /\ UNCHANGED <<generated, verified, recoveries, entangled>>

(* A code that is on the list just read is taken off it. *)
Recover(r, c) ==
  /\ twoFactor.enabled /\ twoFactor.secret # None
  /\ c \in twoFactor.secret.recoveryCodes
  /\ Begin2FA(r, "recover", [twoFactor.secret EXCEPT !.recoveryCodes = @ \ {c}], c)
  /\ UNCHANGED twoFactorVars

RecoverySession(r) ==
  /\ recoveries' = [recoveries EXCEPT ![<<req[r].secret.totp, req[r].code>>] =
                      IF @ = 2 THEN 2 ELSE @ + 1]
  /\ entangled' = entangled \cup {req[q].secret.totp : q \in AlsoAtWork(r, {"recover"})}
  /\ Finish(r)
  /\ UNCHANGED <<generated, verified, unsettled>>

(* Mutant: the codes left are not written back. *)
RecoverWriteNothing(r) ==
  /\ Doing(r, "recover", "write")
  /\ RecoverySession(r)
  /\ UNCHANGED twoFactor

(* The whole column is written back, then a session is opened. *)
RecoverWrite(r) ==
  /\ Doing(r, "recover", "write")
  /\ twoFactor' = [twoFactor EXCEPT !.secret = req[r].secret]
  /\ RecoverySession(r)

(* A statement fails or the process dies; a code not yet written off stays  *)
(* good.                                                                    *)
TwoFactorFail(r) ==
  /\ ~Idle(r)
  /\ Finish(r)
  /\ UNCHANGED twoFactorVars

TwoFactorStep(r) ==
  \/ Setup(r) \/ SetupWrite(r) \/ Enable(r) \/ EnableWrite(r)
  \/ Disable(r) \/ DisableWrite(r) \/ RecoverWrite(r) \/ TwoFactorFail(r)
  \/ \E c \in Codes : Recover(r, c)

TwoFactorNext == \E r \in Requests : TwoFactorStep(r)

TwoFactorSpec == TwoFactorInit /\ [][TwoFactorNext]_<<req, twoFactorVars>>

-----------------------------------------------------------------------------
(* A second factor that is on has a secret, and its owner proved to hold    *)
(* it, unless setups, verifications and disables overlapped: a setup that   *)
(* lands between a verification's read and its write is switched on unseen. *)
EnabledWasVerified ==
  twoFactor.enabled /\ ~unsettled =>
    twoFactor.secret # None /\ twoFactor.secret.totp \in verified

(* A recovery code opens one session, unless recoveries with codes of the   *)
(* same secret overlapped: each writes back a list with the other's code.   *)
RecoveriesExplained ==
  \A s \in Secrets, c \in Codes : recoveries[<<s, c>>] > 1 => s \in entangled

(* What the second factor promises, but for handlers that overlap.          *)
SecondFactorSound == EnabledWasVerified /\ RecoveriesExplained
=============================================================================
