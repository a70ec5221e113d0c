------------------------------ MODULE Sessions ------------------------------
(****************************************************************************)
(* The sessions of one user: AuthService.login, refreshTokens, logout,      *)
(* logoutAll, revokeSession, forgotPassword, resetPassword and              *)
(* UserService.adminResetPassword. The account exists and is not suspended; *)
(* its second factor is left to other checks.                               *)
(*                                                                          *)
(* No operation is a transaction: a refresh ends the old session and        *)
(* inserts the new one in two statements, a reset writes the password, uses *)
(* up its token and ends the sessions in three.                             *)
(*                                                                          *)
(* A refresh token is a signature over the user and the second of its       *)
(* issue, with nothing random in it: a session is identified by that        *)
(* second.                                                                  *)
(****************************************************************************)
EXTENDS Naturals

CONSTANTS
  Requests, ResetTokens,
  MaxAttempts,  \* MAX_FAILED_ATTEMPTS
  LastSecond,   \* bound: the clock stops here
  MaxPassword,  \* bound: passwords are numbered in the order they are set
  AttemptCap,   \* bound: no wrong password is tried at this count
  MayFail,      \* whether statements may fail and the process die
  None

ASSUME BoundsOK ==
  /\ MaxAttempts \in Nat \ {0} /\ AttemptCap \in Nat
  /\ LastSecond \in Nat /\ MaxPassword \in Nat
  /\ MayFail \in BOOLEAN
ASSUME NoneOK == None \notin Nat /\ None \notin ResetTokens

Seconds   == 0..LastSecond
Passwords == 0..MaxPassword

VARIABLES
  now,
  session,  \* of each refresh token: "none", "live", or "ended" (revoked or expired)
  user,     \* the columns of the user row that matter here
  reset,    \* of each password reset token: "none", "open", "closed"
  req,      \* the handlers in flight
  origin,   \* history: what the session of a token rests on
  shared,   \* history: tokens two refreshes held at once
  setBy,    \* history: the reset token each password was set with
  disputed, \* history: reset tokens two resets held at once
  halted    \* history: where handlers died half done

history == <<origin, shared, setBy, disputed, halted>>
vars == <<now, session, user, reset, req, history>>

IdleJob == [pc |-> "idle", token |-> None, old |-> None, basis |-> None,
            key |-> None, late |-> FALSE]

(* Who is about to have a session: basis is the password it rests on, old   *)
(* the token it replaces, late whether all sessions were ended meanwhile.   *)
SessionJob == [pc : {"clear", "rotate", "issue"}, token : Seconds \cup {None},
               old : Seconds \cup {None}, basis : Passwords, key : {None}, late : BOOLEAN]
OtherJob   == [pc : {"count", "lock", "mint", "password", "mark", "revoke"},
               token : {None}, old : {None}, basis : {None},
               key : ResetTokens \cup {None}, late : {FALSE}]

TypeOK ==
  /\ now \in Seconds
  /\ session \in [Seconds -> {"none", "live", "ended"}]
  /\ user \in [password : Passwords, attempts : Nat, lock : {"off", "on", "over"}]
  /\ reset \in [ResetTokens -> {"none", "open", "closed"}]
  /\ req \in [Requests -> {IdleJob} \cup SessionJob \cup OtherJob]
  /\ origin \in [Seconds -> [basis : Passwords, old : Seconds \cup {None}, late : BOOLEAN]]
  /\ shared \subseteq Seconds
  /\ setBy \in [Passwords -> ResetTokens \cup {None}]
  /\ disputed \subseteq ResetTokens
  /\ halted \subseteq {"lock", "mark", "revoke"}
  /\ \A r \in Requests : /\ req[r].pc = "issue" => req[r].token \in Seconds
                         /\ req[r].pc = "rotate" => req[r].old \in Seconds
                         /\ req[r].pc = "mark" => req[r].key \in ResetTokens

(* A user as UserService.create leaves it. *)
Init ==
  /\ now = 0
  /\ session = [t \in Seconds |-> "none"]
  /\ user = [password |-> 0, attempts |-> 0, lock |-> "off"]
  /\ reset = [k \in ResetTokens |-> "none"]
  /\ req = [r \in Requests |-> IdleJob]
  /\ origin = [t \in Seconds |-> [basis |-> 0, old |-> None, late |-> FALSE]]
  /\ shared = {} /\ disputed = {} /\ halted = {}
  /\ setBy = [p \in Passwords |-> None]

-----------------------------------------------------------------------------
At(r, pc) == req[r].pc = pc
Start(r, changes) == req[r] = IdleJob /\ req' = [req EXCEPT ![r] = changes]
Finish(r) == req' = [req EXCEPT ![r] = IdleJob]
Goto(r, pc) == req' = [req EXCEPT ![r].pc = pc]

(* The tokens are signed right after the statement before the insert.       *)
GotoIssue(r) == req' = [req EXCEPT ![r].pc = "issue", ![r].token = now]

(* The lock has lapsed or was never set; the password is compared with the  *)
(* hash just read, so it is right or wrong as of this step.                 *)
LoginRead(r) ==
  /\ user.lock # "on"
  /\ \/ Start(r, [IdleJob EXCEPT !.pc = "clear", !.basis = user.password])
     \/ user.attempts < AttemptCap /\ Start(r, [IdleJob EXCEPT !.pc = "count"])
  /\ UNCHANGED <<now, session, user, reset, history>>

(* Mutant: the failures before a successful login still count. *)
LoginClearLockOnly(r) ==
  /\ At(r, "clear")
  /\ user' = [user EXCEPT !.lock = "off"]
  /\ GotoIssue(r)
  /\ UNCHANGED <<now, session, reset, history>>

LoginClear(r) ==
  /\ At(r, "clear")
  /\ user' = [user EXCEPT !.attempts = 0, !.lock = "off"]
  /\ GotoIssue(r)
  /\ UNCHANGED <<now, session, reset, history>>

(* handleFailedLogin: the count after the atomic increment decides. *)
CountFailure(r) ==
  /\ At(r, "count")
  /\ user' = [user EXCEPT !.attempts = @ + 1]
  /\ IF user.attempts + 1 >= MaxAttempts THEN Goto(r, "lock") ELSE Finish(r)
  /\ UNCHANGED <<now, session, reset, history>>

LockWrite(r) ==
  /\ At(r, "lock")
  /\ user' = [user EXCEPT !.lock = "on"]
  /\ Finish(r)
  /\ UNCHANGED <<now, session, reset, history>>

(* refreshTokens: the token is checked here and not again. *)
RefreshRead(r, t) ==
  /\ session[t] = "live"
  /\ Start(r, [IdleJob EXCEPT !.pc = "rotate", !.old = t,
                 !.basis = origin[t].basis, !.late = origin[t].late])
  /\ shared' = IF \E q \in Requests : At(q, "rotate") /\ req[q].old = t
               THEN shared \cup {t} ELSE shared
  /\ UNCHANGED <<now, session, user, reset, origin, setBy, disputed, halted>>

(* Mutant: the old session goes on. *)
RotateKeeping(r) ==
  /\ At(r, "rotate")
  /\ GotoIssue(r)
  /\ UNCHANGED <<now, session, user, reset, history>>

(* Mutant: the session is inserted with no token signed. *)
RotateUnsigned(r) ==
  /\ At(r, "rotate")
  /\ session' = [session EXCEPT ![req[r].old] = "ended"]
  /\ Goto(r, "issue")
  /\ UNCHANGED <<now, user, reset, history>>

Rotate(r) ==
  /\ At(r, "rotate")
  /\ session' = [session EXCEPT ![req[r].old] = "ended"]
  /\ GotoIssue(r)
  /\ UNCHANGED <<now, user, reset, history>>

(* createSession. The hash is unique: a second token of the same second is  *)
(* refused, whether the first one's session still lives or not.             *)
Issue(r) ==
  LET t == req[r].token
  IN  /\ At(r, "issue")
      /\ \/ /\ session[t] = "none"
            /\ session' = [session EXCEPT ![t] = "live"]
            /\ origin' = [origin EXCEPT ![t] =
                 [basis |-> req[r].basis, old |-> req[r].old, late |-> req[r].late]]
         \/ session[t] # "none" /\ UNCHANGED <<session, origin>>
      /\ Finish(r)
      /\ UNCHANGED <<now, user, reset, shared, setBy, disputed, halted>>

(* logout and revokeSession, and expiry, which the checks treat alike. *)
End(t) ==
  /\ session[t] = "live"
  /\ session' = [session EXCEPT ![t] = "ended"]
  /\ UNCHANGED <<now, user, reset, req, history>>

AllEnded == [t \in Seconds |-> IF session[t] = "live" THEN "ended" ELSE session[t]]

(* What the handlers in flight become when r ends all sessions. *)
Overtaken(r) == [q \in Requests |->
  IF q = r THEN IdleJob
  ELSE IF req[q].pc \in {"clear", "rotate", "issue"} THEN [req[q] EXCEPT !.late = TRUE]
  ELSE req[q]]

LogoutAll ==
  /\ session' = AllEnded /\ session' # session
  /\ UNCHANGED <<now, user, reset, req, history>>

(* forgotPassword: the open tokens are closed, then a new one is inserted.  *)
Forgot(r) ==
  /\ Start(r, [IdleJob EXCEPT !.pc = "mint"])
  /\ reset' = [k \in ResetTokens |-> IF reset[k] = "open" THEN "closed" ELSE reset[k]]
  /\ UNCHANGED <<now, session, user, history>>

Mint(r, k) ==
  /\ At(r, "mint") /\ reset[k] = "none"
  /\ reset' = [reset EXCEPT ![k] = "open"]
  /\ Finish(r)
  /\ UNCHANGED <<now, session, user, history>>

Holding(k) == {r \in Requests : req[r].key = k}

(* resetPassword: the token is checked here and not again. *)
ResetRead(r, k) ==
  /\ reset[k] = "open"
  /\ Start(r, [IdleJob EXCEPT !.pc = "password", !.key = k])
  /\ disputed' = IF Holding(k) # {} THEN disputed \cup {k} ELSE disputed
  /\ UNCHANGED <<now, session, user, reset, origin, shared, setBy, halted>>

(* adminResetPassword has no token. *)
AdminReset(r) ==
  /\ Start(r, [IdleJob EXCEPT !.pc = "password"])
  /\ UNCHANGED <<now, session, user, reset, history>>

(* Both write the hash and forgive the failures in one statement. *)
SetPassword(r) ==
  LET p == user.password + 1
  IN  /\ At(r, "password") /\ p <= MaxPassword
      /\ user' = [password |-> p, attempts |-> 0, lock |-> "off"]
      /\ setBy' = [setBy EXCEPT ![p] = req[r].key]
      /\ Goto(r, IF req[r].key = None THEN "revoke" ELSE "mark")
      /\ UNCHANGED <<now, session, reset, origin, shared, disputed, halted>>

(* Mutant: the token stays open. *)
MarkNothing(r) ==
  /\ At(r, "mark")
  /\ Goto(r, "revoke")
  /\ UNCHANGED <<now, session, user, reset, history>>

MarkUsed(r) ==
  /\ At(r, "mark")
  /\ reset' = [reset EXCEPT ![req[r].key] = "closed"]
  /\ Goto(r, "revoke")
  /\ UNCHANGED <<now, session, user, history>>

(* Mutant: a reset leaves the sessions alone. *)
RevokeNothing(r) ==
  /\ At(r, "revoke")
  /\ req' = Overtaken(r)
  /\ UNCHANGED <<now, session, user, reset, history>>

RevokeAll(r) ==
  /\ At(r, "revoke")
  /\ session' = AllEnded
  /\ req' = Overtaken(r)
  /\ UNCHANGED <<now, user, reset, history>>

-----------------------------------------------------------------------------
(* Time: a second passes, a lock or a reset token runs out. *)
Tick ==
  /\ now < LastSecond
  /\ now' = now + 1
  /\ UNCHANGED <<session, user, reset, req, history>>

LockRunsOut ==
  /\ user.lock = "on"
  /\ user' = [user EXCEPT !.lock = "over"]
  /\ UNCHANGED <<now, session, reset, req, history>>

ResetExpires(k) ==
  /\ reset[k] = "open"
  /\ reset' = [reset EXCEPT ![k] = "closed"]
  /\ UNCHANGED <<now, session, user, req, history>>

(* The handler dies between two awaits. *)
Fail(r) ==
  /\ MayFail /\ req[r] # IdleJob
  /\ halted' = halted \cup ({req[r].pc} \cap {"lock", "mark", "revoke"})
  /\ Finish(r)
  /\ UNCHANGED <<now, session, user, reset, origin, shared, setBy, disputed>>

LoginStep(r)   == LoginRead(r) \/ LoginClear(r) \/ CountFailure(r) \/ LockWrite(r)
SessionStep(r) == (\E t \in Seconds : RefreshRead(r, t)) \/ Rotate(r) \/ Issue(r)
ResetStep(r)   == \/ Forgot(r) \/ AdminReset(r) \/ SetPassword(r) \/ MarkUsed(r) \/ RevokeAll(r)
                  \/ \E k \in ResetTokens : Mint(r, k) \/ ResetRead(r, k)

Next ==
  \/ \E r \in Requests : LoginStep(r) \/ SessionStep(r) \/ ResetStep(r) \/ Fail(r)
  \/ \E t \in Seconds : End(t)
  \/ \E k \in ResetTokens : ResetExpires(k)
  \/ LogoutAll \/ Tick \/ LockRunsOut

Spec == Init /\ [][Next]_vars

-----------------------------------------------------------------------------
Resetting == {r \in Requests : req[r].pc \in {"mark", "revoke"}}

(* "Revoke all sessions on password reset": a session that rests on an      *)
(* earlier password is still live only while a reset has not come to its    *)
(* last step, or if it died before it, or if the session descends from a    *)
(* login or refresh that a reset overtook.                                  *)
OldPasswordShutOut ==
  \A t \in Seconds :
    session[t] = "live" /\ origin[t].basis # user.password
      => origin[t].late \/ Resetting # {} \/ halted \cap {"mark", "revoke"} # {}

(* A user with MAX_FAILED_ATTEMPTS failures behind it has been locked out   *)
(* for them, or is about to be, unless a handler died on the way: no        *)
(* interleaving of logins and resets keeps the count and loses the lock.    *)
LockFollowsFailures ==
  user.attempts >= MaxAttempts =>
    \/ user.lock # "off"
    \/ \E r \in Requests : At(r, "lock")
    \/ "lock" \in halted

(* Two sessions descend from one refresh token only if two refreshes had    *)
(* read it before either ended its session: refreshing in turn never forks. *)
ForksFromOverlap ==
  \A t, u \in Seconds :
    t # u /\ session[t] # "none" /\ session[u] # "none" /\ origin[t].old = origin[u].old
      => origin[t].old \in shared \cup {None}

(* One reset token sets two passwords only if two resets held it at once or *)
(* one died before it marked the token used.                                *)
ResetOnce ==
  \A p, q \in Passwords :
    p # q /\ setBy[p] = setBy[q] => setBy[p] \in disputed \cup {None} \/ "mark" \in halted

(* The API documentation of POST /auth/refresh: the answer holds a new      *)
(* refresh token.                                                           *)
RefreshGivesNewToken ==
  \A r \in Requests : At(r, "issue") => req[r].token # req[r].old
=============================================================================
