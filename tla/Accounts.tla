------------------------------ MODULE Accounts ------------------------------
(****************************************************************************)
(* One address and the user that may register under it: AuthService.register *)
(* and UserService.create; UserService.update, remove and the two ways to a  *)
(* client profile, UserService.createClientProfile and                      *)
(* PortalProfileService.completeOnboarding.  UserService finds the user     *)
(* through the cache; only completeOnboarding's writes are a transaction.   *)
(****************************************************************************)
EXTENDS Naturals, Handlers

CONSTANT Staff \* stands for an administrator or the sign-up among the writers

UserRow == [names : Requests \cup {Staff}, deleted : BOOLEAN]

ASSUME AccountsOK == Staff \notin Requests /\ None \notin Requests \cup {Staff} \cup UserRow

VARIABLES
  user,    \* the row: who wrote its names last, and whether it is deleted
  profile, \* who wrote the client profile, None if there is none
  cached   \* the user's detail is in the cache

accountVars == <<user, profile, cached>>

Cached == {"update", "remove", "addProfile"}
AccountJob == [op : {"signUp"}, pc : {"write"}]
       \cup [op : Cached, pc : {"query", "set", "write", "del"}]
       \cup [op : {"onboard"}, pc : {"name", "profile", "commit"}]

(* The user's row is locked by one onboarding at a time. *)
Locks(r) == req[r].op = "onboard" /\ req[r].pc \in {"profile", "commit"}

AccountsTypeOK ==
  /\ user \in UserRow \cup {None}
  /\ profile \in Requests \cup {Staff, None}
  /\ cached \in BOOLEAN
  /\ req \in [Requests -> {IdleJob} \cup AccountJob]
  /\ \A r, q \in Requests : Locks(r) /\ Locks(q) => r = q

AccountsInit ==
  /\ user = None /\ profile = None /\ cached = FALSE
  /\ req = [r \in Requests |-> IdleJob]

-----------------------------------------------------------------------------
RowFree == ~\E q \in Requests : Locks(q)

(* The check for the address sees no deleted user, but the unique index of  *)
(* the insert does.                                                         *)
SignUp(r) ==
  /\ user # None => user.deleted
  /\ Start(r, [op |-> "signUp", pc |-> "write"])
  /\ UNCHANGED accountVars

SignUpWrite(r) ==
  /\ Doing(r, "signUp", "write")
  /\ user' = IF user = None THEN [names |-> Staff, deleted |-> FALSE] ELSE user
  /\ Finish(r)
  /\ UNCHANGED <<profile, cached>>

(* findOne: a hit answers from the cache, whatever the row says by now. *)
FindUser(r, op) ==
  /\ user # None
  /\ Start(r, [op |-> op, pc |-> IF cached THEN "write" ELSE "query"])
  /\ UNCHANGED accountVars

QueryUser(r) ==
  /\ req[r].pc = "query"
  /\ IF user.deleted THEN Finish(r) ELSE Goto(r, "set")
  /\ UNCHANGED accountVars

CacheUser(r) ==
  /\ req[r].pc = "set"
  /\ cached' = TRUE
  /\ Goto(r, "write")
  /\ UNCHANGED <<user, profile>>

UpdateUser(r) ==
  /\ Doing(r, "update", "write") /\ RowFree
  /\ user' = [user EXCEPT !.names = Staff]
  /\ Goto(r, "del")
  /\ UNCHANGED <<profile, cached>>

RemoveUser(r) ==
  /\ Doing(r, "remove", "write") /\ RowFree
  /\ user' = [user EXCEPT !.deleted = TRUE]
  /\ Goto(r, "del")
  /\ UNCHANGED <<profile, cached>>

Uncache(r) ==
  /\ req[r].pc = "del"
  /\ cached' = FALSE
  /\ Finish(r)
  /\ UNCHANGED <<user, profile>>

(* createClientProfile: a user has one, and one about to be committed makes *)
(* the insert wait.  The cached detail is left without it.                  *)
AddProfile(r) ==
  /\ Doing(r, "addProfile", "write")
  /\ ~\E q \in Requests : Doing(q, "onboard", "commit")
  /\ profile' = IF profile = None THEN Staff ELSE profile
  /\ Finish(r)
  /\ UNCHANGED <<user, cached>>

(* completeOnboarding: no profile yet, then one transaction. *)
Onboard(r) ==
  /\ user # None /\ profile = None
  /\ Start(r, [op |-> "onboard", pc |-> "name"])
  /\ UNCHANGED accountVars

(* Mutant: the names are written outside the transaction. *)
OnboardNameNow(r) ==
  /\ Doing(r, "onboard", "name") /\ RowFree
  /\ user' = [user EXCEPT !.names = r]
  /\ Goto(r, "profile")
  /\ UNCHANGED <<profile, cached>>

(* The update of the user locks its row. *)
OnboardName(r) ==
  /\ Doing(r, "onboard", "name") /\ RowFree
  /\ Goto(r, "profile")
  /\ UNCHANGED accountVars

(* A profile written meanwhile breaks the unique user id: all rolls back. *)
OnboardProfile(r) ==
  /\ Doing(r, "onboard", "profile")
  /\ IF profile = None THEN Goto(r, "commit") ELSE Finish(r)
  /\ UNCHANGED accountVars

OnboardCommit(r) ==
  /\ Doing(r, "onboard", "commit")
  /\ user' = [user EXCEPT !.names = r]
  /\ profile' = r
  /\ Finish(r)
  /\ UNCHANGED cached

(* A statement fails, a transaction times out, or the process dies. *)
AccountFail(r) ==
  /\ ~Idle(r)
  /\ Finish(r)
  /\ UNCHANGED accountVars

(* The entry's hour is over, or the process restarts. *)
UserExpires ==
  /\ cached /\ cached' = FALSE
  /\ UNCHANGED <<user, profile, req>>

AccountStep(r) ==
  \/ SignUp(r) \/ SignUpWrite(r) \/ \E op \in Cached : FindUser(r, op)
  \/ QueryUser(r) \/ CacheUser(r) \/ UpdateUser(r) \/ RemoveUser(r) \/ Uncache(r)
  \/ AddProfile(r) \/ Onboard(r) \/ OnboardName(r) \/ OnboardProfile(r)
  \/ OnboardCommit(r) \/ AccountFail(r)

AccountsNext == UserExpires \/ \E r \in Requests : AccountStep(r)

AccountsSpec == AccountsInit /\ [][AccountsNext]_<<req, accountVars>>

-----------------------------------------------------------------------------
(* A client is onboarded once and whole: the names an onboarding wrote are  *)
(* those that came with the profile, and a second onboarding, or one beside *)
(* a profile made by the staff, leaves nothing behind.                      *)
OnboardedWhole ==
  /\ user # None /\ user.names # Staff => profile = user.names
  /\ profile \in Requests => user.names \in {profile, Staff}
=============================================================================
