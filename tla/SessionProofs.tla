---------------------------- MODULE SessionProofs ----------------------------
(* The sessions of a user, for any number of requests, tokens and passwords. *)
EXTENDS Sessions, TLAPS

Jobs == {IdleJob} \cup SessionJob \cup OtherJob

(* The fields of a handler. *)
LEMMA JobTyped ==
  ASSUME TypeOK, NEW r \in Requests
  PROVE  /\ req[r] \in Jobs
         /\ req[r].pc \in {"idle", "clear", "rotate", "issue", "count", "lock", "mint",
                           "password", "mark", "revoke"}
         /\ req[r].pc \in {"clear", "rotate", "issue"} => req[r] \in SessionJob
         /\ req[r].pc \in {"count", "lock", "mint", "password", "mark", "revoke"}
              => req[r] \in OtherJob
         /\ req[r].pc = "idle" => req[r] = IdleJob
         /\ req[r].key \in ResetTokens \cup {None}
         /\ req[r].old \in Seconds \cup {None}
<1>0. req[r] \in {IdleJob} \cup SessionJob \cup OtherJob BY DEF TypeOK
<1>1. CASE req[r] = IdleJob BY <1>1 DEF Jobs, IdleJob
<1>2. CASE req[r] \in SessionJob BY <1>2 DEF Jobs, SessionJob
<1>3. CASE req[r] \in OtherJob BY <1>3 DEF Jobs, OtherJob
<1> QED BY <1>0, <1>1, <1>2, <1>3

(* The part of TypeOK that is about the handlers. *)
ReqOK ==
  /\ req \in [Requests -> Jobs]
  /\ \A r \in Requests : /\ req[r].pc = "issue" => req[r].token \in Seconds
                         /\ req[r].pc = "rotate" => req[r].old \in Seconds
                         /\ req[r].pc = "mark" => req[r].key \in ResetTokens

LEMMA SplitType ==
  TypeOK <=>
    /\ ReqOK
    /\ now \in Seconds
    /\ session \in [Seconds -> {"none", "live", "ended"}]
    /\ user \in [password : Passwords, attempts : Nat, lock : {"off", "on", "over"}]
    /\ reset \in [ResetTokens -> {"none", "open", "closed"}]
    /\ origin \in [Seconds -> [basis : Passwords, old : Seconds \cup {None}, late : BOOLEAN]]
    /\ shared \subseteq Seconds
    /\ setBy \in [Passwords -> ResetTokens \cup {None}]
    /\ disputed \subseteq ResetTokens
    /\ halted \subseteq {"lock", "mark", "revoke"}
BY DEF TypeOK, ReqOK, Jobs

(* A step that gives one handler a well-formed job keeps them all so.       *)
LEMMA OneJobMoves ==
  ASSUME ReqOK, NEW r \in Requests, NEW job \in Jobs,
         req' = [req EXCEPT ![r] = job],
         job.pc = "issue" => job.token \in Seconds,
         job.pc = "rotate" => job.old \in Seconds,
         job.pc = "mark" => job.key \in ResetTokens
  PROVE  ReqOK' /\ req'[r] = job /\ \A q \in Requests \ {r} : req'[q] = req[q]
BY DEF ReqOK

LEMMA InitTyped == Init => TypeOK
BY BoundsOK DEF Init, TypeOK, IdleJob, Seconds, Passwords

LEMMA StepTyped == TypeOK /\ [Next]_vars => TypeOK'
<1> SUFFICES ASSUME TypeOK, [Next]_vars PROVE TypeOK'
  OBVIOUS
<1>0. /\ ReqOK
      /\ now \in Seconds
      /\ session \in [Seconds -> {"none", "live", "ended"}]
      /\ user \in [password : Passwords, attempts : Nat, lock : {"off", "on", "over"}]
      /\ reset \in [ResetTokens -> {"none", "open", "closed"}]
      /\ origin \in [Seconds -> [basis : Passwords, old : Seconds \cup {None}, late : BOOLEAN]]
      /\ shared \subseteq Seconds
      /\ setBy \in [Passwords -> ResetTokens \cup {None}]
      /\ disputed \subseteq ResetTokens
      /\ halted \subseteq {"lock", "mark", "revoke"}
  BY SplitType
<1>i. IdleJob \in Jobs /\ IdleJob.pc = "idle" BY DEF IdleJob, Jobs
<1>f. ASSUME NEW r \in Requests, Finish(r) PROVE ReqOK'
  BY <1>0, <1>i, <1>f, OneJobMoves DEF Finish
<1>1. ASSUME NEW r \in Requests, LoginRead(r) PROVE TypeOK'
  <2>1. CASE Start(r, [IdleJob EXCEPT !.pc = "clear", !.basis = user.password])
    <3> DEFINE job == [IdleJob EXCEPT !.pc = "clear", !.basis = user.password]
    <3>1. job \in Jobs /\ job.pc = "clear"
      BY <1>0 DEF Jobs, IdleJob, SessionJob
    <3>2. req' = [req EXCEPT ![r] = job] BY <2>1 DEF Start
    <3> HIDE DEF job
    <3>3. ReqOK' BY <1>0, <3>1, <3>2, OneJobMoves
    <3> QED BY <1>0, <1>1, <3>3, SplitType DEF LoginRead, history, TypeOK, ReqOK, Jobs
  <2>2. CASE Start(r, [IdleJob EXCEPT !.pc = "count"])
    <3> DEFINE job == [IdleJob EXCEPT !.pc = "count"]
    <3>1. job \in Jobs /\ job.pc = "count" BY DEF Jobs, IdleJob, OtherJob
    <3>2. req' = [req EXCEPT ![r] = job] BY <2>2 DEF Start
    <3> HIDE DEF job
    <3>3. ReqOK' BY <1>0, <3>1, <3>2, OneJobMoves
    <3> QED BY <1>0, <1>1, <3>3, SplitType DEF LoginRead, history, TypeOK, ReqOK, Jobs
  <2> QED BY <1>1, <2>1, <2>2 DEF LoginRead
<1>s. ASSUME NEW r \in Requests, req[r].pc \in {"clear", "rotate"}, GotoIssue(r) PROVE ReqOK'
  <2> DEFINE job == [req[r] EXCEPT !.pc = "issue", !.token = now]
  <2>0. req[r] \in SessionJob BY <1>s, JobTyped
  <2>1. job \in SessionJob /\ job.pc = "issue" /\ job.token = now
    BY <1>0, <2>0 DEF SessionJob
  <2>2. req' = [req EXCEPT ![r] = job] BY <1>s DEF GotoIssue
  <2> HIDE DEF job
  <2> QED BY <1>0, <2>1, <2>2, OneJobMoves DEF Jobs
<1>g. ASSUME NEW r \in Requests, NEW pc \in {"lock", "mark", "revoke"},
             req[r].pc \in {"count", "mint", "password", "mark"},
             pc = "mark" => req[r].key # None, Goto(r, pc)
      PROVE  ReqOK'
  <2> DEFINE job == [req[r] EXCEPT !.pc = pc]
  <2>0. req[r] \in OtherJob BY <1>g, JobTyped
  <2>1. job \in OtherJob /\ job.pc = pc /\ job.key = req[r].key
    BY <2>0 DEF OtherJob
  <2>2. req' = [req EXCEPT ![r] = job] BY <1>g DEF Goto
  <2>3. pc = "mark" => job.key \in ResetTokens BY <1>g, <2>1, JobTyped
  <2> HIDE DEF job
  <2> QED BY <1>0, <1>g, <2>1, <2>2, <2>3, OneJobMoves DEF Jobs
<1>2. ASSUME NEW r \in Requests, LoginClear(r) PROVE TypeOK'
  <2>1. ReqOK' BY <1>2, <1>s DEF LoginClear, At
  <2> QED BY <1>0, <1>2, <2>1, SplitType DEF LoginClear, history, TypeOK, ReqOK, Jobs
<1>3. ASSUME NEW r \in Requests, CountFailure(r) PROVE TypeOK'
  <2>1. ReqOK' BY <1>3, <1>f, <1>g DEF CountFailure, At
  <2> QED BY <1>0, <1>3, <2>1 DEF CountFailure, history, TypeOK, ReqOK, Jobs
<1>4. ASSUME NEW r \in Requests, LockWrite(r) PROVE TypeOK'
  <2>1. ReqOK' BY <1>4, <1>f DEF LockWrite
  <2> QED BY <1>0, <1>4, <2>1 DEF LockWrite, history, TypeOK, ReqOK, Jobs
<1>5. ASSUME NEW r \in Requests, NEW t \in Seconds, RefreshRead(r, t) PROVE TypeOK'
  <2> DEFINE job == [IdleJob EXCEPT !.pc = "rotate", !.old = t,
                       !.basis = origin[t].basis, !.late = origin[t].late]
  <2>1. job \in Jobs /\ job.pc = "rotate" /\ job.old = t
    BY <1>0 DEF Jobs, IdleJob, SessionJob
  <2>2. req' = [req EXCEPT ![r] = job] BY <1>5 DEF RefreshRead, Start
  <2> HIDE DEF job
  <2>3. ReqOK' BY <1>0, <2>1, <2>2, OneJobMoves
  <2>4. shared' \subseteq Seconds BY <1>0, <1>5 DEF RefreshRead
  <2> QED BY <1>0, <1>5, <2>3, <2>4 DEF RefreshRead, TypeOK, ReqOK, Jobs
<1>6. ASSUME NEW r \in Requests, Rotate(r) PROVE TypeOK'
  <2>1. ReqOK' BY <1>6, <1>s DEF Rotate, At
  <2>2. session' \in [Seconds -> {"none", "live", "ended"}] BY <1>0, <1>6 DEF Rotate
  <2> QED BY <1>0, <1>6, <2>1, <2>2 DEF Rotate, history, TypeOK, ReqOK, Jobs
<1>7. ASSUME NEW r \in Requests, Issue(r) PROVE TypeOK'
  <2>1. ReqOK' BY <1>7, <1>f DEF Issue
  <2>2. req[r].basis \in Passwords /\ req[r].old \in Seconds \cup {None} /\ req[r].late \in BOOLEAN
    BY <1>7, JobTyped DEF Issue, At, SessionJob
  <2>3. session' \in [Seconds -> {"none", "live", "ended"}] BY <1>0, <1>7 DEF Issue
  <2>4. origin' \in [Seconds -> [basis : Passwords, old : Seconds \cup {None}, late : BOOLEAN]]
    BY <1>0, <1>7, <2>2 DEF Issue
  <2> QED BY <1>0, <1>7, <2>1, <2>3, <2>4 DEF Issue, TypeOK, ReqOK, Jobs
<1>8. ASSUME NEW r \in Requests, Forgot(r) PROVE TypeOK'
  <2> DEFINE job == [IdleJob EXCEPT !.pc = "mint"]
  <2>1. job \in Jobs /\ job.pc = "mint" BY DEF Jobs, IdleJob, OtherJob
  <2>2. req' = [req EXCEPT ![r] = job] BY <1>8 DEF Forgot, Start
  <2> HIDE DEF job
  <2>3. ReqOK' BY <1>0, <2>1, <2>2, OneJobMoves
  <2> QED BY <1>0, <1>8, <2>3 DEF Forgot, history, TypeOK, ReqOK, Jobs
<1>9. ASSUME NEW r \in Requests, NEW k \in ResetTokens, Mint(r, k) PROVE TypeOK'
  <2>1. ReqOK' BY <1>9, <1>f DEF Mint
  <2> QED BY <1>0, <1>9, <2>1 DEF Mint, history, TypeOK, ReqOK, Jobs
<1>10. ASSUME NEW r \in Requests, NEW k \in ResetTokens, ResetRead(r, k) PROVE TypeOK'
  <2> DEFINE job == [IdleJob EXCEPT !.pc = "password", !.key = k]
  <2>1. job \in Jobs /\ job.pc = "password" BY DEF Jobs, IdleJob, OtherJob
  <2>2. req' = [req EXCEPT ![r] = job] BY <1>10 DEF ResetRead, Start
  <2> HIDE DEF job
  <2>3. ReqOK' BY <1>0, <2>1, <2>2, OneJobMoves
  <2>4. disputed' \subseteq ResetTokens BY <1>0, <1>10 DEF ResetRead
  <2> QED BY <1>0, <1>10, <2>3, <2>4 DEF ResetRead, TypeOK, ReqOK, Jobs
<1>11. ASSUME NEW r \in Requests, AdminReset(r) PROVE TypeOK'
  <2> DEFINE job == [IdleJob EXCEPT !.pc = "password"]
  <2>1. job \in Jobs /\ job.pc = "password" BY DEF Jobs, IdleJob, OtherJob
  <2>2. req' = [req EXCEPT ![r] = job] BY <1>11 DEF AdminReset, Start
  <2> HIDE DEF job
  <2>3. ReqOK' BY <1>0, <2>1, <2>2, OneJobMoves
  <2> QED BY <1>0, <1>11, <2>3 DEF AdminReset, history, TypeOK, ReqOK, Jobs
<1>12. ASSUME NEW r \in Requests, SetPassword(r) PROVE TypeOK'
  <2>1. ReqOK' BY <1>12, <1>g DEF SetPassword, At
  <2>2. user.password + 1 \in Passwords BY <1>0, <1>12, BoundsOK DEF SetPassword, Passwords
  <2>3. req[r].key \in ResetTokens \cup {None} BY JobTyped
  <2> QED BY <1>0, <1>12, <2>1, <2>2, <2>3 DEF SetPassword, TypeOK, ReqOK, Jobs
<1>13. ASSUME NEW r \in Requests, MarkUsed(r) PROVE TypeOK'
  <2>1. ReqOK' BY <1>13, <1>g DEF MarkUsed, At
  <2> QED BY <1>0, <1>13, <2>1 DEF MarkUsed, history, TypeOK, ReqOK, Jobs
<1>14. ASSUME NEW r \in Requests, RevokeAll(r) PROVE TypeOK'
  <2>1. ReqOK'
    <3> SUFFICES ASSUME NEW q \in Requests
                 PROVE  /\ req'[q] \in Jobs
                        /\ req'[q].pc = "issue" => req'[q].token \in Seconds
                        /\ req'[q].pc = "rotate" => req'[q].old \in Seconds
                        /\ req'[q].pc = "mark" => req'[q].key \in ResetTokens
      BY <1>14 DEF ReqOK, RevokeAll, Overtaken
    <3>1. CASE q = r BY <1>14, <1>i, <3>1 DEF RevokeAll, Overtaken
    <3>2. CASE q # r /\ req[q].pc \in {"clear", "rotate", "issue"}
      <4>1. req'[q] = [req[q] EXCEPT !.late = TRUE] BY <1>14, <3>2 DEF RevokeAll, Overtaken
      <4>2. req[q] \in SessionJob BY <3>2, JobTyped
      <4> QED BY <1>0, <4>1, <4>2 DEF ReqOK, Jobs, SessionJob
    <3>3. CASE q # r /\ req[q].pc \notin {"clear", "rotate", "issue"}
      BY <1>0, <1>14, <3>3 DEF RevokeAll, Overtaken, ReqOK
    <3> QED BY <3>1, <3>2, <3>3
  <2>2. session' \in [Seconds -> {"none", "live", "ended"}] BY <1>0, <1>14 DEF RevokeAll, AllEnded
  <2> QED BY <1>0, <1>14, <2>1, <2>2 DEF RevokeAll, history, TypeOK, ReqOK, Jobs
<1>15. ASSUME NEW r \in Requests, Fail(r) PROVE TypeOK'
  <2>1. ReqOK' BY <1>15, <1>f DEF Fail
  <2> QED BY <1>0, <1>15, <2>1 DEF Fail, TypeOK, ReqOK, Jobs
<1>16. ASSUME NEW t \in Seconds, End(t) PROVE TypeOK'
  BY <1>0, <1>16 DEF End, history, TypeOK, ReqOK, Jobs
<1>17. ASSUME NEW k \in ResetTokens, ResetExpires(k) PROVE TypeOK'
  BY <1>0, <1>17 DEF ResetExpires, history, TypeOK, ReqOK, Jobs
<1>18. CASE LogoutAll
  BY <1>0, <1>18 DEF LogoutAll, AllEnded, history, TypeOK, ReqOK, Jobs
<1>19. CASE Tick
  <2>1. now' \in Seconds BY <1>0, <1>19, BoundsOK DEF Tick, Seconds
  <2> QED BY <1>0, <1>19, <2>1 DEF Tick, history, TypeOK, ReqOK, Jobs
<1>20. CASE LockRunsOut
  BY <1>0, <1>20 DEF LockRunsOut, history, TypeOK, ReqOK, Jobs
<1>21. CASE UNCHANGED vars
  BY <1>0, <1>21 DEF vars, history, TypeOK, ReqOK, Jobs
<1> QED
  BY <1>1, <1>2, <1>3, <1>4, <1>5, <1>6, <1>7, <1>8, <1>9, <1>10, <1>11, <1>12, <1>13,
     <1>14, <1>15, <1>16, <1>17, <1>18, <1>19, <1>20, <1>21
  DEF Next, LoginStep, SessionStep, ResetStep

(* The variables keep their types. *)
THEOREM TypeCorrect == Spec => []TypeOK
BY InitTyped, StepTyped, PTL DEF Spec

-----------------------------------------------------------------------------
(* How each kind of step moves the handlers.                                *)
LEMMA FinishMoves ==
  ASSUME TypeOK, NEW r \in Requests, Finish(r)
  PROVE  req'[r] = IdleJob /\ \A q \in Requests \ {r} : req'[q] = req[q]
BY DEF TypeOK, Finish

LEMMA GotoMoves ==
  ASSUME TypeOK, NEW r \in Requests, NEW pc, Goto(r, pc)
  PROVE  /\ req'[r].pc = pc /\ req'[r].key = req[r].key /\ req'[r].old = req[r].old
         /\ \A q \in Requests \ {r} : req'[q] = req[q]
<1>1. req[r] \in Jobs BY JobTyped
<1>2. req'[r] = [req[r] EXCEPT !.pc = pc] /\ \A q \in Requests \ {r} : req'[q] = req[q]
  BY DEF TypeOK, Goto
<1> QED BY <1>1, <1>2 DEF Jobs, IdleJob, SessionJob, OtherJob

LEMMA GotoIssueMoves ==
  ASSUME TypeOK, NEW r \in Requests, GotoIssue(r)
  PROVE  /\ req'[r].pc = "issue" /\ req'[r].basis = req[r].basis /\ req'[r].late = req[r].late
         /\ req'[r].key = req[r].key /\ req'[r].old = req[r].old
         /\ \A q \in Requests \ {r} : req'[q] = req[q]
<1>1. req[r] \in Jobs BY JobTyped
<1>2. /\ req'[r] = [req[r] EXCEPT !.pc = "issue", !.token = now]
      /\ \A q \in Requests \ {r} : req'[q] = req[q]
  BY DEF TypeOK, GotoIssue
<1> QED BY <1>1, <1>2 DEF Jobs, IdleJob, SessionJob, OtherJob

(* Being overtaken changes nothing but the mark of it. *)
LEMMA OvertakenMoves ==
  ASSUME TypeOK, NEW r \in Requests, req' = Overtaken(r)
  PROVE  /\ req'[r] = IdleJob
         /\ \A q \in Requests \ {r} :
              /\ req'[q].pc = req[q].pc /\ req'[q].key = req[q].key
              /\ req'[q].old = req[q].old /\ req'[q].basis = req[q].basis
              /\ req[q].pc \in {"clear", "rotate", "issue"} => req'[q].late
<1>1. req'[r] = IdleJob BY DEF Overtaken
<1>2. ASSUME NEW q \in Requests \ {r}
      PROVE  /\ req'[q].pc = req[q].pc /\ req'[q].key = req[q].key
             /\ req'[q].old = req[q].old /\ req'[q].basis = req[q].basis
             /\ req[q].pc \in {"clear", "rotate", "issue"} => req'[q].late
  <2>1. CASE req[q].pc \in {"clear", "rotate", "issue"}
    <3>1. req'[q] = [req[q] EXCEPT !.late = TRUE] BY <2>1 DEF Overtaken
    <3>2. req[q] \in SessionJob BY <2>1, JobTyped
    <3> QED BY <3>1, <3>2 DEF SessionJob
  <2>2. CASE req[q].pc \notin {"clear", "rotate", "issue"}
    BY <2>2 DEF Overtaken
  <2> QED BY <2>1, <2>2
<1> QED BY <1>1, <1>2

-----------------------------------------------------------------------------
(* Passwords and sessions.                                                  *)
Making(r) == req[r].pc \in {"clear", "rotate", "issue"}

(* A reset has set a password and not ended the sessions. *)
Unfinished == Resetting # {} \/ halted \cap {"mark", "revoke"} # {}

(* OldPasswordShutOut of the sessions that are about to be.                 *)
MakersKnowPassword ==
  \A r \in Requests :
    Making(r) /\ req[r].basis # user.password => req[r].late \/ Unfinished

LEMMA UnfinishedStays ==
  ASSUME NEW r \in Requests, \A q \in Requests \ {r} : req'[q].pc = req[q].pc,
         \/ req[r].pc \notin {"mark", "revoke"}
         \/ req'[r].pc \in {"mark", "revoke"}
         \/ req[r].pc \in halted',
         halted \subseteq halted', Unfinished
  PROVE  Unfinished'
BY DEF Unfinished, Resetting

(* A step that starts no session, adds none and sets no password.           *)
LEMMA NothingMade ==
  ASSUME OldPasswordShutOut, MakersKnowPassword,
         user'.password = user.password, Unfinished => Unfinished',
         \A t \in Seconds : session'[t] = "live" => session[t] = "live" /\ origin'[t] = origin[t],
         \A q \in Requests : Making(q)' => /\ Making(q) /\ req'[q].basis = req[q].basis
                                           /\ req[q].late => req'[q].late
  PROVE  OldPasswordShutOut' /\ MakersKnowPassword'
<1>1. OldPasswordShutOut' BY DEF OldPasswordShutOut, Unfinished
<1>2. MakersKnowPassword' BY DEF MakersKnowPassword
<1> QED BY <1>1, <1>2

LEMMA PasswordStep ==
  ASSUME TypeOK, OldPasswordShutOut, MakersKnowPassword, [Next]_vars
  PROVE  OldPasswordShutOut' /\ MakersKnowPassword'
<1>i. IdleJob.pc = "idle" BY DEF IdleJob
<1>1. ASSUME NEW r \in Requests, LoginRead(r) PROVE OldPasswordShutOut' /\ MakersKnowPassword'
  <2>2. /\ req[r] = IdleJob /\ \A q \in Requests \ {r} : req'[q] = req[q]
        /\ \/ req'[r].pc = "count"
           \/ req'[r].pc = "clear" /\ req'[r].basis = user.password
    <3>1. CASE Start(r, [IdleJob EXCEPT !.pc = "clear", !.basis = user.password])
      BY <3>1 DEF Start, IdleJob, TypeOK
    <3>2. CASE Start(r, [IdleJob EXCEPT !.pc = "count"])
      BY <3>2 DEF Start, IdleJob, TypeOK
    <3> QED BY <1>1, <3>1, <3>2 DEF LoginRead
  <2>3. UNCHANGED <<session, user, origin, halted>> BY <1>1 DEF LoginRead, history
  <2>4. Unfinished => Unfinished' BY <1>i, <2>2, <2>3, UnfinishedStays
  <2>5. OldPasswordShutOut' BY <2>3, <2>4 DEF OldPasswordShutOut, Unfinished
  <2>6. MakersKnowPassword' BY <2>2, <2>3, <2>4 DEF MakersKnowPassword, Making
  <2> QED BY <2>5, <2>6
<1>2. ASSUME NEW r \in Requests, LoginClear(r) PROVE OldPasswordShutOut' /\ MakersKnowPassword'
  <2>1. /\ req'[r].pc = "issue" /\ req'[r].basis = req[r].basis /\ req'[r].late = req[r].late
        /\ \A q \in Requests \ {r} : req'[q] = req[q]
    BY <1>2, GotoIssueMoves DEF LoginClear
  <2>2. UNCHANGED <<session, origin, halted>> /\ user'.password = user.password /\ req[r].pc = "clear"
    BY <1>2 DEF LoginClear, history, At, TypeOK
  <2>3. Unfinished => Unfinished' BY <2>1, <2>2, UnfinishedStays
  <2> QED BY <2>1, <2>2, <2>3, NothingMade DEF Making
<1>3. ASSUME NEW r \in Requests, CountFailure(r) PROVE OldPasswordShutOut' /\ MakersKnowPassword'
  <2>1. req'[r].pc \in {"lock", "idle"} /\ \A q \in Requests \ {r} : req'[q] = req[q]
    BY <1>3, <1>i, GotoMoves, FinishMoves DEF CountFailure
  <2>2. UNCHANGED <<session, origin, halted>> /\ user'.password = user.password /\ req[r].pc = "count"
    BY <1>3 DEF CountFailure, history, At, TypeOK
  <2>3. Unfinished => Unfinished' BY <2>1, <2>2, UnfinishedStays
  <2> QED BY <2>1, <2>2, <2>3, NothingMade DEF Making
<1>4. ASSUME NEW r \in Requests, LockWrite(r) PROVE OldPasswordShutOut' /\ MakersKnowPassword'
  <2>1. req'[r].pc = "idle" /\ \A q \in Requests \ {r} : req'[q] = req[q]
    BY <1>4, <1>i, FinishMoves DEF LockWrite
  <2>2. UNCHANGED <<session, origin, halted>> /\ user'.password = user.password /\ req[r].pc = "lock"
    BY <1>4 DEF LockWrite, history, At, TypeOK
  <2>3. Unfinished => Unfinished' BY <2>1, <2>2, UnfinishedStays
  <2> QED BY <2>1, <2>2, <2>3, NothingMade DEF Making
<1>5. ASSUME NEW r \in Requests, NEW t \in Seconds, RefreshRead(r, t)
      PROVE  OldPasswordShutOut' /\ MakersKnowPassword'
  <2>2. /\ req[r] = IdleJob /\ \A q \in Requests \ {r} : req'[q] = req[q]
        /\ req'[r].pc = "rotate"
        /\ req'[r].basis = origin[t].basis /\ req'[r].late = origin[t].late
    BY <1>5 DEF RefreshRead, Start, IdleJob, TypeOK
  <2>3. UNCHANGED <<session, user, origin, halted>> /\ session[t] = "live"
    BY <1>5 DEF RefreshRead
  <2>4. Unfinished => Unfinished' BY <1>i, <2>2, <2>3, UnfinishedStays
  <2>5. OldPasswordShutOut' BY <2>3, <2>4 DEF OldPasswordShutOut, Unfinished
  <2>6. origin[t].basis # user.password => origin[t].late \/ Unfinished
    BY <2>3 DEF OldPasswordShutOut, Unfinished
  <2>7. MakersKnowPassword' BY <2>2, <2>3, <2>4, <2>6 DEF MakersKnowPassword, Making
  <2> QED BY <2>5, <2>7
<1>6. ASSUME NEW r \in Requests, Rotate(r) PROVE OldPasswordShutOut' /\ MakersKnowPassword'
  <2>1. /\ req'[r].pc = "issue" /\ req'[r].basis = req[r].basis /\ req'[r].late = req[r].late
        /\ \A q \in Requests \ {r} : req'[q] = req[q]
    BY <1>6, GotoIssueMoves DEF Rotate
  <2>2. /\ UNCHANGED <<user, origin, halted>> /\ req[r].pc = "rotate"
        /\ \A t \in Seconds : session'[t] = "live" => session[t] = "live"
    BY <1>6 DEF Rotate, history, At, TypeOK
  <2>3. Unfinished => Unfinished' BY <2>1, <2>2, UnfinishedStays
  <2> QED BY <2>1, <2>2, <2>3, NothingMade DEF Making
<1>7. ASSUME NEW r \in Requests, Issue(r) PROVE OldPasswordShutOut' /\ MakersKnowPassword'
  <2>1. req'[r].pc = "idle" /\ \A q \in Requests \ {r} : req'[q] = req[q]
    BY <1>7, <1>i, FinishMoves DEF Issue
  <2>2. UNCHANGED <<user, halted>> /\ req[r].pc = "issue" BY <1>7 DEF Issue, At
  <2>3. Unfinished => Unfinished' BY <2>1, <2>2, UnfinishedStays
  <2>4. MakersKnowPassword' BY <2>1, <2>2, <2>3 DEF MakersKnowPassword, Making
  <2>5. ASSUME NEW t \in Seconds, session'[t] = "live", origin'[t].basis # user'.password
        PROVE  origin'[t].late \/ Unfinished'
    <3>1. CASE t = req[r].token /\ session[t] = "none"
      <4>1. origin'[t].basis = req[r].basis /\ origin'[t].late = req[r].late
        BY <1>7, <3>1 DEF Issue, TypeOK
      <4> QED BY <2>2, <2>3, <2>5, <4>1 DEF MakersKnowPassword, Making
    <3>2. CASE ~(t = req[r].token /\ session[t] = "none")
      <4>1. session[t] = "live" /\ origin'[t] = origin[t] BY <1>7, <2>5, <3>2 DEF Issue, TypeOK
      <4> QED BY <2>2, <2>3, <2>5, <4>1 DEF OldPasswordShutOut, Unfinished
    <3> QED BY <3>1, <3>2
  <2>6. OldPasswordShutOut' BY <2>5 DEF OldPasswordShutOut, Unfinished
  <2> QED BY <2>4, <2>6
<1>8. ASSUME NEW r \in Requests,
             \/ Forgot(r) \/ AdminReset(r)
             \/ \E k \in ResetTokens : Mint(r, k) \/ ResetRead(r, k)
      PROVE  OldPasswordShutOut' /\ MakersKnowPassword'
  <2>1. CASE \E k \in ResetTokens : Mint(r, k)
    <3>1. req'[r].pc = "idle" /\ req[r].pc = "mint" /\ \A q \in Requests \ {r} : req'[q] = req[q]
      BY <1>i, <2>1, FinishMoves DEF Mint, At
    <3>2. UNCHANGED <<session, user, origin, halted>> BY <2>1 DEF Mint, history
    <3>3. Unfinished => Unfinished' BY <3>1, <3>2, UnfinishedStays
    <3> QED BY <3>1, <3>2, <3>3, NothingMade DEF Making
  <2>2. CASE Forgot(r) \/ AdminReset(r) \/ \E k \in ResetTokens : ResetRead(r, k)
    <3>2. /\ req[r] = IdleJob /\ \A q \in Requests \ {r} : req'[q] = req[q]
          /\ req'[r].pc \in {"mint", "password"}
      <4>1. CASE Forgot(r) BY <4>1 DEF Forgot, Start, IdleJob, TypeOK
      <4>2. CASE AdminReset(r) BY <4>2 DEF AdminReset, Start, IdleJob, TypeOK
      <4>3. CASE \E k \in ResetTokens : ResetRead(r, k)
        BY <4>3 DEF ResetRead, Start, IdleJob, TypeOK
      <4> QED BY <2>2, <4>1, <4>2, <4>3
    <3>3. UNCHANGED <<session, user, origin, halted>>
      BY <2>2 DEF Forgot, AdminReset, ResetRead, history
    <3>4. Unfinished => Unfinished' BY <1>i, <3>2, <3>3, UnfinishedStays
    <3> QED BY <3>2, <3>3, <3>4, NothingMade DEF Making
  <2> QED BY <1>8, <2>1, <2>2
<1>9. ASSUME NEW r \in Requests, SetPassword(r) PROVE OldPasswordShutOut' /\ MakersKnowPassword'
  <2>1. req'[r].pc \in {"mark", "revoke"} BY <1>9, GotoMoves DEF SetPassword
  <2>2. Unfinished' BY <2>1 DEF Unfinished, Resetting
  <2> QED BY <2>2 DEF OldPasswordShutOut, MakersKnowPassword, Unfinished
<1>10. ASSUME NEW r \in Requests, MarkUsed(r) PROVE OldPasswordShutOut' /\ MakersKnowPassword'
  <2>1. req'[r].pc = "revoke" BY <1>10, GotoMoves DEF MarkUsed
  <2>2. Unfinished' BY <2>1 DEF Unfinished, Resetting
  <2> QED BY <2>2 DEF OldPasswordShutOut, MakersKnowPassword, Unfinished
<1>11. ASSUME NEW r \in Requests, RevokeAll(r) PROVE OldPasswordShutOut' /\ MakersKnowPassword'
  <2>1. \A t \in Seconds : session'[t] # "live" BY <1>11 DEF RevokeAll, AllEnded
  <2>2. \A q \in Requests : Making(q)' => req'[q].late
    BY <1>11, <1>i, OvertakenMoves DEF RevokeAll, Making
  <2> QED BY <2>1, <2>2 DEF OldPasswordShutOut, MakersKnowPassword
<1>12. ASSUME NEW r \in Requests, Fail(r) PROVE OldPasswordShutOut' /\ MakersKnowPassword'
  <2>1. req'[r].pc = "idle" /\ \A q \in Requests \ {r} : req'[q] = req[q]
    BY <1>12, <1>i, FinishMoves DEF Fail
  <2>2. /\ UNCHANGED <<session, user, origin>> /\ halted \subseteq halted'
        /\ req[r].pc \in {"mark", "revoke"} => req[r].pc \in halted'
    BY <1>12 DEF Fail
  <2>3. Unfinished => Unfinished' BY <2>1, <2>2, UnfinishedStays
  <2> QED BY <2>1, <2>2, <2>3, NothingMade DEF Making
<1>13. CASE \/ \E t \in Seconds : End(t)
            \/ \E k \in ResetTokens : ResetExpires(k)
            \/ LogoutAll \/ Tick \/ LockRunsOut \/ UNCHANGED vars
  <2>1. /\ UNCHANGED <<req, origin, halted>> /\ user'.password = user.password
        /\ \A t \in Seconds : session'[t] = "live" => session[t] = "live"
    BY <1>13 DEF End, ResetExpires, LogoutAll, AllEnded, Tick, LockRunsOut, vars, history, TypeOK
  <2>2. Unfinished => Unfinished' BY <2>1 DEF Unfinished, Resetting
  <2> QED BY <2>1, <2>2, NothingMade DEF Making
<1> QED
  BY <1>1, <1>2, <1>3, <1>4, <1>5, <1>6, <1>7, <1>8, <1>9, <1>10, <1>11, <1>12, <1>13
  DEF Next, LoginStep, SessionStep, ResetStep

(* A reset shuts out what rests on an earlier password, except what it      *)
(* overtook or did not come to.                                             *)
THEOREM ResetShutsOut == Spec => []OldPasswordShutOut
<1> DEFINE IInv == TypeOK /\ OldPasswordShutOut /\ MakersKnowPassword
<1>1. Init => IInv
  <2>1. Init => OldPasswordShutOut /\ MakersKnowPassword
    BY DEF Init, OldPasswordShutOut, MakersKnowPassword, Making, IdleJob
  <2> QED BY <2>1, InitTyped
<1>2. IInv /\ [Next]_vars => IInv' BY StepTyped, PasswordStep
<1>3. IInv => OldPasswordShutOut OBVIOUS
<1> QED BY <1>1, <1>2, <1>3, PTL DEF Spec

-----------------------------------------------------------------------------
(* Failures and the lock.                                                   *)
LEMMA LockStays ==
  ASSUME NEW r \in Requests, \A q \in Requests \ {r} : req'[q].pc = req[q].pc,
         \/ req[r].pc # "lock" \/ req'[r].pc = "lock" \/ "lock" \in halted',
         halted \subseteq halted', user' = user, LockFollowsFailures
  PROVE  LockFollowsFailures'
<1>1. CASE \E q \in Requests : At(q, "lock")
  <2>1. PICK q \in Requests : At(q, "lock") BY <1>1
  <2>2. At(q, "lock")' \/ "lock" \in halted' BY <2>1 DEF At
  <2> QED BY <2>2 DEF LockFollowsFailures
<1>2. CASE ~\E q \in Requests : At(q, "lock")
  BY <1>2 DEF LockFollowsFailures
<1> QED BY <1>1, <1>2

LEMMA LockStep == TypeOK /\ LockFollowsFailures /\ [Next]_vars => LockFollowsFailures'
<1> SUFFICES ASSUME TypeOK, LockFollowsFailures, [Next]_vars PROVE LockFollowsFailures'
  OBVIOUS
<1>i. IdleJob.pc = "idle" BY DEF IdleJob
<1>1. ASSUME NEW r \in Requests, LoginClear(r) \/ SetPassword(r) PROVE LockFollowsFailures'
  <2>0. user \in [password : Passwords, attempts : Nat, lock : {"off", "on", "over"}]
    BY DEF TypeOK
  <2>1. user'.attempts = 0
    <3>1. CASE LoginClear(r) BY <2>0, <3>1 DEF LoginClear
    <3>2. CASE SetPassword(r) BY <3>2 DEF SetPassword
    <3> QED BY <1>1, <3>1, <3>2
  <2> QED BY <2>1, BoundsOK DEF LockFollowsFailures
<1>2. ASSUME NEW r \in Requests, CountFailure(r) PROVE LockFollowsFailures'
  <2>1. /\ user'.attempts = user.attempts + 1 /\ user'.lock = user.lock
        /\ halted' = halted /\ req[r].pc = "count" /\ user.attempts \in Nat
    BY <1>2 DEF CountFailure, At, history, TypeOK
  <2>2. CASE user.attempts + 1 >= MaxAttempts
    <3>1. req'[r].pc = "lock" BY <1>2, <2>2, GotoMoves DEF CountFailure
    <3> QED BY <3>1 DEF LockFollowsFailures, At
  <2>3. CASE ~(user.attempts + 1 >= MaxAttempts)
    BY <2>1, <2>3 DEF LockFollowsFailures
  <2> QED BY <2>2, <2>3
<1>3. ASSUME NEW r \in Requests, LockWrite(r) PROVE LockFollowsFailures'
  <2>1. user'.lock = "on" BY <1>3 DEF LockWrite, TypeOK
  <2> QED BY <2>1 DEF LockFollowsFailures
<1>4. CASE LockRunsOut
  <2>1. user'.lock = "over" BY <1>4 DEF LockRunsOut, TypeOK
  <2> QED BY <2>1 DEF LockFollowsFailures
<1>5. ASSUME NEW r \in Requests,
             \/ LoginRead(r) \/ Forgot(r) \/ AdminReset(r)
             \/ \E t \in Seconds : RefreshRead(r, t)
             \/ \E k \in ResetTokens : ResetRead(r, k)
      PROVE  LockFollowsFailures'
  <2>1. req[r] = IdleJob /\ \A q \in Requests \ {r} : req'[q] = req[q]
    BY <1>5 DEF LoginRead, Forgot, AdminReset, RefreshRead, ResetRead, Start, TypeOK
  <2>2. UNCHANGED <<user, halted>>
    BY <1>5 DEF LoginRead, Forgot, AdminReset, RefreshRead, ResetRead, history
  <2> QED BY <1>i, <2>1, <2>2, LockStays
<1>6. ASSUME NEW r \in Requests, Rotate(r) PROVE LockFollowsFailures'
  <2>1. req[r].pc = "rotate" /\ \A q \in Requests \ {r} : req'[q] = req[q]
    BY <1>6, GotoIssueMoves DEF Rotate, At
  <2>2. UNCHANGED <<user, halted>> BY <1>6 DEF Rotate, history
  <2> QED BY <2>1, <2>2, LockStays
<1>7. ASSUME NEW r \in Requests, Issue(r) \/ \E k \in ResetTokens : Mint(r, k)
      PROVE  LockFollowsFailures'
  <2>1. req[r].pc \in {"issue", "mint"} /\ \A q \in Requests \ {r} : req'[q] = req[q]
    BY <1>7, FinishMoves DEF Issue, Mint, At
  <2>2. UNCHANGED <<user, halted>> BY <1>7 DEF Issue, Mint, history
  <2> QED BY <2>1, <2>2, LockStays
<1>8. ASSUME NEW r \in Requests, MarkUsed(r) PROVE LockFollowsFailures'
  <2>1. req[r].pc = "mark" /\ \A q \in Requests \ {r} : req'[q] = req[q]
    BY <1>8, GotoMoves DEF MarkUsed, At
  <2>2. UNCHANGED <<user, halted>> BY <1>8 DEF MarkUsed, history
  <2> QED BY <2>1, <2>2, LockStays
<1>9. ASSUME NEW r \in Requests, RevokeAll(r) PROVE LockFollowsFailures'
  <2>1. req[r].pc = "revoke" /\ \A q \in Requests \ {r} : req'[q].pc = req[q].pc
    BY <1>9, OvertakenMoves DEF RevokeAll, At
  <2>2. UNCHANGED <<user, halted>> BY <1>9 DEF RevokeAll, history
  <2> QED BY <2>1, <2>2, LockStays
<1>10. ASSUME NEW r \in Requests, Fail(r) PROVE LockFollowsFailures'
  <2>1. \A q \in Requests \ {r} : req'[q] = req[q] BY <1>10, FinishMoves DEF Fail
  <2>2. /\ user' = user /\ halted \subseteq halted'
        /\ req[r].pc = "lock" => "lock" \in halted'
    BY <1>10 DEF Fail
  <2> QED BY <2>1, <2>2, LockStays
<1>11. CASE \/ \E t \in Seconds : End(t)
            \/ \E k \in ResetTokens : ResetExpires(k)
            \/ LogoutAll \/ Tick \/ UNCHANGED vars
  <2>1. UNCHANGED <<req, user, halted>>
    BY <1>11 DEF End, ResetExpires, LogoutAll, Tick, vars, history
  <2> QED BY <2>1 DEF LockFollowsFailures, At
<1> QED
  BY <1>1, <1>2, <1>3, <1>4, <1>5, <1>6, <1>7, <1>8, <1>9, <1>10, <1>11
  DEF Next, LoginStep, SessionStep, ResetStep

(* Enough failures lock the account, whatever overlaps them.                *)
THEOREM FailuresLock == Spec => []LockFollowsFailures
<1>1. Init => LockFollowsFailures BY BoundsOK DEF Init, LockFollowsFailures
<1> QED BY <1>1, InitTyped, StepTyped, LockStep, PTL DEF Spec

-----------------------------------------------------------------------------
(* Refreshes.                                                               *)
Exchanging(r) == req[r].pc \in {"rotate", "issue"} /\ req[r].old # None

HeirOf(u, t) == session[u] # "none" /\ origin[u].old = t

(* A token is exchanged once, but for refreshes that held it together: it   *)
(* is ended before its heir is inserted, and an ended token starts no       *)
(* refresh.                                                                 *)
EndedBeforeHeir ==
  /\ \A r \in Requests : req[r].pc = "clear" => req[r].old = None
  /\ \A r \in Requests : Exchanging(r) => session[req[r].old] # "none"
  /\ \A r \in Requests :
       req[r].pc = "issue" /\ req[r].old # None => session[req[r].old] = "ended"
  /\ \A u \in Seconds : session[u] # "none" /\ origin[u].old # None
                          => session[origin[u].old] = "ended"

HeldByOne ==
  /\ \A r, q \in Requests : r # q /\ Exchanging(r) /\ Exchanging(q) /\ req[r].old = req[q].old
       => req[r].old \in shared
  /\ \A r \in Requests, u \in Seconds : Exchanging(r) /\ HeirOf(u, req[r].old)
       => req[r].old \in shared

ForkInv == EndedBeforeHeir /\ HeldByOne /\ ForksFromOverlap

(* A step that begins no exchange and adds no session.                      *)
LEMMA NothingExchanged ==
  ASSUME TypeOK, ForkInv, origin' = origin, shared' = shared,
         \A t \in Seconds : /\ session[t] = "ended" => session'[t] = "ended"
                            /\ session'[t] # "none" <=> session[t] # "none",
         \A q \in Requests : req'[q].pc = "clear" => req'[q].old = None,
         \A q \in Requests : Exchanging(q)' => Exchanging(q) /\ req'[q].old = req[q].old,
         \A q \in Requests : req'[q].pc = "issue" /\ req'[q].old # None
           => session'[req'[q].old] = "ended"
  PROVE  ForkInv'
<1>1. EndedBeforeHeir'
  <2>1. ASSUME NEW u \in Seconds, session'[u] # "none", origin'[u].old # None
        PROVE  session'[origin'[u].old] = "ended"
    <3>1. session[origin[u].old] = "ended" BY <2>1 DEF ForkInv, EndedBeforeHeir
    <3>2. origin[u].old \in Seconds BY <2>1 DEF TypeOK
    <3> QED BY <3>1, <3>2
  <2>2. ASSUME NEW q \in Requests, Exchanging(q)' PROVE session'[req'[q].old] # "none"
    <3>1. Exchanging(q) /\ req'[q].old = req[q].old BY <2>2
    <3>2. session[req[q].old] # "none" BY <3>1 DEF ForkInv, EndedBeforeHeir
    <3>3. req[q].old \in Seconds BY <3>1, JobTyped DEF Exchanging
    <3> QED BY <3>1, <3>2, <3>3
  <2> QED BY <2>1, <2>2 DEF EndedBeforeHeir
<1>2. HeldByOne' BY DEF ForkInv, HeldByOne, HeirOf
<1>3. ForksFromOverlap' BY DEF ForkInv, ForksFromOverlap
<1> QED BY <1>1, <1>2, <1>3 DEF ForkInv

(* A handler that refreshes nothing before or after its step.               *)
LEMMA NoRefreshMoves ==
  ASSUME TypeOK, ForkInv, NEW r \in Requests, UNCHANGED <<origin, shared, session>>,
         \A q \in Requests \ {r} : req'[q] = req[q],
         ~Exchanging(r)', req'[r].pc = "clear" => req'[r].old = None
  PROVE  ForkInv'
<1>1. \A q \in Requests : req'[q].pc = "issue" /\ req'[q].old # None
        => req[q].pc = "issue" /\ req[q].old # None /\ req'[q].old = req[q].old
  BY DEF Exchanging
<1>2. \A q \in Requests : req'[q].pc = "clear" => req'[q].old = None
  BY DEF ForkInv, EndedBeforeHeir
<1>3. \A q \in Requests : Exchanging(q)' => Exchanging(q) /\ req'[q].old = req[q].old
  BY DEF Exchanging
<1>4. \A q \in Requests : req'[q].pc = "issue" /\ req'[q].old # None
        => session'[req'[q].old] = "ended"
  BY <1>1 DEF ForkInv, EndedBeforeHeir
<1> QED BY <1>2, <1>3, <1>4, NothingExchanged

LEMMA ForkStep == TypeOK /\ ForkInv /\ [Next]_vars => ForkInv'
<1> SUFFICES ASSUME TypeOK, ForkInv, [Next]_vars PROVE ForkInv'
  OBVIOUS
<1>i. IdleJob.pc = "idle" /\ IdleJob.old = None BY DEF IdleJob
<1>n. \A t \in Seconds : t # None BY NoneOK, BoundsOK DEF Seconds
<1>1. ASSUME NEW r \in Requests, LoginRead(r) \/ Forgot(r) \/ AdminReset(r) PROVE ForkInv'
  <2>1. \A q \in Requests \ {r} : req'[q] = req[q]
    BY <1>1 DEF LoginRead, Forgot, AdminReset, Start, TypeOK
  <2>2. req'[r].old = None
    <3>1. CASE LoginRead(r)
      <4>1. CASE Start(r, [IdleJob EXCEPT !.pc = "clear", !.basis = user.password])
        BY <4>1 DEF Start, IdleJob, TypeOK
      <4>2. CASE Start(r, [IdleJob EXCEPT !.pc = "count"])
        BY <4>2 DEF Start, IdleJob, TypeOK
      <4> QED BY <3>1, <4>1, <4>2 DEF LoginRead
    <3>2. CASE Forgot(r) BY <3>2 DEF Forgot, Start, IdleJob, TypeOK
    <3>3. CASE AdminReset(r) BY <3>3 DEF AdminReset, Start, IdleJob, TypeOK
    <3> QED BY <1>1, <3>1, <3>2, <3>3
  <2>3. UNCHANGED <<origin, shared, session>>
    BY <1>1 DEF LoginRead, Forgot, AdminReset, history
  <2> QED BY <2>1, <2>2, <2>3, NoRefreshMoves DEF Exchanging
<1>2. ASSUME NEW r \in Requests, NEW k \in ResetTokens, ResetRead(r, k) PROVE ForkInv'
  <2>1. req'[r].old = None /\ \A q \in Requests \ {r} : req'[q] = req[q]
    BY <1>2 DEF ResetRead, Start, IdleJob, TypeOK
  <2>2. UNCHANGED <<origin, shared, session>> BY <1>2 DEF ResetRead
  <2> QED BY <2>1, <2>2, NoRefreshMoves DEF Exchanging
<1>3. ASSUME NEW r \in Requests, LoginClear(r) PROVE ForkInv'
  <2>1. req[r].old = None BY <1>3 DEF LoginClear, At, ForkInv, EndedBeforeHeir
  <2>2. req'[r].pc = "issue" /\ req'[r].old = None /\ \A q \in Requests \ {r} : req'[q] = req[q]
    BY <1>3, <2>1, GotoIssueMoves DEF LoginClear
  <2>3. UNCHANGED <<origin, shared, session>> BY <1>3 DEF LoginClear, history
  <2> QED BY <2>2, <2>3, NoRefreshMoves DEF Exchanging
<1>4. ASSUME NEW r \in Requests, NEW pc \in {"lock", "mark", "revoke"}, Goto(r, pc),
             UNCHANGED <<origin, shared, session>>
      PROVE  ForkInv'
  BY <1>4, GotoMoves, NoRefreshMoves DEF Exchanging
<1>5. ASSUME NEW r \in Requests, Finish(r), UNCHANGED <<origin, shared, session>> PROVE ForkInv'
  BY <1>i, <1>5, FinishMoves, NoRefreshMoves DEF Exchanging
<1>6. ASSUME NEW r \in Requests,
             CountFailure(r) \/ LockWrite(r) \/ SetPassword(r) \/ MarkUsed(r) \/ Fail(r)
      PROVE  ForkInv'
  BY <1>4, <1>5, <1>6 DEF CountFailure, LockWrite, SetPassword, MarkUsed, Fail, history
<1>7. ASSUME NEW r \in Requests, NEW k \in ResetTokens, Mint(r, k) PROVE ForkInv'
  BY <1>5, <1>7 DEF Mint, history
<1>8. ASSUME NEW r \in Requests, NEW t \in Seconds, RefreshRead(r, t) PROVE ForkInv'
  <2>1. /\ req'[r].pc = "rotate" /\ req'[r].old = t
        /\ \A q \in Requests \ {r} : req'[q] = req[q]
    BY <1>8 DEF RefreshRead, Start, IdleJob, TypeOK
  <2>2. /\ UNCHANGED <<session, origin>> /\ session[t] = "live" /\ shared \subseteq shared'
        /\ (\E q \in Requests : At(q, "rotate") /\ req[q].old = t) => t \in shared'
    BY <1>8 DEF RefreshRead
  <2>3. EndedBeforeHeir' BY <2>1, <2>2 DEF ForkInv, EndedBeforeHeir, Exchanging
  <2>4. ASSUME NEW q \in Requests \ {r}, Exchanging(q), req[q].old = t PROVE t \in shared'
    <3>1. req[q].pc # "issue" BY <2>2, <2>4, <1>n DEF ForkInv, EndedBeforeHeir
    <3> QED BY <2>2, <2>4, <3>1 DEF Exchanging, At
  <2>5. \A u \in Seconds : ~HeirOf(u, t)
    BY <1>n, <2>2 DEF ForkInv, EndedBeforeHeir, HeirOf
  <2>6. HeldByOne'
    <3>1. ASSUME NEW p \in Requests, NEW q \in Requests, p # q, Exchanging(p)', Exchanging(q)',
                 req'[p].old = req'[q].old
          PROVE  req'[p].old \in shared'
      <4>1. CASE p = r BY <2>1, <2>4, <3>1, <4>1 DEF Exchanging
      <4>2. CASE q = r BY <2>1, <2>4, <3>1, <4>2 DEF Exchanging
      <4>3. CASE p # r /\ q # r
        BY <2>1, <2>2, <3>1, <4>3 DEF ForkInv, HeldByOne, Exchanging
      <4> QED BY <4>1, <4>2, <4>3
    <3>2. ASSUME NEW q \in Requests, NEW u \in Seconds, Exchanging(q)', HeirOf(u, req[q].old)'
          PROVE  req'[q].old \in shared'
      <4>1. HeirOf(u, req'[q].old) BY <2>2, <3>2 DEF HeirOf
      <4>2. q # r BY <2>1, <2>5, <4>1
      <4> QED BY <2>1, <2>2, <3>2, <4>1, <4>2 DEF ForkInv, HeldByOne, Exchanging
    <3> QED BY <3>1, <3>2 DEF HeldByOne
  <2>7. ForksFromOverlap' BY <2>2 DEF ForkInv, ForksFromOverlap
  <2> QED BY <2>3, <2>6, <2>7 DEF ForkInv
<1>9. ASSUME NEW r \in Requests, Rotate(r) PROVE ForkInv'
  <2>1. /\ req'[r].pc = "issue" /\ req'[r].old = req[r].old /\ req[r].pc = "rotate"
        /\ req[r].old \in Seconds
        /\ \A q \in Requests \ {r} : req'[q] = req[q]
    BY <1>9, GotoIssueMoves DEF Rotate, At, TypeOK
  <2>2. /\ UNCHANGED <<origin, shared>>
        /\ session' = [session EXCEPT ![req[r].old] = "ended"]
        /\ session \in [Seconds -> {"none", "live", "ended"}]
    BY <1>9 DEF Rotate, history, TypeOK
  <2>3. req[r].old # None BY <1>n, <2>1
  <2>4. PICK o \in Seconds : o = req[r].old BY <2>1
  <2>5. \A t \in Seconds : session[t] = "ended" => session'[t] = "ended"
    BY <2>2
  <2>6. session'[o] = "ended" BY <2>2, <2>4
  <2>7. session[o] # "none" BY <2>1, <2>3, <2>4 DEF ForkInv, EndedBeforeHeir, Exchanging
  <2>8. ForkInv'
    <3>1. \A t \in Seconds : session'[t] # "none" <=> session[t] # "none"
      BY <2>2, <2>4, <2>7
    <3>2. \A q \in Requests : req'[q].pc = "clear" => req'[q].old = None
      BY <2>1 DEF ForkInv, EndedBeforeHeir
    <3>3. \A q \in Requests : Exchanging(q)' => Exchanging(q) /\ req'[q].old = req[q].old
      BY <2>1 DEF Exchanging
    <3>4. ASSUME NEW q \in Requests, req'[q].pc = "issue", req'[q].old # None
          PROVE  session'[req'[q].old] = "ended"
      <4>1. CASE q = r BY <2>1, <2>4, <2>6, <4>1
      <4>2. CASE q # r
        <5>1. session[req[q].old] = "ended" /\ req'[q] = req[q]
          BY <2>1, <3>4, <4>2 DEF ForkInv, EndedBeforeHeir
        <5>2. req[q].old \in Seconds BY <2>1, <3>4, <4>2, JobTyped
        <5> QED BY <2>5, <5>1, <5>2
      <4> QED BY <4>1, <4>2
    <3> QED BY <2>2, <2>5, <3>1, <3>2, <3>3, <3>4, NothingExchanged
  <2> QED BY <2>8
<1>10. ASSUME NEW r \in Requests, Issue(r) PROVE ForkInv'
  <2>1. req'[r] = IdleJob /\ \A q \in Requests \ {r} : req'[q] = req[q] /\ req[r].pc = "issue"
    BY <1>10, FinishMoves DEF Issue, At
  <2>2. CASE session' = session /\ origin' = origin
    BY <1>10, <2>2, <1>5 DEF Issue
  <2>3. CASE session[req[r].token] = "none" /\ ~(session' = session /\ origin' = origin)
    <3> DEFINE t == req[r].token
               o == req[r].old
    <3>1. t \in Seconds /\ o \in Seconds \cup {None} /\ req[r].pc = "issue"
      BY <1>10, JobTyped DEF Issue, At, TypeOK
    <3>2. /\ session'[t] = "live" /\ origin'[t].old = o
          /\ \A u \in Seconds \ {t} : session'[u] = session[u] /\ origin'[u] = origin[u]
          /\ shared' = shared
      BY <1>10, <2>3, <3>1 DEF Issue, TypeOK
    <3>3. \A u \in Seconds : session[u] = "ended" => session'[u] = "ended"
      BY <2>3, <3>2
    <3>4. o # None => session[o] = "ended" BY <3>1 DEF ForkInv, EndedBeforeHeir
    <3>5. \A q \in Requests : /\ Exchanging(q)' => q # r /\ Exchanging(q) /\ req'[q] = req[q]
                              /\ req'[q].pc \in {"clear", "issue"} => q # r /\ req'[q] = req[q]
      BY <1>i, <2>1 DEF Exchanging
    <3>6. EndedBeforeHeir'
      <4>1. ASSUME NEW q \in Requests, req'[q].pc = "issue", req'[q].old # None
            PROVE  session'[req'[q].old] = "ended"
        <5>1. req'[q] = req[q] BY <3>5, <4>1
        <5>2. session[req[q].old] = "ended" BY <4>1, <5>1 DEF ForkInv, EndedBeforeHeir
        <5>3. req[q].old \in Seconds BY <4>1, <5>1, JobTyped
        <5> QED BY <3>3, <5>1, <5>2, <5>3
      <4>2. ASSUME NEW u \in Seconds, session'[u] # "none", origin'[u].old # None
            PROVE  session'[origin'[u].old] = "ended"
        <5>1. CASE u = t BY <3>1, <3>2, <3>3, <3>4, <4>2, <5>1
        <5>2. CASE u # t
          <6>1. session[origin[u].old] = "ended" /\ origin'[u] = origin[u]
            BY <3>2, <4>2, <5>2 DEF ForkInv, EndedBeforeHeir
          <6>2. origin[u].old \in Seconds BY <4>2, <6>1 DEF TypeOK
          <6> QED BY <3>3, <6>1, <6>2
        <5> QED BY <5>1, <5>2
      <4>3. \A q \in Requests : req'[q].pc = "clear" => req'[q].old = None
        BY <3>5 DEF ForkInv, EndedBeforeHeir
      <4>4. ASSUME NEW q \in Requests, Exchanging(q)' PROVE session'[req'[q].old] # "none"
        <5>1. Exchanging(q) /\ req'[q] = req[q] BY <3>5, <4>4
        <5>2. session[req[q].old] # "none" BY <5>1 DEF ForkInv, EndedBeforeHeir
        <5>3. req[q].old \in Seconds BY <5>1, JobTyped DEF Exchanging
        <5> QED BY <3>1, <3>2, <5>1, <5>2, <5>3
      <4> HIDE DEF t, o
      <4> QED BY <4>1, <4>2, <4>3, <4>4 DEF EndedBeforeHeir
    <3>7. HeldByOne'
      <4>1. ASSUME NEW p \in Requests, NEW q \in Requests, p # q, Exchanging(p)', Exchanging(q)',
                   req'[p].old = req'[q].old
            PROVE  req'[p].old \in shared'
        BY <3>2, <3>5, <4>1 DEF ForkInv, HeldByOne
      <4>2. ASSUME NEW q \in Requests, NEW u \in Seconds, Exchanging(q)', HeirOf(u, req[q].old)'
            PROVE  req'[q].old \in shared'
        <5>1. q # r /\ Exchanging(q) /\ req'[q] = req[q] BY <3>5, <4>2
        <5>2. CASE u = t
          <6>1. req[q].old = o BY <3>2, <4>2, <5>1, <5>2 DEF HeirOf
          <6>2. Exchanging(r) BY <3>1, <5>1, <6>1 DEF Exchanging
          <6> QED BY <3>2, <5>1, <6>1, <6>2 DEF ForkInv, HeldByOne
        <5>3. CASE u # t
          <6>1. HeirOf(u, req[q].old) BY <3>2, <4>2, <5>1, <5>3 DEF HeirOf
          <6> QED BY <3>2, <5>1, <6>1 DEF ForkInv, HeldByOne
        <5> QED BY <5>2, <5>3
      <4> HIDE DEF t, o
      <4> QED BY <4>1, <4>2 DEF HeldByOne
    <3>8. ForksFromOverlap'
      <4>1. ASSUME NEW u \in Seconds \ {t}, session[u] # "none", origin[u].old = o
            PROVE  o \in shared \cup {None}
        <5>1. CASE o = None BY <5>1
        <5>2. CASE o # None
          <6>1. Exchanging(r) /\ HeirOf(u, o) BY <3>1, <4>1, <5>2 DEF Exchanging, HeirOf
          <6> QED BY <6>1 DEF ForkInv, HeldByOne
        <5> QED BY <5>1, <5>2
      <4>2. ASSUME NEW u \in Seconds, NEW v \in Seconds, u # v, session'[u] # "none",
                   session'[v] # "none", origin'[u].old = origin'[v].old
            PROVE  origin'[u].old \in shared' \cup {None}
        <5>1. CASE u = t BY <3>2, <4>1, <4>2, <5>1
        <5>2. CASE v = t BY <3>2, <4>1, <4>2, <5>2
        <5>3. CASE u # t /\ v # t
          BY <3>2, <4>2, <5>3 DEF ForkInv, ForksFromOverlap
        <5> QED BY <5>1, <5>2, <5>3
      <4> HIDE DEF t, o
      <4> QED BY <4>2 DEF ForksFromOverlap
    <3> QED BY <3>6, <3>7, <3>8 DEF ForkInv
  <2> QED BY <1>10, <2>2, <2>3 DEF Issue
<1>11. ASSUME NEW r \in Requests, RevokeAll(r) PROVE ForkInv'
  <2>1. /\ req'[r] = IdleJob
        /\ \A q \in Requests \ {r} : req'[q].pc = req[q].pc /\ req'[q].old = req[q].old
    BY <1>11, OvertakenMoves DEF RevokeAll
  <2>2. /\ UNCHANGED <<origin, shared>>
        /\ \A t \in Seconds : /\ session[t] = "ended" => session'[t] = "ended"
                              /\ session'[t] # "none" <=> session[t] # "none"
    BY <1>11 DEF RevokeAll, AllEnded, history
  <2>3. \A q \in Requests : /\ Exchanging(q)' => Exchanging(q) /\ req'[q].old = req[q].old
                            /\ req'[q].pc = "clear" => req'[q].old = None
    BY <1>i, <2>1 DEF Exchanging, ForkInv, EndedBeforeHeir
  <2>4. ASSUME NEW q \in Requests, req'[q].pc = "issue", req'[q].old # None
        PROVE  session'[req'[q].old] = "ended"
    <3>1. q # r /\ req[q].pc = "issue" /\ req'[q].old = req[q].old BY <1>i, <2>1, <2>4
    <3>2. session[req[q].old] = "ended" BY <2>4, <3>1 DEF ForkInv, EndedBeforeHeir
    <3>3. req[q].old \in Seconds BY <2>4, <3>1, JobTyped
    <3> QED BY <2>2, <3>1, <3>2, <3>3
  <2> QED BY <2>2, <2>3, <2>4, NothingExchanged
<1>12. CASE \/ \E t \in Seconds : End(t)
            \/ \E k \in ResetTokens : ResetExpires(k)
            \/ LogoutAll \/ Tick \/ LockRunsOut \/ UNCHANGED vars
  <2>1. /\ UNCHANGED <<req, origin, shared>>
        /\ \A t \in Seconds : /\ session[t] = "ended" => session'[t] = "ended"
                              /\ session'[t] # "none" <=> session[t] # "none"
    BY <1>12 DEF End, ResetExpires, LogoutAll, AllEnded, Tick, LockRunsOut, vars, history, TypeOK
  <2>2. ASSUME NEW q \in Requests, req'[q].pc = "issue", req'[q].old # None
        PROVE  session'[req'[q].old] = "ended"
    <3>1. session[req[q].old] = "ended" BY <2>1, <2>2 DEF ForkInv, EndedBeforeHeir
    <3>2. req[q].old \in Seconds BY <2>1, <2>2, JobTyped
    <3> QED BY <2>1, <3>1, <3>2
  <2>3. \A q \in Requests : /\ Exchanging(q)' => Exchanging(q) /\ req'[q].old = req[q].old
                            /\ req'[q].pc = "clear" => req'[q].old = None
    BY <2>1 DEF Exchanging, ForkInv, EndedBeforeHeir
  <2> QED BY <2>1, <2>2, <2>3, NothingExchanged
<1> QED
  BY <1>1, <1>2, <1>3, <1>6, <1>7, <1>8, <1>9, <1>10, <1>11, <1>12
  DEF Next, LoginStep, SessionStep, ResetStep

(* One refresh token has two heirs only by refreshes that held it at once.  *)
THEOREM OnlyOverlapForks == Spec => []ForksFromOverlap
<1>1. Init => ForkInv
  <2>0. IdleJob.pc = "idle" BY DEF IdleJob
  <2>1. Init => \A r \in Requests : req[r].pc = "idle" BY <2>0 DEF Init
  <2>2. Init => \A t \in Seconds : session[t] = "none" BY DEF Init
  <2> QED BY <2>1, <2>2
      DEF ForkInv, EndedBeforeHeir, HeldByOne, ForksFromOverlap, Exchanging, HeirOf
<1>2. TypeOK /\ ForkInv /\ [Next]_vars => (TypeOK /\ ForkInv)' BY StepTyped, ForkStep
<1>3. ForkInv => ForksFromOverlap BY DEF ForkInv
<1> QED BY <1>1, <1>2, <1>3, InitTyped, PTL DEF Spec

-----------------------------------------------------------------------------
(* Reset tokens.                                                            *)
Spent(k) == \E p \in Passwords : setBy[p] = k

HeldOrSpent ==
  /\ \A k \in ResetTokens : reset[k] = "none" => Holding(k) = {} /\ ~Spent(k)
  /\ \A k \in ResetTokens : reset[k] = "open" /\ Spent(k)
       => "mark" \in halted \/ \E r \in Holding(k) : At(r, "mark")
  /\ \A r, q \in Requests : r # q /\ req[r].key = req[q].key /\ req[r].key # None
       => req[r].key \in disputed
  /\ \A r \in Requests : At(r, "password") /\ req[r].key # None /\ Spent(req[r].key)
       => req[r].key \in disputed \/ "mark" \in halted

ResetInv == HeldOrSpent /\ ResetOnce

(* A step that opens no token, begins no reset and sets no password.        *)
LEMMA NothingReset ==
  ASSUME ResetInv, setBy' = setBy, disputed' = disputed, halted \subseteq halted',
         \A k \in ResetTokens : /\ reset'[k] = "none" => reset[k] = "none"
                                /\ reset'[k] = "open" => reset[k] = "open",
         \A q \in Requests : /\ req'[q].key # None => req'[q].key = req[q].key
                             /\ At(q, "password")' /\ req'[q].key # None => At(q, "password"),
         \A q \in Requests : At(q, "mark") =>
           \/ At(q, "mark")' /\ req'[q].key = req[q].key
           \/ "mark" \in halted'
           \/ reset'[req[q].key] # "open"
  PROVE  ResetInv'
<1>1. ASSUME NEW k \in ResetTokens, reset'[k] = "none" PROVE Holding(k)' = {} /\ ~Spent(k)'
  <2>1. Holding(k) = {} /\ ~Spent(k) BY <1>1 DEF ResetInv, HeldOrSpent
  <2>2. k # None BY NoneOK
  <2> QED BY <2>1, <2>2 DEF Holding, Spent
<1>2. ASSUME NEW k \in ResetTokens, reset'[k] = "open", Spent(k)'
      PROVE  "mark" \in halted' \/ \E r \in Holding(k)' : At(r, "mark")'
  <2>1. "mark" \in halted \/ \E r \in Holding(k) : At(r, "mark")
    BY <1>2 DEF ResetInv, HeldOrSpent, Spent
  <2>2. CASE "mark" \in halted BY <2>2
  <2>3. ASSUME NEW r \in Holding(k), At(r, "mark")
        PROVE  "mark" \in halted' \/ (r \in Holding(k)' /\ At(r, "mark")')
    BY <1>2, <2>3 DEF Holding
  <2> QED BY <2>1, <2>2, <2>3
<1>3. \A r, q \in Requests : r # q /\ req'[r].key = req'[q].key /\ req'[r].key # None
        => req'[r].key \in disputed'
  BY DEF ResetInv, HeldOrSpent
<1>4. \A r \in Requests : At(r, "password")' /\ req'[r].key # None /\ Spent(req[r].key)'
        => req'[r].key \in disputed' \/ "mark" \in halted'
  BY DEF ResetInv, HeldOrSpent, Spent
<1>5. ResetOnce' BY DEF ResetInv, ResetOnce
<1> QED BY <1>1, <1>2, <1>3, <1>4, <1>5 DEF ResetInv, HeldOrSpent

(* A step of one handler that opens no token and begins no reset.           *)
LEMMA OtherMoves ==
  ASSUME ResetInv, NEW r \in Requests, UNCHANGED <<setBy, disputed>>, halted \subseteq halted',
         \A k \in ResetTokens : /\ reset'[k] = "none" => reset[k] = "none"
                                /\ reset'[k] = "open" => reset[k] = "open",
         \A q \in Requests \ {r} : req'[q] = req[q],
         req'[r].key \in {None, req[r].key},
         req'[r].pc = "password" => req'[r].key = None,
         req[r].pc # "mark" \/ "mark" \in halted' \/ reset'[req[r].key] # "open"
  PROVE  ResetInv'
<1>1. \A q \in Requests : /\ req'[q].key # None => req'[q].key = req[q].key
                          /\ At(q, "password")' /\ req'[q].key # None => At(q, "password")
  BY DEF At
<1>2. \A q \in Requests : At(q, "mark") =>
        \/ At(q, "mark")' /\ req'[q].key = req[q].key
        \/ "mark" \in halted'
        \/ reset'[req[q].key] # "open"
  BY DEF At
<1> QED BY <1>1, <1>2, NothingReset

LEMMA ResetStepInv == TypeOK /\ ResetInv /\ [Next]_vars => ResetInv'
<1> SUFFICES ASSUME TypeOK, ResetInv, [Next]_vars PROVE ResetInv'
  OBVIOUS
<1>i. IdleJob.pc = "idle" /\ IdleJob.key = None BY DEF IdleJob
<1>n. \A k \in ResetTokens : k # None BY NoneOK
<1>f. ASSUME NEW r \in Requests, Finish(r), UNCHANGED <<setBy, disputed>>, halted \subseteq halted',
             \A k \in ResetTokens : /\ reset'[k] = "none" => reset[k] = "none"
                                    /\ reset'[k] = "open" => reset[k] = "open",
             req[r].pc # "mark" \/ "mark" \in halted'
      PROVE  ResetInv'
  BY <1>i, <1>f, FinishMoves, OtherMoves
<1>1. ASSUME NEW r \in Requests,
             LoginRead(r) \/ (\E t \in Seconds : RefreshRead(r, t)) \/ Forgot(r) \/ AdminReset(r)
      PROVE  ResetInv'
  <2>1. req[r] = IdleJob /\ \A q \in Requests \ {r} : req'[q] = req[q]
    BY <1>1 DEF LoginRead, RefreshRead, Forgot, AdminReset, Start, TypeOK
  <2>2. req'[r].key = None
    <3>1. CASE LoginRead(r)
      <4>1. CASE Start(r, [IdleJob EXCEPT !.pc = "clear", !.basis = user.password])
        BY <4>1 DEF Start, IdleJob, TypeOK
      <4>2. CASE Start(r, [IdleJob EXCEPT !.pc = "count"])
        BY <4>2 DEF Start, IdleJob, TypeOK
      <4> QED BY <3>1, <4>1, <4>2 DEF LoginRead
    <3>2. CASE \E t \in Seconds : RefreshRead(r, t)
      BY <3>2 DEF RefreshRead, Start, IdleJob, TypeOK
    <3>3. CASE Forgot(r) BY <3>3 DEF Forgot, Start, IdleJob, TypeOK
    <3>4. CASE AdminReset(r) BY <3>4 DEF AdminReset, Start, IdleJob, TypeOK
    <3> QED BY <1>1, <3>1, <3>2, <3>3, <3>4
  <2>3. /\ UNCHANGED <<setBy, disputed, halted>>
        /\ \A k \in ResetTokens : /\ reset'[k] = "none" => reset[k] = "none"
                                  /\ reset'[k] = "open" => reset[k] = "open"
    BY <1>1 DEF LoginRead, RefreshRead, Forgot, AdminReset, history
  <2> QED BY <1>i, <2>1, <2>2, <2>3, OtherMoves
<1>2. ASSUME NEW r \in Requests, LoginClear(r) \/ Rotate(r) PROVE ResetInv'
  <2>1. /\ req'[r].pc = "issue" /\ req'[r].key = req[r].key /\ req[r].pc # "mark"
        /\ \A q \in Requests \ {r} : req'[q] = req[q]
    BY <1>2, GotoIssueMoves DEF LoginClear, Rotate, At
  <2>2. UNCHANGED <<setBy, disputed, halted, reset>> BY <1>2 DEF LoginClear, Rotate, history
  <2> QED BY <2>1, <2>2, OtherMoves
<1>3. ASSUME NEW r \in Requests, CountFailure(r) PROVE ResetInv'
  <2>1. UNCHANGED <<setBy, disputed, halted, reset>> /\ req[r].pc = "count"
    BY <1>3 DEF CountFailure, history, At
  <2>2. CASE Finish(r) BY <1>f, <2>1, <2>2
  <2>3. CASE Goto(r, "lock")
    BY <2>1, <2>3, GotoMoves, OtherMoves
  <2> QED BY <1>3, <2>2, <2>3 DEF CountFailure
<1>4. ASSUME NEW r \in Requests, LockWrite(r) \/ Issue(r) PROVE ResetInv'
  BY <1>f, <1>4 DEF LockWrite, Issue, history, At
<1>5. ASSUME NEW r \in Requests, Fail(r) PROVE ResetInv'
  <2>1. req[r].pc = "mark" => "mark" \in halted' BY <1>5 DEF Fail
  <2> QED BY <1>f, <1>5, <2>1 DEF Fail
<1>6. ASSUME NEW r \in Requests, NEW k \in ResetTokens, Mint(r, k) PROVE ResetInv'
  <2>1. /\ req'[r].pc = "idle" /\ req'[r].key = None /\ req[r].pc = "mint"
        /\ \A q \in Requests \ {r} : req'[q] = req[q]
    BY <1>i, <1>6, FinishMoves DEF Mint, At
  <2>2. /\ UNCHANGED <<setBy, disputed, halted>> /\ reset[k] = "none" /\ reset'[k] = "open"
        /\ \A j \in ResetTokens \ {k} : reset'[j] = reset[j]
    BY <1>6 DEF Mint, history, TypeOK
  <2>3. Holding(k) = {} /\ ~Spent(k) BY <2>2 DEF ResetInv, HeldOrSpent
  <2>4. ASSUME NEW j \in ResetTokens, reset'[j] = "none" PROVE Holding(j)' = {} /\ ~Spent(j)'
    <3>1. j # k /\ Holding(j) = {} /\ ~Spent(j) BY <2>2, <2>4 DEF ResetInv, HeldOrSpent
    <3> QED BY <1>n, <2>1, <2>2, <3>1 DEF Holding, Spent
  <2>5. ASSUME NEW j \in ResetTokens, reset'[j] = "open", Spent(j)'
        PROVE  "mark" \in halted' \/ \E q \in Holding(j)' : At(q, "mark")'
    <3>1. j # k /\ reset[j] = "open" /\ Spent(j) BY <2>2, <2>3, <2>5 DEF Spent
    <3>2. "mark" \in halted \/ \E q \in Holding(j) : At(q, "mark")
      BY <3>1 DEF ResetInv, HeldOrSpent
    <3>3. ASSUME NEW q \in Holding(j), At(q, "mark") PROVE q \in Holding(j)' /\ At(q, "mark")'
      BY <2>1, <3>3 DEF Holding, At
    <3> QED BY <2>2, <3>2, <3>3
  <2>6. \A p, q \in Requests : p # q /\ req'[p].key = req'[q].key /\ req'[p].key # None
          => req'[p].key \in disputed'
    BY <2>1, <2>2 DEF ResetInv, HeldOrSpent
  <2>7. \A q \in Requests : At(q, "password")' /\ req'[q].key # None /\ Spent(req[q].key)'
          => req'[q].key \in disputed' \/ "mark" \in halted'
    BY <2>1, <2>2 DEF ResetInv, HeldOrSpent, Spent, At
  <2>8. ResetOnce' BY <2>2 DEF ResetInv, ResetOnce
  <2> QED BY <2>4, <2>5, <2>6, <2>7, <2>8 DEF ResetInv, HeldOrSpent
<1>7. ASSUME NEW r \in Requests, NEW k \in ResetTokens, ResetRead(r, k) PROVE ResetInv'
  <2>1. /\ req[r] = IdleJob /\ req'[r].pc = "password" /\ req'[r].key = k
        /\ \A q \in Requests \ {r} : req'[q] = req[q]
    BY <1>7 DEF ResetRead, Start, IdleJob, TypeOK
  <2>2. /\ UNCHANGED <<setBy, halted, reset>> /\ reset[k] = "open" /\ disputed \subseteq disputed'
        /\ Holding(k) # {} => k \in disputed'
    BY <1>7 DEF ResetRead
  <2>3. ASSUME NEW j \in ResetTokens, reset'[j] = "none" PROVE Holding(j)' = {} /\ ~Spent(j)'
    <3>1. j # k /\ Holding(j) = {} /\ ~Spent(j) BY <2>2, <2>3 DEF ResetInv, HeldOrSpent
    <3> QED BY <2>1, <2>2, <3>1 DEF Holding, Spent
  <2>4. ASSUME NEW j \in ResetTokens, reset'[j] = "open", Spent(j)'
        PROVE  "mark" \in halted' \/ \E q \in Holding(j)' : At(q, "mark")'
    <3>1. "mark" \in halted \/ \E q \in Holding(j) : At(q, "mark")
      BY <2>2, <2>4 DEF ResetInv, HeldOrSpent, Spent
    <3>2. ASSUME NEW q \in Holding(j), At(q, "mark") PROVE q \in Holding(j)' /\ At(q, "mark")'
      BY <1>i, <2>1, <3>2 DEF Holding, At
    <3> QED BY <2>2, <3>1, <3>2
  <2>5. ASSUME NEW p \in Requests, NEW q \in Requests, p # q,
               req'[p].key = req'[q].key, req'[p].key # None
        PROVE  req'[p].key \in disputed'
    <3>1. CASE p = r BY <2>1, <2>2, <2>5, <3>1 DEF Holding
    <3>2. CASE q = r BY <2>1, <2>2, <2>5, <3>2 DEF Holding
    <3>3. CASE p # r /\ q # r BY <2>1, <2>2, <2>5, <3>3 DEF ResetInv, HeldOrSpent
    <3> QED BY <3>1, <3>2, <3>3
  <2>6. ASSUME NEW q \in Requests, At(q, "password")', req'[q].key # None, Spent(req[q].key)'
        PROVE  req'[q].key \in disputed' \/ "mark" \in halted'
    <3>1. CASE q = r
      <4>1. Spent(k) BY <2>1, <2>2, <2>6, <3>1 DEF Spent
      <4>2. "mark" \in halted \/ Holding(k) # {} BY <2>2, <4>1 DEF ResetInv, HeldOrSpent
      <4> QED BY <2>1, <2>2, <3>1, <4>2
    <3>2. CASE q # r
      <4>1. At(q, "password") /\ req'[q].key = req[q].key /\ Spent(req[q].key)
        BY <2>1, <2>2, <2>6, <3>2 DEF At, Spent
      <4> QED BY <2>2, <2>6, <4>1 DEF ResetInv, HeldOrSpent
    <3> QED BY <3>1, <3>2
  <2>7. ResetOnce' BY <2>2 DEF ResetInv, ResetOnce
  <2> QED BY <2>3, <2>4, <2>5, <2>6, <2>7 DEF ResetInv, HeldOrSpent
<1>8. ASSUME NEW r \in Requests, SetPassword(r) PROVE ResetInv'
  <2> DEFINE n == user.password + 1
             key == req[r].key
  <2>1. /\ req[r].pc = "password" /\ req'[r].pc \in {"mark", "revoke"} /\ req'[r].key = key
        /\ key # None => req'[r].pc = "mark"
        /\ \A q \in Requests \ {r} : req'[q] = req[q]
    BY <1>8, GotoMoves DEF SetPassword, At
  <2>2. /\ UNCHANGED <<disputed, halted, reset>>
        /\ \A p \in Passwords : setBy'[p] = setBy[p] \/ setBy'[p] = key
    BY <1>8 DEF SetPassword, TypeOK
  <2>3. key # None => key \in ResetTokens BY JobTyped
  <2> HIDE DEF n, key
  <2>4. \A k \in ResetTokens : Spent(k)' => Spent(k) \/ k = key BY <2>2 DEF Spent
  <2>5. \A k \in ResetTokens : Holding(k)' = Holding(k)
    BY <2>1 DEF Holding, key
  <2>6. key # None => r \in Holding(key) BY DEF Holding, key
  <2>7. ASSUME NEW k \in ResetTokens, reset'[k] = "none" PROVE Holding(k)' = {} /\ ~Spent(k)'
    <3>1. Holding(k) = {} /\ ~Spent(k) BY <2>2, <2>7 DEF ResetInv, HeldOrSpent
    <3>2. k # key BY <1>n, <2>6, <3>1
    <3> QED BY <2>4, <2>5, <3>1, <3>2
  <2>8. ASSUME NEW k \in ResetTokens, reset'[k] = "open", Spent(k)'
        PROVE  "mark" \in halted' \/ \E q \in Holding(k)' : At(q, "mark")'
    <3>1. CASE k = key
      <4>1. r \in Holding(k)' /\ At(r, "mark")' BY <1>n, <2>1, <2>5, <2>6, <3>1 DEF At
      <4> QED BY <4>1
    <3>2. CASE k # key
      <4>1. "mark" \in halted \/ \E q \in Holding(k) : At(q, "mark")
        BY <2>2, <2>4, <2>8, <3>2 DEF ResetInv, HeldOrSpent
      <4>2. ASSUME NEW q \in Holding(k), At(q, "mark") PROVE q \in Holding(k)' /\ At(q, "mark")'
        BY <2>1, <2>5, <4>2 DEF Holding, At
      <4> QED BY <2>2, <4>1, <4>2
    <3> QED BY <3>1, <3>2
  <2>9. ASSUME NEW p \in Requests, NEW q \in Requests, p # q,
               req'[p].key = req'[q].key, req'[p].key # None
        PROVE  req'[p].key \in disputed'
    <3>1. req'[p].key = req[p].key /\ req'[q].key = req[q].key BY <2>1 DEF key
    <3> QED BY <2>2, <2>9, <3>1 DEF ResetInv, HeldOrSpent
  <2>10. ASSUME NEW q \in Requests, At(q, "password")', req'[q].key # None, Spent(req[q].key)'
         PROVE  req'[q].key \in disputed' \/ "mark" \in halted'
    <3>1. q # r /\ req'[q] = req[q] /\ At(q, "password") BY <2>1, <2>10 DEF At
    <3>2. req[q].key \in ResetTokens BY <2>10, <3>1, JobTyped
    <3>3. CASE req[q].key = key
      BY <2>2, <2>10, <3>1, <3>3 DEF ResetInv, HeldOrSpent, key
    <3>4. CASE req[q].key # key
      BY <2>2, <2>4, <2>10, <3>1, <3>2, <3>4 DEF ResetInv, HeldOrSpent
    <3> QED BY <3>3, <3>4
  <2>11. ASSUME NEW p \in Passwords, NEW q \in Passwords, p # q, setBy'[p] = setBy'[q]
         PROVE  setBy'[p] \in disputed' \cup {None} \/ "mark" \in halted'
    <3>1. setBy' = [setBy EXCEPT ![n] = key] BY <1>8 DEF SetPassword, n, key
    <3>2. \A j \in Passwords : j # n => setBy'[j] = setBy[j] BY <3>1 DEF TypeOK
    <3>3. \A j \in Passwords : setBy[j] = key /\ key # None => key \in disputed \/ "mark" \in halted
      BY <2>1 DEF ResetInv, HeldOrSpent, Spent, At, key
    <3>4. CASE p = n \/ q = n
      <4>1. setBy'[p] = key
        BY <2>11, <3>1, <3>4 DEF TypeOK
      <4>2. \E j \in Passwords : setBy[j] = key BY <2>11, <3>2, <3>4, <4>1
      <4> QED BY <2>2, <3>3, <4>1, <4>2
    <3>5. CASE p # n /\ q # n
      BY <2>2, <2>11, <3>2, <3>5 DEF ResetInv, ResetOnce
    <3> QED BY <3>4, <3>5
  <2>12. ResetOnce' BY <2>11 DEF ResetOnce
  <2> QED BY <2>7, <2>8, <2>9, <2>10, <2>12 DEF ResetInv, HeldOrSpent
<1>9. ASSUME NEW r \in Requests, MarkUsed(r) PROVE ResetInv'
  <2>1. /\ req'[r].pc = "revoke" /\ req'[r].key = req[r].key /\ req[r].pc = "mark"
        /\ req[r].key \in ResetTokens
        /\ \A q \in Requests \ {r} : req'[q] = req[q]
    BY <1>9, GotoMoves DEF MarkUsed, At, TypeOK
  <2>2. /\ UNCHANGED <<setBy, disputed, halted>> /\ reset'[req[r].key] = "closed"
        /\ \A k \in ResetTokens : reset'[k] = reset[k] \/ reset'[k] = "closed"
    BY <1>9, <2>1 DEF MarkUsed, history, TypeOK
  <2> QED BY <2>1, <2>2, OtherMoves
<1>10. ASSUME NEW r \in Requests, RevokeAll(r) PROVE ResetInv'
  <2>1. /\ req'[r] = IdleJob /\ req[r].pc = "revoke"
        /\ \A q \in Requests \ {r} : req'[q].pc = req[q].pc /\ req'[q].key = req[q].key
    BY <1>10, OvertakenMoves DEF RevokeAll, At
  <2>2. UNCHANGED <<setBy, disputed, halted, reset>> BY <1>10 DEF RevokeAll, history
  <2>3. \A q \in Requests : /\ req'[q].key # None => req'[q].key = req[q].key
                            /\ At(q, "password")' /\ req'[q].key # None => At(q, "password")
                            /\ At(q, "mark") => At(q, "mark")' /\ req'[q].key = req[q].key
    BY <1>i, <2>1 DEF At
  <2> QED BY <2>2, <2>3, NothingReset
<1>11. CASE \/ \E t \in Seconds : End(t)
            \/ \E k \in ResetTokens : ResetExpires(k)
            \/ LogoutAll \/ Tick \/ LockRunsOut \/ UNCHANGED vars
  <2>1. /\ UNCHANGED <<req, setBy, disputed, halted>>
        /\ \A k \in ResetTokens : /\ reset'[k] = "none" => reset[k] = "none"
                                  /\ reset'[k] = "open" => reset[k] = "open"
    BY <1>11 DEF End, ResetExpires, LogoutAll, Tick, LockRunsOut, vars, history, TypeOK
  <2> QED BY <2>1, NothingReset DEF At
<1> QED
  BY <1>1, <1>2, <1>3, <1>4, <1>5, <1>6, <1>7, <1>8, <1>9, <1>10, <1>11
  DEF Next, LoginStep, SessionStep, ResetStep

(* A reset token sets one password, but for resets that held it at once and *)
(* one that died before the token was marked.                               *)
THEOREM TokensResetOnce == Spec => []ResetOnce
<1>1. Init => ResetInv
  <2>0. IdleJob.pc = "idle" /\ IdleJob.key = None BY DEF IdleJob
  <2>1. Init => /\ \A r \in Requests : req[r].pc = "idle" /\ req[r].key = None
                /\ \A k \in ResetTokens : reset[k] = "none"
                /\ \A p \in Passwords : setBy[p] = None
    BY <2>0 DEF Init
  <2> QED BY <2>1, NoneOK DEF ResetInv, HeldOrSpent, ResetOnce, Holding, Spent, At
<1>2. TypeOK /\ ResetInv /\ [Next]_vars => (TypeOK /\ ResetInv)' BY StepTyped, ResetStepInv
<1>3. ResetInv => ResetOnce BY DEF ResetInv
<1> QED BY <1>1, <1>2, <1>3, InitTyped, PTL DEF Spec
=============================================================================
