-------------------------- MODULE AdminSessionProofs --------------------------
(***************************************************************************)
(* What is proved of AdminSession for every number of workers and sessions,*)
(* every pair of lifetimes and every bound on the length of a request.     *)
(***************************************************************************)
EXTENDS AdminSession, TLAPS

\* The shapes of a request, one by one.
LEMMA CallShapes ==
    ASSUME NEW c \in Call
    PROVE  /\ c.start \in Nat
           /\ c.step \in {"issue", "is_revoked", "find", "revoke", "reissue",
                          "change", "reset", "delete", "update"}
           /\ c.step \in {"is_revoked", "find", "revoke", "reissue"}
                  => c.jti \in Sessions
           /\ c.step \in {"issue", "reissue"} => c.view \in View
           /\ c.step = "update" => c.want \in Grants /\ c.bump \in BOOLEAN
  <1>1. CASE c \in [step : {"issue"}, start : Nat, view : View]
    BY <1>1
  <1>2. CASE c \in [step : {"is_revoked", "find", "revoke"}, start : Nat,
                    jti : Sessions]
    BY <1>2
  <1>3. CASE c \in [step : {"reissue"}, start : Nat, jti : Sessions, view : View]
    BY <1>3
  <1>4. CASE c \in [step : {"change", "reset", "delete"}, start : Nat]
    BY <1>4
  <1>5. CASE c \in [step : {"update"}, start : Nat, want : Grants, bump : BOOLEAN]
    BY <1>5
  <1>6. QED
    BY <1>1, <1>2, <1>3, <1>4, <1>5 DEF Call

\* The request a worker is in.
LEMMA AtCall ==
    ASSUME TypeOK, NEW w \in Workers, NEW s, At(w, s)
    PROVE  calls[w] \in Call /\ calls[w].step = s
  BY DEF TypeOK, At

LEMMA ViewType ==
    ASSUME TypeOK
    PROVE  ViewOf(row) \in View
  BY DEF TypeOK, ViewOf, View, Row

\* A time the handler may stamp the row with.
LEMMA StampType ==
    ASSUME TypeOK, NEW c \in Call, NEW stamp \in c.start .. now
    PROVE  stamp \in Nat
  BY CallShapes DEF TypeOK

-----------------------------------------------------------------------------

LEMMA InitType == Init => TypeOK
  BY SessionAssumption DEF Init, TypeOK, Row, TimeOrNull

\* A worker that takes up a request.
LEMMA BeginType ==
    ASSUME TypeOK, NEW w \in Workers, NEW c \in Call, Begin(w, c)
    PROVE  TypeOK'
  BY DEF Begin, TypeOK

LEMMA DoneType ==
    ASSUME TypeOK, NEW w \in Workers, Done(w)
    PROVE  calls' \in [Workers -> Call \cup {Null}]
  BY DEF Done, TypeOK

LEMMA CommitType ==
    ASSUME TypeOK, NEW w \in Workers, NEW s, NEW new \in Row, Commit(w, s, new)
    PROVE  TypeOK'
  BY DoneType DEF Commit, TypeOK

LEMMA StepType ==
    ASSUME TypeOK, [Next]_vars
    PROVE  TypeOK'
  <1>1. ASSUME NEW w \in Workers, LoginRead(w)
        PROVE  TypeOK'
    <2>1. [step |-> "issue", start |-> now, view |-> ViewOf(row)] \in Call
      BY ViewType DEF Call, TypeOK
    <2>2. QED
      BY <1>1, <2>1, BeginType DEF LoginRead
  <1>2. ASSUME NEW w \in Workers, LoginIssue(w)
        PROVE  TypeOK'
    <2>1. calls[w].view \in View
      BY <1>2, AtCall, CallShapes DEF LoginIssue
    <2>2. access' \subseteq Token /\ refresh' \in [Sessions -> TimeOrNull]
      BY <1>2, <2>1 DEF LoginIssue, TypeOK, Token, TimeOrNull
    <2>3. QED
      BY <1>2, <2>2, DoneType DEF LoginIssue, TypeOK
  <1>3. ASSUME NEW w \in Workers, RefreshParse(w)
        PROVE  TypeOK'
    <2>1. PICK j \in Sessions :
            Begin(w, [step |-> "is_revoked", start |-> now, jti |-> j])
      BY <1>3 DEF RefreshParse
    <2>2. [step |-> "is_revoked", start |-> now, jti |-> j] \in Call
      BY DEF Call, TypeOK
    <2>3. QED
      BY <2>1, <2>2, BeginType
  <1>4. ASSUME NEW w \in Workers, RefreshIsRevoked(w)
        PROVE  TypeOK'
    <2>1. calls[w].start \in Nat /\ calls[w].jti \in Sessions
      BY <1>4, AtCall, CallShapes DEF RefreshIsRevoked
    <2>2. [step |-> "find", start |-> calls[w].start, jti |-> calls[w].jti] \in Call
      BY <2>1 DEF Call
    <2>3. QED
      BY <1>4, <2>2 DEF RefreshIsRevoked, TypeOK
  <1>5. ASSUME NEW w \in Workers, RefreshFind(w)
        PROVE  TypeOK'
    <2>1. calls[w].start \in Nat /\ calls[w].jti \in Sessions
      BY <1>5, AtCall, CallShapes DEF RefreshFind
    <2>2. [step |-> "reissue", start |-> calls[w].start, jti |-> calls[w].jti,
           view |-> ViewOf(row)] \in Call
      BY <2>1, ViewType DEF Call
    <2>3. QED
      BY <1>5, <2>2 DEF RefreshFind, TypeOK
  <1>6. ASSUME NEW w \in Workers, RefreshIssue(w)
        PROVE  TypeOK'
    <2>1. calls[w].view \in View /\ calls[w].jti \in Sessions
      BY <1>6, AtCall, CallShapes DEF RefreshIssue
    <2>2. access' \subseteq Token
      BY <1>6, <2>1 DEF RefreshIssue, TypeOK, Token
    <2>3. QED
      BY <1>6, <2>2, DoneType DEF RefreshIssue, TypeOK
  <1>7. ASSUME NEW w \in Workers, LogoutParse(w)
        PROVE  TypeOK'
    <2>1. PICK j \in Sessions :
            Begin(w, [step |-> "revoke", start |-> now, jti |-> j])
      BY <1>7 DEF LogoutParse
    <2>2. [step |-> "revoke", start |-> now, jti |-> j] \in Call
      BY DEF Call, TypeOK
    <2>3. QED
      BY <2>1, <2>2, BeginType
  <1>8. ASSUME NEW w \in Workers, LogoutRevoke(w)
        PROVE  TypeOK'
    <2>1. calls[w].start \in Nat /\ calls[w].jti \in Sessions
      BY <1>8, AtCall, CallShapes DEF LogoutRevoke
    <2>2. revoked' \in [Sessions -> TimeOrNull] /\ loggedOut' \in [Sessions -> TimeOrNull]
      BY <1>8, <2>1 DEF LogoutRevoke, TypeOK, TimeOrNull
    <2>3. QED
      BY <1>8, <2>2, DoneType DEF LogoutRevoke, TypeOK
  <1>9. ASSUME NEW w \in Workers, PasswordChange(w) \/ ResetPassword(w) \/ Delete(w)
        PROVE  TypeOK'
    <2>1. \A s \in {"change", "reset", "delete"} : [step |-> s, start |-> now] \in Call
      BY DEF Call, TypeOK
    <2>2. QED
      BY <1>9, <2>1, BeginType DEF PasswordChange, ResetPassword, Delete, BeginChange
  <1>10. ASSUME NEW w \in Workers, Update(w)
         PROVE  TypeOK'
    <2>1. PICK want \in Grants :
            Begin(w, [step |-> "update", start |-> now, want |-> want,
                      bump |-> want # row.grant])
      BY <1>10 DEF Update, BeginChange
    <2>2. [step |-> "update", start |-> now, want |-> want,
           bump |-> want # row.grant] \in Call
      BY DEF Call, TypeOK
    <2>3. QED
      BY <2>1, <2>2, BeginType
  <1>11. ASSUME NEW w \in Workers, UpdatePasswordRow(w)
         PROVE  TypeOK'
    <2>1. calls[w].start \in Nat
      BY <1>11, AtCall, CallShapes DEF UpdatePasswordRow, Commit
    <2>2. [row EXCEPT !.must = FALSE, !.cutoff = calls[w].start] \in Row
      BY <2>1 DEF TypeOK, Row
    <2>3. QED
      BY <1>11, <2>2, CommitType DEF UpdatePasswordRow
  <1>12. ASSUME NEW w \in Workers, ResetPasswordRow(w)
         PROVE  TypeOK'
    <2>1. PICK stamp \in calls[w].start .. now :
            Commit(w, "reset", [row EXCEPT !.must = TRUE, !.cutoff = stamp])
      BY <1>12 DEF ResetPasswordRow
    <2>2. stamp \in Nat
      BY <2>1, AtCall, StampType DEF Commit
    <2>3. [row EXCEPT !.must = TRUE, !.cutoff = stamp] \in Row
      BY <2>2 DEF TypeOK, Row
    <2>4. QED
      BY <2>1, <2>3, CommitType
  <1>13. ASSUME NEW w \in Workers, SoftDeleteAdmin(w)
         PROVE  TypeOK'
    <2>1. calls[w].start \in Nat
      BY <1>13, AtCall, CallShapes DEF SoftDeleteAdmin, Commit
    <2>2. [row EXCEPT !.deleted = TRUE, !.cutoff = calls[w].start] \in Row
      BY <2>1 DEF TypeOK, Row
    <2>3. QED
      BY <1>13, <2>2, CommitType DEF SoftDeleteAdmin
  <1>14. ASSUME NEW w \in Workers, UpdateAdmin(w)
         PROVE  TypeOK'
    <2>1. PICK stamp \in calls[w].start .. now :
            Commit(w, "update",
                   [row EXCEPT !.grant  = calls[w].want,
                               !.cutoff = IF calls[w].bump THEN stamp ELSE @])
      BY <1>14 DEF UpdateAdmin
    <2>2. stamp \in Nat /\ calls[w].want \in Grants
      BY <2>1, AtCall, CallShapes, StampType DEF Commit
    <2>3. [row EXCEPT !.grant  = calls[w].want,
                      !.cutoff = IF calls[w].bump THEN stamp ELSE @] \in Row
      BY <2>2 DEF TypeOK, Row
    <2>4. QED
      BY <2>1, <2>3, CommitType
  <1>15. ASSUME NEW w \in Workers, GiveUp(w)
         PROVE  TypeOK'
    BY <1>15, DoneType DEF GiveUp, TypeOK
  <1>16. CASE CleanupRevoked
    BY <1>16 DEF CleanupRevoked, TypeOK, TimeOrNull
  <1>17. CASE Tick
    BY <1>17 DEF Tick, TypeOK
  <1>18. CASE UNCHANGED vars
    BY <1>18 DEF vars, TypeOK
  <1>19. QED
    BY <1>1, <1>2, <1>3, <1>4, <1>5, <1>6, <1>7, <1>8, <1>9, <1>10, <1>11,
       <1>12, <1>13, <1>14, <1>15, <1>16, <1>17, <1>18 DEF Next

\* Tokens, times and requests have their types in every reachable state.
THEOREM TypeCorrect == Spec => []TypeOK
  <1>1. QED
    BY InitType, StepType, PTL DEF Spec

-----------------------------------------------------------------------------
(***************************************************************************)
(* Times: nothing is stamped ahead of the clock, and no request outlasts   *)
(* its limit.                                                              *)
(***************************************************************************)

JtiSteps == {"is_revoked", "find", "reissue", "revoke"}

ListTimes ==
    \A j \in Sessions :
        /\ refresh[j] # Null => refresh[j] <= now
        /\ loggedOut[j] # Null => refresh[j] # Null /\ loggedOut[j] <= now
        /\ revoked[j] # Null => refresh[j] # Null /\ refresh[j] <= revoked[j]

TokenTimes == \A t \in access : refresh[t.jti] # Null /\ t.iat <= now

CallTimes ==
    \A w \in Workers : calls[w] # Null =>
        /\ calls[w].start <= now /\ now <= calls[w].start + MaxRequest
        /\ calls[w].step \in JtiSteps =>
             /\ refresh[calls[w].jti] # Null
             /\ refresh[calls[w].jti] <= calls[w].start

Times == row.cutoff <= now /\ ListTimes /\ TokenTimes /\ CallTimes

-----------------------------------------------------------------------------
(***************************************************************************)
(* The steps by what they do to the state: most actions only take up a     *)
(* request, and the four changes differ in the new row alone.              *)
(***************************************************************************)

ChangeSteps == {"change", "reset", "delete", "update"}

\* What holds of a request when it is taken up.
Fresh(c) ==
    /\ c \in Call
    /\ c.start = now
    /\ c.step \notin {"find", "reissue"}
    /\ c.step \in JtiSteps => refresh[c.jti] # Null
    /\ c.step = "issue" => c.view = ViewOf(row)
    /\ c.step = "update" => (c.bump <=> c.want # row.grant)
    /\ c.step \in ChangeSteps => Overlap \/ \A v \in Workers : ~Changing(v)

Begins(w) == \E c : Fresh(c) /\ Begin(w, c)

Stamps(w) ==
    \E s \in ChangeSteps, new \in Row :
        Commit(w, s, new) /\ new.cutoff \in calls[w].start .. now

\* An update that found nothing to stamp.
Writes(w) ==
    /\ ~calls[w].bump
    /\ Commit(w, "update", [row EXCEPT !.grant = calls[w].want])

LEMMA Steps ==
    ASSUME TypeOK, Times, Next
    PROVE  \/ \E w \in Workers :
                \/ Begins(w) \/ LoginIssue(w) \/ RefreshIsRevoked(w)
                \/ RefreshFind(w) \/ RefreshIssue(w) \/ LogoutRevoke(w)
                \/ Stamps(w) \/ Writes(w) \/ GiveUp(w)
           \/ CleanupRevoked
           \/ Tick
  <1>1. ASSUME NEW w \in Workers, LoginRead(w)
        PROVE  Begins(w)
    <2> DEFINE c == [step |-> "issue", start |-> now, view |-> ViewOf(row)]
    <2>1. c \in Call
      BY ViewType DEF Call, TypeOK
    <2>2. Fresh(c)
      BY <2>1 DEF Fresh, JtiSteps, ChangeSteps
    <2>3. QED
      BY <1>1, <2>2 DEF LoginRead, Begins
  <1>2. ASSUME NEW w \in Workers, RefreshParse(w) \/ LogoutParse(w)
        PROVE  Begins(w)
    <2>1. PICK j \in Sessions, s \in {"is_revoked", "revoke"} :
            /\ Unexpired(j)
            /\ Begin(w, [step |-> s, start |-> now, jti |-> j])
      BY <1>2 DEF RefreshParse, LogoutParse
    <2> DEFINE c == [step |-> s, start |-> now, jti |-> j]
    <2>2. c \in Call
      BY DEF Call, TypeOK
    <2>3. Fresh(c)
      BY <2>1, <2>2 DEF Fresh, JtiSteps, ChangeSteps, Unexpired
    <2>4. QED
      BY <2>1, <2>3 DEF Begins
  <1>3. ASSUME NEW w \in Workers, PasswordChange(w) \/ ResetPassword(w) \/ Delete(w)
        PROVE  Begins(w)
    <2>1. PICK s \in {"change", "reset", "delete"} :
            BeginChange(w, [step |-> s, start |-> now])
      BY <1>3 DEF PasswordChange, ResetPassword, Delete
    <2> DEFINE c == [step |-> s, start |-> now]
    <2>2. c \in Call
      BY DEF Call, TypeOK
    <2>3. Fresh(c)
      BY <2>1, <2>2 DEF Fresh, JtiSteps, ChangeSteps, BeginChange
    <2>4. QED
      BY <2>1, <2>3 DEF Begins, BeginChange
  <1>4. ASSUME NEW w \in Workers, Update(w)
        PROVE  Begins(w)
    <2>1. PICK want \in Grants :
            BeginChange(w, [step |-> "update", start |-> now, want |-> want,
                            bump |-> want # row.grant])
      BY <1>4 DEF Update
    <2> DEFINE c == [step |-> "update", start |-> now, want |-> want,
                     bump |-> want # row.grant]
    <2>2. c \in Call
      BY DEF Call, TypeOK
    <2>3. Fresh(c)
      BY <2>1, <2>2 DEF Fresh, JtiSteps, ChangeSteps, BeginChange
    <2>4. QED
      BY <2>1, <2>3 DEF Begins, BeginChange
  <1>5. ASSUME NEW w \in Workers, UpdatePasswordRow(w)
        PROVE  Stamps(w)
    <2>1. calls[w].start \in Nat /\ calls[w].start <= now
      BY <1>5, AtCall, CallShapes DEF UpdatePasswordRow, Commit, At, Times, CallTimes
    <2> DEFINE new == [row EXCEPT !.must = FALSE, !.cutoff = calls[w].start]
    <2>2. new \in Row /\ new.cutoff = calls[w].start
      BY <2>1 DEF TypeOK, Row
    <2>3. new.cutoff \in calls[w].start .. now
      BY <2>1, <2>2 DEF TypeOK
    <2>4. QED
      BY <2>3, <1>5, <2>2 DEF UpdatePasswordRow, Stamps, ChangeSteps
  <1>6. ASSUME NEW w \in Workers, ResetPasswordRow(w)
        PROVE  Stamps(w)
    <2>1. PICK stamp \in calls[w].start .. now :
            Commit(w, "reset", [row EXCEPT !.must = TRUE, !.cutoff = stamp])
      BY <1>6 DEF ResetPasswordRow
    <2>2. stamp \in Nat
      BY <2>1, AtCall, StampType DEF Commit
    <2> DEFINE new == [row EXCEPT !.must = TRUE, !.cutoff = stamp]
    <2>3. new \in Row /\ new.cutoff = stamp
      BY <2>2 DEF TypeOK, Row
    <2>4. QED
      BY <2>1, <2>3 DEF Stamps, ChangeSteps
  <1>7. ASSUME NEW w \in Workers, SoftDeleteAdmin(w)
        PROVE  Stamps(w)
    <2>1. calls[w].start \in Nat /\ calls[w].start <= now
      BY <1>7, AtCall, CallShapes DEF SoftDeleteAdmin, Commit, At, Times, CallTimes
    <2> DEFINE new == [row EXCEPT !.deleted = TRUE, !.cutoff = calls[w].start]
    <2>2. new \in Row /\ new.cutoff = calls[w].start
      BY <2>1 DEF TypeOK, Row
    <2>3. new.cutoff \in calls[w].start .. now
      BY <2>1, <2>2 DEF TypeOK
    <2>4. QED
      BY <2>3, <1>7, <2>2 DEF SoftDeleteAdmin, Stamps, ChangeSteps
  <1>8. ASSUME NEW w \in Workers, UpdateAdmin(w)
        PROVE  Stamps(w) \/ Writes(w)
    <2>0. PICK stamp \in calls[w].start .. now :
            Commit(w, "update",
                   [row EXCEPT !.grant  = calls[w].want,
                               !.cutoff = IF calls[w].bump THEN stamp ELSE @])
      BY <1>8 DEF UpdateAdmin
    <2>1. stamp \in Nat /\ calls[w].want \in Grants
      BY <2>0, AtCall, CallShapes, StampType DEF Commit
    <2>2. CASE calls[w].bump
      <3> DEFINE new == [row EXCEPT !.grant = calls[w].want, !.cutoff = stamp]
      <3>1. new \in Row /\ new.cutoff = stamp
        BY <2>1 DEF TypeOK, Row
      <3>2. Commit(w, "update", new)
        BY <2>0, <2>2
      <3>3. QED
        BY <3>1, <3>2 DEF Stamps, ChangeSteps
    <2>3. CASE ~calls[w].bump
      <3>1. [row EXCEPT !.grant = calls[w].want, !.cutoff = row.cutoff]
              = [row EXCEPT !.grant = calls[w].want]
        BY DEF TypeOK, Row
      <3>2. QED
        BY <2>0, <2>3, <3>1 DEF Writes
    <2>4. QED
      BY <2>2, <2>3
  <1>9. QED
    BY <1>1, <1>2, <1>3, <1>4, <1>5, <1>6, <1>7, <1>8 DEF Next

-----------------------------------------------------------------------------

LEMMA InitTimes == Init => Times
  BY DEF Init, Times, ListTimes, TokenTimes, CallTimes

LEMMA StepTimes ==
    ASSUME TypeOK, Times, [Next]_vars
    PROVE  Times'
  <1> USE SessionAssumption
  <1>1. ASSUME NEW w \in Workers, Begins(w)
        PROVE  Times'
    <2>1. PICK c : Fresh(c) /\ Begin(w, c)
      BY <1>1 DEF Begins
    <2>2. c # Null => c.jti \in Sessions \/ c.step \notin JtiSteps
      BY <2>1, CallShapes DEF Fresh, JtiSteps
    <2>3. CallTimes'
      BY <2>1, <2>2 DEF Begin, Fresh, TypeOK, Times, ListTimes, CallTimes, JtiSteps
    <2>4. QED
      BY <2>1, <2>3 DEF Begin, Times, ListTimes, TokenTimes
  <1>2. ASSUME NEW w \in Workers, LoginIssue(w)
        PROVE  Times'
    <2>1. PICK j \in Sessions :
            /\ refresh[j] = Null
            /\ refresh' = [refresh EXCEPT ![j] = now]
            /\ access' = access \cup {[jti |-> j, view |-> calls[w].view, iat |-> now]}
      BY <1>2 DEF LoginIssue
    <2>2. UNCHANGED <<now, row, revoked, loggedOut>> /\ Done(w)
      BY <1>2 DEF LoginIssue
    <2>3. ListTimes'
      BY <2>1, <2>2 DEF Times, ListTimes, TypeOK
    <2>4. TokenTimes'
      BY <2>1, <2>2 DEF Times, TokenTimes, TypeOK, Token
    <2>5. ASSUME NEW v \in Workers, calls'[v] # Null
          PROVE  /\ calls'[v].start <= now /\ now <= calls'[v].start + MaxRequest
                 /\ calls'[v].step \in JtiSteps =>
                      /\ refresh'[calls'[v].jti] # Null
                      /\ refresh'[calls'[v].jti] <= calls'[v].start
      <3>1. calls[v] # Null /\ calls'[v] = calls[v]
        BY <2>2, <2>5 DEF Done, TypeOK
      <3>2. calls[v].step \in JtiSteps => calls[v].jti \in Sessions
        BY <3>1, CallShapes DEF TypeOK, JtiSteps
      <3>3. QED
        BY <2>1, <2>2, <3>1, <3>2 DEF Times, CallTimes, TypeOK
    <2>6. CallTimes'
      BY <2>2, <2>5 DEF CallTimes
    <2>7. QED
      BY <2>2, <2>3, <2>4, <2>6 DEF Times
  <1>3. ASSUME NEW w \in Workers, RefreshIsRevoked(w) \/ RefreshFind(w)
        PROVE  Times'
    <2>1. /\ calls[w] # Null /\ calls[w].step \in {"is_revoked", "find"}
          /\ UNCHANGED <<now, row, access, refresh, revoked, loggedOut>>
      BY <1>3 DEF RefreshIsRevoked, RefreshFind, At
    <2>2. CallTimes'
      BY <1>3, <2>1 DEF RefreshIsRevoked, RefreshFind, Times, CallTimes, TypeOK, JtiSteps
    <2>3. QED
      BY <2>1, <2>2 DEF Times, ListTimes, TokenTimes
  <1>4. ASSUME NEW w \in Workers, RefreshIssue(w)
        PROVE  Times'
    <2>1. refresh[calls[w].jti] # Null
      BY <1>4 DEF RefreshIssue, At, Times, CallTimes, JtiSteps
    <2>2. TokenTimes'
      BY <1>4, <2>1 DEF RefreshIssue, Times, TokenTimes, TypeOK
    <2>3. QED
      BY <1>4, <2>2 DEF RefreshIssue, Done, Times, ListTimes, CallTimes, TypeOK
  <1>5. ASSUME NEW w \in Workers, LogoutRevoke(w)
        PROVE  Times'
    <2>1. /\ calls[w].jti \in Sessions /\ calls[w].start \in Nat
          /\ refresh[calls[w].jti] # Null
          /\ refresh[calls[w].jti] <= calls[w].start
      BY <1>5, AtCall, CallShapes DEF LogoutRevoke, At, Times, CallTimes, JtiSteps
    <2>2. ListTimes'
      BY <1>5, <2>1 DEF LogoutRevoke, Times, ListTimes, TypeOK
    <2>3. QED
      BY <1>5, <2>2 DEF LogoutRevoke, Done, Times, TokenTimes, CallTimes, TypeOK
  <1>6. ASSUME NEW w \in Workers, Stamps(w) \/ Writes(w)
        PROVE  Times'
    <2>1. /\ calls[w] # Null
          /\ row'.cutoff \in calls[w].start .. now \/ row'.cutoff = row.cutoff
          /\ UNCHANGED <<now, access, refresh, revoked, loggedOut>>
          /\ Done(w)
      BY <1>6 DEF Stamps, Writes, Commit, At, TypeOK, Row
    <2>2. row'.cutoff <= now
      BY <2>1 DEF Times, CallTimes
    <2>3. QED
      BY <2>1, <2>2 DEF Done, Times, ListTimes, TokenTimes, CallTimes, TypeOK
  <1>7. ASSUME NEW w \in Workers, GiveUp(w)
        PROVE  Times'
    BY <1>7 DEF GiveUp, Done, Times, ListTimes, TokenTimes, CallTimes, TypeOK
  <1>8. CASE CleanupRevoked
    <2>1. ListTimes'
      BY <1>8 DEF CleanupRevoked, Times, ListTimes
    <2>2. QED
      BY <1>8, <2>1 DEF CleanupRevoked, Times, TokenTimes, CallTimes
  <1>9. CASE Tick
    <2>1. row'.cutoff <= now'
      BY <1>9 DEF Tick, Times, TypeOK, Row
    <2>2. ListTimes'
      BY <1>9 DEF Tick, Times, ListTimes, TypeOK, TimeOrNull
    <2>3. TokenTimes'
      BY <1>9 DEF Tick, Times, TokenTimes, TypeOK, Token
    <2>4. \A w \in Workers : calls[w] # Null => calls[w].start \in Nat
      BY CallShapes DEF TypeOK
    <2>5. CallTimes'
      BY <1>9, <2>4 DEF Tick, Times, CallTimes, TypeOK
    <2>6. QED
      BY <2>1, <2>2, <2>3, <2>5 DEF Times
  <1>10. CASE UNCHANGED vars
    BY <1>10 DEF vars, Times, ListTimes, TokenTimes, CallTimes
  <1>11. QED
    BY <1>1, <1>2, <1>3, <1>4, <1>5, <1>6, <1>7, <1>8, <1>9, <1>10, Steps

-----------------------------------------------------------------------------
(***************************************************************************)
(* After a logout.  A session that was logged out is on the list, or its   *)
(* refresh token has expired; so a refresh that has passed the list was    *)
(* under way at the time, or has outlasted the token.                      *)
(***************************************************************************)

Listed ==
    \A j \in Sessions :
        loggedOut[j] # Null => revoked[j] # Null \/ now > refresh[j] + RefreshTTL

PassedList ==
    \A w \in Workers :
        (At(w, "find") \/ At(w, "reissue")) /\ loggedOut[calls[w].jti] # Null =>
            \/ calls[w].start <= loggedOut[calls[w].jti]
            \/ now > refresh[calls[w].jti] + RefreshTTL

LogoutInv == Listed /\ PassedList /\ LogoutEnds

LEMMA InitLogout == Init => LogoutInv
  BY DEF Init, LogoutInv, Listed, PassedList, LogoutEnds, At

LEMMA StepLogout ==
    ASSUME TypeOK, Times, LogoutInv, [Next]_vars
    PROVE  LogoutInv'
  <1> USE SessionAssumption
  <1>0. \A w \in Workers : At(w, "find") \/ At(w, "reissue")
            => calls[w].jti \in Sessions /\ calls[w].start \in Nat
    BY AtCall, CallShapes
  <1>1. ASSUME NEW w \in Workers, Begins(w)
        PROVE  LogoutInv'
    <2>1. PICK c : Fresh(c) /\ Begin(w, c)
      BY <1>1 DEF Begins
    <2>2. PassedList'
      BY <2>1 DEF Begin, Fresh, At, TypeOK, LogoutInv, PassedList
    <2>3. QED
      BY <2>1, <2>2 DEF Begin, LogoutInv, Listed, LogoutEnds
  <1>2. ASSUME NEW w \in Workers, LoginIssue(w)
        PROVE  LogoutInv'
    <2>1. PICK j \in Sessions :
            /\ refresh[j] = Null
            /\ refresh' = [refresh EXCEPT ![j] = now]
            /\ access' = access \cup {[jti |-> j, view |-> calls[w].view, iat |-> now]}
      BY <1>2 DEF LoginIssue
    <2>2. UNCHANGED <<now, row, revoked, loggedOut>> /\ Done(w)
      BY <1>2 DEF LoginIssue
    <2>3. loggedOut[j] = Null
      BY <2>1 DEF Times, ListTimes
    <2>4. Listed'
      BY <2>1, <2>2, <2>3 DEF LogoutInv, Listed, TypeOK
    <2>5. PassedList'
      BY <1>0, <2>1, <2>2, <2>3 DEF Done, At, LogoutInv, PassedList, TypeOK
    <2>6. LogoutEnds'
      BY <2>1, <2>2, <2>3 DEF LogoutInv, LogoutEnds, TypeOK, Token
    <2>7. QED
      BY <2>4, <2>5, <2>6 DEF LogoutInv
  <1>3. ASSUME NEW w \in Workers, RefreshIsRevoked(w)
        PROVE  LogoutInv'
    <2>1. calls[w].jti \in Sessions
      BY <1>3, AtCall, CallShapes DEF RefreshIsRevoked
    <2>2. loggedOut[calls[w].jti] = Null
            \/ now > refresh[calls[w].jti] + RefreshTTL
      BY <1>3, <2>1 DEF RefreshIsRevoked, LogoutInv, Listed
    <2>3. PassedList'
      BY <1>3, <2>2 DEF RefreshIsRevoked, At, TypeOK, LogoutInv, PassedList
    <2>4. QED
      BY <1>3, <2>3 DEF RefreshIsRevoked, LogoutInv, Listed, LogoutEnds
  <1>4. ASSUME NEW w \in Workers, RefreshFind(w)
        PROVE  LogoutInv'
    <2>1. PassedList'
      BY <1>4 DEF RefreshFind, At, TypeOK, LogoutInv, PassedList
    <2>2. QED
      BY <1>4, <2>1 DEF RefreshFind, LogoutInv, Listed, LogoutEnds
  <1>5. ASSUME NEW w \in Workers, RefreshIssue(w)
        PROVE  LogoutInv'
    <2> DEFINE j == calls[w].jti
               t == [jti |-> j, view |-> calls[w].view, iat |-> now]
    <2>1. /\ access' = access \cup {t}
          /\ UNCHANGED <<now, refresh, revoked, loggedOut>> /\ Done(w)
      BY <1>5 DEF RefreshIssue
    <2>2. j \in Sessions /\ calls[w].start \in Nat /\ At(w, "reissue")
          /\ now <= calls[w].start + MaxRequest
      BY <1>0, <1>5 DEF RefreshIssue, Times, CallTimes, At
    <2>3. loggedOut[j] # Null => loggedOut[j] \in Nat
      BY <2>2 DEF TypeOK, TimeOrNull
    <2>4. loggedOut[j] # Null =>
            now <= loggedOut[j] + MaxRequest \/ now > refresh[j] + RefreshTTL
      BY <2>2, <2>3 DEF LogoutInv, PassedList, TypeOK
    <2>5. LogoutEnds'
      BY <2>1, <2>4 DEF LogoutInv, LogoutEnds
    <2>6. PassedList'
      BY <2>1 DEF Done, At, LogoutInv, PassedList, TypeOK
    <2>7. QED
      BY <2>1, <2>5, <2>6 DEF LogoutInv, Listed
  <1>6. ASSUME NEW w \in Workers, LogoutRevoke(w)
        PROVE  LogoutInv'
    <2> DEFINE j == calls[w].jti
    <2>1. j \in Sessions /\ calls[w].start \in Nat
      BY <1>6, AtCall, CallShapes DEF LogoutRevoke
    <2>2. /\ revoked' = [revoked EXCEPT ![j] = IF @ = Null THEN calls[w].start ELSE @]
          /\ loggedOut' = [loggedOut EXCEPT ![j] = IF @ = Null THEN now ELSE @]
          /\ Done(w) /\ UNCHANGED <<now, row, access, refresh>>
      BY <1>6 DEF LogoutRevoke
    <2> HIDE DEF j
    <2>3. Listed'
      BY <2>1, <2>2 DEF LogoutInv, Listed, TypeOK
    <2>4. PassedList'
      <3> SUFFICES ASSUME NEW v \in Workers,
                          At(v, "find")' \/ At(v, "reissue")',
                          loggedOut'[calls'[v].jti] # Null
                   PROVE  \/ calls'[v].start <= loggedOut'[calls'[v].jti]
                          \/ now' > refresh'[calls'[v].jti] + RefreshTTL
        BY DEF PassedList
      <3>1. /\ calls'[v] = calls[v] /\ calls[v] # Null
            /\ At(v, "find") \/ At(v, "reissue")
        BY <2>2 DEF Done, At, TypeOK
      <3>2. /\ calls[v].jti \in Sessions /\ calls[v].start \in Nat
            /\ calls[v].start <= now
        BY <1>0, <3>1 DEF Times, CallTimes
      <3>3. CASE loggedOut'[calls[v].jti] = loggedOut[calls[v].jti]
        BY <2>2, <3>1, <3>3 DEF LogoutInv, PassedList
      <3>4. CASE loggedOut'[calls[v].jti] # loggedOut[calls[v].jti]
        BY <2>1, <2>2, <3>1, <3>2, <3>4 DEF TypeOK
      <3>5. QED
        BY <3>3, <3>4
    <2>5. LogoutEnds'
      <3> SUFFICES ASSUME NEW t \in access, loggedOut'[t.jti] # Null
                   PROVE  \/ t.iat <= loggedOut'[t.jti] + MaxRequest
                          \/ t.iat > refresh'[t.jti] + RefreshTTL
        BY <2>2 DEF LogoutEnds
      <3>1. t.jti \in Sessions /\ t.iat \in Nat /\ t.iat <= now
        BY DEF TypeOK, Token, Times, TokenTimes
      <3>2. CASE loggedOut'[t.jti] = loggedOut[t.jti]
        BY <2>2, <3>2 DEF LogoutInv, LogoutEnds
      <3>3. CASE loggedOut'[t.jti] # loggedOut[t.jti]
        BY <2>1, <2>2, <3>1, <3>3 DEF TypeOK
      <3>4. QED
        BY <3>2, <3>3
    <2>6. QED
      BY <2>3, <2>4, <2>5 DEF LogoutInv
  <1>7. ASSUME NEW w \in Workers, Stamps(w) \/ Writes(w) \/ GiveUp(w)
        PROVE  LogoutInv'
    <2>1. UNCHANGED <<now, access, refresh, revoked, loggedOut>> /\ Done(w)
      BY <1>7 DEF Stamps, Writes, Commit, GiveUp
    <2>2. PassedList'
      BY <2>1 DEF Done, At, LogoutInv, PassedList, TypeOK
    <2>3. QED
      BY <2>1, <2>2 DEF LogoutInv, Listed, LogoutEnds
  <1>8. CASE CleanupRevoked
    <2>1. ASSUME NEW j \in Sessions, loggedOut[j] # Null
          PROVE  revoked'[j] # Null \/ now > refresh[j] + RefreshTTL
      <3>1. CASE revoked[j] # Null /\ revoked[j] < now - RefreshTTL
        <4>1. refresh[j] \in Nat /\ revoked[j] \in Nat /\ refresh[j] <= revoked[j]
          BY <3>1 DEF Times, ListTimes, TypeOK, TimeOrNull
        <4>2. QED
          BY <3>1, <4>1 DEF TypeOK
      <3>2. CASE ~(revoked[j] # Null /\ revoked[j] < now - RefreshTTL)
        BY <1>8, <2>1, <3>2 DEF CleanupRevoked, LogoutInv, Listed
      <3>3. QED
        BY <3>1, <3>2
    <2>2. Listed'
      BY <1>8, <2>1 DEF CleanupRevoked, Listed
    <2>3. QED
      BY <1>8, <2>2 DEF CleanupRevoked, LogoutInv, PassedList, LogoutEnds, At
  <1>9. CASE Tick
    <2>1. \A j \in Sessions : refresh[j] # Null => refresh[j] \in Nat
      BY DEF TypeOK, TimeOrNull
    <2>2. Listed'
      BY <1>9, <2>1 DEF Tick, LogoutInv, Listed, Times, ListTimes, TypeOK
    <2>3. PassedList'
      BY <1>0, <1>9, <2>1 DEF Tick, LogoutInv, PassedList, At, Times, ListTimes, TypeOK
    <2>4. QED
      BY <1>9, <2>2, <2>3 DEF Tick, LogoutInv, LogoutEnds
  <1>10. CASE UNCHANGED vars
    BY <1>10 DEF vars, LogoutInv, Listed, PassedList, LogoutEnds, At
  <1>11. QED
    BY <1>1, <1>2, <1>3, <1>4, <1>5, <1>6, <1>7, <1>8, <1>9, <1>10, Steps

\* A logged-out session gets no more access tokens, whatever the batch and
\* the other requests do.
THEOREM LogoutIsFinal == Spec => []LogoutEnds
  <1>1. TypeOK /\ Times /\ LogoutInv /\ [Next]_vars
          => (TypeOK /\ Times /\ LogoutInv)'
    BY StepType, StepTimes, StepLogout
  <1>2. LogoutInv => LogoutEnds
    BY DEF LogoutInv
  <1>3. QED
    BY InitType, InitTimes, InitLogout, <1>1, <1>2, PTL DEF Spec

-----------------------------------------------------------------------------
(***************************************************************************)
(* After a change.  A refresh that found the old row, or a login that read *)
(* it, was under way when the change was committed, and so began at most   *)
(* MaxRequest after the change's stamp.                                    *)
(***************************************************************************)

PassedFind ==
    \A w \in Workers :
        At(w, "reissue") /\ refresh[calls[w].jti] < row.cutoff
            => calls[w].start <= row.cutoff + MaxRequest

EndInv == PassedFind /\ SessionEnds

LEMMA InitEnd == Init => EndInv
  BY DEF Init, EndInv, PassedFind, SessionEnds, At

\* What a change of the row leaves true of requests and tokens.
LEMMA CommitWindow ==
    ASSUME TypeOK, Times, NEW w \in Workers, calls[w] # Null,
           row'.cutoff \in calls[w].start .. now
    PROVE  /\ row'.cutoff \in Nat
           /\ \A v \in Workers : calls[v] # Null =>
                calls[v].start <= row'.cutoff + MaxRequest
           /\ \A t \in access : t.iat <= row'.cutoff + MaxRequest
  <1>1. \A v \in Workers : calls[v] # Null => calls[v].start \in Nat
    BY CallShapes DEF TypeOK
  <1>2. now <= calls[w].start + MaxRequest
    BY DEF Times, CallTimes
  <1>3. \A v \in Workers : calls[v] # Null => calls[v].start <= now
    BY DEF Times, CallTimes
  <1>4. \A t \in access : t.iat \in Nat /\ t.iat <= now
    BY DEF Times, TokenTimes, TypeOK, Token
  <1>5. QED
    BY <1>1, <1>2, <1>3, <1>4, SessionAssumption DEF TypeOK

LEMMA StepEnd ==
    ASSUME TypeOK, Times, EndInv, [Next]_vars
    PROVE  EndInv'
  <1> USE SessionAssumption
  <1>0. \A w \in Workers : At(w, "reissue")
            => /\ calls[w].jti \in Sessions /\ calls[w].start \in Nat
               /\ refresh[calls[w].jti] # Null
               /\ now <= calls[w].start + MaxRequest
    BY AtCall, CallShapes DEF At, Times, CallTimes, JtiSteps
  <1>1. ASSUME NEW w \in Workers, Begins(w)
        PROVE  EndInv'
    <2>1. PICK c : Fresh(c) /\ Begin(w, c)
      BY <1>1 DEF Begins
    <2>2. PassedFind'
      BY <2>1 DEF Begin, Fresh, At, TypeOK, EndInv, PassedFind
    <2>3. QED
      BY <2>1, <2>2 DEF Begin, EndInv, SessionEnds
  <1>2. ASSUME NEW w \in Workers, LoginIssue(w)
        PROVE  EndInv'
    <2>1. PICK j \in Sessions :
            /\ refresh[j] = Null
            /\ refresh' = [refresh EXCEPT ![j] = now]
            /\ access' = access \cup {[jti |-> j, view |-> calls[w].view, iat |-> now]}
      BY <1>2 DEF LoginIssue
    <2>2. UNCHANGED <<now, row, revoked, loggedOut>> /\ Done(w)
      BY <1>2 DEF LoginIssue
    <2>3. PassedFind'
      BY <1>0, <2>1, <2>2 DEF Done, At, EndInv, PassedFind, TypeOK
    <2>4. SessionEnds'
      <3>1. ~(now < row.cutoff)
        BY DEF Times, TypeOK, Row
      <3>2. \A t \in access : t.jti \in Sessions /\ refresh[t.jti] # Null
        BY DEF Times, TokenTimes, TypeOK, Token
      <3>3. QED
        BY <2>1, <2>2, <3>1, <3>2 DEF EndInv, SessionEnds, TypeOK
    <2>5. QED
      BY <2>3, <2>4 DEF EndInv
  <1>3. ASSUME NEW w \in Workers, RefreshIsRevoked(w)
        PROVE  EndInv'
    <2>1. PassedFind'
      BY <1>3 DEF RefreshIsRevoked, At, TypeOK, EndInv, PassedFind
    <2>2. QED
      BY <1>3, <2>1 DEF RefreshIsRevoked, EndInv, SessionEnds
  <1>4. ASSUME NEW w \in Workers, RefreshFind(w)
        PROVE  EndInv'
    <2>1. PassedFind'
      BY <1>4 DEF RefreshFind, Stale, At, TypeOK, EndInv, PassedFind
    <2>2. QED
      BY <1>4, <2>1 DEF RefreshFind, EndInv, SessionEnds
  <1>5. ASSUME NEW w \in Workers, RefreshIssue(w)
        PROVE  EndInv'
    <2>1. /\ At(w, "reissue") /\ Done(w)
          /\ access' = access \cup
               {[jti |-> calls[w].jti, view |-> calls[w].view, iat |-> now]}
          /\ UNCHANGED <<now, row, refresh>>
      BY <1>5 DEF RefreshIssue
    <2>2. refresh[calls[w].jti] < row.cutoff => now <= row.cutoff + 2 * MaxRequest
      BY <1>0, <2>1 DEF EndInv, PassedFind, TypeOK, Row
    <2>3. SessionEnds'
      BY <2>1, <2>2 DEF EndInv, SessionEnds
    <2>4. PassedFind'
      BY <2>1 DEF Done, At, EndInv, PassedFind, TypeOK
    <2>5. QED
      BY <2>3, <2>4 DEF EndInv
  <1>6. ASSUME NEW w \in Workers, Stamps(w)
        PROVE  EndInv'
    <2>1. /\ calls[w] # Null /\ row'.cutoff \in calls[w].start .. now
          /\ UNCHANGED <<now, access, refresh>> /\ Done(w)
      BY <1>6 DEF Stamps, Commit, At
    <2>2. PassedFind'
      BY <2>1, CommitWindow DEF PassedFind, Done, At, TypeOK
    <2>3. SessionEnds'
      <3>1. \A t \in access : t.iat \in Nat /\ t.iat <= row'.cutoff + MaxRequest
        BY <2>1, CommitWindow DEF TypeOK, Token
      <3>2. QED
        BY <2>1, <3>1, CommitWindow DEF SessionEnds
    <2>4. QED
      BY <2>2, <2>3 DEF EndInv
  <1>7. ASSUME NEW w \in Workers, Writes(w) \/ GiveUp(w) \/ LogoutRevoke(w)
        PROVE  EndInv'
    <2>1. /\ UNCHANGED <<now, access, refresh>> /\ Done(w)
          /\ row'.cutoff = row.cutoff
      BY <1>7 DEF Writes, Commit, GiveUp, LogoutRevoke, TypeOK, Row
    <2>2. PassedFind'
      BY <2>1 DEF Done, At, EndInv, PassedFind, TypeOK
    <2>3. QED
      BY <2>1, <2>2 DEF EndInv, SessionEnds
  <1>8. CASE CleanupRevoked \/ Tick \/ UNCHANGED vars
    BY <1>8 DEF CleanupRevoked, Tick, vars, EndInv, PassedFind, SessionEnds, At
  <1>9. QED
    BY <1>1, <1>2, <1>3, <1>4, <1>5, <1>6, <1>7, <1>8, Steps

\* A session begun before a change of the admin's row soon gets no more
\* access tokens, even when changes overlap.
THEOREM ChangesEndSessions == Spec => []SessionEnds
  <1>1. TypeOK /\ Times /\ EndInv /\ [Next]_vars
          => (TypeOK /\ Times /\ EndInv)'
    BY StepType, StepTimes, StepEnd
  <1>2. EndInv => SessionEnds
    BY DEF EndInv
  <1>3. QED
    BY InitType, InitTimes, InitEnd, <1>1, <1>2, PTL DEF Spec

-----------------------------------------------------------------------------
(***************************************************************************)
(* What tokens carry, when one change is made at a time.  An update then   *)
(* decides on the row that it writes.                                      *)
(***************************************************************************)

OneChange ==
    /\ \A v, w \in Workers : Changing(v) /\ Changing(w) => v = w
    /\ \A w \in Workers :
         At(w, "update") => (calls[w].bump <=> calls[w].want # row.grant)

ReadRow ==
    \A w \in Workers : At(w, "issue") \/ At(w, "reissue") =>
        calls[w].view = ViewOf(row) \/ calls[w].start <= row.cutoff + MaxRequest

CarryRow ==
    \A t \in access :
        t.view = ViewOf(row) \/ t.iat <= row.cutoff + 2 * MaxRequest

ViewInv == OneChange /\ ReadRow /\ CarryRow

LEMMA InitView == Init => ViewInv
  BY DEF Init, ViewInv, OneChange, ReadRow, CarryRow, Changing, At

LEMMA StepView ==
    ASSUME TypeOK, Times, ViewInv, ~Overlap, [Next]_vars
    PROVE  ViewInv'
  <1> USE SessionAssumption
  <1>0. \A w \in Workers : At(w, "issue") \/ At(w, "reissue")
            => calls[w].start \in Nat /\ now <= calls[w].start + MaxRequest
    BY AtCall, CallShapes DEF At, Times, CallTimes
  <1>1. ASSUME NEW w \in Workers, Begins(w)
        PROVE  ViewInv'
    <2>1. PICK c : Fresh(c) /\ Begin(w, c)
      BY <1>1 DEF Begins
    <2>2. OneChange'
      BY <2>1 DEF Begin, Fresh, Changing, ChangeSteps, At, TypeOK, ViewInv, OneChange
    <2>3. ReadRow'
      BY <2>1 DEF Begin, Fresh, At, TypeOK, ViewInv, ReadRow, ViewOf
    <2>4. QED
      BY <2>1, <2>2, <2>3 DEF Begin, ViewInv, CarryRow, ViewOf
  <1>2. ASSUME NEW w \in Workers, LoginIssue(w) \/ RefreshIssue(w)
        PROVE  ViewInv'
    <2>1. PICK j :
            access' = access \cup {[jti |-> j, view |-> calls[w].view, iat |-> now]}
      BY <1>2 DEF LoginIssue, RefreshIssue
    <2>2. /\ At(w, "issue") \/ At(w, "reissue")
          /\ UNCHANGED <<now, row>> /\ Done(w)
      BY <1>2 DEF LoginIssue, RefreshIssue
    <2>3. calls[w].view = ViewOf(row) \/ now <= row.cutoff + 2 * MaxRequest
      BY <1>0, <2>2 DEF ViewInv, ReadRow, TypeOK, Row
    <2>4. CarryRow'
      BY <2>1, <2>2, <2>3 DEF ViewInv, CarryRow, ViewOf
    <2>5. OneChange' /\ ReadRow'
      BY <2>2 DEF Done, Changing, At, ViewInv, OneChange, ReadRow, ViewOf, TypeOK
    <2>6. QED
      BY <2>4, <2>5 DEF ViewInv
  <1>3. ASSUME NEW w \in Workers, RefreshIsRevoked(w) \/ RefreshFind(w)
        PROVE  ViewInv'
    <2>1. UNCHANGED <<now, row, access>>
      BY <1>3 DEF RefreshIsRevoked, RefreshFind
    <2>2. OneChange'
      BY <1>3, <2>1 DEF RefreshIsRevoked, RefreshFind, Changing, At, ViewInv,
                        OneChange, TypeOK
    <2>3. ReadRow'
      BY <1>3, <2>1 DEF RefreshIsRevoked, RefreshFind, At, ViewInv, ReadRow,
                        ViewOf, TypeOK
    <2>4. QED
      BY <2>1, <2>2, <2>3 DEF ViewInv, CarryRow, ViewOf
  <1>4. ASSUME NEW w \in Workers, Stamps(w)
        PROVE  ViewInv'
    <2>1. PICK s \in ChangeSteps : At(w, s)
      BY <1>4 DEF Stamps, Commit
    <2>2. /\ calls[w] # Null /\ row'.cutoff \in calls[w].start .. now /\ Changing(w)
          /\ UNCHANGED <<now, access>> /\ Done(w)
      BY <1>4, <2>1 DEF Stamps, Commit, At, Changing, ChangeSteps
    <2>3. \A v \in Workers : ~Changing(v)'
      BY <2>2 DEF ViewInv, OneChange, Changing, Done, At, TypeOK
    <2>4. OneChange'
      BY <2>3 DEF OneChange, Changing
    <2>5. ReadRow'
      BY <2>2, CommitWindow DEF ReadRow, Done, At, TypeOK
    <2>6. CarryRow'
      <3>1. \A t \in access : t.iat \in Nat /\ t.iat <= row'.cutoff + MaxRequest
        BY <2>2, CommitWindow DEF TypeOK, Token
      <3>2. QED
        BY <2>2, <3>1, CommitWindow DEF CarryRow
    <2>7. QED
      BY <2>4, <2>5, <2>6 DEF ViewInv
  <1>5. ASSUME NEW w \in Workers, Writes(w)
        PROVE  ViewInv'
    <2>1. /\ At(w, "update") /\ ~calls[w].bump /\ Done(w)
          /\ row' = [row EXCEPT !.grant = calls[w].want]
          /\ UNCHANGED <<now, access>>
      BY <1>5 DEF Writes, Commit
    <2>2. row' = row
      BY <2>1 DEF ViewInv, OneChange, TypeOK, Row
    <2>3. OneChange' /\ ReadRow'
      BY <2>1, <2>2 DEF Done, Changing, At, ViewInv, OneChange, ReadRow, ViewOf, TypeOK
    <2>4. QED
      BY <2>1, <2>2, <2>3 DEF ViewInv, CarryRow, ViewOf
  <1>6. ASSUME NEW w \in Workers, GiveUp(w) \/ LogoutRevoke(w)
        PROVE  ViewInv'
    <2>1. UNCHANGED <<now, row, access>> /\ Done(w)
      BY <1>6 DEF GiveUp, LogoutRevoke
    <2>2. OneChange' /\ ReadRow'
      BY <2>1 DEF Done, Changing, At, ViewInv, OneChange, ReadRow, ViewOf, TypeOK
    <2>3. QED
      BY <2>1, <2>2 DEF ViewInv, CarryRow, ViewOf
  <1>7. CASE CleanupRevoked \/ Tick \/ UNCHANGED vars
    BY <1>7 DEF CleanupRevoked, Tick, vars, ViewInv, OneChange, ReadRow, CarryRow,
                Changing, At, ViewOf
  <1>8. QED
    BY <1>1, <1>2, <1>3, <1>4, <1>5, <1>6, <1>7, Steps

\* When the changes of an admin do not overlap, an accepted token carries
\* the row's role, branch and flag, or was issued within two requests of
\* the last change.
THEOREM AcceptedTokensCurrent ==
    ASSUME ~Overlap
    PROVE  Spec => []TokensCurrent
  <1>1. TypeOK /\ Times /\ ViewInv /\ [Next]_vars
          => (TypeOK /\ Times /\ ViewInv)'
    BY StepType, StepTimes, StepView
  <1>2. TypeOK /\ ViewInv => TokensCurrent
    <2> SUFFICES ASSUME TypeOK, ViewInv, NEW t \in access, Accepted(t),
                        t.view # ViewOf(row)
                 PROVE  t.iat \in row.cutoff .. row.cutoff + 2 * MaxRequest
      BY DEF TokensCurrent
    <2>1. t.iat \in Nat /\ row.cutoff \in Nat
      BY DEF TypeOK, Token, Row
    <2>2. QED
      BY <2>1, SessionAssumption DEF Accepted, Stale, ViewInv, CarryRow
  <1>3. QED
    BY InitType, InitTimes, InitView, <1>1, <1>2, PTL DEF Spec
=============================================================================
