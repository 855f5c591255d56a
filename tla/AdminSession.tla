---------------------------- MODULE AdminSession ----------------------------
(***************************************************************************)
(* The sessions of one admin: the tokens issued to clients, the row of     *)
(* admins they are checked against, the list of revoked refresh tokens,    *)
(* and the requests that read and write them.  A token is signed and kept  *)
(* by the client, so nothing can be taken out of it later: what it may     *)
(* still do is decided by comparing it with the row.                       *)
(*                                                                         *)
(* Time is in seconds, the precision of iat; any number of steps happen in *)
(* one.  A request is one action per database access.  Whether a password  *)
(* is right, and whether an account is locked, is left open.               *)
(***************************************************************************)
EXTENDS Integers, FiniteSets

CONSTANTS
    Workers,      \* requests being handled at a time
    Sessions,     \* jti values of refresh tokens
    Grants,       \* the pairs of role and branch_id
    Null,
    AccessTTL,    \* seconds (1800 in the code)
    RefreshTTL,   \* seconds (54000 in the code)
    MaxRequest,   \* a request is over within so many seconds
    Overlap,      \* two changes of the admin may be in progress together
    MaxTime,      \* bound of the clock
    MaxIssued     \* bound on the access tokens issued

ASSUME SessionAssumption ==
    /\ AccessTTL \in Nat /\ RefreshTTL \in Nat /\ MaxRequest \in Nat
    /\ MaxTime \in Nat /\ MaxIssued \in Nat /\ Overlap \in BOOLEAN
    /\ Null \notin Nat

VARIABLES
    now,
    row,          \* the admin's row
    access,       \* the access tokens issued
    refresh,      \* the iat of each refresh token, Null before it is issued
    revoked,      \* revoked_refresh_tokens: revoked_at by jti
    loggedOut,    \* when the logout of a session was committed
    calls         \* the request each worker is in, Null when it is in none

vars == <<now, row, access, refresh, revoked, loggedOut, calls>>

View == [grant : Grants, must : BOOLEAN]

\* password_updated_at is NULL in a new row, which RequireAuth takes for
\* older than any token; 0 is that.
Row == [grant : Grants, must : BOOLEAN, cutoff : Nat, deleted : BOOLEAN]

Token == [jti : Sessions, view : View, iat : Nat]

TimeOrNull == Nat \cup {Null}

\* What a handler has in its local variables, and the access it makes next.
Call ==
    [step : {"issue"}, start : Nat, view : View]
    \cup [step : {"is_revoked", "find", "revoke"}, start : Nat, jti : Sessions]
    \cup [step : {"reissue"}, start : Nat, jti : Sessions, view : View]
    \cup [step : {"change", "reset", "delete"}, start : Nat]
    \cup [step : {"update"}, start : Nat, want : Grants, bump : BOOLEAN]

TypeOK ==
    /\ now \in Nat
    /\ row \in Row
    /\ access \subseteq Token
    /\ refresh \in [Sessions -> TimeOrNull]
    /\ revoked \in [Sessions -> TimeOrNull]
    /\ loggedOut \in [Sessions -> TimeOrNull]
    /\ calls \in [Workers -> Call \cup {Null}]

ViewOf(r) == [grant |-> r.grant, must |-> r.must]

\* CreateAdmin has run; the account must change its password.
Init ==
    /\ now = 1
    /\ \E g \in Grants :
         row = [grant |-> g, must |-> TRUE, cutoff |-> 0, deleted |-> FALSE]
    /\ access = {}
    /\ refresh = [j \in Sessions |-> Null]
    /\ revoked = [j \in Sessions |-> Null]
    /\ loggedOut = [j \in Sessions |-> Null]
    /\ calls = [w \in Workers |-> Null]

-----------------------------------------------------------------------------

Stale(iat) == iat < row.cutoff

\* ParseAccess and RequireAuth.
Accepted(t) ==
    /\ now < t.iat + AccessTTL
    /\ ~row.deleted
    /\ ~Stale(t.iat)

\* ParseRefresh.
Unexpired(j) == refresh[j] # Null /\ now < refresh[j] + RefreshTTL

At(w, step) == calls[w] # Null /\ calls[w].step = step

Changing(w) == \E s \in {"change", "reset", "delete", "update"} : At(w, s)

Begin(w, call) ==
    /\ calls[w] = Null
    /\ calls' = [calls EXCEPT ![w] = call]
    /\ UNCHANGED <<now, row, access, refresh, revoked, loggedOut>>

BeginChange(w, call) ==
    /\ Overlap \/ \A v \in Workers : ~Changing(v)
    /\ Begin(w, call)

Done(w) == calls' = [calls EXCEPT ![w] = Null]

\* Logging in: the row as it was read goes into the token, whatever has
\* become of it since.  The access and the refresh token are issued one
\* after the other, here within one second.
LoginRead(w) ==
    /\ ~row.deleted
    /\ Begin(w, [step |-> "issue", start |-> now, view |-> ViewOf(row)])

LoginIssue(w) ==
    /\ At(w, "issue") /\ Cardinality(access) < MaxIssued
    /\ \E j \in Sessions :
         /\ refresh[j] = Null
         /\ refresh' = [refresh EXCEPT ![j] = now]
         /\ access' = access \cup {[jti |-> j, view |-> calls[w].view, iat |-> now]}
    /\ Done(w)
    /\ UNCHANGED <<now, row, revoked, loggedOut>>

\* A refresh: the token's own expiry, the revocation list, the row, and the
\* new access token.
RefreshParse(w) ==
    \E j \in Sessions :
        /\ Unexpired(j)
        /\ Begin(w, [step |-> "is_revoked", start |-> now, jti |-> j])

RefreshIsRevoked(w) ==
    /\ At(w, "is_revoked")
    /\ revoked[calls[w].jti] = Null
    /\ calls' = [calls EXCEPT ![w] =
         [step |-> "find", start |-> calls[w].start, jti |-> calls[w].jti]]
    /\ UNCHANGED <<now, row, access, refresh, revoked, loggedOut>>

\* Not the program: the comparison with password_updated_at is forgotten.
WrongRefreshFind(w) ==
    /\ At(w, "find")
    /\ ~row.deleted
    /\ calls' = [calls EXCEPT ![w] =
         [step |-> "reissue", start |-> calls[w].start, jti |-> calls[w].jti,
          view |-> ViewOf(row)]]
    /\ UNCHANGED <<now, row, access, refresh, revoked, loggedOut>>

RefreshFind(w) ==
    /\ At(w, "find")
    /\ ~row.deleted
    /\ ~Stale(refresh[calls[w].jti])
    /\ calls' = [calls EXCEPT ![w] =
         [step |-> "reissue", start |-> calls[w].start, jti |-> calls[w].jti,
          view |-> ViewOf(row)]]
    /\ UNCHANGED <<now, row, access, refresh, revoked, loggedOut>>

RefreshIssue(w) ==
    /\ At(w, "reissue") /\ Cardinality(access) < MaxIssued
    /\ access' = access \cup
         {[jti |-> calls[w].jti, view |-> calls[w].view, iat |-> now]}
    /\ Done(w)
    /\ UNCHANGED <<now, row, refresh, revoked, loggedOut>>

\* A logout needs an access token of the admin and a refresh token of the
\* admin, not necessarily of one session.
LogoutParse(w) ==
    \E j \in Sessions :
        /\ \E t \in access : Accepted(t)
        /\ Unexpired(j)
        /\ Begin(w, [step |-> "revoke", start |-> now, jti |-> j])

\* The insert does nothing when the jti is there already.
LogoutRevoke(w) ==
    LET j == calls[w].jti IN
    /\ At(w, "revoke")
    /\ revoked' = [revoked EXCEPT ![j] = IF @ = Null THEN calls[w].start ELSE @]
    /\ loggedOut' = [loggedOut EXCEPT ![j] = IF @ = Null THEN now ELSE @]
    /\ Done(w)
    /\ UNCHANGED <<now, row, access, refresh>>

-----------------------------------------------------------------------------
(***************************************************************************)
(* The changes of the row.  Each is stamped with a time its handler read   *)
(* before the transaction: PasswordChange and Delete when they begin,      *)
(* ResetPassword and Update after they have read the row.  The admin       *)
(* changes the password, another admin does the rest.                      *)
(***************************************************************************)

PasswordChange(w) ==
    /\ \E t \in access : Accepted(t)
    /\ BeginChange(w, [step |-> "change", start |-> now])

ResetPassword(w) ==
    /\ ~row.deleted
    /\ BeginChange(w, [step |-> "reset", start |-> now])

Delete(w) == BeginChange(w, [step |-> "delete", start |-> now])

\* Whether role or branch_id change is decided on the row read here.  want
\* is what the two are to be together; a PATCH of the user name alone wants
\* what is there.
Update(w) ==
    \E want \in Grants :
        /\ ~row.deleted
        /\ BeginChange(w, [step |-> "update", start |-> now, want |-> want,
                           bump |-> want # row.grant])

\* Every statement names deleted_at IS NULL: on a deleted row it changes
\* nothing and the request ends as in GiveUp.
Commit(w, step, new) ==
    /\ At(w, step)
    /\ ~row.deleted
    /\ row' = new
    /\ Done(w)
    /\ UNCHANGED <<now, access, refresh, revoked, loggedOut>>

UpdatePasswordRow(w) ==
    Commit(w, "change", [row EXCEPT !.must = FALSE, !.cutoff = calls[w].start])

ResetPasswordRow(w) ==
    At(w, "reset") /\ \E stamp \in calls[w].start .. now :
        Commit(w, "reset", [row EXCEPT !.must = TRUE, !.cutoff = stamp])

SoftDeleteAdmin(w) ==
    Commit(w, "delete", [row EXCEPT !.deleted = TRUE, !.cutoff = calls[w].start])

\* Not the program: BumpPasswordUpdatedAt is forgotten.
WrongUpdateAdmin(w) ==
    Commit(w, "update", [row EXCEPT !.grant = calls[w].want])

UpdateAdmin(w) ==
    At(w, "update") /\ \E stamp \in calls[w].start .. now :
        Commit(w, "update",
               [row EXCEPT !.grant  = calls[w].want,
                           !.cutoff = IF calls[w].bump THEN stamp ELSE @])

\* A refusal, an error, a disconnected client: the request ends and its
\* transaction, if any, is rolled back.
GiveUp(w) ==
    /\ calls[w] # Null
    /\ Done(w)
    /\ UNCHANGED <<now, row, access, refresh, revoked, loggedOut>>

\* Not the program: the list is kept for the life of an access token.
WrongCleanupRevoked ==
    /\ revoked' = [j \in Sessions |->
         IF revoked[j] # Null /\ revoked[j] < now - AccessTTL
         THEN Null ELSE revoked[j]]
    /\ UNCHANGED <<now, row, access, refresh, loggedOut, calls>>

\* Step 5 of the daily batch.
CleanupRevoked ==
    /\ revoked' = [j \in Sessions |->
         IF revoked[j] # Null /\ revoked[j] < now - RefreshTTL
         THEN Null ELSE revoked[j]]
    /\ UNCHANGED <<now, row, access, refresh, loggedOut, calls>>

Tick ==
    /\ now < MaxTime
    /\ \A w \in Workers : calls[w] # Null => now < calls[w].start + MaxRequest
    /\ now' = now + 1
    /\ UNCHANGED <<row, access, refresh, revoked, loggedOut, calls>>

Next ==
    \/ \E w \in Workers :
         \/ LoginRead(w) \/ LoginIssue(w)
         \/ RefreshParse(w) \/ RefreshIsRevoked(w)
         \/ RefreshFind(w) \/ RefreshIssue(w)
         \/ LogoutParse(w) \/ LogoutRevoke(w)
         \/ PasswordChange(w) \/ UpdatePasswordRow(w)
         \/ ResetPassword(w) \/ ResetPasswordRow(w)
         \/ Delete(w) \/ SoftDeleteAdmin(w)
         \/ Update(w) \/ UpdateAdmin(w)
         \/ GiveUp(w)
    \/ CleanupRevoked
    \/ Tick

Spec == Init /\ [][Next]_vars

-----------------------------------------------------------------------------

\* What RequireAuth lets through is what the row says now, or was issued so
\* soon after the last change that its handler may have read the row before:
\* a change takes up to MaxRequest from its stamp to its commit, and a login
\* or refresh up to MaxRequest from reading the row to issuing.  It is what
\* stamping password_updated_at in Update, PasswordChange and ResetPassword
\* is for, when no two changes overlap.
TokensCurrent ==
    \A t \in access :
        Accepted(t) =>
            \/ t.view = ViewOf(row)
            \/ t.iat \in row.cutoff .. row.cutoff + 2 * MaxRequest

\* A session begun before the last change of the row soon gets no more
\* access tokens out of Refresh, although its refresh token lives on and
\* password_updated_at can move back when two changes overlap.
SessionEnds ==
    \A t \in access :
        refresh[t.jti] < row.cutoff => t.iat <= row.cutoff + 2 * MaxRequest

\* After Logout a session gets no more access tokens, although the batch
\* takes its jti off the list again: only a request under way at the time,
\* or one that outlasted the expiry of the refresh token, still issues one.
LogoutEnds ==
    \A t \in access :
        loggedOut[t.jti] # Null =>
            \/ t.iat <= loggedOut[t.jti] + MaxRequest
            \/ t.iat > refresh[t.jti] + RefreshTTL
=============================================================================
