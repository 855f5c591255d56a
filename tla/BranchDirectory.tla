--------------------------- MODULE BranchDirectory ---------------------------
(***************************************************************************)
(* Branches and the people that belong to them: members, and admins of one *)
(* branch.  Deletion is soft, so the foreign keys never object, and that   *)
(* nobody is left in a deleted branch is up to the handlers: one that puts *)
(* a person in a branch looks first whether the branch is there, and the   *)
(* one that deletes a branch counts first who is in it.  Every statement   *)
(* is an action: a transaction is READ COMMITTED and locks nothing here    *)
(* that the others wait for.                                               *)
(***************************************************************************)
EXTENDS Integers

CONSTANTS
    Workers,      \* requests being handled at a time
    Branches,
    Members,
    Admins,
    Null,
    MaxRequest,   \* a request is over within so many units of time
    MaxTime       \* bound of the clock

ASSUME DirectoryAssumption ==
    /\ MaxRequest \in Nat /\ MaxTime \in Nat
    /\ Null \notin Branches
    /\ Null \notin Nat
    /\ Members \cap Admins = {}

VARIABLES
    now,
    opened,       \* the rows of branches
    deletedAt,    \* their deleted_at
    person,       \* the rows of members and admins; Null before the insert
    calls         \* the request each worker is in, Null when it is in none

vars == <<now, opened, deletedAt, person, calls>>

People == Members \cup Admins

\* since: when the row got its branch_id.  An admin with no branch is global.
Person == [branch : Branches \cup {Null}, since : Nat, active : BOOLEAN]

Call ==
    [step : {"count_members", "count_admins", "soft_delete", "insert_member"},
     branch : Branches, start : Nat]
    \cup [step : {"insert_admin"}, branch : Branches \cup {Null}, start : Nat]
    \cup [step : {"get_branch", "update_admin"}, branch : Branches \cup {Null},
          start : Nat, admin : Admins]

TypeOK ==
    /\ now \in Nat
    /\ opened \subseteq Branches
    /\ deletedAt \in [Branches -> Nat \cup {Null}]
    /\ person \in [People -> Person \cup {Null}]
    /\ calls \in [Workers -> Call \cup {Null}]

\* The seeded branch-less admin is not among Admins: it is always there.
Init ==
    /\ now = 0
    /\ opened = {}
    /\ deletedAt = [b \in Branches |-> Null]
    /\ person = [p \in People |-> Null]
    /\ calls = [w \in Workers |-> Null]

-----------------------------------------------------------------------------

\* GetBranch finds the branch.
Alive(b) == b \in opened /\ deletedAt[b] = Null

Active(p) == person[p] # Null /\ person[p].active

In(group, b) == {p \in group : Active(p) /\ person[p].branch = b}

At(w, step) == calls[w] # Null /\ calls[w].step = step

Begin(w, call) ==
    /\ calls[w] = Null
    /\ calls' = [calls EXCEPT ![w] = call]
    /\ UNCHANGED <<now, opened, deletedAt, person>>

\* The request of w goes on with another statement.
Proceed(w, step) ==
    /\ calls' = [calls EXCEPT ![w].step = step]
    /\ UNCHANGED <<now, opened, deletedAt, person>>

Done(w) == calls' = [calls EXCEPT ![w] = Null]

InsertBranch ==
    \E b \in Branches \ opened :
        /\ opened' = opened \cup {b}
        /\ UNCHANGED <<now, deletedAt, person, calls>>

-----------------------------------------------------------------------------
(***************************************************************************)
(* DELETE /api/branches/:id: is it there, who is in it, delete it.  The    *)
(* time written is the one read before the transaction.                    *)
(***************************************************************************)

DeleteBranch(w) ==
    \E b \in Branches :
        /\ Alive(b)
        /\ Begin(w, [step |-> "count_members", branch |-> b, start |-> now])

CountActiveMembers(w) ==
    /\ At(w, "count_members")
    /\ In(Members, calls[w].branch) = {}
    /\ Proceed(w, "count_admins")

\* Not the program: the admins of the branch do not count.
WrongCountActiveAdmins(w) ==
    /\ At(w, "count_admins")
    /\ Proceed(w, "soft_delete")

CountActiveAdmins(w) ==
    /\ At(w, "count_admins")
    /\ In(Admins, calls[w].branch) = {}
    /\ Proceed(w, "soft_delete")

\* Of two deletions the second finds no row.
SoftDeleteBranch(w) ==
    /\ At(w, "soft_delete")
    /\ deletedAt[calls[w].branch] = Null
    /\ deletedAt' = [deletedAt EXCEPT ![calls[w].branch] = calls[w].start]
    /\ Done(w)
    /\ UNCHANGED <<now, opened, person>>

-----------------------------------------------------------------------------
(***************************************************************************)
(* Members and admins.  A row gets its branch a statement after the branch *)
(* was looked up.                                                          *)
(***************************************************************************)

\* The body of a global admin's request names the branch; a branch admin's
\* own branch is taken.
CreateMember(w) ==
    \E b \in Branches :
        /\ Alive(b)
        /\ Begin(w, [step |-> "insert_member", branch |-> b, start |-> now])

Insert(w, p) ==
    /\ person[p] = Null
    /\ person' = [person EXCEPT ![p] =
         [branch |-> calls[w].branch, since |-> now, active |-> TRUE]]
    /\ Done(w)
    /\ UNCHANGED <<now, opened, deletedAt>>

InsertMember(w) ==
    /\ At(w, "insert_member")
    /\ \E m \in Members : Insert(w, m)

CreateAdmin(w) ==
    \E b \in Branches \cup {Null} :
        /\ b # Null => Alive(b)
        /\ Begin(w, [step |-> "insert_admin", branch |-> b, start |-> now])

InsertAdmin(w) ==
    /\ At(w, "insert_admin")
    /\ \E a \in Admins : Insert(w, a)

\* PATCH /api/admins/:id with a branch_id: the admin's row, the branch, the
\* update.  Whether the caller may do so to this admin is left open.
UpdateAdmin(w) ==
    \E a \in Admins, b \in Branches \cup {Null} :
        /\ Active(a)
        /\ Begin(w, [step |-> "get_branch", branch |-> b, start |-> now, admin |-> a])

GetNewBranch(w) ==
    /\ At(w, "get_branch")
    /\ calls[w].branch # Null => Alive(calls[w].branch)
    /\ Proceed(w, "update_admin")

\* An update that names the branch the admin is in leaves it there.
WriteAdmin(w) ==
    LET a == calls[w].admin
        p == person[a] IN
    /\ At(w, "update_admin")
    /\ Active(a)
    /\ person' = [person EXCEPT ![a] =
         [p EXCEPT !.branch = calls[w].branch,
                   !.since  = IF p.branch = calls[w].branch THEN p.since ELSE now]]
    /\ Done(w)
    /\ UNCHANGED <<now, opened, deletedAt>>

\* SoftDeleteMember and SoftDeleteAdmin.
Remove(p) ==
    /\ Active(p)
    /\ person' = [person EXCEPT ![p].active = FALSE]
    /\ UNCHANGED <<now, opened, deletedAt, calls>>

\* A refusal, an error, a conflict on a phone number or user name.
GiveUp(w) ==
    /\ calls[w] # Null
    /\ Done(w)
    /\ UNCHANGED <<now, opened, deletedAt, person>>

Tick ==
    /\ now < MaxTime
    /\ \A w \in Workers : calls[w] # Null => now < calls[w].start + MaxRequest
    /\ now' = now + 1
    /\ UNCHANGED <<opened, deletedAt, person, calls>>

Next ==
    \/ InsertBranch
    \/ \E w \in Workers :
         \/ DeleteBranch(w) \/ CountActiveMembers(w) \/ CountActiveAdmins(w)
         \/ SoftDeleteBranch(w)
         \/ CreateMember(w) \/ InsertMember(w)
         \/ CreateAdmin(w) \/ InsertAdmin(w)
         \/ UpdateAdmin(w) \/ GetNewBranch(w) \/ WriteAdmin(w)
         \/ GiveUp(w)
    \/ \E p \in People : Remove(p)
    \/ Tick

Spec == Init /\ [][Next]_vars

-----------------------------------------------------------------------------

Stranded(p) ==
    /\ Active(p)
    /\ person[p].branch # Null
    /\ deletedAt[person[p].branch] # Null

\* Only a race leaves a person in a deleted branch: one who was there before
\* the deletion began was counted, and one who comes later than two requests
\* after it would have missed the branch.
StrandedByRaceOnly ==
    \A p \in People :
        Stranded(p) =>
            LET d == deletedAt[person[p].branch] IN
            person[p].since \in d .. d + 2 * MaxRequest
=============================================================================
