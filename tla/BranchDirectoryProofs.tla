------------------------- MODULE BranchDirectoryProofs -------------------------
(***************************************************************************)
(* What is proved of BranchDirectory for all sets of branches, members,    *)
(* admins and workers and every bound on the length of a request.          *)
(***************************************************************************)
EXTENDS BranchDirectory, TLAPS

\* The shapes of a request, one by one.
LEMMA CallShapes ==
    ASSUME NEW c \in Call
    PROVE  /\ c.start \in Nat
           /\ c.branch \in Branches \cup {Null}
           /\ c.step \in {"count_members", "count_admins", "soft_delete",
                          "insert_member"} => c.branch \in Branches
           /\ c.step \in {"get_branch", "update_admin"} => c.admin \in Admins
  <1>1. CASE c \in [step : {"count_members", "count_admins", "soft_delete",
                            "insert_member"}, branch : Branches, start : Nat]
    BY <1>1
  <1>2. CASE c \in [step : {"insert_admin"}, branch : Branches \cup {Null},
                    start : Nat]
    BY <1>2
  <1>3. CASE c \in [step : {"get_branch", "update_admin"},
                    branch : Branches \cup {Null}, start : Nat, admin : Admins]
    BY <1>3
  <1>4. QED
    BY <1>1, <1>2, <1>3 DEF Call

LEMMA AtCall ==
    ASSUME TypeOK, NEW w \in Workers, NEW s, At(w, s)
    PROVE  calls[w] \in Call /\ calls[w].step = s
  BY DEF TypeOK, At

\* A request that goes on keeps what it knows.
LEMMA ProceedCall ==
    ASSUME TypeOK, NEW w \in Workers, NEW s, NEW t, At(w, s), Proceed(w, t),
           \/ s = "count_members" /\ t = "count_admins"
           \/ s = "count_admins" /\ t = "soft_delete"
           \/ s = "get_branch" /\ t = "update_admin"
    PROVE  /\ calls' \in [Workers -> Call \cup {Null}]
           /\ calls'[w] \in Call
           /\ calls'[w].step = t
           /\ calls'[w].branch = calls[w].branch
           /\ calls'[w].start = calls[w].start
           /\ \A v \in Workers : v # w => calls'[v] = calls[v]
  <1> DEFINE c == calls[w]
             d == [c EXCEPT !.step = t]
  <1>1. c \in Call /\ c.step = s
    BY AtCall
  <1>2. d \in Call /\ d.step = t /\ d.branch = c.branch /\ d.start = c.start
    <2>1. CASE c \in [step : {"count_members", "count_admins", "soft_delete",
                              "insert_member"}, branch : Branches, start : Nat]
      BY <1>1, <2>1 DEF Call
    <2>2. CASE c \in [step : {"insert_admin"}, branch : Branches \cup {Null},
                      start : Nat]
      BY <1>1, <2>2
    <2>3. CASE c \in [step : {"get_branch", "update_admin"},
                      branch : Branches \cup {Null}, start : Nat, admin : Admins]
      BY <1>1, <2>3 DEF Call
    <2>4. QED
      BY <1>1, <2>1, <2>2, <2>3 DEF Call
  <1>3. calls' = [calls EXCEPT ![w] = d]
    BY DEF Proceed
  <1> HIDE DEF c, d
  <1>4. /\ calls' \in [Workers -> Call \cup {Null}] /\ calls'[w] = d
        /\ \A v \in Workers : v # w => calls'[v] = calls[v]
    BY <1>2, <1>3 DEF TypeOK
  <1>5. QED
    BY <1>2, <1>4 DEF c

-----------------------------------------------------------------------------
(***************************************************************************)
(* The steps by what they do to the state.                                 *)
(***************************************************************************)

\* A request that is taken up: one that looked for the branch found it.
Fresh(c) ==
    /\ c \in Call
    /\ c.start = now
    /\ c.step \notin {"count_admins", "soft_delete", "update_admin"}
    /\ c.step \in {"insert_member", "insert_admin"} /\ c.branch # Null
         => Alive(c.branch)

Begins(w) == \E c : Fresh(c) /\ Begin(w, c)

\* Somebody gets the branch of the request of w.
Joins(w) ==
    /\ At(w, "insert_member") \/ At(w, "insert_admin") \/ At(w, "update_admin")
    /\ \E p \in People, new \in Person :
         /\ new.branch = calls[w].branch
         /\ \/ new.since = now
            \/ Active(p) /\ new.branch = person[p].branch /\ new.since = person[p].since
         /\ person' = [person EXCEPT ![p] = new]
    /\ Done(w)
    /\ UNCHANGED <<now, opened, deletedAt>>

LEMMA Steps ==
    ASSUME TypeOK, Next
    PROVE  \/ InsertBranch
           \/ \E w \in Workers :
                \/ Begins(w) \/ CountActiveMembers(w) \/ CountActiveAdmins(w)
                \/ SoftDeleteBranch(w) \/ GetNewBranch(w) \/ Joins(w) \/ GiveUp(w)
           \/ \E p \in People : Remove(p)
           \/ Tick
  <1>1. ASSUME NEW w \in Workers, DeleteBranch(w) \/ CreateMember(w)
        PROVE  Begins(w)
    <2>1. PICK b \in Branches, s \in {"count_members", "insert_member"} :
            Alive(b) /\ Begin(w, [step |-> s, branch |-> b, start |-> now])
      BY <1>1 DEF DeleteBranch, CreateMember
    <2> DEFINE c == [step |-> s, branch |-> b, start |-> now]
    <2>2. Fresh(c)
      BY <2>1 DEF Fresh, Call, TypeOK
    <2>3. QED
      BY <2>1, <2>2 DEF Begins
  <1>2. ASSUME NEW w \in Workers, CreateAdmin(w)
        PROVE  Begins(w)
    <2>1. PICK b \in Branches \cup {Null} :
            /\ b # Null => Alive(b)
            /\ Begin(w, [step |-> "insert_admin", branch |-> b, start |-> now])
      BY <1>2 DEF CreateAdmin
    <2> DEFINE c == [step |-> "insert_admin", branch |-> b, start |-> now]
    <2>2. Fresh(c)
      BY <2>1 DEF Fresh, Call, TypeOK
    <2>3. QED
      BY <2>1, <2>2 DEF Begins
  <1>3. ASSUME NEW w \in Workers, UpdateAdmin(w)
        PROVE  Begins(w)
    <2>1. PICK a \in Admins, b \in Branches \cup {Null} :
            Begin(w, [step |-> "get_branch", branch |-> b, start |-> now, admin |-> a])
      BY <1>3 DEF UpdateAdmin
    <2> DEFINE c == [step |-> "get_branch", branch |-> b, start |-> now, admin |-> a]
    <2>2. Fresh(c)
      BY <2>1 DEF Fresh, Call, TypeOK
    <2>3. QED
      BY <2>1, <2>2 DEF Begins
  <1>4. ASSUME NEW w \in Workers, InsertMember(w) \/ InsertAdmin(w)
        PROVE  Joins(w)
    <2>1. PICK p \in People : Insert(w, p)
      BY <1>4 DEF InsertMember, InsertAdmin, People
    <2>2. calls[w].branch \in Branches \cup {Null}
      BY <1>4, AtCall, CallShapes DEF InsertMember, InsertAdmin
    <2> DEFINE new == [branch |-> calls[w].branch, since |-> now, active |-> TRUE]
    <2>3. new \in Person /\ new.branch = calls[w].branch /\ new.since = now
      BY <2>2 DEF Person, TypeOK
    <2>4. person' = [person EXCEPT ![p] = new]
      BY <2>1 DEF Insert
    <2> HIDE DEF new
    <2>5. QED
      BY <1>4, <2>1, <2>3, <2>4 DEF Joins, Insert, InsertMember, InsertAdmin
  <1>5. ASSUME NEW w \in Workers, WriteAdmin(w)
        PROVE  Joins(w)
    <2> DEFINE a == calls[w].admin
               q == person[a]
               new == [q EXCEPT !.branch = calls[w].branch,
                                !.since  = IF q.branch = calls[w].branch
                                           THEN q.since ELSE now]
    <2>1. /\ At(w, "update_admin") /\ Active(a) /\ Done(w)
          /\ person' = [person EXCEPT ![a] = new]
          /\ UNCHANGED <<now, opened, deletedAt>>
      BY <1>5 DEF WriteAdmin
    <2>2. a \in People /\ calls[w].branch \in Branches \cup {Null}
      BY <2>1, AtCall, CallShapes DEF People
    <2>3. q \in Person
      BY <2>1, <2>2 DEF Active, TypeOK
    <2>4. /\ new \in Person /\ new.branch = calls[w].branch
          /\ new.since = now \/ (new.branch = q.branch /\ new.since = q.since)
      <3>1. CASE q.branch = calls[w].branch
        BY <2>2, <2>3, <3>1 DEF Person, TypeOK
      <3>2. CASE q.branch # calls[w].branch
        BY <2>2, <2>3, <3>2 DEF Person, TypeOK
      <3>3. QED
        BY <3>1, <3>2
    <2> HIDE DEF new
    <2>5. QED
      BY <2>1, <2>2, <2>4 DEF Joins
  <1>6. QED
    BY <1>1, <1>2, <1>3, <1>4, <1>5 DEF Next

-----------------------------------------------------------------------------

LEMMA InitType == Init => TypeOK
  BY DEF Init, TypeOK

LEMMA StepType ==
    ASSUME TypeOK, [Next]_vars
    PROVE  TypeOK'
  <1>1. CASE InsertBranch
    BY <1>1 DEF InsertBranch, TypeOK
  <1>2. ASSUME NEW w \in Workers, Begins(w)
        PROVE  TypeOK'
    BY <1>2 DEF Begins, Fresh, Begin, TypeOK
  <1>3. ASSUME NEW w \in Workers,
               CountActiveMembers(w) \/ CountActiveAdmins(w) \/ GetNewBranch(w)
        PROVE  TypeOK'
    <2>1. /\ calls' \in [Workers -> Call \cup {Null}]
          /\ UNCHANGED <<now, opened, deletedAt, person>>
      BY <1>3, ProceedCall DEF CountActiveMembers, CountActiveAdmins, GetNewBranch,
                               Proceed
    <2>2. QED
      BY <2>1 DEF TypeOK
  <1>4. ASSUME NEW w \in Workers, SoftDeleteBranch(w)
        PROVE  TypeOK'
    <2>1. calls[w].start \in Nat /\ calls[w].branch \in Branches
      BY <1>4, AtCall, CallShapes DEF SoftDeleteBranch
    <2>2. QED
      BY <1>4, <2>1 DEF SoftDeleteBranch, Done, TypeOK
  <1>5. ASSUME NEW w \in Workers, Joins(w)
        PROVE  TypeOK'
    BY <1>5 DEF Joins, Done, TypeOK
  <1>6. ASSUME NEW w \in Workers, GiveUp(w)
        PROVE  TypeOK'
    BY <1>6 DEF GiveUp, Done, TypeOK
  <1>7. ASSUME NEW p \in People, Remove(p)
        PROVE  TypeOK'
    <2>1. person[p] \in Person
      BY <1>7 DEF Remove, Active, TypeOK
    <2>2. [person[p] EXCEPT !.active = FALSE] \in Person
      BY <2>1 DEF Person
    <2>3. person' = [person EXCEPT ![p] = [person[p] EXCEPT !.active = FALSE]]
      BY <1>7 DEF Remove
    <2>4. QED
      BY <1>7, <2>2, <2>3 DEF Remove, TypeOK
  <1>8. CASE Tick
    BY <1>8 DEF Tick, TypeOK
  <1>9. CASE UNCHANGED vars
    BY <1>9 DEF vars, TypeOK
  <1>10. QED
    BY <1>1, <1>2, <1>3, <1>4, <1>5, <1>6, <1>7, <1>8, <1>9, Steps

\* Rows, times and requests have their types in every reachable state.
THEOREM TypeCorrect == Spec => []TypeOK
  <1>1. QED
    BY InitType, StepType, PTL DEF Spec

-----------------------------------------------------------------------------
(***************************************************************************)
(* What a deletion that has counted knows, and what a request that has     *)
(* looked a branch up knows.                                               *)
(***************************************************************************)

Times ==
    /\ \A w \in Workers : calls[w] # Null =>
         calls[w].start <= now /\ now <= calls[w].start + MaxRequest
    /\ \A p \in People : person[p] # Null => person[p].since <= now
    /\ \A b \in Branches : deletedAt[b] # Null => deletedAt[b] <= now

\* Whoever was counted as absent has come since the deletion began.
Late(group, b, start) ==
    \A p \in group :
        Active(p) /\ person[p].branch = b => start <= person[p].since

Counted ==
    \A w \in Workers :
        /\ At(w, "count_admins") => Late(Members, calls[w].branch, calls[w].start)
        /\ At(w, "soft_delete")  => Late(People, calls[w].branch, calls[w].start)

Joining(w) == At(w, "insert_member") \/ At(w, "insert_admin") \/ At(w, "update_admin")

\* A request that found a branch since deleted began before the deletion
\* was committed.
Looked ==
    \A w \in Workers :
        Joining(w) /\ calls[w].branch # Null /\ deletedAt[calls[w].branch] # Null
            => calls[w].start <= deletedAt[calls[w].branch] + MaxRequest

DirectoryInv == Times /\ Counted /\ Looked /\ StrandedByRaceOnly

LEMMA InitDirectory == Init => DirectoryInv
  <1> SUFFICES ASSUME Init
               PROVE  DirectoryInv
    OBVIOUS
  <1>1. \A w \in Workers : calls[w] = Null
    BY DEF Init
  <1>2. \A p \in People : ~Active(p) /\ person[p] = Null
    BY DEF Init, Active
  <1>3. Times
    <2>1. \A b \in Branches : deletedAt[b] = Null
      BY DEF Init
    <2>2. QED
      BY <1>1, <1>2, <2>1 DEF Times
  <1>4. Counted /\ Looked
    <2>1. \A w \in Workers :
            ~At(w, "count_admins") /\ ~At(w, "soft_delete") /\ ~Joining(w)
      BY <1>1 DEF At, Joining
    <2>2. Counted
      BY <2>1 DEF Counted
    <2>3. Looked
      BY <2>1 DEF Looked
    <2>4. QED
      BY <2>2, <2>3
  <1>5. StrandedByRaceOnly
    BY <1>2 DEF StrandedByRaceOnly, Stranded
  <1>6. QED
    BY <1>3, <1>4, <1>5 DEF DirectoryInv

LEMMA StepTimes ==
    ASSUME TypeOK, Times, [Next]_vars
    PROVE  Times'
  <1> USE DirectoryAssumption
  <1>1. CASE InsertBranch
    BY <1>1 DEF InsertBranch, Times
  <1>2. ASSUME NEW w \in Workers, Begins(w)
        PROVE  Times'
    BY <1>2 DEF Begins, Fresh, Begin, TypeOK, Times
  <1>3. ASSUME NEW w \in Workers,
               CountActiveMembers(w) \/ CountActiveAdmins(w) \/ GetNewBranch(w)
        PROVE  Times'
    <2>1. /\ calls[w] # Null /\ calls'[w].start = calls[w].start
          /\ \A v \in Workers : v # w => calls'[v] = calls[v]
          /\ UNCHANGED <<now, opened, deletedAt, person>>
      BY <1>3, ProceedCall DEF CountActiveMembers, CountActiveAdmins, GetNewBranch,
                               Proceed, At
    <2>2. QED
      BY <2>1 DEF Times
  <1>4. ASSUME NEW w \in Workers, SoftDeleteBranch(w)
        PROVE  Times'
    <2>1. calls[w].branch \in Branches
      BY <1>4, AtCall, CallShapes DEF SoftDeleteBranch
    <2>2. calls[w] # Null /\ calls[w].start <= now
      BY <1>4 DEF SoftDeleteBranch, At, Times
    <2>3. QED
      BY <1>4, <2>1, <2>2 DEF SoftDeleteBranch, Done, TypeOK, Times
  <1>5. ASSUME NEW w \in Workers, Joins(w)
        PROVE  Times'
    <2>1. PICK p \in People, new \in Person :
            /\ new.since = now \/ (Active(p) /\ new.since = person[p].since)
            /\ person' = [person EXCEPT ![p] = new]
      BY <1>5 DEF Joins
    <2>2. new.since <= now
      BY <2>1 DEF Active, Times, TypeOK
    <2>3. QED
      BY <1>5, <2>1, <2>2 DEF Joins, Done, TypeOK, Times
  <1>6. ASSUME NEW w \in Workers, GiveUp(w)
        PROVE  Times'
    BY <1>6 DEF GiveUp, Done, TypeOK, Times
  <1>7. ASSUME NEW p \in People, Remove(p)
        PROVE  Times'
    <2>1. person[p] \in Person /\ person[p] # Null
      BY <1>7 DEF Remove, Active, TypeOK
    <2>2. /\ person' = [person EXCEPT ![p] = [person[p] EXCEPT !.active = FALSE]]
          /\ [person[p] EXCEPT !.active = FALSE].since = person[p].since
      BY <1>7, <2>1 DEF Remove, Person
    <2>3. QED
      BY <1>7, <2>1, <2>2 DEF Remove, TypeOK, Times
  <1>8. CASE Tick
    <2>1. \A w \in Workers : calls[w] # Null => calls[w].start \in Nat
      BY CallShapes DEF TypeOK
    <2>2. \A p \in People : person[p] # Null => person[p].since \in Nat
      BY DEF TypeOK, Person
    <2>3. \A b \in Branches : deletedAt[b] # Null => deletedAt[b] \in Nat
      BY DEF TypeOK
    <2>4. QED
      BY <1>8, <2>1, <2>2, <2>3 DEF Tick, TypeOK, Times
  <1>9. CASE UNCHANGED vars
    BY <1>9 DEF vars, Times
  <1>10. QED
    BY <1>1, <1>2, <1>3, <1>4, <1>5, <1>6, <1>7, <1>8, <1>9, Steps

\* Counted, Looked and StrandedByRaceOnly are about the active rows, which a
\* step that changes neither rows nor requests leaves as they are.
LEMMA StepCounted ==
    ASSUME TypeOK, Times, Counted, [Next]_vars
    PROVE  Counted'
  <1> USE DirectoryAssumption
  <1>1. CASE InsertBranch
    BY <1>1 DEF InsertBranch, Counted, Late, At, Active
  <1>2. ASSUME NEW w \in Workers, Begins(w)
        PROVE  Counted'
    BY <1>2 DEF Begins, Fresh, Begin, TypeOK, Counted, Late, At, Active
  <1>3. ASSUME NEW w \in Workers, CountActiveMembers(w)
        PROVE  Counted'
    <2>1. /\ calls'[w].step = "count_admins" /\ calls'[w].branch = calls[w].branch
          /\ \A v \in Workers : v # w => calls'[v] = calls[v]
          /\ UNCHANGED person
      BY <1>3, ProceedCall DEF CountActiveMembers, Proceed
    <2>2. \A m \in Members : ~(Active(m) /\ person[m].branch = calls[w].branch)
      BY <1>3 DEF CountActiveMembers, In
    <2>3. QED
      BY <2>1, <2>2 DEF Counted, Late, At, Active
  <1>4. ASSUME NEW w \in Workers, CountActiveAdmins(w)
        PROVE  Counted'
    <2>1. /\ calls'[w].step = "soft_delete" /\ calls'[w].branch = calls[w].branch
          /\ calls'[w].start = calls[w].start
          /\ \A v \in Workers : v # w => calls'[v] = calls[v]
          /\ UNCHANGED person
      BY <1>4, ProceedCall DEF CountActiveAdmins, Proceed
    <2>2. \A a \in Admins : ~(Active(a) /\ person[a].branch = calls[w].branch)
      BY <1>4 DEF CountActiveAdmins, In
    <2>3. Late(Members, calls[w].branch, calls[w].start)
      BY <1>4 DEF CountActiveAdmins, Counted
    <2>4. Late(People, calls[w].branch, calls[w].start)
      BY <2>2, <2>3 DEF Late, People
    <2>5. QED
      BY <2>1, <2>4 DEF Counted, Late, At, Active
  <1>5. ASSUME NEW w \in Workers, GetNewBranch(w)
        PROVE  Counted'
    <2>1. /\ calls'[w].step = "update_admin"
          /\ \A v \in Workers : v # w => calls'[v] = calls[v]
          /\ UNCHANGED person
      BY <1>5, ProceedCall DEF GetNewBranch, Proceed
    <2>2. QED
      BY <2>1 DEF Counted, Late, At, Active
  <1>6. ASSUME NEW w \in Workers, SoftDeleteBranch(w) \/ GiveUp(w)
        PROVE  Counted'
    BY <1>6 DEF SoftDeleteBranch, GiveUp, Done, TypeOK, Counted, Late, At, Active
  <1>7. ASSUME NEW w \in Workers, Joins(w)
        PROVE  Counted'
    <2>1. PICK p \in People, new \in Person :
            /\ \/ new.since = now
               \/ Active(p) /\ new.branch = person[p].branch /\ new.since = person[p].since
            /\ person' = [person EXCEPT ![p] = new]
      BY <1>7 DEF Joins
    <2>2. \A v \in Workers : calls'[v] # Null => calls'[v] = calls[v]
      BY <1>7 DEF Joins, Done, TypeOK
    <2>3. ASSUME NEW group, group \subseteq People, NEW v \in Workers,
                 calls[v] # Null, Late(group, calls[v].branch, calls[v].start)
          PROVE  Late(group, calls[v].branch, calls[v].start)'
                   \/ calls'[v] # calls[v]
      <3>1. calls[v].start <= now
        BY <2>3 DEF Times
      <3>2. ASSUME NEW q \in group, Active(q)', person'[q].branch = calls[v].branch
            PROVE  calls[v].start <= person'[q].since
        <4>1. CASE q # p
          BY <2>1, <2>3, <3>2, <4>1 DEF Late, Active, TypeOK
        <4>2. CASE q = p
          BY <2>1, <2>3, <3>1, <3>2, <4>2 DEF Late, Active, TypeOK
        <4>3. QED
          BY <4>1, <4>2
      <3>3. QED
        BY <3>2 DEF Late
    <2>4. QED
      BY <2>2, <2>3 DEF Counted, At, People
  <1>8. ASSUME NEW p \in People, Remove(p)
        PROVE  Counted'
    <2>1. \A q \in People : Active(q)' => Active(q) /\ person'[q] = person[q]
      <3>1. person[p] \in Person
        BY <1>8 DEF Remove, Active, TypeOK
      <3>2. person' = [person EXCEPT ![p] = [person[p] EXCEPT !.active = FALSE]]
        BY <1>8 DEF Remove
      <3>3. [person[p] EXCEPT !.active = FALSE].active = FALSE
        BY <3>1 DEF Person
      <3>4. QED
        BY <3>2, <3>3 DEF Active, TypeOK
    <2>2. QED
      BY <1>8, <2>1 DEF Remove, Counted, Late, At, People
  <1>9. CASE Tick \/ UNCHANGED vars
    BY <1>9 DEF Tick, vars, Counted, Late, At, Active
  <1>10. QED
    BY <1>1, <1>2, <1>3, <1>4, <1>5, <1>6, <1>7, <1>8, <1>9, Steps

LEMMA StepLooked ==
    ASSUME TypeOK, Times, Looked, [Next]_vars
    PROVE  Looked'
  <1> USE DirectoryAssumption
  <1>0. \A w \in Workers : Joining(w) =>
            calls[w].start \in Nat /\ calls[w].branch \in Branches \cup {Null}
    BY AtCall, CallShapes DEF Joining
  <1>1. CASE InsertBranch
    BY <1>1 DEF InsertBranch, Looked, Joining, At
  <1>2. ASSUME NEW w \in Workers, Begins(w)
        PROVE  Looked'
    <2>1. PICK c : Fresh(c) /\ Begin(w, c)
      BY <1>2 DEF Begins
    <2>2. c.step \in {"insert_member", "insert_admin"} /\ c.branch # Null
            => deletedAt[c.branch] = Null
      BY <2>1 DEF Fresh, Alive
    <2>3. c.step # "update_admin"
      BY <2>1 DEF Fresh
    <2>4. QED
      BY <2>1, <2>2, <2>3 DEF Begin, TypeOK, Looked, Joining, At
  <1>3. ASSUME NEW w \in Workers, CountActiveMembers(w) \/ CountActiveAdmins(w)
        PROVE  Looked'
    <2>1. /\ calls'[w].step \in {"count_admins", "soft_delete"}
          /\ \A v \in Workers : v # w => calls'[v] = calls[v]
          /\ UNCHANGED deletedAt
      BY <1>3, ProceedCall DEF CountActiveMembers, CountActiveAdmins, Proceed
    <2>2. QED
      BY <2>1 DEF Looked, Joining, At
  <1>4. ASSUME NEW w \in Workers, GetNewBranch(w)
        PROVE  Looked'
    <2>1. /\ calls'[w].branch = calls[w].branch
          /\ \A v \in Workers : v # w => calls'[v] = calls[v]
          /\ UNCHANGED deletedAt
      BY <1>4, ProceedCall DEF GetNewBranch, Proceed
    <2>2. calls[w].branch # Null => deletedAt[calls[w].branch] = Null
      BY <1>4 DEF GetNewBranch, Alive
    <2>3. QED
      BY <2>1, <2>2 DEF Looked, Joining, At
  <1>5. ASSUME NEW w \in Workers, SoftDeleteBranch(w)
        PROVE  Looked'
    <2> DEFINE b == calls[w].branch
               d == calls[w].start
    <2>1. /\ b \in Branches /\ d \in Nat /\ now <= d + MaxRequest
          /\ deletedAt' = [deletedAt EXCEPT ![b] = d] /\ Done(w)
      BY <1>5, AtCall, CallShapes DEF SoftDeleteBranch, Times, At
    <2> HIDE DEF b, d
    <2> SUFFICES ASSUME NEW v \in Workers, Joining(v)', calls'[v].branch # Null,
                        deletedAt'[calls'[v].branch] # Null
                 PROVE  calls'[v].start <= deletedAt'[calls'[v].branch] + MaxRequest
      BY DEF Looked
    <2>2. calls[v] # Null /\ calls'[v] = calls[v] /\ Joining(v)
      BY <2>1 DEF Done, Joining, At, TypeOK
    <2>3. calls[v].start \in Nat /\ calls[v].start <= now
      BY <1>0, <2>2 DEF Times
    <2>4. CASE calls[v].branch = b
      BY <2>1, <2>2, <2>3, <2>4 DEF TypeOK
    <2>5. CASE calls[v].branch # b
      BY <2>1, <2>2, <2>5 DEF Looked, TypeOK
    <2>6. QED
      BY <2>4, <2>5
  <1>6. ASSUME NEW w \in Workers, Joins(w) \/ GiveUp(w)
        PROVE  Looked'
    BY <1>6 DEF Joins, GiveUp, Done, TypeOK, Looked, Joining, At
  <1>7. ASSUME NEW p \in People, Remove(p)
        PROVE  Looked'
    BY <1>7 DEF Remove, Looked, Joining, At
  <1>8. CASE Tick \/ UNCHANGED vars
    BY <1>8 DEF Tick, vars, Looked, Joining, At
  <1>9. QED
    BY <1>1, <1>2, <1>3, <1>4, <1>5, <1>6, <1>7, <1>8, Steps

LEMMA StepStranded ==
    ASSUME TypeOK, DirectoryInv, [Next]_vars
    PROVE  StrandedByRaceOnly'
  <1> USE DirectoryAssumption
  <1> DEFINE InTime(p, d) == person[p].since \in d .. d + 2 * MaxRequest
  <1>0. \A p \in People : Active(p) => person[p] \in Person /\ person[p].since <= now
    BY DEF Active, TypeOK, DirectoryInv, Times
  <1>1. ASSUME UNCHANGED <<deletedAt, person>>
        PROVE  StrandedByRaceOnly'
    BY <1>1 DEF DirectoryInv, StrandedByRaceOnly, Stranded, Active
  <1>2. ASSUME NEW w \in Workers, SoftDeleteBranch(w)
        PROVE  StrandedByRaceOnly'
    <2> DEFINE b == calls[w].branch
               d == calls[w].start
    <2>1. /\ b \in Branches /\ d \in Nat /\ now <= d + MaxRequest
          /\ deletedAt' = [deletedAt EXCEPT ![b] = d] /\ UNCHANGED person
          /\ Late(People, b, d)
      BY <1>2, AtCall, CallShapes DEF SoftDeleteBranch, DirectoryInv, Times, Counted, At
    <2> HIDE DEF b, d
    <2> SUFFICES ASSUME NEW p \in People, Stranded(p)'
                 PROVE  person'[p].since \in
                          deletedAt'[person'[p].branch] ..
                          deletedAt'[person'[p].branch] + 2 * MaxRequest
      BY DEF StrandedByRaceOnly
    <2>2. Active(p) /\ person[p].branch # Null
      BY <2>1 DEF Stranded, Active
    <2>3. person[p].branch \in Branches /\ person[p].since \in Nat
      BY <1>0, <2>2 DEF Person
    <2>4. CASE person[p].branch = b
      <3>1. d <= person[p].since /\ person[p].since <= now
        BY <1>0, <2>1, <2>2, <2>4 DEF Late
      <3>2. QED
        BY <2>1, <2>3, <2>4, <3>1 DEF TypeOK
    <2>5. CASE person[p].branch # b
      BY <2>1, <2>2, <2>3, <2>5 DEF DirectoryInv, StrandedByRaceOnly, Stranded, TypeOK
    <2>6. QED
      BY <2>4, <2>5
  <1>3. ASSUME NEW w \in Workers, Joins(w)
        PROVE  StrandedByRaceOnly'
    <2>1. PICK p \in People, new \in Person :
            /\ new.branch = calls[w].branch
            /\ \/ new.since = now
               \/ Active(p) /\ new.branch = person[p].branch /\ new.since = person[p].since
            /\ person' = [person EXCEPT ![p] = new]
      BY <1>3 DEF Joins
    <2>2. /\ UNCHANGED deletedAt /\ Joining(w) /\ calls[w] # Null
          /\ now <= calls[w].start + MaxRequest /\ calls[w].start \in Nat
      BY <1>3, AtCall, CallShapes DEF Joins, Joining, DirectoryInv, Times, At
    <2> SUFFICES ASSUME NEW q \in People, Stranded(q)'
                 PROVE  person'[q].since \in
                          deletedAt'[person'[q].branch] ..
                          deletedAt'[person'[q].branch] + 2 * MaxRequest
      BY DEF StrandedByRaceOnly
    <2>3. CASE q # p
      BY <2>1, <2>2, <2>3 DEF DirectoryInv, StrandedByRaceOnly, Stranded, Active, TypeOK
    <2>4. CASE q = p /\ new.since = now
      <3> DEFINE b == new.branch
                 d == deletedAt[b]
      <3>1. /\ b \in Branches /\ d # Null /\ d \in Nat /\ d <= now
            /\ person'[q] = new
        BY <2>1, <2>2, <2>4 DEF Stranded, Person, TypeOK, DirectoryInv, Times
      <3>2. calls[w].start <= d + MaxRequest
        BY <2>1, <2>2, <3>1 DEF DirectoryInv, Looked
      <3> HIDE DEF d
      <3>3. now \in d .. d + 2 * MaxRequest
        BY <2>2, <3>1, <3>2 DEF TypeOK
      <3>4. QED
        BY <2>2, <2>4, <3>1, <3>3 DEF d
    <2>5. CASE /\ q = p /\ Active(p)
               /\ new.branch = person[p].branch /\ new.since = person[p].since
      <3>1. person'[q] = new
        BY <2>1, <2>5 DEF TypeOK
      <3>2. Stranded(q)
        BY <2>2, <2>5, <3>1 DEF Stranded
      <3>3. QED
        BY <2>2, <2>5, <3>1, <3>2 DEF DirectoryInv, StrandedByRaceOnly
    <2>6. QED
      BY <2>1, <2>3, <2>4, <2>5
  <1>4. ASSUME NEW p \in People, Remove(p)
        PROVE  StrandedByRaceOnly'
    <2>1. \A q \in People : Active(q)' => Active(q) /\ person'[q] = person[q]
      <3>1. person[p] \in Person
        BY <1>4 DEF Remove, Active, TypeOK
      <3>2. person' = [person EXCEPT ![p] = [person[p] EXCEPT !.active = FALSE]]
        BY <1>4 DEF Remove
      <3>3. [person[p] EXCEPT !.active = FALSE].active = FALSE
        BY <3>1 DEF Person
      <3>4. QED
        BY <3>2, <3>3 DEF Active, TypeOK
    <2>2. QED
      BY <1>4, <2>1 DEF Remove, DirectoryInv, StrandedByRaceOnly, Stranded
  <1>5. CASE InsertBranch \/ Tick \/ UNCHANGED vars
    BY <1>1, <1>5 DEF InsertBranch, Tick, vars
  <1>6. ASSUME NEW w \in Workers,
               \/ Begins(w) \/ CountActiveMembers(w) \/ CountActiveAdmins(w)
               \/ GetNewBranch(w) \/ GiveUp(w)
        PROVE  StrandedByRaceOnly'
    BY <1>1, <1>6 DEF Begins, Begin, CountActiveMembers, CountActiveAdmins,
                      GetNewBranch, Proceed, GiveUp
  <1>7. QED
    BY <1>2, <1>3, <1>4, <1>5, <1>6, Steps

\* Only a race leaves a member or an admin in a deleted branch.
THEOREM OnlyRacesStrand == Spec => []StrandedByRaceOnly
  <1>1. TypeOK /\ DirectoryInv /\ [Next]_vars => (TypeOK /\ DirectoryInv)'
    BY StepType, StepTimes, StepCounted, StepLooked, StepStranded DEF DirectoryInv
  <1>2. DirectoryInv => StrandedByRaceOnly
    BY DEF DirectoryInv
  <1>3. QED
    BY InitType, InitDirectory, <1>1, <1>2, PTL DEF Spec
=============================================================================
