-------------------------- MODULE SlotCalendar_proofs --------------------------
(***************************************************************************)
(* Slots, services and profiles, for any number of sessions and            *)
(* specialists and any bounds.                                             *)
(***************************************************************************)
EXTENDS SlotCalendar, TLAPS

Request ==
  [stage: {"profile", "overlap", "insert", "created", "conflict", "error"},
   user: Specialists, kind: {"slot", "service"}, span: Intervals, seen: 0 .. MaxRows]

Slot == [owner: Specialists, span: Intervals, seen: 0 .. MaxRows]

TypesOK ==
  /\ profiles \subseteq Specialists
  /\ pending \in [Specialists -> Sessions \cup {Nobody}]
  /\ slots \in Seq(Slot)
  /\ services \in Seq(Specialists)
  /\ Len(slots) + Len(services) <= MaxRows
  /\ task \in [Sessions -> {Idle} \cup Request]

\* A profile in the making is of the session that asked for it, and no such
\* profile is committed yet.
PendingOwned ==
  \A u \in Specialists : pending[u] # Nobody =>
    u \notin profiles /\ pending[u] \in Busy /\ task[pending[u]].user = u

\* The owners of the rows have a committed profile.
RowsOwned ==
  /\ \A i \in DOMAIN slots : slots[i].owner \in profiles
  /\ \A i \in DOMAIN services : services[i] \in profiles

\* Who got past the profile has one, committed or in the making.
HasProfile ==
  \A r \in Sessions : task[r].stage \in {"overlap", "insert"} =>
    task[r].user \in profiles \/ pending[task[r].user] = r

\* A slot about to be inserted is clear of every slot its check has seen.
CheckedClear ==
  \A r \in Sessions : task[r].stage = "insert" /\ task[r].kind = "slot" =>
    /\ task[r].seen <= Len(slots)
    /\ \A i \in 1 .. task[r].seen :
         slots[i].owner = task[r].user => ~Shared(slots[i].span, task[r].span)

CalendarInv ==
  /\ TypesOK
  /\ PendingOwned
  /\ RowsOwned
  /\ HasProfile
  /\ CheckedClear
  /\ OverlapOnlyByRace
  /\ ConflictIsReal
  /\ FailedProfileExists

-------------------------------------------------------------------------------
\* The query of create_slot_for_me finds exactly the slots that share an instant
\* with the new one.
LEMMA OverlapsIsShared ==
  ASSUME NEW a \in Intervals, NEW b \in Intervals
  PROVE  Overlaps(a, b) <=> Shared(a, b)
<1>1. a[1] \in 0 .. MaxTime /\ a[2] \in 0 .. MaxTime /\ a[1] < a[2] BY DEF Intervals
<1>2. b[1] \in 0 .. MaxTime /\ b[2] \in 0 .. MaxTime /\ b[1] < b[2] BY DEF Intervals
<1>3. ASSUME Overlaps(a, b) PROVE Shared(a, b)
  <2>1. CASE a[1] <= b[1]
    <3>1. Covers(a, b[1]) /\ Covers(b, b[1])
      BY <1>1, <1>2, <1>3, <2>1, CalendarAssumption DEF Overlaps, Covers
    <3> QED BY <3>1, <1>2 DEF Shared
  <2>2. CASE b[1] < a[1]
    <3>1. Covers(a, a[1]) /\ Covers(b, a[1])
      BY <1>1, <1>2, <1>3, <2>2, CalendarAssumption DEF Overlaps, Covers
    <3> QED BY <3>1, <1>1 DEF Shared
  <2> QED BY <2>1, <2>2, <1>1, <1>2, CalendarAssumption
<1>4. ASSUME Shared(a, b) PROVE Overlaps(a, b)
  <2>1. PICK t \in 0 .. MaxTime : Covers(a, t) /\ Covers(b, t) BY <1>4 DEF Shared
  <2> QED BY <2>1, <1>1, <1>2, CalendarAssumption DEF Covers, Overlaps
<1> QED BY <1>3, <1>4

\* The fields of a request that is under way.
LEMMA RequestFields ==
  ASSUME TypesOK, NEW r \in Sessions, task[r].stage # "idle"
  PROVE  /\ task[r] \in Request
         /\ task[r].user \in Specialists
         /\ task[r].kind \in {"slot", "service"}
         /\ task[r].span \in Intervals
         /\ task[r].seen \in 0 .. MaxRows
  BY DEF TypesOK, Request, Idle

\* The fields of a row of time_slots.
LEMMA SlotFields ==
  ASSUME TypesOK, NEW i \in DOMAIN slots
  PROVE  slots[i].owner \in Specialists /\ slots[i].span \in Intervals /\ slots[i].seen \in 0 .. MaxRows
<1>1. slots[i] \in Slot BY DEF TypesOK
<1> QED BY <1>1 DEF Slot

\* A sequence is one over any set that its elements are in.
LEMMA SeqOver ==
  ASSUME NEW S, NEW T, NEW s \in Seq(S), \A i \in 1 .. Len(s) : s[i] \in T
  PROVE  s \in Seq(T)
  OBVIOUS

\* What Goto leaves of the tasks.
LEMMA GotoTask ==
  ASSUME TypesOK, NEW r \in Sessions, task[r].stage # "idle", NEW stage, Goto(r, stage)
  PROVE  /\ task'[r].stage = stage
         /\ task'[r].user = task[r].user
         /\ task'[r].kind = task[r].kind
         /\ task'[r].span = task[r].span
         /\ task'[r].seen = task[r].seen
         /\ \A p \in Sessions \ {r} : task'[p] = task[p]
         /\ stage \in {"profile", "overlap", "insert", "created", "conflict", "error"} =>
              task' \in [Sessions -> {Idle} \cup Request]
<1>1. task[r] \in Request BY RequestFields
<1> QED BY <1>1 DEF TypesOK, Goto, Request

\* The end of a session's transaction keeps the other sessions' profiles pending.
LEMMA EndPendingKeeps ==
  ASSUME TypesOK, NEW r \in Sessions, EndPending(r)
  PROVE  /\ pending' \in [Specialists -> Sessions \cup {Nobody}]
         /\ \A u \in Specialists : pending'[u] # Nobody => pending'[u] = pending[u] /\ pending[u] # r
         /\ \A u \in Specialists, p \in Sessions \ {r} : pending[u] = p => pending'[u] = p
<1>1. pending' = [u \in Specialists |-> IF pending[u] = r THEN Nobody ELSE pending[u]]
  BY DEF EndPending
<1> QED BY <1>1, CalendarAssumption DEF TypesOK

\* A step that leaves the rows alone, and of the sessions moves r only, keeps
\* the parts of the invariant that are about the rows.
LEMMA RowsKept ==
  ASSUME CalendarInv, NEW r \in Sessions, UNCHANGED <<profiles, slots, services>>,
         \A p \in Sessions \ {r} : task'[p] = task[p],
         task'[r].stage # "insert" \/ task'[r].kind # "slot",
         task'[r].stage # "conflict", task'[r].stage # "error"
  PROVE  RowsOwned' /\ CheckedClear' /\ OverlapOnlyByRace' /\ ConflictIsReal' /\ FailedProfileExists'
<1>1. RowsOwned' BY DEF CalendarInv, RowsOwned
<1>2. CheckedClear' BY DEF CalendarInv, CheckedClear
<1>3. OverlapOnlyByRace' BY DEF CalendarInv, OverlapOnlyByRace
<1>4. ConflictIsReal' BY DEF CalendarInv, ConflictIsReal
<1>5. FailedProfileExists' BY DEF CalendarInv, FailedProfileExists
<1> QED BY <1>1, <1>2, <1>3, <1>4, <1>5

\* A session that has ended, or has not begun, has no profile in the making.
LEMMA ClosedOwnsNothing ==
  ASSUME CalendarInv, NEW r \in Sessions, task[r].stage \in Closed, NEW u \in Specialists
  PROVE  pending[u] # r
  BY CalendarAssumption DEF CalendarInv, PendingOwned, Busy

LEMMA SelectProfileStep ==
  ASSUME CalendarInv, NEW r \in Sessions, SelectProfile(r)
  PROVE  CalendarInv'
<1>1. PICK u \in Specialists, kind \in {"slot", "service"}, span \in Intervals :
        task' = [task EXCEPT ![r] =
                   [stage |-> IF u \in profiles THEN AfterProfile(kind) ELSE "profile",
                    user |-> u, kind |-> kind, span |-> span, seen |-> 0]]
  BY DEF SelectProfile
<1> DEFINE t == [stage |-> IF u \in profiles THEN AfterProfile(kind) ELSE "profile",
                 user |-> u, kind |-> kind, span |-> span, seen |-> 0]
<1>2. UNCHANGED <<profiles, pending, slots, services>> /\ task[r].stage = "idle"
  BY DEF SelectProfile
<1>3. /\ t.stage \in {"overlap", "insert", "profile"} /\ t.user = u
      /\ t.stage = "insert" => t.kind = "service"
      /\ t.stage # "profile" => u \in profiles
      /\ t \in Request
  BY CalendarAssumption DEF AfterProfile, Request
<1>4. task'[r] = t /\ (\A p \in Sessions \ {r} : task'[p] = task[p])
      /\ task' \in [Sessions -> {Idle} \cup Request]
  BY <1>1, <1>3 DEF CalendarInv, TypesOK
<1> HIDE DEF t
<1>5. TypesOK' BY <1>2, <1>4 DEF CalendarInv, TypesOK
<1>6. PendingOwned'
  <2> SUFFICES ASSUME NEW v \in Specialists, pending[v] # Nobody
               PROVE  v \notin profiles /\ pending[v] \in Busy' /\ task'[pending[v]].user = v
    BY <1>2 DEF PendingOwned
  <2>1. pending[v] # r BY <1>2, ClosedOwnsNothing DEF Closed
  <2>2. v \notin profiles /\ pending[v] \in Busy /\ task[pending[v]].user = v
    BY DEF CalendarInv, PendingOwned
  <2> QED BY <2>1, <2>2, <1>4 DEF Busy
<1>7. HasProfile' BY <1>2, <1>3, <1>4 DEF CalendarInv, HasProfile
<1>8. RowsOwned' /\ CheckedClear' /\ OverlapOnlyByRace' /\ ConflictIsReal' /\ FailedProfileExists'
  BY <1>2, <1>3, <1>4, RowsKept
<1> QED BY <1>5, <1>6, <1>7, <1>8 DEF CalendarInv

LEMMA InsertProfileStep ==
  ASSUME CalendarInv, NEW r \in Sessions, InsertProfile(r)
  PROVE  CalendarInv'
<1> DEFINE u == task[r].user
<1>1. /\ task[r].stage = "profile" /\ pending[u] = Nobody
      /\ UNCHANGED <<profiles, slots, services>>
  BY DEF InsertProfile, MustWait
<1>2. TypesOK /\ task[r].kind \in {"slot", "service"} /\ u \in Specialists
  BY <1>1, RequestFields DEF CalendarInv
<1>3. CASE u \in profiles /\ Goto(r, "error") /\ UNCHANGED pending
  <2>1. /\ task'[r].stage = "error" /\ task'[r].user = u
        /\ \A p \in Sessions \ {r} : task'[p] = task[p]
        /\ task' \in [Sessions -> {Idle} \cup Request]
    BY <1>1, <1>2, <1>3, GotoTask
  <2>2. TypesOK' BY <1>1, <1>3, <2>1 DEF CalendarInv, TypesOK
  <2>3. PendingOwned'
    <3> SUFFICES ASSUME NEW v \in Specialists, pending[v] # Nobody
                 PROVE  v \notin profiles /\ pending[v] \in Busy' /\ task'[pending[v]].user = v
      BY <1>1, <1>3 DEF PendingOwned
    <3>1. v \notin profiles /\ pending[v] \in Busy /\ task[pending[v]].user = v
      BY DEF CalendarInv, PendingOwned
    <3>2. pending[v] # r BY <3>1, <1>3
    <3> QED BY <3>1, <3>2, <2>1 DEF Busy
  <2>4. HasProfile' BY <1>1, <1>3, <2>1 DEF CalendarInv, HasProfile
  <2>5. FailedProfileExists' BY <1>1, <1>3, <2>1 DEF CalendarInv, FailedProfileExists
  <2>6. RowsOwned' BY <1>1 DEF CalendarInv, RowsOwned
  <2>7. CheckedClear' BY <1>1, <2>1 DEF CalendarInv, CheckedClear
  <2>8. OverlapOnlyByRace' BY <1>1 DEF CalendarInv, OverlapOnlyByRace
  <2>9. ConflictIsReal' BY <1>1, <2>1 DEF CalendarInv, ConflictIsReal
  <2> QED BY <2>2, <2>3, <2>4, <2>5, <2>6, <2>7, <2>8, <2>9 DEF CalendarInv
<1>4. CASE /\ u \notin profiles
           /\ pending' = [pending EXCEPT ![u] = r]
           /\ Goto(r, AfterProfile(task[r].kind))
  <2>1. /\ AfterProfile(task[r].kind) \in {"overlap", "insert"}
        /\ AfterProfile(task[r].kind) = "insert" => task[r].kind = "service"
    BY <1>2 DEF AfterProfile
  <2>2. /\ task'[r].stage = AfterProfile(task[r].kind)
        /\ task'[r].user = u /\ task'[r].kind = task[r].kind
        /\ \A p \in Sessions \ {r} : task'[p] = task[p]
        /\ task' \in [Sessions -> {Idle} \cup Request]
    BY <1>1, <1>2, <1>4, <2>1, GotoTask
  <2>3. pending' \in [Specialists -> Sessions \cup {Nobody}] /\ pending'[u] = r
        /\ \A v \in Specialists \ {u} : pending'[v] = pending[v]
    BY <1>2, <1>4 DEF TypesOK
  <2>4. TypesOK' BY <1>1, <2>2, <2>3 DEF CalendarInv, TypesOK
  <2>5. PendingOwned'
    <3> SUFFICES ASSUME NEW v \in Specialists, pending'[v] # Nobody
                 PROVE  v \notin profiles /\ pending'[v] \in Busy' /\ task'[pending'[v]].user = v
      BY <1>1 DEF PendingOwned
    <3>1. r \in Busy' BY <2>1, <2>2 DEF Busy, Closed
    <3>2. CASE v = u BY <3>1, <3>2, <2>2, <2>3, <1>4
    <3>3. CASE v # u
      <4>1. v \notin profiles /\ pending[v] \in Busy /\ task[pending[v]].user = v
            /\ pending'[v] = pending[v]
        BY <3>3, <2>3 DEF CalendarInv, PendingOwned
      <4>2. pending[v] # r BY <4>1, <3>3
      <4> QED BY <4>1, <4>2, <2>2 DEF Busy
    <3> QED BY <3>2, <3>3
  <2>6. HasProfile'
    <3> SUFFICES ASSUME NEW p \in Sessions, task'[p].stage \in {"overlap", "insert"}
                 PROVE  task'[p].user \in profiles \/ pending'[task'[p].user] = p
      BY <1>1 DEF HasProfile
    <3>1. CASE p = r BY <3>1, <2>2, <2>3
    <3>2. CASE p # r
      <4>1. task[p].user \in profiles \/ pending[task[p].user] = p
        BY <3>2, <2>2 DEF CalendarInv, HasProfile
      <4>2. task[p].user \in Specialists BY <3>2, <2>2, <1>2, RequestFields
      <4> QED BY <4>1, <4>2, <3>2, <2>2, <2>3, <1>1, CalendarAssumption
    <3> QED BY <3>1, <3>2
  <2>7. RowsOwned' /\ CheckedClear' /\ OverlapOnlyByRace' /\ ConflictIsReal' /\ FailedProfileExists'
    BY <1>1, <2>1, <2>2, RowsKept
  <2> QED BY <2>4, <2>5, <2>6, <2>7 DEF CalendarInv
<1> QED BY <1>3, <1>4 DEF InsertProfile

\* The end of a transaction that moves r to a closed stage keeps what is known
\* of the profiles of the others.
LEMMA ProfilesKept ==
  ASSUME CalendarInv, NEW r \in Sessions, EndPending(r), UNCHANGED profiles,
         \A p \in Sessions \ {r} : task'[p] = task[p], task'[r].stage \in Closed
  PROVE  PendingOwned' /\ HasProfile'
<1>1. TypesOK BY DEF CalendarInv
<1>2. PendingOwned'
  <2> SUFFICES ASSUME NEW v \in Specialists, pending'[v] # Nobody
               PROVE  v \notin profiles /\ pending'[v] \in Busy' /\ task'[pending'[v]].user = v
    BY DEF PendingOwned
  <2>1. pending'[v] = pending[v] /\ pending[v] # r BY <1>1, EndPendingKeeps
  <2>2. v \notin profiles /\ pending[v] \in Busy /\ task[pending[v]].user = v
    BY <2>1 DEF CalendarInv, PendingOwned
  <2> QED BY <2>1, <2>2 DEF Busy
<1>3. HasProfile'
  <2> SUFFICES ASSUME NEW p \in Sessions, task'[p].stage \in {"overlap", "insert"}
               PROVE  task'[p].user \in profiles \/ pending'[task'[p].user] = p
    BY DEF HasProfile
  <2>1. p # r /\ task'[p] = task[p] BY DEF Closed
  <2>2. task[p].user \in Specialists BY <2>1, <1>1, RequestFields
  <2>3. task[p].user \in profiles \/ pending[task[p].user] = p
    BY <2>1 DEF CalendarInv, HasProfile
  <2> QED BY <2>1, <2>2, <2>3, <1>1, EndPendingKeeps
<1> QED BY <1>2, <1>3

LEMMA CheckOverlapStep ==
  ASSUME CalendarInv, NEW r \in Sessions, CheckOverlap(r)
  PROVE  CalendarInv'
<1> DEFINE t == task[r]
           clash == \E i \in DOMAIN slots :
                      slots[i].owner = t.user /\ Overlaps(slots[i].span, t.span)
<1>1. t.stage = "overlap" /\ UNCHANGED <<profiles, slots, services>> BY DEF CheckOverlap
<1>2. /\ TypesOK /\ t \in Request /\ t.user \in Specialists /\ t.span \in Intervals
      /\ \A i \in DOMAIN slots : slots[i].span \in Intervals
  <2>1. TypesOK BY DEF CalendarInv
  <2>2. t \in Request /\ t.user \in Specialists /\ t.span \in Intervals
    BY <1>1, <2>1, RequestFields
  <2> QED BY <2>1, <2>2, SlotFields
<1>3. CASE clash /\ EndPending(r) /\ Goto(r, "conflict")
  <2>1. /\ task'[r].stage = "conflict" /\ task'[r].user = t.user /\ task'[r].span = t.span
        /\ \A p \in Sessions \ {r} : task'[p] = task[p]
        /\ task' \in [Sessions -> {Idle} \cup Request]
    BY <1>1, <1>2, <1>3, GotoTask
  <2>2. TypesOK' BY <1>1, <1>2, <1>3, <2>1, EndPendingKeeps DEF TypesOK
  <2>3. PendingOwned' /\ HasProfile' BY <1>1, <1>3, <2>1, ProfilesKept DEF Closed
  <2>4. ConflictIsReal'
    <3> SUFFICES ASSUME NEW p \in Sessions, task'[p].stage = "conflict"
                 PROVE  \E i \in DOMAIN slots :
                          slots[i].owner = task'[p].user /\ Shared(slots[i].span, task'[p].span)
      BY <1>1 DEF ConflictIsReal
    <3>1. CASE p = r BY <3>1, <1>2, <1>3, <2>1, OverlapsIsShared
    <3>2. CASE p # r BY <3>2, <2>1 DEF CalendarInv, ConflictIsReal
    <3> QED BY <3>1, <3>2
  <2>5. RowsOwned' BY <1>1 DEF CalendarInv, RowsOwned
  <2>6. CheckedClear' BY <1>1, <2>1 DEF CalendarInv, CheckedClear
  <2>7. OverlapOnlyByRace' BY <1>1 DEF CalendarInv, OverlapOnlyByRace
  <2>8. FailedProfileExists' BY <1>1, <2>1 DEF CalendarInv, FailedProfileExists
  <2> QED BY <2>2, <2>3, <2>4, <2>5, <2>6, <2>7, <2>8 DEF CalendarInv
<1>4. CASE /\ ~clash
           /\ task' = [task EXCEPT ![r].stage = "insert", ![r].seen = Len(slots)]
           /\ UNCHANGED pending
  <2>1. Len(slots) \in 0 .. MaxRows /\ DOMAIN slots = 1 .. Len(slots)
    BY <1>2, CalendarAssumption DEF TypesOK
  <2>2. /\ task'[r].stage = "insert" /\ task'[r].seen = Len(slots)
        /\ task'[r].user = t.user /\ task'[r].span = t.span
        /\ task'[r] \in Request
        /\ \A p \in Sessions \ {r} : task'[p] = task[p]
        /\ task' \in [Sessions -> {Idle} \cup Request]
    BY <1>2, <1>4, <2>1 DEF TypesOK, Request
  <2>3. TypesOK' BY <1>1, <1>2, <1>4, <2>2 DEF TypesOK
  <2>4. PendingOwned' BY <1>1, <1>4, <2>2 DEF CalendarInv, PendingOwned, Busy, Closed
  <2>5. HasProfile' BY <1>1, <1>4, <2>2 DEF CalendarInv, HasProfile
  <2>6. CheckedClear'
    <3> SUFFICES ASSUME NEW p \in Sessions, task'[p].stage = "insert", task'[p].kind = "slot"
                 PROVE  /\ task'[p].seen <= Len(slots)
                        /\ \A i \in 1 .. task'[p].seen :
                             slots[i].owner = task'[p].user => ~Shared(slots[i].span, task'[p].span)
      BY <1>1 DEF CheckedClear
    <3>1. CASE p = r BY <3>1, <1>2, <1>4, <2>1, <2>2, OverlapsIsShared
    <3>2. CASE p # r BY <3>2, <2>2 DEF CalendarInv, CheckedClear
    <3> QED BY <3>1, <3>2
  <2>7. RowsOwned' BY <1>1 DEF CalendarInv, RowsOwned
  <2>8. OverlapOnlyByRace' BY <1>1 DEF CalendarInv, OverlapOnlyByRace
  <2>9. ConflictIsReal' BY <1>1, <2>2 DEF CalendarInv, ConflictIsReal
  <2>10. FailedProfileExists' BY <1>1, <2>2 DEF CalendarInv, FailedProfileExists
  <2> QED BY <2>3, <2>4, <2>5, <2>6, <2>7, <2>8, <2>9, <2>10 DEF CalendarInv
<1> QED BY <1>3, <1>4 DEF CheckOverlap

\* The profile of the session is committed with its row, and is pending nowhere.
LEMMA InsertKeepsProfiles ==
  ASSUME CalendarInv, NEW r \in Sessions, NEW kind, Insert(r, kind)
  PROVE  /\ PendingOwned' /\ HasProfile' /\ FailedProfileExists'
         /\ profiles' \subseteq Specialists
         /\ pending' \in [Specialists -> Sessions \cup {Nobody}]
         /\ task' \in [Sessions -> {Idle} \cup Request]
<1> DEFINE u == task[r].user
<1>1. task[r].stage = "insert" /\ EndPending(r) /\ Goto(r, "created") /\ profiles' = profiles \cup {u}
  BY DEF Insert, WithProfileOf
<1>2. TypesOK /\ u \in Specialists BY <1>1, RequestFields DEF CalendarInv
<1>3. /\ task'[r].stage = "created"
      /\ \A p \in Sessions \ {r} : task'[p] = task[p]
      /\ task' \in [Sessions -> {Idle} \cup Request]
  BY <1>1, <1>2, GotoTask
<1>4. pending' \in [Specialists -> Sessions \cup {Nobody}] BY <1>1, <1>2, EndPendingKeeps
<1>5. PendingOwned'
  <2> SUFFICES ASSUME NEW v \in Specialists, pending'[v] # Nobody
               PROVE  v \notin profiles' /\ pending'[v] \in Busy' /\ task'[pending'[v]].user = v
    BY DEF PendingOwned
  <2>1. pending'[v] = pending[v] /\ pending[v] # r BY <1>1, <1>2, EndPendingKeeps
  <2>2. v \notin profiles /\ pending[v] \in Busy /\ task[pending[v]].user = v
    BY <2>1 DEF CalendarInv, PendingOwned
  <2>3. v # u BY <1>1, <2>1, <2>2 DEF CalendarInv, HasProfile
  <2> QED BY <2>1, <2>2, <2>3, <1>1, <1>3 DEF Busy
<1>6. HasProfile'
  <2> SUFFICES ASSUME NEW p \in Sessions, task'[p].stage \in {"overlap", "insert"}
               PROVE  task'[p].user \in profiles' \/ pending'[task'[p].user] = p
    BY DEF HasProfile
  <2>1. p # r /\ task'[p] = task[p] BY <1>3
  <2>2. task[p].user \in Specialists BY <2>1, <1>2, RequestFields
  <2>3. task[p].user \in profiles \/ pending[task[p].user] = p
    BY <2>1 DEF CalendarInv, HasProfile
  <2> QED BY <2>1, <2>2, <2>3, <1>1, <1>2, EndPendingKeeps
<1>7. FailedProfileExists' BY <1>1, <1>3 DEF CalendarInv, FailedProfileExists
<1> QED BY <1>1, <1>2, <1>3, <1>4, <1>5, <1>6, <1>7 DEF TypesOK

LEMMA InsertSlotStep ==
  ASSUME CalendarInv, NEW r \in Sessions, InsertSlot(r)
  PROVE  CalendarInv'
<1> DEFINE t == task[r]
           row == [owner |-> t.user, span |-> t.span, seen |-> t.seen]
           n == Len(slots)
<1>1. Insert(r, "slot") /\ slots' = Append(slots, row) /\ UNCHANGED services BY DEF InsertSlot
<1>2. /\ t.stage = "insert" /\ t.kind = "slot" /\ n + Len(services) < MaxRows
      /\ profiles' = profiles \cup {t.user} /\ Goto(r, "created")
  BY <1>1 DEF Insert, WithProfileOf
<1>3. TypesOK /\ t.user \in Specialists /\ t.span \in Intervals /\ t.seen \in 0 .. MaxRows
  BY <1>2, RequestFields DEF CalendarInv
<1>4. /\ n \in Nat /\ DOMAIN slots = 1 .. n /\ DOMAIN slots' = 1 .. (n + 1) /\ Len(slots') = n + 1
      /\ \A i \in 1 .. n : slots'[i] = slots[i]
      /\ slots'[n + 1] = row
      /\ slots' \in Seq(Slot)
  BY <1>1, <1>3 DEF TypesOK, Slot
<1>5. /\ task'[r].stage = "created"
      /\ \A p \in Sessions \ {r} : task'[p] = task[p]
  BY <1>2, <1>3, GotoTask
<1>6. TypesOK'
  <2>1. Len(slots') + Len(services') <= MaxRows
    BY <1>1, <1>2, <1>3, <1>4, CalendarAssumption DEF TypesOK
  <2> QED BY <2>1, <1>1, <1>3, <1>4, InsertKeepsProfiles DEF TypesOK
<1>7. PendingOwned' /\ HasProfile' /\ FailedProfileExists' BY <1>1, InsertKeepsProfiles
<1>8. RowsOwned' BY <1>1, <1>2, <1>4 DEF CalendarInv, RowsOwned
<1>9. CheckedClear'
  <2> SUFFICES ASSUME NEW p \in Sessions, task'[p].stage = "insert", task'[p].kind = "slot"
               PROVE  /\ task'[p].seen <= n + 1
                      /\ \A i \in 1 .. task'[p].seen :
                           slots'[i].owner = task'[p].user => ~Shared(slots'[i].span, task'[p].span)
    BY <1>4 DEF CheckedClear
  <2>1. p # r /\ task'[p] = task[p] BY <1>5
  <2>2. task[p].seen \in Nat BY <2>1, <1>3, RequestFields
  <2>3. /\ task[p].seen <= n
        /\ \A i \in 1 .. task[p].seen :
             slots[i].owner = task[p].user => ~Shared(slots[i].span, task[p].span)
    BY <2>1 DEF CalendarInv, CheckedClear
  <2>4. \A i \in 1 .. task[p].seen : i \in 1 .. n BY <2>2, <2>3, <1>4
  <2> QED BY <2>1, <2>2, <2>3, <2>4, <1>4
<1>10. OverlapOnlyByRace'
  <2> SUFFICES ASSUME NEW i \in 1 .. (n + 1), NEW j \in 1 .. (n + 1), i < j,
                      slots'[i].owner = slots'[j].owner, Shared(slots'[i].span, slots'[j].span)
               PROVE  slots'[j].seen < i
    BY <1>4 DEF OverlapOnlyByRace
  <2>1. i \in 1 .. n BY <1>4
  <2>2. CASE j \in 1 .. n BY <2>1, <2>2, <1>4 DEF CalendarInv, OverlapOnlyByRace
  <2>3. CASE j = n + 1
    <3>1. slots[i].owner = t.user /\ Shared(slots[i].span, t.span) BY <2>1, <2>3, <1>4
    <3>2. i \notin 1 .. t.seen BY <3>1, <1>2 DEF CalendarInv, CheckedClear
    <3>3. slots'[j].seen = t.seen BY <2>3, <1>4
    <3> QED BY <3>2, <3>3, <2>1, <1>3, <1>4, CalendarAssumption
  <2> QED BY <2>2, <2>3, <1>4
<1>11. ConflictIsReal'
  <2> SUFFICES ASSUME NEW p \in Sessions, task'[p].stage = "conflict"
               PROVE  \E i \in 1 .. (n + 1) :
                        slots'[i].owner = task'[p].user /\ Shared(slots'[i].span, task'[p].span)
    BY <1>4 DEF ConflictIsReal
  <2>1. task'[p] = task[p] BY <1>5
  <2>2. PICK i \in 1 .. n : slots[i].owner = task[p].user /\ Shared(slots[i].span, task[p].span)
    BY <2>1, <1>4 DEF CalendarInv, ConflictIsReal
  <2> QED BY <2>1, <2>2, <1>4
<1> QED BY <1>6, <1>7, <1>8, <1>9, <1>10, <1>11 DEF CalendarInv

LEMMA InsertServiceStep ==
  ASSUME CalendarInv, NEW r \in Sessions, InsertService(r)
  PROVE  CalendarInv'
<1> DEFINE t == task[r]
           n == Len(services)
<1>1. Insert(r, "service") /\ services' = Append(services, t.user) /\ UNCHANGED slots
  BY DEF InsertService
<1>2. /\ t.stage = "insert" /\ Len(slots) + n < MaxRows
      /\ profiles' = profiles \cup {t.user} /\ Goto(r, "created")
  BY <1>1 DEF Insert, WithProfileOf
<1>3. TypesOK /\ t.user \in Specialists BY <1>2, RequestFields DEF CalendarInv
<1>4. /\ n \in Nat /\ DOMAIN services = 1 .. n /\ DOMAIN services' = 1 .. (n + 1)
      /\ Len(services') = n + 1 /\ Len(slots) \in Nat
      /\ \A i \in 1 .. n : services'[i] = services[i]
      /\ services'[n + 1] = t.user
      /\ services' \in Seq(Specialists)
  BY <1>1, <1>3 DEF TypesOK
<1>5. /\ task'[r].stage = "created"
      /\ \A p \in Sessions \ {r} : task'[p] = task[p]
  BY <1>2, <1>3, GotoTask
<1>6. TypesOK'
  <2>1. Len(slots') + Len(services') <= MaxRows BY <1>1, <1>2, <1>4, CalendarAssumption
  <2> QED BY <2>1, <1>1, <1>3, <1>4, InsertKeepsProfiles DEF TypesOK
<1>7. PendingOwned' /\ HasProfile' /\ FailedProfileExists' BY <1>1, InsertKeepsProfiles
<1>8. RowsOwned' BY <1>1, <1>2, <1>4 DEF CalendarInv, RowsOwned
<1>9. CheckedClear' BY <1>1, <1>5 DEF CalendarInv, CheckedClear
<1>10. OverlapOnlyByRace' BY <1>1 DEF CalendarInv, OverlapOnlyByRace
<1>11. ConflictIsReal' BY <1>1, <1>5 DEF CalendarInv, ConflictIsReal
<1> QED BY <1>6, <1>7, <1>8, <1>9, <1>10, <1>11 DEF CalendarInv

LEMMA CloseStep == ASSUME CalendarInv, NEW r \in Sessions, Close(r) PROVE CalendarInv'
<1>1. /\ task[r].stage \in Closed /\ task' = [task EXCEPT ![r] = Idle]
      /\ UNCHANGED <<profiles, pending, slots, services>>
  BY DEF Close
<1>2. /\ task'[r].stage = "idle"
      /\ \A p \in Sessions \ {r} : task'[p] = task[p]
      /\ task' \in [Sessions -> {Idle} \cup Request]
  BY <1>1 DEF CalendarInv, TypesOK, Idle
<1>3. TypesOK' BY <1>1, <1>2 DEF CalendarInv, TypesOK
<1>4. PendingOwned'
  <2> SUFFICES ASSUME NEW v \in Specialists, pending[v] # Nobody
               PROVE  v \notin profiles /\ pending[v] \in Busy' /\ task'[pending[v]].user = v
    BY <1>1 DEF PendingOwned
  <2>1. pending[v] # r BY <1>1, ClosedOwnsNothing
  <2>2. v \notin profiles /\ pending[v] \in Busy /\ task[pending[v]].user = v
    BY DEF CalendarInv, PendingOwned
  <2> QED BY <2>1, <2>2, <1>2 DEF Busy
<1>5. HasProfile' BY <1>1, <1>2 DEF CalendarInv, HasProfile
<1>6. RowsOwned' /\ CheckedClear' /\ OverlapOnlyByRace' /\ ConflictIsReal' /\ FailedProfileExists'
  BY <1>1, <1>2, RowsKept
<1> QED BY <1>3, <1>4, <1>5, <1>6 DEF CalendarInv

LEMMA CrashStep == ASSUME CalendarInv, NEW r \in Sessions, Crash(r) PROVE CalendarInv'
<1>1. task' = [task EXCEPT ![r] = Idle] /\ EndPending(r) /\ UNCHANGED <<profiles, slots, services>>
  BY DEF Crash
<1>2. /\ task'[r].stage = "idle"
      /\ \A p \in Sessions \ {r} : task'[p] = task[p]
      /\ task' \in [Sessions -> {Idle} \cup Request]
  BY <1>1 DEF CalendarInv, TypesOK, Idle
<1>3. TypesOK' BY <1>1, <1>2, EndPendingKeeps DEF CalendarInv, TypesOK
<1>4. PendingOwned' /\ HasProfile' BY <1>1, <1>2, ProfilesKept DEF Closed
<1>5. RowsOwned' /\ CheckedClear' /\ OverlapOnlyByRace' /\ ConflictIsReal' /\ FailedProfileExists'
  BY <1>1, <1>2, RowsKept
<1> QED BY <1>3, <1>4, <1>5 DEF CalendarInv

\* Every step of the calendar preserves the invariant.
LEMMA CalendarStep == ASSUME CalendarInv, [Next]_vars PROVE CalendarInv'
<1>1. ASSUME NEW r \in Sessions,
             \/ SelectProfile(r) \/ InsertProfile(r) \/ CheckOverlap(r)
             \/ InsertSlot(r) \/ InsertService(r) \/ Close(r) \/ Crash(r)
      PROVE  CalendarInv'
  BY <1>1, SelectProfileStep, InsertProfileStep, CheckOverlapStep, InsertSlotStep,
     InsertServiceStep, CloseStep, CrashStep
<1>2. CASE UNCHANGED vars
  BY <1>2 DEF vars, CalendarInv, TypesOK, PendingOwned, Busy, RowsOwned, HasProfile, CheckedClear,
              OverlapOnlyByRace, ConflictIsReal, FailedProfileExists
<1> QED BY <1>1, <1>2 DEF Next

LEMMA CalendarInvariant == Spec => []CalendarInv
<1>1. Init => CalendarInv
  BY CalendarAssumption
  DEF Init, Idle, CalendarInv, TypesOK, PendingOwned, RowsOwned, HasProfile, CheckedClear,
      OverlapOnlyByRace, ConflictIsReal, FailedProfileExists
<1> QED BY <1>1, CalendarStep, PTL DEF Spec

\* However many sessions create slots at once, two slots of a specialist share an
\* instant only if create_slot_for_me checked the later one before the earlier
\* one was committed.
THEOREM OverlapOnlyByRaceHolds == Spec => []OverlapOnlyByRace
<1>1. CalendarInv => OverlapOnlyByRace BY DEF CalendarInv
<1> QED BY <1>1, CalendarInvariant, PTL

\* create_slot_for_me answers 409 only for a slot that shares an instant with the
\* one that was asked for.
THEOREM ConflictIsRealHolds == Spec => []ConflictIsReal
<1>1. CalendarInv => ConflictIsReal BY DEF CalendarInv
<1> QED BY <1>1, CalendarInvariant, PTL

\* The IntegrityError of _get_or_create_specialist_profile is only met once the
\* profile is there.
THEOREM FailedProfileExistsHolds == Spec => []FailedProfileExists
<1>1. CalendarInv => FailedProfileExists BY DEF CalendarInv
<1> QED BY <1>1, CalendarInvariant, PTL

\* A specialist has at most one profile, committed or in the making, and every
\* slot and service is of one whose profile is committed: crashes included.
THEOREM ProfilesHold == Spec => []ProfilesOK
<1>1. ASSUME CalendarInv PROVE ProfilesOK
  <2>1. slots \in Seq([owner: profiles, span: Intervals, seen: 0 .. MaxRows])
    <3>1. TypesOK /\ slots \in Seq(Slot) /\ DOMAIN slots = 1 .. Len(slots)
      BY <1>1 DEF CalendarInv, TypesOK
    <3>2. ASSUME NEW i \in 1 .. Len(slots)
          PROVE  slots[i] \in [owner: profiles, span: Intervals, seen: 0 .. MaxRows]
      <4>1. slots[i] \in Slot BY <3>1
      <4>2. slots[i].owner \in profiles BY <1>1, <3>1 DEF CalendarInv, RowsOwned
      <4> QED BY <4>1, <4>2 DEF Slot
    <3> QED BY <3>1, <3>2, SeqOver
  <2>2. services \in Seq(profiles)
    <3>1. \A i \in 1 .. Len(services) : services[i] \in profiles
      BY <1>1 DEF CalendarInv, TypesOK, RowsOwned
    <3> QED BY <3>1, <1>1, SeqOver DEF CalendarInv, TypesOK
  <2> QED BY <1>1, <2>1, <2>2 DEF CalendarInv, TypesOK, PendingOwned, ProfilesOK
<1> QED BY <1>1, CalendarInvariant, PTL

================================================================================
