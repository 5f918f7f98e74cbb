----------------------------- MODULE SlotCalendar -----------------------------
(***************************************************************************)
(* app/api/v1/specialists.py: POST /specialists/me/slots and               *)
(* /specialists/me/services, which create the caller's profile on the way  *)
(* if there is none.  The profile is flushed, not committed: it becomes    *)
(* visible with the slot or service, and until then another INSERT for the *)
(* same user waits for it on the unique index of user_id.  Slots are only  *)
(* added here; their deletion is in BookingApi.                            *)
(***************************************************************************)
EXTENDS Naturals, Sequences

CONSTANTS
  Sessions,     \* API worker threads
  Specialists,  \* users whose role passes require_roles(SPECIALIST, ADMIN)
  MaxTime,      \* bound: slots lie within 0 .. MaxTime
  MaxRows,      \* bound: slots and services ever created
  MayCrash,     \* sessions whose process or connection may die mid-way
  Nobody        \* no session

ASSUME CalendarAssumption ==
  /\ MaxTime \in Nat /\ MaxRows \in Nat
  /\ MayCrash \subseteq Sessions
  /\ Nobody \notin Sessions

VARIABLES
  profiles,  \* specialist_profiles: the users that have a committed row
  pending,   \* pending[u]: the session with an uncommitted profile of u
  slots,     \* time_slots, in the order of their ids; 'seen' is a history field,
             \* not a column: how many slots there were at the overlap check
  services,  \* services: specialist_id of each row
  task       \* task[r]: where session r is, its arguments and its answer

vars == <<profiles, pending, slots, services, task>>

\* SlotCreateRequest.validate_interval: end_at after start_at.
Intervals == {i \in (0 .. MaxTime) \X (0 .. MaxTime) : i[1] < i[2]}

Idle == [stage |-> "idle"]
Closed == {"idle", "created", "conflict", "error"}
Busy == {r \in Sessions : task[r].stage \notin Closed}

Init ==
  /\ profiles = {}
  /\ pending = [u \in Specialists |-> Nobody]
  /\ slots = <<>>
  /\ services = <<>>
  /\ task = [r \in Sessions |-> Idle]

Goto(r, stage) == task' = [task EXCEPT ![r].stage = stage]

\* End of the transaction of session r: nothing of it is pending any more.
EndPending(r) == pending' = [u \in Specialists |-> IF pending[u] = r THEN Nobody ELSE pending[u]]

AfterProfile(kind) == IF kind = "slot" THEN "overlap" ELSE "insert"

\* _get_or_create_specialist_profile: SELECT sees committed profiles only.
SelectProfile(r) ==
  /\ task[r].stage = "idle"
  /\ \E u \in Specialists, kind \in {"slot", "service"}, span \in Intervals :
       task' = [task EXCEPT ![r] =
                  [stage |-> IF u \in profiles THEN AfterProfile(kind) ELSE "profile",
                   user |-> u, kind |-> kind, span |-> span, seen |-> 0]]
  /\ UNCHANGED <<profiles, pending, slots, services>>

MustWait(u) == pending[u] # Nobody

\* Mutant: a profile in the making is taken for one that is there.
InsertProfileImpatient(r) ==
  LET u == task[r].user IN
  /\ task[r].stage = "profile"
  /\ \/ (u \in profiles \/ MustWait(u)) /\ Goto(r, "error") /\ UNCHANGED pending
     \/ /\ u \notin profiles /\ ~MustWait(u)
        /\ pending' = [pending EXCEPT ![u] = r]
        /\ Goto(r, AfterProfile(task[r].kind))
  /\ UNCHANGED <<profiles, slots, services>>

\* INSERT of the profile.  Nobody catches the IntegrityError of a second one.
InsertProfile(r) ==
  LET u == task[r].user IN
  /\ task[r].stage = "profile"
  /\ ~MustWait(u)
  /\ \/ u \in profiles /\ Goto(r, "error") /\ UNCHANGED pending
     \/ /\ u \notin profiles
        /\ pending' = [pending EXCEPT ![u] = r]
        /\ Goto(r, AfterProfile(task[r].kind))
  /\ UNCHANGED <<profiles, slots, services>>

\* Mutant: only the start of the new slot is compared.
OverlapsAtStart(a, b) == a[1] <= b[1] /\ b[1] < a[2]

\* Mutant: slots that only touch are taken to overlap.
OverlapsTouching(a, b) == a[1] <= b[2] /\ a[2] >= b[1]

\* TimeSlot.start_at < payload.end_at and TimeSlot.end_at > payload.start_at
Overlaps(a, b) == a[1] < b[2] /\ a[2] > b[1]

\* A conflict ends the request, and its session is closed.
CheckOverlap(r) ==
  LET t == task[r]
      clash == \E i \in DOMAIN slots : slots[i].owner = t.user /\ Overlaps(slots[i].span, t.span)
  IN
  /\ t.stage = "overlap"
  /\ \/ clash /\ EndPending(r) /\ Goto(r, "conflict")
     \/ /\ ~clash
        /\ task' = [task EXCEPT ![r].stage = "insert", ![r].seen = Len(slots)]
        /\ UNCHANGED pending
  /\ UNCHANGED <<profiles, slots, services>>

\* Mutant: the profile is not part of the commit.
WithProfileOfNobody(u) == profiles

\* The profile that was flushed is committed with the row.
WithProfileOf(u) == profiles \cup {u}

\* INSERT of a row, and COMMIT of it and of the profile.
Insert(r, kind) ==
  /\ task[r].stage = "insert" /\ task[r].kind = kind
  /\ Len(slots) + Len(services) < MaxRows
  /\ profiles' = WithProfileOf(task[r].user)
  /\ EndPending(r)
  /\ Goto(r, "created")

InsertSlot(r) ==
  LET t == task[r] IN
  /\ Insert(r, "slot")
  /\ slots' = Append(slots, [owner |-> t.user, span |-> t.span, seen |-> t.seen])
  /\ UNCHANGED services

InsertService(r) ==
  /\ Insert(r, "service")
  /\ services' = Append(services, task[r].user)
  /\ UNCHANGED slots

\* get_db closes the session.
Close(r) ==
  /\ task[r].stage \in Closed \ {"idle"}
  /\ task' = [task EXCEPT ![r] = Idle]
  /\ UNCHANGED <<profiles, pending, slots, services>>

Crash(r) ==
  /\ r \in MayCrash \cap Busy
  /\ task' = [task EXCEPT ![r] = Idle]
  /\ EndPending(r)
  /\ UNCHANGED <<profiles, slots, services>>

Next ==
  \E r \in Sessions :
    \/ SelectProfile(r) \/ InsertProfile(r) \/ CheckOverlap(r)
    \/ InsertSlot(r) \/ InsertService(r) \/ Close(r) \/ Crash(r)

Spec == Init /\ [][Next]_vars

-------------------------------------------------------------------------------
Covers(span, t) == span[1] <= t /\ t < span[2]
Shared(a, b) == \E t \in 0 .. MaxTime : Covers(a, t) /\ Covers(b, t)

\* Slots of a specialist share an instant only if create_slot_for_me looked for
\* overlaps of the later one before the earlier one was committed: nothing but
\* that race, say a slot enclosed by another, gets past the check.
OverlapOnlyByRace ==
  \A i, j \in DOMAIN slots :
    i < j /\ slots[i].owner = slots[j].owner /\ Shared(slots[i].span, slots[j].span) =>
      slots[j].seen < i

\* A request is only refused for a slot that really shares an instant with it:
\* slots may follow each other without a gap.
ConflictIsReal ==
  \A r \in Sessions : task[r].stage = "conflict" =>
    \E i \in DOMAIN slots : slots[i].owner = task[r].user /\ Shared(slots[i].span, task[r].span)

\* If creating the profile fails, the profile is there by now: the same request
\* goes through when it is sent again.
FailedProfileExists == \A r \in Sessions : task[r].stage = "error" => task[r].user \in profiles

\* At most one session has a profile of a user in the making, and none once it is
\* committed; a specialist with a slot or a service has a committed profile.
ProfilesOK ==
  /\ profiles \subseteq Specialists
  /\ slots \in Seq([owner: profiles, span: Intervals, seen: 0 .. MaxRows])
  /\ services \in Seq(profiles)
  /\ \A u \in Specialists : pending[u] # Nobody =>
       u \notin profiles /\ pending[u] \in Busy /\ task[pending[u]].user = u
===============================================================================
