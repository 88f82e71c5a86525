------------------------- MODULE LoginLimiterProofs -------------------------
(***************************************************************************)
(* Proofs about LoginLimiter, for every number of requests, keys and       *)
(* attempts and every window length: its type invariant, the quota of the  *)
(* open window (WindowQuota), that a window is never moved, and the quota  *)
(* of any stretch of time as long as a window (SlidingQuota).              *)
(***************************************************************************)
EXTENDS LoginLimiter, FiniteSetTheorems, WellFoundedInduction, TLAPS

Inside(r) == pc[r] \in {"look", "write", "unlock"}

(* Only the holder of rl.mu is between Lock and Unlock.                    *)
MutexInv == \A r \in Requests : Inside(r) => mu = r

(* No attempt was let through later than the current window allows, and    *)
(* none at all before the first entry.                                     *)
HistoryInv ==
  \A ip \in Keys :
    /\ entries[ip].count = 0 => grants[ip] = << >>
    /\ entries[ip].count > 0 =>
         \A i \in DOMAIN grants[ip] : grants[ip][i] <= entries[ip].resetAt

(* What a goroutine decided in Look still holds when it comes to Write.    *)
DecisionInv ==
  \A r \in Requests : pc[r] = "write" =>
    /\ seen[r].at <= now
    /\ seen[r].verdict = "fresh" =>
         entries[addr[r]].count = 0 \/ seen[r].at > entries[addr[r]].resetAt
    /\ seen[r].verdict = "count" =>
         /\ entries[addr[r]].count > 0
         /\ entries[addr[r]].count < MaxAttempts
         /\ seen[r].at <= entries[addr[r]].resetAt

Since(ip) == {i \in DOMAIN grants[ip] : grants[ip][i] >= Opened(ip)}

CountInv ==
  \A ip \in Keys :
    /\ entries[ip].count <= MaxAttempts
    /\ entries[ip].count > 0 => Cardinality(Since(ip)) <= entries[ip].count

IInv == TypeOK /\ MutexInv /\ HistoryInv /\ DecisionInv /\ CountInv

-----------------------------------------------------------------------------
(* What a well-typed state says of the row of one request.                *)
LEMMA RowTypes ==
  ASSUME TypeOK, NEW r \in Requests
  PROVE  /\ addr[r] \in Keys
         /\ seen[r].at \in Nat
         /\ seen[r].verdict \in {"fresh", "deny", "count"}
         /\ entries[addr[r]] \in [count : Nat, resetAt : Nat]
         /\ grants[addr[r]] \in Seq(Nat)
         /\ now \in Nat /\ now + Window \in Nat
<1>1. addr[r] \in Keys
  BY DEF TypeOK
<1>2. seen[r].at \in Nat /\ seen[r].verdict \in {"fresh", "deny", "count"}
  BY DEF TypeOK, Decisions
<1>3. entries[addr[r]] \in [count : Nat, resetAt : Nat]
  BY <1>1 DEF TypeOK
<1>4. grants[addr[r]] \in Seq(Nat)
  BY <1>1 DEF TypeOK
<1>5. now \in Nat /\ now + Window \in Nat
  BY LimiterAssumption DEF TypeOK
<1>6. QED
  BY <1>1, <1>2, <1>3, <1>4, <1>5

(* Type correctness: entries, decisions and the record of attempts let     *)
(* through keep their types in every step of allow and Login.              *)
THEOREM TypeCorrect == Spec => []TypeOK
<1>1. Init => TypeOK
  BY LimiterAssumption DEF Init, TypeOK, NoEntry, Undecided, Decisions, Locations, Statuses
<1>2. TypeOK /\ [Next]_vars => TypeOK'
  <2> SUFFICES ASSUME TypeOK, [Next]_vars PROVE TypeOK'
    OBVIOUS
  <2>1. ASSUME NEW r \in Requests, NEW ip \in Keys, Arrive(r, ip) PROVE TypeOK'
    BY <2>1 DEF Arrive, TypeOK, Locations, Statuses
  <2>2. ASSUME NEW r \in Requests, Lock(r) PROVE TypeOK'
    BY <2>2 DEF Lock, TypeOK, Locations
  <2>3. ASSUME NEW r \in Requests, Look(r) PROVE TypeOK'
    BY <2>3 DEF Look, Verdict, TypeOK, Decisions, Locations
  <2>4. ASSUME NEW r \in Requests, Write(r) PROVE TypeOK'
    <3> DEFINE e == entries[addr[r]]
    <3>1. NewEntry(seen[r].verdict, e) \in [count : Nat, resetAt : Nat]
      <4>1. CASE seen[r].verdict = "fresh"
        BY <4>1, RowTypes DEF NewEntry
      <4>2. CASE seen[r].verdict = "count"
        BY <4>2, RowTypes DEF NewEntry
      <4>3. CASE seen[r].verdict = "deny"
        BY <4>3, RowTypes DEF NewEntry
      <4>4. QED
        BY RowTypes, <4>1, <4>2, <4>3
    <3>2. entries' \in [Keys -> [count : Nat, resetAt : Nat]]
      BY <2>4, <3>1 DEF Write, TypeOK
    <3>3. grants' \in [Keys -> Seq(Nat)]
      <4>1. Append(grants[addr[r]], now) \in Seq(Nat)
        BY RowTypes
      <4>2. Append(grants[addr[r]], seen[r].at) \in Seq(Nat)
        BY RowTypes
      <4>3. QED
        BY <2>4, <4>1, <4>2, RowTypes DEF Write, TypeOK
    <3>4. pc' \in [Requests -> Locations]
      BY <2>4 DEF Write, TypeOK, Locations
    <3>5. UNCHANGED <<now, mu, addr, seen, status>>
      BY <2>4 DEF Write
    <3>6. QED
      BY <3>2, <3>3, <3>4, <3>5 DEF TypeOK
  <2>5. ASSUME NEW r \in Requests, Unlock(r) PROVE TypeOK'
    <3>1. pc' \in [Requests -> Locations] /\ status' \in [Requests -> Statuses]
      BY <2>5 DEF Unlock, TypeOK, Locations, Statuses
    <3>2. mu' \in Requests \cup {"none"}
      BY <2>5 DEF Unlock
    <3>3. UNCHANGED <<now, entries, addr, grants>>
      BY <2>5 DEF Unlock
    <3>4. seen' \in [Requests -> Decisions]
      <4>1. Undecided \in Decisions
        BY DEF Undecided, Decisions
      <4>2. QED
        BY <2>5, <4>1 DEF Unlock, TypeOK
    <3>5. QED
      BY <3>1, <3>2, <3>3, <3>4 DEF TypeOK
  <2>6. ASSUME NEW r \in Requests, Answer(r) PROVE TypeOK'
    BY <2>6 DEF Answer, TypeOK, Locations, Statuses
  <2>7. CASE Tick
    BY <2>7 DEF Tick, TypeOK
  <2>8. CASE Restart
    <3>1. NoEntry \in [count : Nat, resetAt : Nat] /\ Undecided \in Decisions
      BY DEF NoEntry, Undecided, Decisions
    <3>2. entries' \in [Keys -> [count : Nat, resetAt : Nat]]
      BY <2>8, <3>1 DEF Restart
    <3>3. seen' \in [Requests -> Decisions]
      BY <2>8, <3>1 DEF Restart
    <3>4. pc' \in [Requests -> Locations] /\ status' \in [Requests -> Statuses]
      BY <2>8 DEF Restart, Locations, Statuses
    <3>5. grants' \in [Keys -> Seq(Nat)] /\ mu' \in Requests \cup {"none"}
      BY <2>8 DEF Restart
    <3>6. UNCHANGED <<now, addr>>
      BY <2>8 DEF Restart
    <3>7. QED
      BY <3>2, <3>3, <3>4, <3>5, <3>6 DEF TypeOK
  <2>9. CASE UNCHANGED vars
    BY <2>9 DEF vars, TypeOK
  <2>10. QED
    BY <2>1, <2>2, <2>3, <2>4, <2>5, <2>6, <2>7, <2>8, <2>9 DEF Next
<1>3. QED
  BY <1>1, <1>2, PTL DEF Spec

(* The initial states satisfy the invariant.                               *)
LEMMA InitInv == Init => IInv
<1> SUFFICES ASSUME Init PROVE IInv
  OBVIOUS
<1>1. TypeOK
  BY LimiterAssumption DEF Init, TypeOK, NoEntry, Undecided, Decisions, Locations, Statuses
<1>2. MutexInv /\ DecisionInv
  BY DEF Init, MutexInv, DecisionInv, Inside
<1>3. HistoryInv /\ CountInv
  BY LimiterAssumption DEF Init, HistoryInv, CountInv, NoEntry
<1>4. QED
  BY <1>1, <1>2, <1>3 DEF IInv

(* What appending an attempt does to the attempts recorded for a key.      *)
LEMMA AppendAttempt ==
  ASSUME NEW g \in Seq(Nat), NEW n \in Nat
  PROVE  /\ DOMAIN Append(g, n) = (DOMAIN g) \cup {Len(g) + 1}
         /\ \A i \in DOMAIN g : Append(g, n)[i] = g[i]
         /\ Append(g, n)[Len(g) + 1] = n
<1>1. Len(g) \in Nat /\ DOMAIN g = 1 .. Len(g)
  OBVIOUS
<1>2. Len(Append(g, n)) = Len(g) + 1 /\ DOMAIN Append(g, n) = 1 .. Len(Append(g, n))
  OBVIOUS
<1>3. DOMAIN Append(g, n) = (DOMAIN g) \cup {Len(g) + 1}
  BY <1>1, <1>2
<1>4. \A i \in 1 .. Len(g) : Append(g, n)[i] = g[i]
  OBVIOUS
<1>5. Append(g, n)[Len(g) + 1] = n
  OBVIOUS
<1>6. QED
  BY <1>1, <1>3, <1>4, <1>5

(* The step that matters: whoever writes the entry of a key counts         *)
(* the attempt it lets through, or starts a window no earlier attempt is   *)
(* in.                                                                     *)
LEMMA WriteKeepsCount ==
  ASSUME IInv, TypeOK', NEW r \in Requests, Write(r), NEW a \in Keys, a = addr[r]
  PROVE  HistoryInv' /\ CountInv'
<1> DEFINE e == entries[a]
           g == grants[a]
           v == seen[r].verdict
<1>1. /\ a \in Keys /\ now \in Nat /\ seen[r].at \in Nat
      /\ e.count \in Nat /\ e.resetAt \in Nat /\ g \in Seq(Nat)
      /\ v \in {"fresh", "deny", "count"}
      /\ Window \in Nat /\ Window > 0 /\ MaxAttempts \in Nat /\ MaxAttempts > 0
  BY RowTypes, LimiterAssumption DEF IInv
<1>2. \A ip \in Keys \ {a} : entries'[ip] = entries[ip] /\ grants'[ip] = grants[ip]
  BY <1>1 DEF IInv, TypeOK, Write
<1>3. SUFFICES /\ entries'[a].count \in Nat
               /\ entries'[a].count = 0 => grants'[a] = << >>
               /\ entries'[a].count > 0 =>
                    /\ \A i \in DOMAIN grants'[a] : grants'[a][i] <= entries'[a].resetAt
                    /\ Cardinality(Since(a)') <= entries'[a].count
               /\ entries'[a].count <= MaxAttempts
  <2>1. \A ip \in Keys \ {a} : Since(ip)' = Since(ip)
    BY <1>2 DEF Since, Opened
  <2>2. QED
    BY <1>1, <1>2, <2>1 DEF IInv, HistoryInv, CountInv
<1>4. pc[r] = "write"
  BY DEF Write
<1>5. entries'[a] = NewEntry(v, e)
  BY <1>1 DEF IInv, TypeOK, Write
<1>6. IsFiniteSet(Since(a)) /\ Cardinality(Since(a)) \in Nat
  <2>1. DOMAIN g = 1 .. Len(g) /\ Len(g) \in Int /\ 1 \in Int
    BY <1>1
  <2>2. IsFiniteSet(1 .. Len(g))
    BY <2>1, FS_Interval
  <2>3. Since(a) \subseteq 1 .. Len(g)
    BY <2>1 DEF Since
  <2>4. IsFiniteSet(Since(a))
    BY <2>2, <2>3, FS_Subset
  <2>5. QED
    BY <2>4, FS_CardinalityType
<1>7. CASE v = "deny"
  <2>1. entries'[a] = e /\ grants'[a] = g
    BY <1>5, <1>7 DEF NewEntry, Write
  <2>2. Since(a)' = Since(a)
    BY <2>1 DEF Since, Opened
  <2>3. QED
    BY <1>1, <2>1, <2>2 DEF IInv, HistoryInv, CountInv
<1>8. CASE v = "count"
  <2>1. /\ e.count > 0 /\ e.count < MaxAttempts /\ seen[r].at <= e.resetAt
    BY <1>4, <1>8 DEF IInv, DecisionInv
  <2>2. /\ entries'[a].count = e.count + 1
        /\ entries'[a].resetAt = e.resetAt
    BY <1>1, <1>5, <1>8 DEF NewEntry, IInv, TypeOK
  <2>3. grants'[a] = Append(g, seen[r].at)
    BY <1>1, <1>8 DEF Write, IInv, TypeOK
  <2>4. /\ DOMAIN grants'[a] = (DOMAIN g) \cup {Len(g) + 1}
        /\ \A i \in DOMAIN g : grants'[a][i] = g[i]
        /\ grants'[a][Len(g) + 1] = seen[r].at
    BY <1>1, <2>3, AppendAttempt
  <2>5. Since(a)' \subseteq Since(a) \cup {Len(g) + 1}
    BY <1>1, <2>2, <2>4 DEF Since, Opened
  <2>6. Cardinality(Since(a)') <= Cardinality(Since(a)) + 1
    <3>1. /\ IsFiniteSet(Since(a) \cup {Len(g) + 1})
          /\ Cardinality(Since(a) \cup {Len(g) + 1}) <= Cardinality(Since(a)) + 1
      <4> DEFINE n == Len(g) + 1
                 C(S) == Cardinality(S)
      <4>1. /\ IsFiniteSet(Since(a) \cup {n})
            /\ C(Since(a) \cup {n}) = IF n \in Since(a) THEN C(Since(a)) ELSE C(Since(a)) + 1
        BY <1>6, FS_AddElement
      <4>2. C(Since(a)) \in Nat
        BY <1>6
      <4> HIDE DEF C, n
      <4>3. C(Since(a) \cup {n}) <= C(Since(a)) + 1
        BY <4>1, <4>2
      <4>4. QED
        BY <4>1, <4>3 DEF C, n
    <3>2. /\ IsFiniteSet(Since(a)')
          /\ Cardinality(Since(a)') <= Cardinality(Since(a) \cup {Len(g) + 1})
      BY <2>5, <3>1, FS_Subset
    <3>3. QED
      BY <1>6, <3>1, <3>2, FS_CardinalityType
  <2>7. Cardinality(Since(a)) <= e.count
    BY <1>1, <2>1 DEF IInv, CountInv
  <2>8. \A i \in DOMAIN g : g[i] <= e.resetAt
    BY <1>1, <2>1 DEF IInv, HistoryInv
  <2>9. IsFiniteSet(Since(a)') /\ Cardinality(Since(a)') \in Nat
    <3>1. IsFiniteSet(Since(a) \cup {Len(g) + 1})
      BY <1>6, FS_AddElement
    <3>2. IsFiniteSet(Since(a)')
      BY <2>5, <3>1, FS_Subset
    <3>3. QED
      BY <3>2, FS_CardinalityType
  <2>10. Cardinality(Since(a)') <= entries'[a].count
    BY <1>1, <1>6, <2>2, <2>6, <2>7, <2>9
  <2>11. \A i \in DOMAIN grants'[a] : grants'[a][i] <= entries'[a].resetAt
    BY <2>1, <2>2, <2>4, <2>8
  <2>12. QED
    BY <1>1, <2>1, <2>2, <2>10, <2>11
<1>9. CASE v = "fresh"
  <2>1. seen[r].at <= now /\ (e.count = 0 \/ seen[r].at > e.resetAt)
    BY <1>4, <1>9 DEF IInv, DecisionInv
  <2>2. entries'[a].count = 1 /\ entries'[a].resetAt = now + Window
    BY <1>5, <1>9 DEF NewEntry
  <2>3. grants'[a] = Append(g, now)
    BY <1>1, <1>9 DEF Write, IInv, TypeOK
  <2>4. /\ DOMAIN grants'[a] = (DOMAIN g) \cup {Len(g) + 1}
        /\ \A i \in DOMAIN g : grants'[a][i] = g[i]
        /\ grants'[a][Len(g) + 1] = now
    BY <1>1, <2>3, AppendAttempt
  <2>5. \A i \in DOMAIN g : g[i] \in Nat /\ g[i] < now
    <3>1. CASE e.count = 0
      <4>1. g = << >>
        BY <1>1, <3>1 DEF IInv, HistoryInv
      <4>2. QED
        BY <4>1
    <3>2. CASE e.count > 0
      <4>1. \A i \in DOMAIN g : g[i] <= e.resetAt
        BY <1>1, <3>2 DEF IInv, HistoryInv
      <4>2. e.resetAt < now
        BY <1>1, <2>1, <3>2
      <4>3. \A i \in DOMAIN g : g[i] \in Nat
        BY <1>1
      <4>4. QED
        BY <1>1, <4>1, <4>2, <4>3
    <3>3. QED
      BY <1>1, <3>1, <3>2
  <2>6. Since(a)' \subseteq {Len(g) + 1}
    BY <1>1, <2>2, <2>4, <2>5 DEF Since, Opened
  <2>7. Cardinality(Since(a)') <= 1
    <3>1. IsFiniteSet({Len(g) + 1}) /\ Cardinality({Len(g) + 1}) = 1
      BY FS_Singleton
    <3>2. QED
      BY <2>6, <3>1, FS_Subset
  <2>8. \A i \in DOMAIN grants'[a] : grants'[a][i] <= entries'[a].resetAt
    <3>1. SUFFICES ASSUME NEW i \in DOMAIN grants'[a]
                   PROVE  grants'[a][i] <= now + Window
      BY <2>2
    <3>2. CASE i \in DOMAIN g
      BY <1>1, <2>4, <2>5, <3>2
    <3>3. CASE i = Len(g) + 1
      BY <1>1, <2>4, <3>3
    <3>4. QED
      BY <2>4, <3>2, <3>3
  <2>9. QED
    BY <1>1, <2>2, <2>7, <2>8
<1>10. QED
  BY <1>1, <1>7, <1>8, <1>9

(* The invariant is inductive.                                             *)
LEMMA StepInv == IInv /\ TypeOK' /\ [Next]_vars => IInv'
<1> SUFFICES ASSUME IInv, TypeOK', [Next]_vars PROVE IInv'
  OBVIOUS
<1> USE DEF Inside
<1>1. ASSUME NEW r \in Requests, NEW ip \in Keys, Arrive(r, ip) PROVE IInv'
  <2>1. UNCHANGED <<now, mu, entries, seen, grants>>
    BY <1>1 DEF Arrive
  <2>2. \A q \in Requests \ {r} : pc'[q] = pc[q] /\ addr'[q] = addr[q]
    BY <1>1 DEF Arrive, IInv, TypeOK
  <2>3. pc'[r] = "lock"
    BY <1>1 DEF Arrive, IInv, TypeOK
  <2>4. HistoryInv' /\ CountInv'
    BY <2>1 DEF IInv, HistoryInv, CountInv, Since, Opened
  <2>5. MutexInv' /\ DecisionInv'
    BY <2>1, <2>2, <2>3 DEF IInv, MutexInv, DecisionInv
  <2>6. QED
    BY <2>4, <2>5 DEF IInv
<1>2. ASSUME NEW r \in Requests, Lock(r) PROVE IInv'
  <2>1. HistoryInv' /\ CountInv'
    BY <1>2 DEF Lock, IInv, HistoryInv, CountInv, Since, Opened
  <2>2. MutexInv'
    <3>1. \A q \in Requests : ~ Inside(q)
      BY <1>2, LimiterAssumption DEF Lock, IInv, MutexInv
    <3>2. QED
      BY <1>2, <3>1 DEF Lock, MutexInv, IInv, TypeOK
  <2>3. DecisionInv'
    BY <1>2 DEF Lock, IInv, TypeOK, DecisionInv
  <2>4. QED
    BY <2>1, <2>2, <2>3 DEF IInv
<1>3. ASSUME NEW r \in Requests, Look(r) PROVE IInv'
  <2>1. UNCHANGED <<now, mu, entries, addr, grants>>
    BY <1>3 DEF Look
  <2>2. HistoryInv' /\ CountInv'
    BY <2>1 DEF IInv, HistoryInv, CountInv, Since, Opened
  <2>3. MutexInv'
    BY <1>3 DEF Look, IInv, MutexInv, TypeOK
  <2>4. \A q \in Requests \ {r} : pc'[q] = pc[q] /\ seen'[q] = seen[q]
    BY <1>3 DEF Look, IInv, TypeOK
  <2>5. seen'[r].at = now /\ seen'[r].verdict = Verdict(addr[r])
    BY <1>3 DEF Look, IInv, TypeOK
  <2>6. /\ entries[addr[r]].count \in Nat /\ entries[addr[r]].resetAt \in Nat
        /\ entries[addr[r]].count <= MaxAttempts
        /\ now \in Nat /\ MaxAttempts \in Nat
    BY RowTypes, LimiterAssumption DEF IInv, CountInv
  <2>7. /\ seen'[r].at <= now
        /\ seen'[r].verdict = "fresh" =>
             entries[addr[r]].count = 0 \/ seen'[r].at > entries[addr[r]].resetAt
        /\ seen'[r].verdict = "count" =>
             /\ entries[addr[r]].count > 0
             /\ entries[addr[r]].count < MaxAttempts
             /\ seen'[r].at <= entries[addr[r]].resetAt
    BY <2>5, <2>6 DEF Verdict, Expired
  <2>8. DecisionInv'
    BY <2>1, <2>4, <2>7 DEF IInv, DecisionInv
  <2>9. QED
    BY <2>2, <2>3, <2>8 DEF IInv
<1>4. ASSUME NEW r \in Requests, Write(r) PROVE IInv'
  <2>1. addr[r] \in Keys
    BY DEF IInv, TypeOK
  <2>2. HistoryInv' /\ CountInv'
    BY <1>4, <2>1, WriteKeepsCount
  <2>3. MutexInv'
    BY <1>4 DEF Write, IInv, MutexInv, TypeOK
  <2>4. \A q \in Requests : pc'[q] # "write"
    BY <1>4 DEF Write, IInv, MutexInv, TypeOK
  <2>5. DecisionInv'
    BY <2>4 DEF DecisionInv
  <2>6. QED
    BY <2>2, <2>3, <2>5 DEF IInv
<1>5. ASSUME NEW r \in Requests, Unlock(r) PROVE IInv'
  <2>1. UNCHANGED <<now, entries, addr, grants>>
    BY <1>5 DEF Unlock
  <2>2. \A q \in Requests \ {r} : ~ Inside(q) /\ pc'[q] = pc[q]
    BY <1>5 DEF Unlock, IInv, MutexInv, TypeOK
  <2>3. pc'[r] \in {"idle", "check"}
    BY <1>5 DEF Unlock, IInv, TypeOK
  <2>4. HistoryInv' /\ CountInv'
    BY <2>1 DEF IInv, HistoryInv, CountInv, Since, Opened
  <2>5. MutexInv' /\ DecisionInv'
    BY <2>2, <2>3 DEF MutexInv, DecisionInv
  <2>6. QED
    BY <2>4, <2>5 DEF IInv
<1>6. ASSUME NEW r \in Requests, Answer(r) PROVE IInv'
  <2>1. HistoryInv' /\ CountInv'
    BY <1>6 DEF Answer, IInv, HistoryInv, CountInv, Since, Opened
  <2>2. MutexInv' /\ DecisionInv'
    BY <1>6 DEF Answer, IInv, MutexInv, DecisionInv, TypeOK
  <2>3. QED
    BY <2>1, <2>2 DEF IInv
<1>7. CASE Tick
  <2>1. HistoryInv' /\ CountInv' /\ MutexInv'
    BY <1>7 DEF Tick, IInv, HistoryInv, CountInv, Since, Opened, MutexInv
  <2>2. DecisionInv'
    BY <1>7 DEF Tick, IInv, DecisionInv, TypeOK, Decisions
  <2>3. QED
    BY <2>1, <2>2 DEF IInv
<1>8. CASE Restart
  <2>1. HistoryInv' /\ CountInv'
    BY <1>8, LimiterAssumption DEF Restart, HistoryInv, CountInv, NoEntry
  <2>2. MutexInv' /\ DecisionInv'
    BY <1>8 DEF Restart, MutexInv, DecisionInv
  <2>3. QED
    BY <2>1, <2>2 DEF IInv
<1>9. CASE UNCHANGED vars
  BY <1>9 DEF vars, IInv, HistoryInv, CountInv, Since, Opened, MutexInv, DecisionInv
<1>10. QED
  BY <1>1, <1>2, <1>3, <1>4, <1>5, <1>6, <1>7, <1>8, <1>9 DEF Next

(* WindowQuota follows: the attempts of the open window are among Since.   *)
LEMMA InvImpliesQuota == IInv => WindowQuota
<1> SUFFICES ASSUME IInv, NEW ip \in Keys, entries[ip].count > 0
             PROVE  Cardinality(Between(ip, Opened(ip), entries[ip].resetAt)) <= MaxAttempts
  BY DEF WindowQuota
<1> DEFINE B == Between(ip, Opened(ip), entries[ip].resetAt)
<1>1. /\ grants[ip] \in Seq(Nat)
      /\ entries[ip].count \in Nat /\ MaxAttempts \in Nat
      /\ entries[ip].resetAt \in Nat /\ Window \in Nat
  BY LimiterAssumption DEF IInv, TypeOK
<1>2. B \subseteq Since(ip)
  BY <1>1 DEF Between, Since, Opened
<1>3. IsFiniteSet(Since(ip))
  <2>1. 1 \in Int /\ Len(grants[ip]) \in Int
    BY <1>1
  <2>2. IsFiniteSet(1 .. Len(grants[ip]))
    BY <2>1, FS_Interval
  <2>3. Since(ip) \subseteq 1 .. Len(grants[ip])
    BY <1>1 DEF Since
  <2>4. QED
    BY <2>2, <2>3, FS_Subset
<1>4. /\ Cardinality(B) <= Cardinality(Since(ip))
      /\ Cardinality(B) \in Nat /\ Cardinality(Since(ip)) \in Nat
  BY <1>2, <1>3, FS_Subset, FS_CardinalityType
<1>5. Cardinality(Since(ip)) <= entries[ip].count /\ entries[ip].count <= MaxAttempts
  BY DEF IInv, CountInv
<1>6. QED
  BY <1>1, <1>4, <1>5

(* At most MaxAttempts attempts of one key reach the password check in     *)
(* the window its entry describes, for any number of concurrent requests   *)
(* and keys, any quota and any window length.                              *)
THEOREM QuotaHolds == Spec => []WindowQuota
<1>1. Init => IInv
  BY InitInv
<1>2. IInv /\ TypeOK' /\ [Next]_vars => IInv'
  BY StepInv
<1>3. IInv => WindowQuota
  BY InvImpliesQuota
<1>4. QED
  BY <1>1, <1>2, <1>3, TypeCorrect, PTL DEF Spec

(* An open window is never moved: the time of its end changes only once it *)
(* has passed.                                                             *)
THEOREM WindowFixed == Spec => WindowIsNotExtended
<1>1. IInv /\ TypeOK' /\ [Next]_vars =>
        [\A ip \in Keys :
           entries[ip].count > 0 /\ entries'[ip].count > 0
             => \/ entries'[ip].resetAt = entries[ip].resetAt
                \/ now > entries[ip].resetAt]_vars
  <2> SUFFICES ASSUME IInv, TypeOK', Next, NEW ip \in Keys,
                      entries[ip].count > 0, entries'[ip].count > 0
               PROVE  \/ entries'[ip].resetAt = entries[ip].resetAt
                      \/ now > entries[ip].resetAt
    BY DEF vars
  <2>1. ASSUME NEW r \in Requests, Write(r)
        PROVE  \/ entries'[ip].resetAt = entries[ip].resetAt
               \/ now > entries[ip].resetAt
    <3>1. CASE ip # addr[r]
      BY <2>1, <3>1 DEF Write, IInv, TypeOK
    <3>2. CASE ip = addr[r]
      <4>1. entries'[ip] = NewEntry(seen[r].verdict, entries[ip]) /\ pc[r] = "write"
        BY <2>1, <3>2 DEF Write, IInv, TypeOK
      <4>2. /\ entries[ip] \in [count : Nat, resetAt : Nat]
            /\ now \in Nat /\ seen[r].at \in Nat
            /\ seen[r].verdict \in {"fresh", "deny", "count"}
        BY <3>2, RowTypes DEF IInv
      <4>3. CASE seen[r].verdict = "fresh"
        BY <3>2, <4>1, <4>2, <4>3 DEF IInv, DecisionInv
      <4>4. CASE seen[r].verdict = "count"
        BY <4>1, <4>2, <4>4 DEF NewEntry
      <4>5. CASE seen[r].verdict = "deny"
        BY <4>1, <4>2, <4>5 DEF NewEntry
      <4>6. QED
        BY <4>2, <4>3, <4>4, <4>5
    <3>3. QED
      BY <3>1, <3>2
  <2>2. CASE Restart
    BY <2>2 DEF Restart, NoEntry
  <2>3. ASSUME UNCHANGED entries
        PROVE  \/ entries'[ip].resetAt = entries[ip].resetAt
               \/ now > entries[ip].resetAt
    BY <2>3
  <2>4. QED
    BY <2>1, <2>2, <2>3 DEF Next, Arrive, Lock, Look, Unlock, Answer, Tick
<1>2. QED
  BY <1>1, InitInv, StepInv, TypeCorrect, PTL DEF Spec, WindowIsNotExtended

-----------------------------------------------------------------------------
(* SlidingQuota.  Two windows in a row can both be met by one stretch of   *)
(* Window, three cannot: the first attempt of the next but one comes more  *)
(* than Window after every attempt of the first.  As an invariant that     *)
(* needs no record of past windows, it is said of positions: attempts that *)
(* are 2 * MaxAttempts - 1 places apart are more than Window apart in time *)
(* (SpacingInv).  To keep it when an attempt is added one must know of the *)
(* open window where it begins in the record, that all before it is older, *)
(* and that MaxAttempts places earlier all is older by a whole window      *)
(* (OpenInv); and that the attempt about to be counted falls into the open *)
(* window (LookInv).                                                       *)

(* The record g of length l is one in which attempts 2 * MaxAttempts - 1   *)
(* places apart are more than Window apart in time.                        *)
Apart(g, l) ==
  \A i \in 1 .. l : \A j \in 1 .. l :
    j - i >= 2 * MaxAttempts - 1 => g[j] > g[i] + Window

(* Of the record g, all up to position p is no later than o, and all up to *)
(* MaxAttempts places before that is a whole window older.                 *)
Older(g, l, p, o) ==
  /\ \A i \in 1 .. l : i <= p => g[i] <= o
  /\ \A i \in 1 .. l : i <= p - MaxAttempts => g[i] + Window < o

(* h is g with one attempt more, at time n.                                *)
OneMore(h, g, l, n) ==
  /\ \A i \in 1 .. l : h[i] = g[i] /\ g[i] \in Nat
  /\ h[l + 1] = n

Spaced(ip) == Apart(grants[ip], Len(grants[ip]))

Open(ip) ==
  entries[ip].count > 0 =>
    /\ entries[ip].count <= Len(grants[ip])
    /\ Opened(ip) <= now
    /\ Older(grants[ip], Len(grants[ip]), Len(grants[ip]) - entries[ip].count + 1,
             Opened(ip))

SpacingInv == \A ip \in Keys : Spaced(ip)
OpenInv == \A ip \in Keys : Open(ip)

LookInv ==
  \A r \in Requests :
    pc[r] = "write" /\ seen[r].verdict = "count" => Opened(addr[r]) <= seen[r].at

SInv == SpacingInv /\ OpenInv /\ LookInv

(* An attempt added to a record, position by position.                     *)
LEMMA LongerRecord ==
  ASSUME NEW g \in Seq(Nat), NEW n \in Nat, NEW h, h = Append(g, n)
  PROVE  Len(h) = Len(g) + 1 /\ OneMore(h, g, Len(g), n)
<1>1. Len(g) \in Nat /\ DOMAIN g = 1 .. Len(g) /\ Len(h) = Len(g) + 1
  OBVIOUS
<1>2. \A i \in 1 .. Len(g) : h[i] = g[i] /\ g[i] \in Nat
  BY <1>1, AppendAttempt
<1>3. h[Len(g) + 1] = n
  BY AppendAttempt
<1>4. QED
  BY <1>1, <1>2, <1>3 DEF OneMore

(* Counting an attempt: it is the last of the open window, and everything  *)
(* 2 * MaxAttempts - 1 places before it lies in windows long past.         *)
LEMMA CountedAttempt ==
  ASSUME NEW l \in Nat, NEW g, NEW h, NEW n \in Nat, NEW c \in Nat, NEW o \in Int,
         OneMore(h, g, l, n), Apart(g, l), Older(g, l, l - c + 1, o),
         c > 0, c < MaxAttempts, c <= l, o <= n
  PROVE  Apart(h, l + 1) /\ Older(h, l + 1, l - c + 1, o)
<1>1. /\ MaxAttempts \in Nat /\ MaxAttempts > 0 /\ Window \in Nat
      /\ \A i \in 1 .. l : h[i] = g[i] /\ g[i] \in Nat
      /\ h[l + 1] = n
  BY LimiterAssumption DEF OneMore
<1>2. ASSUME NEW i \in 1 .. l + 1
      PROVE  /\ i <= l - c + 1 => h[i] <= o
             /\ i <= l - c + 1 - MaxAttempts => h[i] + Window < o
  BY <1>1 DEF Older
<1>3. ASSUME NEW i \in 1 .. l + 1, NEW j \in 1 .. l + 1, j - i >= 2 * MaxAttempts - 1
      PROVE  h[j] > h[i] + Window
  <2>1. i \in 1 .. l
    BY <1>1, <1>3
  <2>2. CASE j \in 1 .. l
    BY <1>1, <1>3, <2>1, <2>2 DEF Apart
  <2>3. CASE j = l + 1
    <3>1. i <= l - c + 1 - MaxAttempts
      BY <1>1, <1>3, <2>1, <2>3
    <3>2. g[i] + Window < o /\ g[i] \in Nat /\ h[i] = g[i]
      BY <1>1, <2>1, <3>1 DEF Older
    <3>3. QED
      BY <1>1, <2>3, <3>2
  <2>4. QED
    BY <2>2, <2>3
<1>4. Apart(h, l + 1)
  BY <1>3, Zenon DEF Apart
<1>5. Older(h, l + 1, l - c + 1, o)
  BY <1>1, <1>2 DEF Older
<1>6. QED
  BY <1>4, <1>5

(* Opening a window: everything recorded is no later than its first        *)
(* attempt, and everything MaxAttempts places before that attempt is no    *)
(* later than the opening of the window before.                            *)
LEMMA OpeningAttempt ==
  ASSUME NEW l \in Nat, NEW g, NEW h, NEW n \in Nat,
         OneMore(h, g, l, n), Apart(g, l), Older(g, l, l + 1, n)
  PROVE  Apart(h, l + 1) /\ Older(h, l + 1, l + 1, n)
<1>1. /\ MaxAttempts \in Nat /\ MaxAttempts > 0 /\ Window \in Nat
      /\ \A i \in 1 .. l : h[i] = g[i] /\ g[i] \in Nat
      /\ h[l + 1] = n
  BY LimiterAssumption DEF OneMore
<1>2. ASSUME NEW i \in 1 .. l + 1
      PROVE  /\ i <= l + 1 => h[i] <= n
             /\ i <= l + 1 - MaxAttempts => h[i] + Window < n
  BY <1>1 DEF Older
<1>3. ASSUME NEW i \in 1 .. l + 1, NEW j \in 1 .. l + 1, j - i >= 2 * MaxAttempts - 1
      PROVE  h[j] > h[i] + Window
  <2>1. i \in 1 .. l
    BY <1>1, <1>3
  <2>2. CASE j \in 1 .. l
    BY <1>1, <1>3, <2>1, <2>2 DEF Apart
  <2>3. CASE j = l + 1
    <3>1. i <= l + 1 - MaxAttempts
      BY <1>1, <1>3, <2>1, <2>3
    <3>2. QED
      BY <1>1, <2>1, <2>3, <3>1 DEF Older
  <2>4. QED
    BY <2>2, <2>3
<1>4. Apart(h, l + 1)
  BY <1>3, Zenon DEF Apart
<1>5. Older(h, l + 1, l + 1, n)
  BY <1>1, <1>2 DEF Older
<1>6. QED
  BY <1>4, <1>5

(* A window that is over and full at most lies a whole window before now.  *)
LEMMA PastWindow ==
  ASSUME NEW l \in Nat, NEW g, NEW n \in Nat, NEW c \in Nat, NEW o \in Int,
         \A i \in 1 .. l : g[i] \in Nat /\ g[i] <= n,
         Older(g, l, l - c + 1, o), c <= MaxAttempts, o + Window < n
  PROVE  Older(g, l, l + 1, n)
<1>1. MaxAttempts \in Nat /\ MaxAttempts > 0 /\ Window \in Nat
  BY LimiterAssumption
<1>2. ASSUME NEW i \in 1 .. l PROVE g[i] <= n
  OBVIOUS
<1>3. ASSUME NEW i \in 1 .. l, i <= l + 1 - MaxAttempts
      PROVE  g[i] + Window < n
  <2>1. i <= l - c + 1
    BY <1>1, <1>3
  <2>2. g[i] <= o /\ g[i] \in Nat
    BY <2>1 DEF Older
  <2>3. QED
    BY <1>1, <2>2
<1>4. QED
  BY <1>1, <1>2, <1>3 DEF Older

(* The write of an entry: the attempt counted or the window opened.        *)
LEMMA WriteKeepsSpacing ==
  ASSUME IInv, SInv, NEW r \in Requests, Write(r), NEW a \in Keys, a = addr[r]
  PROVE  SpacingInv' /\ OpenInv'
<1> DEFINE e == entries[a]
           g == grants[a]
           h == grants'[a]
           l == Len(g)
           c == e.count
           o == Opened(a)
           v == seen[r].verdict
<1>1. /\ now \in Nat /\ seen[r].at \in Nat
      /\ e \in [count : Nat, resetAt : Nat]
      /\ c \in Nat /\ e.resetAt \in Nat /\ g \in Seq(Nat)
      /\ v \in {"fresh", "deny", "count"}
      /\ Window \in Nat /\ Window > 0 /\ MaxAttempts \in Nat /\ MaxAttempts > 0
  BY RowTypes, LimiterAssumption DEF IInv
<1>2. l \in Nat /\ DOMAIN g = 1 .. l /\ o = e.resetAt - Window /\ o \in Int
  BY <1>1 DEF Opened
<1>3. /\ \A ip \in Keys \ {a} : entries'[ip] = entries[ip] /\ grants'[ip] = grants[ip]
      /\ now' = now /\ pc[r] = "write"
  BY <1>1 DEF IInv, TypeOK, Write
<1>4. entries'[a] = NewEntry(v, e)
  BY <1>1 DEF IInv, TypeOK, Write
<1>5. Apart(g, l) /\ Open(a)
  BY DEF SInv, SpacingInv, OpenInv, Spaced
<1>6. SUFFICES Spaced(a)' /\ Open(a)'
  <2>1. SUFFICES ASSUME NEW ip \in Keys \ {a} PROVE Spaced(ip)' /\ Open(ip)'
    BY <1>6 DEF SpacingInv, OpenInv
  <2>2. entries'[ip] = entries[ip] /\ grants'[ip] = grants[ip] /\ Spaced(ip) /\ Open(ip)
    BY <1>3 DEF SInv, SpacingInv, OpenInv
  <2>3. QED
    BY <1>3, <2>2 DEF Spaced, Open, Opened
<1>7. CASE v = "deny"
  <2>1. entries'[a] = e /\ h = g
    BY <1>4, <1>7 DEF NewEntry, Write
  <2>2. QED
    BY <1>3, <1>5, <2>1 DEF Spaced, Open, Opened
<1>8. CASE v = "count"
  <2>1. c > 0 /\ c < MaxAttempts
    BY <1>3, <1>8 DEF IInv, DecisionInv
  <2>2. o <= seen[r].at
    BY <1>3, <1>8 DEF SInv, LookInv
  <2>3. c <= l /\ o <= now /\ Older(g, l, l - c + 1, o)
    BY <1>5, <2>1 DEF Open
  <2>4. entries'[a].count = c + 1 /\ entries'[a].resetAt = e.resetAt
    BY <1>1, <1>4, <1>8 DEF NewEntry
  <2>5. h = Append(g, seen[r].at)
    BY <1>1, <1>8 DEF Write, IInv, TypeOK
  <2>6. Len(h) = l + 1 /\ OneMore(h, g, l, seen[r].at)
    <3> HIDE DEF g, h, l
    <3>1. QED
      BY <1>1, <2>5, LongerRecord DEF l
  <2>7. Apart(h, l + 1) /\ Older(h, l + 1, l - c + 1, o)
    <3> HIDE DEF g, h, l, c, o
    <3>1. QED
      BY <1>1, <1>2, <1>5, <2>1, <2>2, <2>3, <2>6, CountedAttempt
  <2>8. Spaced(a)'
    BY <2>6, <2>7 DEF Spaced
  <2>9. Open(a)'
    <3>1. Opened(a)' = o
      BY <2>4 DEF Opened
    <3>2. c + 1 <= l + 1 /\ (l + 1) - (c + 1) + 1 = l - c + 1
      <4> HIDE DEF c, l
      <4>1. QED
        BY <1>1, <1>2, <2>3
    <3>3. QED
      BY <1>3, <2>3, <2>4, <2>6, <2>7, <3>1, <3>2 DEF Open
  <2>10. QED
    BY <2>8, <2>9
<1>9. CASE v = "fresh"
  <2>1. seen[r].at <= now /\ (c = 0 \/ seen[r].at > e.resetAt)
    BY <1>3, <1>9 DEF IInv, DecisionInv
  <2>2. entries'[a].count = 1 /\ entries'[a].resetAt = now + Window
    BY <1>4, <1>9 DEF NewEntry
  <2>3. h = Append(g, now)
    BY <1>1, <1>9 DEF Write, IInv, TypeOK
  <2>4. Len(h) = l + 1 /\ OneMore(h, g, l, now)
    <3> HIDE DEF g, h, l
    <3>1. QED
      BY <1>1, <2>3, LongerRecord DEF l
  <2>5. Older(g, l, l + 1, now)
    <3>1. CASE c = 0
      <4>1. g = << >>
        BY <3>1 DEF IInv, HistoryInv
      <4>2. l = 0
        BY <4>1
      <4>3. QED
        BY <4>2 DEF Older
    <3>2. CASE c > 0
      <4>1. c <= MaxAttempts /\ e.resetAt < now
        BY <1>1, <2>1, <3>2 DEF IInv, CountInv
      <4>2. Older(g, l, l - c + 1, o)
        BY <1>5, <3>2 DEF Open
      <4>3. \A i \in 1 .. l : g[i] \in Nat /\ g[i] <= e.resetAt
        BY <1>1, <1>2, <3>2 DEF IInv, HistoryInv
      <4> HIDE DEF g, l, c, o
      <4>4. o + Window < now /\ \A i \in 1 .. l : g[i] \in Nat /\ g[i] <= now
        BY <1>1, <1>2, <4>1, <4>3
      <4>5. QED
        BY <1>1, <1>2, <4>1, <4>2, <4>4, PastWindow
    <3>3. QED
      BY <1>1, <3>1, <3>2
  <2>6. Apart(h, l + 1) /\ Older(h, l + 1, l + 1, now)
    <3> HIDE DEF g, h, l
    <3>1. QED
      BY <1>1, <1>2, <1>5, <2>4, <2>5, OpeningAttempt
  <2>7. Spaced(a)'
    BY <2>4, <2>6 DEF Spaced
  <2>8. Open(a)'
    <3>1. Opened(a)' = now
      BY <1>1, <2>2 DEF Opened
    <3>2. 1 <= l + 1 /\ (l + 1) - 1 + 1 = l + 1 /\ now <= now
      BY <1>1, <1>2
    <3>3. QED
      BY <1>3, <2>2, <2>4, <2>6, <3>1, <3>2 DEF Open
  <2>9. QED
    BY <2>7, <2>8
<1>10. QED
  BY <1>1, <1>7, <1>8, <1>9

(* The spacing of the attempts is kept by every step.                      *)
LEMMA SpacingStep == IInv /\ SInv /\ [Next]_vars => SInv'
<1> SUFFICES ASSUME IInv, SInv, [Next]_vars PROVE SInv'
  OBVIOUS
<1>1. ASSUME UNCHANGED <<now, entries, grants>> PROVE SpacingInv' /\ OpenInv'
  BY <1>1 DEF SInv, SpacingInv, OpenInv, Spaced, Open, Opened
<1>2. ASSUME NEW r \in Requests, NEW ip \in Keys, Arrive(r, ip) PROVE SInv'
  <2>1. /\ \A q \in Requests \ {r} : pc'[q] = pc[q] /\ addr'[q] = addr[q]
        /\ pc'[r] = "lock" /\ UNCHANGED <<now, entries, seen, grants>>
    BY <1>2 DEF Arrive, IInv, TypeOK
  <2>2. LookInv'
    BY <2>1 DEF SInv, LookInv, Opened
  <2>3. QED
    BY <1>1, <2>1, <2>2 DEF SInv
<1>3. ASSUME NEW r \in Requests, Lock(r) \/ Unlock(r) \/ Answer(r) PROVE SInv'
  <2>1. UNCHANGED <<now, entries, grants, addr>>
    BY <1>3 DEF Lock, Unlock, Answer
  <2>2. \A q \in Requests : pc'[q] = "write" => pc[q] = "write" /\ seen'[q] = seen[q]
    BY <1>3 DEF Lock, Unlock, Answer, IInv, TypeOK
  <2>3. LookInv'
    BY <2>1, <2>2 DEF SInv, LookInv, Opened
  <2>4. QED
    BY <1>1, <2>1, <2>3 DEF SInv
<1>4. ASSUME NEW r \in Requests, Look(r) PROVE SInv'
  <2>1. /\ UNCHANGED <<now, entries, grants, addr>>
        /\ \A q \in Requests \ {r} : pc'[q] = pc[q] /\ seen'[q] = seen[q]
        /\ seen'[r].at = now /\ seen'[r].verdict = Verdict(addr[r])
    BY <1>4 DEF Look, IInv, TypeOK
  <2>2. seen'[r].verdict = "count" => Opened(addr[r]) <= now
    <3>1. addr[r] \in Keys /\ entries[addr[r]].count \in Nat
      BY DEF IInv, TypeOK
    <3>2. seen'[r].verdict = "count" => entries[addr[r]].count > 0
      BY <2>1, <3>1 DEF Verdict, Expired
    <3>3. QED
      BY <3>1, <3>2 DEF SInv, OpenInv, Open
  <2>3. LookInv'
    BY <2>1, <2>2 DEF SInv, LookInv, Opened
  <2>4. QED
    BY <1>1, <2>1, <2>3 DEF SInv
<1>5. ASSUME NEW r \in Requests, Write(r) PROVE SInv'
  <2>1. \A q \in Requests : pc'[q] # "write"
    BY <1>5 DEF Write, IInv, MutexInv, TypeOK, Inside
  <2>2. addr[r] \in Keys
    BY DEF IInv, TypeOK
  <2>3. QED
    BY <1>5, <2>1, <2>2, WriteKeepsSpacing DEF SInv, LookInv
<1>6. CASE Tick
  <2>1. now \in Nat /\ now' = now + 1 /\ UNCHANGED <<entries, grants, pc, addr, seen>>
    BY <1>6 DEF Tick, IInv, TypeOK
  <2>2. \A ip \in Keys : entries[ip].resetAt - Window \in Int
    BY LimiterAssumption DEF IInv, TypeOK
  <2>3. OpenInv'
    BY <2>1, <2>2 DEF SInv, OpenInv, Open, Opened
  <2>4. SpacingInv' /\ LookInv'
    BY <2>1 DEF SInv, SpacingInv, Spaced, LookInv, Opened
  <2>5. QED
    BY <2>3, <2>4 DEF SInv
<1>7. CASE Restart
  <2>1. \A ip \in Keys : entries'[ip].count = 0 /\ Len(grants'[ip]) = 0
    BY <1>7 DEF Restart, NoEntry
  <2>2. \A r \in Requests : pc'[r] = "idle"
    BY <1>7 DEF Restart
  <2>3. QED
    BY <2>1, <2>2 DEF SInv, SpacingInv, Spaced, Apart, OpenInv, Open, LookInv
<1>8. CASE UNCHANGED vars
  BY <1>1, <1>8 DEF vars, SInv, LookInv, Opened
<1>9. QED
  BY <1>2, <1>3, <1>4, <1>5, <1>6, <1>7, <1>8 DEF Next

(* A non-empty set of naturals has a least element.                        *)
LEMMA LeastOf ==
  ASSUME NEW S, S \subseteq Nat, S # {}
  PROVE  \E m \in S : \A n \in S : m <= n
<1>1. \E m \in S : \A n \in S : ~ (<<n, m>> \in OpToRel(<, Nat))
  BY NatLessThanWellFounded, WFMin
<1>2. \A m, n \in Nat : <<n, m>> \in OpToRel(<, Nat) <=> n < m
  BY DEF OpToRel
<1>3. PICK m \in S : \A n \in S : ~ (<<n, m>> \in OpToRel(<, Nat))
  BY <1>1
<1>4. \A n \in S : ~ (n < m)
  BY <1>2, <1>3, Zenon
<1>5. \A n \in S : m <= n
  BY <1>4
<1>6. QED
  BY <1>5

(* A set of positions no two of which are 2 * MaxAttempts - 1 apart has no *)
(* more members than that.                                                 *)
LEMMA CloseTogether ==
  ASSUME NEW B, B \subseteq Nat,
         \A i, j \in B : j - i < 2 * MaxAttempts - 1
  PROVE  Cardinality(B) <= 2 * MaxAttempts - 1
<1> DEFINE d == 2 * MaxAttempts - 1
<1>1. d \in Nat /\ d > 0
  BY LimiterAssumption
<1>2. CASE B = {}
  <2>1. Cardinality(B) = 0
    BY <1>2, FS_EmptySet
  <2>2. QED
    BY <1>1, <2>1
<1>3. CASE B # {}
  <2>1. PICK m \in B : \A n \in B : m <= n
    BY <1>3, LeastOf
  <2>2. m \in Nat /\ m \in Int /\ m + d - 1 \in Int
    BY <1>1
  <2>3. B \subseteq m .. (m + d - 1)
    BY <1>1, <2>1
  <2>4. /\ IsFiniteSet(m .. (m + d - 1))
        /\ Cardinality(m .. (m + d - 1)) = IF m > m + d - 1 THEN 0 ELSE (m + d - 1) - m + 1
    BY <2>2, FS_Interval
  <2>5. Cardinality(m .. (m + d - 1)) = d
    BY <1>1, <2>2, <2>4
  <2>6. IsFiniteSet(B) /\ Cardinality(B) <= Cardinality(m .. (m + d - 1))
    BY <2>3, <2>4, FS_Subset
  <2>7. QED
    BY <2>5, <2>6
<1>4. QED
  BY <1>2, <1>3

(* SlidingQuota follows: attempts that one stretch of Window holds are not *)
(* more than Window apart in time, so not 2 * MaxAttempts - 1 in position. *)
LEMMA SpacingImpliesQuota == TypeOK /\ SInv => SlidingQuota
<1> SUFFICES ASSUME TypeOK, SInv, NEW ip \in Keys, NEW t \in 0 .. Horizon
             PROVE  Cardinality(Between(ip, t, t + Window)) <= 2 * MaxAttempts - 1
  BY DEF SlidingQuota
<1> DEFINE B == Between(ip, t, t + Window)
           g == grants[ip]
<1>1. /\ g \in Seq(Nat) /\ t \in Nat /\ Window \in Nat
      /\ MaxAttempts \in Nat
  BY LimiterAssumption DEF TypeOK
<1>2. B \subseteq DOMAIN g /\ B \subseteq Nat
  BY <1>1 DEF Between
<1>3. ASSUME NEW i \in B, NEW j \in B
      PROVE  j - i < 2 * MaxAttempts - 1
  <2>1. /\ i \in DOMAIN g /\ j \in DOMAIN g /\ i \in Nat /\ j \in Nat
        /\ t <= g[i] /\ g[j] <= t + Window /\ g[i] \in Nat /\ g[j] \in Nat
    BY <1>1, <1>2 DEF Between
  <2>2. ~ (g[j] > g[i] + Window)
    BY <1>1, <2>1
  <2>3. ~ (j - i >= 2 * MaxAttempts - 1)
    BY <2>1, <2>2 DEF SInv, SpacingInv, Spaced, Apart
  <2>4. QED
    BY <1>1, <2>1, <2>3
<1>4. QED
  BY <1>2, <1>3, CloseTogether

(* Whatever instant one starts from, the following Window sees at most     *)
(* 2 * MaxAttempts - 1 attempts of one key reach the password check:       *)
(* the most that windows fixed by their first attempt can let through, for *)
(* any number of requests in progress.                                     *)
THEOREM SlidingQuotaHolds == Spec => []SlidingQuota
<1>1. Init => SInv
  BY DEF Init, NoEntry, SInv, SpacingInv, Spaced, Apart, OpenInv, Open, LookInv
<1>2. IInv /\ SInv /\ [Next]_vars => SInv'
  BY SpacingStep
<1>3. TypeOK /\ SInv => SlidingQuota
  BY SpacingImpliesQuota
<1>4. QED
  BY <1>1, <1>2, <1>3, InitInv, StepInv, TypeCorrect, PTL DEF Spec
=============================================================================
