---------------------------- MODULE LoginLimiter ----------------------------
(***************************************************************************)
(* The login handler and its in-memory rate limiter                        *)
(* (dads-ui/backend/api/handlers.go, rateLimiter and Login).               *)
(*                                                                         *)
(* Every HTTP request runs in a goroutine of its own, so several calls of  *)
(* rateLimiter.allow for one key are in progress at once; the mutex `mu`   *)
(* is what makes a call atomic.  The body of allow is therefore modelled   *)
(* in the steps a goroutine really takes (lock, look the entry up, write   *)
(* it back, unlock), and nothing but the mutex serialises them.            *)
(*                                                                         *)
(* What the code calls `ip` is a key of the map and not an address: the    *)
(* connection's RemoteAddr, port included, or whatever stands first in     *)
(* X-Forwarded-For when the request has that header.  One address has as   *)
(* many keys as connections, and one more for each value it comes with;    *)
(* one such value is in the model.                                         *)
(***************************************************************************)
EXTENDS Integers, Sequences, FiniteSets

CONSTANTS
  Requests,     (* login requests (goroutines) that can be in progress     *)
  Ips,          (* client addresses                                        *)
  Ports,        (* the ports an address can connect from                   *)
  MaxAttempts,  (* 5 in the code                                           *)
  Window,       (* 15 minutes in the code                                  *)
  Horizon       (* the clock stops here: bounds the model                  *)

ASSUME LimiterAssumption ==
  /\ MaxAttempts \in Nat \ {0}
  /\ Window \in Nat \ {0}
  /\ Horizon \in Nat
  /\ "none" \notin Requests

(* How a request reaches the handler, and the key it is counted under.     *)
Ways == Ports \cup {"forwarded"}
Keys == Ips \X Ways

VARIABLES
  now,      (* the wall clock, time.Now()                                  *)
  mu,       (* the goroutine that holds rl.mu, or "none"                   *)
  entries,  (* rl.entries: key |-> [count, resetAt]; count 0: no entry     *)
  pc,       (* where each request is in Login / allow                      *)
  addr,     (* the key each request is counted under                       *)
  seen,     (* what allow has decided to do, and the time it read for it   *)
  status,   (* the answer given to the client                              *)
  grants    (* history: when each key was let through to the password      *)
            (* check, since the server started                             *)

vars == <<now, mu, entries, pc, addr, seen, status, grants>>

NoEntry == [count |-> 0, resetAt |-> 0]
Locations == {"idle", "lock", "look", "write", "unlock", "check"}
Decisions == [verdict : {"fresh", "deny", "count"}, at : Nat]
Undecided == [verdict |-> "deny", at |-> 0]
Statuses == {"none", "ok", "bad request", "unauthorized", "too many"}

TypeOK ==
  /\ now \in Nat
  /\ mu \in Requests \cup {"none"}
  /\ entries \in [Keys -> [count : Nat, resetAt : Nat]]
  /\ pc \in [Requests -> Locations]
  /\ addr \in [Requests -> Keys]
  /\ seen \in [Requests -> Decisions]
  /\ status \in [Requests -> Statuses]
  /\ grants \in [Keys -> Seq(Nat)]

Init ==
  /\ now = 0
  /\ mu = "none"
  /\ entries = [ip \in Keys |-> NoEntry]
  /\ pc = [r \in Requests |-> "idle"]
  /\ addr \in [Requests -> Keys]
  /\ seen = [r \in Requests |-> Undecided]
  /\ status = [r \in Requests |-> "none"]
  /\ grants = [ip \in Keys |-> << >>]

Expired(ip) == entries[ip].count = 0 \/ now > entries[ip].resetAt

-----------------------------------------------------------------------------
(* POST /api/auth/login arrives: a client's address and the way it came    *)
(* make the key.                                                           *)
Arrive(r, ip) ==
  /\ pc[r] = "idle"
  /\ pc' = [pc EXCEPT ![r] = "lock"]
  /\ addr' = [addr EXCEPT ![r] = ip]
  /\ status' = [status EXCEPT ![r] = "none"]
  /\ UNCHANGED <<now, mu, entries, seen, grants>>

\* Mutant: the map is used without the mutex.
LockWithoutMutex(r) ==
  /\ pc[r] = "lock"
  /\ pc' = [pc EXCEPT ![r] = "look"]
  /\ UNCHANGED <<now, mu, entries, addr, seen, status, grants>>

(* rl.mu.Lock()                                                            *)
Lock(r) ==
  /\ pc[r] = "lock"
  /\ mu = "none"
  /\ mu' = r
  /\ pc' = [pc EXCEPT ![r] = "look"]
  /\ UNCHANGED <<now, entries, addr, seen, status, grants>>

\* Mutant: one attempt too many, count > MaxAttempts.
VerdictOffByOne(ip) ==
  IF Expired(ip) THEN "fresh"
  ELSE IF entries[ip].count > MaxAttempts THEN "deny" ELSE "count"

(* The two conditions of allow, in their order.                            *)
Verdict(ip) ==
  IF Expired(ip) THEN "fresh"
  ELSE IF entries[ip].count >= MaxAttempts THEN "deny" ELSE "count"

Look(r) ==
  /\ pc[r] = "look"
  /\ seen' = [seen EXCEPT ![r] = [verdict |-> Verdict(addr[r]), at |-> now]]
  /\ pc' = [pc EXCEPT ![r] = "write"]
  /\ UNCHANGED <<now, mu, entries, addr, status, grants>>

\* Mutant: the window ends before it starts.
NewEntryBackwards(v, e) ==
  CASE v = "fresh" -> [count |-> 1, resetAt |-> now - Window]
    [] v = "count" -> [e EXCEPT !.count = e.count + 1]
    [] v = "deny"  -> e

\* Mutant: a refused attempt starts the wait over.
NewEntryPenalty(v, e) ==
  CASE v = "fresh" -> [count |-> 1, resetAt |-> now + Window]
    [] v = "count" -> [e EXCEPT !.count = e.count + 1]
    [] v = "deny"  -> [e EXCEPT !.resetAt = now + Window]

(* The entry each verdict leaves behind: a fresh one whose window starts   *)
(* at a second reading of the clock, one more attempt, or no change.       *)
NewEntry(v, e) ==
  CASE v = "fresh" -> [count |-> 1, resetAt |-> now + Window]
    [] v = "count" -> [e EXCEPT !.count = e.count + 1]
    [] v = "deny"  -> e

Write(r) ==
  /\ pc[r] = "write"
  /\ entries' = [entries EXCEPT ![addr[r]] = NewEntry(seen[r].verdict, entries[addr[r]])]
  /\ grants' = CASE seen[r].verdict = "deny"  -> grants
                 [] seen[r].verdict = "fresh" -> [grants EXCEPT ![addr[r]] = Append(@, now)]
                 [] seen[r].verdict = "count" -> [grants EXCEPT ![addr[r]] = Append(@, seen[r].at)]
  /\ pc' = [pc EXCEPT ![r] = "unlock"]
  /\ UNCHANGED <<now, mu, addr, seen, status>>

\* Mutant: the early return of a refused attempt keeps the mutex.
UnlockForgotten(r) ==
  /\ pc[r] = "unlock"
  /\ IF seen[r].verdict = "deny"
       THEN /\ pc' = [pc EXCEPT ![r] = "idle"]
            /\ status' = [status EXCEPT ![r] = "too many"]
            /\ UNCHANGED mu
       ELSE /\ pc' = [pc EXCEPT ![r] = "check"]
            /\ mu' = "none"
            /\ UNCHANGED status
  /\ UNCHANGED <<now, entries, addr, seen, grants>>

(* The deferred unlock, and Login's answer to a request that is refused;   *)
(* what allow had in its local variables is gone.                          *)
Unlock(r) ==
  /\ pc[r] = "unlock"
  /\ mu' = "none"
  /\ IF seen[r].verdict = "deny"
       THEN /\ pc' = [pc EXCEPT ![r] = "idle"]
            /\ status' = [status EXCEPT ![r] = "too many"]
       ELSE /\ pc' = [pc EXCEPT ![r] = "check"]
            /\ UNCHANGED status
  /\ seen' = [seen EXCEPT ![r] = Undecided]
  /\ UNCHANGED <<now, entries, addr, grants>>

(* The rest of Login: the body is decoded, the password checked; whatever  *)
(* comes out, the attempt stays counted.                                   *)
Answer(r) ==
  /\ pc[r] = "check"
  /\ pc' = [pc EXCEPT ![r] = "idle"]
  /\ \E s \in {"bad request", "unauthorized", "ok"} :
       status' = [status EXCEPT ![r] = s]
  /\ UNCHANGED <<now, mu, entries, addr, seen, grants>>

Tick ==
  /\ now < Horizon
  /\ now' = now + 1
  /\ UNCHANGED <<mu, entries, pc, addr, seen, status, grants>>

(* The process is restarted: loginLimiter lives in memory and is empty     *)
(* again, and the requests in progress are gone.                           *)
Restart ==
  /\ mu' = "none"
  /\ entries' = [ip \in Keys |-> NoEntry]
  /\ pc' = [r \in Requests |-> "idle"]
  /\ seen' = [r \in Requests |-> Undecided]
  /\ status' = [r \in Requests |-> "none"]
  /\ grants' = [ip \in Keys |-> << >>]
  /\ UNCHANGED <<now, addr>>

Next ==
  \/ \E r \in Requests, ip \in Keys : Arrive(r, ip)
  \/ \E r \in Requests : Lock(r)
  \/ \E r \in Requests : Look(r)
  \/ \E r \in Requests : Write(r)
  \/ \E r \in Requests : Unlock(r)
  \/ \E r \in Requests : Answer(r)
  \/ Tick
  \/ Restart

Spec == Init /\ [][Next]_vars

(* Goroutines run, and sync.Mutex does not starve a waiting one (it hands  *)
(* the lock over in its starvation mode), so Lock is strongly fair.        *)
(* Clients, the clock and restarts are not fair.                           *)
Fairness ==
  \A r \in Requests : /\ SF_vars(Lock(r))
                      /\ WF_vars(Look(r) \/ Write(r) \/ Unlock(r) \/ Answer(r))

FairSpec == Spec /\ Fairness

-----------------------------------------------------------------------------
(* Properties                                                              *)

Between(ip, lo, hi) ==
  {i \in DOMAIN grants[ip] : lo <= grants[ip][i] /\ grants[ip][i] <= hi}

Opened(ip) == entries[ip].resetAt - Window

(* What allow gives, key by key: at most MaxAttempts attempts get through  *)
(* to the password check in the window an entry describes, however the     *)
(* calls in progress interleave and however the clock advances inside one. *)
WindowQuota ==
  \A ip \in Keys : entries[ip].count > 0 =>
    Cardinality(Between(ip, Opened(ip), entries[ip].resetAt)) <= MaxAttempts

(* The windows are fixed, not sliding, so what one key gets through across *)
(* a boundary exceeds MaxAttempts, but never by more than this: any 15     *)
(* minutes see at most 2 * 5 - 1 attempts counted under one key.           *)
SlidingQuota ==
  \A ip \in Keys, t \in 0 .. Horizon :
    Cardinality(Between(ip, t, t + Window)) <= 2 * MaxAttempts - 1

(* The limit the README gives for the login endpoint, "5 attempts per IP   *)
(* per 15 minutes", over all the keys of an address.  allow does not give  *)
(* it: a second connection has a second key, and windows are fixed.        *)
LimitPerAddress ==
  \A a \in Ips, t \in 0 .. Horizon :
    Cardinality(UNION {{way} \X Between(<<a, way>>, t, t + Window) : way \in Ways})
      <= MaxAttempts

(* A window that is still open is never moved: an attempt that is refused  *)
(* (or counted) does not push back the moment its key is let in again.     *)
WindowIsNotExtended ==
  [][\A ip \in Keys :
       entries[ip].count > 0 /\ entries'[ip].count > 0
         => \/ entries'[ip].resetAt = entries[ip].resetAt
            \/ now > entries[ip].resetAt]_vars

(* Every request is answered, the refused ones included: allow releases    *)
(* the mutex on each of its three returns.                                 *)
EveryRequestIsAnswered ==
  \A r \in Requests : pc[r] = "lock" ~> pc[r] = "idle"
=============================================================================
