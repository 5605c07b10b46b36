--------------------------- MODULE AdmissionProofs ---------------------------
(***************************************************************************)
(* The sliding-window limiter, the supply chain of plugins and the spend   *)
(* of a session, for every number of keys, callers, files, builds, loaders *)
(* and requests.                                                           *)
(*                                                                         *)
(* The limiter: a stamp is pruned only when it is out of every window that *)
(* a caller still waiting for the lock may count, because no caller waits  *)
(* longer than MaxWait.  Plugins: signatures are only ever copied, so what *)
(* a loader or a verification found signed was signed by a key holder.     *)
(* The spend: what a policy may still let pass above its limit is held in  *)
(* reserve, one share for each request that read the spend before.         *)
(***************************************************************************)
EXTENDS RateLimiter, Plugins, Spend, FiniteSetTheorems, WellFoundedInduction, TLAPS

-----------------------------------------------------------------------------
(* The limiter. *)

Passes == [key : LimKeys, at : Nat, config : Configs]

LimTypeOK ==
    /\ passed \in Seq(Passes)
    /\ limClock \in Nat
    /\ limConfig \in Configs
    /\ savedConfig \subseteq Configs
    /\ saving \subseteq Configs
    /\ DOMAIN limCall = LimCallers

\* A waiting call took its instant, at most MaxWait ago, and its configuration.
WaitInv ==
    \A c \in LimCallers : limCall[c].pc = "wait" =>
        /\ limCall[c].key \in LimKeys
        /\ limCall[c].at \in Nat
        /\ limCall[c].config \in Configs
        /\ limCall[c].at <= limClock
        /\ limClock - limCall[c].at <= MaxWait

\* The stamp of a call of the last hour is there.
StampKept(j) ==
    passed[j].at >= limClock - Hour =>
        [at |-> passed[j].at, n |-> j] \in Stamps(passed[j].key)

\* A stamp is that of a call let through, and none of the last hour is missing.
StampInv ==
    /\ \A k \in DOMAIN windows : \A t \in windows[k] :
         t.n \in 1..Len(passed) /\ t = [at |-> passed[t.n].at, n |-> t.n]
    /\ \A j \in 1..Len(passed) : StampKept(j)

LimInv == LimTypeOK /\ WaitInv /\ StampInv /\ WindowBound

\* The stamps of a key are finitely many: each is that of one call.
LEMMA StampsFinite ==
    ASSUME NEW n \in Nat, NEW S, \A t \in S : t.n \in 1..n,
           \A t, u \in S : t.n = u.n => t = u
    PROVE  IsFiniteSet(S)
<1> DEFINE f == [t \in S |-> t.n]
<1>1. f \in Injection(S, 1..n)
  BY DEF Injection, IsInjective
<1>2. IsFiniteSet(1..n)
  BY FS_Interval
<1> QED
  BY <1>1, <1>2, FS_Injection

\* The calls let through so far are never more than the stamps in a window that
\* holds a stamp for each of them.
LEMMA CallsHaveStamps ==
    ASSUME NEW n \in Nat, NEW R \in SUBSET (1..n), NEW S, IsFiniteSet(S),
           \A j \in R : \E t \in S : t.n = j
    PROVE  IsFiniteSet(R) /\ Cardinality(R) <= Cardinality(S) /\ Cardinality(R) \in Nat
<1> DEFINE f == [j \in R |-> CHOOSE t \in S : t.n = j]
<1>1. \A j \in R : f[j] \in S /\ f[j].n = j
  OBVIOUS
<1>2. f \in Injection(R, S)
  BY <1>1 DEF Injection, IsInjective
<1>3. IsFiniteSet(R) /\ Cardinality(R) <= Cardinality(S)
  BY <1>2, FS_Injection
<1> QED
  BY <1>3, FS_CardinalityType

\* What the limiter counted when it found no limit reached.
LEMMA NoLimitHit ==
    ASSUME NEW s, NEW now, NEW cfg, LimitHit(s, now, cfg) = "none"
    PROVE  /\ ~(Count(s, now, Burst) >= cfg.burst)
           /\ ~(Count(s, now, Minute) >= cfg.minute)
           /\ ~(Count(s, now, Hour) >= cfg.hour)
BY DEF LimitHit

\* The window of w seconds before a call that is let through at `at`: every call
\* in it still has its stamp, so that with the new one they are at most the limit.
LEMMA WindowHolds ==
    ASSUME LimInv, NEW c \in LimCallers, limCall[c].pc = "wait",
           NEW w \in Int, w <= Hour, w + MaxWait <= Hour, NEW limit \in Nat,
           NEW W \in Int, w <= W, W <= Hour,
           ~(Count(Keep(Stamps(limCall[c].key), limCall[c].at), limCall[c].at, W) >= limit)
    PROVE  Cardinality({j \in 1..Len(passed) : /\ passed[j].key = limCall[c].key
                                               /\ passed[j].at >= limCall[c].at - w}
                         \cup {Len(passed) + 1}) <= limit
<1>1. PICK k, at : k = limCall[c].key /\ at = limCall[c].at
  OBVIOUS
<1>2. PICK n \in Nat : n = Len(passed)
  BY DEF LimInv, LimTypeOK
<1>3. /\ at \in Nat /\ at <= limClock /\ limClock - at <= MaxWait /\ limClock \in Nat
      /\ k \in LimKeys
  BY <1>1 DEF LimInv, WaitInv, LimTypeOK
<1>4. PICK R : R = {j \in 1..n : passed[j].key = k /\ passed[j].at >= at - w}
  OBVIOUS
<1>5. PICK S : S = {t \in Keep(Stamps(k), at) : Within(at, W, t.at)}
  OBVIOUS
<1>6. \A j \in 1..n : passed[j].at \in Nat
  <2>1. \A j \in 1..n : passed[j] \in Passes
    BY <1>2 DEF LimInv, LimTypeOK
  <2> QED
    BY <2>1 DEF Passes
<1>7. \A j \in R : \E t \in S : t.n = j
  <2> SUFFICES ASSUME NEW j \in R PROVE \E t \in S : t.n = j
    OBVIOUS
  <2>1. j \in 1..n /\ passed[j].key = k /\ passed[j].at >= at - w /\ passed[j].at \in Nat
    BY <1>4, <1>6
  <2>2. PICK a \in Nat : a = passed[j].at
    BY <2>1
  <2>3. a >= at - w
    BY <2>1, <2>2
  <2>4. a >= limClock - Hour /\ a >= at - Hour /\ a >= at - W
    BY <1>3, <2>3, LimAssumption
  <2>5. PICK t : t = [at |-> a, n |-> j]
    OBVIOUS
  <2>6. t \in Stamps(k)
    BY <1>2, <2>1, <2>2, <2>4, <2>5 DEF LimInv, StampInv, StampKept
  <2>7. t.at = a /\ t.n = j
    BY <2>5
  <2>8. t \in Keep(Stamps(k), at) /\ Within(at, W, t.at)
    BY <2>4, <2>6, <2>7 DEF Keep, Within
  <2> QED
    BY <1>5, <2>7, <2>8
<1>8. IsFiniteSet(S)
  <2>1. \A t \in S : t.n \in 1..n /\ t = [at |-> passed[t.n].at, n |-> t.n]
    BY <1>2, <1>5 DEF Keep, Stamps, LimInv, StampInv
  <2>2. \A t, u \in S : t.n = u.n => t = u
    BY <2>1
  <2> QED
    BY <2>1, <2>2, StampsFinite
<1>9. R \in SUBSET (1..n)
  BY <1>4
<1>10. IsFiniteSet(R) /\ Cardinality(R) <= Cardinality(S) /\ Cardinality(R) \in Nat
  BY <1>7, <1>8, <1>9, CallsHaveStamps
<1>11. Cardinality(S) \in Nat
  BY <1>8, FS_CardinalityType
<1>12. Cardinality(S) < limit
  <2>1. Count(Keep(Stamps(k), at), at, W) = Cardinality(S)
    BY <1>5 DEF Count
  <2>2. ~(Cardinality(S) >= limit)
    BY <1>1, <2>1
  <2> QED
    BY <1>11, <2>2
<1>13. Cardinality(R \cup {n + 1}) = Cardinality(R) + 1
  <2>1. n + 1 \notin R
    BY <1>9
  <2> QED
    BY <1>10, <2>1, FS_AddElement
<1>14. Cardinality(R \cup {n + 1}) <= limit
  BY <1>10, <1>11, <1>12, <1>13
<1> QED
  BY <1>1, <1>2, <1>4, <1>14

\* The window of an earlier call does not change when another call passes.
LEMMA RecentStable ==
    ASSUME passed \in Seq(Passes), NEW x \in Passes, passed' = Append(passed, x),
           NEW i \in 1..Len(passed), NEW w
    PROVE  passed'[i] = passed[i] /\ Recent(i, w)' = Recent(i, w)
<1>1. Len(passed) \in Nat /\ \A j \in 1..Len(passed) : passed'[j] = passed[j]
  OBVIOUS
<1>2. 1..i \subseteq 1..Len(passed)
  BY <1>1
<1> QED
  BY <1>1, <1>2 DEF Recent

\* check_rate lets a call through: the three limits hold for it, counting the
\* instants that came out of order and those a later caller has pruned.
LEMMA PassKeepsBound ==
    ASSUME LimInv, NEW c \in LimCallers, limCall[c].pc = "wait",
           LimitHit(Keep(Stamps(limCall[c].key), limCall[c].at), limCall[c].at,
                    limCall[c].config) = "none",
           passed' = Append(passed, [key |-> limCall[c].key, at |-> limCall[c].at,
                                     config |-> limCall[c].config])
    PROVE  WindowBound'
<1>1. PICK x : x = [key |-> limCall[c].key, at |-> limCall[c].at, config |-> limCall[c].config]
  OBVIOUS
<1>2. /\ x.key = limCall[c].key /\ x.at = limCall[c].at /\ x.config = limCall[c].config
      /\ x \in Passes
  BY <1>1 DEF LimInv, WaitInv, Passes
<1>3. passed \in Seq(Passes) /\ passed' = Append(passed, x)
  BY <1>1 DEF LimInv, LimTypeOK
<1>4. PICK n \in Nat : n = Len(passed)
  BY <1>3
<1>5. /\ Len(passed') = n + 1 /\ passed'[n + 1] = x
      /\ \A j \in 1..n : passed'[j] = passed[j]
  BY <1>3, <1>4
<1>6. x.config.burst \in Nat /\ x.config.minute \in Nat /\ x.config.hour \in Nat
  <2>1. x.config \in Configs
    BY <1>2 DEF Passes
  <2>2. x.config \in [burst : Nat, minute : Nat, hour : Nat]
    BY <2>1, LimAssumption
  <2> QED
    BY <2>2
<1>7. ASSUME NEW w, NEW limit,
             Cardinality({j \in 1..n : passed[j].key = x.key /\ passed[j].at >= x.at - w}
                          \cup {n + 1}) <= limit,
             x.at >= x.at - w
      PROVE  Cardinality(Recent(n + 1, w)') <= limit
  <2>1. Recent(n + 1, w)' =
          {j \in 1..n : passed[j].key = x.key /\ passed[j].at >= x.at - w} \cup {n + 1}
    <3>1. 1..(n + 1) = (1..n) \cup {n + 1}
      BY <1>4
    <3> QED
      BY <1>5, <1>7, <3>1 DEF Recent
  <2> QED
    BY <1>7, <2>1
<1>8. /\ Burst \in Int /\ Minute \in Int /\ Hour \in Int /\ Hour - MaxWait \in Int
      /\ Burst <= Hour /\ Burst + MaxWait <= Hour /\ Minute <= Hour /\ Minute + MaxWait <= Hour
      /\ Hour - MaxWait <= Hour /\ (Hour - MaxWait) + MaxWait <= Hour
      /\ 0 <= Burst /\ 0 <= Minute /\ 0 <= Hour - MaxWait
      /\ Burst <= Burst /\ Minute <= Minute /\ Hour <= Hour
  BY LimAssumption
<1>9. /\ x.at >= x.at - Burst /\ x.at >= x.at - Minute /\ x.at >= x.at - (Hour - MaxWait)
  <2>1. \A a \in Nat, w \in Int : 0 <= w => a >= a - w
    OBVIOUS
  <2>2. x.at \in Nat
    BY <1>2 DEF Passes
  <2> QED
    BY <1>8, <2>1, <2>2
<1>10. /\ ~(Count(Keep(Stamps(limCall[c].key), limCall[c].at), limCall[c].at, Burst) >= x.config.burst)
       /\ ~(Count(Keep(Stamps(limCall[c].key), limCall[c].at), limCall[c].at, Minute) >= x.config.minute)
       /\ ~(Count(Keep(Stamps(limCall[c].key), limCall[c].at), limCall[c].at, Hour) >= x.config.hour)
  BY <1>2, NoLimitHit
<1>11. Cardinality(Recent(n + 1, Burst)') <= x.config.burst
  <2>1. Cardinality({j \in 1..n : passed[j].key = x.key /\ passed[j].at >= x.at - Burst}
                     \cup {n + 1}) <= x.config.burst
    BY <1>2, <1>4, <1>6, <1>8, <1>10, WindowHolds
  <2> QED
    BY <1>7, <1>9, <2>1
<1>12. Cardinality(Recent(n + 1, Minute)') <= x.config.minute
  <2>1. Cardinality({j \in 1..n : passed[j].key = x.key /\ passed[j].at >= x.at - Minute}
                     \cup {n + 1}) <= x.config.minute
    BY <1>2, <1>4, <1>6, <1>8, <1>10, WindowHolds
  <2> QED
    BY <1>7, <1>9, <2>1
<1>13. Cardinality(Recent(n + 1, Hour - MaxWait)') <= x.config.hour
  <2>1. PICK w \in Int : w = Hour - MaxWait
    BY <1>8
  <2>2. w <= Hour /\ w + MaxWait <= Hour
    BY <1>8, <2>1
  <2>3. Cardinality({j \in 1..n : passed[j].key = x.key /\ passed[j].at >= x.at - w}
                     \cup {n + 1}) <= x.config.hour
    BY <1>2, <1>4, <1>6, <1>8, <1>10, <2>2, WindowHolds
  <2> QED
    BY <1>7, <1>9, <2>1, <2>3
<1>14. ASSUME NEW i \in 1..n
       PROVE  /\ Cardinality(Recent(i, Burst)') <= passed'[i].config.burst
              /\ Cardinality(Recent(i, Minute)') <= passed'[i].config.minute
              /\ Cardinality(Recent(i, Hour - MaxWait)') <= passed'[i].config.hour
  <2>1. /\ passed'[i] = passed[i]
        /\ \A w : Recent(i, w)' = Recent(i, w)
    BY <1>2, <1>3, <1>4, RecentStable
  <2>2. /\ Cardinality(Recent(i, Burst)) <= passed[i].config.burst
        /\ Cardinality(Recent(i, Minute)) <= passed[i].config.minute
        /\ Cardinality(Recent(i, Hour - MaxWait)) <= passed[i].config.hour
    BY <1>4 DEF LimInv, WindowBound
  <2> QED
    BY <2>1, <2>2
<1>15. ASSUME NEW i \in 1..Len(passed')
       PROVE  /\ Cardinality(Recent(i, Burst)') <= passed'[i].config.burst
              /\ Cardinality(Recent(i, Minute)') <= passed'[i].config.minute
              /\ Cardinality(Recent(i, Hour - MaxWait)') <= passed'[i].config.hour
  <2>1. CASE i = n + 1
    BY <1>5, <1>11, <1>12, <1>13, <2>1
  <2>2. CASE i \in 1..n
    BY <1>14, <2>2
  <2> QED
    BY <1>4, <1>5, <2>1, <2>2
<1> QED
  BY <1>15 DEF WindowBound

\* Pruning at an instant that is not ahead of the clock keeps the stamps of the
\* last hour.
LEMMA PruneKeepsHour ==
    ASSUME NEW now \in Nat, limClock \in Nat, now <= limClock, NEW S, NEW t \in S, t.at \in Nat,
           t.at >= limClock - Hour
    PROVE  t \in Keep(S, now)
<1>1. t.at >= now - Hour
  BY LimAssumption
<1> QED
  BY <1>1 DEF Keep, Within

\* check_rate, whether it lets the call through or not.
LEMMA CheckRateInv ==
    ASSUME LimInv, NEW c \in LimCallers, CheckRate(c)
    PROVE  LimInv'
<1>1. PICK q : q = limCall[c]
  OBVIOUS
<1>2. PICK kept : kept = Keep(Stamps(q.key), q.at)
  OBVIOUS
<1>3. PICK ok \in BOOLEAN : ok <=> LimitHit(kept, q.at, q.config) = "none"
  OBVIOUS
<1>4. PICK stamp : stamp = [at |-> q.at, n |-> Len(passed) + 1]
  OBVIOUS
<1>5. PICK x : x = [key |-> q.key, at |-> q.at, config |-> q.config]
  OBVIOUS
<1>6. PICK new : new = IF ok THEN kept \cup {stamp} ELSE kept
  OBVIOUS
<1>7. /\ q.pc = "wait"
      /\ windows' = [j \in DOMAIN windows \cup {q.key} |-> IF j = q.key THEN new ELSE windows[j]]
      /\ passed' = IF ok THEN Append(passed, x) ELSE passed
      /\ limCall' = [limCall EXCEPT ![c] = NoCall]
      /\ UNCHANGED <<limConfig, savedConfig, saving, limClock>>
  BY <1>1, <1>2, <1>3, <1>4, <1>5, <1>6 DEF CheckRate
<1>8. /\ q.key \in LimKeys /\ q.at \in Nat /\ q.config \in Configs /\ q.at <= limClock
      /\ limClock \in Nat /\ passed \in Seq(Passes) /\ x \in Passes
      /\ x.key = q.key /\ x.at = q.at
  BY <1>1, <1>5, <1>7 DEF LimInv, WaitInv, LimTypeOK, Passes
<1>9. PICK n \in Nat : n = Len(passed)
  BY <1>8
<1>10. /\ passed' \in Seq(Passes) /\ Len(passed') = IF ok THEN n + 1 ELSE n
       /\ \A j \in 1..n : passed'[j] = passed[j]
       /\ ok => passed'[n + 1] = x
  <2>1. CASE ok
    BY <1>7, <1>8, <1>9, <2>1
  <2>2. CASE ~ok
    BY <1>7, <1>8, <1>9, <2>2
  <2> QED
    BY <2>1, <2>2
<1>11. LimTypeOK'
  BY <1>7, <1>10 DEF LimInv, LimTypeOK
<1>12. WaitInv'
  <2>1. \A d \in LimCallers : limCall'[d] = IF d = c THEN NoCall ELSE limCall[d]
    BY <1>7 DEF LimInv, LimTypeOK
  <2>2. NoCall.pc # "wait"
    BY DEF NoCall
  <2> QED
    BY <1>7, <2>1, <2>2 DEF LimInv, WaitInv
<1>13. \A t \in new : /\ t.n \in 1..Len(passed')
                      /\ t = [at |-> passed'[t.n].at, n |-> t.n]
  <2> SUFFICES ASSUME NEW t \in new
               PROVE  t.n \in 1..Len(passed') /\ t = [at |-> passed'[t.n].at, n |-> t.n]
    OBVIOUS
  <2>1. CASE t \in kept
    <3>1. t.n \in 1..n /\ t = [at |-> passed[t.n].at, n |-> t.n]
      BY <1>2, <1>9, <2>1 DEF Keep, Stamps, LimInv, StampInv
    <3>2. t.n \in 1..Len(passed')
      BY <1>9, <1>10, <3>1
    <3> QED
      BY <1>10, <3>1, <3>2
  <2>2. CASE ok /\ t = stamp
    <3>1. t.at = x.at /\ t.n = n + 1 /\ t = [at |-> x.at, n |-> n + 1]
      BY <1>4, <1>8, <1>9, <2>2
    <3>2. n + 1 \in 1..Len(passed') /\ passed'[n + 1] = x
      BY <1>10, <2>2
    <3> QED
      BY <3>1, <3>2
  <2> QED
    BY <1>6, <2>1, <2>2
<1>14. ASSUME NEW k \in DOMAIN windows', NEW t \in windows'[k]
       PROVE  t.n \in 1..Len(passed') /\ t = [at |-> passed'[t.n].at, n |-> t.n]
  <2>1. CASE k = q.key
    <3>1. t \in new
      BY <1>7, <2>1
    <3> QED
      BY <1>13, <3>1
  <2>2. CASE k # q.key
    <3>1. k \in DOMAIN windows /\ t \in windows[k]
      BY <1>7, <2>2
    <3>2. t.n \in 1..n /\ t = [at |-> passed[t.n].at, n |-> t.n]
      BY <1>9, <3>1 DEF LimInv, StampInv
    <3>3. t.n \in 1..Len(passed')
      BY <1>9, <1>10, <3>2
    <3> QED
      BY <1>10, <3>2, <3>3
  <2> QED
    BY <2>1, <2>2
<1>15. \A k : Stamps(k)' = IF k = q.key THEN new ELSE Stamps(k)
  BY <1>7 DEF Stamps
<1>16. ASSUME NEW j \in 1..Len(passed') PROVE StampKept(j)'
  <2> SUFFICES ASSUME passed'[j].at >= limClock - Hour
               PROVE  \E k : k = passed'[j].key /\ [at |-> passed'[j].at, n |-> j] \in Stamps(k)'
    BY <1>7 DEF StampKept, Stamps
  <2>1. CASE j \in 1..n
    <3>1. passed'[j] = passed[j]
      BY <1>10, <2>1
    <3>2. PICK t, k : t = [at |-> passed[j].at, n |-> j] /\ k = passed[j].key
      OBVIOUS
    <3>3. t \in Stamps(k)
      BY <1>9, <2>1, <3>1, <3>2 DEF LimInv, StampInv, StampKept
    <3>4. t.at = passed[j].at /\ t.at \in Nat /\ t.at >= limClock - Hour
      <4>1. passed[j] \in Passes
        BY <1>8, <1>9, <2>1
      <4> QED
        BY <3>1, <3>2, <4>1 DEF Passes
    <3>5. t \in Keep(Stamps(k), q.at)
      BY <1>8, <3>3, <3>4, PruneKeepsHour
    <3>6. t \in Stamps(k)'
      BY <1>2, <1>6, <1>15, <3>3, <3>5
    <3> QED
      BY <3>1, <3>2, <3>6
  <2>2. CASE ok /\ j = n + 1
    <3>1. passed'[j] = x
      BY <1>10, <2>2
    <3>2. stamp = [at |-> x.at, n |-> n + 1]
      BY <1>4, <1>8, <1>9
    <3>3. stamp \in Stamps(q.key)'
      BY <1>6, <1>15, <2>2
    <3> QED
      BY <1>8, <2>2, <3>1, <3>2, <3>3
  <2> QED
    BY <1>9, <1>10, <2>1, <2>2
<1>17. WindowBound'
  <2>1. CASE ok
    BY <1>1, <1>2, <1>3, <1>5, <1>7, <2>1, PassKeepsBound
  <2>2. CASE ~ok
    BY <1>7, <2>2 DEF LimInv, WindowBound, Recent
  <2> QED
    BY <2>1, <2>2
<1>18. StampInv'
  BY <1>14, <1>16 DEF StampInv
<1> QED
  BY <1>11, <1>12, <1>17, <1>18 DEF LimInv

\* The cleanup task prunes at the clock and drops the keys it emptied.
LEMMA CleanupInv ==
    ASSUME LimInv, Cleanup
    PROVE  LimInv'
<1>1. PICK kept : kept = [k \in DOMAIN windows |-> Keep(windows[k], limClock)]
  OBVIOUS
<1>2. /\ windows' = [k \in {j \in DOMAIN windows : kept[j] # {}} |-> kept[k]]
      /\ UNCHANGED <<limConfig, savedConfig, saving, limCall, limClock, passed>>
  BY <1>1 DEF Cleanup
<1>3. LimTypeOK' /\ WaitInv' /\ WindowBound'
  BY <1>2 DEF LimInv, LimTypeOK, WaitInv, WindowBound, Recent
<1>4. \A k \in DOMAIN windows' : k \in DOMAIN windows /\ windows'[k] \subseteq windows[k]
  BY <1>1, <1>2 DEF Keep
<1>5. \A k \in DOMAIN windows' : \A t \in windows'[k] :
        t.n \in 1..Len(passed) /\ t = [at |-> passed[t.n].at, n |-> t.n]
  BY <1>4 DEF LimInv, StampInv
<1>6. \A k : Stamps(k)' = Keep(Stamps(k), limClock)
  BY <1>1, <1>2 DEF Stamps, Keep
<1>7. ASSUME NEW j \in 1..Len(passed) PROVE StampKept(j)'
  <2> SUFFICES ASSUME passed[j].at >= limClock - Hour
               PROVE  \E k : k = passed[j].key /\ [at |-> passed[j].at, n |-> j] \in Stamps(k)'
    BY <1>2 DEF StampKept, Stamps
  <2>1. PICK t, k : t = [at |-> passed[j].at, n |-> j] /\ k = passed[j].key
    OBVIOUS
  <2>2. t \in Stamps(k)
    BY <2>1 DEF LimInv, StampInv, StampKept
  <2>3. t.at \in Nat /\ t.at >= limClock - Hour /\ limClock \in Nat /\ limClock <= limClock
    <3>1. passed[j] \in Passes /\ limClock \in Nat
      BY DEF LimInv, LimTypeOK
    <3> QED
      BY <2>1, <3>1 DEF Passes
  <2>4. t \in Keep(Stamps(k), limClock)
    BY <2>2, <2>3, PruneKeepsHour
  <2> QED
    BY <1>6, <2>1, <2>4
<1>8. StampInv'
  BY <1>2, <1>5, <1>7 DEF StampInv
<1> QED
  BY <1>3, <1>8 DEF LimInv

\* The clock moves on only while nobody has waited MaxWait; stamps may leave the
\* last hour and none enters it.
LEMMA TickInv ==
    ASSUME LimInv, LimTick
    PROVE  LimInv'
<1>1. /\ UNCHANGED <<windows, limConfig, savedConfig, saving, limCall, passed>>
      /\ limClock' = limClock + 1 /\ limClock \in Nat
  BY DEF LimTick, LimInv, LimTypeOK
<1>2. LimTypeOK' /\ WindowBound'
  <2>1. limClock' \in Nat
    BY <1>1
  <2>2. LimTypeOK'
    BY <1>1, <2>1 DEF LimInv, LimTypeOK
  <2>3. WindowBound'
    BY <1>1 DEF LimInv, WindowBound, Recent
  <2> QED
    BY <2>2, <2>3
<1>3. WaitInv'
  <2> SUFFICES ASSUME NEW c \in LimCallers, limCall[c].pc = "wait"
               PROVE  limCall[c].at <= limClock + 1 /\ (limClock + 1) - limCall[c].at <= MaxWait
    BY <1>1 DEF WaitInv, LimInv
  <2>1. limCall[c].at \in Nat /\ limCall[c].at <= limClock /\ limClock - limCall[c].at < MaxWait
    BY DEF LimTick, LimInv, WaitInv
  <2> QED
    BY <1>1, <2>1, LimAssumption
<1>4. ASSUME NEW j \in 1..Len(passed) PROVE StampKept(j)'
  <2>1. StampKept(j) /\ passed[j] \in Passes
    BY DEF LimInv, StampInv, LimTypeOK
  <2>2. passed[j].at \in Nat
    BY <2>1 DEF Passes
  <2>3. passed[j].at >= (limClock + 1) - Hour => passed[j].at >= limClock - Hour
    BY <1>1, <2>2, LimAssumption
  <2> QED
    BY <1>1, <2>1, <2>3 DEF StampKept, Stamps
<1>5. StampInv'
  BY <1>1, <1>4 DEF LimInv, StampInv
<1> QED
  BY <1>2, <1>3, <1>5 DEF LimInv

\* check_rate takes its configuration and its instant.
LEMMA CheckBeginInv ==
    ASSUME LimInv, NEW c \in LimCallers, NEW k \in LimKeys, CheckBegin(c, k)
    PROVE  LimInv'
<1>1. PICK call : call = [pc |-> "wait", key |-> k, at |-> limClock, config |-> limConfig]
  OBVIOUS
<1>2. /\ UNCHANGED <<windows, limConfig, savedConfig, saving, limClock, passed>>
      /\ limCall' = [limCall EXCEPT ![c] = call] /\ DOMAIN limCall = LimCallers
      /\ limClock \in Nat /\ limConfig \in Configs
  BY <1>1 DEF CheckBegin, LimInv, LimTypeOK
<1>3. call.key = k /\ call.at = limClock /\ call.config = limConfig
  BY <1>1
<1>4. WaitInv'
  <2>1. \A d \in LimCallers : limCall'[d] = IF d = c THEN call ELSE limCall[d]
    BY <1>2
  <2>2. limClock <= limClock /\ limClock - limClock <= MaxWait
    BY <1>2, LimAssumption
  <2> QED
    BY <1>2, <1>3, <2>1, <2>2 DEF LimInv, WaitInv
<1>5. LimTypeOK' /\ WindowBound' /\ StampInv'
  BY <1>2 DEF LimInv, LimTypeOK, WindowBound, Recent, StampInv, StampKept, Stamps
<1> QED
  BY <1>4, <1>5 DEF LimInv

\* Nothing is remembered over a restart but the saved configuration.
LEMMA RestartInv ==
    ASSUME LimInv, LimRestart
    PROVE  LimInv'
<1>1. /\ windows' = <<>> /\ passed' = <<>> /\ saving' = {}
      /\ limCall' = [c \in LimCallers |-> NoCall]
      /\ limConfig' \in Configs
      /\ UNCHANGED <<savedConfig, limClock>>
  BY LimAssumption DEF LimRestart, LimInv, LimTypeOK
<1>2. LimTypeOK'
  BY <1>1 DEF LimInv, LimTypeOK
<1>3. NoCall.pc # "wait"
  BY DEF NoCall
<1>4. Len(passed') = 0 /\ DOMAIN windows' = {}
  BY <1>1
<1> QED
  BY <1>1, <1>2, <1>3, <1>4 DEF LimInv, WaitInv, StampInv, WindowBound

\* The limiter's invariant is inductive.
LEMMA LimStep == LimInv /\ [LimNext]_limVars => LimInv'
<1> SUFFICES ASSUME LimInv, [LimNext]_limVars PROVE LimInv'
  OBVIOUS
<1>1. ASSUME NEW cfg \in Configs, UpdateConfig(cfg) \/ SaveConfig(cfg) PROVE LimInv'
  <2>1. /\ UNCHANGED <<windows, limCall, limClock, passed>>
        /\ limConfig' \in Configs /\ saving' \subseteq Configs /\ savedConfig' \subseteq Configs
    BY <1>1 DEF UpdateConfig, SaveConfig, LimInv, LimTypeOK
  <2> QED
    BY <2>1 DEF LimInv, LimTypeOK, WaitInv, WindowBound, Recent, StampInv, StampKept, Stamps
<1>2. CASE UNCHANGED limVars
  BY <1>2 DEF limVars, LimInv, LimTypeOK, WaitInv, WindowBound, Recent, StampInv, StampKept, Stamps
<1> QED
  BY <1>1, <1>2, CheckBeginInv, CheckRateInv, CleanupInv, RestartInv, TickInv DEF LimNext

\* The limiter's invariant holds throughout.
LEMMA LimInvariance == LimSpec => []LimInv
<1>1. LimInit => LimInv
  <2> SUFFICES ASSUME LimInit PROVE LimInv
    OBVIOUS
  <2>1. LimTypeOK
    BY LimAssumption DEF LimInit, LimTypeOK
  <2>2. NoCall.pc # "wait"
    BY DEF NoCall
  <2>3. Len(passed) = 0 /\ DOMAIN windows = {} /\ \A c \in LimCallers : limCall[c] = NoCall
    BY DEF LimInit
  <2> QED
    BY <2>1, <2>2, <2>3 DEF LimInv, WaitInv, StampInv, WindowBound
<1> QED
  BY <1>1, LimStep, PTL DEF LimSpec

\* However calls interleave, wait for the lock and prune for each other, and
\* whatever the configurations: no more calls than the limit of the last one lie
\* in its burst window, its minute and its hour less the longest wait.
THEOREM LimitsHold == LimSpec => []WindowBound
<1>1. LimInv => WindowBound
  BY DEF LimInv
<1> QED
  BY <1>1, LimInvariance, PTL

-----------------------------------------------------------------------------
(* The supply chain of plugins. *)

\* Every signature in the directory was made by the holder of its key.
DiskInv ==
    /\ DOMAIN wasm = Files
    /\ DOMAIN bundle = Files
    /\ DOMAIN manifestSig = Files
    /\ \A f \in Files : \A b \in bundle[f] : b.sig \subseteq signedBuilds
    /\ \A f \in Files : manifestSig[f] \subseteq signedManifests
    /\ \A s \in signing : s.sig \in signedManifests

PinnedSigned(build) == \E k \in Pinned : <<k, build>> \in signedBuilds

\* A plugin as the registry lists it.
PluginOk(p) ==
    /\ p.verified => PinnedSigned(p.attested)
    /\ (p.attested # Missing /\ ~p.overtaken) => p.build = p.attested

AttFields == {"bytes", "hasBundle", "digestMatch", "sigVerified", "sigChecked"}
VerifyFields == {"pc", "kind", "file", "overtaken", "att"}
ReloadFields == VerifyFields \cup {"todo", "plugins", "errors", "build"}

\* The reads of an attestation so far.
AttOk(w) ==
    /\ DOMAIN w.att = AttFields
    /\ w.file \in Files
    /\ w.pc \in {"attest", "digest", "signature"} => w.att.sigVerified = FALSE
    /\ w.pc \in {"push", "exit"} /\ w.att.sigVerified => PinnedSigned(w.att.bytes)

\* A reload: the build it runs is the one it attested, unless overtaken.
ReloadOk(w) ==
    /\ DOMAIN w = ReloadFields
    /\ w.pc \in {"next", "attest", "digest", "signature", "push"}
    /\ w.todo \subseteq Files
    /\ \A p \in w.plugins : PluginOk(p)
    /\ w.pc # "next" => AttOk(w)
    /\ w.pc = "attest" => /\ w.att.bytes = Missing
                          /\ ~w.overtaken => wasm[w.file] = w.build
    /\ w.pc \in {"digest", "signature", "push"} /\ w.att.bytes # Missing /\ ~w.overtaken
         => w.build = w.att.bytes

\* `iaga plugins verify`: a signature that could be checked was.
VerifyOk(w) ==
    /\ DOMAIN w = VerifyFields
    /\ w.pc \in {"attest", "digest", "signature", "exit"}
    /\ AttOk(w)
    /\ w.pc = "exit" /\ w.att.hasBundle /\ Pinned # {} => w.att.sigChecked

WorkOk(w) ==
    \/ w = NoWork
    \/ w.kind = "reload" /\ ReloadOk(w)
    \/ w.kind = "verify" /\ VerifyOk(w)

\* A verify-manifest under way.
CheckOk ==
    \/ check = NoWork
    \/ /\ DOMAIN check = {"pc", "file", "m"}
       /\ check.file \in Files
       /\ check.pc \in {"bytes", "signature", "verified"}
       /\ check.pc = "verified" => /\ check.m.signer \in Trusted
                                   /\ <<check.m.signer, check.m>> \in signedManifests

PluginInv ==
    /\ DiskInv
    /\ DOMAIN loader = Loaders
    /\ \A r \in Loaders : WorkOk(loader[r])
    /\ \A p \in pluginList.plugins : PluginOk(p)
    /\ CheckOk

\* What is signed stays signed.
LEMMA SignedGrows ==
    ASSUME signedBuilds \subseteq signedBuilds'
    PROVE  /\ \A build : PinnedSigned(build) => PinnedSigned(build)'
           /\ \A p : PluginOk(p) => PluginOk(p)'
BY DEF PinnedSigned, PluginOk

\* A loader that takes no step keeps its part while the files it judged stay.
LEMMA WorkStable ==
    ASSUME NEW w, WorkOk(w), signedBuilds \subseteq signedBuilds',
           w.pc = "attest" => wasm'[w.file] = wasm[w.file]
    PROVE  WorkOk(w)'
<1>1. \A p : PluginOk(p) => PluginOk(p)'
  BY SignedGrows
<1>2. AttOk(w) => AttOk(w)'
  BY SignedGrows DEF AttOk
<1>3. ReloadOk(w) => ReloadOk(w)'
  BY <1>1, <1>2 DEF ReloadOk
<1>4. VerifyOk(w) => VerifyOk(w)'
  BY <1>2 DEF VerifyOk
<1> QED
  BY <1>3, <1>4 DEF WorkOk

\* The other parts of the invariant do not depend on the loaders.
LEMMA RestStable ==
    ASSUME PluginInv, UNCHANGED <<diskVars, check>>
    PROVE  DiskInv' /\ CheckOk'
BY DEF PluginInv, DiskInv, CheckOk, diskVars

\* A step of one loader that replaces its work by w.
LEMMA LoaderMoves ==
    ASSUME PluginInv, NEW r \in Loaders, NEW w, WorkOk(w), UNCHANGED <<diskVars, pluginList, check>>,
           loader' = [loader EXCEPT ![r] = w]
    PROVE  PluginInv'
<1>1. UNCHANGED wasm /\ UNCHANGED signedBuilds
  BY DEF diskVars
<1>2. DOMAIN loader' = Loaders /\ \A q \in Loaders : loader'[q] = IF q = r THEN w ELSE loader[q]
  BY DEF PluginInv
<1>3. \A q \in Loaders : WorkOk(loader'[q])
  BY <1>2 DEF PluginInv
<1>4. \A v : WorkOk(v) => WorkOk(v)'
  BY <1>1, WorkStable
<1>5. \A q \in Loaders : WorkOk(loader[q])'
  <2> SUFFICES ASSUME NEW q \in Loaders PROVE WorkOk(loader[q])'
    OBVIOUS
  <2>1. PICK v : v = loader'[q]
    OBVIOUS
  <2>2. WorkOk(v)'
    BY <1>3, <1>4, <2>1
  <2> QED
    BY <2>1, <2>2 DEF WorkOk, ReloadOk, VerifyOk, AttOk
<1>6. \A p \in pluginList'.plugins : PluginOk(p)'
  BY <1>1 DEF PluginInv, PluginOk, PinnedSigned
<1> QED
  BY <1>2, <1>5, <1>6, RestStable DEF PluginInv

\* Slots that are idle hold no work; the kinds of work differ in where they end.
LEMMA WorkKinds ==
    ASSUME NEW w, WorkOk(w), w.pc # "idle"
    PROVE  \/ w.kind = "reload" /\ ReloadOk(w)
           \/ w.kind = "verify" /\ VerifyOk(w)
BY DEF WorkOk, NoWork

\* The bytes are read: a reload that was not overtaken reads what it compiled.
LEMMA ReadBytesStep ==
    ASSUME PluginInv, NEW r \in Loaders, ReadBytes(r)
    PROVE  PluginInv'
<1>1. PICK v : v = loader[r]
  OBVIOUS
<1>2. WorkOk(v) /\ v.pc = "attest" /\ UNCHANGED <<diskVars, pluginList, check>>
  BY <1>1 DEF PluginInv, ReadBytes
<1>3. PICK w : w = IF wasm[v.file] = Missing
                   THEN IF v.kind = "verify" THEN NoWork ELSE [v EXCEPT !.pc = "push"]
                   ELSE [v EXCEPT !.pc = "digest", !.att.bytes = wasm[v.file],
                                  !.att.hasBundle = bundle[v.file] # {}]
  OBVIOUS
<1>4. loader' = [loader EXCEPT ![r] = w]
  BY <1>1, <1>3 DEF PluginInv, ReadBytes
<1>5. \/ v.kind = "reload" /\ ReloadOk(v)
      \/ v.kind = "verify" /\ VerifyOk(v)
  BY <1>2, WorkKinds
<1>6. WorkOk(w)
  <2>1. CASE wasm[v.file] = Missing /\ v.kind = "verify"
    BY <1>3, <2>1 DEF WorkOk
  <2>2. CASE wasm[v.file] = Missing /\ v.kind # "verify"
    <3>1. /\ DOMAIN w = DOMAIN v /\ w.pc = "push" /\ w.kind = v.kind /\ w.att = v.att
          /\ w.file = v.file /\ w.todo = v.todo /\ w.plugins = v.plugins
          /\ w.overtaken = v.overtaken /\ w.build = v.build
      BY <1>2, <1>3, <1>5, <2>2 DEF ReloadOk, ReloadFields, VerifyFields
    <3> QED
      BY <1>2, <1>5, <2>2, <3>1 DEF WorkOk, ReloadOk, AttOk
  <2>3. CASE wasm[v.file] # Missing
    <3>1. w = [v EXCEPT !.pc = "digest", !.att.bytes = wasm[v.file],
                        !.att.hasBundle = bundle[v.file] # {}]
      BY <1>3, <2>3
    <3>2. DOMAIN v.att = AttFields /\ v.att.sigVerified = FALSE
      BY <1>2, <1>5 DEF ReloadOk, VerifyOk, AttOk
    <3>3. CASE v.kind = "reload" /\ ReloadOk(v)
      <4>1. /\ DOMAIN w = DOMAIN v /\ w.pc = "digest" /\ w.kind = v.kind
            /\ w.file = v.file /\ w.todo = v.todo /\ w.plugins = v.plugins
            /\ w.overtaken = v.overtaken /\ w.build = v.build
        BY <3>1, <3>3 DEF ReloadOk, ReloadFields, VerifyFields
      <4>2. DOMAIN w.att = AttFields /\ w.att.bytes = wasm[v.file] /\ w.att.sigVerified = FALSE
        BY <3>1, <3>2, <3>3 DEF ReloadOk, ReloadFields, VerifyFields, AttFields
      <4> QED
        BY <1>2, <3>3, <4>1, <4>2 DEF WorkOk, ReloadOk, AttOk
    <3>4. CASE v.kind = "verify" /\ VerifyOk(v)
      <4>1. /\ DOMAIN w = DOMAIN v /\ w.pc = "digest" /\ w.kind = v.kind /\ w.file = v.file
        BY <3>1, <3>4 DEF VerifyOk, VerifyFields
      <4>2. DOMAIN w.att = AttFields /\ w.att.sigVerified = FALSE
        BY <3>1, <3>2, <3>4 DEF VerifyOk, VerifyFields, AttFields
      <4> QED
        BY <1>2, <3>4, <4>1, <4>2 DEF WorkOk, VerifyOk, AttOk
    <3> QED
      BY <1>5, <3>3, <3>4
  <2> QED
    BY <2>1, <2>2, <2>3
<1> QED
  BY <1>2, <1>4, <1>6, LoaderMoves

\* The digest is compared: no field the invariant speaks of but pc moves.
LEMMA ReadDigestStep ==
    ASSUME PluginInv, NEW r \in Loaders, ReadDigest(r)
    PROVE  PluginInv'
<1>1. PICK v : v = loader[r]
  OBVIOUS
<1>2. WorkOk(v) /\ v.pc = "digest" /\ UNCHANGED <<diskVars, pluginList, check>>
  BY <1>1 DEF PluginInv, ReadDigest
<1>3. PICK w : w = [v EXCEPT !.pc = "signature", !.att.digestMatch =
                       v.att.hasBundle /\ \E b \in bundle[v.file] : b.digest = v.att.bytes]
  OBVIOUS
<1>4. loader' = [loader EXCEPT ![r] = w]
  BY <1>1, <1>3 DEF PluginInv, ReadDigest
<1>5. \/ v.kind = "reload" /\ ReloadOk(v)
      \/ v.kind = "verify" /\ VerifyOk(v)
  BY <1>2, WorkKinds
<1>6. DOMAIN v.att = AttFields /\ v.att.sigVerified = FALSE
  BY <1>2, <1>5 DEF ReloadOk, VerifyOk, AttOk
<1>7. CASE v.kind = "reload" /\ ReloadOk(v)
  <2>1. /\ DOMAIN w = DOMAIN v /\ w.pc = "signature" /\ w.kind = v.kind
        /\ w.file = v.file /\ w.todo = v.todo /\ w.plugins = v.plugins
        /\ w.overtaken = v.overtaken /\ w.build = v.build
    BY <1>3, <1>7 DEF ReloadOk, ReloadFields, VerifyFields
  <2>2. DOMAIN w.att = AttFields /\ w.att.bytes = v.att.bytes /\ w.att.sigVerified = FALSE
    BY <1>3, <1>6, <1>7 DEF ReloadOk, ReloadFields, VerifyFields, AttFields
  <2>3. WorkOk(w)
    BY <1>2, <1>7, <2>1, <2>2 DEF WorkOk, ReloadOk, AttOk
  <2> QED
    BY <1>2, <1>4, <2>3, LoaderMoves
<1>8. CASE v.kind = "verify" /\ VerifyOk(v)
  <2>1. DOMAIN w = DOMAIN v /\ w.pc = "signature" /\ w.kind = v.kind /\ w.file = v.file
    BY <1>3, <1>8 DEF VerifyOk, VerifyFields
  <2>2. DOMAIN w.att = AttFields /\ w.att.sigVerified = FALSE
    BY <1>3, <1>6, <1>8 DEF VerifyOk, VerifyFields, AttFields
  <2>3. WorkOk(w)
    BY <1>2, <1>8, <2>1, <2>2 DEF WorkOk, VerifyOk, AttOk
  <2> QED
    BY <1>2, <1>4, <2>3, LoaderMoves
<1> QED
  BY <1>5, <1>7, <1>8

\* The signature is checked: the bundle holds only signatures that were made,
\* so the pinned key signed the bytes read before.
LEMMA ReadSignatureStep ==
    ASSUME PluginInv, NEW r \in Loaders, ReadSignature(r)
    PROVE  PluginInv'
<1>1. PICK v : v = loader[r]
  OBVIOUS
<1>2. WorkOk(v) /\ v.pc = "signature" /\ UNCHANGED <<diskVars, pluginList, check>>
  BY <1>1 DEF PluginInv, ReadSignature
<1>3. PICK checked \in BOOLEAN : checked = (Pinned # {} /\ v.att.hasBundle)
  OBVIOUS
<1>4. PICK good \in BOOLEAN :
          good = (checked /\ \E b \in bundle[v.file], k \in Pinned : <<k, v.att.bytes>> \in b.sig)
  OBVIOUS
<1>5. PICK w : w = [v EXCEPT !.pc = IF v.kind = "verify" THEN "exit" ELSE "push",
                             !.att.sigChecked = checked, !.att.sigVerified = good]
  OBVIOUS
<1>6. loader' = [loader EXCEPT ![r] = w]
  BY <1>1, <1>3, <1>4, <1>5 DEF PluginInv, ReadSignature
<1>7. \/ v.kind = "reload" /\ ReloadOk(v)
      \/ v.kind = "verify" /\ VerifyOk(v)
  BY <1>2, WorkKinds
<1>8. DOMAIN v.att = AttFields /\ v.file \in Files
  BY <1>2, <1>7 DEF ReloadOk, VerifyOk, AttOk
<1>9. good => PinnedSigned(v.att.bytes)
  BY <1>4, <1>8 DEF PluginInv, DiskInv, PinnedSigned
<1>10. CASE v.kind = "reload" /\ ReloadOk(v)
  <2>1. /\ DOMAIN w = DOMAIN v /\ w.pc = "push" /\ w.kind = v.kind
        /\ w.file = v.file /\ w.todo = v.todo /\ w.plugins = v.plugins
        /\ w.overtaken = v.overtaken /\ w.build = v.build
    BY <1>5, <1>10 DEF ReloadOk, ReloadFields, VerifyFields
  <2>2. DOMAIN w.att = AttFields /\ w.att.bytes = v.att.bytes /\ w.att.sigVerified = good
    BY <1>5, <1>8, <1>10 DEF ReloadOk, ReloadFields, VerifyFields, AttFields
  <2>3. AttOk(w)
    BY <1>8, <1>9, <2>1, <2>2 DEF AttOk
  <2>4. WorkOk(w)
    BY <1>2, <1>10, <2>1, <2>2, <2>3 DEF WorkOk, ReloadOk
  <2> QED
    BY <1>2, <1>6, <2>4, LoaderMoves
<1>11. CASE v.kind = "verify" /\ VerifyOk(v)
  <2>1. DOMAIN w = DOMAIN v /\ w.pc = "exit" /\ w.kind = v.kind /\ w.file = v.file
    BY <1>5, <1>11 DEF VerifyOk, VerifyFields
  <2>2. /\ DOMAIN w.att = AttFields /\ w.att.bytes = v.att.bytes /\ w.att.sigVerified = good
        /\ w.att.sigChecked = checked /\ w.att.hasBundle = v.att.hasBundle
    BY <1>5, <1>8, <1>11 DEF VerifyOk, VerifyFields, AttFields
  <2>3. AttOk(w)
    BY <1>8, <1>9, <2>1, <2>2 DEF AttOk
  <2>4. w.att.hasBundle /\ Pinned # {} => w.att.sigChecked
    BY <1>3, <2>2
  <2>5. WorkOk(w)
    BY <1>11, <2>1, <2>3, <2>4 DEF WorkOk, VerifyOk
  <2> QED
    BY <1>2, <1>6, <2>5, LoaderMoves
<1> QED
  BY <1>7, <1>10, <1>11

\* A reload begins with no plugin.
LEMMA BeginReloadStep ==
    ASSUME PluginInv, NEW r \in Loaders, BeginReload(r)
    PROVE  PluginInv'
<1>1. PICK w : \E seen \in SUBSET Files, failed \in SUBSET {"directory"} :
        /\ w = [pc |-> "next", kind |-> "reload", todo |-> seen, plugins |-> {},
                errors |-> failed, file |-> Missing, build |-> Missing,
                overtaken |-> FALSE, att |-> NoAttestation]
        /\ loader' = [loader EXCEPT ![r] = w]
        /\ UNCHANGED <<diskVars, pluginList, check>>
  BY DEF BeginReload
<1>2. WorkOk(w)
  BY <1>1 DEF WorkOk, ReloadOk, ReloadFields, VerifyFields
<1> QED
  BY <1>1, <1>2, LoaderMoves

\* A verification begins with nothing read.
LEMMA BeginVerifyStep ==
    ASSUME PluginInv, NEW r \in Loaders, NEW f \in Files, BeginVerify(r, f)
    PROVE  PluginInv'
<1>1. PICK w : w = [pc |-> "attest", kind |-> "verify", file |-> f, overtaken |-> FALSE,
                    att |-> NoAttestation]
  OBVIOUS
<1>2. WorkOk(w)
  BY <1>1 DEF WorkOk, VerifyOk, VerifyFields, AttOk, AttFields, NoAttestation
<1> QED
  BY <1>1, <1>2, LoaderMoves DEF BeginVerify

\* ... and ends with the slot free.
LEMMA ExitVerifyStep ==
    ASSUME PluginInv, NEW r \in Loaders, ExitVerify(r)
    PROVE  PluginInv'
<1>1. PICK w : w = NoWork
  OBVIOUS
<1> QED
  BY <1>1, LoaderMoves DEF ExitVerify, WorkOk

\* A module is compiled, or its file joins the errors.
LEMMA LoadFileStep ==
    ASSUME PluginInv, NEW r \in Loaders, NEW f \in Files, LoadFile(r, f)
    PROVE  PluginInv'
<1>1. PICK v : v = loader[r]
  OBVIOUS
<1>2. WorkOk(v) /\ v.pc = "next" /\ UNCHANGED <<diskVars, pluginList, check>>
  BY <1>1 DEF PluginInv, LoadFile
<1>3. v.kind = "reload" /\ ReloadOk(v)
  BY <1>2, WorkKinds DEF VerifyOk
<1>4. PICK w : w = IF wasm[f] \in Broken \cup {Missing}
                   THEN [v EXCEPT !.todo = @ \ {f}, !.errors = @ \cup {f}]
                   ELSE [v EXCEPT !.pc = "attest", !.todo = @ \ {f}, !.file = f,
                                  !.build = wasm[f], !.overtaken = FALSE,
                                  !.att = NoAttestation]
  OBVIOUS
<1>5. loader' = [loader EXCEPT ![r] = w]
  BY <1>1, <1>4 DEF PluginInv, LoadFile
<1>6. /\ DOMAIN w = DOMAIN v /\ w.kind = v.kind /\ w.todo \subseteq v.todo /\ w.plugins = v.plugins
  BY <1>3, <1>4 DEF ReloadOk, ReloadFields, VerifyFields
<1>7. CASE wasm[f] \in Broken \cup {Missing}
  <2>1. w.pc = "next"
    BY <1>2, <1>3, <1>4, <1>7 DEF ReloadOk, ReloadFields, VerifyFields
  <2>2. WorkOk(w)
    BY <1>3, <1>6, <2>1 DEF WorkOk, ReloadOk
  <2> QED
    BY <1>2, <1>5, <2>2, LoaderMoves
<1>8. CASE wasm[f] \notin Broken \cup {Missing}
  <2>1. /\ w.pc = "attest" /\ w.file = f /\ w.build = wasm[f] /\ w.att = NoAttestation
    BY <1>3, <1>4, <1>8 DEF ReloadOk, ReloadFields, VerifyFields
  <2>2. AttOk(w) /\ w.att.bytes = Missing
    BY <2>1 DEF AttOk, AttFields, NoAttestation
  <2>3. WorkOk(w)
    BY <1>3, <1>6, <2>1, <2>2 DEF WorkOk, ReloadOk
  <2> QED
    BY <1>2, <1>5, <2>3, LoaderMoves
<1> QED
  BY <1>7, <1>8

\* The plugin joins the list with the verdict of its attestation.
LEMMA PushPluginStep ==
    ASSUME PluginInv, NEW r \in Loaders, PushPlugin(r)
    PROVE  PluginInv'
<1>1. PICK v : v = loader[r]
  OBVIOUS
<1>2. WorkOk(v) /\ v.pc = "push" /\ UNCHANGED <<diskVars, pluginList, check>>
  BY <1>1 DEF PluginInv, PushPlugin
<1>3. v.kind = "reload" /\ ReloadOk(v)
  BY <1>2, WorkKinds DEF VerifyOk
<1>4. PICK p : p = [file |-> v.file, build |-> v.build, verified |-> OfflineVerified(v.att),
                    attested |-> v.att.bytes, overtaken |-> v.overtaken]
  OBVIOUS
<1>5. PICK w : w = [v EXCEPT !.pc = "next", !.plugins = @ \cup {p}]
  OBVIOUS
<1>6. loader' = [loader EXCEPT ![r] = w]
  BY <1>1, <1>4, <1>5 DEF PluginInv, PushPlugin
<1>7. PluginOk(p)
  <2>1. p.verified => v.att.sigVerified
    BY <1>4 DEF OfflineVerified
  <2>2. p.attested = v.att.bytes /\ p.build = v.build /\ p.overtaken = v.overtaken
    BY <1>4
  <2>3. v.att.sigVerified => PinnedSigned(v.att.bytes)
    BY <1>2, <1>3 DEF ReloadOk, AttOk
  <2> QED
    BY <1>2, <1>3, <2>1, <2>2, <2>3 DEF ReloadOk, PluginOk
<1>8. /\ DOMAIN w = DOMAIN v /\ w.pc = "next" /\ w.kind = v.kind /\ w.todo = v.todo
      /\ w.plugins = v.plugins \cup {p}
  BY <1>3, <1>5 DEF ReloadOk, ReloadFields, VerifyFields
<1>9. WorkOk(w)
  BY <1>3, <1>7, <1>8 DEF WorkOk, ReloadOk
<1> QED
  BY <1>2, <1>6, <1>9, LoaderMoves

\* The reload's list becomes the registry's.
LEMMA SwapRegistryStep ==
    ASSUME PluginInv, NEW r \in Loaders, SwapRegistry(r)
    PROVE  PluginInv'
<1>1. PICK v : v = loader[r]
  OBVIOUS
<1>2. /\ WorkOk(v) /\ v.pc = "next" /\ UNCHANGED <<diskVars, check>>
      /\ pluginList'.plugins = v.plugins /\ loader' = [loader EXCEPT ![r] = NoWork]
  BY <1>1 DEF PluginInv, SwapRegistry
<1>3. ReloadOk(v)
  BY <1>2, WorkKinds DEF VerifyOk
<1>4. \A p \in pluginList'.plugins : PluginOk(p)'
  BY <1>2, <1>3, SignedGrows DEF ReloadOk, diskVars
<1>5. DOMAIN loader' = Loaders /\ \A q \in Loaders : loader'[q] = loader[q] \/ loader'[q] = NoWork
  BY <1>2 DEF PluginInv
<1>6. \A q \in Loaders : WorkOk(loader[q])'
  <2> SUFFICES ASSUME NEW q \in Loaders PROVE WorkOk(loader[q])'
    OBVIOUS
  <2>1. PICK u : u = loader'[q]
    OBVIOUS
  <2>2. WorkOk(u)
    BY <1>5, <2>1 DEF PluginInv, WorkOk
  <2>3. WorkOk(u)'
    BY <1>2, <2>2, WorkStable DEF diskVars
  <2> QED
    BY <2>1, <2>3 DEF WorkOk, ReloadOk, VerifyOk, AttOk
<1> QED
  BY <1>2, <1>4, <1>5, <1>6, RestStable DEF PluginInv

\* A build is replaced: the loads that compiled it and have not read the bytes
\* to attest are overtaken; the others no longer look at the file.
LEMMA InstallPluginStep ==
    ASSUME PluginInv, NEW f \in Files, NEW b, InstallPlugin(f, b)
    PROVE  PluginInv'
<1>1. /\ wasm' = [wasm EXCEPT ![f] = b]
      /\ loader' = [r \in Loaders |->
            IF loader[r].pc = "attest" /\ loader[r].file = f
            THEN [loader[r] EXCEPT !.overtaken = TRUE] ELSE loader[r]]
      /\ UNCHANGED <<bundle, manifest, manifestSig, signing, signedBuilds,
                     signedManifests, pluginList, check>>
  BY DEF InstallPlugin
<1>2. DiskInv' /\ CheckOk'
  BY <1>1 DEF PluginInv, DiskInv, CheckOk
<1>3. \A p \in pluginList'.plugins : PluginOk(p)'
  BY <1>1, SignedGrows DEF PluginInv
<1>4. \A q \in Loaders : WorkOk(loader[q])'
  <2> SUFFICES ASSUME NEW q \in Loaders PROVE WorkOk(loader[q])'
    OBVIOUS
  <2>1. PICK v, w : v = loader[q] /\ w = loader'[q]
    OBVIOUS
  <2>2. WorkOk(v)
    BY <2>1 DEF PluginInv
  <2>3. CASE v.pc = "attest" /\ v.file = f
    <3>1. w = [v EXCEPT !.overtaken = TRUE]
      BY <1>1, <2>1, <2>3
    <3>2. CASE v.kind = "reload" /\ ReloadOk(v)
      <4>1. /\ DOMAIN w = DOMAIN v /\ w.pc = v.pc /\ w.kind = v.kind /\ w.att = v.att
            /\ w.file = v.file /\ w.todo = v.todo /\ w.plugins = v.plugins
            /\ w.overtaken = TRUE /\ w.build = v.build
        BY <3>1, <3>2 DEF ReloadOk, ReloadFields, VerifyFields
      <4>2. (\A p \in w.plugins : PluginOk(p)') /\ AttOk(w)'
        BY <1>1, <2>3, <3>2, <4>1, SignedGrows DEF ReloadOk, AttOk
      <4> QED
        BY <2>1, <2>3, <3>2, <4>1, <4>2 DEF WorkOk, ReloadOk, AttOk
    <3>3. CASE v.kind = "verify" /\ VerifyOk(v)
      <4>1. /\ DOMAIN w = DOMAIN v /\ w.pc = v.pc /\ w.kind = v.kind /\ w.att = v.att
            /\ w.file = v.file
        BY <3>1, <3>3 DEF VerifyOk, VerifyFields
      <4>2. AttOk(w)'
        BY <1>1, <2>3, <3>3, <4>1, SignedGrows DEF VerifyOk, AttOk
      <4> QED
        BY <2>1, <2>3, <3>3, <4>1, <4>2 DEF WorkOk, VerifyOk, AttOk
    <3> QED
      BY <2>2, <2>3, <3>2, <3>3, WorkKinds
  <2>4. CASE ~(v.pc = "attest" /\ v.file = f)
    <3>1. w = v
      BY <1>1, <2>1, <2>4
    <3>2. v.pc = "attest" => wasm'[v.file] = wasm[v.file]
      <4> SUFFICES ASSUME v.pc = "attest" PROVE wasm'[v.file] = wasm[v.file]
        OBVIOUS
      <4>1. v.file \in Files
        BY <2>2, WorkKinds DEF ReloadOk, VerifyOk, AttOk
      <4> QED
        BY <1>1, <2>4, <4>1 DEF PluginInv, DiskInv
    <3>3. WorkOk(v)'
      BY <1>1, <2>2, <3>2, WorkStable
    <3> QED
      BY <2>1, <3>1, <3>3 DEF WorkOk, ReloadOk, VerifyOk, AttOk
  <2> QED
    BY <2>3, <2>4
<1> QED
  BY <1>1, <1>2, <1>3, <1>4 DEF PluginInv

\* Bundles, manifests and signatures are written: signatures are made or copied.
LEMMA DiskMoves ==
    ASSUME PluginInv, DiskInv', signedBuilds \subseteq signedBuilds',
           signedManifests \subseteq signedManifests',
           UNCHANGED <<wasm, loader, pluginList, check>>
    PROVE  PluginInv'
<1>1. CheckOk'
  BY DEF PluginInv, CheckOk
<1>2. \A p \in pluginList'.plugins : PluginOk(p)'
  BY SignedGrows DEF PluginInv
<1>3. \A q \in Loaders : WorkOk(loader[q])'
  <2> SUFFICES ASSUME NEW q \in Loaders PROVE WorkOk(loader[q])'
    OBVIOUS
  <2>1. PICK v : v = loader[q]
    OBVIOUS
  <2>2. WorkOk(v)'
    BY <2>1, WorkStable DEF PluginInv
  <2> QED
    BY <2>1, <2>2 DEF WorkOk, ReloadOk, VerifyOk, AttOk
<1> QED
  BY <1>1, <1>2, <1>3 DEF PluginInv

\* The writes of others and of sign_manifest.
LEMMA DiskSteps ==
    ASSUME PluginInv
    PROVE  /\ \A f \in Files, k \in SignKeys : SignBlob(f, k) => PluginInv'
           /\ \A f \in Files, d \in Builds : OtherBundle(f, d) => PluginInv'
           /\ \A f \in Files, k \in SignKeys : \A m : ForeignManifest(f, k, m) => PluginInv'
           /\ \A f \in Files, k \in SignKeys : SignManifest(f, k) => PluginInv'
           /\ \A s \in signing : WriteSignature(s) => PluginInv'
<1>1. ASSUME NEW f \in Files, NEW k \in SignKeys, SignBlob(f, k) PROVE PluginInv'
  <2>1. DiskInv'
    BY <1>1 DEF SignBlob, PluginInv, DiskInv
  <2> QED
    BY <1>1, <2>1, DiskMoves DEF SignBlob
<1>2. ASSUME NEW f \in Files, NEW d \in Builds, OtherBundle(f, d) PROVE PluginInv'
  <2>1. PICK sig \in {{}} \cup {{s} : s \in signedBuilds} :
          bundle' = [bundle EXCEPT ![f] = {[digest |-> d, sig |-> sig]}]
    BY <1>2 DEF OtherBundle
  <2>2. sig \subseteq signedBuilds
    BY <2>1
  <2>3. DiskInv'
    BY <1>2, <2>1, <2>2 DEF OtherBundle, PluginInv, DiskInv
  <2> QED
    BY <1>2, <2>3, DiskMoves DEF OtherBundle
<1>3. ASSUME NEW f \in Files, NEW k \in SignKeys, NEW m, ForeignManifest(f, k, m) PROVE PluginInv'
  <2>1. DiskInv'
    BY <1>3 DEF ForeignManifest, PluginInv, DiskInv
  <2> QED
    BY <1>3, <2>1, DiskMoves DEF ForeignManifest
<1>4. ASSUME NEW f \in Files, NEW k \in SignKeys, SignManifest(f, k) PROVE PluginInv'
  <2>1. DiskInv'
    BY <1>4 DEF SignManifest, PluginInv, DiskInv
  <2> QED
    BY <1>4, <2>1, DiskMoves DEF SignManifest
<1>5. ASSUME NEW s \in signing, WriteSignature(s) PROVE PluginInv'
  <2>1. DiskInv'
    BY <1>5 DEF WriteSignature, PluginInv, DiskInv
  <2> QED
    BY <1>5, <2>1, DiskMoves DEF WriteSignature
<1> QED
  BY <1>1, <1>2, <1>3, <1>4, <1>5

\* A step of verify-manifest.
LEMMA CheckMoves ==
    ASSUME PluginInv, CheckOk', UNCHANGED <<diskVars, pluginList, loader>>
    PROVE  PluginInv'
<1>1. DiskInv'
  BY DEF PluginInv, DiskInv, diskVars
<1>2. \A p \in pluginList'.plugins : PluginOk(p)'
  BY SignedGrows DEF PluginInv, diskVars
<1>3. \A q \in Loaders : WorkOk(loader[q])'
  <2> SUFFICES ASSUME NEW q \in Loaders PROVE WorkOk(loader[q])'
    OBVIOUS
  <2>1. PICK v : v = loader[q]
    OBVIOUS
  <2>2. WorkOk(v)'
    BY <2>1, WorkStable DEF PluginInv, diskVars
  <2> QED
    BY <2>1, <2>2 DEF WorkOk, ReloadOk, VerifyOk, AttOk
<1> QED
  BY <1>1, <1>2, <1>3 DEF PluginInv

\* verify_signed_manifest: the signature found on the disk was made, and by the
\* key the manifest declares.
LEMMA CheckSteps ==
    ASSUME PluginInv
    PROVE  /\ \A f \in Files : ReadManifest(f) => PluginInv'
           /\ CompareDigest => PluginInv'
           /\ CheckSignature => PluginInv'
           /\ ReportVerified => PluginInv'
<1>1. ASSUME NEW f \in Files, ReadManifest(f) PROVE PluginInv'
  <2>1. CheckOk'
    BY <1>1 DEF ReadManifest, CheckOk
  <2> QED
    BY <1>1, <2>1, CheckMoves DEF ReadManifest
<1>2. ASSUME CompareDigest PROVE PluginInv'
  <2>1. CheckOk /\ check.pc = "bytes"
    BY <1>2 DEF CompareDigest, PluginInv
  <2>2. /\ DOMAIN check = {"pc", "file", "m"} /\ check.file \in Files
    BY <2>1 DEF CheckOk, NoWork
  <2>3. CheckOk'
    BY <1>2, <2>2 DEF CompareDigest, CheckOk
  <2> QED
    BY <1>2, <2>3, CheckMoves DEF CompareDigest
<1>3. ASSUME CheckSignature PROVE PluginInv'
  <2>1. CheckOk /\ check.pc = "signature" /\ UNCHANGED <<diskVars, pluginList, loader>>
    BY <1>3 DEF CheckSignature, PluginInv
  <2>2. /\ DOMAIN check = {"pc", "file", "m"} /\ check.file \in Files
    BY <2>1 DEF CheckOk, NoWork
  <2>3. CASE check' = NoWork
    <3>1. CheckOk'
      BY <2>3 DEF CheckOk
    <3> QED
      BY <2>1, <3>1, CheckMoves
  <2>4. CASE check' # NoWork
    <3>1. PICK k \in Trusted : /\ <<k, check.m>> \in manifestSig[check.file]
                               /\ k = check.m.signer
                               /\ check' = [check EXCEPT !.pc = "verified"]
      BY <1>3, <2>4 DEF CheckSignature, SignerMatches
    <3>2. <<check.m.signer, check.m>> \in signedManifests /\ check.m.signer \in Trusted
      BY <2>2, <3>1 DEF PluginInv, DiskInv
    <3>3. /\ DOMAIN check' = {"pc", "file", "m"} /\ check'.file = check.file
          /\ check'.m = check.m /\ check'.pc = "verified"
      BY <2>2, <3>1
    <3>4. CheckOk'
      BY <2>1, <2>2, <3>2, <3>3 DEF CheckOk, diskVars
    <3> QED
      BY <2>1, <3>4, CheckMoves
  <2> QED
    BY <2>3, <2>4
<1>4. ASSUME ReportVerified PROVE PluginInv'
  <2>1. CheckOk'
    BY <1>4 DEF ReportVerified, CheckOk
  <2> QED
    BY <1>4, <2>1, CheckMoves DEF ReportVerified
<1> QED
  BY <1>1, <1>2, <1>3, <1>4

\* Every step keeps the invariant.
LEMMA PluginStep ==
    ASSUME PluginInv, [PluginNext]_pluginVars
    PROVE  PluginInv'
<1>1. CASE UNCHANGED pluginVars
  BY <1>1, DiskMoves DEF pluginVars, diskVars, PluginInv, DiskInv
<1>2. CASE DeployStep
  BY <1>2, InstallPluginStep DEF DeployStep
<1>3. CASE AttestStep
  <2>1. CASE \E f \in Files : \/ \E k \in SignKeys : SignBlob(f, k)
                              \/ \E d \in Builds : OtherBundle(f, d)
    BY <2>1, DiskSteps
  <2>2. ASSUME NEW r \in Loaders,
               \/ BeginReload(r) \/ ReadBytes(r) \/ ReadDigest(r) \/ ReadSignature(r)
               \/ PushPlugin(r) \/ SwapRegistry(r) \/ ExitVerify(r)
        PROVE  PluginInv'
    BY <2>2, BeginReloadStep, ReadBytesStep, ReadDigestStep, ReadSignatureStep,
       PushPluginStep, SwapRegistryStep, ExitVerifyStep
  <2>3. ASSUME NEW r \in Loaders, NEW f \in Files, LoadFile(r, f) \/ BeginVerify(r, f)
        PROVE  PluginInv'
    BY <2>3, LoadFileStep, BeginVerifyStep
  <2> QED
    BY <1>3, <2>1, <2>2, <2>3 DEF AttestStep
<1>4. CASE ManifestStep
  BY <1>4, DiskSteps, CheckSteps DEF ManifestStep
<1> QED
  BY <1>1, <1>2, <1>3, <1>4 DEF PluginNext

\* Nothing is on the disk and no work is under way.
LEMMA PluginInitInv == PluginInit => PluginInv
BY DEF PluginInit, PluginInv, DiskInv, WorkOk, CheckOk

\* The invariant holds in every reachable state.
THEOREM PluginInvariance == PluginSpec => []PluginInv
BY PluginInitInv, PluginStep, PTL DEF PluginSpec

\* An exit status of 0 where the signature was checked means it verified.
LEMMA ExitOk ==
    ASSUME PluginInv
    PROVE  ExitsHonest
<1> SUFFICES ASSUME NEW r \in Loaders, loader[r].pc = "exit", VerifyExit(loader[r].att) = 0,
                    loader[r].att.hasBundle, Pinned # {}
             PROVE  \E k \in Pinned : <<k, loader[r].att.bytes>> \in signedBuilds
  BY DEF ExitsHonest
<1>1. PICK w : w = loader[r]
  OBVIOUS
<1>2. WorkOk(w) /\ w.pc = "exit" /\ w.att.hasBundle /\ VerifyExit(w.att) = 0
  BY <1>1 DEF PluginInv
<1>3. VerifyOk(w)
  BY <1>2, WorkKinds DEF ReloadOk
<1>4. w.att.sigChecked
  BY <1>2, <1>3 DEF VerifyOk
<1>5. w.att.sigVerified
  BY <1>2, <1>4 DEF VerifyExit
<1> QED
  BY <1>1, <1>2, <1>3, <1>5 DEF VerifyOk, AttOk, PinnedSigned

\* Whatever the registry, `iaga plugins verify` or verify_signed_manifest calls
\* verified was signed by the key that is named, over the bytes that were
\* judged, for any number of files, keys, loaders and replaced files.
THEOREM VerifiedIsSigned == PluginSpec => []VerifiedMeansSigned
<1>1. PluginInv => VerifiedPluginsSigned
  BY DEF PluginInv, VerifiedPluginsSigned, PluginOk, PinnedSigned
<1>2. PluginInv => ManifestsSigned
  BY DEF PluginInv, ManifestsSigned, CheckOk, NoWork
<1> QED
  BY <1>1, <1>2, ExitOk, PluginInvariance, PTL DEF VerifiedMeansSigned

-----------------------------------------------------------------------------
(* Induction.  The library's induction theorems take an operator; the       *)
(* least-element principle takes a set, and induction follows from it.      *)

\* Every non-empty set of natural numbers has a least element.
LEMMA LeastNat ==
    ASSUME NEW T \in SUBSET Nat, T # {}
    PROVE  \E x \in T : \A y \in T : x <= y
<1> DEFINE lt == OpToRel(<, Nat)
<1>1. IsWellFoundedOn(lt, Nat)
  BY NatLessThanWellFounded
<1>2. \A x, y \in Nat : y < x => <<y, x>> \in lt
  BY DEF OpToRel
<1> HIDE DEF lt
<1>3. PICK x \in T : \A y \in T : ~ (<<y, x>> \in lt)
  BY <1>1, WFMin
<1>4. ASSUME NEW y \in T PROVE x <= y
  <2>1. x \in Nat /\ y \in Nat /\ ~ (<<y, x>> \in lt)
    BY <1>3
  <2>2. ~ (y < x)
    BY <1>2, <2>1, Zenon
  <2> QED
    BY <2>1, <2>2
<1> QED
  BY <1>4

\* A set of natural numbers that holds 0 and with n holds n + 1 holds them all.
LEMMA NatInd ==
    ASSUME NEW P \in SUBSET Nat, 0 \in P, \A n \in P : n + 1 \in P
    PROVE  P = Nat
<1> SUFFICES ASSUME P # Nat PROVE FALSE
  OBVIOUS
<1> DEFINE T == Nat \ P
<1>1. PICK x \in T : \A y \in T : x <= y
  <2>1. T \in SUBSET Nat /\ T # {}
    OBVIOUS
  <2> HIDE DEF T
  <2> QED
    BY <2>1, LeastNat
<1>2. x \in Nat \ {0} /\ x - 1 \in Nat
  BY <1>1
<1>3. x - 1 \in P
  BY <1>1, <1>2
<1> QED
  BY <1>1, <1>2, <1>3

-----------------------------------------------------------------------------
(* The spend. *)

\* f holds the running sums of the first n costs of w.
IsSums(f, w, n) == f = [m \in 0..n |-> IF m = 0 THEN 0 ELSE f[m-1] + w[m]]

\* The recursive definition of Sums defines a function.
LEMMA SumsExist ==
    ASSUME NEW w, NEW n \in Nat
    PROVE  \E f : IsSums(f, w, n)
<1> DEFINE P == {k \in Nat : \E f : IsSums(f, w, k)}
<1>1. 0 \in P
  <2>1. IsSums([m \in 0..0 |-> 0], w, 0)
    BY DEF IsSums
  <2> QED
    BY <2>1
<1>2. ASSUME NEW k \in P PROVE k + 1 \in P
  <2>1. k \in Nat /\ \E f : IsSums(f, w, k)
    OBVIOUS
  <2>2. PICK f : IsSums(f, w, k)
    BY <2>1
  <2> DEFINE g == [m \in 0..(k+1) |-> IF m = k+1 THEN f[k] + w[k+1] ELSE f[m]]
  <2>3. \A m \in 0..(k+1) : g[m] = IF m = 0 THEN 0 ELSE g[m-1] + w[m]
    BY <2>1, <2>2 DEF IsSums
  <2>4. IsSums(g, w, k+1)
    BY <2>3, <2>1 DEF IsSums
  <2> QED
    BY <2>1, <2>4
<1>3. P = Nat
  <2> HIDE DEF P
  <2>1. P \in SUBSET Nat
    BY DEF P
  <2> QED
    BY <1>1, <1>2, <2>1, NatInd
<1> QED
  BY <1>3

\* So Sums may be unfolded once.
LEMMA SumsUnfold ==
    ASSUME NEW w, Len(w) \in Nat
    PROVE  /\ Sums(w)[0] = 0
           /\ \A m \in 1..Len(w) : Sums(w)[m] = Sums(w)[m-1] + w[m]
<1>1. \E f : IsSums(f, w, Len(w))
  BY SumsExist
<1>2. IsSums(Sums(w), w, Len(w))
  BY <1>1 DEF IsSums, Sums
<1>3. PICK f : f = Sums(w)
  OBVIOUS
<1> QED
  BY <1>2, <1>3 DEF IsSums

\* The same, one sum after the other.
LEMMA SumsNext ==
    ASSUME NEW w, Len(w) \in Nat, NEW k \in Nat, k + 1 <= Len(w)
    PROVE  Sums(w)[k+1] = Sums(w)[k] + w[k+1]
<1>1. k + 1 \in 1..Len(w) /\ k + 1 - 1 = k
  OBVIOUS
<1> QED
  BY <1>1, SumsUnfold

\* Sums of natural numbers are natural numbers.
LEMMA SumsType ==
    ASSUME NEW w \in Seq(Nat), NEW m \in 0..Len(w)
    PROVE  Sums(w)[m] \in Nat
<1> DEFINE P == {k \in Nat : k <= Len(w) => Sums(w)[k] \in Nat}
<1>1. 0 \in P
  BY SumsUnfold
<1>2. ASSUME NEW k \in P PROVE k + 1 \in P
  <2>1. CASE k + 1 <= Len(w)
    <3>1. Sums(w)[k+1] = Sums(w)[k] + w[k+1] /\ k \in Nat /\ Sums(w)[k] \in Nat
      BY <2>1, SumsNext
    <3>2. w[k+1] \in Nat
      BY <2>1
    <3> QED
      BY <3>1, <3>2
  <2> QED
    BY <2>1
<1>3. P = Nat
  <2> HIDE DEF P
  <2>1. P \in SUBSET Nat
    BY DEF P
  <2> QED
    BY <1>1, <1>2, <2>1, NatInd
<1> QED
  BY <1>3

\* One more cost leaves the earlier sums alone and adds itself to the last.
LEMMA SumsAppend ==
    ASSUME NEW w \in Seq(Nat), NEW v \in Seq(Nat), Len(v) = Len(w) + 1,
           \A m \in 1..Len(w) : v[m] = w[m]
    PROVE  /\ \A m \in 0..Len(w) : Sums(v)[m] = Sums(w)[m]
           /\ Total(v) = Total(w) + v[Len(v)]
<1>1. Len(w) \in Nat /\ Len(v) \in Nat
  OBVIOUS
<1> DEFINE P == {k \in Nat : k <= Len(w) => Sums(v)[k] = Sums(w)[k]}
<1>2. 0 \in P
  BY <1>1, SumsUnfold
<1>3. ASSUME NEW k \in P PROVE k + 1 \in P
  <2>1. CASE k + 1 <= Len(w)
    <3>1. k \in Nat /\ k + 1 \in 1..Len(w) /\ k + 1 <= Len(v)
      BY <1>1, <2>1
    <3>2. Sums(w)[k+1] = Sums(w)[k] + w[k+1]
      BY <1>1, <2>1, <3>1, SumsNext
    <3>3. Sums(v)[k+1] = Sums(v)[k] + v[k+1]
      BY <1>1, <3>1, SumsNext
    <3>4. Sums(v)[k] = Sums(w)[k] /\ v[k+1] = w[k+1]
      BY <1>1, <2>1, <3>1
    <3> QED
      BY <3>2, <3>3, <3>4
  <2> QED
    BY <2>1
<1>4. P = Nat
  <2> HIDE DEF P
  <2>1. P \in SUBSET Nat
    BY DEF P
  <2> QED
    BY <1>2, <1>3, <2>1, NatInd
<1>5. \A m \in 0..Len(w) : Sums(v)[m] = Sums(w)[m]
  BY <1>4
<1>6. Sums(v)[Len(v)] = Sums(v)[Len(w)] + v[Len(v)]
  <2>1. Len(v) \in 1..Len(v) /\ Len(v) - 1 = Len(w)
    BY <1>1
  <2> QED
    BY <1>1, <2>1, SumsUnfold
<1>7. Sums(v)[Len(w)] = Sums(w)[Len(w)]
  BY <1>5
<1> QED
  BY <1>1, <1>5, <1>6, <1>7 DEF Total

\* Sums of costs none of which is larger are not larger.
LEMMA SumsMonotone ==
    ASSUME NEW w \in Seq(Nat), NEW v \in Seq(Nat), Len(v) = Len(w),
           \A i \in 1..Len(w) : v[i] <= w[i]
    PROVE  Total(v) <= Total(w)
<1> DEFINE P == {k \in Nat : k <= Len(w) => Sums(v)[k] <= Sums(w)[k]}
<1>1. 0 \in P
  BY SumsUnfold
<1>2. ASSUME NEW k \in P PROVE k + 1 \in P
  <2>1. CASE k + 1 <= Len(w)
    <3>1. k + 1 \in 1..Len(w) /\ k \in 0..Len(w)
      BY <2>1
    <3>2. Sums(w)[k+1] = Sums(w)[k] + w[k+1] /\ Sums(v)[k+1] = Sums(v)[k] + v[k+1]
      BY <2>1, SumsNext
    <3>3. Sums(w)[k] \in Nat /\ Sums(v)[k] \in Nat /\ w[k+1] \in Nat /\ v[k+1] \in Nat
      BY <3>1, SumsType
    <3> QED
      BY <2>1, <3>1, <3>2, <3>3
  <2> QED
    BY <2>1
<1>3. P = Nat
  <2> HIDE DEF P
  <2>1. P \in SUBSET Nat
    BY DEF P
  <2> QED
    BY <1>1, <1>2, <2>1, NatInd
<1>4. Sums(v)[Len(w)] <= Sums(w)[Len(w)]
  BY <1>3
<1> QED
  BY <1>4 DEF Total

Charges == [key : SpendKeys, cost : Nat, dictum : BOOLEAN]

SpendTypeOK ==
    /\ spend \in [SpendKeys -> Nat]
    /\ charges \in Seq(Charges)
    /\ DOMAIN payer = Payers
    /\ \A p \in Payers : payer[p].pc = "overlay" =>
          /\ payer[p].key \in SpendKeys
          /\ payer[p].cost \in Nat
          /\ payer[p].seen \in Nat

\* A request under way saw a spend that has only grown since.
SeenInv ==
    \A p \in Payers, k \in SpendKeys :
        payer[p].pc = "overlay" /\ payer[p].key = k /\ Counted(k) =>
            payer[p].seen <= spend[k]

\* Each charge was made while the spend was within the budget.
ChargedInv ==
    \A k \in SpendKeys : Counted(k) =>
        /\ spend[k] = Total(CostsOf(k))
        /\ \A limit \in Budget, i \in 1..Len(charges) :
              charges[i].key = k => Sums(CostsOf(k))[i-1] <= limit

\* The requests under way that the policy will let pass, and the costs it let pass.
Stale(k) == {p \in Payers : /\ payer[p].pc = "overlay"
                            /\ payer[p].key = k
                            /\ payer[p].seen <= PolicyLimit}
Passed(k) == {0} \cup {LetPass(k)[i] : i \in 1..Len(charges)}

\* Once the spend is over the policy's limit no request joins the stale ones, and
\* each of them spends the share of it that the bound holds in reserve.
LetInv ==
    \A k \in SpendKeys :
        Counted(k) /\ spend[k] > PolicyLimit =>
            \E most \in Passed(k) :
                Total(LetPass(k)) + Cardinality(Stale(k)) * most
                    <= PolicyLimit + Cardinality(Payers) * most

SpendInv == SpendTypeOK /\ SeenInv /\ ChargedInv /\ LetInv

\* A function on 1..n with values in S is a sequence over S.
LEMMA FunIsSeq ==
    ASSUME NEW n \in Nat, NEW S, NEW f \in [1..n -> S]
    PROVE  f \in Seq(S) /\ Len(f) = n
OBVIOUS

\* The costs of the charges of a key are natural numbers, and those the policy
\* let pass are not larger.
LEMMA CostTypes ==
    ASSUME SpendTypeOK, NEW k
    PROVE  /\ CostsOf(k) \in Seq(Nat) /\ Len(CostsOf(k)) = Len(charges)
           /\ LetPass(k) \in Seq(Nat) /\ Len(LetPass(k)) = Len(charges)
           /\ \A i \in 1..Len(charges) : LetPass(k)[i] <= CostsOf(k)[i]
<1>1. PICK n \in Nat : n = Len(charges)
  BY DEF SpendTypeOK
<1>2. \A i \in 1..n : charges[i].cost \in Nat
  <2>1. \A i \in 1..n : charges[i] \in Charges
    BY <1>1 DEF SpendTypeOK
  <2> QED
    BY <2>1 DEF Charges
<1>3. CostsOf(k) \in [1..n -> Nat]
  BY <1>1, <1>2 DEF CostsOf
<1>4. LetPass(k) \in [1..n -> Nat]
  BY <1>1, <1>2 DEF LetPass
<1>5. \A i \in 1..n : LetPass(k)[i] <= CostsOf(k)[i]
  BY <1>1, <1>2 DEF LetPass, CostsOf
<1> QED
  BY <1>1, <1>3, <1>4, <1>5, FunIsSeq

\* What a request costs is a natural number.
LEMMA ResolveType == \A rep \in Reports : ResolveUsage(rep) \in Nat
<1> SUFFICES ASSUME NEW rep \in Reports PROVE ResolveUsage(rep) \in Nat
  OBVIOUS
<1>1. /\ rep.usd \in SUBSET Int /\ rep.rate \in SUBSET [input : Int, output : Int]
      /\ rep.prompt \in Nat /\ rep.completion \in Nat /\ MaxMicros \in Nat
  BY SpendAssumption
<1>2. \A c \in Nat : Saturate(c) \in Nat
  BY <1>1 DEF Saturate
<1>3. \A u \in Int : UsdToMicros(u) \in Nat
  BY <1>1 DEF UsdToMicros, Saturate
<1>4. CASE rep.usd # {}
  <2>1. PICK u : u = CHOOSE x \in rep.usd : TRUE
    OBVIOUS
  <2>2. u \in Int
    BY <1>1, <1>4, <2>1
  <2> QED
    BY <1>3, <1>4, <2>1, <2>2 DEF ResolveUsage
<1>5. CASE rep.usd = {}
  <2>1. ASSUME NEW r \in rep.rate
        PROVE  Saturate(UsdToMicros(rep.prompt * r.input)
                        + UsdToMicros(rep.completion * r.output)) \in Nat
    <3>1. rep.prompt * r.input \in Int /\ rep.completion * r.output \in Int
      BY <1>1
    <3>2. PICK a \in Nat, b \in Nat : /\ a = UsdToMicros(rep.prompt * r.input)
                                      /\ b = UsdToMicros(rep.completion * r.output)
      BY <1>3, <3>1
    <3> QED
      BY <1>2, <3>2
  <2>2. TableCost(rep) \in SUBSET Nat
    BY <2>1 DEF TableCost
  <2> QED
    BY <1>5, <2>2 DEF ResolveUsage
<1> QED
  BY <1>4, <1>5

\* The reserve of one stale request pays for what it spends, also when it is the
\* dearest so far.
LEMMA ReservePays ==
    ASSUME NEW C \in Nat, NEW s \in Nat, 1 <= s, s <= C, NEW m \in Nat, NEW m2 \in Nat,
           NEW c \in Nat, NEW L \in Nat, NEW lim \in Nat, m <= m2, c <= m2,
           L + s * m <= lim + C * m
    PROVE  L + c + (s - 1) * m2 <= lim + C * m2
<1>1. PICK d \in Nat : d = C - s
  OBVIOUS
<1>2. C * m = s * m + d * m /\ C * m2 = s * m2 + d * m2 /\ (s - 1) * m2 = s * m2 - m2
  BY <1>1
<1>3. d * m <= d * m2 /\ d * m \in Nat /\ d * m2 \in Nat /\ s * m \in Nat /\ s * m2 \in Nat
  BY <1>1
<1>4. PICK a \in Nat, b \in Nat, e \in Nat, f \in Nat :
          a = s * m /\ b = s * m2 /\ e = d * m /\ f = d * m2
  BY <1>3
<1>5. L + a <= lim + (a + e) /\ e <= f
  BY <1>2, <1>3, <1>4
<1>6. L + c + (b - m2) <= lim + (b + f)
  BY <1>5
<1> QED
  BY <1>2, <1>4, <1>6

\* The request that takes the spend over the limit leaves a reserve for the others.
LEMMA FirstReserve ==
    ASSUME NEW C \in Nat, NEW s \in Nat, s + 1 <= C, NEW c \in Nat,
           NEW L \in Nat, NEW lim \in Nat, L <= lim
    PROVE  L + c + s * c <= lim + C * c
<1>1. PICK d \in Nat : C = s + 1 + d
  <2>1. C - s - 1 \in Nat /\ C = s + 1 + (C - s - 1)
    OBVIOUS
  <2> QED
    BY <2>1
<1>2. C * c = s * c + c + d * c /\ d * c \in Nat /\ s * c \in Nat
  BY <1>1
<1> QED
  BY <1>2

\* The stale requests are finitely many, no more than there are requests.
LEMMA StaleCount ==
    ASSUME NEW k
    PROVE  /\ IsFiniteSet(Stale(k)) /\ Cardinality(Stale(k)) \in Nat
           /\ Cardinality(Stale(k)) <= Cardinality(Payers) /\ Cardinality(Payers) \in Nat
<1>1. Stale(k) \in SUBSET Payers /\ IsFiniteSet(Payers)
  BY SpendAssumption DEF Stale
<1> QED
  BY <1>1, FS_Subset, FS_CardinalityType

\* What the policy let pass was charged.
LEMMA LetPassCharged ==
    ASSUME SpendTypeOK, NEW k
    PROVE  Total(LetPass(k)) <= Total(CostsOf(k)) /\ Total(LetPass(k)) \in Nat
<1>1. PICK v, w : v = LetPass(k) /\ w = CostsOf(k)
  OBVIOUS
<1>2. /\ v \in Seq(Nat) /\ w \in Seq(Nat) /\ Len(v) = Len(w)
      /\ \A i \in 1..Len(w) : v[i] <= w[i]
  BY <1>1, CostTypes
<1>3. Total(v) <= Total(w)
  BY <1>2, SumsMonotone
<1>4. Total(v) \in Nat
  BY <1>2, SumsType DEF Total
<1> QED
  BY <1>1, <1>3, <1>4

\* Nothing is charged at first.
LEMMA SpendInitInv == SpendInit => SpendInv
<1> SUFFICES ASSUME SpendInit PROVE SpendInv
  OBVIOUS
<1>1. SpendTypeOK /\ SeenInv
  BY DEF SpendInit, SpendTypeOK, SeenInv, NoPayer
<1>2. ASSUME NEW k \in SpendKeys PROVE Total(CostsOf(k)) = 0 /\ spend[k] = 0
  <2>1. PICK w : w = CostsOf(k)
    OBVIOUS
  <2>2. Len(charges) = 0 /\ spend[k] = 0
    BY DEF SpendInit
  <2>3. Len(w) = 0
    BY <1>1, <2>1, <2>2, CostTypes
  <2>4. Sums(w)[0] = 0
    BY <2>3, SumsUnfold
  <2> QED
    BY <2>1, <2>2, <2>3, <2>4 DEF Total
<1>3. ChargedInv
  BY <1>2 DEF ChargedInv, SpendInit
<1>4. LetInv
  BY <1>2, SpendAssumption DEF LetInv
<1> QED
  BY <1>1, <1>3, <1>4 DEF SpendInv

\* Where no charge is made the sums stay.
LEMMA SameCharges ==
    ASSUME UNCHANGED <<spend, poisoned, charges>>, SpendInv
    PROVE  /\ ChargedInv'
           /\ \A k : LetPass(k)' = LetPass(k) /\ Passed(k)' = Passed(k)
           /\ \A k : Counted(k)' <=> Counted(k)
<1>1. \A k : LetPass(k)' = LetPass(k) /\ CostsOf(k)' = CostsOf(k)
  BY DEF LetPass, CostsOf
<1>2. \A k : Counted(k)' <=> Counted(k)
  BY <1>1 DEF Counted
<1> QED
  BY <1>1, <1>2 DEF ChargedInv, SpendInv, Passed

\* Reading the spend makes a stale request only while it is within the limit.
LEMMA ReadSpendStep ==
    ASSUME SpendInv, NEW p \in Payers, NEW kk \in SpendKeys, NEW rep \in Reports,
           ReadSpend(p, kk, rep)
    PROVE  SpendInv'
<1>1. UNCHANGED <<spend, poisoned, charges>> /\ payer[p].pc = "idle"
  BY DEF ReadSpend
<1>2. PICK c \in Nat : c = ResolveUsage(rep)
  BY ResolveType
<1>3. PICK q : q = [pc |-> "overlay", key |-> kk, cost |-> c, seen |-> SessionSpend(kk)]
  OBVIOUS
<1>4. q.pc = "overlay" /\ q.key = kk /\ q.cost = c /\ q.seen = SessionSpend(kk)
  BY <1>3
<1>5. /\ DOMAIN payer' = Payers /\ payer'[p] = q
      /\ \A x \in Payers : x # p => payer'[x] = payer[x]
  BY <1>2, <1>3 DEF ReadSpend, SpendInv, SpendTypeOK
<1>6. spend[kk] \in Nat /\ SessionSpend(kk) \in Nat
  BY DEF SpendInv, SpendTypeOK, SessionSpend
<1>7. SpendTypeOK'
  BY <1>1, <1>4, <1>5, <1>6 DEF SpendInv, SpendTypeOK
<1>8. SeenInv'
  <2> SUFFICES ASSUME NEW x \in Payers, NEW k \in SpendKeys,
                      payer'[x].pc = "overlay", payer'[x].key = k, Counted(k)'
               PROVE  payer'[x].seen <= spend'[k]
    BY DEF SeenInv
  <2>1. Counted(k)
    BY <1>1, SameCharges
  <2>2. CASE x = p
    <3>1. ~poisoned
      BY <2>1 DEF Counted
    <3> QED
      BY <1>1, <1>4, <1>5, <1>6, <2>2, <3>1 DEF SessionSpend
  <2>3. CASE x # p
    BY <1>1, <1>5, <2>1, <2>3 DEF SpendInv, SeenInv
  <2> QED
    BY <2>2, <2>3
<1>9. LetInv'
  <2> SUFFICES ASSUME NEW k \in SpendKeys, Counted(k), spend[k] > PolicyLimit
               PROVE  \E most \in Passed(k)' :
                        Total(LetPass(k)') + Cardinality(Stale(k)') * most
                            <= PolicyLimit + Cardinality(Payers) * most
    BY <1>1, SameCharges DEF LetInv
  <2>1. Stale(k)' = Stale(k)
    <3>1. p \notin Stale(k)
      BY <1>1 DEF Stale
    <3>2. p \notin Stale(k)'
      <4>1. spend[k] \in Nat /\ PolicyLimit \in Nat
        BY SpendAssumption DEF SpendInv, SpendTypeOK
      <4> QED
        BY <1>4, <1>5, <4>1 DEF Stale, SessionSpend, Counted
    <3> QED
      BY <1>5, <3>1, <3>2 DEF Stale
  <2>2. LetPass(k)' = LetPass(k) /\ Passed(k)' = Passed(k)
    BY <1>1, SameCharges
  <2> QED
    BY <2>1, <2>2 DEF SpendInv, LetInv
<1>10. ChargedInv'
  BY <1>1, SameCharges
<1> QED
  BY <1>7, <1>8, <1>9, <1>10 DEF SpendInv

\* The payer of a finished request is idle, and the others are as they were.
LEMMA PayerDone ==
    ASSUME SpendInv, NEW p \in Payers, payer' = [payer EXCEPT ![p] = NoPayer]
    PROVE  /\ DOMAIN payer' = Payers
           /\ payer'[p].pc = "idle"
           /\ \A x \in Payers : x # p => payer'[x] = payer[x]
           /\ \A k : Stale(k)' = Stale(k) \ {p}
<1>1. /\ DOMAIN payer' = Payers /\ payer'[p] = NoPayer
      /\ \A x \in Payers : x # p => payer'[x] = payer[x]
  BY DEF SpendInv, SpendTypeOK
<1>2. payer'[p].pc = "idle"
  BY <1>1 DEF NoPayer
<1>3. ASSUME NEW k PROVE Stale(k)' = Stale(k) \ {p}
  BY <1>1, <1>2 DEF Stale
<1> QED
  BY <1>1, <1>2, <1>3

\* A request that passed is among the charges.
LEMMA PassedCharge ==
    ASSUME SpendInv, NEW p \in Payers, payer[p].pc = "overlay", Pass(p)
    PROVE  \E ch \in Charges :
              /\ ch.key = payer[p].key /\ ch.cost = payer[p].cost
              /\ (ch.dictum <=> payer[p].seen > PolicyLimit)
              /\ charges' = Append(charges, ch)
<1>1. PICK q : q = payer[p]
  OBVIOUS
<1>2. q.key \in SpendKeys /\ q.cost \in Nat
  BY <1>1 DEF SpendInv, SpendTypeOK
<1>3. PICK d : d = (q.seen > PolicyLimit)
  OBVIOUS
<1>4. PICK ch : ch = [key |-> q.key, cost |-> q.cost, dictum |-> d]
  OBVIOUS
<1>5. d \in BOOLEAN
  BY <1>3
<1>6. ch.key = q.key /\ ch.cost = q.cost /\ ch.dictum = d
  BY <1>4
<1>7. ch \in Charges
  BY <1>2, <1>4, <1>5 DEF Charges
<1>8. charges' = Append(charges, ch)
  BY <1>1, <1>3, <1>4 DEF Pass
<1> QED
  BY <1>1, <1>3, <1>6, <1>7, <1>8

\* A refused request charges nothing and is no longer under way.
LEMMA RefusedStep ==
    ASSUME SpendInv, NEW p \in Payers, CheckAndAdd(p), RefuseOverspent(p)
    PROVE  SpendInv'
<1>1. UNCHANGED <<spend, poisoned, charges>> /\ payer' = [payer EXCEPT ![p] = NoPayer]
  BY DEF CheckAndAdd, RefuseOverspent, Finish
<1>2. SpendTypeOK' /\ SeenInv'
  BY <1>1, PayerDone, SameCharges DEF SpendInv, SpendTypeOK, SeenInv
<1>3. LetInv'
  <2> SUFFICES ASSUME NEW k \in SpendKeys, Counted(k), spend[k] > PolicyLimit
               PROVE  \E most \in Passed(k)' :
                        Total(LetPass(k)') + Cardinality(Stale(k)') * most
                            <= PolicyLimit + Cardinality(Payers) * most
    BY <1>1, SameCharges DEF LetInv
  <2>1. PICK most \in Passed(k) :
          Total(LetPass(k)) + Cardinality(Stale(k)) * most
              <= PolicyLimit + Cardinality(Payers) * most
    BY DEF SpendInv, LetInv
  <2>2. LetPass(k)' = LetPass(k) /\ Passed(k)' = Passed(k)
    BY <1>1, SameCharges
  <2>3. PICK S, R : S = Stale(k) /\ R = Stale(k)'
    OBVIOUS
  <2>4. R \subseteq S
    BY <1>1, <2>3, PayerDone
  <2>5. IsFiniteSet(S) /\ Cardinality(S) \in Nat
    BY <2>3, StaleCount
  <2>6. Cardinality(R) <= Cardinality(S) /\ Cardinality(R) \in Nat
    BY <2>4, <2>5, FS_Subset, FS_CardinalityType
  <2>7. most \in Nat
    BY CostTypes DEF Passed, SpendInv
  <2>8. Total(LetPass(k)) \in Nat /\ PolicyLimit \in Nat /\ Cardinality(Payers) \in Nat
    BY LetPassCharged, SpendAssumption, StaleCount DEF SpendInv
  <2>9. PICK L \in Nat, r \in Nat, s \in Nat, C \in Nat :
          /\ L = Total(LetPass(k)) /\ r = Cardinality(R) /\ s = Cardinality(S)
          /\ C = Cardinality(Payers)
    BY <2>5, <2>6, <2>8
  <2>10. r * most <= s * most /\ L + s * most <= PolicyLimit + C * most
    BY <2>1, <2>3, <2>6, <2>7, <2>9
  <2>11. L + r * most <= PolicyLimit + C * most
    <3>1. r * most \in Nat /\ s * most \in Nat /\ C * most \in Nat
      BY <2>7
    <3> QED
      BY <2>8, <2>10, <3>1
  <2> QED
    BY <2>1, <2>2, <2>3, <2>9, <2>11
<1>4. ChargedInv'
  BY <1>1, SameCharges
<1> QED
  BY <1>2, <1>3, <1>4 DEF SpendInv

\* Once the lock is poisoned nothing is counted.
LEMMA PoisonedStep ==
    ASSUME SpendInv, NEW p \in Payers, CheckAndAdd(p), PanicInAdd(p) \/ PassUncounted(p)
    PROVE  SpendInv'
<1>1. poisoned' /\ UNCHANGED spend /\ payer' = [payer EXCEPT ![p] = NoPayer]
  BY DEF CheckAndAdd, PanicInAdd, PassUncounted, Finish
<1>2. charges' \in Seq(Charges)
  <2>1. CASE PanicInAdd(p)
    BY <2>1 DEF PanicInAdd, SpendInv, SpendTypeOK
  <2>2. CASE PassUncounted(p)
    <3>1. PICK ch \in Charges : charges' = Append(charges, ch)
      BY <2>2, PassedCharge DEF PassUncounted, CheckAndAdd
    <3> QED
      BY <3>1 DEF SpendInv, SpendTypeOK
  <2> QED
    BY <2>1, <2>2
<1>3. \A k : ~Counted(k)'
  BY <1>1 DEF Counted
<1>4. SpendTypeOK'
  BY <1>1, <1>2, PayerDone DEF SpendInv, SpendTypeOK
<1> QED
  BY <1>3, <1>4 DEF SpendInv, SeenInv, ChargedInv, LetInv

\* A charge extends the costs of every session by what it adds to it.
LEMMA ChargeExtends ==
    ASSUME SpendTypeOK, NEW ch \in Charges, charges' = Append(charges, ch), NEW k
    PROVE  LET n == Len(charges) IN
           /\ Len(charges') = n + 1 /\ n \in Nat
           /\ \A i \in 1..n : charges'[i] = charges[i]
           /\ charges'[n + 1] = ch
           /\ CostsOf(k)' \in Seq(Nat) /\ Len(CostsOf(k)') = n + 1
           /\ LetPass(k)' \in Seq(Nat) /\ Len(LetPass(k)') = n + 1
           /\ \A i \in 1..n : /\ CostsOf(k)'[i] = CostsOf(k)[i]
                              /\ LetPass(k)'[i] = LetPass(k)[i]
           /\ CostsOf(k)'[n + 1] = IF ch.key = k THEN ch.cost ELSE 0
           /\ LetPass(k)'[n + 1] = IF ch.key = k /\ ~ch.dictum THEN ch.cost ELSE 0
<1>1. PICK n \in Nat : n = Len(charges)
  BY DEF SpendTypeOK
<1>2. /\ Len(charges') = n + 1 /\ charges'[n + 1] = ch
      /\ \A i \in 1..n : charges'[i] = charges[i]
  BY <1>1 DEF SpendTypeOK
<1>3. \A i \in 1..(n + 1) : charges'[i].cost \in Nat
  <2>1. \A i \in 1..n : charges[i] \in Charges
    BY <1>1 DEF SpendTypeOK
  <2>2. \A i \in 1..(n + 1) : charges'[i] \in Charges
    BY <1>2, <2>1
  <2> QED
    BY <2>2 DEF Charges
<1>4. CostsOf(k)' \in [1..(n + 1) -> Nat] /\ LetPass(k)' \in [1..(n + 1) -> Nat]
  BY <1>2, <1>3 DEF CostsOf, LetPass
<1>5. /\ CostsOf(k)' \in Seq(Nat) /\ Len(CostsOf(k)') = n + 1
      /\ LetPass(k)' \in Seq(Nat) /\ Len(LetPass(k)') = n + 1
  BY <1>4, FunIsSeq
<1>6. \A i \in 1..n : /\ CostsOf(k)'[i] = CostsOf(k)[i]
                      /\ LetPass(k)'[i] = LetPass(k)[i]
  BY <1>1, <1>2 DEF CostsOf, LetPass
<1>7. /\ CostsOf(k)'[n + 1] = IF ch.key = k THEN ch.cost ELSE 0
      /\ LetPass(k)'[n + 1] = IF ch.key = k /\ ~ch.dictum THEN ch.cost ELSE 0
  BY <1>2 DEF CostsOf, LetPass
<1> QED
  BY <1>1, <1>2, <1>5, <1>6, <1>7

\* What it adds to the sums.
LEMMA ChargeSums ==
    ASSUME SpendTypeOK, NEW ch \in Charges, charges' = Append(charges, ch), NEW k
    PROVE  /\ Total(CostsOf(k)') = Total(CostsOf(k)) + CostsOf(k)'[Len(charges) + 1]
           /\ Total(LetPass(k)') = Total(LetPass(k)) + LetPass(k)'[Len(charges) + 1]
           /\ \A m \in 0..Len(charges) : Sums(CostsOf(k)')[m] = Sums(CostsOf(k))[m]
<1>1. PICK w, v, x, y : w = CostsOf(k) /\ v = CostsOf(k)' /\ x = LetPass(k) /\ y = LetPass(k)'
  OBVIOUS
<1>2. PICK n \in Nat : n = Len(charges)
  BY DEF SpendTypeOK
<1>3. w \in Seq(Nat) /\ Len(w) = n /\ x \in Seq(Nat) /\ Len(x) = n
  BY <1>1, <1>2, CostTypes
<1>4. /\ v \in Seq(Nat) /\ Len(v) = n + 1 /\ y \in Seq(Nat) /\ Len(y) = n + 1
      /\ \A i \in 1..n : v[i] = w[i] /\ y[i] = x[i]
  BY <1>1, <1>2, ChargeExtends
<1>5. Total(v) = Total(w) + v[n + 1] /\ \A m \in 0..n : Sums(v)[m] = Sums(w)[m]
  BY <1>3, <1>4, SumsAppend, SMTT(30)
<1>6. Total(y) = Total(x) + y[n + 1]
  <2>1. /\ x \in Seq(Nat) /\ y \in Seq(Nat) /\ Len(y) = Len(x) + 1 /\ Len(y) = n + 1
        /\ \A i \in 1..Len(x) : y[i] = x[i]
    BY <1>3, <1>4
  <2> QED
    BY <2>1, SumsAppend
<1> QED
  BY <1>1, <1>2, <1>5, <1>6

Added(ch) ==
    spend' = [spend EXCEPT ![ch.key] = (spend[ch.key] + ch.cost) % (MaxMicros + 1)]

\* Below the width of the counter the remainder is the sum itself.
LEMMA BelowWidth ==
    ASSUME NEW a \in Nat, NEW m \in Nat
    PROVE  a % (m + 1) \in Nat /\ (a <= m => a % (m + 1) = a)
OBVIOUS

\* As long as what a session was charged fits, its counter has added exactly that.
LEMMA AddedExactly ==
    ASSUME SpendInv, NEW ch \in Charges, charges' = Append(charges, ch),
           Added(ch), UNCHANGED poisoned, NEW k \in SpendKeys, Counted(k)'
    PROVE  /\ Counted(k)
           /\ spend'[k] = spend[k] + (IF ch.key = k THEN ch.cost ELSE 0)
<1>1. PICK n \in Nat : n = Len(charges)
  BY DEF SpendInv, SpendTypeOK
<1>2. SpendTypeOK /\ MaxMicros \in Nat
  BY SpendAssumption DEF SpendInv
<1>3. PICK c \in Nat : c = (IF ch.key = k THEN ch.cost ELSE 0)
  BY DEF Charges
<1>4. Total(CostsOf(k)') = Total(CostsOf(k)) + c
  <2>1. CostsOf(k)'[n + 1] = c
    BY <1>1, <1>2, <1>3, ChargeExtends
  <2> QED
    BY <1>1, <1>2, <2>1, ChargeSums
<1>5. Total(CostsOf(k)) \in Nat
  <2>1. PICK w : w = CostsOf(k)
    OBVIOUS
  <2>2. w \in Seq(Nat)
    BY <1>2, <2>1, CostTypes
  <2> QED
    BY <2>1, <2>2, SumsType DEF Total
<1>6. Total(CostsOf(k)) + c <= MaxMicros /\ ~poisoned
  BY <1>4 DEF Counted
<1>7. Counted(k)
  BY <1>2, <1>3, <1>5, <1>6 DEF Counted
<1>8. spend[k] = Total(CostsOf(k))
  BY <1>7 DEF SpendInv, ChargedInv
<1>9. CASE ch.key = k
  <2>1. spend'[k] = (spend[k] + c) % (MaxMicros + 1)
    BY <1>2, <1>3, <1>9 DEF Added, SpendTypeOK
  <2>2. PICK a \in Nat : a = spend[k] + c /\ a <= MaxMicros
    BY <1>3, <1>5, <1>6, <1>8
  <2> QED
    BY <1>2, <1>3, <1>7, <2>1, <2>2, BelowWidth
<1>10. CASE ch.key # k
  <2>1. spend'[k] = spend[k] /\ c = 0
    BY <1>2, <1>3, <1>10 DEF Added, SpendTypeOK
  <2> QED
    BY <1>3, <1>5, <1>7, <1>8, <2>1
<1> QED
  BY <1>9, <1>10

\* A charge made while the spend is within the budget keeps the sums in bounds.
LEMMA ChargedKept ==
    ASSUME SpendInv, NEW ch \in Charges, charges' = Append(charges, ch),
           ~OverBudget(spend[ch.key]), Added(ch), UNCHANGED poisoned
    PROVE  ChargedInv'
<1> SUFFICES ASSUME NEW k \in SpendKeys, Counted(k)'
             PROVE  /\ spend'[k] = Total(CostsOf(k)')
                    /\ \A limit \in Budget, i \in 1..Len(charges') :
                         charges'[i].key = k => Sums(CostsOf(k)')[i-1] <= limit
  BY DEF ChargedInv
<1>1. PICK n \in Nat : n = Len(charges)
  BY DEF SpendInv, SpendTypeOK
<1>2. SpendTypeOK
  BY DEF SpendInv
<1>3. /\ Len(charges') = n + 1 /\ charges'[n + 1] = ch
      /\ \A i \in 1..n : charges'[i] = charges[i]
      /\ CostsOf(k)'[n + 1] = IF ch.key = k THEN ch.cost ELSE 0
  BY <1>1, <1>2, ChargeExtends
<1>4. /\ Total(CostsOf(k)') = Total(CostsOf(k)) + CostsOf(k)'[n + 1]
      /\ \A m \in 0..n : Sums(CostsOf(k)')[m] = Sums(CostsOf(k))[m]
  BY <1>1, <1>2, ChargeSums
<1>5. Counted(k) /\ spend[k] = Total(CostsOf(k)) /\ spend[k] \in Nat
  BY AddedExactly DEF SpendInv, ChargedInv, SpendTypeOK
<1>6. spend'[k] = Total(CostsOf(k)')
  <2>1. spend'[k] = spend[k] + CostsOf(k)'[n + 1]
    BY <1>3, AddedExactly
  <2> QED
    BY <1>4, <1>5, <2>1
<1>7. ASSUME NEW limit \in Budget, NEW i \in 1..(n + 1), charges'[i].key = k
      PROVE  Sums(CostsOf(k)')[i-1] <= limit
  <2>1. Sums(CostsOf(k)')[i-1] = Sums(CostsOf(k))[i-1]
    BY <1>4
  <2>2. CASE i \in 1..n
    BY <1>1, <1>3, <1>5, <1>7, <2>1, <2>2 DEF SpendInv, ChargedInv
  <2>3. CASE i = n + 1
    <3>1. ch.key = k /\ limit \in Nat
      BY <1>3, <1>7, <2>3, SpendAssumption
    <3>2. spend[k] <= limit
      BY <1>5, <3>1 DEF OverBudget
    <3>3. Sums(CostsOf(k))[n] = spend[k]
      <4>1. Len(CostsOf(k)) = n
        BY <1>1, <1>2, CostTypes
      <4> QED
        BY <1>5, <4>1 DEF Total
    <3> QED
      BY <2>1, <2>3, <3>2, <3>3
  <2> QED
    BY <2>2, <2>3
<1> QED
  BY <1>3, <1>6, <1>7

\* A charge of a stale request is paid from the reserve; the one that takes the
\* spend over the limit makes the reserve.
LEMMA LetKept ==
    ASSUME SpendInv, NEW p \in Payers, payer[p].pc = "overlay",
           NEW ch \in Charges, charges' = Append(charges, ch),
           ch.key = payer[p].key, ch.cost = payer[p].cost,
           ch.dictum <=> payer[p].seen > PolicyLimit,
           Added(ch), UNCHANGED poisoned,
           payer' = [payer EXCEPT ![p] = NoPayer]
    PROVE  LetInv'
<1> SUFFICES ASSUME NEW k \in SpendKeys, Counted(k)', spend'[k] > PolicyLimit
             PROVE  \E most \in Passed(k)' :
                      Total(LetPass(k)') + Cardinality(Stale(k)') * most
                          <= PolicyLimit + Cardinality(Payers) * most
  BY DEF LetInv
<1>1. PICK n \in Nat : n = Len(charges)
  BY DEF SpendInv, SpendTypeOK
<1>2. /\ SpendTypeOK /\ Counted(k)
      /\ spend'[k] = spend[k] + (IF ch.key = k THEN ch.cost ELSE 0)
  BY AddedExactly DEF SpendInv
<1>3. /\ Len(charges') = n + 1
      /\ \A i \in 1..n : LetPass(k)'[i] = LetPass(k)[i]
      /\ LetPass(k)'[n + 1] = IF ch.key = k /\ ~ch.dictum THEN ch.cost ELSE 0
  BY <1>1, <1>2, ChargeExtends
<1>4. PICK c \in Nat : c = LetPass(k)'[n + 1]
  BY <1>3 DEF Charges
<1>5. c \in Passed(k)' /\ Passed(k) \subseteq Passed(k)'
  BY <1>1, <1>3, <1>4 DEF Passed
<1>6. PICK L \in Nat : L = Total(LetPass(k)) /\ L <= spend[k]
  BY <1>2, LetPassCharged DEF SpendInv, ChargedInv
<1>7. Total(LetPass(k)') = L + c
  BY <1>1, <1>2, <1>4, <1>6, ChargeSums
<1>8. PICK S, R : S = Stale(k) /\ R = Stale(k)'
  OBVIOUS
<1>9. R = S \ {p}
  BY <1>8, PayerDone
<1>10. PICK s \in Nat, C \in Nat : /\ s = Cardinality(S) /\ C = Cardinality(Payers)
                                   /\ s <= C /\ IsFiniteSet(S)
  BY <1>8, StaleCount
<1>11. IsFiniteSet(S \ {p}) /\ Cardinality(S \ {p}) = IF p \in S THEN s - 1 ELSE s
  BY <1>10, FS_RemoveElement
<1>12. PICK r \in Nat : r = Cardinality(R)
  BY <1>9, <1>11, FS_CardinalityType
<1>13. spend[k] \in Nat /\ PolicyLimit \in Nat /\ Passed(k) \in SUBSET Nat
  <2>1. \A i \in 1..Len(charges) : LetPass(k)[i] \in Nat
    BY <1>2, CostTypes
  <2>2. Passed(k) \in SUBSET Nat
    BY <2>1 DEF Passed
  <2> QED
    BY <1>2, <2>2, SpendAssumption DEF SpendTypeOK
<1>14. \A most : most \in Passed(k)' /\ L + c + r * most <= PolicyLimit + C * most
            => \E m \in Passed(k)' :
                 Total(LetPass(k)') + Cardinality(Stale(k)') * m
                     <= PolicyLimit + Cardinality(Payers) * m
  BY <1>7, <1>8, <1>10, <1>12
<1>15. payer[p].seen \in Nat /\ (ch.key = k => payer[p].seen <= spend[k])
  BY <1>2 DEF SpendInv, SpendTypeOK, SeenInv
<1>16. p \in S <=> ch.key = k /\ ~ch.dictum
  <2>1. ~(payer[p].seen > PolicyLimit) <=> payer[p].seen <= PolicyLimit
    BY <1>13, <1>15
  <2> QED
    BY <1>8, <2>1 DEF Stale
<1>17. p \notin S => c = 0 /\ r = s
  BY <1>3, <1>4, <1>9, <1>11, <1>12, <1>16
<1>18. p \in S => r = s - 1 /\ 1 <= s
  BY <1>9, <1>10, <1>11, <1>12
<1>19. CASE spend[k] > PolicyLimit
  <2>1. PICK m \in Passed(k) : L + s * m <= PolicyLimit + C * m
    BY <1>2, <1>6, <1>8, <1>10, <1>19 DEF SpendInv, LetInv
  <2>2. m \in Nat
    BY <1>13
  <2>3. CASE p \notin S
    <3>1. c = 0 /\ r = s
      BY <1>17, <2>3
    <3>2. L + c + r * m <= PolicyLimit + C * m
      BY <2>1, <3>1
    <3> QED
      BY <1>5, <1>14, <3>2
  <2>4. CASE p \in S /\ c <= m
    <3>1. 1 <= s /\ s <= C /\ r = s - 1 /\ c <= m /\ PolicyLimit \in Nat
      BY <1>10, <1>13, <1>18, <2>4
    <3>2. L + c + (s - 1) * m <= PolicyLimit + C * m
      BY <2>1, <2>2, <3>1, ReservePays
    <3> QED
      BY <1>5, <1>14, <3>1, <3>2
  <2>5. CASE p \in S /\ m <= c
    <3>1. 1 <= s /\ s <= C /\ r = s - 1 /\ m <= c /\ PolicyLimit \in Nat
          /\ c <= c /\ c \in Nat
      BY <1>10, <1>13, <1>18, <2>5
    <3>2. L + c + (s - 1) * c <= PolicyLimit + C * c
      BY <2>1, <2>2, <3>1, ReservePays
    <3> QED
      BY <1>5, <1>14, <3>1, <3>2
  <2> QED
    BY <2>2, <2>3, <2>4, <2>5
<1>20. CASE spend[k] <= PolicyLimit
  <2>1. ch.key = k
    BY <1>2, <1>13, <1>20
  <2>2. p \in S
    BY <1>13, <1>15, <1>16, <1>20, <2>1
  <2>3. L + c + r * c <= PolicyLimit + C * c
    <3>1. r + 1 <= C /\ L <= PolicyLimit
      BY <1>6, <1>10, <1>13, <1>18, <1>20, <2>2
    <3> QED
      BY <1>13, <3>1, FirstReserve
  <2> QED
    BY <1>5, <1>14, <2>3
<1> QED
  BY <1>13, <1>19, <1>20

\* A request within the budget is charged under the lock that read the spend.
LEMMA ChargedStep ==
    ASSUME SpendInv, NEW p \in Payers, CheckAndAdd(p), AddMicros(p)
    PROVE  SpendInv'
<1>1. payer[p].pc = "overlay" /\ payer' = [payer EXCEPT ![p] = NoPayer]
  BY DEF CheckAndAdd, Finish
<1>2. PICK ch \in Charges : /\ ch.key = payer[p].key /\ ch.cost = payer[p].cost
                            /\ (ch.dictum <=> payer[p].seen > PolicyLimit)
                            /\ charges' = Append(charges, ch)
  BY <1>1, PassedCharge DEF AddMicros
<1>3. /\ ~OverBudget(spend[ch.key]) /\ UNCHANGED poisoned
      /\ Added(ch)
  BY <1>2 DEF AddMicros, Overspent, NewSpend, Added
<1>4. ch.key \in SpendKeys /\ ch.cost \in Nat /\ MaxMicros \in Nat
  BY SpendAssumption DEF Charges
<1>5. spend' \in [SpendKeys -> Nat]
  <2>1. PICK a \in Nat : a = spend[ch.key] + ch.cost
    BY <1>4 DEF SpendInv, SpendTypeOK
  <2>2. a % (MaxMicros + 1) \in Nat
    BY <1>4, <2>1, BelowWidth
  <2> QED
    BY <1>3, <1>4, <2>1, <2>2 DEF Added, SpendInv, SpendTypeOK
<1>6. SpendTypeOK'
  <2>1. charges' \in Seq(Charges)
    BY <1>2 DEF SpendInv, SpendTypeOK
  <2> QED
    BY <1>1, <1>5, <2>1, PayerDone DEF SpendInv, SpendTypeOK
<1>7. SeenInv'
  <2> SUFFICES ASSUME NEW x \in Payers, NEW k \in SpendKeys,
                      payer'[x].pc = "overlay", payer'[x].key = k, Counted(k)'
               PROVE  payer'[x].seen <= spend'[k]
    BY DEF SeenInv
  <2>1. x # p /\ payer'[x] = payer[x]
    BY <1>1, PayerDone
  <2>2. Counted(k) /\ spend'[k] = spend[k] + (IF ch.key = k THEN ch.cost ELSE 0)
    BY <1>2, <1>3, AddedExactly
  <2>3. /\ payer[x].seen \in Nat /\ payer[x].seen <= spend[k] /\ spend[k] \in Nat
    BY <2>1, <2>2 DEF SpendInv, SpendTypeOK, SeenInv
  <2> QED
    BY <1>4, <2>1, <2>2, <2>3
<1>8. ChargedInv'
  BY <1>2, <1>3, ChargedKept
<1>9. LetInv'
  BY <1>1, <1>2, <1>3, LetKept
<1> QED
  BY <1>6, <1>7, <1>8, <1>9 DEF SpendInv

\* Every step keeps the invariant.
LEMMA SpendStep == SpendInv /\ [SpendNext]_spendVars => SpendInv'
<1> SUFFICES ASSUME SpendInv, [SpendNext]_spendVars PROVE SpendInv'
  OBVIOUS
<1>1. CASE UNCHANGED spendVars
  <2>1. UNCHANGED <<spend, poisoned, payer, charges>>
    BY <1>1 DEF spendVars
  <2>2. \A k : Stale(k)' = Stale(k)
    BY <2>1 DEF Stale
  <2>3. /\ ChargedInv' /\ \A k : LetPass(k)' = LetPass(k) /\ Passed(k)' = Passed(k)
        /\ \A k : Counted(k)' <=> Counted(k)
    BY <2>1, SameCharges
  <2>4. LetInv'
    BY <2>1, <2>2, <2>3 DEF LetInv, SpendInv
  <2> QED
    BY <2>1, <2>3, <2>4 DEF SpendInv, SpendTypeOK, SeenInv
<1>2. ASSUME NEW p \in Payers, NEW k \in SpendKeys, NEW rep \in Reports, ReadSpend(p, k, rep)
      PROVE  SpendInv'
  BY <1>2, ReadSpendStep
<1>3. ASSUME NEW p \in Payers, CheckAndAdd(p) PROVE SpendInv'
  BY <1>3, RefusedStep, ChargedStep, PoisonedStep DEF CheckAndAdd
<1> QED
  BY <1>1, <1>2, <1>3 DEF SpendNext

\* The invariant holds in every reachable state.
THEOREM SpendInvariance == SpendSpec => []SpendInv
BY SpendInitInv, SpendStep, PTL DEF SpendSpec

\* For any number of sessions and requests under way, any budget, any costs and
\* any width of the counter, as long as the counter holds what was charged:
\* a session overshoots its budget by at most the request that crossed it, and a
\* Dictum policy that sees an older spend lets pass at most its limit plus the
\* dearest request for every request that can be under way.
THEOREM SpendBounded == SpendSpec => []BudgetBound
<1>1. SpendInv => BudgetBound
  <2> SUFFICES ASSUME SpendInv, NEW k \in SpendKeys, Counted(k)
               PROVE  \E most \in Passed(k) :
                        Total(LetPass(k)) <= PolicyLimit + Cardinality(Payers) * most
    BY DEF BudgetBound, SpendInv, ChargedInv, Passed
  <2>1. PICK L \in Nat, C \in Nat, s \in Nat :
          /\ L = Total(LetPass(k)) /\ L <= spend[k]
          /\ C = Cardinality(Payers) /\ s = Cardinality(Stale(k))
    BY LetPassCharged, StaleCount DEF SpendInv, ChargedInv
  <2>2. spend[k] \in Nat /\ PolicyLimit \in Nat
    BY SpendAssumption DEF SpendInv, SpendTypeOK
  <2>3. CASE spend[k] > PolicyLimit
    <3>1. PICK m \in Passed(k) : L + s * m <= PolicyLimit + C * m
      BY <2>1, <2>3 DEF SpendInv, LetInv
    <3>2. m \in Nat
      <4>1. \A i \in 1..Len(charges) : LetPass(k)[i] \in Nat
        BY CostTypes DEF SpendInv
      <4> QED
        BY <4>1 DEF Passed
    <3>3. s * m \in Nat /\ C * m \in Nat
      BY <3>2
    <3>4. L <= PolicyLimit + C * m
      BY <2>2, <3>1, <3>3
    <3> QED
      BY <2>1, <3>4
  <2>4. CASE spend[k] <= PolicyLimit
    <3>1. 0 \in Passed(k) /\ L <= PolicyLimit + C * 0
      BY <2>1, <2>2, <2>4 DEF Passed
    <3> QED
      BY <2>1, <3>1
  <2> QED
    BY <2>2, <2>3, <2>4
<1> QED
  BY <1>1, SpendInvariance, PTL
=============================================================================
