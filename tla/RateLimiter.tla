----------------------------- MODULE RateLimiter -----------------------------
(***************************************************************************)
(* The sliding-window limiter every inspected call passes                  *)
(* (modules/rate_limit/limiter.rs), its configuration handlers and the     *)
(* cleanup task.  The instant of a call is taken before the lock on the    *)
(* windows is waited for, so instants reach the vector out of order and a  *)
(* later caller may prune what an earlier one still has to count.          *)
(* Time is in seconds; Burst, Minute and Hour stand for 5, 60 and 3600.    *)
(* Nothing looks at the order of the vector, so it is a set of stamps, and  *)
(* the number of the call tells equal instants apart.                      *)
(***************************************************************************)
EXTENDS Integers, Sequences, FiniteSets

CONSTANTS
    LimKeys,       \* agent_id:tool_name
    LimCallers,    \* concurrent requests
    Burst, Minute, Hour,
    Configs,       \* configurations an admin may set: [burst, minute, hour]
    DefaultConfig, \* RateLimitConfig::default
    MaxWait,       \* longest wait for the lock, in seconds
    MaxLimClock    \* bound on the clock

ASSUME LimAssumption ==
    /\ Burst \in Nat /\ Minute \in Nat /\ Hour \in Nat
    /\ Burst <= Minute /\ Minute + MaxWait <= Hour
    /\ DefaultConfig \in Configs
    /\ Configs \subseteq [burst : Nat, minute : Nat, hour : Nat]
    /\ MaxWait \in Nat /\ MaxLimClock \in Nat

VARIABLES
    windows,    \* key -> stamps [at, n] of the calls let through
    limConfig,  \* the configuration in memory
    savedConfig,\* rate_limit_config row: {} or {config}
    saving,     \* configurations being saved
    limCall,    \* the call of every caller
    limClock,
    passed      \* calls let through, in order: [key, at, config] (ghost)

limVars == <<windows, limConfig, savedConfig, saving, limCall, limClock, passed>>

NoCall == [pc |-> "idle"]

LimInit ==
    /\ windows = <<>> /\ passed = <<>> /\ limClock = 0
    /\ limConfig = DefaultConfig /\ savedConfig = {} /\ saving = {}
    /\ limCall = [c \in LimCallers |-> NoCall]

\* within_window: from `now - w` on, also instants after `now`.
Within(now, w, t) == t >= now - w

Stamps(k) == IF k \in DOMAIN windows THEN windows[k] ELSE {}
Keep(s, now) == {t \in s : Within(now, Hour, t.at)}
Count(s, now, w) == Cardinality({t \in s : Within(now, w, t.at)})

\* Mutant: a call that exceeds the limit by one passes.
LimitHitLate(s, now, cfg) ==
    IF Count(s, now, Burst) > cfg.burst THEN "burst"
    ELSE IF Count(s, now, Minute) > cfg.minute THEN "minute"
    ELSE IF Count(s, now, Hour) > cfg.hour THEN "hour" ELSE "none"

\* The first limit that is reached, in the order they are tried; "none" lets
\* the call through.
LimitHit(s, now, cfg) ==
    IF Count(s, now, Burst) >= cfg.burst THEN "burst"
    ELSE IF Count(s, now, Minute) >= cfg.minute THEN "minute"
    ELSE IF Count(s, now, Hour) >= cfg.hour THEN "hour" ELSE "none"

-----------------------------------------------------------------------------
\* check_rate begins: the configuration and the instant are taken.
CheckBegin(c, k) ==
    /\ limCall[c].pc = "idle"
    /\ limCall' = [limCall EXCEPT ![c] =
           [pc |-> "wait", key |-> k, at |-> limClock, config |-> limConfig]]
    /\ UNCHANGED <<windows, limConfig, savedConfig, saving, limClock, passed>>

\* ... and under the lock: prune, count, and push only if let through.
CheckRate(c) ==
    /\ limCall[c].pc = "wait"
    /\ LET q == limCall[c]
           kept == Keep(Stamps(q.key), q.at)
           ok == LimitHit(kept, q.at, q.config) = "none"
           new == IF ok THEN kept \cup {[at |-> q.at, n |-> Len(passed) + 1]} ELSE kept
       IN /\ windows' = [j \in DOMAIN windows \cup {q.key} |->
                            IF j = q.key THEN new ELSE windows[j]]
          /\ passed' = IF ok THEN Append(passed, [key |-> q.key, at |-> q.at,
                                                  config |-> q.config])
                       ELSE passed
    /\ limCall' = [limCall EXCEPT ![c] = NoCall]
    /\ UNCHANGED <<limConfig, savedConfig, saving, limClock>>

\* cleanup: instants older than an hour go, and so do empty keys.
Cleanup ==
    /\ LET kept == [k \in DOMAIN windows |-> Keep(windows[k], limClock)]
       IN windows' = [k \in {j \in DOMAIN windows : kept[j] # {}} |-> kept[k]]
    /\ windows' # windows
    /\ UNCHANGED <<limConfig, savedConfig, saving, limCall, limClock, passed>>

\* update_rate_limit_config_handler: memory, then the row, best effort; the
\* saves of two updates may land in either order.
UpdateConfig(cfg) ==
    /\ cfg # limConfig
    /\ limConfig' = cfg
    /\ saving' = saving \cup {cfg}
    /\ UNCHANGED <<windows, savedConfig, limCall, limClock, passed>>

SaveConfig(cfg) ==
    /\ cfg \in saving
    /\ saving' = saving \ {cfg}
    /\ savedConfig' \in {savedConfig, {cfg}}
    /\ UNCHANGED <<windows, limConfig, limCall, limClock, passed>>

\* A restart: windows are in memory only; the saved configuration is loaded.
LimRestart ==
    /\ passed # <<>>
    /\ windows' = <<>> /\ passed' = <<>> /\ saving' = {}
    /\ limCall' = [c \in LimCallers |-> NoCall]
    /\ limConfig' \in savedConfig \cup
                        (IF savedConfig = {} THEN {DefaultConfig} ELSE {})
    /\ UNCHANGED <<savedConfig, limClock>>

LimTick ==
    /\ limClock < MaxLimClock
    /\ \A c \in LimCallers : limCall[c].pc = "wait" =>
                                limClock - limCall[c].at < MaxWait
    /\ limClock' = limClock + 1
    /\ UNCHANGED <<windows, limConfig, savedConfig, saving, limCall, passed>>

LimNext ==
    \/ \E c \in LimCallers : (\E k \in LimKeys : CheckBegin(c, k)) \/ CheckRate(c)
    \/ Cleanup
    \/ \E cfg \in Configs : UpdateConfig(cfg) \/ SaveConfig(cfg)
    \/ LimRestart
    \/ LimTick

LimSpec == LimInit /\ [][LimNext]_limVars

-----------------------------------------------------------------------------
(* Properties.                                                             *)

\* The calls let through before i, and i, that fall in the w before i.
Recent(i, w) == {j \in 1..i : /\ passed[j].key = passed[i].key
                              /\ passed[j].at >= passed[i].at - w}

\* When a call is let through, no more calls than its limit lie in the window
\* before it, for each of the three windows: one vector serves all three,
\* instants arrive out of order, and a concurrent prune or cleanup may run
\* ahead.  Only the hour, which is also the age at which instants are pruned,
\* can come out short, by the time a caller may wait for the lock.
WindowBound ==
    \A i \in 1..Len(passed) :
        /\ Cardinality(Recent(i, Burst)) <= passed[i].config.burst
        /\ Cardinality(Recent(i, Minute)) <= passed[i].config.minute
        /\ Cardinality(Recent(i, Hour - MaxWait)) <= passed[i].config.hour
==============================================================================
