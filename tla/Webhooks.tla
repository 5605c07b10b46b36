------------------------------ MODULE Webhooks ------------------------------
(***************************************************************************)
(* The event bus and webhook delivery: a broadcast channel of bounded      *)
(* capacity, one worker, one retrying task per event and hook, and the     *)
(* bounded dead letter queue with its admin operations                     *)
(* (events/bus.rs, events/webhooks.rs, the webhook handlers).              *)
(***************************************************************************)
EXTENDS Naturals, Sequences, FiniteSets, SequencesExt

CONSTANTS
    Hooks,       \* webhook ids
    HookEvents,  \* events, published once each
    BusCapacity, \* EventBus::new(1024)
    MaxRetries,  \* 3 retries after the first attempt
    DlqCapacity  \* 1000

ASSUME HookAssumption ==
    /\ BusCapacity \in Nat \ {0} /\ DlqCapacity \in Nat \ {0}
    /\ MaxRetries \in Nat

VARIABLES
    hooks,      \* WebhookManager.hooks
    published,  \* events ever published (ghost)
    busQueue,   \* events the worker has not received yet
    tasks,      \* delivery tasks: [ev, hook, attempt]
    dlq,        \* dead letters: [ev, hook]
    retrying,   \* admin retries under way: [ev, hook]
    fate        \* what became of <<ev, hook>> pairs: a set of causes (ghost)

hookVars == <<hooks, published, busQueue, tasks, dlq, retrying, fate>>

Pairs == HookEvents \X Hooks
HookInit ==
    /\ hooks = {} /\ published = {} /\ busQueue = <<>> /\ tasks = {}
    /\ dlq = <<>> /\ retrying = {}
    /\ fate = [p \in Pairs |-> {}]

Pair(t) == <<t.ev, t.hook>>
Mark(P, cause) == fate' = [p \in Pairs |-> IF p \in P THEN fate[p] \cup {cause}
                                           ELSE fate[p]]

-----------------------------------------------------------------------------
\* register and unregister: a task already spawned keeps its copy of the hook.
RegisterHook(h) ==
    /\ h \notin hooks
    /\ hooks' = hooks \cup {h}
    /\ UNCHANGED <<published, busQueue, tasks, dlq, retrying, fate>>

UnregisterHook(h) ==
    /\ h \in hooks
    /\ hooks' = hooks \ {h}
    /\ UNCHANGED <<published, busQueue, tasks, dlq, retrying, fate>>

\* EventBus::publish never waits: at capacity the oldest event is overwritten
\* and the worker sees RecvError::Lagged.
Publish(e) ==
    /\ e \notin published
    /\ published' = published \cup {e}
    /\ LET full == Len(busQueue) >= BusCapacity
       IN /\ busQueue' = Append(IF full THEN Tail(busQueue) ELSE busQueue, e)
          /\ IF full THEN Mark({Head(busQueue)} \X Hooks, "lagged")
             ELSE UNCHANGED fate
    /\ UNCHANGED <<hooks, tasks, dlq, retrying>>

\* deliver: one task for every hook registered now (an event a filter keeps
\* from a hook is as if the hook were not registered).
Deliver ==
    /\ busQueue # <<>>
    /\ busQueue' = Tail(busQueue)
    /\ \E wants \in SUBSET hooks :
         /\ tasks' = tasks \cup {[ev |-> Head(busQueue), hook |-> h, attempt |-> 0]
                                   : h \in wants}
         /\ Mark({Head(busQueue)} \X (Hooks \ wants), "notWanted")
    /\ UNCHANGED <<hooks, published, dlq, retrying>>

\* One attempt: delivered, or tried again after a back-off.
AttemptOk(t) ==
    /\ t \in tasks
    /\ tasks' = tasks \ {t}
    /\ Mark({Pair(t)}, "delivered")
    /\ UNCHANGED <<hooks, published, busQueue, dlq, retrying>>

\* Mutant: the count of attempts starts over.
RetryForever(t) ==
    /\ t \in tasks
    /\ tasks' = (tasks \ {t})
                 \cup {[t EXCEPT !.attempt = (@ + 1) % (MaxRetries + 1)]}
    /\ UNCHANGED <<hooks, published, busQueue, dlq, retrying, fate>>

AttemptFails(t) ==
    /\ t \in tasks /\ t.attempt < MaxRetries
    /\ tasks' = (tasks \ {t}) \cup {[t EXCEPT !.attempt = @ + 1]}
    /\ UNCHANGED <<hooks, published, busQueue, dlq, retrying, fate>>

\* DeadLetterQueue::push: at capacity the oldest entry is dropped.
Overflow == Len(dlq) >= DlqCapacity
\* Mutant: a full queue drops the new entry without a trace.
PushDlqIfRoom(entry) == IF Overflow THEN dlq ELSE Append(dlq, entry)

PushDlq(entry) == Append(IF Overflow THEN Tail(dlq) ELSE dlq, entry)

\* The last attempt fails: the event is a dead letter.
Exhausted(t) ==
    /\ t \in tasks /\ t.attempt = MaxRetries
    /\ tasks' = tasks \ {t}
    /\ dlq' = PushDlq([ev |-> t.ev, hook |-> t.hook])
    /\ IF Overflow THEN Mark({Pair(Head(dlq))}, "overflow") ELSE UNCHANGED fate
    /\ UNCHANGED <<hooks, published, busQueue, retrying>>

DropAt(i) == [j \in 1..(Len(dlq) - 1) |-> IF j < i THEN dlq[j] ELSE dlq[j + 1]]

\* retry_dlq_entry takes the entry out first; an entry whose hook is gone is
\* answered with an error and is not put back.
RetryDlq(i) ==
    /\ i \in 1..Len(dlq)
    /\ dlq' = DropAt(i)
    /\ IF dlq[i].hook \in hooks
       THEN retrying' = retrying \cup {dlq[i]} /\ UNCHANGED fate
       ELSE Mark({Pair(dlq[i])}, "retryRefused") /\ UNCHANGED retrying
    /\ UNCHANGED <<hooks, published, busQueue, tasks>>

\* The one attempt of a retry.  When it fails the entry is gone too.
RetryEnds(r, ok) ==
    /\ r \in retrying
    /\ retrying' = retrying \ {r}
    /\ Mark({Pair(r)}, IF ok THEN "delivered" ELSE "retryFailed")
    /\ UNCHANGED <<hooks, published, busQueue, tasks, dlq>>

DeleteDlq(i) ==
    /\ i \in 1..Len(dlq)
    /\ dlq' = DropAt(i)
    /\ Mark({Pair(dlq[i])}, "deleted")
    /\ UNCHANGED <<hooks, published, busQueue, tasks, retrying>>

HookNext ==
    \/ \E h \in Hooks : RegisterHook(h) \/ UnregisterHook(h)
    \/ \E e \in HookEvents : Publish(e)
    \/ Deliver
    \/ \E t \in tasks : AttemptOk(t) \/ AttemptFails(t) \/ Exhausted(t)
    \/ \E i \in 1..Len(dlq) : RetryDlq(i) \/ DeleteDlq(i)
    \/ \E r \in retrying, ok \in BOOLEAN : RetryEnds(r, ok)

\* The worker receives, and some task goes on while there is one.
Attempt == \E t \in tasks : AttemptOk(t) \/ AttemptFails(t) \/ Exhausted(t)
HookFair == WF_hookVars(Deliver) /\ WF_hookVars(Attempt)
HookSpec == HookInit /\ [][HookNext]_hookVars /\ HookFair

-----------------------------------------------------------------------------
(* Properties.                                                             *)

OnBus(p) == \E i \in 1..Len(busQueue) : busQueue[i] = p[1]
InTask(p) == \E t \in tasks : Pair(t) = p
InDlq(p) == \E i \in 1..Len(dlq) : Pair(dlq[i]) = p
InRetry(p) == \E r \in retrying : Pair(r) = p
Ended(p) == fate[p] # {}

\* The places where a pair is.
Places(p) == {x \in {"bus", "task", "dlq", "retry", "end"} :
                 \/ x = "bus" /\ OnBus(p)
                 \/ x = "task" /\ InTask(p)
                 \/ x = "dlq" /\ InDlq(p)
                 \/ x = "retry" /\ InRetry(p)
                 \/ x = "end" /\ Ended(p)}

\* A published event is, for every hook, in exactly one place: on the bus, in
\* one task, in the dead letter queue, in one retry, or at one recorded end.
\* It is never delivered twice by the server and never gone without a cause.
Accounted ==
    \A p \in Pairs : p[1] \in published =>
        Cardinality(fate[p]) <= 1 /\ Cardinality(Places(p)) = 1

\* Every published event leaves the bus and its tasks: it is delivered, a dead
\* letter, or at a recorded end.
Settles == \A p \in Pairs :
    p[1] \in published ~> (InDlq(p) \/ InRetry(p) \/ Ended(p))
=============================================================================
