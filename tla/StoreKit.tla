------------------------------ MODULE StoreKit ------------------------------
(***************************************************************************)
(* What the two storage backends share: the few SQL forms their statements  *)
(* are made of, and the dialect-free half of storage/mod.rs.                *)
(*                                                                         *)
(* A table is a function from primary keys to rows; a row is a record of    *)
(* typed columns [type, v].  A statement is [tbl, reply].  Instants are     *)
(* numbers, TicksPerSec to the second.                                     *)
(***************************************************************************)
EXTENDS Integers, Sequences, FiniteSetsExt

CONSTANTS
    TicksPerSec,  \* resolution of a stored instant within a second
    SecsPerHour,
    HoursPerDay,
    MaxExport,    \* MAX_AUDIT_EXPORT_ROWS
    TopTools,     \* TOP_TOOLS
    TopStats,     \* LIMIT 10 of the audit statistics
    NoValue,      \* NULL, None
    Refused       \* InvalidRequest, or a statement the database refuses

ASSUME StoreKitAssumption ==
    /\ {TicksPerSec, SecsPerHour, HoursPerDay, MaxExport, TopTools, TopStats}
          \subseteq Nat \ {0}

Col(type, v) == [type |-> type, v |-> v]

\* sqlx try_get(..).unwrap_or(dflt): the column decodes only as its own types.
TryGet(col, types, dflt) == IF col.type \in types THEN col.v ELSE dflt

Done(tbl, reply) == [tbl |-> tbl, reply |-> reply]
Update(tbl, k, row) == [j \in DOMAIN tbl \cup {k} |->
                           IF j = k THEN row ELSE tbl[j]]
Insert(tbl, k, row) == IF k \in DOMAIN tbl THEN Done(tbl, "conflict")
                       ELSE Done(Update(tbl, k, row), "ok")
\* INSERT ... ON CONFLICT DO UPDATE SET every column but `keep`.
Upsert(tbl, k, row, keep) ==
    Done(Update(tbl, k, IF k \notin DOMAIN tbl THEN row
                        ELSE [c \in DOMAIN row |-> IF c \in keep THEN tbl[k][c]
                                                   ELSE row[c]]), "ok")
\* DELETE ... WHERE, with the number of rows affected.
DeleteWhere(tbl, P(_)) ==
    LET gone == {k \in DOMAIN tbl : P(tbl[k])}
    IN Done([k \in DOMAIN tbl \ gone |-> tbl[k]], Cardinality(gone))
DeleteKey(tbl, k) == Done([j \in DOMAIN tbl \ {k} |-> tbl[j]], "ok")

\* ORDER BY, for an order without ties on S: the i-th element is the one with
\* i - 1 elements before it.
Sorted(S, before) ==
    [i \in 1..Cardinality(S) |->
        CHOOSE x \in S : Cardinality({y \in S : <<y, x>> \in before}) = i - 1]
OrderBy(S, Before(_, _)) == Sorted(S, {p \in S \X S : Before(p[1], p[2])})
Limit(s, n) == SubSeq(s, 1, IF Len(s) < n THEN Len(s) ELSE n)
Each(s, F(_)) == [i \in 1..Len(s) |-> F(s[i])]

\* SELECT, of the rows with these keys: what is shown of each, in an order of
\* their columns.
Listing(keys, before, shown) ==
    LET s == Sorted(keys, before) IN [i \in 1..Len(s) |-> shown[s[i]]]
Select(tbl, keys, Before(_, _), Into(_)) ==
    Listing(keys, {p \in keys \X keys : Before(tbl[p[1]], tbl[p[2]])},
           [k \in keys |-> Into(tbl[k])])

\* SUM and GROUP BY, of the rows with these keys.
SumOf(f) == FoldSet(LAMBDA x, acc : f[x] + acc, 0, DOMAIN f)
Sum(tbl, keys, F(_)) == SumOf([k \in keys |-> F(tbl[k])])
Groups(tbl, keys, Of(_)) == {Of(tbl[k]) : k \in keys}
Group(tbl, keys, Of(_), g) == {k \in keys : Of(tbl[k]) = g}

Sec(t) == t \div TicksPerSec
HourStart(t) == (Sec(t) \div SecsPerHour) * SecsPerHour
DayLen == SecsPerHour * HoursPerDay
DayStart(t) == (Sec(t) \div DayLen) * DayLen
\* The text of an instant cut to its second; a time that is read back as text is
\* [at, digits].
WholeSecond(t) == [at |-> Sec(t) * TicksPerSec, digits |-> 0]

-----------------------------------------------------------------------------
\* normalize_audit_boundary: no bound, an instant written with some offset, a
\* bare date (its last second when it closes the range), or an error.  The key
\* is in whole seconds of UTC.
Boundary(raw, end_of_day) ==
    CASE raw.kind = "none" -> NoValue
      [] raw.kind = "instant" -> Sec(raw.local - raw.offset)
      [] raw.kind = "date" -> IF end_of_day THEN (raw.day + 1) * DayLen - 1
                              ELSE raw.day * DayLen
      [] raw.kind = "garbage" -> Refused
InRange(sec, from, to) == (from = NoValue \/ sec >= from)
                          /\ (to = NoValue \/ sec <= to)

\* fold_agent_analytics: the grouped rows joined per agent, the tools cut to
\* the first TOP_TOOLS by count, then by name.
FoldAgentAnalytics(totals, decisions, tools) ==
    LET ofAgent(rows, a) == {<<r[2], r[3]>> : r \in {x \in rows : x[1] = a}}
        ranked(a) == OrderBy(ofAgent(tools, a), LAMBDA x, y :
                         x[2] > y[2] \/ (x[2] = y[2] /\ x[1] < y[1]))
    IN Each(totals, LAMBDA t : [agent |-> t[1], total |-> t[2], risk |-> t[3],
                                last |-> t[4],
                                decisions |-> ofAgent(decisions, t[1]),
                                top |-> Limit(ranked(t[1]), TopTools)])
=============================================================================
