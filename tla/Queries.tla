------------------------------ MODULE Queries -------------------------------
(***************************************************************************)
(* The queries of package storage over the connections recorded so far and *)
(* the blocked fingerprints. A connection is known by its id, which grows  *)
(* with its timestamp; lists hold ids, newest first. A summary stands for  *)
(* all connections of one fingerprint and one banner.                      *)
(*                                                                         *)
(* A search is for a whole value. That of an address is its text, while    *)
(* the column it is compared with holds the bytes of the address.          *)
(***************************************************************************)
EXTENDS Naturals, Sequences, FiniteSets, SequencesExt

CONSTANT Limit  \* --limit, 0 for no limit

ASSUME LimitAssumption == Limit \in Nat

Filters == <<"all", "allowed", "blocked">>
Passes(filter, isBlocked) == filter = "all" \/ (isBlocked <=> filter = "blocked")

\* The lists that --sort and --reverse may give, for rows numbered by age. Rows that an
\* order other than that of time leaves equal may come in any order: all are allowed.
Ordered(ids, byTime, reverse) ==
  LET shown == IF Limit = 0 \/ Cardinality(ids) <= Limit THEN Cardinality(ids) ELSE Limit
      age(i) == IF reverse THEN i ELSE 0 - i
  IN  {rows \in [1..shown -> ids] :
         /\ IsInjective(rows)
         /\ byTime => \A n \in 1..shown : \A i \in ids :
              age(i) > age(rows[n]) => \E m \in 1..(n - 1) : rows[m] = i}

\* ORDER BY timestamp DESC LIMIT ?
Newest(ids) == CHOOSE rows \in Ordered(ids, TRUE, TRUE) : TRUE

ListConnections(log, filter) ==
  Newest({i \in DOMAIN log : Passes(filter, log[i].blocked)})

SameGroup(c, d) == c.fp = d.fp /\ c.banner = d.banner

\* GROUP BY fingerprint and banner, each group under its latest connection.
Latest(log, ids) ==
  {i \in ids : \A j \in ids : SameGroup(log[i], log[j]) => j <= i}

\* Fault: a group is blocked if its latest connection was.
SummaryOfVerdict(log, blockedSet, i) ==
  [fp |-> log[i].fp, banner |-> log[i].banner, blocked |-> log[i].blocked]

\* Blocked now, whatever the verdict on the connections was.
Summary(log, blockedSet, i) ==
  [fp |-> log[i].fp, banner |-> log[i].banner, blocked |-> log[i].fp \in blockedSet]

Summaries(log, blockedSet, ids) ==
  LET latest == Newest(ids)
  IN  [n \in 1..Len(latest) |-> Summary(log, blockedSet, latest[n])]

ListHASSHSummaries(log, blockedSet, filter) ==
  Summaries(log, blockedSet,
            {i \in Latest(log, DOMAIN log) : Passes(filter, log[i].fp \in blockedSet)})

\* LIKE '%...%'.
Like(bytes, text) ==
  \E n \in 0..Len(bytes) : n + Len(text) <= Len(bytes) /\ SubSeq(bytes, n + 1, n + Len(text)) = text

Matches(c, field, value) ==
  CASE field = "ip" -> Like(c.ip.bytes, value.ip.text)
    [] field = "hassh" -> c.fp = value.fp
    [] field = "banner" -> c.banner = value.banner

Found(log, field, value) == {i \in DOMAIN log : Matches(log[i], field, value)}

SearchConnections(log, field, value) == Newest(Found(log, field, value))

SearchHASSHSummaries(log, blockedSet, field, value) ==
  Summaries(log, blockedSet, Latest(log, Found(log, field, value)))
=============================================================================
