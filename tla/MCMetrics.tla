------------------------------ MODULE MCMetrics -----------------------------
\* Metrics for TLC: two groups share a domain.
EXTENDS Metrics

MCDomain == [g \in Groups |-> IF g = "gc" THEN 2 ELSE 1]
=============================================================================
