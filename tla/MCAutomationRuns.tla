-------------------------- MODULE MCAutomationRuns --------------------------
EXTENDS AutomationRuns, TLC

CONSTANTS j1, j2, r1, r2, s1, s2, e1, e2

\* A single run, let in by a Composio webhook.
Job1 == r1 :> j1
Session1 == r1 :> s1
Trigger1 == r1 :> "composio"

\* Two runs of one job that deliver to one session.
OneJob == (r1 :> j1) @@ (r2 :> j1)
OneSession == (r1 :> s1) @@ (r2 :> s1)
ScheduledAndManual == (r1 :> "scheduled") @@ (r2 :> "manual")
ScheduledAndComposio == (r1 :> "scheduled") @@ (r2 :> "composio")

ExecutorSymmetry == Permutations({e1, e2})
=============================================================================
