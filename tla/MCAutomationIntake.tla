------------------------- MODULE MCAutomationIntake -------------------------
EXTENDS AutomationIntake, TLC

CONSTANTS d1, d2, d3, d4, d5, d6, d7, d8, hook, trigger, inbox, i1, i2, i3, k1, k2, p1, p2

\* Three deliveries at a custom webhook, the first with an eventId, the second
\* with the same eventId and another key, the third with that other key alone
\* (the first and the third share none, and both may run); the last two beside
\* an event without keys, at the same job; a Composio event and the report that its trigger was
\* disabled, one of them repeated; one message under two polls; two under one.
MCScenarios ==
  {{d1, d2, d3}, {d2, d3, d4}, {d5, d6, d7}, {d5, d7, d8},
   {1, p1, p2}, {1, 2, p1}}

MCDeliveries == {d1, d2, d3, d4, d5, d6, d7, d8}
MCMessages == {1, 2}

MCJobOf == (d1 :> hook) @@ (d2 :> hook) @@ (d3 :> hook) @@ (d4 :> hook) @@ (d5 :> trigger)
           @@ (d6 :> trigger) @@ (d7 :> trigger) @@ (d8 :> trigger) @@ (1 :> inbox) @@ (2 :> inbox)
MCSource == (d1 :> "custom") @@ (d2 :> "custom") @@ (d3 :> "custom") @@ (d4 :> "custom")
            @@ (d5 :> "trigger") @@ (d6 :> "trigger") @@ (d7 :> "disabled") @@ (d8 :> "disabled")
MCEventId == (d1 :> i1) @@ (d2 :> i1) @@ (d3 :> None) @@ (d4 :> None)
             @@ (d5 :> i2) @@ (d6 :> i2) @@ (d7 :> i3) @@ (d8 :> i3)
MCOtherKey == (d1 :> None) @@ (d2 :> k1) @@ (d3 :> k1) @@ (d4 :> None)
              @@ (d5 :> k2) @@ (d6 :> k2) @@ (d7 :> None) @@ (d8 :> None)
=============================================================================
