------------------------ MODULE MCAutomationScheduler ------------------------
EXTENDS AutomationScheduler

\* A unit is 15 seconds: one minute, then five.
Backoffs == <<4, 20>>
=============================================================================
