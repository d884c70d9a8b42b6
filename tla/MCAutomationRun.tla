--------------------------- MODULE MCAutomationRun ---------------------------
EXTENDS AutomationRun

\* An email and a text; a push after a delay.
TwoFlows == {<<"email", "sms", "end">>, <<"wait", "push", "end">>}
=============================================================================
