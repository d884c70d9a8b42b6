---------------------------- MODULE MCEventProcess ----------------------------
EXTENDS EventProcess

CONSTANTS m1, m2, open, click

\* The same content twice, as a provider repeats it.
Twice(kind) == [m \in Messages |-> [kind |-> kind, events |-> {open}]]

\* Two batches of a mail provider that have an event in common.
Overlapping == [m \in Messages |-> [kind |-> "mail", events |-> IF m = m1 THEN {open, click} ELSE {click}]]

RepeatedOrOverlapping == {Twice("mail"), Twice("twilio"), Twice("cloud"), Overlapping}
=============================================================================
