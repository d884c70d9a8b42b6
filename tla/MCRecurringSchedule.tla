------------------------ MODULE MCRecurringSchedule ------------------------
EXTENDS RecurringSchedule

Daily == [frequency |-> "daily", interval |-> 2, first |-> 1, weekDays |-> {},
          untilSend |-> 2, untilDate |-> 0]
UntilDay == [frequency |-> "daily", interval |-> 1, first |-> 1, weekDays |-> {},
             untilSend |-> 0, untilDate |-> 2]

\* Mondays and Wednesdays of every other week, the first on a Wednesday.
Weekly == [frequency |-> "weekly", interval |-> 2, first |-> 3, weekDays |-> {1, 3},
           untilSend |-> 2, untilDate |-> 0]

AllSettings == {Daily, UntilDay, Weekly}
=============================================================================
