---------------------------- MODULE MCCronRunner ----------------------------
(***************************************************************************)
(* Instances of CronRunner for TLC, on a calendar with hours of three      *)
(* minutes and days of an hour.                                            *)
(***************************************************************************)
EXTENDS CronRunner

MCLastMinute == 6
MCFieldBounds ==
    [f \in Fields |-> CASE f = "minute"  -> [lo |-> 0, hi |-> 2]
                        [] f = "hour"    -> [lo |-> 0, hi |-> 0]
                        [] f = "day"     -> [lo |-> 1, hi |-> 3]
                        [] f = "month"   -> [lo |-> 1, hi |-> 1]
                        [] f = "weekday" -> [lo |-> 0, hi |-> 1]]
MCCalendar ==
    [m \in 0..MCLastMinute |->
        [f \in Fields |-> CASE f = "minute"  -> m % 3
                            [] f = "hour"    -> 0
                            [] f = "day"     -> m \div 3 + 1
                            [] f = "month"   -> 1
                            [] f = "weekday" -> (m \div 3) % 2]]

Star        == [star |-> TRUE, a |-> 0, b |-> 0, step |-> 1]
Every(k)    == [Star EXCEPT !.step = k]
Range(a, b) == [star |-> FALSE, a |-> a, b |-> b, step |-> 1]
Always      == [f \in Fields |-> {Star}]

\* "* * * * *", "1-2 * * * *", "*/2 * 2 * 0" and two that are refused.
EveryMinute == Always
Minutes12   == [Always EXCEPT !["minute"] = {Range(1, 2)}]
SomeDays    == [Always EXCEPT !["minute"] = {Every(2)}, !["day"] = {Range(2, 2)},
                              !["weekday"] = {Range(0, 0)}]
MCExprs     == {EveryMinute, Minutes12, SomeDays,
                [Always EXCEPT !["minute"] = {Range(1, 3)}],
                [Always EXCEPT !["hour"] = {Every(0)}]}
=============================================================================
