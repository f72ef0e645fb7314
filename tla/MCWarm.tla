-------------------------------- MODULE MCWarm --------------------------------
(* Small instances of WarmSearch. Two searches race for the bounds: the charge *)
(* of a window is the tight one in the first setting, in the second the daily  *)
(* cap, and the searches in flight once the day has rolled on. One search, of  *)
(* two personas, meets the faults.                                             *)
EXTENDS WarmSearch

Setting(c, u, d, p) == [concurrent |-> c, units |-> u, daily |-> d, personas |-> p]
Calm(k) == [knobs |-> k, pressed |-> Searches, calm |-> TRUE, from |-> 0]

MCScenarios ==
    {Calm(Setting(2, 1, 2, 1)), Calm(Setting(1, 2, 1, 1))}
    \cup {[knobs |-> Setting(1, 1, 1, 2), pressed |-> {s}, calm |-> FALSE,
            from |-> MaxTime] : s \in {CHOOSE s \in Searches : TRUE}}
===============================================================================
