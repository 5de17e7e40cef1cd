--------------------------------- MODULE Gcra ---------------------------------
(* The rate arithmetic that the edge gate and the durable limiter share: a    *)
(* bucket is one number, the theoretical arrival time (tat) of the next       *)
(* request at the sustained rate.                                             *)
EXTENDS Integers, Sequences

(* previewGcra: a request is allowed when it comes at most burst - 1          *)
(* intervals before the theoretical arrival time.                             *)
GcraAllows(tat, burst, interval, now) == now >= tat - (burst - 1) * interval

(* The theoretical arrival time after an allowed request.                     *)
GcraNext(tat, interval, now) == (IF tat > now THEN tat ELSE now) + interval

(* What a limiter promises about the times at which it said yes: any two of   *)
(* them, with all those in between, are no more than the burst and what the   *)
(* elapsed time refilled.                                                     *)
WithinRate(times, burst, interval) ==
    \A i \in 1..Len(times) : \A j \in i..Len(times) :
        (j - i + 1) * interval <= burst * interval + (times[j] - times[i])

(* A bucket that stands at bound remembers at least these answers.            *)
Covers(times, interval, bound) ==
    \A i \in 1..Len(times) : times[i] + (Len(times) - i + 1) * interval <= bound
===============================================================================
