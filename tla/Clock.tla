-------------------------------- MODULE Clock --------------------------------
(* millis() - t as an age in ticks.  An age saturates at the first value from *)
(* which every comparison in the code gives the same result.                  *)
EXTENDS Integers

Aged(age, limit) == IF age < limit THEN age + 1 ELSE age
=============================================================================
