---------------------------- MODULE MCBufferMode ----------------------------
EXTENDS BufferMode

\* Canvas 2 is too large for two seconds in RAM at either quality; quality 2
\* is too high for two seconds on canvas 1 as well.
MCFit ==
  [x \in Canvases \X Delays \X Heights |->
     LET trimmed == x[1] = 2 \/ x[3] = 2 IN
       [slots |-> 10 * x[1] + (IF trimmed THEN 1 ELSE x[2]),
        effective |-> IF trimmed THEN 1 ELSE x[2]]]
=============================================================================
