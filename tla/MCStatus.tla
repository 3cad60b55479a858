------------------------------ MODULE MCStatus ------------------------------
(* Values for the constants of Status.tla.                                 *)
EXTENDS Status

SreMasks == {{}, {"ESR"}, {"QMA", "OPS", "QES", "SRQ"}}

EseMasks == {{}, {"CER"}}

Conditions == {{}, {"b0"}}

Faults == {MISSING_PARAMETER}

(* A device's own error, which falls in no range of errs.                  *)
OwnErrors == {7}

(* States that differ in what was answered last, or in cmd_error, which    *)
(* every command resets before it looks at it, have the same future; so    *)
(* have states without a service request that differ in the last one the   *)
(* host was told of, which only the next one replaces.                     *)
Lasting ==
  [context EXCEPT !.cmd_error = FALSE,
                  !.srqTold = IF "SRQ" \in regs["STB"] THEN @ ELSE {}]
=============================================================================
