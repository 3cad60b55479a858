---------------------------- MODULE MCUsbControl ----------------------------
(* Requests of every kind the device distinguishes, for TLC.               *)
EXTENDS UsbControl

CONSTANT Strings    \* indexes of the strings asked for

Get(name, to, value, lengths) ==
  {[name |-> name, to |-> to, value |-> value, dir |-> "IN", wLength |-> n] : n \in lengths}
Set(name, to, value) == [name |-> name, to |-> to, value |-> value, dir |-> "NONE", wLength |-> 0]

Gets ==
  UNION {Get("GET_DESCRIPTOR", "DEVICE", 0, {64}),
         UNION {Get("GET_DESCRIPTOR", "STRING", i, {255}) : i \in Strings},
         Get("GET_DESCRIPTOR", "QUALIFIER", 0, {10}),
         Get("GET_STATUS", "EP2_IN", 0, {2}), Get("GET_CONFIGURATION", "DEVICE", 0, {1}),
         Get("GET_CAPABILITIES", "INTERFACE_CLASS", 0, {8})}
Sets ==
  {Set("SET_CONFIGURATION", "DEVICE", v) : v \in 0 .. 1}
    \cup {Set("SET_ADDRESS", "DEVICE", 3), Set("SET_INTERFACE", "INTERFACE", 0),
          Set("SET_FEATURE", "EP2_IN", 0), Set("CLEAR_FEATURE", "EP2_IN", 0)}

Wrong(name, to, n) == [name |-> name, to |-> to, value |-> 0, dir |-> "OUT", wLength |-> n]

(* Asked for in the wrong direction, where the host's data does no harm,   *)
(* and where it is stored into Current_Configuration.                      *)
Odd == {Wrong("GET_DESCRIPTOR", "DEVICE", 18), Wrong("GET_STATUS", "EP2_IN", 2)}
Storing == {Wrong("GET_CONFIGURATION", "DEVICE", 1)}

MCRequests == Gets \cup Sets \cup Odd
StoringRequests == MCRequests \cup Storing
=============================================================================
