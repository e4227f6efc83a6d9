----------------------------- MODULE PeriphPort -----------------------------
(* What the data port of the core promises about peripherals: a load or a   *)
(* store to the peripheral region takes effect in the device exactly once,  *)
(* and the core goes on with the result of that very access.                *)
EXTENDS Integers

CONSTANTS Byte,         \* values of a byte lane
          Requests,     \* the accesses the core may make
          DeviceInit    \* words of the device: aligned address |-> word

Lanes == 0 .. 3
Word  == [Lanes -> Byte]
NoRequest == [kind |-> "none"]

(* A device whose reads have a side effect too: it counts its accesses, so  *)
(* an access lost or performed twice shows.                                 *)
UsesModulus == 4
Written(word, wdata, wstrb) == [i \in Lanes |-> IF i \in wstrb THEN wdata[i] ELSE word[i]]
Used(device) == [device EXCEPT !.uses = (@ + 1) % UsesModulus]

VARIABLES request,   \* the access MEM holds, or NoRequest
          performed, \* it has taken effect, its result is on the way
          result,    \* <<that result>> of a load
          taken,     \* <<the result>> the core went on with last
          device

vars == <<request, performed, result, taken, device>>

WordAddr(addr) == addr - (addr % 4)

Init ==
  /\ request \in Requests \cup {NoRequest}
  /\ performed = FALSE
  /\ result = <<>>
  /\ taken = <<>>
  /\ device = [word |-> DeviceInit, uses |-> 0]

Issue ==
  /\ request = NoRequest
  /\ request' \in Requests
  /\ UNCHANGED <<performed, result, taken, device>>

Perform ==
  /\ request # NoRequest
  /\ ~performed
  /\ performed' = TRUE
  /\ LET a == WordAddr(request.addr) IN
     IF request.kind = "write"
     THEN /\ device' = [Used(device) EXCEPT
                          !.word[a] = Written(@, request.wdata, request.wstrb)]
          /\ result' = <<>>
     ELSE /\ device' = Used(device)
          /\ result' = <<device.word[a]>>
  /\ UNCHANGED <<request, taken>>

(* The core takes the result; MEM holds another access or none.             *)
Answer ==
  /\ performed
  /\ performed' = FALSE
  /\ result' = <<>>
  /\ taken' = result
  /\ request' \in Requests \cup {NoRequest}
  /\ UNCHANGED device

(* The core is reset between two accesses, or before one is under way.      *)
Reset ==
  /\ ~performed
  /\ request' = NoRequest
  /\ taken' = <<>>
  /\ UNCHANGED <<performed, result, device>>

Next == Issue \/ Perform \/ Answer \/ Reset
Spec == Init /\ [][Next]_vars
=============================================================================
