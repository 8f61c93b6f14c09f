----------------------------- MODULE EchoService -----------------------------
(***************************************************************************)
(* What the echo firmware promises to the programs on the host that talk   *)
(* to it (ping_rpmsg, stress_rpmsg): every well-formed request is answered *)
(* once, with its own content, in the order of the requests.               *)
(***************************************************************************)
EXTENDS Naturals, Sequences

CONSTANTS Requests,     (* what a request can say          *)
          Capacity      (* requests out at the same time   *)

VARIABLE asked          (* the requests not answered, oldest first *)

Ask(m) == Len(asked) < Capacity /\ asked' = Append(asked, m)

Answer == asked # << >> /\ asked' = Tail(asked)

EchoInit == asked = << >>
EchoNext == Answer \/ \E m \in Requests : Ask(m)
EchoSpec == EchoInit /\ [][EchoNext]_asked
=============================================================================
