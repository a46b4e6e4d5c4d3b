------------------------------- MODULE MCTrust -------------------------------
(***************************************************************************)
(* Trust with four kinds of payload and a history of three.                *)
(***************************************************************************)
EXTENDS Trust

Payload(accel, gyro, touch, motion) ==
    [accel |-> accel, gyro |-> gyro, touch |-> touch, motion |-> motion]
const_Payloads == {Payload(1, 1, FALSE, 120), Payload(1, 1, FALSE, -5),
                   Payload(3, 0, FALSE, 120), Payload(3, 0, TRUE, -5)}
\* int(50 * _entropy_bools(...)) for up to four payloads.
const_TouchLoss(n, k) ==
    CASE k = 0 \/ k = n -> 0
      [] n = 2 \/ 2 * k = n -> 50
      [] n = 3 -> 45
      [] OTHER -> 40
=============================================================================
