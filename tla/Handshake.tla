----------------------------- MODULE Handshake -----------------------------
(***************************************************************************)
(* The HELLO / HELLO_ACK negotiation of client_handshake and               *)
(* server_handshake (transport/windows.rs; transport/posix.rs decides the  *)
(* same things in the same order), as functions of the two configurations. *)
(* A profile mask is the set of its bits' values.                          *)
(***************************************************************************)
EXTENDS Naturals, FiniteSets

Baseline == 1
HeaderSize == 32
Selectable == {1, 2, 4, 8}
Versions == {"current", "header", "layout", "garbage"}
Statuses == {"OK", "UNSUPPORTED", "AUTH_FAILED", "LIMIT_EXCEEDED", "INCOMPATIBLE"}

highest_bit(mask) == CHOOSE b \in mask : \A x \in mask : x <= b

Smaller(m, n) == IF m < n THEN m ELSE n

\* The configuration with the defaults filled in: no profile means baseline.
ProfilesOf(config) == IF config.supported = {} THEN {Baseline} ELSE config.supported

\* send_rejection: a HELLO_ACK whose other fields are zero.
Refusal(status) ==
    [status |-> status, profile |-> 0, id |-> 0, req |-> 0, resp |-> 0, packet |-> 0]

\* No answer at all: the header or the payload does not decode.
Silence == Refusal("none")

Agreed(config, hello, id) ==
    LET both == hello.supported \cap ProfilesOf(config)
        liked == both \cap hello.preferred \cap config.preferred
    IN [status |-> "OK",
        profile |-> highest_bit(IF liked # {} THEN liked ELSE both),
        id |-> id,
        req |-> hello.req,
        resp |-> config.resp,
        packet |-> Smaller(hello.packet, config.packet)]

\* Mutant: any token will do.
ServerHandshakeTrusts(config, hello, id) ==
    IF hello.version = "garbage" THEN Silence
    ELSE IF hello.version # "current" THEN Refusal("INCOMPATIBLE")
    ELSE IF hello.supported \cap ProfilesOf(config) = {} THEN Refusal("UNSUPPORTED")
    ELSE IF hello.req > config.req THEN Refusal("LIMIT_EXCEEDED")
    ELSE IF Agreed(config, hello, id).packet <= HeaderSize THEN Refusal("INCOMPATIBLE")
    ELSE Agreed(config, hello, id)

\* What the server answers to a HELLO, in the order of its checks.
ServerHandshake(config, hello, id) ==
    IF hello.version = "garbage" THEN Silence
    ELSE IF hello.version # "current" THEN Refusal("INCOMPATIBLE")
    ELSE IF hello.supported \cap ProfilesOf(config) = {} THEN Refusal("UNSUPPORTED")
    ELSE IF hello.token # config.token THEN Refusal("AUTH_FAILED")
    ELSE IF hello.req > config.req THEN Refusal("LIMIT_EXCEEDED")
    ELSE IF Agreed(config, hello, id).packet <= HeaderSize THEN Refusal("INCOMPATIBLE")
    ELSE Agreed(config, hello, id)

\* The state try_connect reports for an answer; an accepted one goes on.
ClientHandshake(ack) ==
    CASE ack.status = "AUTH_FAILED" -> "AuthFailed"
      [] ack.status \in {"UNSUPPORTED", "INCOMPATIBLE"} -> "Incompatible"
      [] ack.status = "LIMIT_EXCEEDED" -> "Disconnected"
      [] ack.status = "OK" -> IF ack.packet <= HeaderSize THEN "Disconnected" ELSE "Connected"
=============================================================================
