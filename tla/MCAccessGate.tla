---------------------------- MODULE MCAccessGate ----------------------------
(* Instances of AccessGate for TLC. *)
EXTENDS AccessGate

CONSTANTS a, b, x, y, s1, s2

Is(kind, client, host, parent) ==
  [kind |-> kind, client |-> client, host |-> host, parent |-> parent]

\* Client a is the one that gets blocked, y a host that a rule matches.
Alone(kind, host) == [c \in Conns |-> Is(kind, a, host, NoParent)]

\* A kept connection of client a and what is asked for in it.
Kept(kind, child) ==
  [c \in Conns |-> IF c = s1 THEN Is(kind, a, x, NoParent) ELSE Is(child, a, x, s1)]

\* Beside the engine's connection of another client.
BesideEngine(kind, host) ==
  [c \in Conns |-> IF c = s1 THEN Is(kind, a, host, NoParent) ELSE Is("MUX", b, x, NoParent)]

\* The engine's connection, or a decrypted tunnel, with a WebSocket in it; a
\* WebSocket of its own; a relayed tunnel to the host of the rule.
MCProfiles == {Kept("MUX", "WS"), Kept("MITM", "WS"), BesideEngine("WS", x),
               BesideEngine("TUNNEL", y)}

\* A session of its own.
PlainRequests == {Alone("HTTP", x)}
WebSockets == {Alone("WS", x)}

\* Access control off with rules prepared, on without rules for clients but with
\* a host blocked, on with the client blocked.
Off == [enable |-> FALSE, rules |-> [clients |-> {a}, hosts |-> {}]]
BlockA == [enable |-> TRUE, rules |-> [clients |-> {a}, hosts |-> {}]]
BlockY == [enable |-> TRUE, rules |-> [clients |-> {}, hosts |-> {y}]]

MCConfigs == {Off, BlockA, BlockY}
=============================================================================
