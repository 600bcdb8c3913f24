----------------------------- MODULE MCConnTable -----------------------------
(* Instances of ConnTable for TLC. *)
EXTENDS ConnTable

CONSTANTS s1, s2, a, b

Is(kind, client, parent, tls) ==
  [kind |-> kind, client |-> client, parent |-> parent, tls |-> tls]

\* A plain request and a relayed tunnel of two clients; a decrypted tunnel and
\* a request inside it.
MCProfiles ==
  {[s \in Sessions |-> IF s = s1 THEN Is("REQ", b, NoParent, FALSE)
                                 ELSE Is("RELAY", a, NoParent, FALSE)],
   [s \in Sessions |-> IF s = s1 THEN Is("MITM", a, NoParent, FALSE)
                                 ELSE Is("REQ", a, s1, FALSE)]}

\* A relayed tunnel whose client speaks TLS to the proxy.
TLSProfiles == {[s \in Sessions |-> Is("RELAY", a, NoParent, TRUE)]}
=============================================================================
