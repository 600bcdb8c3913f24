--------------------------- MODULE MCRequestReader ---------------------------
(* An instance of RequestReader for TLC. *)
EXTENDS RequestReader, TLC

MCCanonical == "x-id" :> "X-Id" @@ "Accept" :> "Accept"

\* A POST with a body of three lines, and one more request behind it.
MCRequests ==
  << [names |-> <<"Accept", "x-id">>,
      body |-> <<Line("no colon"), Line("indented"), [name |-> "no colon", eol |-> FALSE]>>],
     [names |-> <<"Accept", "x-id">>, body |-> <<>>] >>
=============================================================================
