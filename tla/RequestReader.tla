---------------------------- MODULE RequestReader ----------------------------
(***************************************************************************)
(* The request reader that keeps the spelling of header names: requests of *)
(* a keep-alive connection are parsed by the standard library, which makes *)
(* the names canonical, and a clone of what was read is searched for the   *)
(* spellings the client used.  The library's buffer reads ahead, so the    *)
(* length of the head is computed from what is left in the buffer.         *)
(*                                                                         *)
(* The connection is a sequence of pieces of lines.  A piece has the name  *)
(* before its first colon, or says that there is none, that it is empty or *)
(* that it starts with a space; a piece without a line break runs on into  *)
(* the next one.                                                           *)
(***************************************************************************)
EXTENDS Naturals, Sequences, SequencesExt, FiniteSetsExt

CONSTANTS
  Requests,   \* the requests of a connection: [names, body], names and pieces
  Canonical   \* CanonicalMIMEHeaderKey

Special == {"no colon", "empty", "indented"}

VARIABLES
  fed,     \* pieces read ahead: the clone has them, the buffer up to here
  read,    \* pieces the buffer has handed on
  taken,   \* pieces that were taken out of the clone
  done,    \* requests whose head has been parsed
  pc,      \* "head", "names" or "body"
  header   \* the names in the header that the handler gets

vars == <<fed, read, taken, done, pc, header>>

Line(name) == [name |-> name, eol |-> TRUE]

\* A request: its first line, its header lines, an empty line, its body.
HeadOf(r) == <<Line("no colon")>> \o [i \in DOMAIN r.names |-> Line(r.names[i])]
           \o <<Line("empty")>>

Pieces(r) == HeadOf(r) \o r.body

Connection == FlattenSeq([k \in DOMAIN Requests |-> Pieces(Requests[k])])

Init ==
  /\ fed = 0 /\ read = 0 /\ taken = 0
  /\ done = 0
  /\ pc = "head"
  /\ header = {}

\* The buffer is filled through the TeeReader.
Fill ==
  /\ fed < Len(Connection)
  /\ fed' \in fed + 1 .. Len(Connection)
  /\ UNCHANGED <<read, taken, done, pc, header>>

\* http.ReadRequest parses a head and makes its names canonical.
ReadRequest ==
  /\ pc = "head" /\ done < Len(Requests)
  /\ read + Len(HeadOf(Requests[done + 1])) <= fed
  /\ read' = read + Len(HeadOf(Requests[done + 1]))
  /\ done' = done + 1
  /\ header' = {Canonical[n] : n \in ToSet(Requests[done'].names)}
  /\ pc' = "names"
  /\ UNCHANGED <<fed, taken>>

-----------------------------------------------------------------------------
(* The search for the original names. *)

\* getRequestReader takes everything out of the clone but what is still in the
\* buffer.
Data == LET cloned == fed - taken  buffered == fed - read
        IN  SubSeq(Connection, taken + 1, taken + cloned - buffered)

\* The rest behind the first line break: the first line is skipped.
AfterFirstLine(d) ==
  LET breaks == {i \in DOMAIN d : d[i].eol}
  IN  IF breaks = {} THEN <<>> ELSE SubSeq(d, Min(breaks) + 1, Len(d))

\* The lines that are read: those before the first empty one.
HeaderLines(d) ==
  LET rest == AfterFirstLine(d)
      ends == {i \in DOMAIN rest : rest[i].name = "empty"}
  IN  IF ends = {} THEN rest ELSE SubSeq(rest, 1, Min(ends) - 1)

\* Http1ExtractHeaders: the names of the lines, by their place.  A piece behind
\* one without a break goes on with its line, and so does an indented one.  No
\* name at all if what should be the first header line is indented, or any line
\* has no colon.
Http1ExtractHeaders(d) ==
  LET lines == HeaderLines(d)
      starts == {i \in DOMAIN lines : /\ i > 1 => lines[i - 1].eol
                                     /\ lines[i].name # "indented"}
  IN  IF \/ lines # <<>> /\ lines[1].name = "indented"
         \/ \E i \in starts : lines[i].name = "no colon"
      THEN <<>>
      ELSE [i \in starts |-> lines[i].name]

\* The first spelling that is found and is not the canonical form takes its place
\* in the header.
TakeNames ==
  /\ pc = "names"
  /\ LET names == Http1ExtractHeaders(Data)
         spelled(c) == {i \in DOMAIN names : Canonical[names[i]] = c /\ names[i] # c}
     IN  header' = {IF spelled(c) = {} THEN c ELSE names[Min(spelled(c))] : c \in header}
  /\ taken' = read
  /\ pc' = "body"
  /\ UNCHANGED <<fed, read, done>>

\* The handler reads the body to its end, out of the same buffer.
ReadBody ==
  /\ pc = "body"
  /\ read + Len(Requests[done].body) <= fed
  /\ read' = read + Len(Requests[done].body)
  /\ pc' = "head"
  /\ UNCHANGED <<fed, taken, done, header>>

Next == Fill \/ ReadRequest \/ TakeNames \/ ReadBody

Spec == Init /\ [][Next]_vars

-----------------------------------------------------------------------------
(* Properties. *)

\* The handler sees every header under the name the client gave it: the head is
\* found exactly, and the body is not misread ("we must get the head precisely
\* and not read the body by mistake", request.go:133-135).
NamesAreOriginal ==
  pc = "body" => header = ToSet(Requests[done].names)
=============================================================================
