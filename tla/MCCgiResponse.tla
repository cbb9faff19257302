---------------------------- MODULE MCCgiResponse ----------------------------
(* CgiResponse for TLC: what an output is made of.                           *)
EXTENDS CgiResponse

\* A status, a header, the start of a name without a colon, ends of lines.
Fragments == {<<"S", ":", "2">>, <<"a", ":">>, <<"a">>, CRLF, <<CR>>, <<LF>>}

CONSTANT MaxFragments  \* bound on the fragments of an output

MCSymbols == UNION {ToSet(f) : f \in Fragments}
MCOutputs == {FlattenSeq(f) : f \in UNION {[1..n -> Fragments] : n \in 0..MaxFragments}}
=============================================================================
