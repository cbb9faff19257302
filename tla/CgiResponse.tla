----------------------------- MODULE CgiResponse -----------------------------
(***************************************************************************)
(* How the gateway takes the CGI headers off a script's output             *)
(* (internal/php/cgi/response.go).  Two parsers do it: ParseResponse has   *)
(* the whole output, and is a definition here; ParseResponseStream reads   *)
(* it from the FastCGI stream through a bufio.Scanner, in pieces of any    *)
(* size, and is the state machine.  The handler then copies what is left   *)
(* of the stream to the client.                                            *)
(*                                                                         *)
(* Output is a sequence of symbols: a letter or a digit, the colon, CR and *)
(* LF.  "S" is the name of the Status header and "2" its one valid value.  *)
(***************************************************************************)
EXTENDS Integers, Sequences, FiniteSets, SequencesExt

CONSTANTS
  Symbols,      \* what a script's output is made of
  Outputs,      \* what scripts write
  MaxLine,      \* maxHeaderBytes, the size of the scanner's buffer
  MaxTotal,     \* maxHeaderSize
  MaxCount      \* maxHeaderCount

ASSUME ResponseAssumption ==
  /\ Outputs \subseteq Seq(Symbols)
  /\ MaxLine \in Nat \ {0}
  /\ MaxTotal \in Nat
  /\ MaxCount \in Nat

CR   == "\r"
LF   == "\n"
CRLF == <<CR, LF>>
Terminator == CRLF \o CRLF

-----------------------------------------------------------------------------
(* One header line *)

\* Positions at which p occurs in s.
Occurrences(p, s) == {i \in 1..(Len(s) - Len(p) + 1) : SubSeq(s, i, i + Len(p) - 1) = p}

First(positions) == CHOOSE i \in positions : \A j \in positions : i <= j

Controls(s) == \E i \in DOMAIN s : s[i] \in {CR, LF}

\* strings.TrimSpace
Trimmed(s) ==
  LET ink == {i \in DOMAIN s : s[i] \notin {CR, LF}}
  IN IF ink = {} THEN <<>>
     ELSE SubSeq(s, First(ink), CHOOSE i \in ink : \A j \in ink : j <= i)

Colon(line) == First(Occurrences(<<":">>, line))
Name(line)  == Trimmed(SubSeq(line, 1, Colon(line) - 1))
Value(line) == Trimmed(SubSeq(line, Colon(line) + 1, Len(line)))

\* parseHeaderLine returns no error.
LineOk(line) ==
  /\ Occurrences(<<":">>, line) # {}
  /\ Name(line) # <<>>
  /\ ~Controls(Name(line))
  /\ ~Controls(Value(line))

Header(line) == <<Name(line), Value(line)>>

-----------------------------------------------------------------------------
(* The response made of the headers *)

Rejected == [ok |-> FALSE]

\* headers.Get("Status"): the first of that name.
StatusLine(headers) ==
  LET statuses == SelectSeq(headers, LAMBDA h : h[1] = <<"S">>)
  IN IF statuses = <<>> THEN <<>> ELSE statuses[1][2]

\* A Status that is empty is taken for none, and stays among the headers.
Response(headers) ==
  IF StatusLine(headers) = <<>>
  THEN [ok |-> TRUE, status |-> "200", headers |-> headers]
  ELSE IF StatusLine(headers) = <<"2">>
  THEN [ok |-> TRUE, status |-> "2", headers |-> SelectSeq(headers, LAMBDA h : h[1] # <<"S">>)]
  ELSE Rejected

\* Each line with its CRLF.
Size(lines) ==
  LET Upto[i \in 0..Len(lines)] == IF i = 0 THEN 0 ELSE Upto[i - 1] + Len(lines[i]) + 2
  IN  Upto[Len(lines)]

-----------------------------------------------------------------------------
(* ParseResponse *)

Terminators(s) == Occurrences(Terminator, s)

\* The lines so far, empty ones left out, and the part of one, after another symbol.
TakeSymbol(split, symbol) ==
  IF symbol = LF /\ split.part # <<>> /\ Last(split.part) = CR
  THEN LET line == Front(split.part) IN
       [lines |-> IF line = <<>> THEN split.lines ELSE Append(split.lines, line), part |-> <<>>]
  ELSE [split EXCEPT !.part = Append(@, symbol)]

Splitting(text) ==
  LET Upto[i \in 0..Len(text)] ==
        IF i = 0 THEN [lines |-> <<>>, part |-> <<>>] ELSE TakeSymbol(Upto[i - 1], text[i])
  IN  Upto

\* The lines of a header block.
LinesOf(block) ==
  LET split == Splitting(block)[Len(block)]
  IN  IF split.part = <<>> THEN split.lines ELSE Append(split.lines, split.part)

\* parseHeaders
ParseHeaders(lines) ==
  IF /\ \A i \in DOMAIN lines : Len(lines[i]) <= MaxLine /\ LineOk(lines[i])
     /\ Size(lines) <= MaxTotal
     /\ Len(lines) <= MaxCount
  THEN Response([i \in DOMAIN lines |-> Header(lines[i])])
  ELSE Rejected

ParseResponse(s) ==
  IF Terminators(s) = {} THEN Response(<<>>)
  ELSE ParseHeaders(LinesOf(SubSeq(s, 1, First(Terminators(s)) - 1)))

\* Body of the same Response.
BodyOf(s) ==
  IF Terminators(s) = {} THEN s ELSE SubSeq(s, First(Terminators(s)) + 4, Len(s))

-----------------------------------------------------------------------------
(* ParseResponseStream and the copy after it *)

VARIABLES
  stdout,   \* what the script writes, all of it
  unread,   \* how much of it the scanner has not been given
  buf,      \* the scanner's buffer
  lines,    \* header lines scanned
  phase,    \* "scan", "copy" or "done"; "failed" or "cut" if one of the two broke off
  response, \* what the client is answered
  sent      \* the body it is sent

responseVars == <<stdout, unread, buf, lines, phase, response, sent>>

ResponseTypeOK ==
  /\ stdout \in Outputs
  /\ unread \in 0..Len(stdout)
  /\ Len(buf) <= MaxLine
  /\ Len(lines) <= MaxCount
  /\ phase \in {"scan", "copy", "done", "failed", "cut"}

\* php-fpm writes at least one header before the empty line.
ResponseInit ==
  /\ stdout \in {s \in Outputs : ~IsPrefix(CRLF, s)}
  /\ unread = Len(stdout)
  /\ buf = <<>>
  /\ lines = <<>>
  /\ phase = "scan"
  /\ response = Rejected
  /\ sent = <<>>

Rest == SubSeq(stdout, Len(stdout) - unread + 1, Len(stdout))

Answer(r, next) ==
  /\ response' = r
  /\ phase' = next

Headers(ls) == [i \in DOMAIN ls |-> Header(ls[i])]

\* Variant: the last of the lines that are allowed is one too many.
AddLineEarly(line) ==
  LET all == Append(lines, line)
      fits == Size(all) <= MaxTotal /\ Len(all) < MaxCount /\ LineOk(line)
  IN
  IF fits
  THEN lines' = all /\ UNCHANGED <<phase, response>>
  ELSE Answer(Rejected, "done") /\ UNCHANGED lines

\* Another header line, however it was scanned.
AddLine(line) ==
  LET all == Append(lines, line)
      fits == Size(all) <= MaxTotal /\ Len(all) <= MaxCount /\ LineOk(line)
  IN
  IF fits
  THEN lines' = all /\ UNCHANGED <<phase, response>>
  ELSE Answer(Rejected, "done") /\ UNCHANGED lines

\* scanCRLFHeaders finds a line.
ScanLine ==
  LET end == First(Occurrences(CRLF, buf)) IN
  /\ phase = "scan"
  /\ Occurrences(CRLF, buf) # {}
  /\ end # 1
  /\ AddLine(SubSeq(buf, 1, end - 1))
  /\ buf' = SubSeq(buf, end + 2, Len(buf))
  /\ UNCHANGED <<stdout, unread, sent>>

\* Variant: CR alone ends a line too.
ScanTerminatorAtCR ==
  /\ phase = "scan"
  /\ buf # <<>>
  /\ buf[1] = CR
  /\ buf' = SubSeq(buf, 2, Len(buf))
  /\ Answer(Response(Headers(lines)), IF Response(Headers(lines)).ok THEN "copy" ELSE "done")
  /\ UNCHANGED <<stdout, unread, lines, sent>>

\* The empty line: what follows it in the buffer stays there.
ScanTerminator ==
  /\ phase = "scan"
  /\ IsPrefix(CRLF, buf)
  /\ buf' = SubSeq(buf, 3, Len(buf))
  /\ Answer(Response(Headers(lines)), IF Response(Headers(lines)).ok THEN "copy" ELSE "done")
  /\ UNCHANGED <<stdout, unread, lines, sent>>

\* No line in the buffer: the scanner reads what one record holds, as much as
\* fits.
Fill ==
  /\ phase = "scan"
  /\ Occurrences(CRLF, buf) = {}
  /\ \E n \in 1..(MaxLine - Len(buf)) :
       /\ n <= unread
       /\ buf' = buf \o SubSeq(Rest, 1, n)
       /\ unread' = unread - n
  /\ UNCHANGED <<stdout, lines, phase, response, sent>>

\* scanner.Err(): reading a record fails, and with it the response. What the record before
\* held is scanned first, which changes nothing.
ReadFails ==
  /\ phase = "scan"
  /\ Occurrences(CRLF, buf) = {}
  /\ Len(buf) < MaxLine
  /\ Answer(Rejected, "failed")
  /\ UNCHANGED <<stdout, unread, buf, lines, sent>>

\* bufio.ErrTooLong
LineTooLong ==
  /\ phase = "scan"
  /\ Occurrences(CRLF, buf) = {}
  /\ Len(buf) = MaxLine
  /\ Answer(Rejected, "done")
  /\ UNCHANGED <<stdout, unread, buf, lines, sent>>

\* The output has ended in the middle of a line, which is taken for a header.
LastLine ==
  /\ phase = "scan"
  /\ Occurrences(CRLF, buf) = {}
  /\ unread = 0
  /\ Len(buf) \in 1..(MaxLine - 1)
  /\ AddLine(buf)
  /\ buf' = <<>>
  /\ UNCHANGED <<stdout, unread, sent>>

\* The output has ended without an empty line: no body.
NoTerminator ==
  /\ phase = "scan"
  /\ buf = <<>>
  /\ unread = 0
  /\ Answer(Response(Headers(lines)), "done")
  /\ UNCHANGED <<stdout, unread, buf, lines, sent>>

\* io.Copy, to the end of the stream.
Copy ==
  /\ phase = "copy"
  /\ sent' = Rest
  /\ unread' = 0
  /\ phase' = "done"
  /\ UNCHANGED <<stdout, buf, lines, response>>

\* io.Copy stops: a record cannot be read, or the client is gone. The status and the headers
\* are on their way already, and part of the body.
CopyFails ==
  /\ phase = "copy"
  /\ \E n \in 0..unread : sent' = SubSeq(Rest, 1, n) /\ unread' = unread - n
  /\ phase' = "cut"
  /\ UNCHANGED <<stdout, buf, lines, response>>

ResponseNext ==
  \/ ScanLine \/ ScanTerminator \/ Fill \/ LineTooLong \/ LastLine \/ NoTerminator \/ Copy
  \/ ReadFails \/ CopyFails

ResponseSpec == ResponseInit /\ [][ResponseNext]_responseVars
-----------------------------------------------------------------------------
(* Properties *)

\* The header lines fit in the scanner's buffer with their CRLF.  (The whole
\* parser lets a line be two longer.)
LinesFit ==
  Terminators(stdout) # {} =>
    \A i \in DOMAIN LinesOf(SubSeq(stdout, 1, First(Terminators(stdout)) - 1)) :
      Len(LinesOf(SubSeq(stdout, 1, First(Terminators(stdout)) - 1))[i]) + 2 <= MaxLine

\* Wherever the records cut the output, in the middle of a CRLF or of the empty
\* line, the stream parser answers with the status and headers, or the refusal,
\* of the parser that has it whole; unless the stream breaks among the headers.
SameAsWhole ==
  phase \notin {"scan", "failed"} /\ Terminators(stdout) # {} /\ LinesFit => response = ParseResponse(stdout)

\* No header is ever sent as body, nor any of the body before another part of it:
\* the client gets one piece of what the script wrote after its headers, also when the
\* copy breaks off.
BodyIsBody ==
  sent # <<>> =>
    /\ Terminators(stdout) # {}
    /\ \E i, j \in DOMAIN BodyOf(stdout) : sent = SubSeq(BodyOf(stdout), i, j)

\* After the headers, the remaining body is read.  (src/internal/php/cgi/
\* response.go:137)
BodyWhole ==
  phase = "done" /\ response.ok /\ Terminators(stdout) # {} => sent = BodyOf(stdout)

\* Output without an empty line is body only.  (src/internal/php/cgi/
\* response.go:142)
BodyOnly ==
  phase = "done" /\ Terminators(stdout) = {} =>
    response = ParseResponse(stdout) /\ sent = BodyOf(stdout)
=============================================================================
