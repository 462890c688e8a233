--------------------------- MODULE MCHttpContext ---------------------------
(* HttpContext on a few requests, with bodies that look like a head, and on  *)
(* short sequences of lines, well-formed or not.                             *)
EXTENDS HttpContext

Length(text) == <<"Content-Length", ":">> \o text

\* A plain request, and one whose body looks like the end of a head.
MCRequests ==
  { [method |-> <<"Get">>, target |-> <<"u">>, headers |-> <<>>, body |-> <<>>],
    [method |-> <<"Post">>, target |-> <<"u", "v">>,
     headers |-> <<Length(<<"2">>)>>, body |-> Crlf] }

\* A first line, well-formed or not, up to two odd headers and a bit of the next line.
FirstLines == { <<"w", " ">>, <<CR, " ", "w">> }

HeaderLines ==
  { <<>>, <<CR>>, <<":">>, Length(<<"-", "9", "9">>), Length(<<"1", "7">>),
    Length(<<"\t", "+", "1">>) }

MCNoise ==
  { FlattenSeq([i \in DOMAIN q |-> q[i] \o Crlf]) \o <<"w", CR>> :
      q \in {<<first>> \o rest : first \in FirstLines, rest \in BoundedSeq(HeaderLines, 2)} }
=============================================================================
