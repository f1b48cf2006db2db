---------------------------- MODULE MCHttpProxy -----------------------------
(* HttpProxy for TLC: four dialogs, whose streams of up to 40 bytes are read  *)
(* in every possible way, and variants in which one side closes early.        *)
EXTENDS HttpProxy


Get(path) == Request(<<"GET">> \o path \o <<"HTTP">>, <<<<"hostA">>>>, <<>>)
Hostless == Request(<<"GET", "/", "HTTP">>, <<>>, <<>>)
HeadRequest == Request(<<"HEAD", "/", "HTTP">>, <<<<"hostA">>>>, <<>>)
Post == Request(<<"POST", "/", "HTTP">>, <<<<"hostB">>, <<"Length1">>>>, <<"x">>)

\* A body may look like the end of a line or of the headers.
Whole == Request(<<"OK">>, <<<<"Length3">>>>, <<"CR", "LF", "x">>)
Bodiless == Request(<<"OK">>, <<<<"Length3">>>>, <<>>)
NoContent == Request(<<"NoContent">>, <<>>, <<>>)
UntilClose == Request(<<"OK">>, <<>>, <<"x", "CR", "LF", "x">>)
Chunks == <<"two">> \o CRLF \o <<"CR", "LF">> \o CRLF \o <<"zero">> \o CRLF
Chunked == Request(<<"OK">>, <<<<"Chunked">>>>, Chunks \o CRLF)
Trailed == Request(<<"OK">>, <<<<"Trailer">>, <<"Chunked">>, <<"Length1">>>>,
                    Chunks \o <<"field">> \o CRLF \o CRLF)

Never == 1000
Address(ip, port) == [ip |-> ip, port |-> port]
Talk(requests, responses, closes) ==
    [requests |-> requests, responses |-> responses, address |-> Address("ip1", 80),
     server_closes_after |-> closes, complete |-> TRUE, patient |-> TRUE]
Size(responses) == Len(FlattenSeq([i \in DOMAIN responses |-> str(responses[i])]))

Whole1 == <<Whole, NoContent>>
Chunked1 == <<Chunked, NoContent>>
CompleteTalks ==
    {Talk(<<HeadRequest, Get(<<"/">>)>>, <<Bodiless, Whole>>, Never),
     Talk(<<Get(<<"/", "?", "q">>), Get(<<"/", "?", "p">>)>>, Chunked1, Never),
     Talk(<<Post, Get(<<"/">>)>>, <<Trailed, NoContent>>, Never),
     Talk(<<Hostless>>, <<UntilClose>>, Size(<<UntilClose>>))}

MCDialogs ==
    CompleteTalks
    \cup {[Talk(<<Get(<<"/">>)>>, <<m>>, n) EXCEPT !.complete = FALSE] :
             m \in {Whole, Chunked}, n \in {1, 4, 8, 11}}
    \cup {[d EXCEPT !.patient = FALSE] : d \in CompleteTalks}

\* An encrypted exchange, other hosts at other addresses, other paths and longer
\* queries.
Saved(address, request, response) ==
    [address |-> address, scheme |-> IF address.port = 443 THEN "HTTPS" ELSE "HTTP",
     request |-> request, response |-> response]
MCEarlier ==
    <<Saved(Address("ip1", 443), Get(<<"/">>), Whole),
      Saved(Address("ip2", 80), [Get(<<"/">>) EXCEPT !.headers = <<<<"hostB">>>>], NoContent),
      Saved(Address("ip2", 80), Get(<<"/", "?", "q", "p">>), NoContent)>>
=============================================================================
