------------------------------ MODULE HttpProxy ------------------------------
(***************************************************************************)
(* One connection of the recorder (mm-webrecord): a thread that stands       *)
(* between a client and the server the client wanted.  It parses both        *)
(* streams into messages, passes on each message when it is complete, and    *)
(* saves each response with the request that it answers.                     *)
(*                                                                         *)
(* The client and the server are the environment.  What they say is chosen   *)
(* in Init; a read returns any piece of what has arrived, and the server     *)
(* answers a request once it has it.  The server can close in the middle of  *)
(* an answer, and the client at any time after it has asked.                 *)
(***************************************************************************)
EXTENDS ReplayShell, Poller

CONSTANTS
    Dialogs,     \* what clients and servers say; see DialogAssumption
    Earlier      \* what other connections have saved

Message ==
    [first_line : Seq(STRING), headers : Seq(Seq(STRING)), body : Seq(STRING)]

ASSUME DialogAssumption ==
    \A d \in Dialogs :
        /\ d.requests \in Seq(Message) /\ d.responses \in Seq(Message)
        /\ Len(d.requests) = Len(d.responses)   \* no interim responses
        /\ d.address.port \in Nat               \* the server's, before DNAT
        /\ d.server_closes_after \in Nat        \* bytes of its answers
        /\ d.complete \in BOOLEAN               \* which are all of them
        /\ d.patient \in BOOLEAN                \* the client waits for its answers

VARIABLES
    dialog,           \* the scenario
    request_parser,
    response_parser,
    client,           \* its socket: bytes read, end of file seen, and whether it has gone
    server,           \* likewise, and the requests it has been sent
    store,            \* what this connection has saved
    loop,             \* where the thread is
    report            \* the poll in progress

vars == <<dialog, request_parser, response_parser, client, server, store, loop, report>>

\* What the client says, and what the server says once it has been sent n requests.
FromClient == FlattenSeq([i \in DOMAIN dialog.requests |-> str(dialog.requests[i])])
Answers(n) == FlattenSeq([i \in 1 .. n |-> str(dialog.responses[i])])
FromServer ==
    LET a == Answers(Len(server.received))
    IN  SubSeq(a, 1, Min({Len(a), dialog.server_closes_after}))
ServerClosed == Len(FromServer) = dialog.server_closes_after

Recorded(request, response) ==
    [address |-> dialog.address,
     scheme |-> IF dialog.address.port = 443 THEN "HTTPS" ELSE "HTTP",
     request |-> request, response |-> response]
Exchanges ==
    [i \in DOMAIN dialog.requests |-> Recorded(dialog.requests[i], dialog.responses[i])]

Init ==
    /\ dialog \in Dialogs
    /\ request_parser = NewParser("request") /\ response_parser = NewParser("response")
    /\ client = [taken |-> 0, eof |-> FALSE, gone |-> FALSE]
    /\ server = [taken |-> 0, eof |-> FALSE, received |-> <<>>]
    /\ store = <<>>
    /\ loop = "poll" /\ report = NoReport

-----------------------------------------------------------------------------
(* The poller                                                               *)

actions ==
    <<Action("In", TRUE, ~client.eof, server.eof),
      Action("In", TRUE, ~server.eof, client.eof),
      Action("Out", TRUE, request_parser.complete_messages # <<>>, server.eof),
      Action("Out", TRUE, response_parser.complete_messages # <<>>, client.eof)>>

HasInput(i) ==
    \/ i = 1 /\ (server.taken < Len(FromServer) \/ ServerClosed)
    \/ i = 2 /\ (client.taken < Len(FromClient) \/ client.gone)

\* Sockets are always writable; input may take its time to arrive.  The socket of
\* a client that has gone may report a hang-up.
poll ==
    /\ loop = "poll"
    /\ IF NothingToPoll(actions)
       THEN loop' = "exit" /\ UNCHANGED report
       ELSE \E input \in SUBSET {i \in Events(actions) \cap {1, 2} : HasInput(i)},
               hung \in {{}} \cup (IF client.gone THEN {{2, 4}} ELSE {}) :
                 LET r == Report(input \cup (Events(actions) \cap {3, 4}), hung)
                 IN  Reported(r) # {} /\ report' = r /\ loop' = "serve"
    /\ UNCHANGED <<dialog, request_parser, response_parser, client, server, store>>

Serve(i) ==
    /\ loop = "serve" /\ Serves(report, i)
    /\ report' = Served(report)

EndPoll ==
    /\ loop = "serve"
    /\ HangsUp(report) \/ Reported(report) = {}
    /\ loop' = IF HangsUp(report) THEN "exit" ELSE "poll"
    /\ report' = NoReport
    /\ UNCHANGED <<dialog, request_parser, response_parser, client, server, store>>

\* An exception in a callback ends the thread.
Unless(thrown) == loop' = IF thrown THEN "exception" ELSE "serve"

-----------------------------------------------------------------------------
(* The callbacks                                                            *)

\* What read can return: any piece of what is there, or nothing at the end.
Pieces(stream, taken) ==
    IF taken = Len(stream) THEN {<<>>}
    ELSE {SubSeq(stream, taken + 1, n) : n \in taken + 1 .. Len(stream)}

ReadFromServer ==
    /\ Serve(1)
    /\ \E piece \in Pieces(FromServer, server.taken) :
          /\ server' = [server EXCEPT !.taken = @ + Len(piece), !.eof = piece = <<>>]
          /\ response_parser' = parse(response_parser, piece)
          /\ Unless(response_parser'.thrown)
    /\ UNCHANGED <<dialog, request_parser, client, store>>

ReadFromClient ==
    /\ Serve(2)
    /\ \E piece \in Pieces(FromClient, client.taken) :
          /\ client' = [client EXCEPT !.taken = @ + Len(piece), !.eof = piece = <<>>]
          /\ request_parser' = parse(request_parser, piece)
          /\ Unless(request_parser'.thrown)
    /\ UNCHANGED <<dialog, response_parser, server, store>>

\* A write to a peer that has closed may throw.
WriteToServer ==
    /\ Serve(3)
    /\ \/ /\ server' = [server EXCEPT !.received = Append(@, front(request_parser))]
          /\ response_parser' = new_request_arrived(response_parser, front(request_parser))
          /\ request_parser' = pop(request_parser)
          /\ Unless(FALSE)
       \/ /\ ServerClosed /\ Unless(TRUE)
          /\ UNCHANGED <<server, response_parser, request_parser>>
    /\ UNCHANGED <<dialog, client, store>>

save(p) == Append(store, Recorded(Head(p.complete_messages).request, front(p)))

WriteToClient ==
    /\ Serve(4)
    /\ \/ /\ store' = save(response_parser)
          /\ response_parser' = pop(response_parser)
          /\ Unless(FALSE)
       \/ /\ client.gone /\ Unless(TRUE)
          /\ UNCHANGED <<response_parser, store>>
    /\ UNCHANGED <<dialog, request_parser, client, server>>

\* A patient client closes when it has all its answers, another one at any time.
ClientCloses ==
    /\ ~client.gone
    /\ dialog.patient => Len(store) = Len(dialog.requests)
    /\ client' = [client EXCEPT !.gone = TRUE]
    /\ UNCHANGED <<dialog, request_parser, response_parser, server, store, loop, report>>

\* The thread has returned; anywhere else that nothing can happen is a deadlock.
Finished == loop \in {"exit", "exception"} /\ UNCHANGED vars

Thread ==
    \/ poll \/ EndPoll
    \/ ReadFromServer \/ ReadFromClient \/ WriteToServer \/ WriteToClient

Next == Thread \/ ClientCloses \/ Finished

Spec == Init /\ [][Next]_vars

-----------------------------------------------------------------------------
(* Properties                                                               *)

\* A server that closes within its last answer leaves a shorter body.
Cut(response, whole) ==
    /\ server.eof
    /\ [response EXCEPT !.body = <<>>] = [whole EXCEPT !.body = <<>>]
    /\ IsPrefix(response.body, whole.body)

\* Wherever reads cut the two streams, every response is saved as the server sent
\* it, in the order of the requests, and with the request that it answers.
SavedAsSaid ==
    /\ Len(store) <= Len(dialog.requests)
    /\ \A i \in DOMAIN store :
          \/ store[i] = Exchanges[i]
          \/ /\ i = Len(store) /\ store[i].request = dialog.requests[i]
             /\ Cut(store[i].response, dialog.responses[i])

\* However reads cut the streams, the parsers take what the peers of the dialogs say
\* (final responses to each request, in order, a trailer where one is announced): none
\* of their assertions fails, and only a server that closes early makes one throw.
ParsersAccept ==
    ~request_parser.thrown /\ (response_parser.thrown => ~dialog.complete)

\* In a dialog in which nobody closes early the connection does not end before
\* everything is recorded.
EverythingRecorded ==
    loop \in {"exit", "exception"} /\ dialog.patient /\ dialog.complete =>
        store = Exchanges

\* A recording whose requests all name a host can be replayed: the name of each
\* leads to the address it was recorded at, and there it gets a response that was
\* recorded for the same request line, scheme and host, in whatever order the
\* directory lists the files.
ReplaysTheRecorded ==
    \A files \in {store \o Earlier, Earlier \o store} :
      Starts(files) =>
        \A i \in DOMAIN files :
          LET f == files[i]
              r == f.request
              replies == Replies(files, f.address, r)
          IN  /\ \A host \in Values(r, Host) : f.address.ip \in Resolved(files, host)
              /\ replies # {}
              /\ \A b \in replies : /\ b.scheme = f.scheme
                                    /\ b.request.first_line = r.first_line
                                    /\ Values(b.request, Host) = Values(r, Host)
=============================================================================
