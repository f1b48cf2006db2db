---------------------------- MODULE ReplayServer ----------------------------
(***************************************************************************)
(* The replay server, which Apache runs once for each request: it compares   *)
(* the request with every recorded one, in the order in which the directory  *)
(* lists them, and answers with the response of the best match.              *)
(***************************************************************************)
EXTENDS HttpMessages

Host == {"hostA", "hostB"}
UserAgent == {"agent1", "agent2"}

\* The values of a header in a message: at most one here.
Values(m, header) == {v \in header : has_header(m, v)}

header_match(m, saved, header) == Values(m, header) = Values(saved, header)

strip_query(line) ==
    IF Contains(line, "?") THEN SubSeq(line, 1, Find(line, <<"?">>) - 1) ELSE line

common_prefix(a, b) == Len(LongestCommonPrefix({a, b}))

match_score_ignoring_host(record, scheme, r) ==
    IF /\ record.scheme = scheme
       /\ header_match(r, record.request, UserAgent)
       /\ strip_query(r.first_line) = strip_query(record.request.first_line)
    THEN common_prefix(r.first_line, record.request.first_line)
    ELSE 0

match_score(record, scheme, r) ==
    IF /\ record.scheme = scheme
       /\ header_match(r, record.request, Host)
       /\ header_match(r, record.request, UserAgent)
       /\ strip_query(r.first_line) = strip_query(record.request.first_line)
    THEN common_prefix(r.first_line, record.request.first_line)
    ELSE 0

\* The first of the files with the best score, if that is not 0.
best_match(files, scheme, r) ==
    LET score(i) == match_score(files[i], scheme, r)
    IN  {files[i] : i \in {i \in DOMAIN files :
            /\ score(i) > 0
            /\ \A j \in DOMAIN files : score(j) <= score(i)
            /\ \A j \in 1 .. i - 1 : score(j) < score(i)}}
=============================================================================
