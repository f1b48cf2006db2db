----------------------------- MODULE ReplayShell -----------------------------
(***************************************************************************)
(* What mm-webreplay sets up before it starts the user's command: a web       *)
(* server for each address in the recording, and a name server that knows the  *)
(* hosts of the recorded requests.  Every web server answers from the whole     *)
(* recording, by running the replay server.                                   *)
(***************************************************************************)
EXTENDS ReplayServer

\* It throws if a recorded request names no host.
Starts(files) == \A i \in DOMAIN files : Values(files[i].request, Host) # {}

unique_ip_and_port(files) == {files[i].address : i \in DOMAIN files}

hostname_to_ip(files) ==
    UNION {Values(files[i].request, Host) \X {files[i].address.ip} : i \in DOMAIN files}

\* The server of port 443 speaks TLS, and so tells the replay server.
WebServer(address) ==
    [listen |-> address, scheme |-> IF address.port = 443 THEN "HTTPS" ELSE "HTTP"]

servers(files) == {WebServer(address) : address \in unique_ip_and_port(files)}

\* The hosts file has one address for a name in each line; a client can be told any.
Resolved(files, host) == {m[2] : m \in {m \in hostname_to_ip(files) : m[1] = host}}

\* What a client gets that asks at an address.
Replies(files, address, r) ==
    UNION {best_match(files, s.scheme, r) : s \in {s \in servers(files) : s.listen = address}}
=============================================================================
