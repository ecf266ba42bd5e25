------------------------------ MODULE FastCgi ------------------------------
(***************************************************************************)
(* The FastCGI application of web/fastcgi and the web server it works for. *)
(* FastCGI.Application.Execute comes in two kinds: for a callback, which   *)
(* matreshka-fastcgi-server.adb calls with one request at a time, and for  *)
(* responders, which matreshka-fastcgi-streaming_server.adb creates for    *)
(* each request and whose output goes through the descriptors.             *)
(*                                                                         *)
(* Both serve one connection at a time, a record at a time, and end when   *)
(* an exception is raised; the process manager then starts them again.     *)
(* The web server keeps to the protocol, and may do all it allows.         *)
(***************************************************************************)
EXTENDS Integers, Sequences

CONSTANTS
  Connection, None,
  Id,           \* request identifiers
  Name,         \* parameters of requests, "undecodable" among them
  Chunk,        \* pieces of the standard streams
  MaxRecords,   \* bound: records that the web server sends to each kind
  MaxUnread,    \* bound: of these, not received yet on a connection
  MaxWrites     \* bound: what handlers write

ASSUME FastCgiAssumption ==
  /\ None \notin Connection
  /\ Id \subseteq Nat \ {0}
  /\ "undecodable" \in Name
  /\ "end" \notin Name \cup Chunk
  /\ MaxRecords \in [{"callback", "responder"} -> Nat] /\ MaxUnread \in Nat /\ MaxWrites \in Nat

VARIABLES
  api,          \* which Execute
  up,           \* FALSE once it has raised an exception
  phase, inbox, \* of connections: inbox is sent and not received yet
  current,      \* the connection that is served
  dsc,          \* the global Dsc
  requests,     \* the map of descriptors
  event,        \* the request whose responder is running, or 0
  asked,        \* what the web server has sent of its requests
  written, sent,  \* what responders wrote, and what of it was sent
  early,        \* requests whose headers were ended before their parameters
  disturbed,    \* connections on which something happened that ends the
                \* application or a request; None is one left in the application
  records, writes

web == <<phase, inbox, asked, disturbed, records>>
responders == <<requests, event, written, sent, early, writes>>
vars == <<api, up, current, dsc, web, responders>>

Record ==
  [type : {"begin"}, id : Id, body : {"responder", "authorizer"}]
    \cup [type : {"params"}, id : Id, body : Name \cup {"end"}]
    \cup [type : {"stdin"}, id : Id, body : Chunk \cup {"end"}]
    \cup [type : {"abort"}, id : Id, body : {"end"}]

Unasked == [state |-> "none", params |-> {}, stdin |-> <<>>, answer |-> <<>>]

(* output: what Query_Items, Reply_Headers, Stdout and Stderr hold. *)
Idle == [id |-> 0, headers |-> {}, stdin |-> <<>>, output |-> <<>>]

(* A descriptor, and none. *)
Absent == [open |-> FALSE, params_done |-> FALSE, headers_done |-> FALSE,
           stdout_data |-> <<>>, stderr_data |-> <<>>]
Begun == [Absent EXCEPT !.open = TRUE]

Silent == [stdout |-> <<>>, stderr |-> <<>>]

Init ==
  /\ api \in {"callback", "responder"}
  /\ up = TRUE /\ current = None
  /\ phase = [c \in Connection |-> "closed"]
  /\ inbox = [c \in Connection |-> <<>>]
  /\ dsc = Idle
  /\ requests = [i \in Id |-> Absent] /\ event = 0
  /\ asked = [c \in Connection |-> [i \in Id |-> Unasked]]
  /\ written = [i \in Id |-> Silent] /\ sent = [i \in Id |-> Silent]
  /\ early = {} /\ disturbed = {}
  /\ records = 0 /\ writes = 0

----------------------------------------------------------------------------
(* The web server *)

Open(a) == a.state \in {"params", "stdin", "complete"}

Connect(c) ==
  /\ phase[c] = "closed"
  /\ phase' = [phase EXCEPT ![c] = "queued"]
  /\ inbox' = [inbox EXCEPT ![c] = <<>>]
  /\ asked' = [asked EXCEPT ![c] = [i \in Id |-> Unasked]]
  /\ disturbed' = disturbed \ {c}
  /\ UNCHANGED <<api, up, current, dsc, records, responders>>

Disturbs(c, how) == disturbed' = IF how THEN disturbed \cup {c} ELSE disturbed

(* Sends record r; a is what has been asked for by then. *)
Send(c, r, a) ==
  /\ phase[c] \in {"queued", "served"} /\ records < MaxRecords[api]
  /\ Len(inbox[c]) < MaxUnread
  /\ records' = records + 1
  /\ inbox' = [inbox EXCEPT ![c] = Append(@, r)]
  /\ asked' = [asked EXCEPT ![c][r.id] = a]
  /\ UNCHANGED <<api, up, current, dsc, phase, responders>>

(* A request may share the connection with another, and its role need not  *)
(* be that of a responder.                                                 *)
SendBegin(c, i) ==
  /\ ~Open(asked[c][i]) /\ asked[c][i].state # "aborted"
  /\ \E role \in {"responder", "authorizer"} :
       /\ Send(c, [type |-> "begin", id |-> i, body |-> role],
               [Unasked EXCEPT !.state = "params"])
       /\ Disturbs(c, role # "responder" \/ \E j \in Id : Open(asked[c][j]))

SendParams(c, i) ==
  /\ asked[c][i].state = "params"
  /\ \/ \E n \in Name \ asked[c][i].params :
          /\ Send(c, [type |-> "params", id |-> i, body |-> n],
                  [asked[c][i] EXCEPT !.params = @ \cup {n}])
          /\ Disturbs(c, n = "undecodable")
     \/ /\ Send(c, [type |-> "params", id |-> i, body |-> "end"],
                [asked[c][i] EXCEPT !.state = "stdin"])
        /\ UNCHANGED disturbed

SendStdin(c, i) ==
  /\ asked[c][i].state = "stdin"
  /\ \/ \E d \in Chunk :
          Send(c, [type |-> "stdin", id |-> i, body |-> d],
               [asked[c][i] EXCEPT !.stdin = Append(@, d)])
     \/ Send(c, [type |-> "stdin", id |-> i, body |-> "end"],
             [asked[c][i] EXCEPT !.state = "complete"])
  /\ UNCHANGED disturbed

SendAbort(c, i) ==
  /\ Open(asked[c][i])
  /\ Send(c, [type |-> "abort", id |-> i, body |-> "end"],
          [asked[c][i] EXCEPT !.state = "aborted"])
  /\ Disturbs(c, TRUE)

(* What has been sent can still be received. *)
Hangup(c) ==
  /\ phase[c] \in {"queued", "served"}
  /\ phase' = [phase EXCEPT ![c] = IF phase[c] = "served" THEN "ending" ELSE "left"]
  /\ Disturbs(c, \E i \in Id : Open(asked[c][i]))
  /\ UNCHANGED <<api, up, current, dsc, inbox, asked, records, responders>>

----------------------------------------------------------------------------
(* Connections *)

(* An exception leaves Execute, and the process ends. *)
Raise ==
  /\ up' = FALSE
  /\ UNCHANGED <<dsc, responders, asked>>

Accept ==
  /\ up /\ current = None
  /\ \E c \in Connection :
       /\ phase[c] \in {"queued", "left"}
       /\ current' = c
       /\ phase' = [phase EXCEPT ![c] = IF @ = "queued" THEN "served" ELSE "ending"]
  /\ UNCHANGED <<api, up, dsc, inbox, asked, disturbed, records, responders>>

CloseSocketKept ==
  /\ up /\ current # None /\ event = 0
  /\ phase[current] = "ending" /\ inbox[current] = <<>>
  /\ phase' = [phase EXCEPT ![current] = "closed"]
  /\ UNCHANGED <<api, up, current, dsc, inbox, asked, disturbed, records, responders>>

(* Nothing is left to be received from a connection that was ended.  What  *)
(* an abandoned request has left in Dsc stays there.                       *)
CloseSocket ==
  /\ up /\ current # None /\ event = 0
  /\ phase[current] = "ending" /\ inbox[current] = <<>>
  /\ phase' = [phase EXCEPT ![current] = "closed"]
  /\ current' = None
  /\ Disturbs(None, current \in disturbed /\ dsc # Idle)
  /\ UNCHANGED <<api, up, dsc, inbox, asked, records, responders>>

Received(type) ==
  /\ up /\ current # None /\ event = 0
  /\ inbox[current] # <<>> /\ Head(inbox[current]).type = type
  /\ inbox' = [inbox EXCEPT ![current] = Tail(@)]
  /\ UNCHANGED <<api, current, phase, records>>

(* A record that has not arrived as a whole when it is received. *)
ReceivePart ==
  /\ \E type \in {"begin", "params", "stdin", "abort"} : Received(type)
  /\ Disturbs(current, TRUE)
  /\ Raise

ReceiveAbort ==
  /\ Received("abort")
  /\ UNCHANGED <<up, dsc, asked, disturbed, responders>>

Restart ==
  /\ ~up
  /\ up' = TRUE
  /\ current' = None
  /\ phase' = IF current = None THEN phase ELSE [phase EXCEPT ![current] = "closed"]
  /\ inbox' = IF current = None THEN inbox ELSE [inbox EXCEPT ![current] = <<>>]
  /\ dsc' = Idle
  /\ requests' = [i \in Id |-> Absent] /\ event' = 0
  /\ written' = [i \in Id |-> Silent] /\ sent' = [i \in Id |-> Silent]
  /\ early' = {} /\ disturbed' = disturbed \ {None}
  /\ UNCHANGED <<api, asked, records, writes>>

----------------------------------------------------------------------------
(* Execute for a callback *)

ProcessBeginRequest ==
  /\ api = "callback"
  /\ Received("begin")
  /\ LET r == Head(inbox[current])
     IN  IF r.body # "responder" \/ dsc.id # 0
         THEN Raise
         ELSE dsc' = [dsc EXCEPT !.id = r.id] /\ UNCHANGED <<up, asked, responders>>
  /\ UNCHANGED disturbed

(* Request_Headers.Insert raises when the name is there already. *)
ProcessParams ==
  /\ api = "callback"
  /\ Received("params")
  /\ LET r == Head(inbox[current])
     IN  IF dsc.id # r.id \/ r.body \in dsc.headers
         THEN Raise
         ELSE /\ dsc' = [dsc EXCEPT !.headers = @ \cup ({r.body} \ {"end"})]
              /\ UNCHANGED <<up, asked, responders>>
  /\ UNCHANGED disturbed

ResetButOutput(output) == [Idle EXCEPT !.output = output]
ResetButId(output) == [Idle EXCEPT !.id = dsc.id]
Reset(output) == Idle

(* The callback is called with Dsc, and what it replies is sent at once,   *)
(* after what the buffers still hold; that may fail when the web server    *)
(* has gone.  Replies are told apart by the input that they answer.        *)
ExecuteRequest(i) ==
  \/ /\ "undecodable" \notin dsc.headers
     /\ LET output == dsc.output \o dsc.stdin
        IN  /\ asked' = [asked EXCEPT ![current][i].state = "answered",
                                      ![current][i].answer = output]
            /\ dsc' = Reset(output)
     /\ UNCHANGED <<up, responders>>
  \/ /\ "undecodable" \in dsc.headers \/ phase[current] = "ending"
     /\ Raise

ProcessStdin ==
  /\ api = "callback"
  /\ Received("stdin")
  /\ LET r == Head(inbox[current])
     IN  IF dsc.id # r.id THEN Raise
         ELSE IF r.body = "end" THEN ExecuteRequest(r.id)
         ELSE /\ dsc' = [dsc EXCEPT !.stdin = Append(@, r.body)]
              /\ UNCHANGED <<up, asked, responders>>
  /\ UNCHANGED disturbed

----------------------------------------------------------------------------
(* Execute for responders *)

(* Requests.Insert raises when the request is there already: none is ever  *)
(* taken out.                                                              *)
BeginRequest ==
  /\ api = "responder"
  /\ Received("begin")
  /\ LET r == Head(inbox[current])
     IN  IF r.body # "responder" \/ requests[r.id].open
         THEN Raise
         ELSE /\ requests' = [requests EXCEPT ![r.id] = Begun]
              /\ event' = r.id
              /\ UNCHANGED <<up, dsc, asked, written, sent, early, writes>>
  /\ UNCHANGED disturbed

(* Internal_Params: at the end of the parameters stderr is flushed. *)
ParamsDoneUnflushed(d) == [d EXCEPT !.params_done = TRUE]
ParamsDone(d) == [d EXCEPT !.params_done = TRUE, !.stderr_data = <<>>]

InternalParams ==
  /\ api = "responder"
  /\ Received("params")
  /\ LET r == Head(inbox[current])
         d == requests[r.id]
     IN  \/ /\ \/ ~d.open
               \/ r.body = "end" /\ d.stderr_data # <<>> /\ phase[current] = "ending"
            /\ Raise
         \/ /\ d.open
            /\ event' = r.id
            /\ IF r.body = "end"
               THEN /\ requests' = [requests EXCEPT ![r.id] = ParamsDone(d)]
                    /\ sent' = [sent EXCEPT ![r.id].stderr = @ \o d.stderr_data]
               ELSE UNCHANGED <<requests, sent>>
            /\ UNCHANGED <<up, dsc, asked, written, early, writes>>
  /\ UNCHANGED disturbed

InternalStdin ==
  /\ api = "responder"
  /\ Received("stdin")
  /\ LET r == Head(inbox[current])
     IN  IF r.body # "end" /\ ~requests[r.id].open THEN Raise
         ELSE /\ event' = IF r.body = "end" THEN 0 ELSE r.id
              /\ UNCHANGED <<up, dsc, asked, requests, written, sent, early, writes>>
  /\ UNCHANGED disturbed

(* The methods of a responder, which its events may call. *)
Calling ==
  /\ up /\ event # 0
  /\ UNCHANGED <<api, up, current, dsc, web, event>>

EndHeaders ==
  /\ Calling
  /\ LET d == requests[event]
     IN  /\ requests' = [requests EXCEPT ![event] =
                           IF d.params_done
                           THEN [Begun EXCEPT !.params_done = TRUE, !.headers_done = TRUE]
                           ELSE [d EXCEPT !.headers_done = TRUE]]
         /\ sent' = IF d.params_done
                    THEN [sent EXCEPT ![event] = [stdout |-> @.stdout \o d.stdout_data,
                                                  stderr |-> @.stderr \o d.stderr_data]]
                    ELSE sent
         /\ early' = IF d.params_done THEN early ELSE early \cup {event}
  /\ UNCHANGED <<written, writes>>

Writing ==
  /\ Calling
  /\ writes < MaxWrites
  /\ writes' = writes + 1

Stdout ==
  /\ Writing
  /\ \E x \in Chunk :
       /\ written' = [written EXCEPT ![event].stdout = Append(@, x)]
       /\ IF ~requests[event].params_done \/ ~requests[event].headers_done
          THEN /\ requests' = [requests EXCEPT ![event].stdout_data = Append(@, x)]
               /\ UNCHANGED sent
          ELSE /\ sent' = [sent EXCEPT ![event].stdout = Append(@, x)]
               /\ UNCHANGED requests
  /\ UNCHANGED early

Stderr ==
  /\ Writing
  /\ \E x \in Chunk :
       /\ written' = [written EXCEPT ![event].stderr = Append(@, x)]
       /\ IF ~requests[event].params_done
          THEN /\ requests' = [requests EXCEPT ![event].stderr_data = Append(@, x)]
               /\ UNCHANGED sent
          ELSE /\ sent' = [sent EXCEPT ![event].stderr = Append(@, x)]
               /\ UNCHANGED requests
  /\ UNCHANGED early

Return ==
  /\ up /\ event # 0
  /\ event' = 0
  /\ UNCHANGED <<api, up, current, dsc, web, requests, written, sent, early, writes>>

(* What a responder writes is sent at once, which may fail too. *)
SendFails ==
  /\ up /\ event # 0 /\ phase[current] = "ending"
  /\ Raise
  /\ UNCHANGED <<api, current, phase, inbox, disturbed, records>>

----------------------------------------------------------------------------
WebServer ==
  \E c \in Connection :
    \/ Connect(c) \/ Hangup(c)
    \/ \E i \in Id : SendBegin(c, i) \/ SendParams(c, i) \/ SendStdin(c, i) \/ SendAbort(c, i)

Serving ==
  \/ Accept \/ CloseSocket \/ ReceiveAbort
  \/ ProcessBeginRequest \/ ProcessParams \/ ProcessStdin
  \/ BeginRequest \/ InternalParams \/ InternalStdin

Responding == EndHeaders \/ Stdout \/ Stderr \/ Return \/ SendFails

Next == WebServer \/ Serving \/ Responding \/ ReceivePart \/ Restart

(* The application goes on receiving what has been sent.  Web servers need *)
(* not send anything, and responders need not return.                      *)
Spec == Init /\ [][Next]_vars /\ WF_vars(Serving)

----------------------------------------------------------------------------
(* Everything keeps its type, and the connection that is served is the only *)
(* one that is.                                                            *)
TypeOK ==
  /\ api \in {"callback", "responder"} /\ up \in BOOLEAN
  /\ phase \in [Connection -> {"closed", "queued", "left", "served", "ending"}]
  /\ inbox \in [Connection -> Seq(Record)]
  /\ current \in Connection \cup {None}
  /\ \A c \in Connection : phase[c] \in {"served", "ending"} <=> c = current
  /\ dsc \in [id : Id \cup {0}, headers : SUBSET Name, stdin : Seq(Chunk),
             output : Seq(Chunk)]
  /\ requests \in [Id -> [open : BOOLEAN, params_done : BOOLEAN, headers_done : BOOLEAN,
                          stdout_data : Seq(Chunk), stderr_data : Seq(Chunk)]]
  /\ event \in Id \cup {0}
  /\ asked \in [Connection -> [Id -> [state : {"none", "params", "stdin", "complete",
                                              "answered", "aborted"},
                                     params : SUBSET Name, stdin : Seq(Chunk),
                                     answer : Seq(Chunk)]]]
  /\ written \in [Id -> [stdout : Seq(Chunk), stderr : Seq(Chunk)]]
  /\ sent \in [Id -> [stdout : Seq(Chunk), stderr : Seq(Chunk)]]
  /\ early \subseteq Id /\ disturbed \subseteq Connection \cup {None}
  /\ records \in 0..MaxRecords[api] /\ writes \in 0..MaxWrites

(* The callback is given the parameters and the input that the web server  *)
(* sent for the request it answers, all of them and nothing of a request   *)
(* before, on this connection or another, and replies nothing of one.      *)
HandlerSeesRequest ==
  [][\A c \in Connection, i \in Id :
       asked[c][i].state # "answered" /\ asked'[c][i].state = "answered"
         => /\ asked[c][i].state \in {"complete", "aborted"}
            /\ dsc.id = i
            /\ dsc.headers = asked[c][i].params
            /\ dsc.stdin = asked[c][i].stdin
            /\ asked'[c][i].answer = asked[c][i].stdin
    ]_vars

(* Output w is sent as s: a part of it, that of the first m pieces which   *)
(* follows the k first, has overtaken these.                               *)
Overtaken(w, s) ==
  \E m \in 0..Len(w) : \E k \in 0..m :
    s = SubSeq(w, k + 1, m) \o SubSeq(w, 1, k) \o SubSeq(w, m + 1, Len(w))

(* What a responder writes is sent in order and once, not before the       *)
(* headers are ended and the parameters have come, and nothing is held     *)
(* back after that; except that of a request whose headers were ended      *)
(* before the parameters had come.  The standard output that was kept back *)
(* by then is held while what is written later is sent; it is sent only    *)
(* when the headers are ended again, after what has overtaken it.          *)
OutputInOrder ==
  \A i \in Id :
    LET d == requests[i]
        w == written[i].stdout
        s == sent[i].stdout
    IN  /\ written[i].stderr = sent[i].stderr \o d.stderr_data
        /\ d.params_done => d.stderr_data = <<>>
        /\ ~d.headers_done \/ ~d.params_done => s = <<>>
        /\ i \notin early => w = s \o d.stdout_data /\ (d.headers_done => d.stdout_data = <<>>)
        /\ i \in early => \/ w = d.stdout_data \o s
                          \/ d.stdout_data = <<>> /\ Overtaken(w, s)

(* A request that has come completely on the connection that is served is  *)
(* answered, and the application does not end before, unless a request or  *)
(* the network was out of the ordinary on this connection, or a connection *)
(* before, since the application was started, was closed in the middle of  *)
(* a request: its identifier stays in Dsc, and the next begin raises (line *)
(* 372).  What else earlier requests and connections leave behind does not *)
(* stop it.  (Whether the application is started again does not matter:    *)
(* nobody promises that.)                                                  *)
Waiting(c) == ~up \/ \E i \in Id : asked[c][i].state = "complete"

RequestsAreAnswered ==
  \A c \in Connection :
    (api = "callback" /\ current = c /\ Waiting(c)) ~>
      (disturbed \cap {c, None} # {} \/ ~Waiting(c))
=============================================================================
