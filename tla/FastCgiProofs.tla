--------------------------- MODULE FastCgiProofs ---------------------------
(***************************************************************************)
(* Theorems about FastCgi, for any number of connections, requests and     *)
(* records: types, the order of what responders write, and what a callback *)
(* is given of its request.                                                *)
(***************************************************************************)
EXTENDS FastCgi, SequenceTheorems, TLAPS

Streams == [stdout : Seq(Chunk), stderr : Seq(Chunk)]
Descriptors == [open : BOOLEAN, params_done : BOOLEAN, headers_done : BOOLEAN,
                stdout_data : Seq(Chunk), stderr_data : Seq(Chunk)]
Requests == [state : {"none", "params", "stdin", "complete", "answered", "aborted"},
             params : SUBSET Name, stdin : Seq(Chunk), answer : Seq(Chunk)]
Phases == {"closed", "queued", "left", "served", "ending"}

(* The two halves of TypeOK. *)
WebTypes ==
  /\ api \in {"callback", "responder"} /\ up \in BOOLEAN
  /\ phase \in [Connection -> Phases]
  /\ inbox \in [Connection -> Seq(Record)]
  /\ current \in Connection \cup {None}
  /\ \A c \in Connection : phase[c] \in {"served", "ending"} <=> c = current
  /\ asked \in [Connection -> [Id -> Requests]]
  /\ disturbed \subseteq Connection \cup {None}
  /\ records \in 0..MaxRecords[api]

ResponderTypes ==
  /\ requests \in [Id -> Descriptors]
  /\ event \in Id \cup {0}
  /\ written \in [Id -> Streams] /\ sent \in [Id -> Streams]
  /\ early \subseteq Id
  /\ writes \in 0..MaxWrites

(* Nothing is left in the buffers of Dsc between callbacks. *)
DscType ==
  dsc \in [id : Id \cup {0}, headers : SUBSET Name, stdin : Seq(Chunk), output : {<<>>}]

(* The parts of TypeOK, one for each group of variables. *)
LEMMA TypeParts == WebTypes /\ ResponderTypes /\ DscType => TypeOK
<1>1. DscType => dsc \in [id : Id \cup {0}, headers : SUBSET Name, stdin : Seq(Chunk),
                          output : Seq(Chunk)]
  <2>1. {<<>>} \subseteq Seq(Chunk)
    OBVIOUS
  <2>. QED BY <2>1 DEF DscType
<1>. QED
  BY <1>1 DEF WebTypes, ResponderTypes, TypeOK, Streams, Descriptors, Requests, Phases

(* The bound on records is a number. *)
LEMMA MaxRecordsType == api \in {"callback", "responder"} => MaxRecords[api] \in Nat
BY FastCgiAssumption

(* What a responder has written of request i, under descriptor d. *)
StreamsAgree(d, w, s, isEarly) ==
  /\ w.stderr = s.stderr \o d.stderr_data
  /\ d.params_done => d.stderr_data = <<>>
  /\ ~d.headers_done \/ ~d.params_done => w.stdout = d.stdout_data /\ s.stdout = <<>>
  /\ ~isEarly =>
       /\ w.stdout = s.stdout \o d.stdout_data
       /\ d.headers_done => d.stdout_data = <<>>
  /\ isEarly => \/ w.stdout = d.stdout_data \o s.stdout
                \/ d.stdout_data = <<>> /\ Overtaken(w.stdout, s.stdout)
  /\ d.headers_done /\ ~d.params_done => isEarly

(* OutputInOrder is inductive with four facts more: all that was written   *)
(* is held until both have come, whose headers are ended before the        *)
(* parameters is early, a request that has not begun has no output, and    *)
(* events are those of requests that have.                                 *)
OutputInv ==
  /\ \A i \in Id : StreamsAgree(requests[i], written[i], sent[i], i \in early)
  /\ \A i \in Id : ~requests[i].open =>
       /\ requests[i] = Absent
       /\ written[i] = Silent /\ sent[i] = Silent
       /\ i \notin early
  /\ event # 0 => requests[event].open

ResponderInv == ResponderTypes /\ OutputInv

(* The invariant says more than OutputInOrder. *)
LEMMA OutputParts == OutputInv => OutputInOrder
BY DEF OutputInv, OutputInOrder, StreamsAgree

----------------------------------------------------------------------------
(* The start, and every start again. *)

(* Nothing written, nothing sent and nothing kept back agree. *)
LEMMA NoStreams ==
  ASSUME NEW d, NEW w, NEW s, NEW e, d = Absent, w = Silent, s = Silent
  PROVE  StreamsAgree(d, w, s, e)
<1>1. <<>> = <<>> \o <<>>
  OBVIOUS
<1>. QED BY <1>1 DEF StreamsAgree, Absent, Silent

(* An application that has just been started has no requests. *)
LEMMA NothingWritten ==
  ASSUME requests' = [i \in Id |-> Absent], event' = 0,
         written' = [i \in Id |-> Silent], sent' = [i \in Id |-> Silent],
         early' = {}, writes' \in 0..MaxWrites
  PROVE  ResponderInv'
<1>1. Absent \in Descriptors /\ Silent \in Streams
  BY DEF Absent, Descriptors, Silent, Streams
<1>2. ResponderTypes'
  BY <1>1 DEF ResponderTypes
<1>3. OutputInv'
  BY NoStreams DEF OutputInv
<1>. QED BY <1>2, <1>3 DEF ResponderInv

(* The invariant holds when everything starts. *)
LEMMA Initially == Init => WebTypes /\ ResponderInv /\ DscType
<1>. SUFFICES ASSUME Init PROVE WebTypes /\ ResponderInv /\ DscType
  OBVIOUS
<1>1. WebTypes
  <2>1. Unasked \in Requests
    BY DEF Unasked, Requests
  <2>2. asked \in [Connection -> [Id -> Requests]]
    BY <2>1 DEF Init
  <2>3. records \in 0..MaxRecords[api]
    BY MaxRecordsType DEF Init
  <2>4. inbox \in [Connection -> Seq(Record)]
    BY DEF Init
  <2>. QED BY <2>2, <2>3, <2>4, FastCgiAssumption DEF Init, WebTypes, Phases
<1>2. ResponderTypes
  <2>1. Absent \in Descriptors /\ Silent \in Streams
    BY DEF Absent, Descriptors, Silent, Streams
  <2>. QED BY <2>1, FastCgiAssumption DEF Init, ResponderTypes
<1>3. OutputInv
  BY NoStreams DEF Init, OutputInv
<1>4. DscType
  BY DEF Init, DscType, Idle
<1>. QED BY <1>1, <1>2, <1>3, <1>4 DEF ResponderInv

----------------------------------------------------------------------------
(* The web server and the connections. *)

(* Records have the parts of their type. *)
LEMMA RecordParts ==
  ASSUME NEW r \in Record
  PROVE  /\ r.id \in Id
         /\ r.type = "params" => r.body \in Name \cup {"end"}
         /\ r.type = "stdin" => r.body \in Chunk \cup {"end"}
BY DEF Record

(* What is received is a record, from the connection that is served. *)
LEMMA ReceivedRecord ==
  ASSUME WebTypes, NEW type, Received(type)
  PROVE  /\ current \in Connection
         /\ Head(inbox[current]) \in Record
         /\ Head(inbox[current]).type = type
         /\ inbox' \in [Connection -> Seq(Record)]
<1>1. current \in Connection /\ inbox \in [Connection -> Seq(Record)] /\ inbox[current] # <<>>
  BY DEF WebTypes, Received
<1>2. inbox[current] \in Seq(Record)
  BY <1>1
<1>3. Head(inbox[current]) \in Record /\ Tail(inbox[current]) \in Seq(Record)
  BY <1>1, <1>2, HeadTailProperties
<1>4. inbox' \in [Connection -> Seq(Record)]
  BY <1>1, <1>3 DEF Received
<1>. QED BY <1>1, <1>3, <1>4 DEF Received

(* Requests keep their type whenever one of them takes another state. *)
LEMMA AskedType ==
  ASSUME asked \in [Connection -> [Id -> Requests]],
         NEW c \in Connection, NEW i \in Id, NEW a \in Requests,
         asked' = [asked EXCEPT ![c][i] = a]
  PROVE  asked' \in [Connection -> [Id -> Requests]]
<1>1. [asked[c] EXCEPT ![i] = a] \in [Id -> Requests]
  OBVIOUS
<1>2. asked' = [asked EXCEPT ![c] = [asked[c] EXCEPT ![i] = a]]
  OBVIOUS
<1>. QED BY <1>1, <1>2

(* Connections are disturbed, or the application. *)
LEMMA DisturbsType ==
  ASSUME WebTypes, NEW c \in Connection \cup {None}, NEW how, Disturbs(c, how)
  PROVE  disturbed' \subseteq Connection \cup {None}
BY DEF WebTypes, Disturbs

(* A record that is sent has the right type when it is received. *)
LEMMA SendType ==
  ASSUME WebTypes, NEW c \in Connection, NEW r \in Record, NEW a \in Requests,
         Send(c, r, a), disturbed' \subseteq Connection \cup {None}
  PROVE  WebTypes'
<1>1. inbox' \in [Connection -> Seq(Record)]
  <2>1. Append(inbox[c], r) \in Seq(Record)
    BY AppendProperties DEF WebTypes
  <2>. QED BY <2>1 DEF Send, WebTypes
<1>2. asked' \in [Connection -> [Id -> Requests]]
  <2>1. r.id \in Id
    BY RecordParts
  <2>. QED BY <2>1, AskedType DEF Send, WebTypes
<1>3. records' \in 0..MaxRecords[api]'
  BY MaxRecordsType DEF Send, WebTypes
<1>. QED BY <1>1, <1>2, <1>3 DEF Send, WebTypes

(* What the web server does leaves the application as it is. *)
LEMMA WebServerStep ==
  ASSUME WebTypes, WebServer
  PROVE  WebTypes' /\ UNCHANGED responders /\ UNCHANGED dsc
<1>. PICK c \in Connection :
       \/ Connect(c) \/ Hangup(c)
       \/ \E i \in Id : SendBegin(c, i) \/ SendParams(c, i) \/ SendStdin(c, i) \/ SendAbort(c, i)
  BY DEF WebServer
<1>1. CASE Connect(c)
  <2>1. Unasked \in Requests
    BY DEF Unasked, Requests
  <2>2. asked' \in [Connection -> [Id -> Requests]]
    BY <1>1, <2>1 DEF Connect, WebTypes
  <2>3. inbox' \in [Connection -> Seq(Record)]
    BY <1>1 DEF Connect, WebTypes
  <2>. QED BY <1>1, <2>2, <2>3 DEF Connect, WebTypes, Phases, responders
<1>2. CASE Hangup(c)
  <2>1. disturbed' \subseteq Connection \cup {None}
    BY <1>2, DisturbsType DEF Hangup
  <2>. QED BY <1>2, <2>1 DEF Hangup, WebTypes, Phases, responders
<1>3. ASSUME NEW i \in Id, SendBegin(c, i)
      PROVE  WebTypes' /\ UNCHANGED responders /\ UNCHANGED dsc
  <2>1. [Unasked EXCEPT !.state = "params"] \in Requests
    <3>1. Unasked \in Requests
      BY DEF Unasked, Requests
    <3>. QED BY <3>1 DEF Requests
  <2>2. PICK role \in {"responder", "authorizer"} :
          /\ Send(c, [type |-> "begin", id |-> i, body |-> role],
                  [Unasked EXCEPT !.state = "params"])
          /\ Disturbs(c, role # "responder" \/ \E j \in Id : Open(asked[c][j]))
    BY <1>3 DEF SendBegin
  <2>3. [type |-> "begin", id |-> i, body |-> role] \in Record
    BY DEF Record
  <2>4. disturbed' \subseteq Connection \cup {None}
    BY <2>2, DisturbsType
  <2>5. WebTypes'
    BY <2>1, <2>2, <2>3, <2>4, SendType
  <2>. QED BY <2>2, <2>5 DEF Send, responders
<1>4. ASSUME NEW i \in Id, SendParams(c, i)
      PROVE  WebTypes' /\ UNCHANGED responders /\ UNCHANGED dsc
  <2>1. asked[c][i] \in Requests
    BY DEF WebTypes
  <2>2. CASE \E n \in Name : /\ Send(c, [type |-> "params", id |-> i, body |-> n],
                                     [asked[c][i] EXCEPT !.params = @ \cup {n}])
                             /\ Disturbs(c, n = "undecodable")
    <3>1. PICK n \in Name : /\ Send(c, [type |-> "params", id |-> i, body |-> n],
                                     [asked[c][i] EXCEPT !.params = @ \cup {n}])
                            /\ Disturbs(c, n = "undecodable")
      BY <2>2
    <3>2. [type |-> "params", id |-> i, body |-> n] \in Record
      BY DEF Record
    <3>3. [asked[c][i] EXCEPT !.params = @ \cup {n}] \in Requests
      BY <2>1 DEF Requests
    <3>4. disturbed' \subseteq Connection \cup {None}
      BY <3>1, DisturbsType
    <3>5. WebTypes'
      BY <3>1, <3>2, <3>3, <3>4, SendType
    <3>. QED BY <3>1, <3>5 DEF Send, responders
  <2>3. CASE /\ Send(c, [type |-> "params", id |-> i, body |-> "end"],
                     [asked[c][i] EXCEPT !.state = "stdin"])
             /\ UNCHANGED disturbed
    <3>1. [type |-> "params", id |-> i, body |-> "end"] \in Record
      BY DEF Record
    <3>2. [asked[c][i] EXCEPT !.state = "stdin"] \in Requests
      BY <2>1 DEF Requests
    <3>3. WebTypes'
      BY <2>3, <3>1, <3>2, SendType DEF WebTypes
    <3>. QED BY <2>3, <3>3 DEF Send, responders
  <2>. QED BY <1>4, <2>2, <2>3 DEF SendParams
<1>5. ASSUME NEW i \in Id, SendStdin(c, i)
      PROVE  WebTypes' /\ UNCHANGED responders /\ UNCHANGED dsc
  <2>1. asked[c][i] \in Requests
    BY DEF WebTypes
  <2>2. CASE \E d \in Chunk : Send(c, [type |-> "stdin", id |-> i, body |-> d],
                                   [asked[c][i] EXCEPT !.stdin = Append(@, d)])
    <3>1. PICK d \in Chunk : Send(c, [type |-> "stdin", id |-> i, body |-> d],
                                  [asked[c][i] EXCEPT !.stdin = Append(@, d)])
      BY <2>2
    <3>2. [type |-> "stdin", id |-> i, body |-> d] \in Record
      BY DEF Record
    <3>3. Append(asked[c][i].stdin, d) \in Seq(Chunk)
      BY <2>1, AppendProperties DEF Requests
    <3>4. [asked[c][i] EXCEPT !.stdin = Append(@, d)] \in Requests
      BY <2>1, <3>3 DEF Requests
    <3>5. WebTypes'
      BY <1>5, <3>1, <3>2, <3>4, SendType DEF SendStdin, WebTypes
    <3>. QED BY <3>1, <3>5 DEF Send, responders
  <2>3. CASE Send(c, [type |-> "stdin", id |-> i, body |-> "end"],
                  [asked[c][i] EXCEPT !.state = "complete"])
    <3>1. [type |-> "stdin", id |-> i, body |-> "end"] \in Record
      BY DEF Record
    <3>2. [asked[c][i] EXCEPT !.state = "complete"] \in Requests
      BY <2>1 DEF Requests
    <3>3. WebTypes'
      BY <1>5, <2>3, <3>1, <3>2, SendType DEF SendStdin, WebTypes
    <3>. QED BY <2>3, <3>3 DEF Send, responders
  <2>. QED BY <1>5, <2>2, <2>3 DEF SendStdin
<1>6. ASSUME NEW i \in Id, SendAbort(c, i)
      PROVE  WebTypes' /\ UNCHANGED responders /\ UNCHANGED dsc
  <2>1. asked[c][i] \in Requests
    BY DEF WebTypes
  <2>2. [asked[c][i] EXCEPT !.state = "aborted"] \in Requests
    BY <2>1 DEF Requests
  <2>3. [type |-> "abort", id |-> i, body |-> "end"] \in Record
    BY DEF Record
  <2>4. WebTypes'
    <3>1. disturbed' \subseteq Connection \cup {None}
      BY <1>6, DisturbsType DEF SendAbort
    <3>. QED BY <1>6, <2>2, <2>3, <3>1, SendType DEF SendAbort
  <2>. QED BY <1>6, <2>4 DEF SendAbort, Send, responders
<1>. QED BY <1>1, <1>2, <1>3, <1>4, <1>5, <1>6

(* Without a record received or a connection accepted or closed, the types *)
(* of what the web server sees depend on little.                           *)
LEMMA WebKept ==
  ASSUME WebTypes, UNCHANGED <<api, phase, current, records>>,
         up' \in BOOLEAN, disturbed' \subseteq Connection \cup {None},
         inbox' \in [Connection -> Seq(Record)],
         asked' \in [Connection -> [Id -> Requests]]
  PROVE  WebTypes'
BY DEF WebTypes

(* The next connection is taken when none is served. *)
LEMMA AcceptStep ==
  ASSUME WebTypes, Accept
  PROVE  WebTypes' /\ UNCHANGED responders /\ UNCHANGED dsc
BY FastCgiAssumption DEF Accept, WebTypes, Phases, responders

(* The connection that is served is let go. *)
LEMMA CloseSocketStep ==
  ASSUME WebTypes, CloseSocket
  PROVE  WebTypes' /\ UNCHANGED responders /\ UNCHANGED dsc
<1>1. disturbed' \subseteq Connection \cup {None}
  BY DisturbsType DEF CloseSocket
<1>. QED BY <1>1, FastCgiAssumption DEF CloseSocket, WebTypes, Phases, responders

(* Aborts change nothing but what is left to be received. *)
LEMMA ReceiveAbortStep ==
  ASSUME WebTypes, ReceiveAbort
  PROVE  WebTypes' /\ UNCHANGED responders /\ UNCHANGED dsc
<1>1. inbox' \in [Connection -> Seq(Record)]
  BY ReceivedRecord DEF ReceiveAbort
<1>. QED BY <1>1, WebKept DEF ReceiveAbort, Received, WebTypes, responders

(* A record that arrives in parts ends the application as it is. *)
LEMMA ReceivePartStep ==
  ASSUME WebTypes, ReceivePart
  PROVE  WebTypes' /\ UNCHANGED responders /\ UNCHANGED dsc
<1>. PICK type \in {"begin", "params", "stdin", "abort"} : Received(type)
  BY DEF ReceivePart
<1>1. inbox' \in [Connection -> Seq(Record)]
  BY ReceivedRecord
<1>2. disturbed' \subseteq Connection \cup {None}
  BY DisturbsType DEF ReceivePart, WebTypes
<1>. QED BY <1>1, <1>2, WebKept DEF ReceivePart, Raise, Received, WebTypes, responders

(* So does output that cannot be sent. *)
LEMMA SendFailsStep ==
  ASSUME WebTypes, SendFails
  PROVE  WebTypes' /\ UNCHANGED responders /\ UNCHANGED dsc
BY DEF SendFails, Raise, WebTypes, responders

(* Whatever an application was doing when it ended, it starts anew. *)
LEMMA RestartStep ==
  ASSUME WebTypes, ResponderInv, Restart
  PROVE  WebTypes' /\ ResponderInv' /\ DscType'
<1>1. WebTypes'
  BY FastCgiAssumption DEF Restart, WebTypes, Phases
<1>2. ResponderInv'
  <2>1. writes' \in 0..MaxWrites
    BY DEF Restart, ResponderInv, ResponderTypes
  <2>. QED BY <2>1, NothingWritten DEF Restart
<1>3. DscType'
  BY DEF Restart, DscType, Idle
<1>. QED BY <1>1, <1>2, <1>3

----------------------------------------------------------------------------
(* Execute for a callback. *)

(* The records of a request, until it is answered and Dsc is reset. *)
LEMMA CallbackStep ==
  ASSUME WebTypes, DscType, ProcessBeginRequest \/ ProcessParams \/ ProcessStdin
  PROVE  WebTypes' /\ DscType' /\ UNCHANGED responders
<1>. DEFINE r == Head(inbox[current])
<1>1. CASE ProcessBeginRequest
  <2>1. Received("begin")
    BY <1>1 DEF ProcessBeginRequest
  <2>2. r.id \in Id /\ inbox' \in [Connection -> Seq(Record)]
    BY <2>1, ReceivedRecord, RecordParts
  <2>3. CASE Raise
    BY <1>1, <2>1, <2>2, <2>3, WebKept
       DEF ProcessBeginRequest, Received, Raise, WebTypes, DscType, responders
  <2>4. CASE dsc' = [dsc EXCEPT !.id = r.id] /\ UNCHANGED <<up, asked, responders>>
    BY <1>1, <2>1, <2>2, <2>4, WebKept DEF ProcessBeginRequest, Received, WebTypes, DscType
  <2>. QED BY <1>1, <2>3, <2>4 DEF ProcessBeginRequest
<1>2. CASE ProcessParams
  <2>1. Received("params")
    BY <1>2 DEF ProcessParams
  <2>2. r.body \in Name \cup {"end"} /\ inbox' \in [Connection -> Seq(Record)]
    BY <2>1, ReceivedRecord, RecordParts
  <2>3. CASE Raise
    BY <1>2, <2>1, <2>2, <2>3, WebKept
       DEF ProcessParams, Received, Raise, WebTypes, DscType, responders
  <2>4. CASE /\ dsc' = [dsc EXCEPT !.headers = @ \cup ({r.body} \ {"end"})]
             /\ UNCHANGED <<up, asked, responders>>
    BY <1>2, <2>1, <2>2, <2>4, WebKept DEF ProcessParams, Received, WebTypes, DscType
  <2>. QED BY <1>2, <2>3, <2>4 DEF ProcessParams
<1>3. CASE ProcessStdin
  <2>1. Received("stdin")
    BY <1>3 DEF ProcessStdin
  <2>2. /\ current \in Connection /\ r.id \in Id
        /\ r.body \in Chunk \cup {"end"} /\ inbox' \in [Connection -> Seq(Record)]
    BY <2>1, ReceivedRecord, RecordParts
  <2>3. CASE Raise
    BY <1>3, <2>1, <2>2, <2>3, WebKept
       DEF ProcessStdin, Received, Raise, WebTypes, DscType, responders
  <2>4. CASE /\ dsc' = Reset(dsc.output \o dsc.stdin)
             /\ asked' = [asked EXCEPT ![current][r.id].state = "answered",
                                      ![current][r.id].answer = dsc.output \o dsc.stdin]
             /\ UNCHANGED <<up, responders>>
    <3>. DEFINE a == [asked[current][r.id] EXCEPT !.state = "answered",
                                                 !.answer = dsc.output \o dsc.stdin]
    <3>0. dsc.output \o dsc.stdin \in Seq(Chunk)
      <4>1. dsc.output = <<>> /\ dsc.stdin \in Seq(Chunk)
        BY DEF DscType
      <4>. QED BY <4>1, ConcatProperties
    <3>1. a \in Requests
      <4>1. asked[current][r.id] \in Requests
        BY <2>2 DEF WebTypes
      <4>. QED BY <3>0, <4>1 DEF Requests
    <3>2. asked' = [asked EXCEPT ![current][r.id] = a]
      BY <2>2, <2>4 DEF WebTypes
    <3>3. asked' \in [Connection -> [Id -> Requests]]
      <4>. HIDE DEF a, r
      <4>. QED BY <2>2, <3>1, <3>2, AskedType DEF WebTypes
    <3>4. DscType'
      BY <2>4 DEF DscType, Reset, Idle
    <3>. QED BY <1>3, <2>1, <2>2, <2>4, <3>3, <3>4, WebKept DEF ProcessStdin, Received, WebTypes
  <2>5. CASE /\ r.body # "end"
             /\ dsc' = [dsc EXCEPT !.stdin = Append(@, r.body)]
             /\ UNCHANGED <<up, asked, responders>>
    <3>1. DscType'
      <4>1. Append(dsc.stdin, r.body) \in Seq(Chunk)
        BY <2>2, <2>5, AppendProperties DEF DscType
      <4>. QED BY <2>5, <4>1 DEF DscType
    <3>. QED BY <1>3, <2>1, <2>2, <2>5, <3>1, WebKept DEF ProcessStdin, Received, WebTypes
  <2>. QED BY <1>3, <2>3, <2>4, <2>5 DEF ProcessStdin, ExecuteRequest
<1>. QED BY <1>1, <1>2, <1>3

----------------------------------------------------------------------------
(* Execute for responders. *)

(* What is written last is sent last, or kept last. *)
LEMMA LastPiece ==
  ASSUME NEW s \in Seq(Chunk), NEW d \in Seq(Chunk), NEW x \in Chunk
  PROVE  Append(s \o d, x) = s \o Append(d, x)
<1>1. s \o d \in Seq(Chunk)
  BY ConcatProperties
<1>2. \A t \in Seq(Chunk) : Append(t, x) = t \o <<x>>
  BY AppendIsConcat
<1>3. <<x>> \in Seq(Chunk)
  OBVIOUS
<1>4. (s \o d) \o <<x>> = s \o (d \o <<x>>)
  BY <1>3, ConcatAssociative
<1>. QED BY <1>1, <1>2, <1>4

(* So are all that is sent and all that is kept pieces in order. *)
LEMMA Pieces ==
  ASSUME NEW s \in Seq(Chunk), NEW d \in Seq(Chunk), NEW x \in Chunk
  PROVE  /\ Append(s, x) \in Seq(Chunk) /\ s \o d \in Seq(Chunk)
         /\ Append(s \o d, x) = s \o Append(d, x)
         /\ s \o <<>> = s /\ <<>> \o s = s
<1>1. Append(s, x) \in Seq(Chunk) /\ s \o d \in Seq(Chunk)
  BY AppendProperties, ConcatProperties
<1>2. Append(s \o d, x) = s \o Append(d, x)
  BY LastPiece
<1>3. s \o <<>> = s /\ <<>> \o s = s
  BY ConcatEmptySeq
<1>. QED BY <1>1, <1>2, <1>3

(* Three pieces of output, of which the second overtakes the first. *)
LEMMA OvertakenPieces ==
  ASSUME NEW a \in Seq(Chunk), NEW b \in Seq(Chunk), NEW c \in Seq(Chunk)
  PROVE  Overtaken((a \o b) \o c, (b \o a) \o c)
<1>. DEFINE w == (a \o b) \o c
            k == Len(a)
            m == Len(a) + Len(b)
<1>1. /\ a \o b \in Seq(Chunk) /\ Len(a \o b) = m
      /\ \A j \in 1..m : (a \o b)[j] = IF j <= k THEN a[j] ELSE b[j - k]
  BY ConcatProperties
<1>2. /\ w \in Seq(Chunk) /\ Len(w) = m + Len(c)
      /\ \A j \in 1..m + Len(c) : w[j] = IF j <= m THEN (a \o b)[j] ELSE c[j - m]
  BY <1>1, ConcatProperties
<1>3. /\ k \in Nat /\ m \in Nat /\ Len(b) \in Nat /\ Len(c) \in Nat /\ k <= m
      /\ m = k + Len(b) /\ m \in 0..Len(w) /\ k \in 0..m
  BY <1>2, LenProperties
<1>. HIDE DEF w, k, m
<1>4. \A j \in 1..Len(w) : w[j] \in Chunk
  BY <1>2, ElementOfSeq
<1>5. SubSeq(w, 1, k) = a
  <2>1. /\ SubSeq(w, 1, k) \in Seq(Chunk) /\ Len(SubSeq(w, 1, k)) = k
        /\ \A j \in 1..k : SubSeq(w, 1, k)[j] = w[j]
    BY <1>2, <1>3, <1>4, SubSeqProperties
  <2>2. \A j \in 1..k : w[j] = a[j]
    BY <1>1, <1>2, <1>3
  <2>. QED BY <2>1, <2>2, SeqEqual DEF k
<1>6. SubSeq(w, k + 1, m) = b
  <2>1. /\ SubSeq(w, k + 1, m) \in Seq(Chunk) /\ Len(SubSeq(w, k + 1, m)) = Len(b)
        /\ \A j \in 1..Len(b) : SubSeq(w, k + 1, m)[j] = w[k + j]
    BY <1>2, <1>3, <1>4, SubSeqProperties
  <2>2. \A j \in 1..Len(b) : w[k + j] = b[j]
    BY <1>1, <1>2, <1>3
  <2>. QED BY <2>1, <2>2, SeqEqual
<1>7. SubSeq(w, m + 1, Len(w)) = c
  <2>1. /\ SubSeq(w, m + 1, Len(w)) \in Seq(Chunk) /\ Len(SubSeq(w, m + 1, Len(w))) = Len(c)
        /\ \A j \in 1..Len(c) : SubSeq(w, m + 1, Len(w))[j] = w[m + j]
    BY <1>2, <1>3, <1>4, SubSeqProperties
  <2>2. \A j \in 1..Len(c) : w[m + j] = c[j]
    BY <1>2, <1>3
  <2>. QED BY <2>1, <2>2, SeqEqual
<1>8. Overtaken(w, (b \o a) \o c)
  BY <1>3, <1>5, <1>6, <1>7 DEF Overtaken
<1>. QED BY <1>8 DEF w

(* Of the pieces of w, the first two are sent the other way round as s. *)
Swapped(w, s, a, b, c) == w = (a \o b) \o c /\ s = (b \o a) \o c

(* Output that has been overtaken consists of such pieces. *)
LEMMA PiecesOvertaken ==
  ASSUME NEW w \in Seq(Chunk), NEW s, Overtaken(w, s)
  PROVE  \E a \in Seq(Chunk), b \in Seq(Chunk), c \in Seq(Chunk) : Swapped(w, s, a, b, c)
<1>. PICK m \in 0..Len(w) : \E k \in 0..m :
       s = SubSeq(w, k + 1, m) \o SubSeq(w, 1, k) \o SubSeq(w, m + 1, Len(w))
  BY DEF Overtaken
<1>. PICK k \in 0..m :
       s = SubSeq(w, k + 1, m) \o SubSeq(w, 1, k) \o SubSeq(w, m + 1, Len(w))
  OBVIOUS
<1>1. Len(w) \in Nat /\ \A j \in 1..Len(w) : w[j] \in Chunk
  BY LenProperties, ElementOfSeq
<1>2. /\ SubSeq(w, 1, k) \in Seq(Chunk) /\ SubSeq(w, k + 1, m) \in Seq(Chunk)
      /\ SubSeq(w, m + 1, Len(w)) \in Seq(Chunk)
  BY <1>1, SubSeqProperties
<1>3. SubSeq(w, 1, k) \o SubSeq(w, k + 1, m) = SubSeq(w, 1, m)
  BY <1>1, ConcatAdjacentSubSeq
<1>4. SubSeq(w, 1, m) \o SubSeq(w, m + 1, Len(w)) = SubSeq(w, 1, Len(w))
  <2>1. 1 \in 1..Len(w) + 1 /\ m \in 1 - 1..Len(w) /\ Len(w) \in m..Len(w)
    BY <1>1
  <2>. QED BY <2>1, ConcatAdjacentSubSeq, Zenon
<1>5. SubSeq(w, 1, Len(w)) = w
  BY SubSeqFull
<1>6. Swapped(w, s, SubSeq(w, 1, k), SubSeq(w, k + 1, m), SubSeq(w, m + 1, Len(w)))
  BY <1>3, <1>4, <1>5 DEF Swapped
<1>. QED BY <1>2, <1>6

(* What was held is overtaken when it is sent at last... *)
LEMMA HeldIsOvertaken ==
  ASSUME NEW s \in Seq(Chunk), NEW d \in Seq(Chunk)
  PROVE  Overtaken(d \o s, s \o d)
<1>1. <<>> \in Seq(Chunk) /\ d \o s \in Seq(Chunk) /\ s \o d \in Seq(Chunk)
  BY ConcatProperties
<1>2. (d \o s) \o <<>> = d \o s /\ (s \o d) \o <<>> = s \o d
  BY <1>1, ConcatEmptySeq
<1>3. Overtaken((d \o s) \o <<>>, (s \o d) \o <<>>)
  BY <1>1, OvertakenPieces
<1>. QED BY <1>2, <1>3

(* ... and what is written after that follows. *)
LEMMA OvertakenGrows ==
  ASSUME NEW w \in Seq(Chunk), NEW s \in Seq(Chunk), NEW x \in Chunk, Overtaken(w, s)
  PROVE  Overtaken(Append(w, x), Append(s, x))
<1>. PICK a \in Seq(Chunk), b \in Seq(Chunk), c \in Seq(Chunk) : Swapped(w, s, a, b, c)
  BY PiecesOvertaken
<1>1. a \o b \in Seq(Chunk) /\ b \o a \in Seq(Chunk) /\ Append(c, x) \in Seq(Chunk)
  BY ConcatProperties, AppendProperties
<1>2. /\ Append((a \o b) \o c, x) = (a \o b) \o Append(c, x)
      /\ Append((b \o a) \o c, x) = (b \o a) \o Append(c, x)
  BY <1>1, LastPiece
<1>3. Overtaken((a \o b) \o Append(c, x), (b \o a) \o Append(c, x))
  BY <1>1, OvertakenPieces
<1>. QED BY <1>2, <1>3 DEF Swapped

(* A step that changes the output of one request keeps the order of all. *)
LEMMA OneRequest ==
  ASSUME ResponderInv, NEW i \in Id,
         NEW d \in Descriptors, NEW w \in Streams, NEW s \in Streams,
         requests' = [requests EXCEPT ![i] = d],
         written' = [written EXCEPT ![i] = w],
         sent' = [sent EXCEPT ![i] = s],
         early' \subseteq Id, \A j \in Id \ {i} : j \in early' <=> j \in early,
         d.open, StreamsAgree(d, w, s, i \in early'),
         event' \in {0, i} \/ event' = event, writes' \in 0..MaxWrites
  PROVE  ResponderInv'
<1>1. ResponderTypes'
  BY DEF ResponderInv, ResponderTypes
<1>2. /\ requests'[i] = d /\ written'[i] = w /\ sent'[i] = s
      /\ \A j \in Id \ {i} : requests'[j] = requests[j] /\ written'[j] = written[j]
                             /\ sent'[j] = sent[j]
  BY DEF ResponderInv, ResponderTypes
<1>3. ASSUME NEW j \in Id
      PROVE  StreamsAgree(requests[j], written[j], sent[j], j \in early)'
  <2>1. CASE j = i
    BY <1>2, <2>1 DEF StreamsAgree
  <2>2. CASE j # i
    <3>1. StreamsAgree(requests[j], written[j], sent[j], j \in early)
      BY DEF ResponderInv, OutputInv
    <3>2. /\ requests'[j] = requests[j] /\ written'[j] = written[j] /\ sent'[j] = sent[j]
          /\ j \in early' <=> j \in early
      BY <1>2, <2>2
    <3>. QED BY <3>1, <3>2 DEF StreamsAgree
  <2>. QED BY <2>1, <2>2
<1>4. ASSUME NEW j \in Id, ~requests'[j].open
      PROVE  /\ requests'[j] = Absent
             /\ written'[j] = Silent /\ sent'[j] = Silent
             /\ j \notin early'
  BY <1>2, <1>4 DEF ResponderInv, OutputInv
<1>5. ASSUME event' # 0
      PROVE  requests'[event'].open
  <2>1. CASE event' = i
    BY <1>2, <2>1
  <2>2. CASE event' = event /\ event # i
    <3>1. event \in Id \ {i}
      BY <1>5, <2>2 DEF ResponderInv, ResponderTypes
    <3>. QED BY <1>2, <1>5, <2>2, <3>1 DEF ResponderInv, OutputInv
  <2>. QED BY <1>5, <2>1, <2>2
<1>6. OutputInv'
  BY <1>3, <1>4, <1>5 DEF OutputInv
<1>. QED BY <1>1, <1>6 DEF ResponderInv

(* A request begins with nothing written, whoever had its number. *)
LEMMA BeginRequestStep ==
  ASSUME WebTypes, ResponderInv, BeginRequest
  PROVE  WebTypes' /\ ResponderInv' /\ UNCHANGED dsc
<1>. DEFINE r == Head(inbox[current])
<1>1. Received("begin")
  BY DEF BeginRequest
<1>2. r.id \in Id /\ inbox' \in [Connection -> Seq(Record)]
  BY <1>1, ReceivedRecord, RecordParts
<1>3. CASE Raise
  <2>1. WebTypes'
    BY <1>1, <1>2, <1>3, WebKept DEF BeginRequest, Received, Raise, WebTypes
  <2>. QED BY <1>3, <2>1 DEF Raise, responders, ResponderInv, ResponderTypes, OutputInv, StreamsAgree
<1>4. CASE /\ ~requests[r.id].open
           /\ requests' = [requests EXCEPT ![r.id] = Begun]
           /\ event' = r.id
           /\ UNCHANGED <<up, dsc, asked, written, sent, early, writes>>
  <2>1. WebTypes'
    BY <1>1, <1>2, <1>4, WebKept DEF BeginRequest, Received, WebTypes
  <2>2. Begun \in Descriptors /\ Begun.open
    <3>1. Absent \in Descriptors
      BY DEF Absent, Descriptors
    <3>. QED BY <3>1 DEF Begun, Descriptors
  <2>3. written[r.id] = Silent /\ sent[r.id] = Silent /\ r.id \notin early
    BY <1>2, <1>4 DEF ResponderInv, OutputInv
  <2>4. StreamsAgree(Begun, Silent, Silent, r.id \in early')
    <3>1. Silent.stdout = <<>> /\ Silent.stderr = <<>>
      BY DEF Silent
    <3>2. /\ Begun.stdout_data = <<>> /\ Begun.stderr_data = <<>>
          /\ ~Begun.headers_done /\ ~Begun.params_done
      BY DEF Begun, Absent
    <3>. QED BY <3>1, <3>2 DEF StreamsAgree
  <2>5. Silent \in Streams
    BY DEF Silent, Streams
  <2>6. written' = [written EXCEPT ![r.id] = Silent] /\ sent' = [sent EXCEPT ![r.id] = Silent]
    BY <1>2, <1>4, <2>3 DEF ResponderInv, ResponderTypes
  <2>7. ResponderInv'
    BY <1>2, <1>4, <2>2, <2>4, <2>5, <2>6, OneRequest DEF ResponderInv, ResponderTypes
  <2>. QED BY <1>4, <2>1, <2>7
<1>. QED BY <1>3, <1>4 DEF BeginRequest

(* The end of the parameters sends what was kept back of stderr. *)
LEMMA InternalParamsStep ==
  ASSUME WebTypes, ResponderInv, InternalParams
  PROVE  WebTypes' /\ ResponderInv' /\ UNCHANGED dsc
<1>. DEFINE r == Head(inbox[current])
            d == requests[r.id]
<1>1. Received("params")
  BY DEF InternalParams
<1>2. r.id \in Id /\ inbox' \in [Connection -> Seq(Record)]
  BY <1>1, ReceivedRecord, RecordParts
<1>3. CASE Raise
  <2>1. WebTypes'
    BY <1>1, <1>2, <1>3, WebKept DEF InternalParams, Received, Raise, WebTypes
  <2>. QED BY <1>3, <2>1 DEF Raise, responders, ResponderInv, ResponderTypes, OutputInv, StreamsAgree
<1>4. CASE /\ d.open
           /\ event' = r.id
           /\ IF r.body = "end"
              THEN /\ requests' = [requests EXCEPT ![r.id] = ParamsDone(d)]
                   /\ sent' = [sent EXCEPT ![r.id].stderr = @ \o d.stderr_data]
              ELSE UNCHANGED <<requests, sent>>
           /\ UNCHANGED <<up, dsc, asked, written, early, writes>>
  <2>1. WebTypes'
    BY <1>1, <1>2, <1>4, WebKept DEF InternalParams, Received, WebTypes
  <2>2. /\ d \in Descriptors /\ written[r.id] \in Streams /\ sent[r.id] \in Streams
        /\ StreamsAgree(d, written[r.id], sent[r.id], r.id \in early)
    BY <1>2 DEF ResponderInv, ResponderTypes, OutputInv
  <2>3. written' = [written EXCEPT ![r.id] = written[r.id]]
    BY <1>2, <1>4 DEF ResponderInv, ResponderTypes
  <2>0. /\ d.open /\ event' = r.id
        /\ UNCHANGED <<early, writes>> /\ early \subseteq Id /\ writes \in 0..MaxWrites
    BY <1>4 DEF ResponderInv, ResponderTypes
  <2>4. CASE r.body = "end"
    <3>. DEFINE s == [sent[r.id] EXCEPT !.stderr = @ \o d.stderr_data]
    <3>1. ParamsDone(d) \in Descriptors /\ ParamsDone(d).open
      <4>0. d.open
        BY <1>4
      <4>1. d.open /\ d \in Descriptors /\ <<>> \in Seq(Chunk)
        BY <2>2, <4>0
      <4>2. [d EXCEPT !.params_done = TRUE] \in Descriptors
        BY <4>1 DEF Descriptors
      <4>3. ParamsDone(d) = [[d EXCEPT !.params_done = TRUE] EXCEPT !.stderr_data = <<>>]
        BY <4>1 DEF ParamsDone, Descriptors
      <4>. QED BY <4>1, <4>2, <4>3 DEF Descriptors
    <3>2. s.stdout = sent[r.id].stdout /\ s.stderr = sent[r.id].stderr \o d.stderr_data
      BY <2>2 DEF Streams
    <3>3. s.stderr \in Seq(Chunk)
      BY <2>2, <3>2, ConcatProperties DEF Streams, Descriptors
    <3>4. s \in Streams
      BY <2>2, <3>3 DEF Streams
    <3>5. /\ ParamsDone(d).stderr_data = <<>> /\ ParamsDone(d).params_done
          /\ ParamsDone(d).stdout_data = d.stdout_data
          /\ ParamsDone(d).headers_done = d.headers_done
      BY <2>2 DEF ParamsDone, Descriptors
    <3>6. s.stderr \o <<>> = s.stderr
      BY <3>3, ConcatEmptySeq
    <3>7. StreamsAgree(ParamsDone(d), written[r.id], s, r.id \in early)
      BY <2>2, <3>2, <3>5, <3>6 DEF StreamsAgree
    <3>8. requests' = [requests EXCEPT ![r.id] = ParamsDone(d)] /\ sent' = [sent EXCEPT ![r.id] = s]
      BY <1>4, <2>4
    <3>9. ResponderInv'
      <4>. HIDE DEF r, d, s
      <4>. QED BY <1>2, <2>0, <2>2, <2>3, <3>1, <3>4, <3>7, <3>8, OneRequest
    <3>. QED BY <1>4, <2>1, <3>9
  <2>5. CASE r.body # "end"
    <3>1. requests' = [requests EXCEPT ![r.id] = d] /\ sent' = [sent EXCEPT ![r.id] = sent[r.id]]
      BY <1>2, <1>4, <2>5 DEF ResponderInv, ResponderTypes
    <3>2. ResponderInv'
      <4>. HIDE DEF r, d
      <4>. QED BY <1>2, <2>0, <2>2, <2>3, <3>1, OneRequest
    <3>. QED BY <1>4, <2>1, <3>2
  <2>. QED BY <2>4, <2>5
<1>. QED BY <1>3, <1>4 DEF InternalParams

(* Input only runs the responder. *)
LEMMA InternalStdinStep ==
  ASSUME WebTypes, ResponderInv, InternalStdin
  PROVE  WebTypes' /\ ResponderInv' /\ UNCHANGED dsc
<1>. DEFINE r == Head(inbox[current])
<1>1. Received("stdin")
  BY DEF InternalStdin
<1>2. r.id \in Id /\ inbox' \in [Connection -> Seq(Record)]
  BY <1>1, ReceivedRecord, RecordParts
<1>3. CASE Raise
  <2>1. WebTypes'
    BY <1>1, <1>2, <1>3, WebKept DEF InternalStdin, Received, Raise, WebTypes
  <2>. QED BY <1>3, <2>1 DEF Raise, responders, ResponderInv, ResponderTypes, OutputInv, StreamsAgree
<1>4. CASE /\ r.body = "end" \/ requests[r.id].open
           /\ event' = IF r.body = "end" THEN 0 ELSE r.id
           /\ UNCHANGED <<up, dsc, asked, requests, written, sent, early, writes>>
  <2>1. WebTypes'
    BY <1>1, <1>2, <1>4, WebKept DEF InternalStdin, Received, WebTypes
  <2>2. ResponderTypes'
    BY <1>2, <1>4 DEF ResponderInv, ResponderTypes
  <2>3. OutputInv'
    BY <1>4 DEF ResponderInv, OutputInv, StreamsAgree
  <2>. QED BY <1>4, <2>1, <2>2, <2>3 DEF ResponderInv
<1>. QED BY <1>3, <1>4 DEF InternalStdin

----------------------------------------------------------------------------
(* The methods of responders. *)

(* The request whose responder is running. *)
LEMMA Running ==
  ASSUME ResponderInv, event # 0
  PROVE  /\ event \in Id /\ requests[event].open
         /\ requests[event] \in Descriptors
         /\ written[event] \in Streams /\ sent[event] \in Streams
         /\ StreamsAgree(requests[event], written[event], sent[event], event \in early)
         /\ written = [written EXCEPT ![event] = written[event]]
         /\ sent = [sent EXCEPT ![event] = sent[event]]
         /\ requests = [requests EXCEPT ![event] = requests[event]]
<1>1. event \in Id /\ requests[event].open
  BY DEF ResponderInv, ResponderTypes, OutputInv
<1>. QED BY <1>1 DEF ResponderInv, ResponderTypes, OutputInv

(* The methods of a responder leave the connections alone. *)
LEMMA CallingWeb ==
  ASSUME WebTypes, Calling
  PROVE  WebTypes' /\ UNCHANGED dsc
BY DEF Calling, WebTypes, web

(* The end of the headers sends both streams, or makes the request early. *)
LEMMA EndHeadersStep ==
  ASSUME WebTypes, ResponderInv, EndHeaders
  PROVE  WebTypes' /\ ResponderInv' /\ UNCHANGED dsc
<1>. DEFINE d == requests[event]
<1>1. event # 0 /\ Calling /\ event' = event
  BY DEF EndHeaders, Calling
<1>2. /\ event \in Id /\ d.open /\ d \in Descriptors
      /\ written[event] \in Streams /\ sent[event] \in Streams
      /\ StreamsAgree(d, written[event], sent[event], event \in early)
  BY <1>1, Running DEF EndHeaders
<1>3. written' = [written EXCEPT ![event] = written[event]] /\ writes' \in 0..MaxWrites
  BY <1>1, Running DEF EndHeaders, ResponderInv, ResponderTypes
<1>4. CASE d.params_done
  <2>. DEFINE e == [Begun EXCEPT !.params_done = TRUE, !.headers_done = TRUE]
              s == [stdout |-> sent[event].stdout \o d.stdout_data,
                    stderr |-> sent[event].stderr \o d.stderr_data]
  <2>1. requests' = [requests EXCEPT ![event] = e] /\ early' = early
    BY <1>4 DEF EndHeaders
  <2>2. sent' = [sent EXCEPT ![event] = s]
    BY <1>4 DEF EndHeaders
  <2>3. s \in Streams
    BY <1>2, ConcatProperties DEF Streams, Descriptors
  <2>4. e \in Descriptors /\ e.open
    <3>1. Absent \in Descriptors
      BY DEF Absent, Descriptors
    <3>2. Begun \in Descriptors /\ Begun.open
      BY <3>1 DEF Begun, Descriptors
    <3>. QED BY <3>2 DEF Descriptors
  <2>5. e.stdout_data = <<>> /\ e.stderr_data = <<>> /\ e.params_done /\ e.headers_done
    BY DEF Begun, Absent
  <2>6. s.stdout \o <<>> = s.stdout /\ s.stderr \o <<>> = s.stderr
    BY <2>3, ConcatEmptySeq DEF Streams
  <2>7. /\ s.stdout = sent[event].stdout \o d.stdout_data
        /\ s.stderr = sent[event].stderr \o d.stderr_data
    OBVIOUS
  <2>8. StreamsAgree(e, written[event], s, event \in early')
    <3>1. sent[event].stdout \in Seq(Chunk) /\ d.stdout_data \in Seq(Chunk)
      BY <1>2 DEF Streams, Descriptors
    <3>2. Overtaken(d.stdout_data \o sent[event].stdout, s.stdout)
      BY <2>7, <3>1, HeldIsOvertaken
    <3>3. sent[event].stdout \o <<>> = sent[event].stdout
      BY <3>1, ConcatEmptySeq
    <3>4. event \in early => Overtaken(written[event].stdout, s.stdout)
      <4>. HIDE DEF d, s
      <4>. QED BY <1>2, <2>7, <3>2, <3>3 DEF StreamsAgree
    <3>. HIDE DEF e, s
    <3>. QED BY <1>2, <2>1, <2>5, <2>6, <2>7, <3>4 DEF StreamsAgree
  <2>9. ResponderInv'
    <3>. HIDE DEF e, s
    <3>. QED BY <1>1, <1>2, <1>3, <2>1, <2>2, <2>3, <2>4, <2>8, OneRequest
             DEF ResponderInv, ResponderTypes
  <2>. QED BY <1>1, <2>9, CallingWeb
<1>5. CASE ~d.params_done
  <2>. DEFINE e == [d EXCEPT !.headers_done = TRUE]
  <2>1. /\ requests' = [requests EXCEPT ![event] = e]
        /\ sent' = sent /\ early' = early \cup {event}
    BY <1>5 DEF EndHeaders
  <2>2. e \in Descriptors /\ e.open
    BY <1>2 DEF Descriptors
  <2>3. /\ e.stdout_data = d.stdout_data /\ e.stderr_data = d.stderr_data
        /\ ~e.params_done /\ e.headers_done
    BY <1>2, <1>5 DEF Descriptors
  <2>4. StreamsAgree(e, written[event], sent[event], event \in early')
    <3>1. sent[event].stdout = <<>> /\ written[event].stdout = d.stdout_data
      BY <1>2, <1>5 DEF StreamsAgree
    <3>2. d.stdout_data \o <<>> = d.stdout_data
      <4>1. d.stdout_data \in Seq(Chunk)
        BY <1>2 DEF Descriptors
      <4>. QED BY <4>1, ConcatEmptySeq
    <3>. HIDE DEF e
    <3>. QED BY <1>2, <2>1, <2>3, <3>1, <3>2 DEF StreamsAgree
  <2>5. sent' = [sent EXCEPT ![event] = sent[event]]
    BY <1>1, <2>1, Running
  <2>6. early' \subseteq Id /\ \A j \in Id \ {event} : j \in early' <=> j \in early
    BY <1>2, <2>1 DEF ResponderInv, ResponderTypes
  <2>7. ResponderInv'
    <3>. HIDE DEF e
    <3>. QED BY <1>1, <1>2, <1>3, <2>1, <2>2, <2>4, <2>5, <2>6, OneRequest
  <2>. QED BY <1>1, <2>7, CallingWeb
<1>. QED BY <1>4, <1>5

(* Output is written by a responder that is running, within the bound. *)
LEMMA WritingType ==
  ASSUME ResponderInv, Writing
  PROVE  /\ event # 0 /\ Calling /\ event' = event
         /\ writes' \in 0..MaxWrites
BY FastCgiAssumption DEF Writing, Calling, ResponderInv, ResponderTypes

(* Output is kept back until the headers and the parameters have ended. *)
LEMMA StdoutStep ==
  ASSUME WebTypes, ResponderInv, Stdout
  PROVE  WebTypes' /\ ResponderInv' /\ UNCHANGED dsc
<1>. DEFINE d == requests[event]
<1>1. event # 0 /\ Calling /\ event' = event /\ writes' \in 0..MaxWrites
  BY WritingType DEF Stdout
<1>2. /\ event \in Id /\ d.open /\ d \in Descriptors
      /\ written[event] \in Streams /\ sent[event] \in Streams
      /\ StreamsAgree(d, written[event], sent[event], event \in early)
  BY <1>1, Running
<1>. PICK x \in Chunk :
       /\ written' = [written EXCEPT ![event].stdout = Append(@, x)]
       /\ IF ~d.params_done \/ ~d.headers_done
          THEN /\ requests' = [requests EXCEPT ![event].stdout_data = Append(@, x)]
               /\ UNCHANGED sent
          ELSE /\ sent' = [sent EXCEPT ![event].stdout = Append(@, x)]
               /\ UNCHANGED requests
  BY DEF Stdout
<1>. DEFINE w == [written[event] EXCEPT !.stdout = Append(@, x)]
<1>3. written' = [written EXCEPT ![event] = w]
  OBVIOUS
<1>4. /\ d.stdout_data \in Seq(Chunk) /\ d.stderr_data \in Seq(Chunk)
      /\ sent[event].stdout \in Seq(Chunk) /\ sent[event].stderr \in Seq(Chunk)
      /\ written[event].stdout \in Seq(Chunk)
  BY <1>2 DEF Streams, Descriptors
<1>5. Append(written[event].stdout, x) \in Seq(Chunk)
  BY <1>4, AppendProperties
<1>6. w \in Streams /\ w.stdout = Append(written[event].stdout, x)
                    /\ w.stderr = written[event].stderr
  BY <1>2, <1>5 DEF Streams
<1>7. early' = early
  BY DEF Stdout
<1>8. CASE ~d.params_done \/ ~d.headers_done
  <2>. DEFINE e == [d EXCEPT !.stdout_data = Append(@, x)]
  <2>1. requests' = [requests EXCEPT ![event] = e]
    BY <1>8
  <2>2. /\ Append(d.stdout_data, x) \in Seq(Chunk)
        /\ Append(sent[event].stdout \o d.stdout_data, x) = sent[event].stdout \o Append(d.stdout_data, x)
    <3>1. Append(d.stdout_data, x) \in Seq(Chunk)
      BY <1>4, AppendProperties
    <3>2. Append(sent[event].stdout \o d.stdout_data, x) = sent[event].stdout \o Append(d.stdout_data, x)
      <4>. DEFINE q == sent[event].stdout
                  t == d.stdout_data
      <4>1. q \in Seq(Chunk) /\ t \in Seq(Chunk)
        BY <1>4
      <4>2. Append(q \o t, x) = q \o Append(t, x)
        <5>. HIDE DEF q, t
        <5>. QED BY <4>1, LastPiece
      <4>. QED BY <4>2
    <3>. QED BY <3>1, <3>2
  <2>3. e \in Descriptors /\ e.open
    BY <1>2, <2>2 DEF Descriptors
  <2>4. /\ e.stdout_data = Append(d.stdout_data, x) /\ e.stderr_data = d.stderr_data
        /\ e.params_done = d.params_done /\ e.headers_done = d.headers_done
    BY <1>2 DEF Descriptors
  <2>5. StreamsAgree(e, w, sent[event], event \in early')
    <3>1. sent[event].stdout = <<>> /\ written[event].stdout = d.stdout_data
      BY <1>2, <1>8 DEF StreamsAgree
    <3>2. Append(d.stdout_data, x) \o <<>> = Append(d.stdout_data, x)
      BY <2>2, ConcatEmptySeq
    <3>. HIDE DEF e, w
    <3>. QED BY <1>2, <1>6, <1>7, <1>8, <2>2, <2>4, <3>1, <3>2 DEF StreamsAgree
  <2>6. sent' = [sent EXCEPT ![event] = sent[event]]
    BY <1>1, <1>8, Running
  <2>7. ResponderInv'
    <3>. HIDE DEF e, w
    <3>. QED BY <1>1, <1>2, <1>3, <1>6, <1>7, <2>1, <2>3, <2>5, <2>6, OneRequest
             DEF ResponderInv, ResponderTypes
  <2>. QED BY <1>1, <2>7, CallingWeb
<1>9. CASE d.params_done /\ d.headers_done
  <2>. DEFINE s == [sent[event] EXCEPT !.stdout = Append(@, x)]
  <2>1. sent' = [sent EXCEPT ![event] = s]
    BY <1>9
  <2>2. Append(sent[event].stdout, x) \in Seq(Chunk)
        /\ sent[event].stdout \o <<>> = sent[event].stdout
        /\ Append(sent[event].stdout, x) \o <<>> = Append(sent[event].stdout, x)
    BY <1>4, Pieces
  <2>3. s \in Streams /\ s.stdout = Append(sent[event].stdout, x)
                      /\ s.stderr = sent[event].stderr
    BY <1>2, <2>2 DEF Streams
  <2>4. StreamsAgree(d, w, s, event \in early')
    <3>1. StreamsAgree(d, written[event], sent[event], event \in early)
      BY <1>2
    <3>2. Append(d.stdout_data \o sent[event].stdout, x) = d.stdout_data \o Append(sent[event].stdout, x)
      BY <1>4, LastPiece
    <3>3. Overtaken(written[event].stdout, sent[event].stdout)
            => Overtaken(Append(written[event].stdout, x), Append(sent[event].stdout, x))
      BY <1>4, OvertakenGrows
    <3>. HIDE DEF d, w, s
    <3>. QED BY <1>6, <1>7, <1>9, <2>2, <2>3, <3>1, <3>2, <3>3 DEF StreamsAgree
  <2>5. requests' = [requests EXCEPT ![event] = d]
    BY <1>1, <1>9, Running
  <2>6. ResponderInv'
    <3>. HIDE DEF w, s
    <3>. QED BY <1>1, <1>2, <1>3, <1>6, <1>7, <2>1, <2>3, <2>4, <2>5, OneRequest
             DEF ResponderInv, ResponderTypes
  <2>. QED BY <1>1, <2>6, CallingWeb
<1>. QED BY <1>8, <1>9

(* Diagnosis is kept back until the parameters have ended. *)
LEMMA StderrStep ==
  ASSUME WebTypes, ResponderInv, Stderr
  PROVE  WebTypes' /\ ResponderInv' /\ UNCHANGED dsc
<1>. DEFINE d == requests[event]
<1>1. event # 0 /\ Calling /\ event' = event /\ writes' \in 0..MaxWrites
  BY WritingType DEF Stderr
<1>2. /\ event \in Id /\ d.open /\ d \in Descriptors
      /\ written[event] \in Streams /\ sent[event] \in Streams
      /\ StreamsAgree(d, written[event], sent[event], event \in early)
  BY <1>1, Running
<1>. PICK x \in Chunk :
       /\ written' = [written EXCEPT ![event].stderr = Append(@, x)]
       /\ IF ~d.params_done
          THEN /\ requests' = [requests EXCEPT ![event].stderr_data = Append(@, x)]
               /\ UNCHANGED sent
          ELSE /\ sent' = [sent EXCEPT ![event].stderr = Append(@, x)]
               /\ UNCHANGED requests
  BY DEF Stderr
<1>. DEFINE w == [written[event] EXCEPT !.stderr = Append(@, x)]
<1>3. written' = [written EXCEPT ![event] = w]
  OBVIOUS
<1>4. /\ d.stdout_data \in Seq(Chunk) /\ d.stderr_data \in Seq(Chunk)
      /\ sent[event].stdout \in Seq(Chunk) /\ sent[event].stderr \in Seq(Chunk)
      /\ written[event].stderr \in Seq(Chunk)
  BY <1>2 DEF Streams, Descriptors
<1>5. Append(written[event].stderr, x) \in Seq(Chunk)
  BY <1>4, AppendProperties
<1>6. w \in Streams /\ w.stderr = Append(written[event].stderr, x)
                    /\ w.stdout = written[event].stdout
  BY <1>2, <1>5 DEF Streams
<1>7. early' = early
  BY DEF Stderr
<1>8. CASE ~d.params_done
  <2>. DEFINE e == [d EXCEPT !.stderr_data = Append(@, x)]
  <2>1. requests' = [requests EXCEPT ![event] = e]
    BY <1>8
  <2>2. /\ Append(d.stderr_data, x) \in Seq(Chunk)
        /\ Append(sent[event].stderr \o d.stderr_data, x) = sent[event].stderr \o Append(d.stderr_data, x)
    <3>1. Append(d.stderr_data, x) \in Seq(Chunk)
      BY <1>4, AppendProperties
    <3>2. Append(sent[event].stderr \o d.stderr_data, x) = sent[event].stderr \o Append(d.stderr_data, x)
      <4>. DEFINE q == sent[event].stderr
                  t == d.stderr_data
      <4>1. q \in Seq(Chunk) /\ t \in Seq(Chunk)
        BY <1>4
      <4>2. Append(q \o t, x) = q \o Append(t, x)
        <5>. HIDE DEF q, t
        <5>. QED BY <4>1, LastPiece
      <4>. QED BY <4>2
    <3>. QED BY <3>1, <3>2
  <2>3. e \in Descriptors /\ e.open
    BY <1>2, <2>2 DEF Descriptors
  <2>4. /\ e.stderr_data = Append(d.stderr_data, x) /\ e.stdout_data = d.stdout_data
        /\ e.params_done = d.params_done /\ e.headers_done = d.headers_done
    BY <1>2 DEF Descriptors
  <2>5. StreamsAgree(e, w, sent[event], event \in early')
    <3>. HIDE DEF e, w
    <3>. QED BY <1>2, <1>6, <1>7, <1>8, <2>2, <2>4 DEF StreamsAgree
  <2>6. sent' = [sent EXCEPT ![event] = sent[event]]
    BY <1>1, <1>8, Running
  <2>7. ResponderInv'
    <3>. HIDE DEF e, w
    <3>. QED BY <1>1, <1>2, <1>3, <1>6, <1>7, <2>1, <2>3, <2>5, <2>6, OneRequest
             DEF ResponderInv, ResponderTypes
  <2>. QED BY <1>1, <2>7, CallingWeb
<1>9. CASE d.params_done
  <2>. DEFINE s == [sent[event] EXCEPT !.stderr = Append(@, x)]
  <2>1. sent' = [sent EXCEPT ![event] = s]
    BY <1>9
  <2>2. Append(sent[event].stderr, x) \in Seq(Chunk)
        /\ sent[event].stderr \o <<>> = sent[event].stderr
        /\ Append(sent[event].stderr, x) \o <<>> = Append(sent[event].stderr, x)
    BY <1>4, Pieces
  <2>3. s \in Streams /\ s.stderr = Append(sent[event].stderr, x)
                      /\ s.stdout = sent[event].stdout
    BY <1>2, <2>2 DEF Streams
  <2>4. StreamsAgree(d, w, s, event \in early')
    <3>1. StreamsAgree(d, written[event], sent[event], event \in early)
      BY <1>2
    <3>2. /\ d.stderr_data = <<>> /\ written[event].stderr = sent[event].stderr
          /\ w.stderr = s.stderr \o d.stderr_data
      <4>1. /\ d.stderr_data = <<>>
            /\ written[event].stderr = sent[event].stderr \o d.stderr_data
        BY <1>9, <3>1 DEF StreamsAgree
      <4>2. written[event].stderr = sent[event].stderr
        BY <2>2, <4>1
      <4>. HIDE DEF d, w, s
      <4>. QED BY <1>6, <2>2, <2>3, <4>1, <4>2
    <3>. HIDE DEF d, w, s
    <3>. QED BY <1>6, <1>7, <1>9, <2>3, <3>1, <3>2 DEF StreamsAgree
  <2>5. requests' = [requests EXCEPT ![event] = d]
    BY <1>1, <1>9, Running
  <2>6. ResponderInv'
    <3>. HIDE DEF w, s
    <3>. QED BY <1>1, <1>2, <1>3, <1>6, <1>7, <2>1, <2>3, <2>4, <2>5, OneRequest
             DEF ResponderInv, ResponderTypes
  <2>. QED BY <1>1, <2>6, CallingWeb
<1>. QED BY <1>8, <1>9

(* A responder that returns leaves its request to the next event. *)
LEMMA ReturnStep ==
  ASSUME WebTypes, ResponderInv, Return
  PROVE  WebTypes' /\ ResponderInv' /\ UNCHANGED dsc
<1>1. WebTypes'
  BY DEF Return, WebTypes, web
<1>2. ResponderTypes'
  BY DEF Return, ResponderInv, ResponderTypes
<1>3. OutputInv'
  BY DEF Return, ResponderInv, OutputInv, StreamsAgree
<1>. QED BY <1>1, <1>2, <1>3 DEF Return, ResponderInv

----------------------------------------------------------------------------
FastCgiInv == WebTypes /\ ResponderInv /\ DscType

(* The invariant of responders depends on their variables only. *)
LEMMA RespondersKept ==
  ASSUME ResponderInv, UNCHANGED responders
  PROVE  ResponderInv'
BY DEF responders, ResponderInv, ResponderTypes, OutputInv, StreamsAgree

(* So does the type of Dsc. *)
LEMMA DscKept == DscType /\ UNCHANGED dsc => DscType'
BY DEF DscType

(* Every step keeps the invariant. *)
LEMMA NextKeeps ==
  ASSUME FastCgiInv, [Next]_vars
  PROVE  FastCgiInv'
<1>. USE DEF FastCgiInv
<1>1. CASE WebServer
  BY <1>1, WebServerStep, RespondersKept, DscKept
<1>2. CASE Accept
  BY <1>2, AcceptStep, RespondersKept, DscKept
<1>3. CASE CloseSocket
  BY <1>3, CloseSocketStep, RespondersKept, DscKept
<1>4. CASE ReceiveAbort
  BY <1>4, ReceiveAbortStep, RespondersKept, DscKept
<1>5. CASE ReceivePart
  BY <1>5, ReceivePartStep, RespondersKept, DscKept
<1>6. CASE SendFails
  BY <1>6, SendFailsStep, RespondersKept, DscKept
<1>7. CASE Restart
  BY <1>7, RestartStep
<1>8. CASE ProcessBeginRequest \/ ProcessParams \/ ProcessStdin
  BY <1>8, CallbackStep, RespondersKept
<1>9. CASE BeginRequest
  BY <1>9, BeginRequestStep, DscKept
<1>10. CASE InternalParams
  BY <1>10, InternalParamsStep, DscKept
<1>11. CASE InternalStdin
  BY <1>11, InternalStdinStep, DscKept
<1>12. CASE EndHeaders
  BY <1>12, EndHeadersStep, DscKept
<1>13. CASE Stdout
  BY <1>13, StdoutStep, DscKept
<1>14. CASE Stderr
  BY <1>14, StderrStep, DscKept
<1>15. CASE Return
  BY <1>15, ReturnStep, DscKept
<1>16. CASE UNCHANGED vars
  <2>1. WebTypes'
    BY <1>16 DEF vars, web, WebTypes
  <2>. QED BY <1>16, <2>1, RespondersKept, DscKept DEF vars
<1>. QED BY <1>1, <1>2, <1>3, <1>4, <1>5, <1>6, <1>7, <1>8, <1>9, <1>10, <1>11, <1>12,
            <1>13, <1>14, <1>15, <1>16 DEF Next, Serving, Responding

(* Types are kept and the streams of responders agree with what was sent,  *)
(* whatever arrives in whatever order, fails, or is started again.         *)
THEOREM FastCgiInvariant == Spec => []FastCgiInv
<1>1. Init => FastCgiInv
  BY Initially DEF FastCgiInv
<1>2. FastCgiInv /\ [Next]_vars => FastCgiInv'
  BY NextKeeps
<1>. QED BY <1>1, <1>2, PTL DEF Spec

(* Everything keeps its type, and no connection but the one that is served *)
(* is open for the application.                                            *)
THEOREM FastCgiTypes == Spec => []TypeOK
<1>1. FastCgiInv => TypeOK
  BY TypeParts DEF FastCgiInv, ResponderInv
<1>. QED BY <1>1, FastCgiInvariant, PTL

(* What responders write on either stream is sent once and in order, over  *)
(* the moment when the parameters end and when the headers do, if these    *)
(* end after the parameters.  Of a request whose headers end before, the   *)
(* standard output kept back by then is not: it is held, maybe for ever,   *)
(* and overtaken by what is written later; nothing else changes place, and *)
(* nothing is sent twice.                                                  *)
THEOREM StreamsInOrder == Spec => []OutputInOrder
<1>1. FastCgiInv => OutputInOrder
  BY OutputParts DEF FastCgiInv, ResponderInv
<1>. QED BY <1>1, FastCgiInvariant, PTL

-----------------------------------------------------------------------------
(***************************************************************************)
(* What the callback sees.                                                 *)
(***************************************************************************)

(* The records of request i in queue q, aborts aside; those with its input. *)
Of(q, i) == {k \in DOMAIN q : q[k].id = i /\ q[k].type # "abort"}
Input(q, i) == {k \in Of(q, i) : q[k].type = "stdin" /\ q[k].body # "end"}

(* What has been received, d, and the input in queue q make the whole, a. *)
Continues(g, q, d, a) ==
  /\ \A k \in DOMAIN g : q[g[k]].body = a[k]
  /\ \A k, l \in DOMAIN g : k < l => g[k] < g[l]

InputAgrees(q, i, d, a) ==
  /\ Len(d) <= Len(a)
  /\ \A k \in 1..Len(d) : d[k] = a[k]
  /\ \E g \in [(Len(d) + 1)..Len(a) -> Input(q, i)] :
       /\ Continues(g, q, d, a)
       /\ \A n \in Input(q, i) : \E k \in (Len(d) + 1)..Len(a) : g[k] = n

ParamsAgree(q, i, d, a) ==
  \A n \in Name :
    n \in a <=> n \in d \/ \E k \in Of(q, i) : q[k].type = "params" /\ q[k].body = n

(* The end of the input is the last record of its request. *)
EndIsLast(q, i, a) ==
  \A k \in Of(q, i) : q[k].type = "stdin" /\ q[k].body = "end" =>
    a.state \in {"complete", "aborted"} /\ \A l \in Of(q, i) : l <= k

(* Request a of identifier i has been received as far as d, and the rest of *)
(* it is in queue q.                                                       *)
Follows(q, i, d, a) ==
  /\ a.state \notin {"none", "answered"}
  /\ ParamsAgree(q, i, d.headers, a.params)
  /\ InputAgrees(q, i, d.stdin, a.stdin)
  /\ EndIsLast(q, i, a)

BeginIsFirst(q, i) ==
  \E b \in Of(q, i) :
    /\ q[b].type = "begin"
    /\ \A k \in Of(q, i) \ {b} : k > b /\ q[k].type # "begin"
NoBegin(q, i) == \A k \in Of(q, i) : q[k].type # "begin"

(* A request has not been asked for, or all of it is under way, or it is   *)
(* the one that the descriptor is of.                                      *)
RequestInv(c, i) ==
  \/ Of(inbox[c], i) = {} /\ asked[c][i].state \in {"none", "answered"}
  \/ BeginIsFirst(inbox[c], i) /\ Follows(inbox[c], i, Idle, asked[c][i])
  \/ /\ c = current /\ i = dsc.id
     /\ NoBegin(inbox[c], i) /\ Follows(inbox[c], i, dsc, asked[c][i])

(* Of the connection of an application that has ended nothing is known. *)
Live(c) == phase[c] # "closed" /\ (up \/ c # current)

CallbackInv ==
  api = "callback" =>
    /\ dsc.id = 0 => dsc = Idle
    /\ \A c \in Connection, i \in Id : Live(c) => RequestInv(c, i)

----------------------------------------------------------------------------
(* Queues. *)

(* Positions in a queue. *)
LEMMA Positions ==
  ASSUME NEW q \in Seq(Record), NEW i, NEW k \in Of(q, i)
  PROVE  k \in Nat /\ 1 <= k /\ k <= Len(q) /\ q[k] \in Record
BY DEF Of

(* Input that moves along with its queue, by s places, still agrees. *)
LEMMA InputMoves ==
  ASSUME NEW q \in Seq(Record), NEW p \in Seq(Record), NEW i, NEW s \in {0, 1},
         NEW d \in Seq(Chunk), NEW a \in Seq(Chunk),
         \A k \in Input(p, i) : k + s \in Input(q, i) /\ p[k] = q[k + s],
         \A k \in Input(q, i) : k - s \in Input(p, i),
         InputAgrees(q, i, d, a)
  PROVE  InputAgrees(p, i, d, a)
<1>. DEFINE D == (Len(d) + 1)..Len(a)
<1>1. PICK g \in [D -> Input(q, i)] :
        /\ Continues(g, q, d, a)
        /\ \A n \in Input(q, i) : \E k \in D : g[k] = n
  BY DEF InputAgrees
<1>2. \A n \in Input(q, i) : n \in Int
  BY Positions DEF Input
<1>3. \A n \in Input(p, i) : n \in Int
  BY Positions DEF Input
<1>. DEFINE h == [k \in D |-> g[k] - s]
<1>4. h \in [D -> Input(p, i)]
  BY <1>1
<1>5. Continues(h, p, d, a)
  <2>1. ASSUME NEW k \in D
        PROVE  p[h[k]].body = a[k]
    <3>1. h[k] \in Input(p, i) /\ h[k] + s = g[k] /\ g[k] \in Input(q, i)
      BY <1>1, <1>2, <1>4
    <3>2. p[h[k]] = q[g[k]]
      BY <3>1
    <3>. QED BY <1>1, <3>2 DEF Continues
  <2>2. ASSUME NEW k \in D, NEW l \in D, k < l
        PROVE  h[k] < h[l]
    <3>1. g[k] < g[l]
      BY <1>1, <2>2 DEF Continues
    <3>2. h[k] = g[k] - s /\ h[l] = g[l] - s
      OBVIOUS
    <3>3. g[k] \in Int /\ g[l] \in Int
      BY <1>1, <1>2
    <3>. QED BY <3>1, <3>2, <3>3
  <2>. QED BY <2>1, <2>2 DEF Continues
<1>6. ASSUME NEW n \in Input(p, i)
      PROVE  \E k \in D : h[k] = n
  <2>1. PICK k \in D : g[k] = n + s
    BY <1>1
  <2>. QED BY <1>3, <2>1
<1>. HIDE DEF D, h
<1>7. /\ Len(d) <= Len(a)
      /\ \A k \in 1..Len(d) : d[k] = a[k]
  BY DEF InputAgrees
<1>. QED BY <1>4, <1>5, <1>6, <1>7 DEF InputAgrees, D

(* A request whose records move along follows as before: records of other  *)
(* requests, aborts, and beginnings do not matter.                         *)
LEMMA FollowsMoves ==
  ASSUME NEW q \in Seq(Record), NEW p \in Seq(Record), NEW i, NEW s \in {0, 1},
         NEW d, d.stdin \in Seq(Chunk), NEW a \in Requests,
         \A k \in Of(p, i) : k + s \in Of(q, i) /\ p[k] = q[k + s],
         \A k \in Of(q, i) : q[k].type # "begin" => k - s \in Of(p, i),
         Follows(q, i, d, a)
  PROVE  Follows(p, i, d, a)
<1>1. \A k \in Of(q, i) : k \in Int
  BY Positions
<1>2. \A k \in Of(p, i) : k \in Int
  BY Positions
<1>3. \A k \in Of(q, i) : q[k].type # "begin" => k - s \in Of(p, i) /\ p[k - s] = q[k]
  BY <1>1
<1>4. ParamsAgree(p, i, d.headers, a.params)
  <2>. SUFFICES ASSUME NEW n \in Name
                PROVE  (\E k \in Of(q, i) : q[k].type = "params" /\ q[k].body = n)
                         <=> (\E k \in Of(p, i) : p[k].type = "params" /\ p[k].body = n)
    BY DEF Follows, ParamsAgree
  <2>1. ASSUME NEW k \in Of(q, i), q[k].type = "params", q[k].body = n
        PROVE  \E l \in Of(p, i) : p[l].type = "params" /\ p[l].body = n
    BY <1>3, <2>1
  <2>2. ASSUME NEW k \in Of(p, i), p[k].type = "params", p[k].body = n
        PROVE  \E l \in Of(q, i) : q[l].type = "params" /\ q[l].body = n
    BY <2>2
  <2>. QED BY <2>1, <2>2
<1>5. InputAgrees(p, i, d.stdin, a.stdin)
  <2>1. \A k \in Input(p, i) : k + s \in Input(q, i) /\ p[k] = q[k + s]
    BY DEF Input
  <2>2. \A k \in Input(q, i) : k - s \in Input(p, i)
    BY <1>3 DEF Input
  <2>3. a.stdin \in Seq(Chunk)
    BY DEF Requests
  <2>. QED BY <2>1, <2>2, <2>3, InputMoves DEF Follows
<1>6. EndIsLast(p, i, a)
  <2>. SUFFICES ASSUME NEW k \in Of(p, i), p[k].type = "stdin", p[k].body = "end"
                PROVE  a.state \in {"complete", "aborted"} /\ \A l \in Of(p, i) : l <= k
    BY DEF EndIsLast
  <2>1. k + s \in Of(q, i) /\ q[k + s].type = "stdin" /\ q[k + s].body = "end"
    OBVIOUS
  <2>2. a.state \in {"complete", "aborted"} /\ \A l \in Of(q, i) : l <= k + s
    BY <2>1 DEF Follows, EndIsLast
  <2>3. ASSUME NEW l \in Of(p, i)
        PROVE  l <= k
    <3>1. l + s <= k + s
      BY <2>2
    <3>. QED BY <1>2, <3>1
  <2>. QED BY <2>2, <2>3
<1>. QED BY <1>4, <1>5, <1>6 DEF Follows

(* So does the place of its beginning. *)
LEMMA BeginMoves ==
  ASSUME NEW q \in Seq(Record), NEW p \in Seq(Record), NEW i, NEW s \in {0, 1},
         \A k \in Of(p, i) : k + s \in Of(q, i) /\ p[k] = q[k + s],
         \A k \in Of(q, i) : k - s \in Of(p, i)
  PROVE  /\ Of(q, i) = {} => Of(p, i) = {}
         /\ BeginIsFirst(q, i) => BeginIsFirst(p, i)
         /\ NoBegin(q, i) => NoBegin(p, i)
<1>1. \A k \in Of(q, i) : k \in Int
  BY Positions
<1>2. \A k \in Of(p, i) : k \in Int
  BY Positions
<1>3. Of(q, i) = {} => Of(p, i) = {}
  OBVIOUS
<1>4. NoBegin(q, i) => NoBegin(p, i)
  BY DEF NoBegin
<1>5. ASSUME BeginIsFirst(q, i)
      PROVE  BeginIsFirst(p, i)
  <2>1. PICK b \in Of(q, i) :
          /\ q[b].type = "begin"
          /\ \A k \in Of(q, i) \ {b} : k > b /\ q[k].type # "begin"
    BY <1>5 DEF BeginIsFirst
  <2>2. b - s \in Of(p, i) /\ p[b - s] = q[b]
    BY <1>1, <2>1
  <2>3. ASSUME NEW k \in Of(p, i) \ {b - s}
        PROVE  k > b - s /\ p[k].type # "begin"
    <3>1. k + s \in Of(q, i) \ {b}
      BY <1>1, <1>2
    <3>. QED BY <1>1, <1>2, <2>1, <3>1
  <2>. QED BY <2>1, <2>2, <2>3 DEF BeginIsFirst
<1>. QED BY <1>3, <1>4, <1>5

(* What a record sent, or taken, does to the positions of a request. *)
LEMMA OfAppend ==
  ASSUME NEW q \in Seq(Record), NEW r \in Record, NEW i
  PROVE  /\ Append(q, r) \in Seq(Record)
         /\ Of(Append(q, r), i) = IF r.id = i /\ r.type # "abort"
                                  THEN Of(q, i) \cup {Len(q) + 1} ELSE Of(q, i)
         /\ \A k \in Of(q, i) : Append(q, r)[k] = q[k] /\ k \in 1..Len(q)
         /\ Append(q, r)[Len(q) + 1] = r
<1>1. /\ Append(q, r) \in Seq(Record)
      /\ Len(Append(q, r)) = Len(q) + 1
      /\ \A k \in 1..Len(q) : Append(q, r)[k] = q[k]
      /\ Append(q, r)[Len(q) + 1] = r
  BY AppendProperties
<1>. QED BY <1>1 DEF Of

(* What is behind the first record of a queue. *)
LEMMA BehindFirst ==
  ASSUME NEW q \in Seq(Record), q # <<>>, NEW i
  PROVE  /\ Tail(q) \in Seq(Record)
         /\ \A k \in Of(Tail(q), i) : k + 1 \in Of(q, i) /\ Tail(q)[k] = q[k + 1]
<1>1. /\ Tail(q) \in Seq(Record)
      /\ Len(Tail(q)) = Len(q) - 1
      /\ \A k \in 1..Len(q) - 1 : Tail(q)[k] = q[k + 1]
      /\ Head(q) = q[1] /\ Len(q) >= 1
  BY HeadTailProperties
<1>. QED BY <1>1 DEF Of

(* Taking one off moves those behind it by one. *)
LEMMA OfTail ==
  ASSUME NEW q \in Seq(Record), q # <<>>, NEW i
  PROVE  /\ Tail(q) \in Seq(Record)
         /\ \A k \in Of(Tail(q), i) : k + 1 \in Of(q, i) /\ Tail(q)[k] = q[k + 1]
         /\ \A k \in Of(q, i) : k # 1 => k - 1 \in Of(Tail(q), i)
         /\ 1 \in Of(q, i) <=> Head(q).id = i /\ Head(q).type # "abort"
         /\ Head(q) = q[1]
<1>1. /\ Tail(q) \in Seq(Record)
      /\ Len(Tail(q)) = Len(q) - 1
      /\ \A k \in 1..Len(q) - 1 : Tail(q)[k] = q[k + 1]
      /\ Head(q) = q[1] /\ Len(q) >= 1
  BY HeadTailProperties
<1>. QED BY <1>1 DEF Of

(* Records of others, and aborts, do not matter to a request. *)
LEMMA AppendOther ==
  ASSUME NEW q \in Seq(Record), NEW r \in Record, NEW i, r.id # i \/ r.type = "abort"
  PROVE  /\ Of(q, i) = {} => Of(Append(q, r), i) = {}
         /\ BeginIsFirst(q, i) => BeginIsFirst(Append(q, r), i)
         /\ NoBegin(q, i) => NoBegin(Append(q, r), i)
         /\ \A d : \A a \in Requests : d.stdin \in Seq(Chunk) =>
              (Follows(q, i, d, a) => Follows(Append(q, r), i, d, a))
<1>. DEFINE p == Append(q, r)
<1>1. p \in Seq(Record) /\ Of(p, i) = Of(q, i) /\ \A k \in Of(q, i) : p[k] = q[k]
  BY OfAppend
<1>2. \A k \in Of(q, i) : k \in Int
  BY Positions
<1>. HIDE DEF p
<1>3. /\ \A k \in Of(p, i) : k + 0 \in Of(q, i) /\ p[k] = q[k + 0]
      /\ \A k \in Of(q, i) : k - 0 \in Of(p, i)
  BY <1>1, <1>2
<1>4. ASSUME NEW d, NEW a \in Requests, d.stdin \in Seq(Chunk), Follows(q, i, d, a)
      PROVE  Follows(p, i, d, a)
  BY <1>1, <1>3, <1>4, FollowsMoves
<1>5. /\ Of(q, i) = {} => Of(p, i) = {}
      /\ BeginIsFirst(q, i) => BeginIsFirst(p, i)
      /\ NoBegin(q, i) => NoBegin(p, i)
  BY <1>1, <1>3, BeginMoves
<1>. QED BY <1>4, <1>5 DEF p

(* So does taking one off. *)
LEMMA TailOther ==
  ASSUME NEW q \in Seq(Record), q # <<>>, NEW i,
         Head(q).id # i \/ Head(q).type = "abort"
  PROVE  /\ Of(q, i) = {} => Of(Tail(q), i) = {}
         /\ BeginIsFirst(q, i) => BeginIsFirst(Tail(q), i)
         /\ NoBegin(q, i) => NoBegin(Tail(q), i)
         /\ \A d : \A a \in Requests : d.stdin \in Seq(Chunk) =>
              (Follows(q, i, d, a) => Follows(Tail(q), i, d, a))
<1>. DEFINE p == Tail(q)
<1>1. /\ p \in Seq(Record)
      /\ \A k \in Of(p, i) : k + 1 \in Of(q, i) /\ p[k] = q[k + 1]
      /\ \A k \in Of(q, i) : k - 1 \in Of(p, i)
  BY OfTail
<1>. HIDE DEF p
<1>2. ASSUME NEW d, NEW a \in Requests, d.stdin \in Seq(Chunk), Follows(q, i, d, a)
      PROVE  Follows(p, i, d, a)
  BY <1>1, <1>2, FollowsMoves
<1>3. /\ Of(q, i) = {} => Of(p, i) = {}
      /\ BeginIsFirst(q, i) => BeginIsFirst(p, i)
      /\ NoBegin(q, i) => NoBegin(p, i)
  BY <1>1, BeginMoves
<1>. QED BY <1>2, <1>3 DEF p

----------------------------------------------------------------------------
(* Sending. *)

(* What the web server appends to a request that follows still follows. *)
LEMMA ParamsFollow ==
  ASSUME NEW q \in Seq(Record), NEW i \in Id, NEW d, d.stdin \in Seq(Chunk),
         NEW a \in Requests, a.state = "params", Follows(q, i, d, a),
         NEW n \in Name \cup {"end"}
  PROVE  Follows(Append(q, [type |-> "params", id |-> i, body |-> n]), i, d,
                 IF n = "end" THEN [a EXCEPT !.state = "stdin"]
                              ELSE [a EXCEPT !.params = @ \cup {n}])
<1>. DEFINE r == [type |-> "params", id |-> i, body |-> n]
            p == Append(q, r)
            b == IF n = "end" THEN [a EXCEPT !.state = "stdin"]
                              ELSE [a EXCEPT !.params = @ \cup {n}]
<1>1. r \in Record /\ r.type = "params" /\ r.id = i /\ r.body = n
  BY DEF Record
<1>2. /\ p \in Seq(Record) /\ Of(p, i) = Of(q, i) \cup {Len(q) + 1}
      /\ \A k \in Of(q, i) : p[k] = q[k]
      /\ p[Len(q) + 1] = r
  <2>. HIDE DEF r
  <2>. QED BY <1>1, OfAppend
<1>3. /\ b.state \in {"params", "stdin"} /\ b.stdin = a.stdin /\ b \in Requests
      /\ \A m \in Name : m \in b.params <=> m \in a.params \/ m = n
  BY FastCgiAssumption DEF Requests
<1>. HIDE DEF r, p, b
<1>4. ParamsAgree(p, i, d.headers, b.params)
  BY <1>1, <1>2, <1>3 DEF Follows, ParamsAgree
<1>5. InputAgrees(p, i, d.stdin, b.stdin)
  <2>1. Input(p, i) = Input(q, i)
    BY <1>1, <1>2 DEF Input
  <2>2. \A k \in Input(q, i) : k \in Int
    BY Positions DEF Input
  <2>3. /\ \A k \in Input(p, i) : k + 0 \in Input(q, i) /\ p[k] = q[k + 0]
        /\ \A k \in Input(q, i) : k - 0 \in Input(p, i)
    BY <1>2, <2>1, <2>2 DEF Input
  <2>4. a.stdin \in Seq(Chunk)
    BY DEF Requests
  <2>. QED BY <1>2, <1>3, <2>3, <2>4, InputMoves DEF Follows
<1>6. EndIsLast(p, i, b)
  BY <1>1, <1>2 DEF Follows, EndIsLast
<1>7. b.state \notin {"none", "answered"}
  BY <1>3
<1>8. Follows(p, i, d, b)
  BY <1>4, <1>5, <1>6, <1>7 DEF Follows
<1>. QED BY <1>8 DEF p, r, b

(* A piece of input is the last one, of what was asked and of the queue. *)
LEMMA ChunkFollows ==
  ASSUME NEW q \in Seq(Record), NEW i \in Id, NEW d, d.stdin \in Seq(Chunk),
         NEW a \in Requests, a.state = "stdin", Follows(q, i, d, a),
         NEW x \in Chunk
  PROVE  Follows(Append(q, [type |-> "stdin", id |-> i, body |-> x]), i, d,
                 [a EXCEPT !.stdin = Append(@, x)])
<1>. DEFINE r == [type |-> "stdin", id |-> i, body |-> x]
            p == Append(q, r)
            b == [a EXCEPT !.stdin = Append(@, x)]
            D == (Len(d.stdin) + 1)..Len(a.stdin)
            E == (Len(d.stdin) + 1)..(Len(a.stdin) + 1)
<1>1. r \in Record /\ r.type = "stdin" /\ r.id = i /\ r.body = x /\ x # "end"
  BY FastCgiAssumption DEF Record
<1>2. /\ p \in Seq(Record) /\ Of(p, i) = Of(q, i) \cup {Len(q) + 1}
      /\ \A k \in Of(q, i) : p[k] = q[k] /\ k \in 1..Len(q)
      /\ p[Len(q) + 1] = r
  <2>. HIDE DEF r
  <2>. QED BY <1>1, OfAppend
<1>3. a.stdin \in Seq(Chunk)
  BY DEF Requests
<1>4. /\ Len(Append(a.stdin, x)) = Len(a.stdin) + 1
      /\ \A k \in 1..Len(a.stdin) : Append(a.stdin, x)[k] = a.stdin[k]
      /\ Append(a.stdin, x)[Len(a.stdin) + 1] = x
  BY <1>3, AppendProperties
<1>5. b.state = "stdin" /\ b.params = a.params /\ b.stdin = Append(a.stdin, x)
  BY DEF Requests
<1>. HIDE DEF r, p, b
<1>6. ParamsAgree(p, i, d.headers, b.params)
  BY <1>1, <1>2, <1>5 DEF Follows, ParamsAgree
<1>7. InputAgrees(p, i, d.stdin, b.stdin)
  <2>1. Input(p, i) = Input(q, i) \cup {Len(q) + 1}
    BY <1>1, <1>2 DEF Input
  <2>2. PICK g \in [D -> Input(q, i)] :
          /\ Continues(g, q, d.stdin, a.stdin)
          /\ \A n \in Input(q, i) : \E k \in D : g[k] = n
    BY DEF Follows, InputAgrees
  <2>3. /\ Len(d.stdin) <= Len(a.stdin)
        /\ \A k \in 1..Len(d.stdin) : d.stdin[k] = a.stdin[k]
    BY DEF Follows, InputAgrees
  <2>4. Len(d.stdin) \in Nat /\ Len(a.stdin) \in Nat /\ Len(q) \in Nat
    BY <1>3
  <2>. DEFINE h == [k \in E |-> IF k = Len(a.stdin) + 1 THEN Len(q) + 1 ELSE g[k]]
  <2>5. E = D \cup {Len(a.stdin) + 1} /\ Len(a.stdin) + 1 \notin D
    BY <2>3, <2>4
  <2>6. h \in [E -> Input(p, i)]
    BY <2>1, <2>2, <2>5
  <2>7. /\ \A k \in D : h[k] = g[k] /\ h[k] \in Input(q, i)
        /\ h[Len(a.stdin) + 1] = Len(q) + 1
    BY <2>2, <2>5
  <2>8. \A n \in Input(q, i) : n \in 1..Len(q) /\ p[n] = q[n]
    BY <1>2 DEF Input
  <2>. HIDE DEF h, D, E
  <2>9. ASSUME NEW k \in E
        PROVE  p[h[k]].body = b.stdin[k]
    <3>1. CASE k \in D
      <4>1. p[h[k]].body = a.stdin[k]
        BY <2>2, <2>7, <2>8, <3>1 DEF Continues
      <4>2. k \in 1..Len(a.stdin)
        BY <2>4, <3>1 DEF D
      <4>. QED BY <1>4, <1>5, <4>1, <4>2
    <3>2. CASE k = Len(a.stdin) + 1
      BY <1>1, <1>2, <1>4, <1>5, <2>7, <3>2
    <3>. QED BY <2>5, <3>1, <3>2
  <2>10. ASSUME NEW k \in E, NEW l \in E, k < l
         PROVE  h[k] < h[l]
    <3>1. k \in D
      BY <2>4, <2>10 DEF D, E
    <3>2. CASE l \in D
      BY <2>2, <2>7, <2>10, <3>1, <3>2 DEF Continues
    <3>3. CASE l = Len(a.stdin) + 1
      BY <2>4, <2>7, <2>8, <3>1, <3>3
    <3>. QED BY <2>5, <3>2, <3>3
  <2>11. ASSUME NEW n \in Input(p, i)
         PROVE  \E k \in E : h[k] = n
    <3>1. CASE n \in Input(q, i)
      BY <2>2, <2>5, <2>7, <3>1
    <3>2. CASE n = Len(q) + 1
      BY <2>5, <2>7, <3>2
    <3>. QED BY <2>1, <3>1, <3>2
  <2>12. Continues(h, p, d.stdin, b.stdin)
    <3>1. DOMAIN h = E
      BY <2>6
    <3>. QED BY <2>9, <2>10, <3>1 DEF Continues
  <2>13. /\ Len(d.stdin) <= Len(b.stdin)
         /\ \A k \in 1..Len(d.stdin) : d.stdin[k] = b.stdin[k]
    BY <1>4, <1>5, <2>3, <2>4
  <2>14. E = (Len(d.stdin) + 1)..Len(b.stdin)
    BY <1>4, <1>5 DEF E
  <2>. QED BY <2>6, <2>11, <2>12, <2>13, <2>14 DEF InputAgrees
<1>8. EndIsLast(p, i, b)
  BY <1>1, <1>2 DEF Follows, EndIsLast
<1>9. Follows(p, i, d, b)
  BY <1>5, <1>6, <1>7, <1>8 DEF Follows
<1>. QED BY <1>9 DEF p, r, b

(* The end of the input comes after everything else of its request. *)
LEMMA EndFollows ==
  ASSUME NEW q \in Seq(Record), NEW i \in Id, NEW d, d.stdin \in Seq(Chunk),
         NEW a \in Requests, a.state = "stdin", Follows(q, i, d, a)
  PROVE  Follows(Append(q, [type |-> "stdin", id |-> i, body |-> "end"]), i, d,
                 [a EXCEPT !.state = "complete"])
<1>. DEFINE r == [type |-> "stdin", id |-> i, body |-> "end"]
            p == Append(q, r)
            b == [a EXCEPT !.state = "complete"]
<1>1. r \in Record /\ r.type = "stdin" /\ r.id = i /\ r.body = "end"
  BY DEF Record
<1>2. /\ p \in Seq(Record) /\ Of(p, i) = Of(q, i) \cup {Len(q) + 1}
      /\ \A k \in Of(q, i) : p[k] = q[k] /\ k \in 1..Len(q)
      /\ p[Len(q) + 1] = r
  <2>. HIDE DEF r
  <2>. QED BY <1>1, OfAppend
<1>3. b.state = "complete" /\ b.params = a.params /\ b.stdin = a.stdin
  BY DEF Requests
<1>. HIDE DEF r, p, b
<1>4. ParamsAgree(p, i, d.headers, b.params)
  BY <1>1, <1>2, <1>3 DEF Follows, ParamsAgree
<1>5. InputAgrees(p, i, d.stdin, b.stdin)
  <2>1. Input(p, i) = Input(q, i)
    BY <1>1, <1>2 DEF Input
  <2>2. \A k \in Input(q, i) : k \in Int
    BY Positions DEF Input
  <2>3. /\ \A k \in Input(p, i) : k + 0 \in Input(q, i) /\ p[k] = q[k + 0]
        /\ \A k \in Input(q, i) : k - 0 \in Input(p, i)
    BY <1>2, <2>1, <2>2 DEF Input
  <2>4. a.stdin \in Seq(Chunk)
    BY DEF Requests
  <2>. QED BY <1>2, <1>3, <2>3, <2>4, InputMoves DEF Follows
<1>6. EndIsLast(p, i, b)
  <2>1. \A k \in Of(q, i) : ~(q[k].type = "stdin" /\ q[k].body = "end")
    BY DEF Follows, EndIsLast
  <2>2. \A l \in Of(p, i) : l <= Len(q) + 1
    BY <1>2
  <2>. QED BY <1>2, <1>3, <2>1, <2>2 DEF EndIsLast
<1>7. Follows(p, i, d, b)
  BY <1>3, <1>4, <1>5, <1>6 DEF Follows
<1>. QED BY <1>7 DEF p, r, b

(* An abort does not change what was asked for before it. *)
LEMMA AbortFollows ==
  ASSUME NEW q, NEW i, NEW d, NEW a \in Requests, Follows(q, i, d, a)
  PROVE  Follows(q, i, d, [a EXCEPT !.state = "aborted"])
<1>. DEFINE b == [a EXCEPT !.state = "aborted"]
<1>1. b.state = "aborted" /\ b.params = a.params /\ b.stdin = a.stdin
  BY DEF Requests
<1>. HIDE DEF b
<1>2. Follows(q, i, d, b)
  BY <1>1 DEF Follows, EndIsLast
<1>. QED BY <1>2 DEF b

(* What is sent does not change where the request begins. *)
LEMMA AppendBegin ==
  ASSUME NEW q \in Seq(Record), NEW i \in Id, NEW r \in Record,
         r.id = i, r.type \in {"params", "stdin"}
  PROVE  /\ BeginIsFirst(q, i) => BeginIsFirst(Append(q, r), i)
         /\ NoBegin(q, i) => NoBegin(Append(q, r), i)
<1>. DEFINE p == Append(q, r)
<1>1. /\ Of(p, i) = Of(q, i) \cup {Len(q) + 1}
      /\ \A k \in Of(q, i) : p[k] = q[k] /\ k \in 1..Len(q)
      /\ p[Len(q) + 1] = r
  BY OfAppend
<1>. HIDE DEF p
<1>2. ASSUME BeginIsFirst(q, i)
      PROVE  BeginIsFirst(p, i)
  <2>1. PICK b \in Of(q, i) :
          /\ q[b].type = "begin"
          /\ \A k \in Of(q, i) \ {b} : k > b /\ q[k].type # "begin"
    BY <1>2 DEF BeginIsFirst
  <2>2. b \in Of(p, i) /\ p[b].type = "begin"
    BY <1>1, <2>1
  <2>3. ASSUME NEW k \in Of(p, i) \ {b}
        PROVE  k > b /\ p[k].type # "begin"
    <3>1. CASE k \in Of(q, i)
      BY <1>1, <2>1, <3>1
    <3>2. CASE k = Len(q) + 1
      <4>1. p[k].type # "begin"
        BY <1>1, <3>2
      <4>2. b \in 1..Len(q) /\ Len(q) \in Nat
        BY <1>1, <2>1
      <4>. QED BY <3>2, <4>1, <4>2
    <3>. QED BY <1>1, <3>1, <3>2
  <2>. QED BY <2>2, <2>3 DEF BeginIsFirst
<1>3. NoBegin(q, i) => NoBegin(p, i)
  BY <1>1 DEF NoBegin
<1>. QED BY <1>2, <1>3 DEF p

(* A request that has just begun. *)
LEMMA BeginFollows ==
  ASSUME NEW q \in Seq(Record), NEW i \in Id, NEW role \in {"responder", "authorizer"},
         Of(q, i) = {}
  PROVE  LET p == Append(q, [type |-> "begin", id |-> i, body |-> role])
         IN  BeginIsFirst(p, i) /\ Follows(p, i, Idle, [Unasked EXCEPT !.state = "params"])
<1>. DEFINE r == [type |-> "begin", id |-> i, body |-> role]
            p == Append(q, r)
            b == [Unasked EXCEPT !.state = "params"]
<1>1. r \in Record /\ r.type = "begin" /\ r.id = i
  BY DEF Record
<1>2. Of(p, i) = {Len(q) + 1} /\ p[Len(q) + 1] = r
  <2>. HIDE DEF r
  <2>. QED BY <1>1, OfAppend
<1>3. b.state = "params" /\ b.params = {} /\ b.stdin = <<>>
  BY DEF Unasked
<1>. HIDE DEF r, p, b
<1>4. BeginIsFirst(p, i)
  BY <1>1, <1>2 DEF BeginIsFirst
<1>5. ParamsAgree(p, i, Idle.headers, b.params)
  BY <1>1, <1>2, <1>3 DEF ParamsAgree, Idle
<1>6. InputAgrees(p, i, Idle.stdin, b.stdin)
  <2>1. Input(p, i) = {}
    BY <1>1, <1>2 DEF Input
  <2>2. Idle.stdin = <<>> /\ Len(<<>>) = 0
    BY DEF Idle
  <2>3. (Len(Idle.stdin) + 1)..Len(b.stdin) = {}
    BY <1>3, <2>2
  <2>. DEFINE g == [k \in {} |-> k]
  <2>4. g \in [{} -> Input(p, i)] /\ DOMAIN g = {}
    OBVIOUS
  <2>5. Continues(g, p, Idle.stdin, b.stdin)
    BY <2>4 DEF Continues
  <2>6. \E h \in [{} -> Input(p, i)] :
          /\ Continues(h, p, Idle.stdin, b.stdin)
          /\ \A n \in Input(p, i) : \E k \in {} : h[k] = n
    <3>. HIDE DEF g
    <3>. QED BY <2>1, <2>4, <2>5
  <2>7. /\ Len(Idle.stdin) <= Len(b.stdin)
        /\ \A k \in 1..Len(Idle.stdin) : Idle.stdin[k] = b.stdin[k]
    BY <1>3, <2>2
  <2>. QED BY <2>3, <2>6, <2>7 DEF InputAgrees
<1>7. EndIsLast(p, i, b)
  BY <1>1, <1>2 DEF EndIsLast
<1>8. Follows(p, i, Idle, b)
  BY <1>3, <1>5, <1>6, <1>7 DEF Follows
<1>. QED BY <1>4, <1>8 DEF p, r, b

----------------------------------------------------------------------------
(* Receiving. *)

(* The first record of a request that is under way is its beginning... *)
LEMMA FirstIsBegin ==
  ASSUME NEW q \in Seq(Record), q # <<>>, NEW i,
         Head(q).id = i, Head(q).type # "abort", BeginIsFirst(q, i)
  PROVE  Head(q).type = "begin" /\ NoBegin(Tail(q), i)
<1>1. 1 \in Of(q, i) /\ Head(q) = q[1]
  BY OfTail
<1>2. PICK b \in Of(q, i) :
        /\ q[b].type = "begin"
        /\ \A k \in Of(q, i) \ {b} : k > b /\ q[k].type # "begin"
  BY DEF BeginIsFirst
<1>3. b = 1
  BY <1>1, <1>2, Positions
<1>4. NoBegin(Tail(q), i)
  <2>1. /\ Tail(q) \in Seq(Record)
        /\ \A k \in Of(Tail(q), i) : k + 1 \in Of(q, i) /\ Tail(q)[k] = q[k + 1]
    BY BehindFirst, Zenon
  <2>2. ASSUME NEW k \in Of(Tail(q), i)
        PROVE  Tail(q)[k].type # "begin"
    <3>1. k \in Nat /\ k >= 1
      BY <2>1, Positions
    <3>2. k + 1 \in Of(q, i) \ {b}
      BY <1>3, <2>1, <3>1
    <3>. QED BY <1>2, <2>1, <3>2
  <2>. QED BY <2>2 DEF NoBegin
<1>. QED BY <1>1, <1>2, <1>3, <1>4

(* ... which leaves all of it to come, *)
LEMMA BeginReceived ==
  ASSUME NEW q \in Seq(Record), q # <<>>, NEW i,
         Head(q).id = i, Head(q).type = "begin",
         NEW d, d.stdin \in Seq(Chunk), NEW a \in Requests, Follows(q, i, d, a)
  PROVE  Follows(Tail(q), i, d, a)
<1>1. Tail(q) \in Seq(Record) /\ Head(q) = q[1]
  BY OfTail
<1>3. \A k \in Of(Tail(q), i) : k + 1 \in Of(q, i) /\ Tail(q)[k] = q[k + 1]
  BY BehindFirst
<1>4. \A k \in Of(q, i) : k # 1 => k - 1 \in Of(Tail(q), i)
  BY OfTail
<1>2. \A k \in Of(q, i) : q[k].type # "begin" => k - 1 \in Of(Tail(q), i)
  BY <1>1, <1>4
<1>. QED BY <1>1, <1>2, <1>3, FollowsMoves

(* ... each parameter goes to the descriptor, *)
LEMMA ParamsReceived ==
  ASSUME NEW q \in Seq(Record), q # <<>>, NEW i,
         Head(q).id = i, Head(q).type = "params", Head(q).body \in Name \cup {"end"},
         NEW d, d.stdin \in Seq(Chunk), NEW e,
         e.headers = d.headers \cup ({Head(q).body} \ {"end"}), e.stdin = d.stdin,
         NEW a \in Requests, Follows(q, i, d, a)
  PROVE  Follows(Tail(q), i, e, a)
<1>. DEFINE p == Tail(q)
<1>1. p \in Seq(Record) /\ Head(q) = q[1] /\ 1 \in Of(q, i)
  BY OfTail
<1>2. \A k \in Of(p, i) : k + 1 \in Of(q, i) /\ p[k] = q[k + 1]
  BY BehindFirst
<1>3. \A k \in Of(q, i) : k # 1 => k - 1 \in Of(p, i)
  BY OfTail
<1>4. \A k \in Of(q, i) : k \in Nat
  BY Positions
<1>. HIDE DEF p
<1>5. \A k \in Of(p, i) : k \in Nat /\ k >= 1
  BY <1>1, Positions
<1>6. ParamsAgree(p, i, e.headers, a.params)
  <2>. SUFFICES ASSUME NEW m \in Name
                PROVE  m \in a.params <=>
                         \/ m \in e.headers
                         \/ \E k \in Of(p, i) : p[k].type = "params" /\ p[k].body = m
    BY DEF ParamsAgree
  <2>1. m \in a.params <=>
          \/ m \in d.headers
          \/ \E k \in Of(q, i) : q[k].type = "params" /\ q[k].body = m
    BY DEF Follows, ParamsAgree
  <2>2. m \in e.headers <=> m \in d.headers \/ m = q[1].body
    BY <1>1, FastCgiAssumption
  <2>3. ASSUME NEW k \in Of(q, i), q[k].type = "params", q[k].body = m, m # q[1].body
        PROVE  \E l \in Of(p, i) : p[l].type = "params" /\ p[l].body = m
    <3>1. k - 1 \in Of(p, i) /\ p[k - 1] = q[k]
      BY <1>2, <1>3, <1>4, <2>3
    <3>. QED BY <2>3, <3>1
  <2>4. ASSUME NEW k \in Of(p, i), p[k].type = "params", p[k].body = m
        PROVE  \E l \in Of(q, i) : q[l].type = "params" /\ q[l].body = m
    BY <1>2, <2>4
  <2>5. q[1].type = "params"
    BY <1>1
  <2>. QED BY <1>1, <2>1, <2>2, <2>3, <2>4, <2>5
<1>7. InputAgrees(p, i, e.stdin, a.stdin)
  <2>1. \A k \in Input(p, i) : k + 1 \in Input(q, i) /\ p[k] = q[k + 1]
    BY <1>2 DEF Input
  <2>2. \A k \in Input(q, i) : k - 1 \in Input(p, i)
    <3>1. 1 \notin Input(q, i)
      BY <1>1 DEF Input
    <3>2. ASSUME NEW k \in Input(q, i)
          PROVE  k - 1 \in Input(p, i)
      <4>1. k \in Of(q, i) /\ k # 1 /\ q[k].type = "stdin" /\ q[k].body # "end"
        BY <3>1 DEF Input
      <4>2. k - 1 \in Of(p, i) /\ p[k - 1] = q[k]
        BY <1>2, <1>3, <1>4, <4>1
      <4>. QED BY <4>1, <4>2 DEF Input
    <3>. QED BY <3>2
  <2>3. a.stdin \in Seq(Chunk)
    BY DEF Requests
  <2>. QED BY <1>1, <2>1, <2>2, <2>3, InputMoves DEF Follows
<1>8. EndIsLast(p, i, a)
  <2>. SUFFICES ASSUME NEW k \in Of(p, i), p[k].type = "stdin", p[k].body = "end"
                PROVE  a.state \in {"complete", "aborted"} /\ \A l \in Of(p, i) : l <= k
    BY DEF EndIsLast
  <2>1. a.state \in {"complete", "aborted"} /\ \A l \in Of(q, i) : l <= k + 1
    BY <1>2 DEF Follows, EndIsLast
  <2>2. ASSUME NEW l \in Of(p, i)
        PROVE  l <= k
    BY <1>2, <1>5, <2>1
  <2>. QED BY <2>1, <2>2
<1>9. Follows(p, i, e, a)
  BY <1>6, <1>7, <1>8 DEF Follows
<1>. QED BY <1>9 DEF p

(* ... each piece of input is the next one, *)
LEMMA ChunkReceived ==
  ASSUME NEW q \in Seq(Record), q # <<>>, NEW i,
         Head(q).id = i, Head(q).type = "stdin", Head(q).body # "end", Head(q).body \in Chunk,
         NEW d, d.stdin \in Seq(Chunk), NEW e,
         e.headers = d.headers, e.stdin = Append(d.stdin, Head(q).body),
         NEW a \in Requests, Follows(q, i, d, a)
  PROVE  Follows(Tail(q), i, e, a)
<1>. DEFINE p == Tail(q)
            D == (Len(d.stdin) + 1)..Len(a.stdin)
            E == (Len(e.stdin) + 1)..Len(a.stdin)
<1>1. p \in Seq(Record) /\ Head(q) = q[1] /\ 1 \in Of(q, i)
  BY OfTail
<1>2. \A k \in Of(p, i) : k + 1 \in Of(q, i) /\ p[k] = q[k + 1]
  BY BehindFirst
<1>3. \A k \in Of(q, i) : k # 1 => k - 1 \in Of(p, i)
  BY OfTail
<1>4. \A k \in Of(q, i) : k \in Nat /\ k >= 1
  BY Positions
<1>. HIDE DEF p
<1>5. ASSUME NEW k \in Of(q, i), k # 1
      PROVE  k - 1 \in Of(p, i) /\ p[k - 1] = q[k]
  <2>1. k - 1 \in Of(p, i) /\ k \in Nat
    BY <1>3, <1>4, <1>5
  <2>2. p[k - 1] = q[(k - 1) + 1] /\ (k - 1) + 1 = k
    BY <1>2, <2>1
  <2>. QED BY <2>1, <2>2
<1>6. \A k \in Of(p, i) : k \in Nat /\ k >= 1
  BY <1>1, Positions
<1>7. ParamsAgree(p, i, e.headers, a.params)
  <2>. SUFFICES ASSUME NEW m \in Name
                PROVE  (\E k \in Of(q, i) : q[k].type = "params" /\ q[k].body = m)
                         <=> (\E k \in Of(p, i) : p[k].type = "params" /\ p[k].body = m)
    BY DEF Follows, ParamsAgree
  <2>1. ASSUME NEW k \in Of(q, i), q[k].type = "params", q[k].body = m
        PROVE  \E l \in Of(p, i) : p[l].type = "params" /\ p[l].body = m
    <3>1. k # 1
      BY <1>1, <2>1
    <3>. QED BY <1>5, <2>1, <3>1
  <2>2. ASSUME NEW k \in Of(p, i), p[k].type = "params", p[k].body = m
        PROVE  \E l \in Of(q, i) : q[l].type = "params" /\ q[l].body = m
    BY <1>2, <2>2
  <2>. QED BY <2>1, <2>2
<1>8. InputAgrees(p, i, e.stdin, a.stdin)
  <2>1. PICK g \in [D -> Input(q, i)] :
          /\ Continues(g, q, d.stdin, a.stdin)
          /\ \A n \in Input(q, i) : \E k \in D : g[k] = n
    BY DEF Follows, InputAgrees
  <2>2. /\ Len(d.stdin) <= Len(a.stdin)
        /\ \A k \in 1..Len(d.stdin) : d.stdin[k] = a.stdin[k]
    BY DEF Follows, InputAgrees
  <2>3. Len(d.stdin) \in Nat /\ Len(a.stdin) \in Nat
    BY DEF Requests
  <2>4. 1 \in Input(q, i)
    BY <1>1 DEF Input
  <2>5. \A n \in Input(q, i) : n \in Of(q, i) /\ n \in Nat /\ n >= 1
    BY <1>4 DEF Input
  <2>6. PICK f \in D : g[f] = 1
    BY <2>1, <2>4
  <2>7. f = Len(d.stdin) + 1 /\ f <= Len(a.stdin)
    <3>1. SUFFICES ASSUME f # Len(d.stdin) + 1 PROVE FALSE
      BY <2>3, <2>6
    <3>2. Len(d.stdin) + 1 \in D /\ Len(d.stdin) + 1 < f
      BY <2>3, <2>6, <3>1
    <3>3. g[Len(d.stdin) + 1] < 1 /\ g[Len(d.stdin) + 1] \in Input(q, i)
      BY <2>1, <2>6, <3>2 DEF Continues
    <3>. QED BY <2>5, <3>3
  <2>8. /\ Len(e.stdin) = Len(d.stdin) + 1
        /\ \A k \in 1..Len(d.stdin) : e.stdin[k] = d.stdin[k]
        /\ e.stdin[Len(d.stdin) + 1] = q[1].body
    BY <1>1, AppendProperties
  <2>9. a.stdin[Len(d.stdin) + 1] = q[1].body
    BY <2>1, <2>6, <2>7 DEF Continues
  <2>10. D = E \cup {f} /\ f \notin E
    BY <2>3, <2>7, <2>8
  <2>11. \A k \in E : k \in D /\ f < k
    BY <2>3, <2>7, <2>8
  <2>. DEFINE h == [k \in E |-> g[k] - 1]
  <2>. HIDE DEF D, E
  <2>12. ASSUME NEW k \in E
         PROVE  h[k] \in Input(p, i) /\ p[h[k]] = q[g[k]] /\ h[k] = g[k] - 1
    <3>1. g[k] \in Input(q, i) /\ k \in D
      BY <2>1, <2>11
    <3>2. g[k] # 1
      <4>1. g[f] < g[k]
        BY <2>1, <2>11, <3>1 DEF Continues
      <4>. QED BY <2>6, <4>1
    <3>3. h[k] = g[k] - 1
      OBVIOUS
    <3>4. g[k] - 1 \in Of(p, i) /\ p[g[k] - 1] = q[g[k]]
      BY <1>5, <2>5, <3>1, <3>2
    <3>5. q[g[k]].type = "stdin" /\ q[g[k]].body # "end"
      BY <3>1 DEF Input
    <3>6. g[k] - 1 \in Input(p, i)
      BY <3>4, <3>5 DEF Input
    <3>. QED BY <3>3, <3>4, <3>6
  <2>13. h \in [E -> Input(p, i)] /\ DOMAIN h = E
    BY <2>12
  <2>. HIDE DEF h
  <2>14. Continues(h, p, e.stdin, a.stdin)
    <3>1. ASSUME NEW k \in E
          PROVE  p[h[k]].body = a.stdin[k]
      BY <2>1, <2>11, <2>12 DEF Continues
    <3>2. ASSUME NEW k \in E, NEW l \in E, k < l
          PROVE  h[k] < h[l]
      <4>1. g[k] < g[l]
        BY <2>1, <2>11, <3>2 DEF Continues
      <4>2. g[k] \in Nat /\ g[l] \in Nat
        BY <2>1, <2>5, <2>11
      <4>3. h[k] = g[k] - 1 /\ h[l] = g[l] - 1
        BY <2>12
      <4>. QED BY <4>1, <4>2, <4>3
    <3>. QED BY <2>13, <3>1, <3>2 DEF Continues
  <2>15. ASSUME NEW n \in Input(p, i)
         PROVE  \E k \in E : h[k] = n
    <3>1. n + 1 \in Input(q, i) /\ n \in Nat /\ n >= 1
      BY <1>2, <1>6 DEF Input
    <3>2. PICK k \in D : g[k] = n + 1
      BY <2>1, <3>1
    <3>3. k \in E
      BY <2>6, <2>10, <3>1, <3>2
    <3>. QED BY <2>12, <3>1, <3>2, <3>3
  <2>16. \A k \in 1..Len(e.stdin) : e.stdin[k] = a.stdin[k]
    BY <2>2, <2>3, <2>8, <2>9
  <2>17. Len(e.stdin) <= Len(a.stdin)
    BY <2>7, <2>8
  <2>18. \E u \in [E -> Input(p, i)] :
           /\ Continues(u, p, e.stdin, a.stdin)
           /\ \A n \in Input(p, i) : \E k \in E : u[k] = n
    BY <2>13, <2>14, <2>15
  <2>. HIDE DEF p
  <2>. QED BY <2>16, <2>17, <2>18, Zenon DEF InputAgrees, E
<1>9. EndIsLast(p, i, a)
  <2>. SUFFICES ASSUME NEW k \in Of(p, i), p[k].type = "stdin", p[k].body = "end"
                PROVE  a.state \in {"complete", "aborted"} /\ \A l \in Of(p, i) : l <= k
    BY DEF EndIsLast
  <2>1. a.state \in {"complete", "aborted"} /\ \A l \in Of(q, i) : l <= k + 1
    BY <1>2 DEF Follows, EndIsLast
  <2>2. ASSUME NEW l \in Of(p, i)
        PROVE  l <= k
    BY <1>2, <1>6, <2>1
  <2>. QED BY <2>1, <2>2
<1>10. Follows(p, i, e, a)
  BY <1>7, <1>8, <1>9 DEF Follows
<1>. QED BY <1>10 DEF p

(* ... and when its end is, nothing is left to come. *)
LEMMA EndReceived ==
  ASSUME NEW q \in Seq(Record), q # <<>>, NEW i,
         Head(q).id = i, Head(q).type = "stdin", Head(q).body = "end",
         NEW d, d.headers \in SUBSET Name, d.stdin \in Seq(Chunk),
         NEW a \in Requests, Follows(q, i, d, a)
  PROVE  /\ a.state \in {"complete", "aborted"}
         /\ d.headers = a.params /\ d.stdin = a.stdin
         /\ Of(Tail(q), i) = {}
<1>1. Tail(q) \in Seq(Record) /\ Head(q) = q[1] /\ 1 \in Of(q, i)
  BY OfTail
<1>2. a.state \in {"complete", "aborted"} /\ \A l \in Of(q, i) : l <= 1
  BY <1>1 DEF Follows, EndIsLast
<1>3. Of(q, i) = {1}
  BY <1>1, <1>2, Positions
<1>4. Of(Tail(q), i) = {}
  <2>1. ASSUME NEW k \in Of(Tail(q), i)
        PROVE  FALSE
    <3>1. k + 1 \in Of(q, i)
      BY OfTail
    <3>2. k \in Nat /\ k >= 1
      BY <1>1, Positions
    <3>. QED BY <1>3, <3>1, <3>2
  <2>. QED BY <2>1
<1>5. d.headers = a.params
  <2>1. \A n \in Name : n \in a.params <=> n \in d.headers
    BY <1>1, <1>3 DEF Follows, ParamsAgree
  <2>. QED BY <2>1 DEF Requests
<1>6. d.stdin = a.stdin
  <2>1. Input(q, i) = {}
    BY <1>1, <1>3 DEF Input
  <2>2. PICK g \in [(Len(d.stdin) + 1)..Len(a.stdin) -> Input(q, i)] : TRUE
    BY DEF Follows, InputAgrees
  <2>3. (Len(d.stdin) + 1)..Len(a.stdin) = {}
    BY <2>1, <2>2
  <2>4. /\ Len(d.stdin) <= Len(a.stdin)
        /\ \A k \in 1..Len(d.stdin) : d.stdin[k] = a.stdin[k]
    BY DEF Follows, InputAgrees
  <2>5. d.stdin \in Seq(Chunk) /\ a.stdin \in Seq(Chunk)
    BY DEF Requests
  <2>6. Len(d.stdin) \in Nat /\ Len(a.stdin) \in Nat
    BY <2>5
  <2>7. Len(d.stdin) = Len(a.stdin)
    <3>1. Len(a.stdin) \notin (Len(d.stdin) + 1)..Len(a.stdin)
      BY <2>3
    <3>. QED BY <2>4, <2>6, <3>1
  <2>. QED BY <2>4, <2>5, <2>7, SeqEqual
<1>. QED BY <1>2, <1>4, <1>5, <1>6

----------------------------------------------------------------------------
(* Steps. *)

(* What requests and the descriptor are made of. *)
LEMMA InboxTypes ==
  ASSUME FastCgiInv, NEW c \in Connection, NEW i \in Id
  PROVE  inbox[c] \in Seq(Record) /\ asked[c][i] \in Requests
         /\ dsc.stdin \in Seq(Chunk) /\ Idle.stdin \in Seq(Chunk)
BY DEF FastCgiInv, WebTypes, DscType, Idle

(* A request that a step does not touch, nor what is served of it. *)
LEMMA RequestKept ==
  ASSUME NEW c \in Connection, NEW i \in Id, RequestInv(c, i),
         inbox'[c] = inbox[c], asked'[c][i] = asked[c][i],
         c # current \/ (current' = current /\ dsc' = dsc)
  PROVE  RequestInv(c, i)'
BY DEF RequestInv

(* A record for another request of the same connection, or an abort. *)
LEMMA RequestPassed ==
  ASSUME FastCgiInv, NEW type, Received(type), current' = current, NEW j \in Id,
         Head(inbox[current]).id # j \/ Head(inbox[current]).type = "abort",
         RequestInv(current, j),
         asked'[current][j] = asked[current][j],
         dsc.id # j \/ dsc' = dsc
  PROVE  RequestInv(current, j)'
<1>. DEFINE q == inbox[current]
<1>1. current \in Connection /\ q # <<>> /\ inbox'[current] = Tail(q)
  BY ReceivedRecord DEF FastCgiInv, Received, WebTypes
<1>2. /\ q \in Seq(Record) /\ asked[current][j] \in Requests
      /\ dsc.stdin \in Seq(Chunk) /\ Idle.stdin \in Seq(Chunk)
  BY <1>1, InboxTypes
<1>3. /\ Of(q, j) = {} => Of(Tail(q), j) = {}
      /\ BeginIsFirst(q, j) => BeginIsFirst(Tail(q), j)
      /\ NoBegin(q, j) => NoBegin(Tail(q), j)
      /\ \A d : \A a \in Requests : d.stdin \in Seq(Chunk) =>
           (Follows(q, j, d, a) => Follows(Tail(q), j, d, a))
  <2>. HIDE DEF q
  <2>. QED BY <1>1, <1>2, TailOther DEF q
<1>4. CASE Of(q, j) = {} /\ asked[current][j].state \in {"none", "answered"}
  BY <1>1, <1>3, <1>4 DEF RequestInv
<1>5. CASE BeginIsFirst(q, j) /\ Follows(q, j, Idle, asked[current][j])
  BY <1>1, <1>2, <1>3, <1>5 DEF RequestInv
<1>6. CASE /\ j = dsc.id /\ NoBegin(q, j)
           /\ Follows(q, j, dsc, asked[current][j])
  BY <1>1, <1>2, <1>3, <1>6 DEF RequestInv
<1>. QED BY <1>4, <1>5, <1>6 DEF RequestInv

(* Sending a record is a matter of its own request only. *)
LEMMA SentKeeps ==
  ASSUME FastCgiInv, CallbackInv, api = "callback",
         NEW c \in Connection, NEW r \in Record, NEW a, Send(c, r, a),
         Live(c) => RequestInv(c, r.id)'
  PROVE  CallbackInv'
<1>1. /\ UNCHANGED <<api, up, current, dsc, phase>>
      /\ inbox' = [inbox EXCEPT ![c] = Append(@, r)]
      /\ asked' = [asked EXCEPT ![c][r.id] = a]
  BY DEF Send
<1>2. ASSUME NEW e \in Connection, NEW j \in Id, Live(e)'
      PROVE  RequestInv(e, j)'
  <2>1. Live(e) /\ RequestInv(e, j)
    BY <1>1, <1>2 DEF Live, CallbackInv
  <2>2. CASE e # c
    <3>1. inbox'[e] = inbox[e] /\ asked'[e][j] = asked[e][j]
      BY <1>1, <2>2 DEF FastCgiInv, WebTypes
    <3>. QED BY <1>1, <2>1, <3>1, RequestKept
  <2>3. CASE e = c /\ j = r.id
    BY <2>1, <2>3
  <2>4. CASE e = c /\ j # r.id
    <3>1. inbox'[c] = Append(inbox[c], r) /\ asked'[c][j] = asked[c][j]
      BY <1>1, <2>4 DEF FastCgiInv, WebTypes
    <3>2. /\ inbox[c] \in Seq(Record) /\ asked[c][j] \in Requests
          /\ dsc.stdin \in Seq(Chunk) /\ Idle.stdin \in Seq(Chunk)
      BY InboxTypes
    <3>3. /\ Of(inbox[c], j) = {} => Of(Append(inbox[c], r), j) = {}
          /\ BeginIsFirst(inbox[c], j) => BeginIsFirst(Append(inbox[c], r), j)
          /\ NoBegin(inbox[c], j) => NoBegin(Append(inbox[c], r), j)
          /\ \A d : \A b \in Requests : d.stdin \in Seq(Chunk) =>
               (Follows(inbox[c], j, d, b) => Follows(Append(inbox[c], r), j, d, b))
      BY <2>4, <3>2, AppendOther
    <3>4. RequestInv(c, j)'
      <4>1. CASE Of(inbox[c], j) = {} /\ asked[c][j].state \in {"none", "answered"}
        BY <3>1, <3>3, <4>1 DEF RequestInv
      <4>2. CASE BeginIsFirst(inbox[c], j) /\ Follows(inbox[c], j, Idle, asked[c][j])
        BY <3>1, <3>2, <3>3, <4>2 DEF RequestInv
      <4>3. CASE /\ c = current /\ j = dsc.id
                 /\ NoBegin(inbox[c], j) /\ Follows(inbox[c], j, dsc, asked[c][j])
        BY <1>1, <3>1, <3>2, <3>3, <4>3 DEF RequestInv
      <4>. QED BY <2>1, <2>4, <4>1, <4>2, <4>3 DEF RequestInv
    <3>. QED BY <2>4, <3>4
  <2>. QED BY <2>2, <2>3, <2>4
<1>3. dsc'.id = 0 => dsc' = Idle
  BY <1>1 DEF CallbackInv
<1>. QED BY <1>2, <1>3 DEF CallbackInv

(* Nothing but a beginning starts a request that is not there. *)
LEMMA SentFollows ==
  ASSUME FastCgiInv, NEW c \in Connection, NEW i \in Id, RequestInv(c, i),
         asked[c][i].state \in {"params", "stdin"},
         NEW r \in Record, r.id = i, r.type \in {"params", "stdin"},
         NEW b \in Requests, Send(c, r, b),
         \A d : d.stdin \in Seq(Chunk) /\ Follows(inbox[c], i, d, asked[c][i])
                  => Follows(Append(inbox[c], r), i, d, b)
  PROVE  RequestInv(c, i)'
<1>1. /\ current' = current /\ dsc' = dsc
      /\ inbox'[c] = Append(inbox[c], r) /\ asked'[c][i] = b
  BY DEF Send, FastCgiInv, WebTypes
<1>2. /\ inbox[c] \in Seq(Record)
      /\ dsc.stdin \in Seq(Chunk) /\ Idle.stdin \in Seq(Chunk)
  BY InboxTypes
<1>3. CASE BeginIsFirst(inbox[c], i) /\ Follows(inbox[c], i, Idle, asked[c][i])
  <2>1. BeginIsFirst(Append(inbox[c], r), i)
    BY <1>2, <1>3, AppendBegin
  <2>2. Follows(Append(inbox[c], r), i, Idle, b)
    BY <1>2, <1>3
  <2>. QED BY <1>1, <2>1, <2>2 DEF RequestInv
<1>4. CASE /\ c = current /\ i = dsc.id
           /\ NoBegin(inbox[c], i) /\ Follows(inbox[c], i, dsc, asked[c][i])
  <2>1. NoBegin(Append(inbox[c], r), i)
    BY <1>2, <1>4, AppendBegin
  <2>2. Follows(Append(inbox[c], r), i, dsc, b)
    BY <1>2, <1>4
  <2>. QED BY <1>1, <1>4, <2>1, <2>2 DEF RequestInv
<1>. QED BY <1>3, <1>4 DEF RequestInv

(* A request begins when none of its identifier is under way. *)
LEMMA SendBeginKeeps ==
  ASSUME FastCgiInv, CallbackInv, api = "callback",
         NEW c \in Connection, NEW i \in Id, SendBegin(c, i)
  PROVE  CallbackInv'
<1>. PICK role \in {"responder", "authorizer"} :
       Send(c, [type |-> "begin", id |-> i, body |-> role], [Unasked EXCEPT !.state = "params"])
  BY DEF SendBegin
<1>. DEFINE r == [type |-> "begin", id |-> i, body |-> role]
            b == [Unasked EXCEPT !.state = "params"]
<1>1. r \in Record /\ r.id = i
  BY DEF Record
<1>2. ASSUME Live(c)
      PROVE  RequestInv(c, i)'
  <2>1. asked[c][i].state \in {"none", "answered"}
    BY InboxTypes DEF SendBegin, Open, Requests
  <2>2. Of(inbox[c], i) = {}
    BY <1>2, <2>1 DEF CallbackInv, RequestInv, Follows
  <2>3. inbox[c] \in Seq(Record)
    BY InboxTypes
  <2>4. BeginIsFirst(Append(inbox[c], r), i) /\ Follows(Append(inbox[c], r), i, Idle, b)
    BY <2>2, <2>3, BeginFollows
  <2>5. inbox'[c] = Append(inbox[c], r) /\ asked'[c][i] = b
    BY <1>1 DEF Send, FastCgiInv, WebTypes
  <2>. HIDE DEF r, b
  <2>. QED BY <2>4, <2>5 DEF RequestInv
<1>. HIDE DEF b
<1>3. Send(c, r, b)
  BY DEF b
<1>. HIDE DEF r
<1>. QED BY <1>1, <1>2, <1>3, SentKeeps

(* Parameters are sent of a request that is under way, *)
LEMMA SendParamsKeeps ==
  ASSUME FastCgiInv, CallbackInv, api = "callback",
         NEW c \in Connection, NEW i \in Id, SendParams(c, i)
  PROVE  CallbackInv'
<1>. DEFINE r(n) == [type |-> "params", id |-> i, body |-> n]
            b(n) == IF n = "end" THEN [asked[c][i] EXCEPT !.state = "stdin"]
                                 ELSE [asked[c][i] EXCEPT !.params = @ \cup {n}]
<1>1. asked[c][i].state = "params" /\ asked[c][i] \in Requests /\ inbox[c] \in Seq(Record)
  BY InboxTypes DEF SendParams
<1>2. PICK n \in Name \cup {"end"} : Send(c, r(n), b(n))
  <2>1. CASE \E n \in Name \ asked[c][i].params :
               Send(c, [type |-> "params", id |-> i, body |-> n],
                    [asked[c][i] EXCEPT !.params = @ \cup {n}])
    BY <2>1, FastCgiAssumption
  <2>2. CASE Send(c, [type |-> "params", id |-> i, body |-> "end"],
                  [asked[c][i] EXCEPT !.state = "stdin"])
    BY <2>2
  <2>. QED BY <2>1, <2>2 DEF SendParams
<1>3. r(n) \in Record /\ r(n).id = i /\ r(n).type = "params"
  BY DEF Record
<1>4. b(n) \in Requests
  BY <1>1 DEF Requests
<1>5. \A d : d.stdin \in Seq(Chunk) /\ Follows(inbox[c], i, d, asked[c][i])
               => Follows(Append(inbox[c], r(n)), i, d, b(n))
  BY <1>1, ParamsFollow
<1>. HIDE DEF r, b
<1>6. ASSUME Live(c)
      PROVE  RequestInv(c, i)'
  <2>1. RequestInv(c, i)
    BY <1>6 DEF CallbackInv
  <2>. QED BY <1>1, <1>2, <1>3, <1>4, <1>5, <2>1, SentFollows
<1>. QED BY <1>2, <1>3, <1>6, SentKeeps

(* and then its input, *)
LEMMA SendStdinKeeps ==
  ASSUME FastCgiInv, CallbackInv, api = "callback",
         NEW c \in Connection, NEW i \in Id, SendStdin(c, i)
  PROVE  CallbackInv'
<1>. DEFINE r(n) == [type |-> "stdin", id |-> i, body |-> n]
            b(n) == IF n = "end" THEN [asked[c][i] EXCEPT !.state = "complete"]
                                 ELSE [asked[c][i] EXCEPT !.stdin = Append(@, n)]
<1>1. asked[c][i].state = "stdin" /\ asked[c][i] \in Requests /\ inbox[c] \in Seq(Record)
  BY InboxTypes DEF SendStdin
<1>2. PICK n \in Chunk \cup {"end"} : Send(c, r(n), b(n))
  <2>1. CASE \E n \in Chunk :
               Send(c, [type |-> "stdin", id |-> i, body |-> n],
                    [asked[c][i] EXCEPT !.stdin = Append(@, n)])
    BY <2>1, FastCgiAssumption
  <2>2. CASE Send(c, [type |-> "stdin", id |-> i, body |-> "end"],
                  [asked[c][i] EXCEPT !.state = "complete"])
    BY <2>2
  <2>. QED BY <2>1, <2>2 DEF SendStdin
<1>3. r(n) \in Record /\ r(n).id = i /\ r(n).type = "stdin"
  BY DEF Record
<1>4. b(n) \in Requests
  <2>1. CASE n = "end"
    BY <1>1, <2>1 DEF Requests
  <2>2. CASE n # "end"
    <3>1. Append(asked[c][i].stdin, n) \in Seq(Chunk)
      BY <1>1, <2>2, AppendProperties DEF Requests
    <3>. QED BY <1>1, <2>2, <3>1 DEF Requests
  <2>. QED BY <2>1, <2>2
<1>5. ASSUME NEW d, d.stdin \in Seq(Chunk), Follows(inbox[c], i, d, asked[c][i])
      PROVE  Follows(Append(inbox[c], r(n)), i, d, b(n))
  <2>1. CASE n = "end"
    BY <1>1, <1>5, <2>1, EndFollows
  <2>2. CASE n # "end"
    BY <1>1, <1>5, <2>2, ChunkFollows
  <2>. QED BY <2>1, <2>2
<1>. HIDE DEF r, b
<1>6. ASSUME Live(c)
      PROVE  RequestInv(c, i)'
  <2>1. RequestInv(c, i)
    BY <1>6 DEF CallbackInv
  <2>. QED BY <1>1, <1>2, <1>3, <1>4, <1>5, <2>1, SentFollows
<1>. QED BY <1>2, <1>3, <1>6, SentKeeps

(* and it may be aborted at any time. *)
LEMMA SendAbortKeeps ==
  ASSUME FastCgiInv, CallbackInv, api = "callback",
         NEW c \in Connection, NEW i \in Id, SendAbort(c, i)
  PROVE  CallbackInv'
<1>. DEFINE r == [type |-> "abort", id |-> i, body |-> "end"]
            b == [asked[c][i] EXCEPT !.state = "aborted"]
<1>1. Send(c, r, b) /\ Open(asked[c][i])
  BY DEF SendAbort
<1>2. r \in Record /\ r.id = i /\ r.type = "abort"
  BY DEF Record
<1>3. /\ inbox[c] \in Seq(Record) /\ asked[c][i] \in Requests
      /\ dsc.stdin \in Seq(Chunk) /\ Idle.stdin \in Seq(Chunk)
  BY InboxTypes
<1>4. b \in Requests
  BY <1>3 DEF Requests
<1>5. ASSUME NEW d, d.stdin \in Seq(Chunk), Follows(inbox[c], i, d, asked[c][i])
      PROVE  Follows(Append(inbox[c], r), i, d, b)
  <2>1. Follows(inbox[c], i, d, b)
    BY <1>3, <1>5, AbortFollows
  <2>. HIDE DEF r, b
  <2>. QED BY <1>2, <1>3, <1>4, <1>5, <2>1, AppendOther
<1>. HIDE DEF r, b
<1>6. ASSUME Live(c)
      PROVE  RequestInv(c, i)'
  <2>1. /\ current' = current /\ dsc' = dsc
        /\ inbox'[c] = Append(inbox[c], r) /\ asked'[c][i] = b
    BY <1>1, <1>2 DEF Send, FastCgiInv, WebTypes
  <2>2. /\ BeginIsFirst(inbox[c], i) => BeginIsFirst(Append(inbox[c], r), i)
        /\ NoBegin(inbox[c], i) => NoBegin(Append(inbox[c], r), i)
    BY <1>2, <1>3, AppendOther
  <2>3. RequestInv(c, i) /\ asked[c][i].state \notin {"none", "answered"}
    BY <1>1, <1>6 DEF CallbackInv, Open
  <2>4. CASE BeginIsFirst(inbox[c], i) /\ Follows(inbox[c], i, Idle, asked[c][i])
    BY <1>3, <1>5, <2>1, <2>2, <2>4 DEF RequestInv
  <2>5. CASE /\ c = current /\ i = dsc.id
             /\ NoBegin(inbox[c], i) /\ Follows(inbox[c], i, dsc, asked[c][i])
    BY <1>3, <1>5, <2>1, <2>2, <2>5 DEF RequestInv
  <2>. QED BY <2>3, <2>4, <2>5 DEF RequestInv
<1>. QED BY <1>1, <1>2, <1>6, SentKeeps

----------------------------------------------------------------------------
(* Connections. *)

(* Connections whose requests stay as they are, and as those which start.  *)
Stays(c) ==
  /\ inbox'[c] = inbox[c] /\ asked'[c] = asked[c]
  /\ c # current \/ (current' = current /\ dsc' = dsc)
Starts(c) == inbox'[c] = <<>> /\ asked'[c] = [i \in Id |-> Unasked]

(* The invariant is kept by a step that takes no record: what a connection *)
(* and its requests are does not change, or starts anew.                   *)
LEMMA AllKept ==
  ASSUME CallbackInv, api = "callback", dsc'.id = 0 => dsc' = Idle,
         \A c \in Connection : Live(c)' => (Live(c) /\ Stays(c)) \/ Starts(c)
  PROVE  CallbackInv'
<1>1. ASSUME NEW c \in Connection, NEW i \in Id, Live(c)'
      PROVE  RequestInv(c, i)'
  <2>1. CASE Live(c) /\ Stays(c)
    <3>1. RequestInv(c, i) /\ asked'[c][i] = asked[c][i]
      BY <2>1 DEF CallbackInv, Stays
    <3>. QED BY <2>1, <3>1, RequestKept DEF Stays
  <2>2. CASE Starts(c)
    <3>1. Of(inbox'[c], i) = {}
      BY <2>2 DEF Of, Starts
    <3>2. asked'[c][i].state = "none"
      BY <2>2 DEF Unasked, Starts
    <3>. QED BY <3>1, <3>2 DEF RequestInv
  <2>. QED BY <1>1, <2>1, <2>2
<1>. QED BY <1>1 DEF CallbackInv

(* A connection that the application does not know of has no requests. *)
LEMMA ConnectKeeps ==
  ASSUME FastCgiInv, CallbackInv, api = "callback",
         NEW c \in Connection, Connect(c)
  PROVE  CallbackInv'
<1>1. \A e \in Connection \ {c} :
        phase'[e] = phase[e] /\ inbox'[e] = inbox[e] /\ asked'[e] = asked[e]
  BY DEF Connect, FastCgiInv, WebTypes
<1>2. inbox'[c] = <<>> /\ asked'[c] = [i \in Id |-> Unasked]
  BY DEF Connect, FastCgiInv, WebTypes
<1>3. up' = up /\ current' = current /\ dsc' = dsc
  BY DEF Connect
<1>4. dsc'.id = 0 => dsc' = Idle
  BY <1>3 DEF CallbackInv
<1>5. \A e \in Connection : Live(e)' => (Live(e) /\ Stays(e)) \/ Starts(e)
  BY <1>1, <1>2, <1>3 DEF Live, Stays, Starts
<1>. QED BY <1>4, <1>5, AllKept

(* What has been sent can still be received from one that was hung up. *)
LEMMA HangupKeeps ==
  ASSUME FastCgiInv, CallbackInv, api = "callback",
         NEW c \in Connection, Hangup(c)
  PROVE  CallbackInv'
<1>1. /\ up' = up /\ current' = current /\ dsc' = dsc
      /\ inbox' = inbox /\ asked' = asked
  BY DEF Hangup
<1>2. \A e \in Connection : phase'[e] # "closed" => phase[e] # "closed"
  BY DEF Hangup, FastCgiInv, WebTypes
<1>3. dsc'.id = 0 => dsc' = Idle
  BY <1>1 DEF CallbackInv
<1>4. \A e \in Connection : Live(e)' => Live(e) /\ Stays(e)
  BY <1>1, <1>2 DEF Live, Stays
<1>. QED BY <1>3, <1>4, AllKept

(* When no connection is served, no request is the descriptor's. *)
LEMMA AcceptKeeps ==
  ASSUME FastCgiInv, CallbackInv, api = "callback", Accept
  PROVE  CallbackInv'
<1>1. /\ up /\ current = None /\ up' = up /\ dsc' = dsc
      /\ inbox' = inbox /\ asked' = asked
  BY DEF Accept
<1>2. \A c \in Connection : phase'[c] # "closed" => phase[c] # "closed"
  BY DEF Accept, FastCgiInv, WebTypes
<1>3. dsc'.id = 0 => dsc' = Idle
  BY <1>1 DEF CallbackInv
<1>4. \A c \in Connection : Live(c)' => Live(c) /\ Stays(c)
  BY <1>1, <1>2, FastCgiAssumption DEF Live, Stays
<1>. QED BY <1>3, <1>4, AllKept

(* With the connection its requests go. *)
LEMMA CloseSocketKeeps ==
  ASSUME FastCgiInv, CallbackInv, api = "callback", CloseSocket
  PROVE  CallbackInv'
<1>1. up' = up /\ dsc' = dsc /\ inbox' = inbox /\ asked' = asked
  BY DEF CloseSocket
<1>2. \A c \in Connection : phase'[c] # "closed" => c # current /\ phase[c] # "closed"
  BY DEF CloseSocket, FastCgiInv, WebTypes
<1>3. dsc'.id = 0 => dsc' = Idle
  BY <1>1 DEF CallbackInv
<1>4. \A c \in Connection : Live(c)' => Live(c) /\ Stays(c)
  BY <1>1, <1>2 DEF Live, Stays
<1>. QED BY <1>3, <1>4, AllKept

(* An application that has ended serves no connection. *)
LEMMA EndedKeeps ==
  ASSUME FastCgiInv, CallbackInv, api = "callback",
         up' = FALSE, current' = current, dsc' = dsc, asked' = asked, phase' = phase,
         \A c \in Connection \ {current} : inbox'[c] = inbox[c]
  PROVE  CallbackInv'
<1>1. dsc'.id = 0 => dsc' = Idle
  BY DEF CallbackInv
<1>2. \A c \in Connection : Live(c)' => Live(c) /\ Stays(c)
  BY DEF Live, Stays
<1>. QED BY <1>1, <1>2, AllKept

(* It is started again with a descriptor of no request, and without the    *)
(* connection that it served.                                              *)
LEMMA RestartKeeps ==
  ASSUME FastCgiInv, CallbackInv, api = "callback", Restart
  PROVE  CallbackInv'
<1>1. dsc' = Idle /\ asked' = asked
  BY DEF Restart
<1>2. \A c \in Connection : phase'[c] # "closed" =>
        c # current /\ phase[c] # "closed" /\ inbox'[c] = inbox[c]
  BY FastCgiAssumption DEF Restart, FastCgiInv, WebTypes
<1>3. \A c \in Connection : Live(c)' => Live(c) /\ Stays(c)
  BY <1>1, <1>2 DEF Live, Stays
<1>. QED BY <1>1, <1>3, AllKept

----------------------------------------------------------------------------
(* Receiving. *)

(* A record taken from the connection that is served matters to none of    *)
(* the others.                                                             *)
LEMMA ReceivedKeeps ==
  ASSUME FastCgiInv, CallbackInv, api = "callback",
         NEW type, Received(type), up' = up, dsc'.id = 0 => dsc' = Idle,
         \A c \in Connection \ {current} : asked'[c] = asked[c],
         \A j \in Id : RequestInv(current, j) => RequestInv(current, j)'
  PROVE  CallbackInv'
<1>1. /\ current \in Connection /\ current' = current /\ phase' = phase
      /\ up /\ phase[current] # "closed"
      /\ \A c \in Connection \ {current} : inbox'[c] = inbox[c]
  BY FastCgiAssumption DEF Received, FastCgiInv, WebTypes
<1>2. ASSUME NEW c \in Connection, NEW j \in Id, Live(c)'
      PROVE  RequestInv(c, j)'
  <2>1. Live(c)
    BY <1>1, <1>2 DEF Live
  <2>2. RequestInv(c, j)
    BY <2>1 DEF CallbackInv
  <2>3. CASE c = current
    BY <1>1, <2>2, <2>3 DEF RequestInv
  <2>4. CASE c # current
    <3>1. asked'[c][j] = asked[c][j] /\ inbox'[c] = inbox[c]
      BY <1>1, <2>4
    <3>. QED BY <2>2, <2>4, <3>1, RequestKept
  <2>. QED BY <2>3, <2>4
<1>. QED BY <1>2 DEF CallbackInv

(* The connection that is served goes on with the rest of its records. *)
LEMMA ReceivedTail ==
  ASSUME FastCgiInv, NEW type, Received(type)
  PROVE  /\ current \in Connection /\ current' = current /\ phase' = phase
         /\ Head(inbox[current]) \in Record /\ Head(inbox[current]).type = type
         /\ Head(inbox[current]).id \in Id
         /\ inbox[current] \in Seq(Record) /\ inbox[current] # <<>>
         /\ inbox'[current] = Tail(inbox[current])
         /\ \A c \in Connection \ {current} : inbox'[c] = inbox[c]
<1>1. /\ current \in Connection /\ Head(inbox[current]) \in Record
      /\ Head(inbox[current]).type = type
  BY ReceivedRecord DEF FastCgiInv
<1>2. Head(inbox[current]).id \in Id
  BY <1>1, RecordParts
<1>. QED BY <1>1, <1>2 DEF Received, FastCgiInv, WebTypes

(* Aborts are passed over. *)
LEMMA AbortKeeps ==
  ASSUME FastCgiInv, CallbackInv, api = "callback", ReceiveAbort
  PROVE  CallbackInv'
<1>1. /\ Received("abort") /\ up' = up /\ dsc' = dsc /\ asked' = asked
  BY DEF ReceiveAbort
<1>2. current' = current /\ Head(inbox[current]).type = "abort"
  BY <1>1, ReceivedTail
<1>3. \A j \in Id : RequestInv(current, j) => RequestInv(current, j)'
  BY <1>1, <1>2, RequestPassed
<1>4. dsc'.id = 0 => dsc' = Idle
  BY <1>1 DEF CallbackInv
<1>. QED BY <1>1, <1>3, <1>4, ReceivedKeeps

(* A request that begins becomes the descriptor's. *)
LEMMA BeginRequestKeeps ==
  ASSUME FastCgiInv, CallbackInv, ProcessBeginRequest
  PROVE  CallbackInv'
<1>. DEFINE r == Head(inbox[current])
<1>1. api = "callback" /\ Received("begin")
  BY DEF ProcessBeginRequest
<1>2. /\ current \in Connection /\ current' = current /\ phase' = phase
      /\ r \in Record /\ r.type = "begin" /\ r.id \in Id
      /\ inbox[current] \in Seq(Record) /\ inbox[current] # <<>>
      /\ inbox'[current] = Tail(inbox[current])
      /\ \A c \in Connection \ {current} : inbox'[c] = inbox[c]
  BY <1>1, ReceivedTail
<1>3. CASE Raise
  BY <1>1, <1>2, <1>3, EndedKeeps DEF Raise
<1>4. CASE /\ dsc.id = 0 /\ dsc' = [dsc EXCEPT !.id = r.id]
           /\ UNCHANGED <<up, asked, responders>>
  <2>1. dsc = Idle
    BY <1>1, <1>4 DEF CallbackInv
  <2>2. /\ dsc'.id = r.id /\ dsc'.headers = Idle.headers /\ dsc'.stdin = Idle.stdin
    BY <1>4, <2>1 DEF Idle
  <2>3. dsc'.id # 0
    BY <1>2, <2>2, FastCgiAssumption
  <2>4. ASSUME NEW j \in Id, RequestInv(current, j)
        PROVE  RequestInv(current, j)'
    <3>1. CASE j # r.id
      <4>1. dsc.id # j
        BY <1>4, FastCgiAssumption
      <4>. QED BY <1>1, <1>2, <1>4, <2>4, <3>1, <4>1, RequestPassed
    <3>2. CASE j = r.id
      <4>1. 1 \in Of(inbox[current], j)
        BY <1>2, <3>2, OfTail
      <4>2. BeginIsFirst(inbox[current], j)
              /\ Follows(inbox[current], j, Idle, asked[current][j])
        BY <1>4, <2>4, <4>1, FastCgiAssumption DEF RequestInv
      <4>3. NoBegin(Tail(inbox[current]), j)
        BY <1>2, <3>2, <4>2, FirstIsBegin
      <4>4. Follows(Tail(inbox[current]), j, Idle, asked[current][j])
        BY <1>2, <3>2, <4>2, InboxTypes, BeginReceived
      <4>5. Follows(Tail(inbox[current]), j, dsc', asked[current][j])
        BY <2>2, <4>4 DEF Follows
      <4>6. asked'[current][j] = asked[current][j]
        BY <1>4
      <4>. HIDE DEF r
      <4>. QED BY <1>2, <2>2, <3>2, <4>3, <4>5, <4>6 DEF RequestInv
    <3>. QED BY <3>1, <3>2
  <2>5. \A c \in Connection \ {current} : asked'[c] = asked[c]
    BY <1>4
  <2>. QED BY <1>1, <1>4, <2>3, <2>4, <2>5, ReceivedKeeps
<1>. QED BY <1>3, <1>4 DEF ProcessBeginRequest

(* The request that a record is received of, when the descriptor is of it. *)
LEMMA DescriptorsRequest ==
  ASSUME FastCgiInv, NEW type, Received(type), type \in {"params", "stdin"},
         dsc.id = Head(inbox[current]).id,
         RequestInv(current, dsc.id)
  PROVE  /\ NoBegin(Tail(inbox[current]), dsc.id)
         /\ Follows(inbox[current], dsc.id, dsc, asked[current][dsc.id])
<1>. DEFINE q == inbox[current]
<1>1. /\ q \in Seq(Record) /\ q # <<>> /\ Head(q).type = type
  BY ReceivedTail
<1>2. 1 \in Of(q, dsc.id)
  BY <1>1, OfTail
<1>3. ~BeginIsFirst(q, dsc.id)
  BY <1>1, FirstIsBegin
<1>4. NoBegin(q, dsc.id) /\ Follows(q, dsc.id, dsc, asked[current][dsc.id])
  BY <1>2, <1>3 DEF RequestInv
<1>5. NoBegin(Tail(q), dsc.id)
  <2>1. q \in Seq(Record) /\ q # <<>>
    BY <1>1
  <2>2. NoBegin(q, dsc.id)
    BY <1>4
  <2>. HIDE DEF q
  <2>3. \A k \in Of(Tail(q), dsc.id) : k + 1 \in Of(q, dsc.id) /\ Tail(q)[k] = q[k + 1]
    BY <2>1, OfTail
  <2>. QED BY <2>2, <2>3 DEF NoBegin
<1>. QED BY <1>4, <1>5

(* It is kept when the descriptor takes the record over. *)
LEMMA DescriptorKeeps ==
  ASSUME FastCgiInv, CallbackInv, api = "callback",
         NEW type, Received(type), type \in {"params", "stdin"},
         dsc.id = Head(inbox[current]).id,
         UNCHANGED <<up, asked>>, dsc'.id = dsc.id,
         Follows(inbox[current], dsc.id, dsc, asked[current][dsc.id])
           => Follows(Tail(inbox[current]), dsc.id, dsc', asked[current][dsc.id])
  PROVE  CallbackInv'
<1>1. /\ current \in Connection /\ current' = current /\ dsc.id \in Id
      /\ inbox'[current] = Tail(inbox[current])
  BY ReceivedTail
<1>2. dsc'.id # 0
  BY <1>1, FastCgiAssumption
<1>3. ASSUME NEW j \in Id, RequestInv(current, j)
      PROVE  RequestInv(current, j)'
  <2>1. CASE j # dsc.id
    BY <1>1, <1>3, <2>1, RequestPassed
  <2>2. CASE j = dsc.id
    <3>1. RequestInv(current, dsc.id)
      BY <1>3, <2>2
    <3>2. /\ NoBegin(Tail(inbox[current]), dsc.id)
          /\ Follows(inbox[current], dsc.id, dsc, asked[current][dsc.id])
      BY <3>1, DescriptorsRequest
    <3>. QED BY <1>1, <2>2, <3>2 DEF RequestInv
  <2>. QED BY <2>1, <2>2
<1>. QED BY <1>2, <1>3, ReceivedKeeps

(* Parameters that have been received are the descriptor's. *)
LEMMA ParamsKeep ==
  ASSUME FastCgiInv, CallbackInv, ProcessParams
  PROVE  CallbackInv'
<1>. DEFINE r == Head(inbox[current])
<1>1. api = "callback" /\ Received("params")
  BY DEF ProcessParams
<1>2. /\ current \in Connection /\ current' = current /\ phase' = phase
      /\ r \in Record /\ r.type = "params" /\ r.id \in Id
      /\ inbox[current] \in Seq(Record) /\ inbox[current] # <<>>
      /\ \A c \in Connection \ {current} : inbox'[c] = inbox[c]
  BY <1>1, ReceivedTail
<1>3. CASE Raise
  BY <1>1, <1>2, <1>3, EndedKeeps DEF Raise
<1>4. CASE /\ dsc.id = r.id
           /\ dsc' = [dsc EXCEPT !.headers = @ \cup ({r.body} \ {"end"})]
           /\ UNCHANGED <<up, asked, responders>>
  <2>1. r.body \in Name \cup {"end"}
    BY <1>2, RecordParts
  <2>2. /\ dsc'.id = dsc.id /\ dsc'.stdin = dsc.stdin
        /\ dsc'.headers = dsc.headers \cup ({r.body} \ {"end"})
    BY <1>4 DEF FastCgiInv, DscType
  <2>3. ASSUME Follows(inbox[current], dsc.id, dsc, asked[current][dsc.id])
        PROVE  Follows(Tail(inbox[current]), dsc.id, dsc', asked[current][dsc.id])
    BY <1>2, <1>4, <2>1, <2>2, <2>3, InboxTypes, ParamsReceived
  <2>. QED BY <1>1, <1>4, <2>2, <2>3, DescriptorKeeps
<1>. QED BY <1>3, <1>4 DEF ProcessParams

(* Dsc is of request a, that of identifier i, and nothing else; a answered  *)
(* as it asked.                                                            *)
IsOf(i, a) == dsc.id = i /\ dsc.headers = a.params /\ dsc.stdin = a.stdin
Answered(a) == [a EXCEPT !.state = "answered", !.answer = a.stdin]

(* So is its input, until the request has been received as a whole. *)
LEMMA StdinKeeps ==
  ASSUME FastCgiInv, CallbackInv, ProcessStdin
  PROVE  /\ CallbackInv'
         /\ asked' = asked
              \/ \E i \in Id :
                   /\ asked[current][i].state \in {"complete", "aborted"}
                   /\ IsOf(i, asked[current][i])
                   /\ asked' = [asked EXCEPT ![current][i] = Answered(asked[current][i])]
<1>. DEFINE r == Head(inbox[current])
<1>1. api = "callback" /\ Received("stdin")
  BY DEF ProcessStdin
<1>2. /\ current \in Connection /\ current' = current /\ phase' = phase
      /\ r \in Record /\ r.type = "stdin" /\ r.id \in Id
      /\ inbox[current] \in Seq(Record) /\ inbox[current] # <<>>
      /\ inbox'[current] = Tail(inbox[current])
      /\ \A c \in Connection \ {current} : inbox'[c] = inbox[c]
  BY <1>1, ReceivedTail
<1>3. CASE Raise
  <2>1. CallbackInv'
    BY <1>1, <1>2, <1>3, EndedKeeps DEF Raise
  <2>. QED BY <1>3, <2>1 DEF Raise
<1>4. CASE /\ dsc.id = r.id /\ r.body # "end"
           /\ dsc' = [dsc EXCEPT !.stdin = Append(@, r.body)]
           /\ UNCHANGED <<up, asked, responders>>
  <2>1. r.body \in Chunk
    BY <1>2, <1>4, RecordParts
  <2>2. /\ dsc'.id = dsc.id /\ dsc'.headers = dsc.headers
        /\ dsc'.stdin = Append(dsc.stdin, r.body)
    BY <1>4 DEF FastCgiInv, DscType
  <2>3. ASSUME Follows(inbox[current], dsc.id, dsc, asked[current][dsc.id])
        PROVE  Follows(Tail(inbox[current]), dsc.id, dsc', asked[current][dsc.id])
    BY <1>2, <1>4, <2>1, <2>2, <2>3, InboxTypes, ChunkReceived
  <2>4. CallbackInv'
    BY <1>1, <1>4, <2>2, <2>3, DescriptorKeeps
  <2>. QED BY <1>4, <2>4
<1>5. CASE /\ dsc.id = r.id /\ r.body = "end"
           /\ dsc' = Idle
           /\ asked' = [asked EXCEPT ![current][r.id].state = "answered",
                                    ![current][r.id].answer = dsc.output \o dsc.stdin]
           /\ UNCHANGED <<up, responders>>
  <2>. DEFINE a == asked[current][r.id]
  <2>1. /\ asked \in [Connection -> [Id -> Requests]] /\ a \in Requests
        /\ dsc.output = <<>> /\ dsc.headers \in SUBSET Name /\ dsc.stdin \in Seq(Chunk)
    BY <1>2 DEF FastCgiInv, WebTypes, DscType
  <2>2. RequestInv(current, r.id)
    <3>1. Live(current)
      BY <1>1, <1>2 DEF Live, Received, FastCgiInv, WebTypes
    <3>. QED BY <1>1, <1>2, <3>1 DEF CallbackInv
  <2>3. Follows(inbox[current], r.id, dsc, a)
    BY <1>1, <1>5, <2>2, DescriptorsRequest
  <2>4. /\ a.state \in {"complete", "aborted"}
        /\ dsc.headers = a.params /\ dsc.stdin = a.stdin
        /\ Of(Tail(inbox[current]), r.id) = {}
    BY <1>2, <1>5, <2>1, <2>3, EndReceived
  <2>5. IsOf(r.id, a)
    BY <1>5, <2>4 DEF IsOf
  <2>9. asked' = [asked EXCEPT ![current][r.id] = Answered(a)]
    <3>1. dsc.output \o dsc.stdin = a.stdin
      BY <2>1, <2>4, ConcatEmptySeq
    <3>. QED BY <1>2, <1>5, <2>1, <3>1 DEF Answered
  <2>6. ASSUME NEW j \in Id, RequestInv(current, j)
        PROVE  RequestInv(current, j)'
    <3>1. CASE j # r.id
      <4>1. asked'[current][j] = asked[current][j]
        BY <1>2, <2>9, <2>1, <3>1
      <4>. QED BY <1>1, <1>2, <1>5, <2>6, <3>1, <4>1, RequestPassed
    <3>2. CASE j = r.id
      <4>1. asked'[current][j].state = "answered"
        BY <1>2, <2>9, <2>1, <3>2 DEF Requests, Answered
      <4>. QED BY <1>2, <2>4, <3>2, <4>1 DEF RequestInv
    <3>. QED BY <3>1, <3>2
  <2>7. \A c \in Connection \ {current} : asked'[c] = asked[c]
    BY <2>9, <2>1
  <2>8. CallbackInv'
    BY <1>1, <1>5, <2>6, <2>7, ReceivedKeeps
  <2>. QED BY <1>2, <2>4, <2>5, <2>8, <2>9
<1>. QED BY <1>3, <1>4, <1>5 DEF ProcessStdin, ExecuteRequest, Reset

----------------------------------------------------------------------------
(* Every step. *)

(* Only the answer of the callback makes a request answered. *)
AnsweredAsAsked ==
  \A c \in Connection, i \in Id :
    asked[c][i].state # "answered" /\ asked'[c][i].state = "answered"
      => /\ asked[c][i].state \in {"complete", "aborted"}
         /\ dsc.id = i
         /\ dsc.headers = asked[c][i].params
         /\ dsc.stdin = asked[c][i].stdin
         /\ asked'[c][i].answer = asked[c][i].stdin

(* What the web server sends is not answered by that. *)
LEMMA SendAnswersNothing ==
  ASSUME FastCgiInv, NEW c \in Connection, NEW r \in Record, NEW a,
         a.state # "answered", Send(c, r, a)
  PROVE  AnsweredAsAsked
<1>1. asked \in [Connection -> [Id -> Requests]] /\ r.id \in Id
  BY RecordParts DEF FastCgiInv, WebTypes
<1>2. asked' = [asked EXCEPT ![c][r.id] = a]
  BY DEF Send
<1>3. ASSUME NEW e \in Connection, NEW i \in Id,
             asked[e][i].state # "answered", asked'[e][i].state = "answered"
      PROVE  FALSE
  <2>1. asked'[e][i] = asked[e][i] \/ asked'[e][i] = a
    BY <1>1, <1>2
  <2>. QED BY <1>3, <2>1
<1>. QED BY <1>3 DEF AnsweredAsAsked

(* The web server's steps. *)
LEMMA WebServerAsks ==
  ASSUME FastCgiInv, CallbackInv, WebServer
  PROVE  (api = "callback" => CallbackInv') /\ AnsweredAsAsked
<1>. PICK c \in Connection :
       \/ Connect(c) \/ Hangup(c)
       \/ \E i \in Id : SendBegin(c, i) \/ SendParams(c, i) \/ SendStdin(c, i) \/ SendAbort(c, i)
  BY DEF WebServer
<1>1. CASE Connect(c)
  <2>1. asked' = [asked EXCEPT ![c] = [i \in Id |-> Unasked]]
    BY <1>1 DEF Connect
  <2>2. \A e \in Connection : asked'[e] = asked[e] \/ asked'[e] = [i \in Id |-> Unasked]
    BY <2>1 DEF FastCgiInv, WebTypes
  <2>3. AnsweredAsAsked
    BY <2>2 DEF AnsweredAsAsked, Unasked
  <2>. QED BY <1>1, <2>3, ConnectKeeps
<1>2. CASE Hangup(c)
  <2>1. AnsweredAsAsked
    BY <1>2 DEF AnsweredAsAsked, Hangup
  <2>. QED BY <1>2, <2>1, HangupKeeps
<1>3. ASSUME NEW i \in Id, SendBegin(c, i)
      PROVE  (api = "callback" => CallbackInv') /\ AnsweredAsAsked
  <2>. PICK role \in {"responder", "authorizer"} :
         Send(c, [type |-> "begin", id |-> i, body |-> role], [Unasked EXCEPT !.state = "params"])
    BY <1>3 DEF SendBegin
  <2>1. [type |-> "begin", id |-> i, body |-> role] \in Record
    BY DEF Record
  <2>2. [Unasked EXCEPT !.state = "params"].state # "answered"
    BY DEF Unasked
  <2>3. AnsweredAsAsked
    BY <2>1, <2>2, SendAnswersNothing
  <2>. QED BY <1>3, <2>3, SendBeginKeeps
<1>4. ASSUME NEW i \in Id, SendParams(c, i)
      PROVE  (api = "callback" => CallbackInv') /\ AnsweredAsAsked
  <2>1. asked[c][i].state = "params" /\ asked[c][i] \in Requests
    BY <1>4, InboxTypes DEF SendParams
  <2>2. ASSUME NEW n \in Name \ asked[c][i].params,
               Send(c, [type |-> "params", id |-> i, body |-> n],
                    [asked[c][i] EXCEPT !.params = @ \cup {n}])
        PROVE  AnsweredAsAsked
    <3>1. [type |-> "params", id |-> i, body |-> n] \in Record
      BY DEF Record
    <3>2. [asked[c][i] EXCEPT !.params = @ \cup {n}].state # "answered"
      BY <2>1 DEF Requests
    <3>. QED BY <2>2, <3>1, <3>2, SendAnswersNothing
  <2>3. ASSUME Send(c, [type |-> "params", id |-> i, body |-> "end"],
                    [asked[c][i] EXCEPT !.state = "stdin"])
        PROVE  AnsweredAsAsked
    <3>1. [type |-> "params", id |-> i, body |-> "end"] \in Record
      BY DEF Record
    <3>2. [asked[c][i] EXCEPT !.state = "stdin"].state # "answered"
      BY <2>1 DEF Requests
    <3>. QED BY <2>3, <3>1, <3>2, SendAnswersNothing
  <2>4. AnsweredAsAsked
    BY <1>4, <2>2, <2>3 DEF SendParams
  <2>. QED BY <1>4, <2>4, SendParamsKeeps
<1>5. ASSUME NEW i \in Id, SendStdin(c, i)
      PROVE  (api = "callback" => CallbackInv') /\ AnsweredAsAsked
  <2>1. asked[c][i].state = "stdin" /\ asked[c][i] \in Requests
    BY <1>5, InboxTypes DEF SendStdin
  <2>2. ASSUME NEW n \in Chunk,
               Send(c, [type |-> "stdin", id |-> i, body |-> n],
                    [asked[c][i] EXCEPT !.stdin = Append(@, n)])
        PROVE  AnsweredAsAsked
    <3>1. [type |-> "stdin", id |-> i, body |-> n] \in Record
      BY DEF Record
    <3>2. [asked[c][i] EXCEPT !.stdin = Append(@, n)].state # "answered"
      BY <2>1 DEF Requests
    <3>. QED BY <2>2, <3>1, <3>2, SendAnswersNothing
  <2>3. ASSUME Send(c, [type |-> "stdin", id |-> i, body |-> "end"],
                    [asked[c][i] EXCEPT !.state = "complete"])
        PROVE  AnsweredAsAsked
    <3>1. [type |-> "stdin", id |-> i, body |-> "end"] \in Record
      BY DEF Record
    <3>2. [asked[c][i] EXCEPT !.state = "complete"].state # "answered"
      BY <2>1 DEF Requests
    <3>. QED BY <2>3, <3>1, <3>2, SendAnswersNothing
  <2>4. AnsweredAsAsked
    BY <1>5, <2>2, <2>3 DEF SendStdin
  <2>. QED BY <1>5, <2>4, SendStdinKeeps
<1>6. ASSUME NEW i \in Id, SendAbort(c, i)
      PROVE  (api = "callback" => CallbackInv') /\ AnsweredAsAsked
  <2>1. Send(c, [type |-> "abort", id |-> i, body |-> "end"],
             [asked[c][i] EXCEPT !.state = "aborted"])
    BY <1>6 DEF SendAbort
  <2>2. [type |-> "abort", id |-> i, body |-> "end"] \in Record
    BY DEF Record
  <2>3. [asked[c][i] EXCEPT !.state = "aborted"].state # "answered"
    BY InboxTypes DEF Requests
  <2>4. AnsweredAsAsked
    BY <2>1, <2>2, <2>3, SendAnswersNothing
  <2>. QED BY <1>6, <2>4, SendAbortKeeps
<1>. QED BY <1>1, <1>2, <1>3, <1>4, <1>5, <1>6

(* Every step keeps the invariant, and answers what was asked. *)
LEMMA StepAnswers ==
  ASSUME FastCgiInv, CallbackInv, [Next]_vars
  PROVE  CallbackInv' /\ AnsweredAsAsked
<1>1. api' = api
  <2>1. CASE WebServer
    <3>1. \A c, r, a : Send(c, r, a) => api' = api
      BY DEF Send
    <3>2. \A c : Connect(c) \/ Hangup(c) => api' = api
      BY DEF Connect, Hangup
    <3>3. \A c, i : SendBegin(c, i) \/ SendParams(c, i) => api' = api
      BY <3>1 DEF SendBegin, SendParams
    <3>4. \A c, i : SendStdin(c, i) \/ SendAbort(c, i) => api' = api
      BY <3>1 DEF SendStdin, SendAbort
    <3>. QED BY <2>1, <3>2, <3>3, <3>4 DEF WebServer
  <2>2. CASE Serving
    <3>1. CASE Accept \/ CloseSocket \/ ReceiveAbort
      BY <3>1 DEF Accept, CloseSocket, ReceiveAbort, Received
    <3>2. CASE ProcessBeginRequest \/ ProcessParams \/ ProcessStdin
      BY <3>2 DEF ProcessBeginRequest, ProcessParams, ProcessStdin, Received
    <3>3. CASE BeginRequest \/ InternalParams \/ InternalStdin
      BY <3>3 DEF BeginRequest, InternalParams, InternalStdin, Received
    <3>. QED BY <2>2, <3>1, <3>2, <3>3 DEF Serving
  <2>3. CASE Responding
    BY <2>3 DEF Responding, EndHeaders, Stdout, Stderr, Writing, Calling, Return, SendFails
  <2>4. CASE ReceivePart \/ Restart \/ UNCHANGED vars
    BY <2>4 DEF ReceivePart, Received, Restart, vars
  <2>. QED BY <2>1, <2>2, <2>3, <2>4 DEF Next
<1>2. CASE WebServer
  BY <1>1, <1>2, WebServerAsks DEF CallbackInv
<1>3. CASE ProcessStdin
  <2>1. ASSUME asked' = asked
        PROVE  AnsweredAsAsked
    BY <2>1 DEF AnsweredAsAsked
  <2>2. ASSUME NEW i \in Id,
               asked[current][i].state \in {"complete", "aborted"},
               IsOf(i, asked[current][i]),
               asked' = [asked EXCEPT ![current][i] = Answered(asked[current][i])]
        PROVE  AnsweredAsAsked
    <3>1. ASSUME NEW c \in Connection, NEW j \in Id, c # current \/ j # i
          PROVE  asked'[c][j] = asked[c][j]
      BY <2>2, <3>1 DEF FastCgiInv, WebTypes
    <3>2. ASSUME NEW c \in Connection, NEW j \in Id,
                 asked[c][j].state # "answered", asked'[c][j].state = "answered"
          PROVE  c = current /\ j = i
      BY <3>1, <3>2
    <3>3. ASSUME NEW c \in Connection, c = current
          PROVE  asked'[c][i].answer = asked[c][i].stdin
      <4>1. asked[c][i] \in Requests /\ asked'[c][i] = Answered(asked[c][i])
        BY <2>2, <3>3 DEF FastCgiInv, WebTypes
      <4>. QED BY <4>1 DEF Requests, Answered
    <3>. QED BY <2>2, <3>2, <3>3 DEF AnsweredAsAsked, IsOf
  <2>3. AnsweredAsAsked
    BY <1>3, <2>1, <2>2, StdinKeeps
  <2>. QED BY <1>3, <2>3, StdinKeeps
<1>4. CASE ~WebServer /\ ~ProcessStdin
  <2>1. asked' = asked
    BY <1>4 DEF Next, Serving, Responding, Accept, CloseSocket, ReceiveAbort, ReceivePart,
       Restart, ProcessBeginRequest, ProcessParams, BeginRequest, InternalParams,
       InternalStdin, EndHeaders, Stdout, Stderr, Writing, Calling, Return, SendFails,
       Received, Raise, web, vars
  <2>2. AnsweredAsAsked
    BY <2>1 DEF AnsweredAsAsked
  <2>3. CASE api # "callback"
    BY <1>1, <2>2, <2>3 DEF CallbackInv
  <2>4. ASSUME api = "callback", ReceivePart \/ SendFails
        PROVE  CallbackInv'
    <3>1. \A c \in Connection \ {current} : inbox'[c] = inbox[c]
      BY <2>4 DEF ReceivePart, SendFails, Received, FastCgiInv, WebTypes
    <3>. QED BY <2>1, <2>4, <3>1, EndedKeeps DEF ReceivePart, SendFails, Received, Raise
  <2>5. ASSUME api = "callback", EndHeaders \/ Stdout \/ Stderr \/ Return \/ UNCHANGED vars
        PROVE  CallbackInv'
    <3>1. UNCHANGED <<up, current, dsc, phase, inbox, asked>>
      BY <2>5 DEF EndHeaders, Stdout, Stderr, Writing, Calling, Return, web, vars
    <3>2. \A c \in Connection : Live(c)' => Live(c) /\ Stays(c)
      BY <3>1 DEF Live, Stays
    <3>3. dsc'.id = 0 => dsc' = Idle
      BY <2>5, <3>1 DEF CallbackInv
    <3>. QED BY <2>5, <3>2, <3>3, AllKept
  <2>6. CASE api = "callback"
    <3>1. ~BeginRequest /\ ~InternalParams /\ ~InternalStdin
      BY <2>6 DEF BeginRequest, InternalParams, InternalStdin
    <3>. QED BY <1>4, <2>2, <2>4, <2>5, <2>6, <3>1, AcceptKeeps, CloseSocketKeeps, AbortKeeps,
                BeginRequestKeeps, ParamsKeep, RestartKeeps DEF Next, Serving, Responding
  <2>. QED BY <2>3, <2>6
<1>. QED BY <1>2, <1>3, <1>4

(* Nothing is under way when everything starts. *)
LEMMA CallbackInitially == Init => CallbackInv
<1>. SUFFICES ASSUME Init PROVE CallbackInv
  OBVIOUS
<1>1. ASSUME NEW c \in Connection, NEW i \in Id
      PROVE  RequestInv(c, i)
  <2>1. inbox[c] = <<>> /\ asked[c][i] = Unasked
    BY DEF Init
  <2>2. Of(inbox[c], i) = {}
    BY <2>1 DEF Of
  <2>. QED BY <2>1, <2>2 DEF RequestInv, Unasked
<1>. QED BY <1>1 DEF CallbackInv, Init

(* The records that are under way and what the descriptor has of those     *)
(* before them are the request that the web server asked for, however      *)
(* connections and requests follow each other, end or fail.                *)
THEOREM CallbackInvariant == Spec => [](FastCgiInv /\ CallbackInv)
<1>1. Init => CallbackInv
  BY CallbackInitially
<1>2. FastCgiInv /\ CallbackInv /\ [Next]_vars => CallbackInv'
  BY StepAnswers
<1>. QED BY <1>1, <1>2, FastCgiInvariant, PTL DEF Spec

(* The callback is given the whole request that it answers, and nothing of *)
(* another.                                                                *)
THEOREM CallbackSeesRequest == Spec => HandlerSeesRequest
<1>1. FastCgiInv /\ CallbackInv /\ [Next]_vars => [AnsweredAsAsked]_vars
  BY StepAnswers
<1>2. Spec => [][AnsweredAsAsked]_vars
  BY <1>1, CallbackInvariant, PTL DEF Spec
<1>. QED BY <1>2 DEF HandlerSeesRequest, AnsweredAsAsked
=============================================================================
